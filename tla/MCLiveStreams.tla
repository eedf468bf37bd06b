---------------------------- MODULE MCLiveStreams ----------------------------
(* Three viewers: two of the same window, the third of one of its own. *)
EXTENDS LiveStreams

CONSTANTS s1, s2, s3, k1, k2

MCStreams == {s1, s2, s3}
MCSelections == {[s \in MCStreams |-> IF s = s3 THEN k2 ELSE k1]}
=============================================================================
