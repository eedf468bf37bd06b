---------------------------- MODULE MCStreamGuard ----------------------------
(* Three streams: two of one realm session, the third of another. *)
EXTENDS StreamGuard

CONSTANTS s1, s2, s3, a1, a2

MCStreams == {s1, s2, s3}
MCSessionOf == [s \in MCStreams |-> IF s = s3 THEN a2 ELSE a1]
=============================================================================
