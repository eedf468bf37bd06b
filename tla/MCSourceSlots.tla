--------------------------- MODULE MCSourceSlots ---------------------------
(* Five executions: four on one source, one on another, two slots each.   *)
EXTENDS SourceSlots

CONSTANTS c1, c2, c3, c4, c5, s1, s2

MCClients == {c1, c2, c3, c4, c5}
MCSourceOf == [c \in MCClients |-> IF c = c5 THEN s2 ELSE s1]
=============================================================================
