------------------------- MODULE MCDashboardPoller -------------------------
(* Panels of different cadence that all query one source.                 *)
EXTENDS DashboardPoller

CONSTANT src

MCCadence == [p \in Panels |-> p]
MCSource == [p \in Panels |-> src]
=============================================================================
