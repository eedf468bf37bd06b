--------------------------- MODULE MCDuckDbEngines ---------------------------
(* Instances of DuckDbEngines. *)
EXTENDS DuckDbEngines
=============================================================================
