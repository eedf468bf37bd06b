---------------------------- MODULE SlotPromise ----------------------------
(***************************************************************************)
(* What src/lib/poller/source-slots.ts promises its callers, with nothing  *)
(* of how: no Map, no gate objects, no counters and no queue order.        *)
(*                                                                         *)
(* At most Capacity executions hold a slot of one source; an execution     *)
(* waits only while all of them are taken; a slot that is given back goes  *)
(* to a waiter when there is one.                                          *)
(***************************************************************************)
EXTENDS Integers, FiniteSets

CONSTANTS Sources, Clients, SourceOf, Capacity

VARIABLE slot

Of(s, status) == {c \in Clients : SourceOf[c] = s /\ slot[c] = status}
Full(s) == Cardinality(Of(s, "held")) >= Capacity

PromiseInit == slot = [c \in Clients |-> "none"]

Take(c) ==
  /\ slot[c] = "none"
  /\ ~Full(SourceOf[c])
  /\ slot' = [slot EXCEPT ![c] = "held"]

Wait(c) ==
  /\ slot[c] = "none"
  /\ Full(SourceOf[c])
  /\ slot' = [slot EXCEPT ![c] = "waiting"]

GiveUp(c) ==
  /\ slot[c] = "waiting"
  /\ slot' = [slot EXCEPT ![c] = "skipped"]

GoOn(c) ==
  /\ slot[c] = "skipped"
  /\ slot' = [slot EXCEPT ![c] = "none"]

GiveBack(c) ==
  /\ slot[c] = "held"
  /\ IF Of(SourceOf[c], "waiting") = {}
     THEN slot' = [slot EXCEPT ![c] = "none"]
     ELSE \E w \in Of(SourceOf[c], "waiting") :
            slot' = [slot EXCEPT ![c] = "none", ![w] = "held"]

PromiseNext ==
  \E c \in Clients : Take(c) \/ Wait(c) \/ GiveUp(c) \/ GoOn(c) \/ GiveBack(c)

PromiseSpec == PromiseInit /\ [][PromiseNext]_slot
=============================================================================
