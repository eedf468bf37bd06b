---------------------------- MODULE DuckDbEngines ----------------------------
(***************************************************************************)
(* The cache of DuckDB engines (src/lib/duckdb/client.ts), for one source: *)
(* the Map is keyed by source and its entries do not meet.  Queries look   *)
(* the engine up, open it, replace it when the source's path or allowlist  *)
(* changed, and hold it while they run; deleting the source and a shutdown *)
(* dispose of it.  Every await is a step: what was read before it may be   *)
(* stale after it.                                                         *)
(*                                                                         *)
(* A configuration stands for the engine key made of it.  An engine is one *)
(* opening of an instance.  Closing an instance again changes nothing.     *)
(***************************************************************************)
EXTENDS Integers, FiniteSets

CONSTANTS
  Queries,  \* calls of runPlan
  Deletes,  \* requests that delete the source
  Shutdown, \* the shutdown's call of closeDuckDbSources
  Engines,  \* openings: bounds how often the queries open one
  Configs   \* the configurations an edit can save

None == "none"

ASSUME EnginesAssumption ==
  /\ None \notin Engines /\ None \notin Configs
  /\ IsFiniteSet(Queries)
  /\ Queries \cap (Deletes \cup {Shutdown}) = {}

VARIABLES
  config,  \* the source's configuration; None when it is deleted
  map,     \* the source's entry in the Map of engines
  status,  \* engine -> where its opening is
  key,     \* engine -> the configuration it was opened for
  active,  \* engine -> the queries it counts
  retired, \* engines replaced or disposed of
  pc,      \* where a query or a disposal is
  at,      \* query or disposal -> the engine it awaits or holds
  want     \* query -> the configuration of the record it works with

engines == <<status, key, active, retired>>
calls == <<pc, at, want>>
vars == <<config, map, engines, calls>>

Disposals == Deletes \cup {Shutdown}
Callers == Queries \cup Disposals

EnginesTypeOK ==
  /\ config \in Configs \cup {None}
  /\ map \in Engines \cup {None}
  /\ status \in [Engines -> {"unused", "opening", "open", "failed", "closed"}]
  /\ key \in [Engines -> Configs]
  /\ active \in [Engines -> 0..Cardinality(Queries)]
  /\ retired \subseteq Engines
  /\ pc \in [Callers -> {"new", "preparing", "finding", "acquiring", "running", "done"}]
  /\ at \in [Callers -> Engines \cup {None}]
  /\ want \in [Queries -> Configs]

Init ==
  /\ config \in Configs
  /\ map = None
  /\ status = [e \in Engines |-> "unused"]
  /\ key = [e \in Engines |-> config]
  /\ active = [e \in Engines |-> 0]
  /\ retired = {}
  /\ pc = [c \in Callers |-> "new"]
  /\ at = [c \in Callers |-> None]
  /\ want = [q \in Queries |-> config]
-----------------------------------------------------------------------------
Go(c, place, e) ==
  /\ pc' = [pc EXCEPT ![c] = place]
  /\ at' = [at EXCEPT ![c] = e]

Settled(e) == status[e] \notin {"unused", "opening"}

\* Wrong: the instance is closed under the queries that hold it.
AfterRetireNow(e) == [status EXCEPT ![e] = IF @ = "failed" THEN @ ELSE "closed"]

\* retire(): an instance no query holds is closed at once.
AfterRetire(e) ==
  [status EXCEPT ![e] = IF @ = "failed" \/ active[e] > 0 THEN @ ELSE "closed"]

Retired(e) == IF status[e] = "failed" THEN retired ELSE retired \cup {e}

\* The next opening; which name it gets does not matter.
Fresh == CHOOSE e \in Engines : status[e] = "unused"
CanOpen == \E e \in Engines : status[e] = "unused"

\* engines.set(source.id, openEngine(...)): the query awaits its own opening.
Open(q) ==
  /\ map' = Fresh
  /\ key' = [key EXCEPT ![Fresh] = want[q]]
  /\ Go(q, "acquiring", Fresh)
-----------------------------------------------------------------------------
\* The caller has read the source's record and runs a plan with it.
RunPlan(q) ==
  /\ pc[q] = "new"
  /\ config # None
  /\ want' = [want EXCEPT ![q] = config]
  /\ Go(q, "preparing", None)
  /\ UNCHANGED <<config, map, engines>>

\* The binding does not load, or the path is refused.
PrepareFails(q) ==
  /\ pc[q] = "preparing"
  /\ Go(q, "done", None)
  /\ UNCHANGED <<config, map, engines, want>>

\* engineFor after its prepare: it awaits the entry it finds, or opens one.
Find(q) ==
  /\ pc[q] = "preparing"
  /\ map # None
  /\ Go(q, "finding", map)
  /\ UNCHANGED <<config, map, engines, want>>

OpenFirst(q) ==
  /\ pc[q] = "preparing"
  /\ map = None /\ CanOpen
  /\ status' = [status EXCEPT ![Fresh] = "opening"]
  /\ Open(q)
  /\ UNCHANGED <<config, active, retired, want>>

\* What it found has settled, and serves this configuration, or ...
Serves(q, e) == status[e] # "failed" /\ key[e] = want[q] /\ e \notin retired

FindsLive(q) ==
  /\ pc[q] = "finding" /\ Settled(at[q])
  /\ Serves(q, at[q])
  /\ Go(q, "acquiring", at[q])
  /\ UNCHANGED <<config, map, engines, want>>

\* Wrong: whatever the Map holds by now is taken out of it.
WithoutAny(e) == None

\* ... is taken out of the Map, if it is still there, and retired.
Without(e) == IF map = e THEN None ELSE map

\* The Map is looked at again: another query may have opened an engine, and
\* that one is taken without a look at what it was opened for.
TakesRaced(q) ==
  /\ pc[q] = "finding" /\ Settled(at[q])
  /\ ~Serves(q, at[q])
  /\ Without(at[q]) # None
  /\ map' = Without(at[q])
  /\ retired' = Retired(at[q])
  /\ status' = AfterRetire(at[q])
  /\ Go(q, "acquiring", Without(at[q]))
  /\ UNCHANGED <<config, key, active, want>>

Reopens(q) ==
  /\ pc[q] = "finding" /\ Settled(at[q])
  /\ ~Serves(q, at[q])
  /\ Without(at[q]) = None /\ CanOpen
  /\ retired' = Retired(at[q])
  /\ status' = [AfterRetire(at[q]) EXCEPT ![Fresh] = "opening"]
  /\ Open(q)
  /\ UNCHANGED <<config, active, want>>
-----------------------------------------------------------------------------
\* An opening ends.  One that failed takes itself out of the Map.
Opens(e) ==
  /\ status[e] = "opening"
  /\ status' = [status EXCEPT ![e] = "open"]
  /\ UNCHANGED <<config, map, key, active, retired, calls>>

OpeningFails(e) ==
  /\ status[e] = "opening"
  /\ status' = [status EXCEPT ![e] = "failed"]
  /\ map' = Without(e)
  /\ UNCHANGED <<config, key, active, retired, calls>>
-----------------------------------------------------------------------------
\* Wrong: a query takes what it awaited, whatever became of it meanwhile.
AcquireStale(q) ==
  /\ pc[q] = "acquiring" /\ Settled(at[q]) /\ status[at[q]] # "failed"
  /\ active' = [active EXCEPT ![at[q]] = @ + 1]
  /\ Go(q, "running", at[q])
  /\ UNCHANGED <<config, map, status, key, retired, want>>

\* acquire: counted in the turn it is found live.
Acquire(q) ==
  /\ pc[q] = "acquiring" /\ Settled(at[q])
  /\ status[at[q]] # "failed" /\ at[q] \notin retired
  /\ active' = [active EXCEPT ![at[q]] = @ + 1]
  /\ Go(q, "running", at[q])
  /\ UNCHANGED <<config, map, status, key, retired, want>>

\* One that was retired meanwhile is not taken: engineFor again.
LooksAgain(q) ==
  /\ pc[q] = "acquiring" /\ at[q] \in retired
  /\ Settled(at[q])
  /\ Go(q, "preparing", None)
  /\ UNCHANGED <<config, map, engines, want>>

\* The engine it awaits did not open: the query fails with it.
Throw(q) ==
  /\ pc[q] = "acquiring" /\ status[at[q]] = "failed"
  /\ Go(q, "done", None)
  /\ UNCHANGED <<config, map, engines, want>>

\* Wrong: the last query leaves a retired instance open.
ReleaseOnly(q) ==
  /\ pc[q] = "running"
  /\ active' = [active EXCEPT ![at[q]] = @ - 1]
  /\ Go(q, "done", None)
  /\ UNCHANGED <<config, map, status, key, retired, want>>

\* The statement returned, failed or was interrupted: the finally.
Release(q) ==
  /\ pc[q] = "running"
  /\ active' = [active EXCEPT ![at[q]] = @ - 1]
  /\ status' = [status EXCEPT ![at[q]] =
                  IF at[q] \in retired /\ active[at[q]] = 1 THEN "closed" ELSE @]
  /\ Go(q, "done", None)
  /\ UNCHANGED <<config, map, key, retired, want>>
-----------------------------------------------------------------------------
\* The routes: an edit or a delete commits, in any order with the above.
Edit(c) ==
  /\ config # None /\ c # config
  /\ config' = c
  /\ UNCHANGED <<map, engines, calls>>

Delete ==
  /\ config # None
  /\ config' = None
  /\ UNCHANGED <<map, engines, calls>>

InFlight == {q \in Queries : pc[q] \notin {"new", "done"}}

\* disposeDuckDbSource, by a delete that committed, or by the shutdown, which
\* waited until nothing was in flight.
Dispose(d) ==
  /\ pc[d] = "new"
  /\ IF d = Shutdown THEN InFlight = {} ELSE config = None
  /\ map' = None
  /\ IF map = None THEN Go(d, "done", None) ELSE Go(d, "finding", map)
  /\ UNCHANGED <<config, engines, want>>

\* The entry it took has settled.
DisposeRetires(d) ==
  /\ pc[d] = "finding" /\ Settled(at[d])
  /\ retired' = Retired(at[d])
  /\ status' = AfterRetire(at[d])
  /\ Go(d, "done", None)
  /\ UNCHANGED <<config, map, key, active, want>>
-----------------------------------------------------------------------------
Next ==
  \/ \E q \in Queries : \/ RunPlan(q) \/ PrepareFails(q)
                        \/ Find(q) \/ OpenFirst(q)
                        \/ FindsLive(q) \/ TakesRaced(q) \/ Reopens(q)
                        \/ Acquire(q) \/ LooksAgain(q) \/ Throw(q) \/ Release(q)
  \/ \E e \in Engines : Opens(e) \/ OpeningFails(e)
  \/ \E c \in Configs : Edit(c)
  \/ Delete
  \/ \E d \in Disposals : Dispose(d) \/ DisposeRetires(d)

\* A statement ends, if need be by its timer.
Fairness == \A q \in Queries : WF_vars(Release(q))

Spec == Init /\ [][Next]_vars /\ Fairness
-----------------------------------------------------------------------------
\* No instance is closed under a query: "a retire in between can never close it
\* under the query".
InUseIsOpen == \A q \in Queries : pc[q] = "running" => status[at[q]] = "open"

\* Every instance that is open, or opening, is one somebody will close: the
\* Map's, one a disposal has taken and awaits, or a retired one that counts a
\* query.  A retired or disposed engine that nobody closes keeps its memory.
NoStray ==
  \A e \in Engines : status[e] \in {"opening", "open"} =>
    \/ e = map
    \/ \E d \in Disposals : pc[d] = "finding" /\ at[d] = e
    \/ e \in retired /\ active[e] > 0

\* An engine that was replaced or disposed of counts no query more: the ones
\* that had awaited it look again.
RetiredTakesNone ==
  [][\A e \in retired : active'[e] <= active[e]]_vars

\* A retired instance closes with the queries it still counts.
RetiredCloses == \A e \in Engines : e \in retired ~> status[e] = "closed"

\* A deleted source has no engine once its deletes and the queries that were
\* under way are over: "nothing will check them out again, so close them now".
GoneWhenDeleted ==
  /\ config = None
  /\ \A c \in Queries \cup Deletes : pc[c] \in {"new", "done"}
  /\ \E d \in Deletes : pc[d] = "done"
  => \A e \in Engines : status[e] # "open"
=============================================================================
