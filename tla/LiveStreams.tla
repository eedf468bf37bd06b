----------------------------- MODULE LiveStreams -----------------------------
(***************************************************************************)
(* The streams of one dashboard's viewers and the pollers they share: the  *)
(* stream route, the poller registry (src/lib/poller/registry.ts), one     *)
(* viewer's stream (src/lib/sse-stream.ts), the routes that save and       *)
(* delete the dashboard, and the drain at shutdown.                        *)
(*                                                                         *)
(* A stream is one connection and is used once.  A poller is named by the  *)
(* stream whose getPoller created it, so its key and its version are that  *)
(* stream's.  What a cycle runs is in DashboardPoller; here it only ends.  *)
(* When and why the guard of a stream ends it is in StreamGuard; here it   *)
(* may at any time.                                                        *)
(***************************************************************************)
EXTENDS Integers, FiniteSets

CONSTANTS
  Streams,    \* connections
  Keys,       \* registry keys: a window, a row scope and variable values
  Selections, \* the keys the viewers may have picked: [Streams -> Keys]s
  MaxPollers, \* pollerLimit()
  SlowTicks,  \* SSE_SLOW_TICKS
  LastVersion \* bound on the dashboard's saves

None == "none"
Deleted == 0

ASSUME StreamsAssumption ==
  /\ None \notin Streams
  /\ Selections \subseteq [Streams -> Keys]
  /\ MaxPollers \in Nat \ {0} /\ SlowTicks \in Nat \ {0} /\ LastVersion \in Nat \ {0}

VARIABLES
  version,    \* the dashboard's current version; Deleted when it is gone
  unsettled,  \* saves and deletes committed, invalidatePoller still to come
  drain,      \* how far a shutdown has come
  phase,      \* where a stream's request is
  key, seen,  \* the key and the version a stream's request works with
  registry,   \* Keys -> poller
  running,    \* pollers started and not stopped
  cycling,    \* pollers that run cycles, or stopped with one in flight
  ticked,     \* pollers with a completed cycle, which a joiner is sent
  sub,        \* stream -> the poller that has it as a subscriber
  behind,     \* stream -> cycles in a row it was behind at
  hooks,      \* streams with a drain hook
  guarded     \* streams with a guard that is not done

routes  == <<version, unsettled, drain>>
request == <<key, seen>>
pollers == <<registry, running, cycling, ticked>>
stream  == <<phase, sub, behind, hooks, guarded>>
vars == <<routes, request, pollers, stream>>

StreamsTypeOK ==
  /\ version \in 0..LastVersion /\ unsettled \in 0..LastVersion
  /\ drain \in {"no", "begun", "stopped", "done"}
  /\ phase \in [Streams -> {"new", "lookup", "opening", "open", "closed", "refused"}]
  /\ key \in [Streams -> Keys] /\ seen \in [Streams -> 0..LastVersion]
  /\ registry \in [Keys -> Streams \cup {None}]
  /\ running \subseteq Streams /\ cycling \subseteq Streams /\ ticked \subseteq Streams
  /\ sub \in [Streams -> Streams \cup {None}]
  /\ behind \in [Streams -> 0..(SlowTicks - 1)]
  /\ hooks \subseteq Streams /\ guarded \subseteq Streams

Init ==
  /\ version = 1 /\ unsettled = 0 /\ drain = "no"
  /\ phase = [s \in Streams |-> "new"]
  /\ key \in Selections
  /\ seen = [s \in Streams |-> 0]
  /\ registry = [k \in Keys |-> None]
  /\ running = {} /\ cycling = {} /\ ticked = {}
  /\ sub = [s \in Streams |-> None] /\ behind = [s \in Streams |-> 0]
  /\ hooks = {} /\ guarded = {}
-----------------------------------------------------------------------------
Subscribers(p) == {s \in Streams : sub[s] = p}
Open == {s \in Streams : phase[s] = "open"}
Registered == {p \in Streams : registry[key[p]] = p}

\* Wrong: stop() deletes its key, whoever is registered under it.
UnregisterKey(stopped) ==
  registry' = [k \in Keys |-> IF \E p \in stopped : key[p] = k THEN None ELSE registry[k]]

\* stop(), of the registry: a poller removes itself and no other.
Unregister(stopped) ==
  registry' = [k \in Keys |-> IF registry[k] \in stopped THEN None ELSE registry[k]]

StopPollers(stopped) ==
  /\ running' = running \ stopped
  /\ Unregister(stopped)

\* Wrong: the poller stops with any subscriber.
AbandonedByFirst(S) == {p \in Streams : Subscribers(p) \cap S # {}}

\* Wrong: a poller outlives its subscribers.
AbandonedByNone(S) == {p \in S : FALSE}

\* The pollers that lose their last subscriber with S.
AbandonedBy(S) ==
  {p \in Streams : Subscribers(p) # {} /\ Subscribers(p) \subseteq S}

\* The streams S end: each unsubscribes, and a poller left with none stops.
End(S) ==
  /\ phase' = [s \in Streams |-> IF s \in S THEN "closed" ELSE phase[s]]
  /\ sub' = [s \in Streams |-> IF s \in S THEN None ELSE sub[s]]
  /\ StopPollers(AbandonedBy(S))

\* Wrong: close() does not detach.
CloseUndetached(S) == End(S \cap Open) /\ UNCHANGED <<hooks, guarded>>

\* handle.close() of those of S that are open.
Close(S) ==
  /\ End(S \cap Open)
  /\ hooks' = hooks \ (S \cap Open)
  /\ guarded' = guarded \ (S \cap Open)
-----------------------------------------------------------------------------
\* The request's identity is verified.
ConnectRequest(s) ==
  /\ phase[s] = "new"
  /\ phase' = [phase EXCEPT ![s] = "lookup"]
  /\ UNCHANGED <<routes, request, pollers, sub, behind, hooks, guarded>>

\* getDashboardById answers.
LookUp(s) ==
  /\ phase[s] = "lookup"
  /\ phase' = [phase EXCEPT ![s] = IF version = Deleted THEN "refused" ELSE "opening"]
  /\ seen' = [seen EXCEPT ![s] = version]
  /\ UNCHANGED <<routes, key, pollers, sub, behind, hooks, guarded>>

\* Wrong: any registered poller will do.
ReuseAny(s, p) == p # None

\* getPoller hands out the registered poller unless its version is older.
Reuse(s, p) == p # None /\ seen[p] >= seen[s]

AtCapacity(s) ==
  registry[key[s]] = None /\ Cardinality(Registered) >= MaxPollers

\* getPoller throws: the viewer is told that the pollers are at their limit.
Refuse(s) ==
  /\ phase[s] = "opening"
  /\ AtCapacity(s)
  /\ phase' = [phase EXCEPT ![s] = "refused"]
  /\ UNCHANGED <<routes, request, pollers, sub, behind, hooks, guarded>>

\* The last awaits are over and the stream starts: getPoller, subscribe with
\* its catch-up, and attach, with no await between them.  The catch-up's tick
\* may find the buffer full; a client that has gone meanwhile closes it again.
OpenStream(s) ==
  /\ phase[s] = "opening"
  /\ ~AtCapacity(s)
  /\ LET old == registry[key[s]]
         p   == IF Reuse(s, old) THEN old ELSE s
         starts == p \notin running
     IN
     /\ \E full, leaves \in BOOLEAN :
          LET slow == p \in ticked /\ full
              drops == slow /\ SlowTicks = 1
          IN
          /\ phase' = [phase EXCEPT ![s] = IF drops \/ leaves THEN "closed" ELSE "open"]
          /\ behind' = [behind EXCEPT ![s] = IF slow /\ ~drops THEN 1 ELSE 0]
          \* A close inside subscribe comes before there is anything to undo,
          \* and the close for an abort after it is then ignored.
          /\ LET undone == leaves /\ ~drops
                 stays == Subscribers(p) # {} \/ ~undone
             IN
             /\ sub' = [sub EXCEPT ![s] = IF undone THEN None ELSE p]
             /\ hooks' = IF undone THEN hooks ELSE hooks \cup {s}
             /\ guarded' = IF undone THEN guarded ELSE guarded \cup {s}
             /\ running' = (running \ {old}) \cup (IF stays THEN {p} ELSE {})
             /\ registry' = [registry EXCEPT ![key[s]] = IF stays THEN p ELSE None]
             /\ cycling' = IF starts THEN cycling \cup {p} ELSE cycling
  /\ UNCHANGED <<routes, request, ticked>>

\* The client of an open stream goes away.
Leave(s) ==
  /\ s \in Open
  /\ Close({s})
  /\ UNCHANGED <<routes, request, cycling, ticked, behind>>
-----------------------------------------------------------------------------
\* A poller's cycle completes, also after a stop, and every subscriber is
\* sent the tick.  The ones that do not read fall behind, and are dropped at SlowTicks.
EndCycle(p) ==
  /\ p \in cycling
  /\ cycling' = cycling \ ({p} \ running)
  /\ ticked' = ticked \cup {p}
  /\ \E slow \in SUBSET (Subscribers(p) \cap Open) :
       LET dropped == {s \in slow : behind[s] + 1 >= SlowTicks} IN
       /\ behind' = [s \in Streams |->
                       IF s \notin Subscribers(p) THEN behind[s]
                       ELSE IF s \in slow \ dropped THEN behind[s] + 1 ELSE 0]
       /\ Close(dropped)
  /\ UNCHANGED <<routes, request>>
-----------------------------------------------------------------------------
\* The guard is done and its onEnd closes the stream, which detaches the rest.
GuardEnds(s) ==
  /\ s \in guarded
  /\ guarded' = guarded \ {s}
  /\ End({s} \cap Open)
  /\ hooks' = hooks \ ({s} \cap Open)
  /\ UNCHANGED <<routes, request, cycling, ticked, behind>>
-----------------------------------------------------------------------------
\* saveDashboardVersion or softDeleteDashboard commits.
Save ==
  /\ version # Deleted /\ version < LastVersion
  /\ version' = version + 1
  /\ unsettled' = unsettled + 1
  /\ UNCHANGED <<drain, request, pollers, stream>>

Delete ==
  /\ version # Deleted
  /\ version' = Deleted
  /\ unsettled' = unsettled + 1
  /\ UNCHANGED <<drain, request, pollers, stream>>

\* invalidatePoller: the dashboard's registered pollers stop.
Invalidate ==
  /\ unsettled > 0
  /\ unsettled' = unsettled - 1
  /\ StopPollers(Registered)
  /\ UNCHANGED <<version, drain, request, cycling, ticked, stream>>

\* A shutdown: the drain flag, stopAllPollers, then the drain hooks.
BeginDrain ==
  /\ drain = "no"
  /\ drain' = "begun"
  /\ UNCHANGED <<version, unsettled, request, pollers, stream>>

StopAllPollers ==
  /\ drain = "begun"
  /\ drain' = "stopped"
  /\ StopPollers(Registered)
  /\ UNCHANGED <<version, unsettled, request, cycling, ticked, stream>>

RunHooks ==
  /\ drain = "stopped"
  /\ drain' = "done"
  /\ End(hooks \cap Open)
  /\ hooks' = {}
  /\ guarded' = guarded \ (hooks \cap Open)
  /\ UNCHANGED <<version, unsettled, request, cycling, ticked, behind>>
-----------------------------------------------------------------------------
Next ==
  \/ \E s \in Streams : \/ ConnectRequest(s) \/ LookUp(s) \/ Refuse(s)
                        \/ OpenStream(s) \/ Leave(s)
  \/ \E p \in Streams : EndCycle(p)
  \/ \E s \in Streams : GuardEnds(s)
  \/ Save \/ Delete \/ Invalidate \/ BeginDrain \/ StopAllPollers \/ RunHooks

\* The guard of a deleted dashboard's stream ends it at a later check.  Nothing
\* obliges a client to leave, a cycle to end or anyone to save.
Fairness == \A s \in Streams : WF_vars(version = Deleted /\ GuardEnds(s))

Spec == Init /\ [][Next]_vars /\ Fairness
-----------------------------------------------------------------------------
\* A stream that closed, whichever of its seven ends came first, has left
\* nothing behind: no subscription that keeps a poller running, no drain hook,
\* no guard.  And an open one has all three.
NothingLeft ==
  /\ {s \in Streams : sub[s] # None} = Open
  /\ hooks = Open
  /\ guarded = Open

\* The registry accounts for every poller that runs, so that the cap counts
\* them, one key has one poller and invalidatePoller and stopAllPollers reach
\* all of them; and each has a viewer.  A poller that was replaced while it had
\* subscribers stops again with its last one, after its successor registered.
PollersAccounted ==
  /\ running = Registered
  /\ \A p \in Registered : Subscribers(p) # {}
  /\ Cardinality(running) <= MaxPollers

\* A viewer is attached to a poller of its own selection, and never of an older
\* version than the one its request read and was audited for.
SharesItsPoller ==
  \A s \in Open : key[sub[s]] = key[s] /\ seen[sub[s]] >= seen[s]

\* A poller stops under viewers that stay only for a save, a delete, a newer
\* version of its key or a shutdown: "Only this subscriber is closed; the
\* others on the same poller carry on".
OthersCarryOn ==
  [][\A p \in running :
       (p \notin running' /\ \E s \in Streams : sub'[s] = p) =>
         \/ unsettled' < unsettled
         \/ drain' # drain
         \/ \E s \in Streams : /\ phase[s] = "opening" /\ phase'[s] # "opening"
                               /\ key[s] = key[p] /\ seen[s] > seen[p]]_vars

\* A deleted dashboard's statements stop running for good, also when a request
\* that had read the dashboard opens its stream after invalidatePoller.
DeletedStopsRunning == version = Deleted ~> [](running = {})
=============================================================================
