-------------------------- MODULE DashboardPoller --------------------------
(***************************************************************************)
(* One shared poller of a dashboard (src/lib/poller/registry.ts): its      *)
(* cycle, the executions of its panels, viewers' manual retries, failure   *)
(* backoff, and the source slots every execution waits for.                *)
(*                                                                         *)
(* JavaScript runs each synchronous stretch to its next await before       *)
(* anything else.  An action is one such stretch; a stretch that starts    *)
(* several executions is the action that decides on them followed by one   *)
(* Launch for each, and nothing else is enabled while some are left.  A    *)
(* continuation whose promise has settled runs before the next timer,      *)
(* request or answer from a socket.                                        *)
(*                                                                         *)
(* Time is abstract: a timer fires some time after it is set, and a        *)
(* panel's backoff passes from "fresh" (just attempted) to "floor" (a      *)
(* manual retry is allowed) to "due" (its retryAt has come).  Intervals    *)
(* are at least MIN_REFRESH_INTERVAL_MS, so the floor comes first.         *)
(***************************************************************************)
EXTENDS Integers, Sequences, FiniteSets

CONSTANTS
  Panels,       \* panels with a query
  CadenceOf,    \* a panel's refresh interval; panels sharing one run together
  PanelSource,  \* the source a panel queries
  Viewers,      \* subscribers
  Retries,      \* manual retries that may be pending on a panel (bound)
  Threshold,    \* POLLER_FAILURE_THRESHOLD
  Sources, Gates, NoGate, Capacity

ASSUME PollerAssumption ==
  /\ Panels # {}
  /\ PanelSource \in [Panels -> Sources]
  /\ Threshold \in Nat \ {0}
  /\ "tick" \notin Retries
  /\ NoGate \notin Gates
  /\ Capacity \in Nat \ {0}

\* An execution of a panel: the cycle's own, or one a viewer's retry started.
Runs == Panels \X ({"tick"} \cup Retries)
PanelOf(r) == r[1]
TickRun(p) == <<p, "tick">>
RunSource == [r \in Runs |-> PanelSource[PanelOf(r)]]

VARIABLES
  gates, inFlight, queue, slot, captured,  \* the source slots
  run,        \* execution -> where its runPanel is
  executing,  \* the `executing` set
  failures,   \* health.failures, counted up to Threshold
  backoff,    \* health.retryAt and lastAttemptAt against the clock
  latest,     \* panel -> what a joiner is sent for it
  life,       \* new until the first subscriber; running; stopped for good
  subscribers,
  timer,      \* this.timer: null, a pending timeout, or one that has fired
  ticking,
  launching   \* panels the running stretch of tick() has yet to start

Slots == INSTANCE SourceSlots WITH Clients <- Runs, SourceOf <- RunSource

slotVars == <<gates, inFlight, queue, slot, captured>>
panelVars == <<run, executing, failures, backoff, latest>>
loopVars == <<life, subscribers, timer, ticking, launching>>
vars == <<slotVars, panelVars, loopVars>>

Cadences == {CadenceOf[p] : p \in Panels}

PollerTypeOK ==
  /\ run \in [Runs -> {"idle", "acquiring", "executing"}]
  /\ executing \subseteq Panels
  /\ failures \in [Panels -> 0..Threshold]
  /\ backoff \in [Panels -> {"none", "fresh", "floor", "due"}]
  /\ latest \in [Panels -> {"none", "rows", "error", "degraded", "window"}]
  /\ life \in {"new", "running", "stopped"}
  /\ subscribers \subseteq Viewers
  /\ timer \in {"null", "armed", "fired"}
  /\ ticking \in BOOLEAN
  /\ launching \subseteq Panels

Init ==
  /\ Slots!SlotsInit
  /\ run = [r \in Runs |-> "idle"]
  /\ executing = {}
  /\ failures = [p \in Panels |-> 0]
  /\ backoff = [p \in Panels |-> "none"]
  /\ latest = [p \in Panels |-> "none"]
  /\ life = "new"
  /\ subscribers = {}
  /\ timer = "null"
  /\ ticking = FALSE
  /\ launching = {}

Running == life = "running"
\* No stretch has executions left to start: continuations may run.
StackEmpty == launching = {}
\* No execution's acquire has settled without its continuation having run: a
\* timer, a request or a closed connection may be handled.
Settled ==
  /\ StackEmpty
  /\ \A r \in Runs : run[r] = "acquiring" => slot[r] = "waiting"
-----------------------------------------------------------------------------
\* runPanel up to its first await.  A window of the panel's own that does not
\* resolve is published and ends it; otherwise it asks for a slot.
StartRun(r) ==
  \/ /\ latest' = [latest EXCEPT ![PanelOf(r)] = "window"]
     /\ UNCHANGED <<run, slotVars>>
  \/ /\ Slots!Acquire(r)
     /\ run' = [run EXCEPT ![r] = "acquiring"]
     /\ UNCHANGED latest

\* Which panels of the due cadences this cycle executes: one backing off sits
\* out until its retryAt, and one executing is left alone.
DuePanels(due) ==
  {p \in Panels : /\ CadenceOf[p] \in due
                  /\ backoff[p] \in {"none", "due"}
                  /\ p \notin executing}

ScheduleNext(alive, subs) ==
  timer' = IF alive /\ subs # {} THEN "armed" ELSE timer

\* A timer fires for some of the cadences; the first cycle runs them all.
Dues == IF Running THEN SUBSET Cadences \ {{}} ELSE {Cadences}

\* Wrong: a cycle that fails is not rescheduled (#140).
TickLosesFailedCycle(subs) ==
  /\ subs \subseteq Viewers
  /\ \/ /\ \E due \in Dues : launching' = DuePanels(due)
        /\ ticking' = TRUE
        /\ timer' = IF timer = "armed" THEN "fired" ELSE timer
     \/ /\ ticking' = FALSE
        /\ launching' = {}
        /\ timer' = IF timer = "armed" THEN "fired" ELSE timer

\* tick() up to its first await, for subscribers subs.  A dashboard range
\* that does not resolve fails the cycle at once, and it is rescheduled.
Tick(subs) ==
  \/ /\ \E due \in Dues : launching' = DuePanels(due)
     /\ ticking' = TRUE
     /\ timer' = IF timer = "armed" THEN "fired" ELSE timer
  \/ /\ ticking' = FALSE
     /\ launching' = {}
     /\ ScheduleNext(TRUE, subs)

Launch(p) ==
  /\ p \in launching
  /\ launching' = launching \ {p}
  /\ StartRun(TickRun(p))
  /\ UNCHANGED <<executing, failures, backoff, life, subscribers, timer, ticking>>

TimerFires ==
  /\ Settled
  /\ Running
  /\ timer = "armed"
  /\ Tick(subscribers)
  /\ UNCHANGED <<slotVars, panelVars, life, subscribers>>

\* Every panel of the cycle is done: the cycle completes and the next is set.
CompleteTick ==
  /\ StackEmpty
  /\ ticking
  /\ \A p \in Panels : run[TickRun(p)] = "idle"
  /\ ticking' = FALSE
  /\ ScheduleNext(Running, subscribers)
  /\ UNCHANGED <<slotVars, panelVars, life, subscribers, launching>>
-----------------------------------------------------------------------------
\* The slot's timer: acquire resolves with null.
SlotTimesOut(r) ==
  /\ Settled
  /\ Slots!TimeOut(r)
  /\ UNCHANGED <<panelVars, loopVars>>

\* No slot came free: the panel says it is waiting and keeps what it shows.
SkipRun(r) ==
  /\ StackEmpty
  /\ run[r] = "acquiring"
  /\ Slots!Skip(r)
  /\ run' = [run EXCEPT ![r] = "idle"]
  /\ UNCHANGED <<executing, failures, backoff, latest, loopVars>>

\* runPanel after its await: it has the slot, and its statement is issued.
Execute(r) ==
  /\ StackEmpty
  /\ run[r] = "acquiring"
  /\ slot[r] = "held"
  /\ run' = [run EXCEPT ![r] = "executing"]
  /\ executing' = executing \cup {PanelOf(r)}
  /\ UNCHANGED <<slotVars, failures, backoff, latest, loopVars>>

\* The finally of runPanel.
FinishRun(r) ==
  /\ StackEmpty
  /\ run[r] = "executing"
  /\ run' = [run EXCEPT ![r] = "idle"]
  /\ executing' = executing \ {PanelOf(r)}
  /\ Slots!Release(r)
  /\ UNCHANGED loopVars

\* Wrong: a success leaves the panel's health as it was.
SucceedKeepsHealth(r) ==
  /\ FinishRun(r)
  /\ \E event \in {"rows", "error"} :
       latest' = [latest EXCEPT ![PanelOf(r)] = event]
  /\ UNCHANGED <<failures, backoff>>

\* The executor answered, with rows or with a refusal it reports itself:
\* either clears the panel's health.
Succeed(r) ==
  /\ FinishRun(r)
  /\ failures' = [failures EXCEPT ![PanelOf(r)] = 0]
  /\ backoff' = [backoff EXCEPT ![PanelOf(r)] = "none"]
  /\ \E event \in {"rows", "error"} :
       latest' = [latest EXCEPT ![PanelOf(r)] = event]

\* The executor threw: the failure is counted, and from the threshold on the
\* panel backs off.  Its floor runs from the start of the attempt, so a slow
\* one may be past it already.
Fail(r) ==
  LET p == PanelOf(r)
      n == IF failures[p] < Threshold THEN failures[p] + 1 ELSE Threshold
  IN
  /\ FinishRun(r)
  /\ failures' = [failures EXCEPT ![p] = n]
  /\ \/ /\ n < Threshold
        /\ backoff' = [backoff EXCEPT ![p] = "none"]
        /\ latest' = [latest EXCEPT ![p] = "error"]
     \/ /\ n = Threshold
        /\ \E stage \in {"fresh", "floor"} :
             backoff' = [backoff EXCEPT ![p] = stage]
        /\ latest' = [latest EXCEPT ![p] = "degraded"]

\* Wrong: returns without the finally.
BusyKeepsSlot(r) ==
  /\ StackEmpty
  /\ run[r] = "executing"
  /\ run' = [run EXCEPT ![r] = "idle"]
  /\ UNCHANGED <<slotVars, executing, failures, backoff, latest, loopVars>>

\* Every connection of the pool was busy: a wait, not a failure.
Busy(r) ==
  /\ FinishRun(r)
  /\ UNCHANGED <<failures, backoff, latest>>

TimePasses(p) ==
  /\ Settled
  /\ \/ backoff[p] = "fresh" /\ backoff' = [backoff EXCEPT ![p] = "floor"]
     \/ backoff[p] = "floor" /\ backoff' = [backoff EXCEPT ![p] = "due"]
  /\ UNCHANGED <<slotVars, run, executing, failures, latest, loopVars>>
-----------------------------------------------------------------------------
\* Wrong: does not look at `running`.
RetryWhenStopped(p) ==
  /\ Settled
  /\ p \notin executing
  /\ backoff[p] \in {"floor", "due"}
  /\ \E k \in Retries : run[<<p, k>>] = "idle" /\ StartRun(<<p, k>>)
  /\ UNCHANGED <<executing, failures, backoff, loopVars>>

\* A viewer's "retry now" on a panel that is backing off.
Retry(p) ==
  /\ Settled
  /\ Running
  /\ p \notin executing
  /\ backoff[p] \in {"floor", "due"}
  /\ \E k \in Retries : run[<<p, k>>] = "idle" /\ StartRun(<<p, k>>)
  /\ UNCHANGED <<executing, failures, backoff, loopVars>>

\* A viewer's stream subscribes; the first starts the loop.
Subscribe(v) ==
  /\ Settled
  /\ life # "stopped"
  /\ v \notin subscribers
  /\ subscribers' = subscribers \cup {v}
  /\ life' = "running"
  /\ IF Running THEN UNCHANGED <<timer, ticking, launching>>
                ELSE Tick(subscribers')
  /\ UNCHANGED <<slotVars, panelVars>>

Stop ==
  /\ life' = "stopped"
  /\ timer' = "null"

\* A stream closes; the last one stops the poller.
Unsubscribe(v) ==
  /\ Settled
  /\ v \in subscribers
  /\ subscribers' = subscribers \ {v}
  /\ IF subscribers' = {} THEN Stop ELSE UNCHANGED <<life, timer>>
  /\ UNCHANGED <<slotVars, panelVars, ticking, launching>>

\* A new version saved, the dashboard deleted, or the process draining stops
\* the poller under its subscribers.
StopUnderSubscribers ==
  /\ Settled
  /\ Running
  /\ Stop
  /\ UNCHANGED <<slotVars, panelVars, subscribers, ticking, launching>>

Next ==
  \/ \E p \in Panels : Launch(p) \/ TimePasses(p) \/ Retry(p)
  \/ \E r \in Runs : SlotTimesOut(r) \/ SkipRun(r) \/ Execute(r)
  \/ \E r \in Runs : Succeed(r) \/ Fail(r) \/ Busy(r)
  \/ \E v \in Viewers : Subscribe(v) \/ Unsubscribe(v)
  \/ TimerFires \/ CompleteTick \/ StopUnderSubscribers

\* Timers fire, promises settle and continuations run.  Queries end: every
\* source kind bounds its statements.  Viewers and editors may do nothing.
Fairness ==
  /\ \A p \in Panels : WF_vars(Launch(p))
  /\ \A r \in Runs : /\ WF_vars(SkipRun(r)) /\ WF_vars(Execute(r))
                     /\ WF_vars(Succeed(r) \/ Fail(r) \/ Busy(r))
  /\ WF_vars(TimerFires) /\ WF_vars(CompleteTick)

Spec == Init /\ [][Next]_vars
FairSpec == Spec /\ Fairness
-----------------------------------------------------------------------------
\* A poller that has subscribers and has not been stopped has a cycle in
\* flight or one scheduled, in every interleaving of failed cycles, retries,
\* joins and leaves (#140), so it is never stalled in the sense of isStalled;
\* and a cycle that ends after the poller was stopped leaves no timer behind.
NeverSilent ==
  /\ Running => subscribers # {} /\ (ticking \/ timer = "armed")
  /\ timer = "armed" => Running

\* What a joiner is sent for a panel agrees with the panel's health: it backs
\* off exactly from Threshold failures in a row on; it says degraded only while
\* the panel backs off, and a panel that backs off says so (or that its window
\* does not resolve), also when a retry and a cycle overlap and their outcomes
\* differ.
DegradedIsTruthful ==
  \A p \in Panels :
    /\ backoff[p] = "none" <=> failures[p] < Threshold
    /\ latest[p] = "degraded" => backoff[p] # "none"
    /\ backoff[p] # "none" => latest[p] \in {"degraded", "window"}

\* No slot is leaked and no statement runs without one: exactly the executions
\* under way hold or await a slot, and one that has issued its statement holds
\* one.  A panel is in `executing` only if some execution of it is.
NoSlotLeaked ==
  /\ \A r \in Runs : /\ run[r] = "idle" <=> slot[r] = "none"
                     /\ run[r] = "executing" => slot[r] = "held"
  /\ \A p \in executing : \E r \in Runs : PanelOf(r) = p /\ run[r] = "executing"

\* The bound on one source's connections, for the poller's executions.
PollerKeepsCap == Slots!CapPerSource

\* From every state of a running poller the next cycle is eventually
\* scheduled, or the poller is stopped: a cycle that waits for slots and
\* queries ends, with no help from the slots' own timeout.
NextCycleComes == Running ~> (timer = "armed" \/ ~Running)

\* A stopped poller's executions all end and none starts again.
StoppedPollerDrains ==
  (life = "stopped") ~> [](\A r \in Runs : run[r] = "idle")
-----------------------------------------------------------------------------
\* "Panels executing right now, so a tick and a manual retry never overlap."
\* (registry.ts:422)
NoOverlap ==
  \A q, r \in Runs :
    run[q] = "executing" /\ run[r] = "executing" /\ q # r => PanelOf(q) # PanelOf(r)

\* Stopping every poller means "no new metric query is issued while the
\* process waits out the ones already running" (registry.ts:1002-1004).  Here,
\* of the stop that leaves the subscribers to the stream route.
StopMeansNoNewQueries ==
  [][life = "stopped" /\ subscribers # {} =>
       \A r \in Runs : run'[r] = "executing" => run[r] = "executing"]_vars
=============================================================================
