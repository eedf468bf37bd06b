----------------------- MODULE DashboardPollerProofs -----------------------
(***************************************************************************)
(* For any panels, cadences, sources, viewers, retries, threshold and      *)
(* capacity: the loop is never silent; a panel says it is degraded exactly *)
(* while it backs off; no slot is leaked; and the cap that SourceSlots     *)
(* guarantees holds of a poller's executions, since each of its steps is a *)
(* step of the slots or leaves them alone.                                 *)
(***************************************************************************)
EXTENDS DashboardPoller, TLAPS

SlotsProofs == INSTANCE SourceSlotsProofs WITH Clients <- Runs, SourceOf <- RunSource

\* What the poller relies on of the slots: a release passes its slot to an
\* execution that waits for one.
SlotsRely ==
  /\ slot \in [Runs -> {"none", "waiting", "held", "skipped"}]
  /\ \A r \in Runs : slot[r] = "held" /\ queue[captured[r]] # <<>> =>
       /\ Head(queue[captured[r]]) \in Runs
       /\ slot[Head(queue[captured[r]])] = "waiting"
-----------------------------------------------------------------------------
(* The assumptions of the slots hold of the poller's instance of them.     *)
LEMMA ClientsAreRuns ==
  RunSource \in [Runs -> Sources] /\ NoGate \notin Gates /\ Capacity \in Nat \ {0}
  BY PollerAssumption DEF RunSource, Runs, PanelOf

(* Each step of the poller is a step of the slots, or leaves them alone.   *)
LEMMA StepOfSlots == [Next]_vars => [Slots!SlotsNext]_(Slots!slotVars)
<1> SUFFICES ASSUME [Next]_vars
             PROVE  (\E r \in Runs : \/ Slots!Acquire(r) \/ Slots!TimeOut(r)
                                     \/ Slots!Release(r) \/ Slots!Skip(r))
                    \/ UNCHANGED slotVars
  BY DEF Slots!SlotsNext, Slots!slotVars, slotVars
<1>1. ASSUME NEW p \in Panels, Launch(p) \/ TimePasses(p) \/ Retry(p)
      PROVE  (\E r \in Runs : Slots!Acquire(r)) \/ UNCHANGED slotVars
  BY <1>1 DEF Launch, TimePasses, Retry, StartRun, Runs, TickRun
<1>2. ASSUME NEW r \in Runs, SlotTimesOut(r) \/ SkipRun(r) \/ Execute(r)
      PROVE  Slots!TimeOut(r) \/ Slots!Skip(r) \/ UNCHANGED slotVars
  BY <1>2 DEF SlotTimesOut, SkipRun, Execute
<1>3. ASSUME NEW r \in Runs, Succeed(r) \/ Fail(r) \/ Busy(r)
      PROVE  Slots!Release(r)
  BY <1>3 DEF Succeed, Fail, Busy, FinishRun
<1>4. ASSUME NEW v \in Viewers, Subscribe(v) \/ Unsubscribe(v)
      PROVE  UNCHANGED slotVars
  BY <1>4 DEF Subscribe, Unsubscribe
<1>5. CASE TimerFires \/ CompleteTick \/ StopUnderSubscribers
  BY <1>5 DEF TimerFires, CompleteTick, StopUnderSubscribers
<1>6. CASE UNCHANGED vars
  BY <1>6 DEF vars
<1> QED
  BY <1>1, <1>2, <1>3, <1>4, <1>5, <1>6 DEF Next

(* Every execution of a poller's panels, the cycle's own and a viewer's    *)
(* retry, goes through the semaphore as its callers must (runPanel).       *)
LEMMA PollerIsSlotsClient == Spec => Slots!SlotsSpec
<1>1. Init => Slots!SlotsInit
  BY DEF Init
<1> QED
  BY <1>1, StepOfSlots, PTL DEF Spec, Slots!SlotsSpec

(* The two instances of the slots are the same specification.              *)
LEMMA SameSlots == Spec => SlotsProofs!SlotsSpec
<1>1. Slots!SlotsInit => SlotsProofs!SlotsInit
  BY DEF Slots!SlotsInit, SlotsProofs!SlotsInit
<1>2. [Slots!SlotsNext]_(Slots!slotVars)
        => [SlotsProofs!SlotsNext]_(SlotsProofs!slotVars)
  BY DEF Slots!SlotsNext, Slots!slotVars, SlotsProofs!SlotsNext, SlotsProofs!slotVars,
         Slots!Acquire, SlotsProofs!Acquire, Slots!TimeOut, SlotsProofs!TimeOut,
         Slots!Release, SlotsProofs!Release, Slots!Skip, SlotsProofs!Skip,
         Slots!Grant, SlotsProofs!Grant, Slots!Enqueue, SlotsProofs!Enqueue,
         Slots!GateFor, SlotsProofs!GateFor, Slots!Forget, SlotsProofs!Forget,
         Slots!Taken, SlotsProofs!Taken, Slots!Waiting, SlotsProofs!Waiting,
         Slots!Without, SlotsProofs!Without,
         Slots!Unreferenced, SlotsProofs!Unreferenced
<1> QED
  BY <1>1, <1>2, PollerIsSlotsClient, PTL
  DEF Slots!SlotsSpec, SlotsProofs!SlotsSpec

(* The cap on one source's connections holds of the poller's executions,   *)
(* however its cycles and its viewers' retries interleave.                 *)
THEOREM PollerCapIsKept == Spec => []PollerKeepsCap
<1>1. Spec => []SlotsProofs!CapPerSource
  BY SameSlots, SlotsProofs!CapIsKept, ClientsAreRuns, PTL
<1>2. SlotsProofs!CapPerSource => PollerKeepsCap
  BY DEF SlotsProofs!CapPerSource, PollerKeepsCap, Slots!CapPerSource,
         SlotsProofs!Held, Slots!Held, SlotsProofs!Cardinality, Slots!Cardinality
<1> QED
  BY <1>1, <1>2, PTL
-----------------------------------------------------------------------------
(* The poller's own state keeps its types.                                 *)
LEMMA TypesPreserved == PollerTypeOK /\ [Next]_vars => PollerTypeOK'
<1> SUFFICES ASSUME PollerTypeOK, [Next]_vars
             PROVE  PollerTypeOK'
  OBVIOUS
<1> USE DEF PollerTypeOK
<1>1. ASSUME NEW r \in Runs
      PROVE  PanelOf(r) \in Panels
  BY DEF Runs, PanelOf
<1>2. ASSUME NEW p \in Panels
      PROVE  /\ TickRun(p) \in Runs
             /\ \A k \in Retries : <<p, k>> \in Runs
  BY DEF Runs, TickRun
<1>3. ASSUME NEW r \in Runs, StartRun(r)
      PROVE  /\ run' \in [Runs -> {"idle", "acquiring", "executing"}]
             /\ latest' \in [Panels -> {"none", "rows", "error", "degraded", "window"}]
  BY <1>1, <1>3 DEF StartRun, slotVars
<1>4. ASSUME NEW subs, Tick(subs)
      PROVE  /\ launching' \subseteq Panels
             /\ ticking' \in BOOLEAN
             /\ timer' \in {"null", "armed", "fired"}
  BY <1>4 DEF Tick, DuePanels, ScheduleNext
<1>5. ASSUME NEW p \in Panels, Launch(p)
      PROVE  PollerTypeOK'
  BY <1>2, <1>3, <1>5 DEF Launch
<1>6. ASSUME NEW p \in Panels, TimePasses(p)
      PROVE  PollerTypeOK'
  BY <1>6 DEF TimePasses, loopVars
<1>7. ASSUME NEW p \in Panels, Retry(p)
      PROVE  PollerTypeOK'
  BY <1>2, <1>3, <1>7 DEF Retry, loopVars
<1>8. ASSUME NEW r \in Runs, SlotTimesOut(r) \/ SkipRun(r) \/ Execute(r)
      PROVE  PollerTypeOK'
  BY <1>1, <1>8 DEF SlotTimesOut, SkipRun, Execute, panelVars, loopVars
<1>9. ASSUME NEW r \in Runs, FinishRun(r)
      PROVE  /\ run' \in [Runs -> {"idle", "acquiring", "executing"}]
             /\ executing' \subseteq Panels
             /\ UNCHANGED loopVars
  BY <1>9 DEF FinishRun
<1>10. ASSUME NEW r \in Runs, Succeed(r) \/ Busy(r)
       PROVE  PollerTypeOK'
  BY <1>1, <1>9, <1>10, PollerAssumption DEF Succeed, Busy, loopVars
<1>11. ASSUME NEW r \in Runs, Fail(r)
       PROVE  PollerTypeOK'
  <2> DEFINE p == PanelOf(r)
  <2> DEFINE n == IF failures[p] < Threshold THEN failures[p] + 1 ELSE Threshold
  <2>1. p \in Panels /\ n \in 0..Threshold
    BY <1>1, PollerAssumption
  <2>2. /\ FinishRun(r)
        /\ failures' = [failures EXCEPT ![p] = n]
        /\ \E stage \in {"none", "fresh", "floor"} : backoff' = [backoff EXCEPT ![p] = stage]
        /\ \E event \in {"error", "degraded"} : latest' = [latest EXCEPT ![p] = event]
    BY <1>11 DEF Fail
  <2> HIDE DEF n, p
  <2>3. failures' \in [Panels -> 0..Threshold]
    BY <2>1, <2>2
  <2>4. backoff' \in [Panels -> {"none", "fresh", "floor", "due"}]
    BY <2>2
  <2>5. latest' \in [Panels -> {"none", "rows", "error", "degraded", "window"}]
    BY <2>2
  <2> QED
    BY <1>9, <2>2, <2>3, <2>4, <2>5 DEF loopVars
<1>12. ASSUME NEW v \in Viewers, Subscribe(v) \/ Unsubscribe(v)
       PROVE  PollerTypeOK'
  BY <1>4, <1>12 DEF Subscribe, Unsubscribe, Stop, panelVars
<1>13. CASE TimerFires \/ CompleteTick \/ StopUnderSubscribers
  BY <1>4, <1>13 DEF TimerFires, CompleteTick, StopUnderSubscribers, Stop, ScheduleNext, panelVars
<1>14. CASE UNCHANGED vars
  BY <1>14 DEF vars, panelVars, loopVars
<1> QED
  BY <1>5, <1>6, <1>7, <1>8, <1>10, <1>11, <1>12, <1>13, <1>14 DEF Next

(* Type correctness of the poller.                                         *)
THEOREM PollerTypeCorrect == Spec => []PollerTypeOK
<1>1. Init => PollerTypeOK
  <2>1. Threshold \in Nat /\ 0 \in 0..Threshold
    BY PollerAssumption
  <2> QED
    BY <2>1 DEF Init, PollerTypeOK
<1> QED
  BY <1>1, TypesPreserved, PTL DEF Spec
-----------------------------------------------------------------------------
(* A step keeps the loop going.                                            *)
LEMMA SilenceExcluded == NeverSilent /\ [Next]_vars => NeverSilent'
<1> SUFFICES ASSUME NeverSilent, [Next]_vars
             PROVE  NeverSilent'
  OBVIOUS
<1> USE DEF NeverSilent, Running
<1>1. ASSUME NEW p \in Panels, Launch(p) \/ TimePasses(p) \/ Retry(p)
      PROVE  NeverSilent'
  BY <1>1 DEF Launch, TimePasses, Retry, loopVars
<1>2. ASSUME NEW r \in Runs, SlotTimesOut(r) \/ SkipRun(r) \/ Execute(r)
      PROVE  NeverSilent'
  BY <1>2 DEF SlotTimesOut, SkipRun, Execute, loopVars
<1>3. ASSUME NEW r \in Runs, Succeed(r) \/ Fail(r) \/ Busy(r)
      PROVE  NeverSilent'
  BY <1>3 DEF Succeed, Fail, Busy, FinishRun, loopVars
<1>4. ASSUME NEW v \in Viewers, Subscribe(v)
      PROVE  NeverSilent'
  BY <1>4 DEF Subscribe, Tick, ScheduleNext
<1>5. ASSUME NEW v \in Viewers, Unsubscribe(v)
      PROVE  NeverSilent'
  BY <1>5 DEF Unsubscribe, Stop
<1>6. CASE TimerFires
  BY <1>6 DEF TimerFires, Tick, ScheduleNext
<1>7. CASE CompleteTick \/ StopUnderSubscribers
  BY <1>7 DEF CompleteTick, StopUnderSubscribers, Stop, ScheduleNext
<1>8. CASE UNCHANGED vars
  BY <1>8 DEF vars, loopVars
<1> QED
  BY <1>1, <1>2, <1>3, <1>4, <1>5, <1>6, <1>7, <1>8 DEF Next

(* A running poller always has a cycle in flight or scheduled, whatever    *)
(* fails (#140), and a stopped one has no timer.                           *)
THEOREM NeverSilentHolds == Spec => []NeverSilent
<1>1. Init => NeverSilent
  BY DEF Init, NeverSilent, Running
<1> QED
  BY <1>1, SilenceExcluded, PTL DEF Spec
-----------------------------------------------------------------------------
(* A step leaves each panel saying what its health says.                   *)
LEMMA TruthPreserved ==
  PollerTypeOK /\ DegradedIsTruthful /\ [Next]_vars => DegradedIsTruthful'
<1> SUFFICES ASSUME PollerTypeOK, DegradedIsTruthful, [Next]_vars
             PROVE  DegradedIsTruthful'
  OBVIOUS
<1> USE DEF PollerTypeOK, DegradedIsTruthful
<1>1. ASSUME NEW r, StartRun(r), UNCHANGED <<failures, backoff>>
      PROVE  DegradedIsTruthful'
  BY <1>1 DEF StartRun
<1>2. ASSUME NEW p \in Panels, Launch(p) \/ Retry(p)
      PROVE  DegradedIsTruthful'
  BY <1>1, <1>2 DEF Launch, Retry
<1>3. ASSUME NEW p \in Panels, TimePasses(p)
      PROVE  DegradedIsTruthful'
  BY <1>3 DEF TimePasses
<1>4. ASSUME NEW r \in Runs, SlotTimesOut(r) \/ SkipRun(r) \/ Execute(r) \/ Busy(r)
      PROVE  DegradedIsTruthful'
  BY <1>4 DEF SlotTimesOut, SkipRun, Execute, Busy, panelVars
<1>5. ASSUME NEW r \in Runs, Succeed(r)
      PROVE  DegradedIsTruthful'
  <2>1. PICK event \in {"rows", "error"} : latest' = [latest EXCEPT ![PanelOf(r)] = event]
    BY <1>5 DEF Succeed
  <2>2. /\ failures' = [failures EXCEPT ![PanelOf(r)] = 0]
        /\ backoff' = [backoff EXCEPT ![PanelOf(r)] = "none"]
    BY <1>5 DEF Succeed
  <2> QED
    BY <2>1, <2>2, PollerAssumption
<1>6. ASSUME NEW r \in Runs, Fail(r)
      PROVE  DegradedIsTruthful'
  <2> DEFINE p == PanelOf(r)
  <2> DEFINE n == IF failures[p] < Threshold THEN failures[p] + 1 ELSE Threshold
  <2>1. failures' = [failures EXCEPT ![p] = n]
    BY <1>6 DEF Fail
  <2>2. \/ /\ n < Threshold
           /\ backoff' = [backoff EXCEPT ![p] = "none"]
           /\ latest' = [latest EXCEPT ![p] = "error"]
        \/ /\ n = Threshold
           /\ \E stage \in {"fresh", "floor"} : backoff' = [backoff EXCEPT ![p] = stage]
           /\ latest' = [latest EXCEPT ![p] = "degraded"]
    BY <1>6 DEF Fail
  <2> HIDE DEF n, p
  <2>3. CASE n < Threshold
    BY <2>1, <2>2, <2>3, PollerAssumption
  <2>4. CASE n = Threshold
    BY <2>1, <2>2, <2>4, PollerAssumption
  <2> QED
    BY <2>2, <2>3, <2>4
<1>7. ASSUME NEW v \in Viewers, Subscribe(v) \/ Unsubscribe(v)
      PROVE  DegradedIsTruthful'
  BY <1>7 DEF Subscribe, Unsubscribe, panelVars
<1>8. CASE TimerFires \/ CompleteTick \/ StopUnderSubscribers
  BY <1>8 DEF TimerFires, CompleteTick, StopUnderSubscribers, panelVars
<1>9. CASE UNCHANGED vars
  BY <1>9 DEF vars, panelVars
<1> QED
  BY <1>2, <1>3, <1>4, <1>5, <1>6, <1>7, <1>8, <1>9 DEF Next

(* A joiner is never told a healthy panel is degraded, nor shown stale     *)
(* rows for one that backs off, however retries and cycles overlap.        *)
THEOREM DegradedIsTruthfulHolds == Spec => []DegradedIsTruthful
<1>1. Init => DegradedIsTruthful
  BY PollerAssumption DEF Init, DegradedIsTruthful
<1> QED
  BY <1>1, TruthPreserved, PollerTypeCorrect, PTL DEF Spec
-----------------------------------------------------------------------------
(* What the slots guarantee, as the poller relies on it.                   *)
LEMMA SlotsAreReliable == Spec => []SlotsRely
<1>1. SlotsProofs!SlotsInv => SlotsRely
  <2> SUFFICES ASSUME SlotsProofs!SlotsInv
               PROVE  SlotsRely
    OBVIOUS
  <2>1. slot \in [Runs -> {"none", "waiting", "held", "skipped"}]
    BY DEF SlotsProofs!SlotsInv, SlotsProofs!SlotsTypeOK, SlotsProofs!SlotState
  <2>2. ASSUME NEW r \in Runs, slot[r] = "held", queue[captured[r]] # <<>>
        PROVE  /\ Head(queue[captured[r]]) \in Runs
               /\ slot[Head(queue[captured[r]])] = "waiting"
    <3> DEFINE g == captured[r]
    <3>1. g \in Gates /\ g # NoGate
      BY <2>2, ClientsAreRuns
      DEF SlotsProofs!SlotsInv, SlotsProofs!SlotsTypeOK, SlotsProofs!Captures
    <3>2. RunSource[r] \in Sources /\ gates[RunSource[r]] = g
      BY <3>1, ClientsAreRuns DEF SlotsProofs!SlotsInv, SlotsProofs!OneGatePerSource
    <3>3. queue[g] \in Seq(Runs)
      BY <3>1 DEF SlotsProofs!SlotsInv, SlotsProofs!SlotsTypeOK
    <3>4. Head(queue[g]) = queue[g][1] /\ Head(queue[g]) \in Runs /\ 1 \in 1..Len(queue[g])
      BY <2>2, <3>3
    <3>5. SlotsProofs!Queued(RunSource[r], Head(queue[g]))
      BY <3>2, <3>4 DEF SlotsProofs!Queued
    <3> QED
      BY <3>1, <3>2, <3>4, <3>5 DEF SlotsProofs!SlotsInv, SlotsProofs!QueueOfWaiters
  <2> QED
    BY <2>1, <2>2 DEF SlotsRely
<1> QED
  BY <1>1, SameSlots, SlotsProofs!SlotsInvariant, ClientsAreRuns, PTL
-----------------------------------------------------------------------------
(* A step leaks no slot.                                                   *)
LEMMA NoLeakPreserved ==
  PollerTypeOK /\ SlotsRely /\ NoSlotLeaked /\ [Next]_vars => NoSlotLeaked'
<1> SUFFICES ASSUME PollerTypeOK, SlotsRely, NoSlotLeaked, [Next]_vars
             PROVE  NoSlotLeaked'
  OBVIOUS
<1>1. /\ run \in [Runs -> {"idle", "acquiring", "executing"}]
      /\ slot \in [Runs -> {"none", "waiting", "held", "skipped"}]
      /\ \A r \in Runs : PanelOf(r) \in Panels
  BY DEF PollerTypeOK, SlotsRely, Runs, PanelOf
<1>2. ASSUME NEW r \in Runs, StartRun(r), UNCHANGED executing
      PROVE  NoSlotLeaked'
  <2>1. CASE UNCHANGED <<run, slotVars>>
    BY <1>2, <2>1 DEF NoSlotLeaked, slotVars
  <2>2. CASE Slots!Acquire(r) /\ run' = [run EXCEPT ![r] = "acquiring"]
    <3>1. /\ slot[r] = "none"
          /\ \E status \in {"held", "waiting"} : slot' = [slot EXCEPT ![r] = status]
      BY <2>2 DEF Slots!Acquire, Slots!Grant, Slots!Enqueue
    <3> QED
      BY <1>1, <1>2, <2>2, <3>1 DEF NoSlotLeaked
  <2> QED
    BY <1>2, <2>1, <2>2 DEF StartRun
<1>3. ASSUME NEW p \in Panels, Launch(p) \/ Retry(p)
      PROVE  NoSlotLeaked'
  BY <1>2, <1>3 DEF Launch, Retry, Runs, TickRun
<1>4. ASSUME NEW r \in Runs, SlotTimesOut(r)
      PROVE  NoSlotLeaked'
  BY <1>1, <1>4 DEF SlotTimesOut, Slots!TimeOut, NoSlotLeaked, panelVars
<1>5. ASSUME NEW r \in Runs, SkipRun(r)
      PROVE  NoSlotLeaked'
  BY <1>1, <1>5 DEF SkipRun, Slots!Skip, NoSlotLeaked
<1>6. ASSUME NEW r \in Runs, Execute(r)
      PROVE  NoSlotLeaked'
  BY <1>1, <1>6 DEF Execute, NoSlotLeaked, slotVars
<1>7. ASSUME NEW r \in Runs, FinishRun(r)
      PROVE  NoSlotLeaked'
  <2>1. /\ run[r] = "executing"
        /\ run' = [run EXCEPT ![r] = "idle"]
        /\ executing' = executing \ {PanelOf(r)}
        /\ Slots!Release(r)
    BY <1>7 DEF FinishRun
  <2>2. \A q \in Runs \ {r} : run'[q] = run[q]
    BY <1>1, <2>1
  <2>3. \A p \in executing' : \E q \in Runs : PanelOf(q) = p /\ run'[q] = "executing"
    BY <2>1, <2>2 DEF NoSlotLeaked
  <2>4. CASE slot' = [slot EXCEPT ![r] = "none"]
    BY <1>1, <2>1, <2>3, <2>4 DEF NoSlotLeaked
  <2>5. CASE \E w \in Runs : /\ slot[w] = "waiting"
                             /\ slot' = [slot EXCEPT ![r] = "none", ![w] = "held"]
    BY <1>1, <2>1, <2>3, <2>5 DEF NoSlotLeaked
  <2> QED
    BY <2>1, <2>4, <2>5 DEF Slots!Release, SlotsRely
<1>8. ASSUME NEW r \in Runs, Succeed(r) \/ Fail(r) \/ Busy(r)
      PROVE  NoSlotLeaked'
  BY <1>7, <1>8 DEF Succeed, Fail, Busy
<1>9. ASSUME UNCHANGED <<run, executing, slotVars>>
      PROVE  NoSlotLeaked'
  BY <1>9 DEF NoSlotLeaked, slotVars
<1>10. ASSUME NEW p \in Panels, TimePasses(p)
       PROVE  NoSlotLeaked'
  BY <1>9, <1>10 DEF TimePasses
<1>11. ASSUME NEW v \in Viewers, Subscribe(v) \/ Unsubscribe(v)
       PROVE  NoSlotLeaked'
  BY <1>9, <1>11 DEF Subscribe, Unsubscribe, panelVars
<1>12. CASE TimerFires \/ CompleteTick \/ StopUnderSubscribers
  BY <1>9, <1>12 DEF TimerFires, CompleteTick, StopUnderSubscribers, panelVars
<1>13. CASE UNCHANGED vars
  BY <1>9, <1>13 DEF vars, panelVars
<1> QED
  BY <1>3, <1>4, <1>5, <1>6, <1>8, <1>10, <1>11, <1>12, <1>13 DEF Next

(* Every slot taken for an execution is given back by it, on every way     *)
(* out of runPanel, and no statement runs without a slot.                  *)
THEOREM NoSlotIsLeaked == Spec => []NoSlotLeaked
<1>1. Init => NoSlotLeaked
  BY DEF Init, NoSlotLeaked, Slots!SlotsInit
<1> QED
  BY <1>1, NoLeakPreserved, PollerTypeCorrect, SlotsAreReliable, PTL DEF Spec
=============================================================================
