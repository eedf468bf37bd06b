------------------------- MODULE LlmAdmissionProofs -------------------------
(***************************************************************************)
(* The gate of model calls, for any calls, limits and durations.           *)
(*                                                                         *)
(* What the properties rest on is time: a sweep with a `now` from before   *)
(* two awaits takes no reservation before its time, because that `now` is  *)
(* not in the future; and a request sent within the slack of an admission  *)
(* is cut off before its reservation expires (Timely).                     *)
(***************************************************************************)
EXTENDS LlmAdmission, FiniteSetTheorems, TLAPS

\* No `now` is in the future, and a request under way is within its deadline.
Timely ==
  \A c \in Calls : /\ at[c] <= clock
                   /\ sent[c] # NoRequest => /\ sent[c] <= clock
                                             /\ clock <= sent[c] + Deadline

\* The inductive invariant.
AdmissionInv == LlmTypeOK /\ Timely /\ ReservedForItsTime /\ ReservedBounded
-----------------------------------------------------------------------------
(* A moment no later than another is on no later day.                      *)
LEMMA EarlierDay ==
  ASSUME NEW x \in Nat, NEW y \in Nat, x <= y
  PROVE  DayOf(x) \in 0..DayOf(y)
<1> USE LlmAssumption
<1>1. DayOf(x) \in Nat /\ DayOf(y) \in Nat
  BY DEF DayOf
<1>2. DayOf(x) <= DayOf(y)
  BY DEF DayOf
<1> QED  BY <1>1, <1>2

(* A refill leaves between nothing and a minute's allowance.               *)
LEMMA RefillIsBounded ==
  ASSUME LlmTypeOK, NEW k \in Keys, NEW now \in Nat
  PROVE  Refilled(k, now) \in 0..(PerMinute[k[1]] * Minute)
<1> USE LlmAssumption
<1>1. PerMinute[k[1]] \in Nat
  BY DEF Keys
<1> DEFINE capacity == PerMinute[k[1]] * Minute
           elapsed == IF now > bucket[k].updatedAt THEN now - bucket[k].updatedAt ELSE 0
           grown == bucket[k].tokens + elapsed * PerMinute[k[1]]
<1>2. capacity \in Nat
  BY <1>1
<1>3. elapsed \in Nat /\ bucket[k].tokens \in Nat
  BY DEF LlmTypeOK
<1>4. elapsed * PerMinute[k[1]] \in Nat
  BY <1>1, <1>3
<1>5. grown \in Nat
  BY <1>3, <1>4
<1>6. Refilled(k, now) = IF bucket[k].updatedAt = NoTake THEN capacity ELSE Min({capacity, grown})
  BY DEF Refilled
<1> HIDE DEF capacity, grown, elapsed
<1>7. Min({capacity, grown}) \in 0..capacity
  <2>1. \E x \in {capacity, grown} : \A y \in {capacity, grown} : x =< y
    BY <1>2, <1>5
  <2>2. Min({capacity, grown}) \in {capacity, grown} /\ Min({capacity, grown}) =< capacity
    BY <2>1 DEF Min
  <2> QED  BY <2>2, <1>2, <1>5
<1>8. capacity \in 0..capacity
  BY <1>2
<1>9. Refilled(k, now) \in 0..capacity
  BY <1>6, <1>7, <1>8
<1> QED  BY <1>9 DEF capacity

(* A take keeps every bucket within its allowance.                         *)
LEMMA TakeKeepsBuckets ==
  ASSUME LlmTypeOK, NEW k \in Keys, NEW now \in 0..MaxClock, TakeToken(k, now)
  PROVE  /\ bucket' \in [Keys -> [tokens : Nat, updatedAt : Int]]
         /\ \A j \in Keys : /\ bucket'[j].tokens \in 0..(PerMinute[j[1]] * Minute)
                            /\ bucket'[j].updatedAt \in NoTake..MaxClock
<1> USE LlmAssumption
<1>1. CASE Unlimited(k)
  BY <1>1 DEF TakeToken, LlmTypeOK
<1>2. CASE ~Unlimited(k)
  <2> DEFINE left == Refilled(k, now) - (IF Allowed(k, now) THEN Minute ELSE 0)
             most == PerMinute[k[1]] * Minute
  <2>1. Refilled(k, now) \in 0..most
    BY RefillIsBounded
  <2>2. most \in Nat
    BY DEF Keys
  <2>3. left \in 0..most
    <3> HIDE DEF most
    <3> QED  BY <2>1, <2>2, <1>2 DEF Allowed
  <2>4. bucket' = [bucket EXCEPT ![k] = [tokens |-> left, updatedAt |-> now]]
    BY <1>2 DEF TakeToken
  <2> HIDE DEF left
  <2>5. bucket'[k] = [tokens |-> left, updatedAt |-> now]
    BY <2>4 DEF LlmTypeOK
  <2>6. \A j \in Keys : j # k => bucket'[j] = bucket[j]
    BY <2>4 DEF LlmTypeOK
  <2>7. /\ bucket'[k].tokens \in 0..most
        /\ bucket'[k].updatedAt \in NoTake..MaxClock
    <3> HIDE DEF most
    <3> QED  BY <2>3, <2>5 DEF NoTake
  <2>8. [tokens |-> left, updatedAt |-> now] \in [tokens : Nat, updatedAt : Int]
    <3> HIDE DEF most
    <3> QED  BY <2>2, <2>3
  <2>9. bucket' \in [Keys -> [tokens : Nat, updatedAt : Int]]
    BY <2>4, <2>8 DEF LlmTypeOK
  <2> QED  BY <2>6, <2>7, <2>9 DEF LlmTypeOK
<1> QED  BY <1>1, <1>2
-----------------------------------------------------------------------------
(* The end of a call forgets its requests.                                 *)
LEMMA OverKeepsTypes ==
  ASSUME LlmTypeOK, NEW c \in Calls, NEW how \in Phases, Over(c, how)
  PROVE  /\ phase' \in [Calls -> Phases]
         /\ asked' \in [Calls -> 0..MaxRequests]
         /\ sent' \in [Calls -> NoRequest..MaxClock]
<1>1. 0 \in 0..MaxRequests /\ NoRequest \in NoRequest..MaxClock
  BY LlmAssumption DEF NoRequest
<1>2. /\ phase \in [Calls -> Phases] /\ asked \in [Calls -> 0..MaxRequests]
      /\ sent \in [Calls -> NoRequest..MaxClock]
  BY DEF LlmTypeOK
<1> QED  BY <1>1, <1>2 DEF Over

(* Every step but a refused or admitted call's leaves the buckets alone.   *)
LEMMA TypesKept == LlmTypeOK /\ [Next]_vars => LlmTypeOK'
<1> SUFFICES ASSUME LlmTypeOK, [Next]_vars PROVE LlmTypeOK'
  OBVIOUS
<1> USE LlmAssumption
<1>1. ASSUME NEW c \in Calls, Enter(c) \/ ReadUsage(c) \/ Decide(c) PROVE LlmTypeOK'
  <2>1. DayOf(at[c]) \in Days
    BY EarlierDay DEF LlmTypeOK, Days
  <2>2. CASE Enter(c)
    BY <2>2 DEF Enter, LlmTypeOK, Phases, usage
  <2>3. CASE ReadUsage(c)
    <3>1. used[WorkspaceOf[c]][DayOf(at[c])] \in Nat
      BY <2>1 DEF LlmTypeOK
    <3> QED  BY <2>3, <3>1 DEF ReadUsage, LlmTypeOK, Phases, usage
  <2>4. CASE Decide(c)
    BY <2>4 DEF Decide, LlmTypeOK, Phases, Unexpired, usage
  <2> QED  BY <1>1, <2>2, <2>3, <2>4
<1>2. ASSUME NEW c \in Calls, CheckRateAndCap(c) PROVE LlmTypeOK'
  <2>1. KeyOf(c) \in Keys /\ at[c] \in 0..MaxClock
    BY DEF KeyOf, Keys, LlmTypeOK
  <2>2. /\ bucket' \in [Keys -> [tokens : Nat, updatedAt : Int]]
        /\ \A j \in Keys : /\ bucket'[j].tokens \in 0..(PerMinute[j[1]] * Minute)
                           /\ bucket'[j].updatedAt \in NoTake..MaxClock
    BY <1>2, <2>1, TakeKeepsBuckets DEF CheckRateAndCap
  <2>3. phase' \in [Calls -> Phases] /\ open' \subseteq Calls
    BY <1>2 DEF CheckRateAndCap, LlmTypeOK, Phases, Unexpired
  <2>4. UNCHANGED <<clock, at, seen, asked, sent, usage>>
    BY <1>2 DEF CheckRateAndCap
  <2> QED  BY <2>2, <2>3, <2>4 DEF LlmTypeOK, usage
<1>3. ASSUME NEW c \in Calls, Ask(c) \/ Answer(c) PROVE LlmTypeOK'
  <2>1. CASE Ask(c)
    <3>1. asked[c] + 1 \in 0..MaxRequests
      BY <2>1 DEF Ask, MayAsk, MostRequests, LlmTypeOK
    <3>2. clock \in NoRequest..MaxClock
      BY DEF LlmTypeOK, NoRequest
    <3> QED  BY <2>1, <3>1, <3>2 DEF Ask, LlmTypeOK, usage
  <2>2. CASE Answer(c)
    <3>1. NoRequest \in NoRequest..MaxClock
      BY DEF NoRequest
    <3> QED  BY <2>2, <3>1 DEF Answer, LlmTypeOK, usage
  <2> QED  BY <1>3, <2>1, <2>2
<1>4. ASSUME NEW c \in Calls, Repair(c) \/ Finish(c) PROVE LlmTypeOK'
  <2>1. /\ phase' \in [Calls -> Phases]
        /\ asked' \in [Calls -> 0..MaxRequests]
        /\ sent' \in [Calls -> NoRequest..MaxClock]
    BY <1>4, OverKeepsTypes DEF Repair, Finish, LlmTypeOK, Phases
  <2>2. PICK part \in {"repair", "call"} : Record(c, part)
    BY <1>4 DEF Repair, Finish
  <2>3. <<c, part>> \in Reports
    BY DEF Reports
  <2>4. DayOf(clock) \in Days
    <3>1. clock \in Nat /\ MaxClock \in Nat /\ clock <= MaxClock
      BY DEF LlmTypeOK
    <3> QED  BY <3>1, EarlierDay DEF Days
  <2>5. PICK tokens \in 0..MaxUsage : spent' = [spent EXCEPT ![<<c, part>>] = tokens]
    BY <2>2 DEF Record
  <2>6. spent' \in [Reports -> 0..MaxUsage]
    BY <2>5 DEF LlmTypeOK
  <2>7. writes' \subseteq Reports /\ wroteOn' \in [Reports -> Days]
    BY <2>2, <2>3, <2>4 DEF Record, LlmTypeOK
  <2> QED  BY <2>1, <2>2, <2>6, <2>7 DEF Record, LlmTypeOK
<1>5. ASSUME NEW c \in Calls, Release(c) \/ Abandon(c) PROVE LlmTypeOK'
  <2>1. \E how \in Phases : Over(c, how)
    BY <1>5 DEF Release, Abandon, Phases
  <2>2. /\ phase' \in [Calls -> Phases]
        /\ asked' \in [Calls -> 0..MaxRequests]
        /\ sent' \in [Calls -> NoRequest..MaxClock]
    BY <2>1, OverKeepsTypes
  <2>3. open' \subseteq Calls /\ UNCHANGED <<clock, at, bucket, seen, usage>>
    BY <1>5 DEF Release, Abandon, LlmTypeOK
  <2> QED  BY <2>2, <2>3 DEF LlmTypeOK, usage
<1>6. ASSUME NEW c \in Calls, WriteUsage(c) \/ LoseUsage(c) PROVE LlmTypeOK'
  <2>1. CASE WriteUsage(c)
    <3>1. PICK r \in writes :
            /\ writes' = writes \ {r}
            /\ used' = [used EXCEPT ![WorkspaceOf[c]][wroteOn[r]] = @ + spent[r]]
            /\ UNCHANGED <<clock, phase, at, bucket, open, seen, asked, sent, spent, wroteOn>>
      BY <2>1 DEF WriteUsage
    <3> DEFINE w == WorkspaceOf[c]
               day == wroteOn[r]
    <3>2. w \in Workspaces /\ day \in Days /\ spent[r] \in Nat
      BY DEF LlmTypeOK
    <3>3. used[w] \in [Days -> Nat] /\ used[w][day] + spent[r] \in Nat
      BY <3>2 DEF LlmTypeOK
    <3>4. used' = [used EXCEPT ![w] = [used[w] EXCEPT ![day] = used[w][day] + spent[r]]]
      BY <3>1
    <3> HIDE DEF w, day
    <3>5. [used[w] EXCEPT ![day] = used[w][day] + spent[r]] \in [Days -> Nat]
      BY <3>2, <3>3
    <3>6. used' \in [Workspaces -> [Days -> Nat]]
      BY <3>2, <3>4, <3>5 DEF LlmTypeOK
    <3> QED  BY <3>1, <3>6 DEF LlmTypeOK
  <2>2. CASE LoseUsage(c)
    <3>1. PICK r \in writes :
            /\ writes' = writes \ {r}
            /\ spent' = [spent EXCEPT ![r] = 0]
            /\ UNCHANGED <<clock, phase, at, bucket, open, seen, asked, sent, wroteOn, used>>
      BY <2>2 DEF LoseUsage
    <3> QED  BY <3>1 DEF LlmTypeOK
  <2> QED  BY <1>6, <2>1, <2>2
<1>7. CASE Tick \/ UNCHANGED vars
  BY <1>7 DEF Tick, vars, LlmTypeOK, usage
<1> QED  BY <1>1, <1>2, <1>3, <1>4, <1>5, <1>6, <1>7 DEF Next

(* Time runs past no request that is under way.                            *)
LEMMA TimelyKept == LlmTypeOK /\ Timely /\ [Next]_vars => Timely'
<1> DEFINE InTime(d) == /\ at[d] <= clock
                        /\ sent[d] # NoRequest => sent[d] <= clock /\ clock <= sent[d] + Deadline
<1> SUFFICES ASSUME LlmTypeOK, Timely, [Next]_vars, NEW d \in Calls PROVE InTime(d)'
  BY DEF Timely
<1> USE LlmAssumption
<1>1. /\ at[d] \in Nat /\ clock \in Nat /\ sent[d] \in Int /\ Deadline \in Nat
      /\ at \in [Calls -> 0..MaxClock] /\ sent \in [Calls -> NoRequest..MaxClock]
  BY DEF LlmTypeOK, NoRequest
<1>2. InTime(d)
  BY DEF Timely
<1>3. ASSUME NEW c \in Calls, Enter(c) \/ CheckRateAndCap(c) \/ ReadUsage(c) \/ Decide(c)
      PROVE  InTime(d)'
  BY <1>1, <1>2, <1>3 DEF Enter, CheckRateAndCap, ReadUsage, Decide
<1>4. ASSUME NEW c \in Calls, Ask(c) \/ Answer(c) PROVE InTime(d)'
  <2>1. at' = at /\ clock' = clock /\ (sent'[d] = sent[d] \/ sent'[d] \in {clock, NoRequest})
    BY <1>1, <1>4 DEF Ask, Answer
  <2> QED  BY <1>1, <1>2, <2>1
<1>5. ASSUME NEW c \in Calls, Repair(c) \/ Finish(c) \/ Release(c) \/ Abandon(c)
      PROVE  InTime(d)'
  <2>1. at' = at /\ clock' = clock /\ (sent'[d] = sent[d] \/ sent'[d] = NoRequest)
    BY <1>1, <1>5 DEF Repair, Finish, Release, Abandon, Record, Over
  <2> QED  BY <1>1, <1>2, <2>1
<1>6. ASSUME NEW c \in Calls, WriteUsage(c) \/ LoseUsage(c) PROVE InTime(d)'
  BY <1>2, <1>6 DEF WriteUsage, LoseUsage
<1>7. CASE Tick
  BY <1>1, <1>2, <1>7 DEF Tick
<1>8. CASE UNCHANGED vars
  BY <1>2, <1>8 DEF vars
<1> QED  BY <1>3, <1>4, <1>5, <1>6, <1>7, <1>8 DEF Next

(* A sweep whose `now` is not in the future takes no reservation early.    *)
LEMMA SweepSparesUnexpired ==
  ASSUME LlmTypeOK, Timely, NEW c \in Calls, NEW d \in open, clock < ReservedUntil(d)
  PROVE  d \in Unexpired(at[c])
<1> USE LlmAssumption
<1>1. d \in Calls /\ at[c] \in Int /\ clock \in Int /\ at[d] + Deadline + Slack \in Int
  BY DEF LlmTypeOK
<1> QED  BY <1>1 DEF Timely, Unexpired, ReservedUntil

(* No step takes a reservation early; a request in time is over before it.*)
LEMMA ReservationKept ==
  LlmTypeOK /\ Timely /\ ReservedForItsTime /\ [Next]_vars => ReservedForItsTime'
<1> DEFINE Own(d) == /\ phase[d] = "running" /\ clock < ReservedUntil(d) => d \in open
                     /\ d \in open => phase[d] \in {"running", "gone"}
<1> HAVE LlmTypeOK /\ Timely /\ ReservedForItsTime /\ [Next]_vars
<1> SUFFICES ASSUME NEW d \in Calls PROVE Own(d)'
  <2>1. LlmTypeOK' /\ Timely'
    BY TypesKept, TimelyKept
  <2>2. ASSUME NEW c \in Calls, AskedInTime(c)'
        PROVE  phase'[c] = "running" /\ clock' < ReservedUntil(c)'
    BY <2>1, <2>2, LlmAssumption DEF AskedInTime, LlmTypeOK, Timely, NoRequest, ReservedUntil
  <2> QED  BY <2>2 DEF ReservedForItsTime
<1>1. Own(d)
  BY DEF ReservedForItsTime
<1>2. ASSUME NEW c \in Calls, d \in open, clock < ReservedUntil(d)
      PROVE  d \in Unexpired(at[c])
  BY <1>2, SweepSparesUnexpired
<1>3. \A c \in Calls : Unexpired(at[c]) \subseteq open
  BY DEF Unexpired
<1>4. ASSUME NEW c \in Calls, CheckRateAndCap(c) PROVE Own(d)'
  BY <1>1, <1>2, <1>3, <1>4 DEF CheckRateAndCap, LlmTypeOK, ReservedUntil
<1>5. ASSUME NEW c \in Calls, Decide(c) PROVE Own(d)'
  BY <1>1, <1>2, <1>3, <1>5 DEF Decide, LlmTypeOK, ReservedUntil
<1>6. ASSUME NEW c \in Calls, Enter(c) PROVE Own(d)'
  BY <1>1, <1>6 DEF Enter, LlmTypeOK, ReservedUntil
<1>7. ASSUME NEW c \in Calls, \/ ReadUsage(c) \/ Ask(c) \/ Answer(c)
                              \/ WriteUsage(c) \/ LoseUsage(c)
      PROVE  Own(d)'
  BY <1>1, <1>7 DEF ReadUsage, Ask, Answer, WriteUsage, LoseUsage, LlmTypeOK, ReservedUntil
<1>8. ASSUME NEW c \in Calls, Repair(c) \/ Finish(c) \/ Release(c) \/ Abandon(c)
      PROVE  Own(d)'
  BY <1>1, <1>8 DEF Repair, Finish, Release, Abandon, Record, Over, Running, LlmTypeOK, ReservedUntil
<1>9. CASE Tick
  <2>1. clock \in Int /\ ReservedUntil(d) \in Int
    BY LlmAssumption DEF LlmTypeOK, ReservedUntil
  <2> QED  BY <1>1, <1>9, <2>1 DEF Tick, ReservedUntil
<1>10. CASE UNCHANGED vars
  BY <1>1, <1>10 DEF vars, ReservedUntil
<1> QED  BY <1>4, <1>5, <1>6, <1>7, <1>8, <1>9, <1>10 DEF Next

(* Fewer reservations of the same calls reserve no more.                   *)
LEMMA FewerReserveLess ==
  ASSUME LlmTypeOK, ReservedBounded, at' = at, open' \subseteq open
  PROVE  ReservedBounded'
<1> SUFFICES ASSUME NEW w \in Workspaces, NEW d \in Days, Budget[w] > 0
             PROVE  ReservedBy(open, w, d)' < Budget[w] + Reserve
  BY DEF ReservedBounded
<1> USE LlmAssumption
<1> DEFINE before == {c \in open : WorkspaceOf[c] = w /\ DayOf(at[c]) = d}
           after == {c \in open' : WorkspaceOf[c] = w /\ DayOf(at'[c]) = d}
<1>1. IsFiniteSet(before)
  BY FS_Subset DEF LlmTypeOK
<1>2. Cardinality(after) <= Cardinality(before) /\ IsFiniteSet(after)
  BY <1>1, FS_Subset
<1>3. Cardinality(after) \in Nat /\ Cardinality(before) \in Nat
  BY <1>1, <1>2, FS_CardinalityType
<1>4. Reserve * Cardinality(before) < Budget[w] + Reserve
  BY DEF ReservedBounded, ReservedBy
<1>5. Reserve * Cardinality(after) <= Reserve * Cardinality(before)
  <2> HIDE DEF before, after
  <2> QED  BY <1>2, <1>3
<1>6. Reserve * Cardinality(after) < Budget[w] + Reserve
  <2>1. Budget[w] \in Nat
    OBVIOUS
  <2> HIDE DEF before, after
  <2> QED  BY <1>3, <1>4, <1>5, <2>1
<1> QED  BY <1>6 DEF ReservedBy, DayOf

(* An admission adds its own reservation to the ones it counted in the     *)
(* same step.                                                              *)
LEMMA AdmissionKeepsBound ==
  ASSUME LlmTypeOK, ReservedBounded, NEW c \in Calls, Decide(c), UnderBudget(c)
  PROVE  ReservedBounded'
<1> SUFFICES ASSUME NEW w \in Workspaces, NEW d \in Days, Budget[w] > 0
             PROVE  ReservedBy(open, w, d)' < Budget[w] + Reserve
  BY DEF ReservedBounded
<1> USE LlmAssumption
<1> DEFINE In(x) == WorkspaceOf[x] = w /\ DayOf(at[x]) = d
           before == {x \in open : In(x)}
           counted == {x \in Unexpired(at[c]) : In(x)}
           after == {x \in open' : In(x)}
<1>1. /\ IsFiniteSet(before) /\ IsFiniteSet(counted)
      /\ Cardinality(counted) <= Cardinality(before)
  BY FS_Subset DEF LlmTypeOK, Unexpired
<1>2. Cardinality(counted) \in Nat /\ Cardinality(before) \in Nat
  BY <1>1, FS_CardinalityType
<1>3. at' = at /\ open' \subseteq Unexpired(at[c]) \cup {c}
  BY DEF Decide
<1>4. Budget[w] \in Nat /\ Reserve \in Nat
  OBVIOUS
<1>5. ReservedBy(open, w, d)' = Reserve * Cardinality(after)
  BY <1>3 DEF ReservedBy, DayOf
<1>6. CASE ~In(c)
  <2>1. after \subseteq before
    BY <1>3, <1>6 DEF Unexpired
  <2>2. IsFiniteSet(after) /\ Cardinality(after) <= Cardinality(before)
    BY <1>1, <2>1, FS_Subset
  <2>3. Cardinality(after) \in Nat
    BY <2>2, FS_CardinalityType
  <2>4. Reserve * Cardinality(before) < Budget[w] + Reserve
    BY DEF ReservedBounded, ReservedBy
  <2> HIDE DEF before, after
  <2>5. Reserve * Cardinality(after) <= Reserve * Cardinality(before)
    BY <1>2, <1>4, <2>2, <2>3
  <2> QED  BY <1>2, <1>4, <1>5, <2>3, <2>4, <2>5
<1>7. CASE In(c)
  <2>1. seen[c] \in Nat /\ seen[c] + Reserve * Cardinality(counted) < Budget[w]
    BY <1>7 DEF UnderBudget, ReservedBy, LlmTypeOK
  <2>2. after \subseteq counted \cup {c}
    BY <1>3
  <2>3. /\ IsFiniteSet(counted \cup {c})
        /\ Cardinality(counted \cup {c}) <= Cardinality(counted) + 1
    <3> HIDE DEF counted
    <3>1. IsFiniteSet(counted)
      BY <1>1
    <3>2. /\ IsFiniteSet(counted \cup {c})
          /\ Cardinality(counted \cup {c})
               = IF c \in counted THEN Cardinality(counted) ELSE Cardinality(counted) + 1
      BY <3>1, FS_AddElement, Zenon
    <3> QED  BY <1>2, <3>2
  <2>4. IsFiniteSet(after) /\ Cardinality(after) <= Cardinality(counted \cup {c})
    BY <2>2, <2>3, FS_Subset
  <2>5. Cardinality(after) \in Nat /\ Cardinality(counted \cup {c}) \in Nat
    BY <2>3, <2>4, FS_CardinalityType
  <2> HIDE DEF counted, after
  <2>6. Cardinality(after) <= Cardinality(counted) + 1
    BY <1>2, <2>3, <2>4, <2>5
  <2>7. Reserve * Cardinality(after) <= Reserve * (Cardinality(counted) + 1)
    BY <1>2, <1>4, <2>5, <2>6
  <2>8. Reserve * (Cardinality(counted) + 1) = Reserve * Cardinality(counted) + Reserve
    BY <1>2, <1>4
  <2>9. Reserve * Cardinality(counted) \in Nat /\ Reserve * Cardinality(after) \in Nat
    BY <1>2, <1>4, <2>5
  <2> QED  BY <1>4, <1>5, <2>1, <2>7, <2>8, <2>9
<1> QED  BY <1>6, <1>7

LEMMA BoundKept ==
  LlmTypeOK /\ ReservedForItsTime /\ ReservedBounded /\ [Next]_vars => ReservedBounded'
<1> SUFFICES ASSUME LlmTypeOK, ReservedForItsTime, ReservedBounded, [Next]_vars
             PROVE  ReservedBounded'
  OBVIOUS
<1>1. ASSUME NEW c \in Calls, Enter(c) PROVE ReservedBounded'
  <2>1. c \notin open /\ open' = open
    BY <1>1 DEF Enter, ReservedForItsTime
  <2>2. \A x \in open : at'[x] = at[x]
    BY <1>1, <2>1 DEF Enter, LlmTypeOK
  <2> SUFFICES ASSUME NEW w \in Workspaces, NEW d \in Days, Budget[w] > 0
               PROVE  ReservedBy(open, w, d)' < Budget[w] + Reserve
    BY DEF ReservedBounded
  <2> DEFINE before == {x \in open : WorkspaceOf[x] = w /\ DayOf(at[x]) = d}
             after == {x \in open' : WorkspaceOf[x] = w /\ DayOf(at'[x]) = d}
  <2>3. after = before
    BY <2>1, <2>2
  <2>4. ReservedBy(open, w, d)' = Reserve * Cardinality(after)
    BY DEF ReservedBy, DayOf
  <2>5. Reserve * Cardinality(before) < Budget[w] + Reserve
    BY DEF ReservedBounded, ReservedBy
  <2> HIDE DEF before, after
  <2> QED  BY <2>3, <2>4, <2>5
<1>2. ASSUME NEW c \in Calls, Decide(c) PROVE ReservedBounded'
  <2>1. CASE UnderBudget(c)
    BY <1>2, <2>1, AdmissionKeepsBound
  <2>2. CASE ~UnderBudget(c)
    BY <1>2, <2>2, FewerReserveLess DEF Decide, Unexpired
  <2> QED  BY <2>1, <2>2
<1>3. ASSUME NEW c \in Calls, CheckRateAndCap(c) PROVE ReservedBounded'
  BY <1>3, FewerReserveLess DEF CheckRateAndCap, Unexpired
<1>4. ASSUME NEW c \in Calls, \/ ReadUsage(c) \/ Ask(c) \/ Answer(c)
                              \/ Repair(c) \/ Finish(c) \/ Release(c) \/ Abandon(c)
                              \/ WriteUsage(c) \/ LoseUsage(c)
      PROVE  ReservedBounded'
  BY <1>4, FewerReserveLess DEF ReadUsage, Ask, Answer, Repair, Finish, Record, Release, Abandon,
                                WriteUsage, LoseUsage
<1>5. CASE Tick \/ UNCHANGED vars
  BY <1>5, FewerReserveLess DEF Tick, vars
<1> QED  BY <1>1, <1>2, <1>3, <1>4, <1>5 DEF Next

LEMMA InvKept == AdmissionInv /\ [Next]_vars => AdmissionInv'
  BY TypesKept, TimelyKept, ReservationKept, BoundKept DEF AdmissionInv

LEMMA InvHolds == Spec => []AdmissionInv
<1> USE LlmAssumption
<1>1. ASSUME Init PROVE AdmissionInv
  <2>1. \A k \in Keys : PerMinute[k[1]] * Minute \in Nat
    BY DEF Keys
  <2>2. 0 \in Days
    <3>1. 0 \in Nat /\ MaxClock \in Nat /\ 0 <= MaxClock
      OBVIOUS
    <3>2. DayOf(0) \in Days
      BY <3>1, EarlierDay DEF Days
    <3>3. DayOf(0) = 0
      BY DEF DayOf
    <3> QED  BY <3>2, <3>3
  <2>3. bucket \in [Keys -> [tokens : Nat, updatedAt : Int]]
    BY <1>1, <2>1 DEF Init, NoTake
  <2>4. ASSUME NEW k \in Keys
        PROVE  /\ bucket[k].tokens \in 0..(PerMinute[k[1]] * Minute)
               /\ bucket[k].updatedAt \in NoTake..MaxClock
    <3>1. bucket[k] = [tokens |-> PerMinute[k[1]] * Minute, updatedAt |-> NoTake]
      BY <1>1 DEF Init
    <3>2. PerMinute[k[1]] * Minute \in 0..(PerMinute[k[1]] * Minute)
      BY <2>1
    <3> QED  BY <3>1, <3>2 DEF NoTake
  <2>5. LlmTypeOK
    <3>1. clock \in 0..MaxClock /\ at \in [Calls -> 0..MaxClock]
      BY <1>1 DEF Init
    <3>2. phase \in [Calls -> Phases] /\ open \subseteq Calls /\ writes \subseteq Reports
      BY <1>1 DEF Init, Phases
    <3>3. /\ seen \in [Calls -> Nat] /\ spent \in [Reports -> 0..MaxUsage]
          /\ asked \in [Calls -> 0..MaxRequests] /\ sent \in [Calls -> NoRequest..MaxClock]
      BY <1>1 DEF Init, NoRequest
    <3>4. wroteOn \in [Reports -> Days] /\ used \in [Workspaces -> [Days -> Nat]]
      BY <1>1, <2>2 DEF Init
    <3> QED  BY <3>1, <3>2, <3>3, <3>4, <2>3, <2>4 DEF LlmTypeOK
  <2>6. Timely /\ ReservedForItsTime
    <3>1. \A c \in Calls : at[c] = 0 /\ phase[c] = "idle" /\ sent[c] = NoRequest
      BY <1>1 DEF Init
    <3>2. clock = 0 /\ open = {}
      BY <1>1 DEF Init
    <3> QED  BY <3>1, <3>2 DEF Timely, ReservedForItsTime, AskedInTime
  <2>7. ReservedBounded
    <3> SUFFICES ASSUME NEW w \in Workspaces, NEW d \in Days, Budget[w] > 0
                 PROVE  ReservedBy(open, w, d) < Budget[w] + Reserve
      BY DEF ReservedBounded
    <3>1. {c \in open : WorkspaceOf[c] = w /\ DayOf(at[c]) = d} = {}
      BY <1>1 DEF Init
    <3>2. ReservedBy(open, w, d) = Reserve * 0
      BY <3>1, FS_EmptySet DEF ReservedBy
    <3>3. Budget[w] \in Nat /\ Reserve \in Nat
      OBVIOUS
    <3> QED  BY <3>2, <3>3
  <2> QED  BY <2>5, <2>6, <2>7 DEF AdmissionInv
<1> QED  BY <1>1, InvKept, PTL DEF Spec
-----------------------------------------------------------------------------
(* Every bucket stays between empty and a minute's allowance, whatever the *)
(* order of the `now`s it is asked with (takeToken).                       *)
THEOREM LlmTypeCorrect == Spec => []LlmTypeOK
<1>1. AdmissionInv => LlmTypeOK
  BY DEF AdmissionInv
<1> QED  BY <1>1, InvHolds, PTL

(* A reservation is its call's until it expires (reservations.ts): no      *)
(* sweep takes it early, however stale its `now`; it outlives a request    *)
(* sent within the slack; and no call that has ended or reported keeps it. *)
THEOREM ReservationsLastTheirTime == Spec => []ReservedForItsTime
<1>1. AdmissionInv => ReservedForItsTime
  BY DEF AdmissionInv
<1> QED  BY <1>1, InvHolds, PTL

(* The open reservations of a workspace's day stay below its budget and    *)
(* one reservation (#496), however many calls are admitted together.       *)
THEOREM ReservationsAreBounded == Spec => []ReservedBounded
<1>1. AdmissionInv => ReservedBounded
  BY DEF AdmissionInv
<1> QED  BY <1>1, InvHolds, PTL

(* A call refused as busy found MaxInFlight calls that run or may still.   *)
THEOREM BusyIsTrue == Spec => BusyMeansBusy
<1>1. ASSUME AdmissionInv, [Next]_vars, NEW c \in Calls, phase[c] # "busy", phase'[c] = "busy"
      PROVE  Cardinality({d \in Calls : \/ phase[d] = "running"
                                        \/ phase[d] = "gone" /\ ReservedUntil(d) > at[c]})
               >= MaxInFlight
  <2> DEFINE may == {d \in Calls : \/ phase[d] = "running"
                                   \/ phase[d] = "gone" /\ ReservedUntil(d) > at[c]}
  <2>1. Busy(at[c])
    BY <1>1 DEF AdmissionInv, LlmTypeOK, Next, vars, Enter, CheckRateAndCap, ReadUsage, Decide,
                Ask, Answer, Repair, Finish, Release, Abandon, Over, WriteUsage, LoseUsage, Tick
  <2>2. Unexpired(at[c]) \subseteq may
    BY <1>1 DEF AdmissionInv, LlmTypeOK, ReservedForItsTime, Unexpired
  <2>3. IsFiniteSet(may)
    BY FS_Subset, LlmAssumption
  <2>4. Cardinality(Unexpired(at[c])) <= Cardinality(may) /\ IsFiniteSet(Unexpired(at[c]))
    BY <2>2, <2>3, FS_Subset
  <2>5. Cardinality(Unexpired(at[c])) \in Nat /\ Cardinality(may) \in Nat
    BY <2>3, <2>4, FS_CardinalityType
  <2>6. Cardinality(Unexpired(at[c])) >= MaxInFlight
    BY <2>1 DEF Busy
  <2>7. Cardinality(may) >= MaxInFlight
    <3> HIDE DEF may
    <3> QED  BY <2>4, <2>5, <2>6, LlmAssumption
  <2> QED  BY <2>7
<1>2. AdmissionInv /\ [Next]_vars =>
        [\A c \in Calls : phase[c] # "busy" /\ phase'[c] = "busy" =>
           Cardinality({d \in Calls : \/ phase[d] = "running"
                                      \/ phase[d] = "gone" /\ ReservedUntil(d) > at[c]})
             >= MaxInFlight]_vars
  BY <1>1
<1> QED  BY <1>2, InvHolds, PTL DEF Spec, BusyMeansBusy
=============================================================================
