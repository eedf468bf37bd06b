---------------------------- MODULE LlmAdmission ----------------------------
(***************************************************************************)
(* The gate every model call passes (src/lib/limits): a token-bucket rate  *)
(* limit per workspace and user, a cap on calls in flight in the process,  *)
(* and a daily token budget per workspace with reservations for calls that *)
(* have not reported their usage yet.                                      *)
(*                                                                         *)
(* enforceLlmLimits awaits twice, for the workspace's overrides and for    *)
(* the day's usage, and takes its `now` before both.  A call goes through  *)
(* the gate once and then makes requests of the model, one after another:  *)
(* a chat turn several, each with a deadline of its own (ai/invoke.ts)     *)
(* while the reservation keeps the time of the admission.  A repair within *)
(* a turn reports its usage, and settles, before the turn does.            *)
(*                                                                         *)
(* Time is a clock of a few ticks; bucket tokens are counted in            *)
(* Minute-ths, so that the refill of PerMinute tokens a minute is a whole  *)
(* number per tick.                                                        *)
(***************************************************************************)
EXTENDS Integers, FiniteSets, FiniteSetsExt

CONSTANTS
  Calls, Workspaces, Users,
  Turns,        \* the calls that are chat turns; the others make one request
  WorkspaceOf,  \* the workspace a call is made in
  UserOf,       \* the identity that makes it
  PerMinute,    \* workspace -> requests per minute and user; 0 is no limit
  Budget,       \* workspace -> tokens a day; 0 is no limit
  MaxInFlight,  \* LLM_MAX_IN_FLIGHT; 0 is no cap
  Reserve,      \* RESERVE_TOKENS_PER_CALL
  MaxUsage,     \* most tokens a call uses
  MaxRequests,  \* most requests of a turn: MAX_STEPS and a repair
  Deadline,     \* AI_REQUEST_TIMEOUT_MS, of every request
  Slack,        \* what a reservation outlives a deadline by: 15 s
  Minute, Day,  \* ticks in a minute, in a UTC day
  MaxClock      \* bound on the clock

ASSUME LlmAssumption ==
  /\ WorkspaceOf \in [Calls -> Workspaces] /\ UserOf \in [Calls -> Users]
  /\ PerMinute \in [Workspaces -> Nat] /\ Budget \in [Workspaces -> Nat]
  /\ MaxInFlight \in Nat /\ Reserve \in Nat /\ MaxUsage \in Nat
  /\ Turns \subseteq Calls /\ MaxRequests \in Nat \ {0}
  /\ Deadline \in Nat \ {0} /\ Slack \in Nat \ {0}
  /\ Minute \in Nat \ {0} /\ Day \in Nat \ {0}
  /\ MaxClock \in Nat /\ IsFiniteSet(Calls)

VARIABLES
  clock,
  phase,   \* where a call is
  at,      \* the `now` its admission runs with
  bucket,  \* <<workspace, user>> -> its Bucket; full and NoTake when absent
  open,    \* calls with an open reservation
  seen,    \* what tokensUsed answered a call
  asked,   \* how many requests of the model a call has made
  sent,    \* when the request under way was sent, or NoRequest
  spent,   \* tokens reported of a call, of its repair and of the rest
  writes,  \* reports that are being written
  wroteOn, \* the day a report is recorded on
  used     \* workspace -> day -> tokens recorded in llm_usage

usage == <<spent, writes, wroteOn, used>>
vars == <<clock, phase, at, bucket, open, seen, asked, sent, usage>>

Phases == {"idle", "limits", "usage", "deciding", "running", "repaired", "gone",
           "done", "rate_limited", "busy", "over_budget"}
Running(c) == phase[c] \in {"running", "repaired"}
Reports == Calls \X {"repair", "call"}
Keys == Workspaces \X Users
KeyOf(c) == <<WorkspaceOf[c], UserOf[c]>>
NoTake == -1
NoRequest == -1
DayOf(t) == t \div Day
Days == 0..DayOf(MaxClock)

\* Wrong: no slack.
ReservedToDeadline(c) == at[c] + Deadline

\* reservationTtlMs after the `now` of the admission.
ReservedUntil(c) == at[c] + Deadline + Slack

LlmTypeOK ==
  /\ clock \in 0..MaxClock
  /\ phase \in [Calls -> Phases]
  /\ at \in [Calls -> 0..MaxClock]
  /\ bucket \in [Keys -> [tokens : Nat, updatedAt : Int]]
  /\ \A k \in Keys : /\ bucket[k].tokens \in 0..(PerMinute[k[1]] * Minute)
                     /\ bucket[k].updatedAt \in NoTake..MaxClock
  /\ open \subseteq Calls
  /\ seen \in [Calls -> Nat]
  /\ asked \in [Calls -> 0..MaxRequests]
  /\ sent \in [Calls -> NoRequest..MaxClock]
  /\ spent \in [Reports -> 0..MaxUsage]
  /\ writes \subseteq Reports
  /\ wroteOn \in [Reports -> Days]
  /\ used \in [Workspaces -> [Days -> Nat]]

Init ==
  /\ clock = 0
  /\ phase = [c \in Calls |-> "idle"]
  /\ at = [c \in Calls |-> 0]
  /\ bucket = [k \in Keys |-> [tokens |-> PerMinute[k[1]] * Minute, updatedAt |-> NoTake]]
  /\ open = {}
  /\ seen = [c \in Calls |-> 0]
  /\ asked = [c \in Calls |-> 0]
  /\ sent = [c \in Calls |-> NoRequest]
  /\ spent = [r \in Reports |-> 0]
  /\ writes = {}
  /\ wroteOn = [r \in Reports |-> 0]
  /\ used = [w \in Workspaces |-> [d \in Days |-> 0]]
-----------------------------------------------------------------------------
\* const now = deps.now(); the workspace's overrides are asked for.
Enter(c) ==
  /\ phase[c] = "idle"
  /\ phase' = [phase EXCEPT ![c] = "limits"]
  /\ at' = [at EXCEPT ![c] = clock]
  /\ UNCHANGED <<clock, bucket, open, seen, asked, sent, usage>>

\* takeToken's refill.  A `now` before updatedAt refills nothing.
Refilled(k, now) ==
  LET capacity == PerMinute[k[1]] * Minute
      elapsed  == IF now > bucket[k].updatedAt THEN now - bucket[k].updatedAt ELSE 0
  IN  IF bucket[k].updatedAt = NoTake
      THEN capacity
      ELSE Min({capacity, bucket[k].tokens + elapsed * PerMinute[k[1]]})

Unlimited(k) == PerMinute[k[1]] = 0
Allowed(k, now) == Unlimited(k) \/ Refilled(k, now) >= Minute

TakeToken(k, now) ==
  bucket' = IF Unlimited(k) THEN bucket ELSE
    [bucket EXCEPT ![k] =
       [tokens |-> Refilled(k, now) - (IF Allowed(k, now) THEN Minute ELSE 0),
        updatedAt |-> now]]

\* Reservations that have not expired at `now`; sweep deletes the others.
Unexpired(now) == {c \in open : ReservedUntil(c) > now}

Busy(now) == MaxInFlight > 0 /\ Cardinality(Unexpired(now)) >= MaxInFlight

\* The overrides arrived: the rate limit, then the cap, then the day's usage
\* is asked for.  No await between the first two but the bucket's own.
CheckRateAndCap(c) ==
  /\ phase[c] = "limits"
  /\ TakeToken(KeyOf(c), at[c])
  /\ \/ /\ ~Allowed(KeyOf(c), at[c])
        /\ phase' = [phase EXCEPT ![c] = "rate_limited"]
        /\ UNCHANGED open
     \/ /\ Allowed(KeyOf(c), at[c])
        /\ phase' = [phase EXCEPT ![c] = IF Busy(at[c]) THEN "busy" ELSE "usage"]
        /\ open' = IF MaxInFlight > 0 THEN Unexpired(at[c]) ELSE open
  /\ UNCHANGED <<clock, at, seen, asked, sent, usage>>

\* The database answers tokensUsed.
ReadUsage(c) ==
  /\ phase[c] = "usage"
  /\ phase' = [phase EXCEPT ![c] = "deciding"]
  /\ seen' = [seen EXCEPT ![c] = used[WorkspaceOf[c]][DayOf(at[c])]]
  /\ UNCHANGED <<clock, at, bucket, open, asked, sent, usage>>

ReservedBy(calls, w, d) ==
  Reserve * Cardinality({c \in calls : WorkspaceOf[c] = w /\ DayOf(at[c]) = d})

\* Wrong: the budget as it was before reservations (#496).
UnderBudgetUnreserved(c) ==
  Budget[WorkspaceOf[c]] = 0 \/ seen[c] < Budget[WorkspaceOf[c]]

UnderBudget(c) ==
  LET w == WorkspaceOf[c] IN
  Budget[w] = 0
    \/ seen[c] + ReservedBy(Unexpired(at[c]), w, DayOf(at[c])) < Budget[w]

\* The answer is processed: the budget, and on admission the reservation.
Decide(c) ==
  /\ phase[c] = "deciding"
  /\ \/ /\ UnderBudget(c)
        /\ phase' = [phase EXCEPT ![c] = "running"]
        /\ open' = Unexpired(at[c]) \cup {c}
     \/ /\ ~UnderBudget(c)
        /\ phase' = [phase EXCEPT ![c] = "over_budget"]
        /\ open' = Unexpired(at[c])
  /\ seen' = [seen EXCEPT ![c] = 0]  \* not looked at again
  /\ UNCHANGED <<clock, at, bucket, asked, sent, usage>>
-----------------------------------------------------------------------------
MostRequests(c) == IF c \in Turns THEN MaxRequests ELSE 1
MayAsk(c) == sent[c] = NoRequest /\ asked[c] < MostRequests(c)

\* A request goes to the model, under a deadline that starts now.
Ask(c) ==
  /\ Running(c) /\ MayAsk(c)
  /\ asked' = [asked EXCEPT ![c] = @ + 1]
  /\ sent' = [sent EXCEPT ![c] = clock]
  /\ UNCHANGED <<clock, phase, at, bucket, open, seen, usage>>

\* The model has answered to the end; what it asked for runs before the next.
Answer(c) ==
  /\ sent[c] # NoRequest
  /\ sent' = [sent EXCEPT ![c] = NoRequest]
  /\ UNCHANGED <<clock, phase, at, bucket, open, seen, asked, usage>>

Over(c, how) ==
  /\ phase' = [phase EXCEPT ![c] = how]
  /\ asked' = [asked EXCEPT ![c] = 0]
  /\ sent' = [sent EXCEPT ![c] = NoRequest]

\* record(usage): the reservation is settled at once, the usage written later.
Record(c, part) ==
  /\ open' = open \ {c}
  /\ \E tokens \in 0..MaxUsage : spent' = [spent EXCEPT ![<<c, part>>] = tokens]
  /\ writes' = writes \cup {<<c, part>>}
  /\ wroteOn' = [wroteOn EXCEPT ![<<c, part>>] = DayOf(clock)]
  /\ UNCHANGED <<clock, at, bucket, seen, used>>

\* onRepair: the second answer to one question is reported, and the turn goes on.
Repair(c) ==
  /\ phase[c] = "running" /\ c \in Turns /\ asked[c] > 1 /\ sent[c] = NoRequest
  /\ phase' = [phase EXCEPT ![c] = "repaired"]
  /\ Record(c, "repair")
  /\ UNCHANGED <<asked, sent>>

\* onFinish.
Finish(c) ==
  /\ Running(c) /\ asked[c] > 0 /\ sent[c] = NoRequest
  /\ Over(c, "done")
  /\ Record(c, "call")

\* Wrong: release leaves the reservation to expire.
ReleaseKeepsReservation(c) ==
  /\ phase[c] = "running" /\ sent[c] = NoRequest
  /\ Over(c, "done")
  /\ UNCHANGED <<clock, at, bucket, open, seen, usage>>

\* release(): the caller turned out not to call the model, or has no usage of it.
Release(c) ==
  /\ phase[c] = "running" /\ sent[c] = NoRequest
  /\ Over(c, "done")
  /\ open' = open \ {c}
  /\ UNCHANGED <<clock, at, bucket, seen, usage>>

\* The client went away, the deadline passed or the call failed: nothing settles
\* what is not settled yet.
Abandon(c) ==
  /\ Running(c)
  /\ Over(c, IF phase[c] = "running" THEN "gone" ELSE "done")
  /\ UNCHANGED <<clock, at, bucket, open, seen, usage>>

\* budgetStore.record commits.
WriteUsage(c) ==
  \E r \in writes :
    /\ r[1] = c
    /\ writes' = writes \ {r}
    /\ used' = [used EXCEPT ![WorkspaceOf[c]][wroteOn[r]] = @ + spent[r]]
    /\ UNCHANGED <<clock, phase, at, bucket, open, seen, asked, sent, spent, wroteOn>>

\* It fails, which is logged: the usage is never counted.
LoseUsage(c) ==
  \E r \in writes :
    /\ r[1] = c
    /\ writes' = writes \ {r}
    /\ spent' = [spent EXCEPT ![r] = 0]
    /\ UNCHANGED <<clock, phase, at, bucket, open, seen, asked, sent, wroteOn, used>>

\* No request outlives its deadline.  Nothing else keeps time from passing: not
\* the awaits of an admission, nor the tools between two requests.
Tick ==
  /\ clock < MaxClock
  /\ \A c \in Calls : sent[c] # NoRequest => clock < sent[c] + Deadline
  /\ clock' = clock + 1
  /\ UNCHANGED <<phase, at, bucket, open, seen, asked, sent, usage>>

Next ==
  \/ \E c \in Calls : Enter(c) \/ CheckRateAndCap(c) \/ ReadUsage(c) \/ Decide(c)
  \/ \E c \in Calls : Ask(c) \/ Answer(c) \/ Repair(c)
  \/ \E c \in Calls : Finish(c) \/ Release(c) \/ Abandon(c)
  \/ \E c \in Calls : WriteUsage(c) \/ LoseUsage(c)
  \/ Tick

Spec == Init /\ [][Next]_vars
-----------------------------------------------------------------------------
\* However calls are admitted together, the open reservations of a workspace's
\* day never exceed its budget by a whole reservation: a call's estimate is
\* reserved in the same step that counted the others' (#496).
ReservedBounded ==
  \A w \in Workspaces, d \in Days :
    Budget[w] > 0 => ReservedBy(open, w, d) < Budget[w] + Reserve

\* A reservation is the call's for its whole time and no other's: it is there
\* until ReservedUntil if the call runs and has reported nothing, whatever
\* sweeps with however stale a `now`; so it is there as long as a first request
\* sent within the slack of the admission is under way (what reservationTtlMs is
\* for); and none is left by a call that ended or has reported.
AskedInTime(c) == /\ phase[c] = "running" /\ asked[c] = 1
                  /\ sent[c] # NoRequest /\ sent[c] < at[c] + Slack
ReservedForItsTime ==
  \A c \in Calls : /\ phase[c] = "running" /\ clock < ReservedUntil(c) => c \in open
                   /\ AskedInTime(c) => c \in open
                   /\ c \in open => phase[c] \in {"running", "gone"}

\* A call is refused as busy only if MaxInFlight calls run, or were abandoned
\* while their reservation lasted, and it still did when this one came.
BusyMeansBusy ==
  [][\A c \in Calls : phase[c] # "busy" /\ phase'[c] = "busy" =>
       Cardinality({d \in Calls : \/ phase[d] = "running"
                                  \/ phase[d] = "gone" /\ ReservedUntil(d) > at[c]})
         >= MaxInFlight]_vars
-----------------------------------------------------------------------------
\* "Most calls in flight across every workspace" (llm.ts:70).
InFlightCapped ==
  MaxInFlight > 0 => Cardinality({c \in Calls : Running(c)}) <= MaxInFlight

\* "Open reservations are also the calls in flight" (reservations.ts:11).
RunningIsReserved == \A c \in Calls : Running(c) => c \in open

\* "A day can still overshoot by what the running calls spend beyond their
\* reservations" (docs/.../llm-limits.md), so calls that stay within theirs
\* overshoot by less than one reservation.
ReportsOf(w) == {r \in Reports : WorkspaceOf[r[1]] = w}
SpendingBounded ==
  \A w \in Workspaces : Budget[w] > 0 =>
    MapThenSumSet(LAMBDA r : spent[r], ReportsOf(w)) + ReservedBy(open, w, 0)
      < Budget[w] + Reserve
=============================================================================
