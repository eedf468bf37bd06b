---------------------------- MODULE SourceSlots ----------------------------
(***************************************************************************)
(* The counting semaphore that bounds how many poller executions run       *)
(* against one metrics source at once (src/lib/poller/source-slots.ts).    *)
(*                                                                         *)
(* `gates` is the Map from source id to Gate object.  A Gate is a mutable  *)
(* object: release functions and timers keep the object they were made     *)
(* with, whatever the Map says later, and an idle gate is removed from the *)
(* Map.  So a gate has an identity of its own here, and the question is    *)
(* whether two gate objects could ever serve one source, which would be    *)
(* twice the cap.  An object nobody refers to any more may be used again   *)
(* for a new one: that is how the finite set Gates stands for `new`.       *)
(***************************************************************************)
EXTENDS Integers, Sequences, FiniteSets

CONSTANTS
  Sources,   \* source ids, the keys of the Map
  Clients,   \* executions of panels: each calls acquire, then its release
  SourceOf,  \* the source an execution queries
  Gates,     \* Gate objects
  NoGate,    \* no entry in the Map; no gate captured
  Capacity   \* max(1, MAX_POOL_PER_SOURCE - 1)

ASSUME SlotsAssumption ==
  /\ SourceOf \in [Clients -> Sources]
  /\ NoGate \notin Gates
  /\ Capacity \in Nat \ {0}

VARIABLES
  gates,     \* source id -> its Gate, or NoGate
  inFlight,  \* gate -> slots taken
  queue,     \* gate -> waiters, longest waiting first
  slot,      \* execution -> what its acquire came to
  captured   \* execution -> the gate its waiter or release function holds

slotVars == <<gates, inFlight, queue, slot, captured>>

SlotState == {"none", "waiting", "held", "skipped"}

SlotsTypeOK ==
  /\ gates \in [Sources -> Gates \cup {NoGate}]
  /\ inFlight \in [Gates -> Nat]
  /\ queue \in [Gates -> Seq(Clients)]
  /\ slot \in [Clients -> SlotState]
  /\ captured \in [Clients -> Gates \cup {NoGate}]

SlotsInit ==
  /\ gates = [s \in Sources |-> NoGate]
  /\ inFlight = [g \in Gates |-> 0]
  /\ queue = [g \in Gates |-> <<>>]
  /\ slot = [c \in Clients |-> "none"]
  /\ captured = [c \in Clients |-> NoGate]
-----------------------------------------------------------------------------
Unreferenced(g) ==
  /\ \A s \in Sources : gates[s] # g
  /\ \A c \in Clients : captured[c] # g

\* this.gates.get(sourceId) ?? { inFlight: 0, queue: [] }
GateFor(s, g) == IF gates[s] = NoGate THEN Unreferenced(g) ELSE g = gates[s]

\* What the gate counts before this acquire; a new gate counts nothing.
Taken(s, g)   == IF gates[s] = NoGate THEN 0 ELSE inFlight[g]
Waiting(s, g) == IF gates[s] = NoGate THEN <<>> ELSE queue[g]

\* Wrong: an off-by-one in `gate.inFlight < this.capacity()`.
GrantPastCap(c, s, g) ==
  /\ Taken(s, g) <= Capacity
  /\ inFlight' = [inFlight EXCEPT ![g] = Taken(s, g) + 1]
  /\ queue' = [queue EXCEPT ![g] = Waiting(s, g)]
  /\ slot' = [slot EXCEPT ![c] = "held"]

Grant(c, s, g) ==
  /\ Taken(s, g) < Capacity
  /\ inFlight' = [inFlight EXCEPT ![g] = Taken(s, g) + 1]
  /\ queue' = [queue EXCEPT ![g] = Waiting(s, g)]
  /\ slot' = [slot EXCEPT ![c] = "held"]

Enqueue(c, s, g) ==
  /\ Taken(s, g) >= Capacity
  /\ inFlight' = [inFlight EXCEPT ![g] = Taken(s, g)]
  /\ queue' = [queue EXCEPT ![g] = Append(Waiting(s, g), c)]
  /\ slot' = [slot EXCEPT ![c] = "waiting"]

\* An execution asks for a slot on its source.  The Map has an entry for the
\* source from here on, whether the slot is granted or waited for.
Acquire(c) ==
  LET s == SourceOf[c] IN
  /\ slot[c] = "none"
  /\ \E g \in Gates :
       /\ GateFor(s, g)
       /\ Grant(c, s, g) \/ Enqueue(c, s, g)
       /\ gates' = [gates EXCEPT ![s] = g]
       /\ captured' = [captured EXCEPT ![c] = g]

\* queue.filter((w) => w !== waiter)
Without(q, c) ==
  LET at == CHOOSE i \in 1..Len(q) : q[i] = c
  IN  [i \in 1..(Len(q) - 1) |-> IF i < at THEN q[i] ELSE q[i + 1]]

\* Wrong: forgets a gate that has slots out.
ForgetWhenUnqueued(s, g) ==
  gates' = IF queue'[g] = <<>> THEN [gates EXCEPT ![s] = NoGate] ELSE gates

\* Wrong: never forgets one.
ForgetNothing(s, g) == s \in Sources /\ g \in Gates /\ UNCHANGED gates

\* An idle gate leaves the Map, under the source id it was made for.
Forget(s, g) ==
  gates' = IF inFlight'[g] = 0 /\ queue'[g] = <<>>
           THEN [gates EXCEPT ![s] = NoGate]
           ELSE gates

\* The waiter's timer: acquire resolves with null and the caller skips.
TimeOut(c) ==
  LET g == captured[c] IN
  /\ slot[c] = "waiting"
  /\ queue' = [queue EXCEPT ![g] = Without(queue[g], c)]
  /\ slot' = [slot EXCEPT ![c] = "skipped"]
  /\ captured' = [captured EXCEPT ![c] = NoGate]
  /\ UNCHANGED inFlight
  /\ Forget(SourceOf[c], g)

\* Wrong: gives the slot back without looking at the queue.
ReleaseLosesWakeup(c) ==
  LET g == captured[c] IN
  /\ slot[c] = "held"
  /\ captured' = [captured EXCEPT ![c] = NoGate]
  /\ inFlight' = [inFlight EXCEPT ![g] = @ - 1]
  /\ slot' = [slot EXCEPT ![c] = "none"]
  /\ UNCHANGED queue
  /\ Forget(SourceOf[c], g)

\* Wrong: pop() for shift().
ReleaseNewestFirst(c) ==
  LET g == captured[c] IN
  /\ slot[c] = "held"
  /\ captured' = [captured EXCEPT ![c] = NoGate]
  /\ \/ /\ queue[g] # <<>>
        /\ queue' = [queue EXCEPT ![g] = SubSeq(@, 1, Len(@) - 1)]
        /\ slot' = [slot EXCEPT ![c] = "none", ![queue[g][Len(queue[g])]] = "held"]
        /\ UNCHANGED <<gates, inFlight>>
     \/ /\ queue[g] = <<>>
        /\ inFlight' = [inFlight EXCEPT ![g] = @ - 1]
        /\ slot' = [slot EXCEPT ![c] = "none"]
        /\ UNCHANGED queue
        /\ Forget(SourceOf[c], g)

\* The release function of an execution that holds a slot.  With a waiter the
\* slot passes straight to it, its timer cleared; otherwise it is given back.
\* Called once: a second call returns at its `released` flag.
Release(c) ==
  LET g == captured[c] IN
  /\ slot[c] = "held"
  /\ captured' = [captured EXCEPT ![c] = NoGate]
  /\ \/ /\ queue[g] # <<>>
        /\ queue' = [queue EXCEPT ![g] = Tail(queue[g])]
        /\ slot' = [slot EXCEPT ![c] = "none", ![Head(queue[g])] = "held"]
        /\ UNCHANGED <<gates, inFlight>>
     \/ /\ queue[g] = <<>>
        /\ inFlight' = [inFlight EXCEPT ![g] = @ - 1]
        /\ slot' = [slot EXCEPT ![c] = "none"]
        /\ UNCHANGED queue
        /\ Forget(SourceOf[c], g)

\* The caller of an acquire that came to nothing goes on without a slot.
Skip(c) ==
  /\ slot[c] = "skipped"
  /\ slot' = [slot EXCEPT ![c] = "none"]
  /\ UNCHANGED <<gates, inFlight, queue, captured>>

SlotsNext == \E c \in Clients : Acquire(c) \/ TimeOut(c) \/ Release(c) \/ Skip(c)

\* Executions end, so release functions are called (runPanel's finally).  No
\* fairness on TimeOut: a waiter must be served without its timer's help.
SlotsFairness == \A c \in Clients : WF_slotVars(Release(c)) /\ WF_slotVars(Skip(c))

SlotsSpec == SlotsInit /\ [][SlotsNext]_slotVars
FairSlotsSpec == SlotsSpec /\ SlotsFairness
-----------------------------------------------------------------------------
Held(s) == {c \in Clients : SourceOf[c] = s /\ slot[c] = "held"}

\* No more than Capacity executions hold a slot of one source, over every gate
\* object the source has had: what leaves an interactive query a connection.
CapPerSource == \A s \in Sources : Cardinality(Held(s)) <= Capacity

\* An execution waits only while every slot of its source is held, so a slot
\* given back by a release or freed by a timeout is never left unused beside
\* a waiter (a lost wakeup would strand the waiter until its timer).
NoLostWakeup ==
  \A c \in Clients :
    slot[c] = "waiting" => Cardinality(Held(SourceOf[c])) = Capacity

\* Every live waiter and release function of a source refers to the gate the
\* Map has for it, and two sources never share one: a delete in `forget` never
\* takes an entry a later acquire made.
OneGatePerSource ==
  \A c \in Clients : captured[c] # NoGate =>
    \A s \in Sources : gates[s] = captured[c] <=> s = SourceOf[c]

\* The Map holds no entry for a source nobody polls.
NoIdleGate ==
  \A s \in Sources : gates[s] # NoGate =>
    \E c \in Clients : SourceOf[c] = s /\ captured[c] = gates[s]

\* A waiter is granted a slot only once everyone who queued before it on the
\* same gate has been granted one or has given up.
Before(c, d) ==
  \E g \in Gates : \E i, j \in 1..Len(queue[g]) :
    i < j /\ queue[g][i] = c /\ queue[g][j] = d
FifoGrants ==
  [][\A c, d \in Clients :
       Before(c, d) /\ slot[d] = "waiting" /\ slot'[d] = "held"
         => slot'[c] # "waiting"]_slotVars

\* The gates implement the promise.
Promise == INSTANCE SlotPromise
KeepsPromise == Promise!PromiseSpec

\* When executions end, every waiter is served or gives up, without relying
\* on its timer and however many others keep arriving.
WaiterServed ==
  \A c \in Clients : slot[c] = "waiting" ~> slot[c] # "waiting"
=============================================================================
