------------------------- MODULE SourceSlotsProofs -------------------------
(***************************************************************************)
(* For any sources, executions, gates and capacity: the semaphore of       *)
(* SourceSlots keeps its cap, strands no waiter, and never has two gates   *)
(* for one source.                                                         *)
(*                                                                         *)
(* None of the three is inductive.  The cap needs that a gate's counter is *)
(* the number of executions holding a slot of its source; that needs the   *)
(* release functions in use to refer to the registered gate; and that      *)
(* needs that a gate is removed from the Map only when nobody holds or     *)
(* awaits one of its slots.  SlotsInv is their conjunction.                *)
(***************************************************************************)
EXTENDS SourceSlots, FiniteSetTheorems, SequenceTheorems, TLAPS

\* An execution refers to a gate exactly while it waits or holds a slot.
Captures ==
  \A c \in Clients : captured[c] = NoGate <=> slot[c] \in {"none", "skipped"}

\* Two sources have different gates.
DistinctGates ==
  \A s, t \in Sources : gates[s] = gates[t] /\ gates[s] # NoGate => s = t

Queued(s, c) == \E i \in 1..Len(queue[gates[s]]) : queue[gates[s]][i] = c

\* A registered gate's queue lists its source's waiters, each once.
QueueOfWaiters ==
  \A s \in Sources : gates[s] # NoGate =>
    /\ \A c \in Clients : Queued(s, c) <=> SourceOf[c] = s /\ slot[c] = "waiting"
    /\ \A i, j \in 1..Len(queue[gates[s]]) :
         queue[gates[s]][i] = queue[gates[s]][j] => i = j

\* A registered gate counts the executions holding a slot of its source, has
\* at least one, and has waiters only when it is full.
CountOfHolders ==
  \A s \in Sources : gates[s] # NoGate =>
    /\ IsFiniteSet(Held(s))
    /\ inFlight[gates[s]] = Cardinality(Held(s))
    /\ inFlight[gates[s]] \in 1..Capacity
    /\ queue[gates[s]] # <<>> => inFlight[gates[s]] = Capacity

SlotsInv ==
  /\ SlotsTypeOK
  /\ Captures
  /\ OneGatePerSource
  /\ DistinctGates
  /\ QueueOfWaiters
  /\ CountOfHolders
-----------------------------------------------------------------------------
(* A newcomer queues behind the others.                                    *)
LEMMA NewcomerLast ==
  ASSUME NEW S, NEW q \in Seq(S), NEW c \in S,
         \A i, j \in 1..Len(q) : q[i] = q[j] => i = j,
         ~ \E i \in 1..Len(q) : q[i] = c
  PROVE  /\ Append(q, c) \in Seq(S)
         /\ \A i, j \in 1..Len(Append(q, c)) :
              Append(q, c)[i] = Append(q, c)[j] => i = j
         /\ \A d : (\E i \in 1..Len(Append(q, c)) : Append(q, c)[i] = d)
                     <=> d = c \/ \E i \in 1..Len(q) : q[i] = d
<1>1. /\ Append(q, c) \in Seq(S) /\ Len(Append(q, c)) = Len(q) + 1
      /\ Len(q) \in Nat
      /\ \A i \in 1..Len(q) : Append(q, c)[i] = q[i]
      /\ Append(q, c)[Len(q) + 1] = c
  OBVIOUS
<1>2. \A i, j \in 1..Len(Append(q, c)) :
        Append(q, c)[i] = Append(q, c)[j] => i = j
  BY <1>1
<1>3. ASSUME NEW d
      PROVE  (\E i \in 1..Len(Append(q, c)) : Append(q, c)[i] = d)
               <=> d = c \/ \E i \in 1..Len(q) : q[i] = d
  <2>1. Len(q) + 1 \in 1..Len(Append(q, c))
    BY <1>1
  <2>2. \A i \in 1..Len(q) : i \in 1..Len(Append(q, c))
    BY <1>1
  <2>3. \A i \in 1..Len(Append(q, c)) : i = Len(q) + 1 \/ i \in 1..Len(q)
    BY <1>1
  <2> QED
    BY <1>1, <2>1, <2>2, <2>3
<1> QED
  BY <1>1, <1>2, <1>3

(* Taking a waiter out of a queue leaves the others, in their order.       *)
LEMMA QuitterLeaves ==
  ASSUME NEW S, NEW q \in Seq(S), NEW c, \E k \in 1..Len(q) : q[k] = c,
         \A i, j \in 1..Len(q) : q[i] = q[j] => i = j
  PROVE  /\ Without(q, c) \in Seq(S)
         /\ Len(Without(q, c)) = Len(q) - 1
         /\ \A i, j \in 1..Len(Without(q, c)) :
              Without(q, c)[i] = Without(q, c)[j] => i = j
         /\ \A d \in S : (\E i \in 1..Len(Without(q, c)) : Without(q, c)[i] = d)
                     <=> d # c /\ \E i \in 1..Len(q) : q[i] = d
<1>0. PICK k \in 1..Len(q) : q[k] = c
  OBVIOUS
<1> DEFINE w == [i \in 1..(Len(q) - 1) |-> IF i < k THEN q[i] ELSE q[i + 1]]
<1>1. Len(q) \in Nat /\ \A i \in 1..Len(q) : q[i] \in S
  BY LenProperties, ElementOfSeq
<1>2. Without(q, c) = w
  <2>1. (CHOOSE i \in 1..Len(q) : q[i] = c) = k
    BY <1>0
  <2> QED
    BY <2>1 DEF Without
<1>3. Len(q) - 1 \in Nat
  BY <1>1
<1>4. w \in [1..(Len(q) - 1) -> S]
  BY <1>0, <1>1
<1>5. w \in Seq(S) /\ Len(w) = Len(q) - 1
  BY <1>3, <1>4
<1>6. \A i, j \in 1..(Len(q) - 1) : w[i] = w[j] => i = j
  BY <1>0, <1>1
<1>7. ASSUME NEW d \in S
      PROVE  (\E i \in 1..(Len(q) - 1) : w[i] = d)
               <=> d # c /\ \E i \in 1..Len(q) : q[i] = d
  <2>1. ASSUME NEW i \in 1..(Len(q) - 1), w[i] = d
        PROVE  d # c /\ \E j \in 1..Len(q) : q[j] = d
    BY <1>0, <1>1, <2>1
  <2>2. ASSUME NEW j \in 1..Len(q), q[j] = d, d # c
        PROVE  \E i \in 1..(Len(q) - 1) : w[i] = d
    <3>1. CASE j < k
      BY <1>0, <1>1, <2>2, <3>1
    <3>2. CASE j > k
      <4>1. j - 1 \in 1..(Len(q) - 1) /\ w[j - 1] = d
        BY <1>0, <1>1, <2>2, <3>2
      <4> QED
        BY <4>1
    <3> QED
      BY <1>0, <1>1, <2>2, <3>1, <3>2
  <2> QED
    BY <2>1, <2>2
<1> HIDE DEF w
<1> QED
  BY <1>2, <1>5, <1>6, <1>7

(* The head of a queue leaves it; the others stay, in their order.         *)
LEMMA ServedLeaves ==
  ASSUME NEW S, NEW q \in Seq(S), q # <<>>,
         \A i, j \in 1..Len(q) : q[i] = q[j] => i = j
  PROVE  /\ Head(q) \in S /\ Head(q) = q[1] /\ 1 \in 1..Len(q)
         /\ Tail(q) \in Seq(S)
         /\ \A i, j \in 1..Len(Tail(q)) : Tail(q)[i] = Tail(q)[j] => i = j
         /\ \A d : (\E i \in 1..Len(Tail(q)) : Tail(q)[i] = d)
                     <=> d # Head(q) /\ \E i \in 1..Len(q) : q[i] = d
<1>1. /\ Len(q) \in Nat \ {0} /\ Len(Tail(q)) = Len(q) - 1
      /\ \A i \in 1..Len(Tail(q)) : Tail(q)[i] = q[i + 1]
      /\ Head(q) \in S /\ Tail(q) \in Seq(S)
  BY HeadTailProperties, EmptySeq
<1>2. Head(q) = q[1] /\ 1 \in 1..Len(q)
  BY <1>1
<1>3. ASSUME NEW d
      PROVE  (\E i \in 1..Len(Tail(q)) : Tail(q)[i] = d)
               <=> d # Head(q) /\ \E i \in 1..Len(q) : q[i] = d
  <2>1. ASSUME NEW i \in 1..Len(Tail(q)), Tail(q)[i] = d
        PROVE  d # Head(q) /\ \E j \in 1..Len(q) : q[j] = d
    BY <1>1, <1>2, <2>1
  <2>2. ASSUME NEW j \in 1..Len(q), q[j] = d, d # Head(q)
        PROVE  \E i \in 1..Len(Tail(q)) : Tail(q)[i] = d
    <3>1. j - 1 \in 1..Len(Tail(q)) /\ Tail(q)[j - 1] = d
      BY <1>1, <1>2, <2>2
    <3> QED
      BY <3>1
  <2> QED
    BY <2>1, <2>2
<1>4. \A i, j \in 1..Len(Tail(q)) : Tail(q)[i] = Tail(q)[j] => i = j
  BY <1>1
<1> QED
  BY <1>1, <1>2, <1>3, <1>4
-----------------------------------------------------------------------------
(* What a step on source s does not touch: another source's gate is a      *)
(* different one, with a different queue and holders of its own.           *)
LEMMA OtherSources ==
  ASSUME SlotsInv, NEW s \in Sources, NEW g \in Gates,
         gates[s] # NoGate => g = gates[s],
         gates[s] = NoGate => Unreferenced(g),
         NEW t \in Sources, t # s, gates[t] # NoGate
  PROVE  gates[t] # g
BY DEF SlotsInv, DistinctGates, Unreferenced

(* A source without an entry has neither holders nor waiters.              *)
LEMMA NoEntryNobody ==
  ASSUME SlotsInv, NEW s \in Sources, gates[s] = NoGate,
         NEW c \in Clients, SourceOf[c] = s
  PROVE  slot[c] \in {"none", "skipped"} /\ captured[c] = NoGate
<1>1. captured[c] \in Gates \cup {NoGate} /\ NoGate \notin Gates
  BY SlotsAssumption DEF SlotsInv, SlotsTypeOK
<1>2. captured[c] = NoGate
  BY <1>1 DEF SlotsInv, OneGatePerSource
<1> QED
  BY <1>2 DEF SlotsInv, Captures

LEMMA InitEstablishes == SlotsInit => SlotsInv
<1> SUFFICES ASSUME SlotsInit PROVE SlotsInv
  OBVIOUS
<1>1. \A g \in Gates : <<>> \in Seq(Clients)
  BY EmptySeq
<1> QED
  BY <1>1, SlotsAssumption
  DEF SlotsInit, SlotsInv, SlotsTypeOK, SlotState, Captures, OneGatePerSource,
      DistinctGates, QueueOfWaiters, CountOfHolders

(* What every acquire has in common, granted or not.                       *)
LEMMA AcquireFacts ==
  ASSUME SlotsInv, NEW c \in Clients, slot[c] = "none",
         NEW g \in Gates, GateFor(SourceOf[c], g)
  PROVE  /\ SourceOf[c] \in Sources
         /\ captured[c] = NoGate
         /\ gates[SourceOf[c]] # NoGate => g = gates[SourceOf[c]]
         /\ gates[SourceOf[c]] = NoGate => Unreferenced(g)
         /\ Waiting(SourceOf[c], g) \in Seq(Clients)
         /\ IsFiniteSet(Held(SourceOf[c]))
         /\ Taken(SourceOf[c], g) = Cardinality(Held(SourceOf[c]))
         /\ Taken(SourceOf[c], g) \in 0..Capacity
         /\ Waiting(SourceOf[c], g) # <<>> => Taken(SourceOf[c], g) = Capacity
         /\ \A d \in Clients :
              (\E i \in 1..Len(Waiting(SourceOf[c], g)) : Waiting(SourceOf[c], g)[i] = d)
                <=> SourceOf[d] = SourceOf[c] /\ slot[d] = "waiting"
         /\ \A i, j \in 1..Len(Waiting(SourceOf[c], g)) :
              Waiting(SourceOf[c], g)[i] = Waiting(SourceOf[c], g)[j] => i = j
<1> DEFINE s == SourceOf[c]
<1>1. s \in Sources /\ Capacity \in Nat \ {0} /\ NoGate \notin Gates
  BY SlotsAssumption
<1>2. captured[c] = NoGate
  BY DEF SlotsInv, Captures
<1>3. CASE gates[s] = NoGate
  <2>1. Taken(s, g) = 0 /\ Waiting(s, g) = <<>> /\ Unreferenced(g)
    BY <1>3 DEF Taken, Waiting, GateFor
  <2>2. \A d \in Clients : SourceOf[d] = s => slot[d] \in {"none", "skipped"}
    BY <1>1, <1>3, NoEntryNobody
  <2>3. Held(s) = {}
    BY <2>2 DEF Held
  <2>4. IsFiniteSet(Held(s)) /\ Cardinality(Held(s)) = 0
    BY <2>3, FS_EmptySet
  <2>5. <<>> \in Seq(Clients) /\ Len(<<>>) = 0
    BY EmptySeq
  <2> QED
    BY <1>1, <1>2, <1>3, <2>1, <2>2, <2>4, <2>5
<1>4. CASE gates[s] # NoGate
  <2>1. g = gates[s] /\ Taken(s, g) = inFlight[g] /\ Waiting(s, g) = queue[g]
    BY <1>4 DEF Taken, Waiting, GateFor
  <2>2. queue[g] \in Seq(Clients)
    BY DEF SlotsInv, SlotsTypeOK
  <2>3. /\ IsFiniteSet(Held(s))
        /\ inFlight[g] = Cardinality(Held(s))
        /\ inFlight[g] \in 1..Capacity
        /\ queue[g] # <<>> => inFlight[g] = Capacity
    BY <1>1, <1>4, <2>1 DEF SlotsInv, CountOfHolders
  <2>4. /\ \A d \in Clients : (\E i \in 1..Len(queue[g]) : queue[g][i] = d)
                                 <=> SourceOf[d] = s /\ slot[d] = "waiting"
        /\ \A i, j \in 1..Len(queue[g]) : queue[g][i] = queue[g][j] => i = j
    BY <1>1, <1>4, <2>1 DEF SlotsInv, QueueOfWaiters, Queued
  <2> QED
    BY <1>1, <1>2, <1>4, <2>1, <2>2, <2>3, <2>4
<1> QED
  BY <1>3, <1>4

LEMMA GrantPreserves ==
  ASSUME SlotsInv, NEW c \in Clients, slot[c] = "none",
         NEW g \in Gates, GateFor(SourceOf[c], g), Grant(c, SourceOf[c], g),
         gates' = [gates EXCEPT ![SourceOf[c]] = g],
         captured' = [captured EXCEPT ![c] = g]
  PROVE  SlotsInv'
<1> DEFINE s == SourceOf[c]
<1> DEFINE q == Waiting(s, g)
<1>1. /\ s \in Sources /\ g \in Gates /\ g # NoGate
      /\ Capacity \in Nat \ {0}
      /\ SourceOf \in [Clients -> Sources]
  BY SlotsAssumption
<1>2. /\ captured[c] = NoGate
      /\ gates[s] # NoGate => g = gates[s]
      /\ gates[s] = NoGate => Unreferenced(g)
      /\ q \in Seq(Clients)
      /\ IsFiniteSet(Held(s))
      /\ Taken(s, g) = Cardinality(Held(s))
      /\ Taken(s, g) \in 0..Capacity
      /\ q # <<>> => Taken(s, g) = Capacity
      /\ \A d \in Clients : (\E i \in 1..Len(q) : q[i] = d)
                               <=> SourceOf[d] = s /\ slot[d] = "waiting"
      /\ \A i, j \in 1..Len(q) : q[i] = q[j] => i = j
  BY AcquireFacts
<1>3. /\ Taken(s, g) < Capacity
      /\ inFlight' = [inFlight EXCEPT ![g] = Taken(s, g) + 1]
      /\ queue' = [queue EXCEPT ![g] = q]
      /\ slot' = [slot EXCEPT ![c] = "held"]
  BY DEF Grant
<1>4. SlotsTypeOK
  BY DEF SlotsInv
<1> HIDE DEF q
<1>5. SlotsTypeOK'
  BY <1>1, <1>2, <1>3, <1>4 DEF SlotsTypeOK, SlotState
<1>6. Captures'
  BY <1>1, <1>3, <1>4 DEF SlotsInv, Captures, SlotsTypeOK
<1>7. \A t \in Sources : gates'[t] = IF t = s THEN g ELSE gates[t]
  BY <1>1, <1>4 DEF SlotsTypeOK
<1>8. \A t \in Sources : t # s /\ gates[t] # NoGate => gates[t] # g
  BY <1>1, <1>2, OtherSources
<1>9. DistinctGates'
  BY <1>7, <1>8 DEF SlotsInv, DistinctGates
<1>10. OneGatePerSource'
  <2> SUFFICES ASSUME NEW d \in Clients, captured'[d] # NoGate, NEW t \in Sources
               PROVE  gates'[t] = captured'[d] <=> t = SourceOf[d]
    BY DEF OneGatePerSource
  <2>1. CASE d = c
    BY <1>1, <1>4, <1>7, <1>8, <2>1 DEF SlotsTypeOK
  <2>2. CASE d # c
    <3>1. captured'[d] = captured[d] /\ captured[d] # NoGate
      BY <1>4, <2>2 DEF SlotsTypeOK
    <3>2. \A u \in Sources : gates[u] = captured[d] <=> u = SourceOf[d]
      BY <3>1 DEF SlotsInv, OneGatePerSource
    <3>3. gates[s] = NoGate => captured[d] # g
      BY <1>2 DEF Unreferenced
    <3> QED
      BY <1>1, <1>2, <1>7, <1>8, <3>1, <3>2, <3>3
  <2> QED
    BY <2>1, <2>2
<1>11. QueueOfWaiters'
  <2> SUFFICES ASSUME NEW t \in Sources, gates'[t] # NoGate
               PROVE  /\ \A d \in Clients : Queued(t, d)'
                           <=> SourceOf[d] = t /\ slot'[d] = "waiting"
                      /\ \A i, j \in 1..Len(queue'[gates'[t]]) :
                           queue'[gates'[t]][i] = queue'[gates'[t]][j] => i = j
    BY DEF QueueOfWaiters
  <2>1. \A d \in Clients : slot'[d] = "waiting" <=> slot[d] = "waiting"
    BY <1>3, <1>4 DEF SlotsTypeOK
  <2>2. CASE t = s
    <3>1. queue'[gates'[t]] = q
      BY <1>1, <1>3, <1>4, <1>7, <2>2 DEF SlotsTypeOK
    <3> QED
      BY <1>2, <2>1, <2>2, <3>1 DEF Queued
  <2>3. CASE t # s
    <3>1. gates'[t] = gates[t] /\ gates[t] # g /\ queue'[gates'[t]] = queue[gates[t]]
      BY <1>3, <1>4, <1>7, <1>8, <2>3 DEF SlotsTypeOK
    <3> QED
      BY <2>1, <3>1 DEF SlotsInv, QueueOfWaiters, Queued
  <2> QED
    BY <2>2, <2>3
<1>12. CountOfHolders'
  <2> SUFFICES ASSUME NEW t \in Sources, gates'[t] # NoGate
               PROVE  /\ IsFiniteSet(Held(t)')
                      /\ inFlight'[gates'[t]] = Cardinality(Held(t)')
                      /\ inFlight'[gates'[t]] \in 1..Capacity
                      /\ queue'[gates'[t]] # <<>> => inFlight'[gates'[t]] = Capacity
    BY DEF CountOfHolders
  <2>1. CASE t = s
    <3>1. Held(s)' = Held(s) \cup {c} /\ c \notin Held(s)
      BY <1>1, <1>3, <1>4 DEF Held, SlotsTypeOK
    <3>2. IsFiniteSet(Held(s)') /\ Cardinality(Held(s)') = Cardinality(Held(s)) + 1
      BY <1>2, <3>1, FS_AddElement
    <3>3. inFlight'[gates'[t]] = Taken(s, g) + 1 /\ queue'[gates'[t]] = q
      BY <1>1, <1>3, <1>4, <1>7, <2>1 DEF SlotsTypeOK
    <3>4. q = <<>>
      BY <1>2, <1>3, <1>1
    <3> QED
      BY <1>1, <1>2, <1>3, <2>1, <3>2, <3>3, <3>4
  <2>2. CASE t # s
    <3>1. gates'[t] = gates[t] /\ gates[t] # g /\ gates[t] \in Gates
      BY <1>4, <1>7, <1>8, <2>2 DEF SlotsTypeOK
    <3>2. inFlight'[gates'[t]] = inFlight[gates[t]] /\ queue'[gates'[t]] = queue[gates[t]]
      BY <1>3, <1>4, <3>1 DEF SlotsTypeOK
    <3>3. Held(t)' = Held(t)
      BY <1>3, <1>4, <2>2 DEF Held, SlotsTypeOK
    <3> QED
      BY <3>1, <3>2, <3>3 DEF SlotsInv, CountOfHolders
  <2> QED
    BY <2>1, <2>2
<1> QED
  BY <1>5, <1>6, <1>9, <1>10, <1>11, <1>12 DEF SlotsInv

LEMMA EnqueuePreserves ==
  ASSUME SlotsInv, NEW c \in Clients, slot[c] = "none",
         NEW g \in Gates, GateFor(SourceOf[c], g), Enqueue(c, SourceOf[c], g),
         gates' = [gates EXCEPT ![SourceOf[c]] = g],
         captured' = [captured EXCEPT ![c] = g]
  PROVE  SlotsInv'
<1> DEFINE s == SourceOf[c]
<1> DEFINE q == Waiting(s, g)
<1>1. /\ s \in Sources /\ g \in Gates /\ g # NoGate
      /\ Capacity \in Nat \ {0}
      /\ SourceOf \in [Clients -> Sources]
  BY SlotsAssumption
<1>2. /\ q \in Seq(Clients)
      /\ IsFiniteSet(Held(s))
      /\ Taken(s, g) = Cardinality(Held(s))
      /\ Taken(s, g) \in 0..Capacity
      /\ \A d \in Clients : (\E i \in 1..Len(q) : q[i] = d)
                               <=> SourceOf[d] = s /\ slot[d] = "waiting"
      /\ \A i, j \in 1..Len(q) : q[i] = q[j] => i = j
  BY AcquireFacts
<1>3. /\ Taken(s, g) >= Capacity
      /\ inFlight' = [inFlight EXCEPT ![g] = Taken(s, g)]
      /\ queue' = [queue EXCEPT ![g] = Append(q, c)]
      /\ slot' = [slot EXCEPT ![c] = "waiting"]
  BY DEF Enqueue
<1>4. SlotsTypeOK
  BY DEF SlotsInv
<1>5. gates[s] = g
  <2>1. CASE gates[s] = NoGate
    BY <1>1, <1>3, <2>1 DEF Taken
  <2> QED
    BY <2>1 DEF GateFor
<1> HIDE DEF q
<1>6. gates' = gates
  BY <1>4, <1>5 DEF SlotsTypeOK
<1>7. /\ Append(q, c) \in Seq(Clients)
      /\ \A i, j \in 1..Len(Append(q, c)) :
           Append(q, c)[i] = Append(q, c)[j] => i = j
      /\ \A d : (\E i \in 1..Len(Append(q, c)) : Append(q, c)[i] = d)
                  <=> d = c \/ \E i \in 1..Len(q) : q[i] = d
  <2>1. ~ \E i \in 1..Len(q) : q[i] = c
    BY <1>2
  <2>2. q \in Seq(Clients) /\ \A i, j \in 1..Len(q) : q[i] = q[j] => i = j
    BY <1>2
  <2> QED
    BY <2>1, <2>2, NewcomerLast
<1>8. SlotsTypeOK'
  BY <1>1, <1>2, <1>3, <1>4, <1>6, <1>7 DEF SlotsTypeOK, SlotState
<1>9. Captures'
  BY <1>1, <1>3, <1>4 DEF SlotsInv, Captures, SlotsTypeOK
<1>10. DistinctGates'
  BY <1>6 DEF SlotsInv, DistinctGates
<1>11. OneGatePerSource'
  <2> SUFFICES ASSUME NEW d \in Clients, captured'[d] # NoGate, NEW t \in Sources
               PROVE  gates[t] = captured'[d] <=> t = SourceOf[d]
    BY <1>6 DEF OneGatePerSource
  <2>1. CASE d = c
    BY <1>1, <1>4, <1>5, <2>1 DEF SlotsInv, SlotsTypeOK, DistinctGates
  <2>2. CASE d # c
    BY <1>4, <2>2 DEF SlotsInv, SlotsTypeOK, OneGatePerSource
  <2> QED
    BY <2>1, <2>2
<1>12. QueueOfWaiters'
  <2> SUFFICES ASSUME NEW t \in Sources, gates[t] # NoGate
               PROVE  /\ \A d \in Clients : Queued(t, d)'
                           <=> SourceOf[d] = t /\ slot'[d] = "waiting"
                      /\ \A i, j \in 1..Len(queue'[gates[t]]) :
                           queue'[gates[t]][i] = queue'[gates[t]][j] => i = j
    BY <1>6 DEF QueueOfWaiters
  <2>1. CASE t = s
    <3>1. queue'[gates[t]] = Append(q, c)
      BY <1>3, <1>4, <1>5, <2>1 DEF SlotsTypeOK
    <3>2. \A d \in Clients : Queued(t, d)' <=> d = c \/ \E i \in 1..Len(q) : q[i] = d
      BY <1>6, <1>7, <3>1 DEF Queued
    <3>3. \A d \in Clients : slot'[d] = "waiting" <=> d = c \/ slot[d] = "waiting"
      BY <1>3, <1>4 DEF SlotsTypeOK
    <3> QED
      BY <1>2, <1>6, <1>7, <2>1, <3>1, <3>2, <3>3
  <2>2. CASE t # s
    <3>1. gates[t] # g
      BY <1>1, <1>5, <2>2 DEF SlotsInv, DistinctGates
    <3>2. queue'[gates[t]] = queue[gates[t]]
      BY <1>3, <1>4, <3>1 DEF SlotsTypeOK
    <3>3. \A d \in Clients : SourceOf[d] = t =>
            (slot'[d] = "waiting" <=> slot[d] = "waiting")
      BY <1>3, <1>4, <2>2 DEF SlotsTypeOK
    <3>4. /\ \A d \in Clients : Queued(t, d) <=> SourceOf[d] = t /\ slot[d] = "waiting"
          /\ \A i, j \in 1..Len(queue[gates[t]]) :
               queue[gates[t]][i] = queue[gates[t]][j] => i = j
      BY <1>6, <2>2 DEF SlotsInv, QueueOfWaiters
    <3>5. gates'[t] = gates[t]
      BY <1>6
    <3>6. \A d \in Clients : Queued(t, d)' <=> Queued(t, d)
      BY <3>2, <3>5 DEF Queued
    <3> QED
      BY <3>2, <3>3, <3>4, <3>6
  <2> QED
    BY <2>1, <2>2
<1>13. CountOfHolders'
  <2>1. \A t \in Sources : Held(t)' = Held(t)
    BY <1>3, <1>4 DEF Held, SlotsTypeOK
  <2>2. inFlight' = inFlight
    BY <1>3, <1>4, <1>5, <1>1 DEF Taken, SlotsTypeOK
  <2>3. inFlight[g] = Capacity
    BY <1>1, <1>2, <1>3, <1>5 DEF Taken
  <2>4. \A h \in Gates : h # g => queue'[h] = queue[h]
    BY <1>3, <1>4 DEF SlotsTypeOK
  <2> QED
    BY <1>4, <1>6, <2>1, <2>2, <2>3, <2>4 DEF SlotsInv, CountOfHolders, SlotsTypeOK
<1> QED
  BY <1>8, <1>9, <1>10, <1>11, <1>12, <1>13 DEF SlotsInv

(* What a waiter, or the holder of a slot, knows of its gate.              *)
LEMMA GateOfBusy ==
  ASSUME SlotsInv, NEW c \in Clients, slot[c] \in {"waiting", "held"}
  PROVE  /\ SourceOf[c] \in Sources
         /\ captured[c] \in Gates /\ captured[c] # NoGate
         /\ gates[SourceOf[c]] = captured[c]
         /\ \A t \in Sources : gates[t] = captured[c] => t = SourceOf[c]
<1>1. captured[c] # NoGate
  BY DEF SlotsInv, Captures
<1> QED
  BY <1>1, SlotsAssumption DEF SlotsInv, OneGatePerSource, SlotsTypeOK

LEMMA TimeOutPreserves ==
  ASSUME SlotsInv, NEW c \in Clients, TimeOut(c)
  PROVE  SlotsInv'
<1> DEFINE s == SourceOf[c]
<1> DEFINE g == captured[c]
<1> DEFINE q == queue[g]
<1>1. /\ slot[c] = "waiting"
      /\ queue' = [queue EXCEPT ![g] = Without(q, c)]
      /\ slot' = [slot EXCEPT ![c] = "skipped"]
      /\ captured' = [captured EXCEPT ![c] = NoGate]
      /\ inFlight' = inFlight
      /\ Forget(s, g)
  BY DEF TimeOut
<1>2. /\ s \in Sources /\ g \in Gates /\ g # NoGate /\ gates[s] = g
      /\ \A t \in Sources : gates[t] = g => t = s
  BY <1>1, GateOfBusy
<1>3. SlotsTypeOK /\ Capacity \in Nat \ {0}
  BY SlotsAssumption DEF SlotsInv
<1>4. /\ q \in Seq(Clients)
      /\ \A d \in Clients : (\E i \in 1..Len(q) : q[i] = d)
                               <=> SourceOf[d] = s /\ slot[d] = "waiting"
      /\ \A i, j \in 1..Len(q) : q[i] = q[j] => i = j
  <2>1. q \in Seq(Clients)
    BY <1>2, <1>3 DEF SlotsTypeOK
  <2>2. /\ \A d \in Clients : Queued(s, d) <=> SourceOf[d] = s /\ slot[d] = "waiting"
        /\ \A i, j \in 1..Len(queue[gates[s]]) :
             queue[gates[s]][i] = queue[gates[s]][j] => i = j
    BY <1>2 DEF SlotsInv, QueueOfWaiters
  <2> QED
    BY <1>2, <2>1, <2>2 DEF Queued
<1>5. \E k \in 1..Len(q) : q[k] = c
  BY <1>1, <1>4
<1>6. /\ Without(q, c) \in Seq(Clients)
      /\ \A i, j \in 1..Len(Without(q, c)) :
           Without(q, c)[i] = Without(q, c)[j] => i = j
      /\ \A d \in Clients : (\E i \in 1..Len(Without(q, c)) : Without(q, c)[i] = d)
                  <=> d # c /\ \E i \in 1..Len(q) : q[i] = d
  <2>1. q \in Seq(Clients) /\ \A i, j \in 1..Len(q) : q[i] = q[j] => i = j
    BY <1>4
  <2> HIDE DEF q
  <2> QED
    BY <1>5, <2>1, QuitterLeaves
<1>7. inFlight[g] = Capacity /\ inFlight[g] # 0
  <2>1. q # <<>>
    BY <1>4, <1>5, EmptySeq
  <2> QED
    BY <1>2, <1>3, <2>1 DEF SlotsInv, CountOfHolders
<1>8. gates' = gates
  BY <1>1, <1>7 DEF Forget
<1>9. queue'[g] = Without(q, c) /\ \A h \in Gates : h # g => queue'[h] = queue[h]
  BY <1>1, <1>2, <1>3 DEF SlotsTypeOK
<1> HIDE DEF q
<1>10. SlotsTypeOK'
  BY <1>1, <1>2, <1>3, <1>6, <1>8 DEF SlotsTypeOK, SlotState
<1>11. Captures'
  BY <1>1, <1>3 DEF SlotsInv, Captures, SlotsTypeOK
<1>12. OneGatePerSource' /\ DistinctGates'
  BY <1>1, <1>3, <1>8 DEF SlotsInv, OneGatePerSource, DistinctGates, SlotsTypeOK
<1>13. QueueOfWaiters'
  <2> SUFFICES ASSUME NEW t \in Sources, gates[t] # NoGate
               PROVE  /\ \A d \in Clients : Queued(t, d)'
                           <=> SourceOf[d] = t /\ slot'[d] = "waiting"
                      /\ \A i, j \in 1..Len(queue'[gates[t]]) :
                           queue'[gates[t]][i] = queue'[gates[t]][j] => i = j
    BY <1>8 DEF QueueOfWaiters
  <2>1. \A d \in Clients : slot'[d] = "waiting" <=> d # c /\ slot[d] = "waiting"
    BY <1>1, <1>3 DEF SlotsTypeOK
  <2>2. CASE t = s
    <3>1. queue'[gates[t]] = Without(q, c) /\ gates'[t] = gates[t]
      BY <1>2, <1>8, <1>9, <2>2
    <3>2. \A d \in Clients : Queued(t, d)' <=> d # c /\ \E i \in 1..Len(q) : q[i] = d
      BY <1>6, <3>1 DEF Queued
    <3>3. \A i, j \in 1..Len(queue'[gates[t]]) :
            queue'[gates[t]][i] = queue'[gates[t]][j] => i = j
      BY <1>6, <3>1
    <3>4. \A d \in Clients : Queued(t, d)' <=> SourceOf[d] = t /\ slot'[d] = "waiting"
      BY <1>4, <2>1, <2>2, <3>2
    <3> QED
      BY <3>3, <3>4
  <2>3. CASE t # s
    <3>1. queue'[gates[t]] = queue[gates[t]]
      BY <1>2, <1>3, <1>9, <2>3 DEF SlotsTypeOK
    <3> QED
      BY <1>8, <2>1, <2>3, <3>1 DEF SlotsInv, QueueOfWaiters, Queued
  <2> QED
    BY <2>2, <2>3
<1>14. CountOfHolders'
  <2>1. \A t \in Sources : Held(t)' = Held(t)
    BY <1>1, <1>3 DEF Held, SlotsTypeOK
  <2> QED
    BY <1>1, <1>3, <1>7, <1>8, <1>9, <2>1 DEF SlotsInv, CountOfHolders, SlotsTypeOK
<1> QED
  BY <1>10, <1>11, <1>12, <1>13, <1>14 DEF SlotsInv

LEMMA ReleasePreserves ==
  ASSUME SlotsInv, NEW c \in Clients, Release(c)
  PROVE  SlotsInv'
<1> DEFINE s == SourceOf[c]
<1> DEFINE g == captured[c]
<1> DEFINE q == queue[g]
<1>1. slot[c] = "held" /\ captured' = [captured EXCEPT ![c] = NoGate]
  BY DEF Release
<1>2. /\ s \in Sources /\ g \in Gates /\ g # NoGate /\ gates[s] = g
      /\ \A t \in Sources : gates[t] = g => t = s
  BY <1>1, GateOfBusy
<1>3. SlotsTypeOK /\ Capacity \in Nat \ {0}
  BY SlotsAssumption DEF SlotsInv
<1>4. q \in Seq(Clients)
  BY <1>2, <1>3 DEF SlotsTypeOK
<1>5. /\ \A d \in Clients : Queued(s, d) <=> SourceOf[d] = s /\ slot[d] = "waiting"
      /\ \A i, j \in 1..Len(q) : q[i] = q[j] => i = j
  BY <1>2 DEF SlotsInv, QueueOfWaiters
<1>6. \A d \in Clients : (\E i \in 1..Len(q) : q[i] = d)
                            <=> SourceOf[d] = s /\ slot[d] = "waiting"
  BY <1>2, <1>5 DEF Queued
<1>7. /\ IsFiniteSet(Held(s)) /\ c \in Held(s)
      /\ inFlight[g] = Cardinality(Held(s)) /\ inFlight[g] \in 1..Capacity
      /\ q # <<>> => inFlight[g] = Capacity
  BY <1>1, <1>2 DEF SlotsInv, CountOfHolders, Held
<1>8. IsFiniteSet(Held(s) \ {c}) /\ Cardinality(Held(s) \ {c}) = Cardinality(Held(s)) - 1
  BY <1>7, FS_RemoveElement
<1>9. CASE q # <<>>
  <2> DEFINE w == Head(q)
  <2>1. /\ queue' = [queue EXCEPT ![g] = Tail(q)]
        /\ slot' = [slot EXCEPT ![c] = "none", ![w] = "held"]
        /\ gates' = gates /\ inFlight' = inFlight
    BY <1>9 DEF Release
  <2>2. /\ w \in Clients /\ w = q[1] /\ 1 \in 1..Len(q)
        /\ Tail(q) \in Seq(Clients)
        /\ \A i, j \in 1..Len(Tail(q)) : Tail(q)[i] = Tail(q)[j] => i = j
        /\ \A d : (\E i \in 1..Len(Tail(q)) : Tail(q)[i] = d)
                    <=> d # w /\ \E i \in 1..Len(q) : q[i] = d
    <3> HIDE DEF q
    <3> QED
      BY <1>4, <1>5, <1>9, ServedLeaves
  <2>3. slot[w] = "waiting" /\ SourceOf[w] = s /\ w # c
    BY <1>1, <1>6, <2>2
  <2>4. queue'[g] = Tail(q) /\ \A h \in Gates : h # g => queue'[h] = queue[h]
    BY <1>2, <1>3, <2>1 DEF SlotsTypeOK
  <2> HIDE DEF w, q
  <2>5. /\ slot'[c] = "none" /\ slot'[w] = "held"
        /\ \A d \in Clients : d # c /\ d # w => slot'[d] = slot[d]
    BY <1>3, <2>1, <2>2, <2>3 DEF SlotsTypeOK
  <2>6. SlotsTypeOK'
    BY <1>1, <1>2, <1>3, <2>1, <2>2 DEF SlotsTypeOK, SlotState
  <2>7. captured[w] # NoGate
    BY <2>2, <2>3 DEF SlotsInv, Captures
  <2>8. Captures'
    BY <1>1, <1>3, <2>2, <2>3, <2>5, <2>7 DEF SlotsInv, Captures, SlotsTypeOK
  <2>9. OneGatePerSource' /\ DistinctGates'
    BY <1>1, <1>3, <2>1 DEF SlotsInv, OneGatePerSource, DistinctGates, SlotsTypeOK
  <2>10. QueueOfWaiters'
    <3> SUFFICES ASSUME NEW t \in Sources, gates[t] # NoGate
                 PROVE  /\ \A d \in Clients : Queued(t, d)'
                             <=> SourceOf[d] = t /\ slot'[d] = "waiting"
                        /\ \A i, j \in 1..Len(queue'[gates[t]]) :
                             queue'[gates[t]][i] = queue'[gates[t]][j] => i = j
      <4>1. gates' = gates
        BY <2>1
      <4> QED
        BY <4>1 DEF QueueOfWaiters
    <3>1. \A d \in Clients : slot'[d] = "waiting" <=> d # w /\ slot[d] = "waiting"
      BY <1>1, <2>3, <2>5
    <3>2. CASE t = s
      <4>1. queue'[gates[t]] = Tail(q) /\ gates'[t] = gates[t]
        BY <1>2, <2>1, <2>4, <3>2
      <4>2. \A d \in Clients : Queued(t, d)' <=> d # w /\ \E i \in 1..Len(q) : q[i] = d
        BY <2>2, <4>1 DEF Queued
      <4>3. \A i, j \in 1..Len(queue'[gates[t]]) :
              queue'[gates[t]][i] = queue'[gates[t]][j] => i = j
        BY <2>2, <4>1
      <4>4. \A d \in Clients : Queued(t, d)' <=> SourceOf[d] = t /\ slot'[d] = "waiting"
        BY <1>6, <3>1, <3>2, <4>2
      <4> QED
        BY <4>3, <4>4
    <3>3. CASE t # s
      <4>1. queue'[gates[t]] = queue[gates[t]]
        BY <1>2, <1>3, <2>4, <3>3 DEF SlotsTypeOK
      <4>2. gates'[t] = gates[t]
        BY <2>1
      <4>3. \A d \in Clients : Queued(t, d)' <=> Queued(t, d)
        BY <4>1, <4>2 DEF Queued
      <4>4. \A d \in Clients : SourceOf[d] = t =>
              (slot'[d] = "waiting" <=> slot[d] = "waiting")
        BY <2>3, <3>1, <3>3
      <4> QED
        BY <4>1, <4>3, <4>4 DEF SlotsInv, QueueOfWaiters
    <3> QED
      BY <3>2, <3>3
  <2>11. CountOfHolders'
    <3>1. Held(s)' = (Held(s) \ {c}) \cup {w} /\ w \notin Held(s) \ {c}
      BY <1>1, <2>2, <2>3, <2>5 DEF Held
    <3>2. IsFiniteSet(Held(s)') /\ Cardinality(Held(s)') = Cardinality(Held(s))
      <4>1. /\ IsFiniteSet((Held(s) \ {c}) \cup {w})
            /\ Cardinality((Held(s) \ {c}) \cup {w}) = Cardinality(Held(s) \ {c}) + 1
        BY <1>8, <3>1, FS_AddElement
      <4>2. Cardinality(Held(s)) \in Int
        BY <1>3, <1>7
      <4> QED
        BY <1>8, <3>1, <4>1, <4>2
    <3>3. \A t \in Sources : t # s => Held(t)' = Held(t)
      BY <2>2, <2>3, <2>5 DEF Held
    <3>4. inFlight[g] = Capacity
      BY <1>7, <1>9 DEF q
    <3>5. ASSUME NEW t \in Sources, gates[t] # NoGate
          PROVE  /\ IsFiniteSet(Held(t)')
                 /\ inFlight[gates[t]] = Cardinality(Held(t)')
                 /\ inFlight[gates[t]] \in 1..Capacity
                 /\ queue'[gates[t]] # <<>> => inFlight[gates[t]] = Capacity
      <4>1. CASE t = s
        BY <1>2, <1>7, <3>2, <3>4, <4>1
      <4>2. CASE t # s
        <5>1. queue'[gates[t]] = queue[gates[t]]
          BY <1>2, <1>3, <2>4, <3>5, <4>2 DEF SlotsTypeOK
        <5> QED
          BY <3>3, <3>5, <4>2, <5>1 DEF SlotsInv, CountOfHolders
      <4> QED
        BY <4>1, <4>2
    <3> QED
      BY <2>1, <3>5 DEF CountOfHolders
  <2> QED
    BY <2>6, <2>8, <2>9, <2>10, <2>11 DEF SlotsInv
<1>10. CASE q = <<>>
  <2>1. /\ inFlight' = [inFlight EXCEPT ![g] = inFlight[g] - 1]
        /\ slot' = [slot EXCEPT ![c] = "none"]
        /\ queue' = queue
        /\ Forget(s, g)
    BY <1>10 DEF Release
  <2>2. inFlight'[g] = inFlight[g] - 1 /\ \A h \in Gates : h # g => inFlight'[h] = inFlight[h]
    BY <1>2, <1>3, <2>1 DEF SlotsTypeOK
  <2>3. \A t \in Sources : gates'[t] = IF t = s /\ inFlight[g] = 1 THEN NoGate ELSE gates[t]
    BY <1>2, <1>3, <1>7, <1>10, <2>1, <2>2 DEF Forget, SlotsTypeOK
  <2>4. \A d \in Clients : SourceOf[d] = s => slot[d] # "waiting"
    <3>1. Len(q) = 0
      BY <1>10, EmptySeq
    <3> QED
      BY <1>6, <3>1
  <2> HIDE DEF q
  <2>5. \A d \in Clients : slot'[d] = IF d = c THEN "none" ELSE slot[d]
    BY <1>3, <2>1 DEF SlotsTypeOK
  <2>6. Held(s)' = Held(s) \ {c} /\ \A t \in Sources : t # s => Held(t)' = Held(t)
    BY <1>1, <2>5 DEF Held
  <2>7. inFlight[g] = 1 => \A d \in Clients : SourceOf[d] = s /\ slot[d] = "held" => d = c
    <3>1. inFlight[g] = 1 => Held(s) \ {c} = {}
      BY <1>7, <1>8, FS_EmptySet
    <3> QED
      BY <3>1 DEF Held
  <2>8. SlotsTypeOK'
    <3>1. gates' \in [Sources -> Gates \cup {NoGate}]
      BY <1>2, <1>3, <2>1 DEF Forget, SlotsTypeOK
    <3>2. inFlight[g] - 1 \in Nat
      BY <1>3, <1>7
    <3> QED
      BY <1>1, <1>2, <1>3, <2>1, <3>1, <3>2 DEF SlotsTypeOK, SlotState
  <2>9. Captures'
    BY <1>1, <1>3, <2>5 DEF SlotsInv, Captures, SlotsTypeOK
  <2>10. DistinctGates'
    BY <2>3 DEF SlotsInv, DistinctGates
  <2>11. OneGatePerSource'
    <3> SUFFICES ASSUME NEW d \in Clients, captured'[d] # NoGate, NEW t \in Sources
                 PROVE  gates'[t] = captured'[d] <=> t = SourceOf[d]
      BY DEF OneGatePerSource
    <3>1. d # c /\ captured'[d] = captured[d] /\ captured[d] # NoGate
      BY <1>1, <1>3 DEF SlotsTypeOK
    <3>2. \A u \in Sources : gates[u] = captured[d] <=> u = SourceOf[d]
      BY <3>1 DEF SlotsInv, OneGatePerSource
    <3>3. slot[d] \in {"waiting", "held"}
      BY <1>3, <3>1 DEF SlotsInv, Captures, SlotsTypeOK, SlotState
    <3>4. SourceOf[d] = s => inFlight[g] # 1
      BY <2>4, <2>7, <3>1, <3>3
    <3> QED
      BY <1>2, <2>3, <3>1, <3>2, <3>4
  <2>12. QueueOfWaiters'
    <3>1. \A d \in Clients : slot'[d] = "waiting" <=> slot[d] = "waiting"
      BY <1>1, <2>5
    <3>2. ASSUME NEW t \in Sources, gates'[t] # NoGate
          PROVE  gates'[t] = gates[t] /\ gates[t] # NoGate
      BY <2>3, <3>2
    <3> QED
      BY <2>1, <3>1, <3>2 DEF SlotsInv, QueueOfWaiters, Queued
  <2>13. CountOfHolders'
    <3> SUFFICES ASSUME NEW t \in Sources, gates'[t] # NoGate
                 PROVE  /\ IsFiniteSet(Held(t)')
                        /\ inFlight'[gates'[t]] = Cardinality(Held(t)')
                        /\ inFlight'[gates'[t]] \in 1..Capacity
                        /\ queue'[gates'[t]] # <<>> => inFlight'[gates'[t]] = Capacity
      BY DEF CountOfHolders
    <3>1. gates'[t] = gates[t] /\ gates[t] # NoGate
      BY <2>3
    <3>2. CASE t = s
      <4>1. inFlight[g] # 1 /\ inFlight'[gates'[t]] = inFlight[g] - 1
        BY <1>2, <2>2, <2>3, <3>1, <3>2
      <4>2. inFlight[g] - 1 \in 1..Capacity
        BY <1>3, <1>7, <4>1
      <4>3. queue'[gates'[t]] = <<>>
        BY <1>2, <1>10, <2>1, <3>1, <3>2 DEF q
      <4> QED
        BY <1>7, <1>8, <2>6, <3>2, <4>1, <4>2, <4>3
    <3>3. CASE t # s
      <4>1. gates[t] \in Gates /\ gates[t] # g
        BY <1>2, <1>3, <3>1, <3>3 DEF SlotsTypeOK
      <4> QED
        BY <2>1, <2>2, <2>6, <3>1, <3>3, <4>1 DEF SlotsInv, CountOfHolders
    <3> QED
      BY <3>2, <3>3
  <2> QED
    BY <2>8, <2>9, <2>10, <2>11, <2>12, <2>13 DEF SlotsInv
<1> QED
  BY <1>9, <1>10

LEMMA SkipPreserves ==
  ASSUME SlotsInv, NEW c \in Clients, Skip(c)
  PROVE  SlotsInv'
<1>1. /\ slot[c] = "skipped" /\ slot' = [slot EXCEPT ![c] = "none"]
      /\ gates' = gates /\ inFlight' = inFlight /\ queue' = queue /\ captured' = captured
  BY DEF Skip
<1>2. SlotsTypeOK
  BY DEF SlotsInv
<1>3. \A d \in Clients : slot'[d] = IF d = c THEN "none" ELSE slot[d]
  BY <1>1, <1>2 DEF SlotsTypeOK
<1>4. SlotsTypeOK'
  BY <1>1, <1>2 DEF SlotsTypeOK, SlotState
<1>5. Captures'
  BY <1>1, <1>3 DEF SlotsInv, Captures
<1>6. OneGatePerSource' /\ DistinctGates'
  BY <1>1 DEF SlotsInv, OneGatePerSource, DistinctGates
<1>7. \A d \in Clients : /\ slot'[d] = "waiting" <=> slot[d] = "waiting"
                         /\ slot'[d] = "held" <=> slot[d] = "held"
  BY <1>1, <1>3
<1>8. QueueOfWaiters'
  BY <1>1, <1>7 DEF SlotsInv, QueueOfWaiters, Queued
<1>9. CountOfHolders'
  <2>1. \A t \in Sources : Held(t)' = Held(t)
    BY <1>7 DEF Held
  <2> QED
    BY <1>1, <2>1 DEF SlotsInv, CountOfHolders
<1> QED
  BY <1>4, <1>5, <1>6, <1>8, <1>9 DEF SlotsInv

LEMMA NextPreserves == SlotsInv /\ [SlotsNext]_slotVars => SlotsInv'
<1> SUFFICES ASSUME SlotsInv, [SlotsNext]_slotVars
             PROVE  SlotsInv'
  OBVIOUS
<1>1. ASSUME NEW c \in Clients, Acquire(c)
      PROVE  SlotsInv'
  <2>1. PICK g \in Gates :
          /\ GateFor(SourceOf[c], g)
          /\ Grant(c, SourceOf[c], g) \/ Enqueue(c, SourceOf[c], g)
          /\ gates' = [gates EXCEPT ![SourceOf[c]] = g]
          /\ captured' = [captured EXCEPT ![c] = g]
    BY <1>1 DEF Acquire
  <2>2. slot[c] = "none"
    BY <1>1 DEF Acquire
  <2>3. CASE Grant(c, SourceOf[c], g)
    BY <2>1, <2>2, <2>3, GrantPreserves
  <2>4. CASE Enqueue(c, SourceOf[c], g)
    BY <2>1, <2>2, <2>4, EnqueuePreserves
  <2> QED
    BY <2>1, <2>3, <2>4
<1>2. ASSUME NEW c \in Clients, TimeOut(c)
      PROVE  SlotsInv'
  BY <1>2, TimeOutPreserves
<1>3. ASSUME NEW c \in Clients, Release(c)
      PROVE  SlotsInv'
  BY <1>3, ReleasePreserves
<1>4. ASSUME NEW c \in Clients, Skip(c)
      PROVE  SlotsInv'
  BY <1>4, SkipPreserves
<1>5. CASE UNCHANGED slotVars
  <2>1. /\ gates' = gates /\ inFlight' = inFlight /\ queue' = queue
        /\ slot' = slot /\ captured' = captured
    BY <1>5 DEF slotVars
  <2>2. \A s \in Sources : Held(s)' = Held(s)
    BY <2>1 DEF Held
  <2>3. CountOfHolders'
    BY <2>1, <2>2 DEF SlotsInv, CountOfHolders
  <2> QED
    BY <2>1, <2>3 DEF SlotsInv, SlotsTypeOK, Captures, OneGatePerSource,
                      DistinctGates, QueueOfWaiters, Queued
<1> QED
  BY <1>1, <1>2, <1>3, <1>4, <1>5 DEF SlotsNext

(* The inductive invariant holds throughout.                               *)
THEOREM SlotsInvariant == SlotsSpec => []SlotsInv
<1> QED
  BY InitEstablishes, NextPreserves, PTL DEF SlotsSpec

(* The variables of the semaphore keep their types: in particular a gate's *)
(* counter never goes below zero (source-slots.ts:75).                     *)
THEOREM SlotsTypeCorrect == SlotsSpec => []SlotsTypeOK
<1>1. SlotsInv => SlotsTypeOK
  BY DEF SlotsInv
<1> QED
  BY <1>1, SlotsInvariant, PTL

(* However executions interleave, at most Capacity of them hold a slot of  *)
(* one source, so with a pool one larger a connection is left for an       *)
(* interactive query (source-slots.ts:3-12, 41).                           *)
THEOREM CapIsKept == SlotsSpec => []CapPerSource
<1>1. SlotsInv => CapPerSource
  <2> SUFFICES ASSUME SlotsInv, NEW s \in Sources
               PROVE  Cardinality(Held(s)) <= Capacity
    BY DEF CapPerSource
  <2>1. CASE gates[s] = NoGate
    <3>1. Held(s) = {}
      BY <2>1, NoEntryNobody DEF Held
    <3> QED
      BY <3>1, FS_EmptySet, SlotsAssumption
  <2>2. CASE gates[s] # NoGate
    BY <2>2, SlotsAssumption DEF SlotsInv, CountOfHolders
  <2> QED
    BY <2>1, <2>2
<1> QED
  BY <1>1, SlotsInvariant, PTL

(* An execution is never left waiting beside a free slot: no release and   *)
(* no timeout loses a wakeup (source-slots.ts:48-50, 68-76).               *)
THEOREM NoWakeupIsLost == SlotsSpec => []NoLostWakeup
<1>1. SlotsInv => NoLostWakeup
  <2> SUFFICES ASSUME SlotsInv, NEW c \in Clients, slot[c] = "waiting"
               PROVE  Cardinality(Held(SourceOf[c])) = Capacity
    BY DEF NoLostWakeup
  <2> DEFINE s == SourceOf[c]
  <2>1. s \in Sources /\ gates[s] # NoGate /\ gates[s] \in Gates
    BY GateOfBusy
  <2>2. \E i \in 1..Len(queue[gates[s]]) : queue[gates[s]][i] = c
    BY <2>1 DEF SlotsInv, QueueOfWaiters, Queued
  <2>3. queue[gates[s]] # <<>>
    BY <2>2, EmptySeq
  <2> QED
    BY <2>1, <2>3 DEF SlotsInv, CountOfHolders
<1> QED
  BY <1>1, SlotsInvariant, PTL

(* Every waiter and release function in use refers to the gate registered  *)
(* for its source, and to no other source's (source-slots.ts:39-40, 81-83).*)
THEOREM OneGateAlways == SlotsSpec => []OneGatePerSource
<1>1. SlotsInv => OneGatePerSource
  BY DEF SlotsInv
<1> QED
  BY <1>1, SlotsInvariant, PTL

(* A source nobody polls has no entry (source-slots.ts:80-83).             *)
THEOREM NoIdleGateEver == SlotsSpec => []NoIdleGate
<1>1. SlotsInv => NoIdleGate
  <2> SUFFICES ASSUME SlotsInv, NEW s \in Sources, gates[s] # NoGate
               PROVE  \E c \in Clients : SourceOf[c] = s /\ captured[c] = gates[s]
    BY DEF NoIdleGate
  <2>1. IsFiniteSet(Held(s)) /\ Cardinality(Held(s)) # 0
    BY SlotsAssumption DEF SlotsInv, CountOfHolders
  <2>2. PICK c \in Clients : SourceOf[c] = s /\ slot[c] = "held"
    BY <2>1, FS_EmptySet DEF Held
  <2> QED
    BY <2>2, GateOfBusy
<1> QED
  BY <1>1, SlotsInvariant, PTL

-----------------------------------------------------------------------------
(* Every step of the gates is a step the promise allows.                   *)
LEMMA StepKeepsPromise ==
  SlotsInv /\ [SlotsNext]_slotVars => [Promise!PromiseNext]_slot
<1> SUFFICES ASSUME SlotsInv, [SlotsNext]_slotVars
             PROVE  Promise!PromiseNext \/ slot' = slot
  OBVIOUS
<1>1. SlotsTypeOK
  BY DEF SlotsInv
<1>2. ASSUME NEW c \in Clients, Acquire(c)
      PROVE  Promise!Take(c) \/ Promise!Wait(c)
  <2>1. PICK g \in Gates :
          /\ GateFor(SourceOf[c], g)
          /\ Grant(c, SourceOf[c], g) \/ Enqueue(c, SourceOf[c], g)
    BY <1>2 DEF Acquire
  <2>2. slot[c] = "none"
    BY <1>2 DEF Acquire
  <2>3. /\ Taken(SourceOf[c], g) = Cardinality(Held(SourceOf[c]))
        /\ Taken(SourceOf[c], g) \in 0..Capacity
    BY <2>1, <2>2, AcquireFacts
  <2>4. /\ Promise!Full(SourceOf[c]) <=> Taken(SourceOf[c], g) >= Capacity
        /\ Capacity \in Nat
    <3>1. Promise!Of(SourceOf[c], "held") = Held(SourceOf[c])
      BY DEF Promise!Of, Held
    <3>2. Promise!Full(SourceOf[c]) <=> Cardinality(Held(SourceOf[c])) >= Capacity
      BY <3>1 DEF Promise!Full, Promise!Cardinality, Cardinality
    <3> QED
      BY <2>3, <3>2, SlotsAssumption
  <2>5. CASE Grant(c, SourceOf[c], g)
    <3>1. ~Promise!Full(SourceOf[c])
      BY <2>3, <2>5, <2>4 DEF Grant
    <3> QED
      BY <2>2, <2>5, <3>1 DEF Promise!Take, Grant
  <2>6. CASE Enqueue(c, SourceOf[c], g)
    <3>1. Promise!Full(SourceOf[c])
      BY <2>6, <2>4 DEF Enqueue
    <3> QED
      BY <2>2, <2>6, <3>1 DEF Promise!Wait, Enqueue
  <2> QED
    BY <2>1, <2>5, <2>6
<1>3. ASSUME NEW c \in Clients, TimeOut(c)
      PROVE  Promise!GiveUp(c)
  BY <1>3 DEF TimeOut, Promise!GiveUp
<1>4. ASSUME NEW c \in Clients, Skip(c)
      PROVE  Promise!GoOn(c)
  BY <1>4 DEF Skip, Promise!GoOn
<1>5. ASSUME NEW c \in Clients, Release(c)
      PROVE  Promise!GiveBack(c)
  <2> DEFINE s == SourceOf[c]
  <2> DEFINE q == queue[captured[c]]
  <2>1. slot[c] = "held"
    BY <1>5 DEF Release
  <2>2. s \in Sources /\ gates[s] = captured[c] /\ captured[c] \in Gates /\ gates[s] # NoGate
    BY <2>1, GateOfBusy
  <2>3. q \in Seq(Clients)
    BY <1>1, <2>2 DEF SlotsTypeOK
  <2>4. \A d \in Clients : (\E i \in 1..Len(q) : q[i] = d)
                              <=> SourceOf[d] = s /\ slot[d] = "waiting"
    <3>1. \A d \in Clients : Queued(s, d) <=> SourceOf[d] = s /\ slot[d] = "waiting"
      BY <2>2 DEF SlotsInv, QueueOfWaiters
    <3> QED
      BY <2>2, <3>1 DEF Queued
  <2>5. CASE q # <<>>
    <3>1. slot' = [slot EXCEPT ![c] = "none", ![Head(q)] = "held"]
      BY <1>5, <2>5 DEF Release
    <3> HIDE DEF q
    <3>2. Head(q) = q[1] /\ Head(q) \in Clients /\ 1 \in 1..Len(q)
      <4>1. Head(q) \in Clients /\ Len(q) \in Nat \ {0}
        BY <2>3, <2>5, HeadTailProperties, EmptySeq
      <4> QED
        BY <2>3, <4>1
    <3>3. Head(q) \in Promise!Of(s, "waiting")
      BY <2>4, <3>2 DEF Promise!Of
    <3> QED
      BY <2>1, <3>1, <3>3 DEF Promise!GiveBack
  <2>6. CASE q = <<>>
    <3>1. slot' = [slot EXCEPT ![c] = "none"]
      BY <1>5, <2>6 DEF Release
    <3>2. Len(q) = 0
      BY <2>6, EmptySeq
    <3>3. Promise!Of(s, "waiting") = {}
      BY <2>4, <3>2 DEF Promise!Of
    <3> QED
      BY <2>1, <3>1, <3>3 DEF Promise!GiveBack
  <2> QED
    BY <2>5, <2>6
<1>6. CASE UNCHANGED slotVars
  BY <1>6 DEF slotVars
<1> QED
  BY <1>2, <1>3, <1>4, <1>5, <1>6 DEF SlotsNext, Promise!PromiseNext

(* The Map of gates, their counters, queues and timers together implement  *)
(* the bounded set of slots their callers are promised.                    *)
THEOREM GatesKeepPromise == SlotsSpec => KeepsPromise
<1>1. SlotsInit => Promise!PromiseInit
  BY DEF SlotsInit, Promise!PromiseInit
<1> QED
  BY <1>1, StepKeepsPromise, SlotsInvariant, PTL
  DEF SlotsSpec, KeepsPromise, Promise!PromiseSpec

-----------------------------------------------------------------------------
(* An object that is in nobody's Map has nobody in its queue.              *)
ForgottenIsEmpty ==
  \A g \in Gates : queue[g] # <<>> => \E s \in Sources : gates[s] = g

LEMMA ForgottenStaysEmpty ==
  SlotsInv /\ ForgottenIsEmpty /\ [SlotsNext]_slotVars => ForgottenIsEmpty'
<1> SUFFICES ASSUME SlotsInv, ForgottenIsEmpty, [SlotsNext]_slotVars,
                    NEW g \in Gates, queue'[g] # <<>>
             PROVE  \E s \in Sources : gates'[s] = g
  BY DEF ForgottenIsEmpty
<1>1. SlotsTypeOK /\ \A c \in Clients : SourceOf[c] \in Sources
  BY SlotsAssumption DEF SlotsInv
<1>2. ASSUME NEW c \in Clients, Acquire(c)
      PROVE  \E s \in Sources : gates'[s] = g
  <2>1. PICK h \in Gates :
          /\ GateFor(SourceOf[c], h)
          /\ Grant(c, SourceOf[c], h) \/ Enqueue(c, SourceOf[c], h)
          /\ gates' = [gates EXCEPT ![SourceOf[c]] = h]
    BY <1>2 DEF Acquire
  <2>2. CASE h = g
    BY <1>1, <2>1, <2>2 DEF SlotsTypeOK
  <2>3. CASE h # g
    <3>1. queue[g] # <<>>
      BY <1>1, <2>1, <2>3 DEF Grant, Enqueue, SlotsTypeOK
    <3>2. PICK s \in Sources : gates[s] = g
      BY <3>1 DEF ForgottenIsEmpty
    <3>3. s # SourceOf[c]
      BY <2>1, <2>3, <3>2, SlotsAssumption DEF GateFor
    <3> QED
      BY <1>1, <2>1, <3>2, <3>3 DEF SlotsTypeOK
  <2> QED
    BY <2>2, <2>3
<1>3. ASSUME NEW c \in Clients, TimeOut(c) \/ Release(c)
      PROVE  \E s \in Sources : gates'[s] = g
  <2> DEFINE h == captured[c]
  <2>1. slot[c] \in {"waiting", "held"}
    BY <1>3 DEF TimeOut, Release
  <2>2. h \in Gates /\ gates[SourceOf[c]] = h
    BY <2>1, GateOfBusy
  <2>3. gates' = gates \/ (queue'[h] = <<>> /\ gates' = [gates EXCEPT ![SourceOf[c]] = NoGate])
    BY <1>3 DEF TimeOut, Release, Forget
  <2>4. CASE h = g
    <3>1. gates' = gates
      BY <2>3, <2>4
    <3> QED
      BY <1>1, <2>2, <2>4, <3>1
  <2>5. CASE h # g
    <3>1. queue[g] # <<>>
      BY <1>1, <1>3, <2>2, <2>5 DEF TimeOut, Release, SlotsTypeOK
    <3>2. PICK s \in Sources : gates[s] = g
      BY <3>1 DEF ForgottenIsEmpty
    <3>3. s # SourceOf[c]
      BY <2>2, <2>5, <3>2
    <3> QED
      BY <1>1, <2>3, <3>2, <3>3 DEF SlotsTypeOK
  <2> QED
    BY <2>4, <2>5
<1>4. ASSUME UNCHANGED <<gates, queue>>
      PROVE  \E s \in Sources : gates'[s] = g
    BY <1>4 DEF ForgottenIsEmpty
<1> QED
  BY <1>2, <1>3, <1>4 DEF SlotsNext, slotVars, Skip

(* Slots of one source are granted in the order they were asked for: who   *)
(* waits is passed over by nobody who queued behind it, whatever times out *)
(* in between (queue.shift(), source-slots.ts:68-71).                      *)
THEOREM GrantsAreFifo == SlotsSpec => FifoGrants
<1> DEFINE Fair == \A c, d \in Clients :
                     Before(c, d) /\ slot[d] = "waiting" /\ slot'[d] = "held"
                       => slot'[c] # "waiting"
<1>1. SlotsInit => ForgottenIsEmpty
  BY DEF SlotsInit, ForgottenIsEmpty
<1>2. SlotsInv /\ ForgottenIsEmpty /\ [SlotsNext]_slotVars => [Fair]_slotVars
  <2> SUFFICES ASSUME SlotsInv, ForgottenIsEmpty, SlotsNext,
                      NEW c \in Clients, NEW d \in Clients, Before(c, d),
                      slot[d] = "waiting", slot'[d] = "held"
               PROVE  FALSE
    OBVIOUS
  <2>1. SlotsTypeOK
    BY DEF SlotsInv
  <2>2. PICK g \in Gates : \E i, j \in 1..Len(queue[g]) :
               i < j /\ queue[g][i] = c /\ queue[g][j] = d
    BY DEF Before
  <2>3. PICK i \in 1..Len(queue[g]), j \in 1..Len(queue[g]) :
               i < j /\ queue[g][i] = c /\ queue[g][j] = d
    BY <2>2
  <2>4. PICK s \in Sources : gates[s] = g
    <3>1. queue[g] # <<>>
      BY <2>3, EmptySeq
    <3> QED
      BY <3>1 DEF ForgottenIsEmpty
  <2>5. g # NoGate /\ Queued(s, d)
    BY <2>3, <2>4, SlotsAssumption DEF Queued
  <2>6. SourceOf[d] = s
    BY <2>4, <2>5 DEF SlotsInv, QueueOfWaiters
  <2>7. PICK x \in Clients : Release(x)
    <3>1. ASSUME NEW x \in Clients, Acquire(x)
          PROVE  FALSE
      <4>1. slot'[d] = slot[d]
        BY <2>1, <3>1 DEF Acquire, Grant, Enqueue, SlotsTypeOK
      <4> QED
        BY <4>1
    <3>2. ASSUME NEW x \in Clients, TimeOut(x) \/ Skip(x)
          PROVE  FALSE
      BY <2>1, <3>2 DEF TimeOut, Skip, SlotsTypeOK
    <3> QED
      BY <3>1, <3>2 DEF SlotsNext
  <2> DEFINE h == captured[x]
             q == queue[h]
  <2>8. slot[x] = "held" /\ h \in Gates /\ gates[SourceOf[x]] = h /\ SourceOf[x] \in Sources
        /\ h # NoGate
    BY <2>7, GateOfBusy DEF Release
  <2>9. q # <<>> /\ d = Head(q)
    BY <2>1, <2>7 DEF Release, SlotsTypeOK
  <2>10. q \in Seq(Clients) /\ Len(q) \in Nat
    BY <2>1, <2>8 DEF SlotsTypeOK
  <2>11. d = q[1] /\ 1 \in 1..Len(q)
    <3> HIDE DEF q
    <3>1. Len(q) \in Nat \ {0}
      BY <2>9, <2>10, EmptySeq
    <3> QED
      BY <2>9, <2>10, <3>1
  <2>12. Queued(SourceOf[x], d)
    BY <2>8, <2>11 DEF Queued
  <2>13. h = g
    BY <2>4, <2>6, <2>8, <2>12 DEF SlotsInv, QueueOfWaiters
  <2>14. j = 1
    BY <2>3, <2>4, <2>5, <2>11, <2>13 DEF SlotsInv, QueueOfWaiters
  <2> QED
    BY <2>3, <2>10, <2>13, <2>14
<1> QED
  BY <1>1, <1>2, ForgottenStaysEmpty, SlotsInvariant, PTL DEF SlotsSpec, FifoGrants
=============================================================================
