-------------------------- MODULE LiveStreamsProofs --------------------------
(* The streams' safety properties for any viewers, keys, saves and caps.   *)
(* A stream that its own catch-up drops is the one exception (NothingLeft  *)
(* fails for SlowTicks = 1), so SlowTicks > 1 is assumed.                  *)
EXTENDS LiveStreams, FiniteSetTheorems, TLAPS

\* Saves come before their invalidations: this bounds unsettled.
Settling == version # Deleted => unsettled < version

\* A poller is registered under its own key only.
Keyed == \A k \in Keys : registry[k] # None => key[registry[k]] = k

\* A poller that anyone is attached to was created by a stream that opened,
\* whose key and version no longer change.
Opened == \A s \in Open : phase[sub[s]] \in {"open", "closed"}

Counted == running = Registered /\ \A p \in running : Subscribers(p) # {}
Capped == IsFiniteSet(running) /\ Cardinality(running) <= MaxPollers

\* The inductive invariant.
StreamsInv ==
  /\ StreamsTypeOK /\ Settling
  /\ NothingLeft /\ Counted /\ Capped
  /\ Keyed /\ Opened /\ SharesItsPoller

LEMMA Initially == Init => StreamsInv
<1> SUFFICES ASSUME Init PROVE StreamsInv
  OBVIOUS
<1>1. StreamsTypeOK /\ Settling /\ Keyed
  BY StreamsAssumption DEF Init, StreamsTypeOK, Settling, Keyed, Deleted
<1>2. NothingLeft /\ Opened /\ SharesItsPoller
  BY DEF Init, NothingLeft, Opened, SharesItsPoller, Open
<1>3. Registered = {}
  <2> SUFFICES ASSUME NEW p \in Streams, registry[key[p]] = p PROVE FALSE
    BY DEF Registered
  <2> QED  BY StreamsAssumption DEF Init
<1>4. Counted
  BY <1>3 DEF Init, Counted
<1>5. Capped
  BY FS_EmptySet, StreamsAssumption DEF Init, Capped
<1> QED  BY <1>1, <1>2, <1>4, <1>5 DEF StreamsInv

\* The set of streams that end keeps the accounts: a poller stops with its last
\* subscriber, and a poller that is registered is not removed by another.
LEMMA EndKeeps ==
  ASSUME StreamsInv, NEW S \in SUBSET Open, End(S), UNCHANGED <<key, seen>>
  PROVE  /\ Open' = Open \ S
         /\ {s \in Streams : sub'[s] # None} = Open \ S
         /\ Counted' /\ Capped' /\ Keyed' /\ Opened' /\ SharesItsPoller'
         /\ phase' \in [Streams -> {"new", "lookup", "opening", "open", "closed", "refused"}]
         /\ sub' \in [Streams -> Streams \cup {None}]
         /\ registry' \in [Keys -> Streams \cup {None}]
         /\ running' \subseteq Streams
<1> USE StreamsAssumption
<1>1. /\ StreamsTypeOK /\ NothingLeft /\ Counted /\ Capped
      /\ Keyed /\ Opened /\ SharesItsPoller
  BY DEF StreamsInv
<1>2. /\ phase' = [s \in Streams |-> IF s \in S THEN "closed" ELSE phase[s]]
      /\ sub' = [s \in Streams |-> IF s \in S THEN None ELSE sub[s]]
      /\ running' = running \ AbandonedBy(S)
      /\ registry' = [k \in Keys |-> IF registry[k] \in AbandonedBy(S) THEN None ELSE registry[k]]
  BY DEF End, StopPollers, Unregister
<1>3. AbandonedBy(S) \subseteq Streams
  BY DEF AbandonedBy
<1>4. /\ phase' \in [Streams -> {"new", "lookup", "opening", "open", "closed", "refused"}]
      /\ sub' \in [Streams -> Streams \cup {None}]
      /\ registry' \in [Keys -> Streams \cup {None}]
      /\ running' \subseteq Streams
  BY <1>1, <1>2 DEF StreamsTypeOK
<1>5. Open' = Open \ S
  BY <1>1, <1>2 DEF Open, StreamsTypeOK
<1>6. {s \in Streams : sub'[s] # None} = Open \ S
  BY <1>1, <1>2 DEF NothingLeft, StreamsTypeOK
<1>7. Registered' = Registered \ AbandonedBy(S)
  BY <1>1, <1>2, <1>3 DEF Registered, StreamsTypeOK
<1>8. ASSUME NEW p \in running' PROVE Subscribers(p)' # {}
  <2>1. p \in Streams /\ p \in running /\ p \notin AbandonedBy(S)
    BY <1>1, <1>2 DEF StreamsTypeOK
  <2>2. PICK s \in Subscribers(p) : s \notin S
    BY <1>1, <2>1 DEF Counted, AbandonedBy
  <2>3. s \in Streams /\ sub'[s] = p
    BY <1>2, <2>2 DEF Subscribers
  <2> QED  BY <2>3 DEF Subscribers
<1>9. Counted'
  BY <1>1, <1>2, <1>7, <1>8 DEF Counted
<1>10. Capped'
  <2>1. running' \subseteq running
    BY <1>2
  <2>2. IsFiniteSet(running') /\ Cardinality(running') <= Cardinality(running)
    BY <1>1, <2>1, FS_Subset DEF Capped
  <2>3. Cardinality(running) \in Nat /\ Cardinality(running') \in Nat
    BY <1>1, <2>2, FS_CardinalityType DEF Capped
  <2> QED  BY <1>1, <2>2, <2>3 DEF Capped
<1>11. Keyed'
  BY <1>1, <1>2 DEF Keyed
<1>12. Opened'
  <2> SUFFICES ASSUME NEW s \in Open \ S PROVE phase'[sub'[s]] \in {"open", "closed"}
    BY <1>5 DEF Opened
  <2>1. s \in Streams /\ sub'[s] = sub[s] /\ sub[s] \in Streams
    BY <1>1, <1>2 DEF Open, NothingLeft, StreamsTypeOK
  <2> QED  BY <1>1, <1>2, <2>1 DEF Opened
<1>13. SharesItsPoller'
  BY <1>1, <1>2, <1>5 DEF SharesItsPoller, Open
<1> QED  BY <1>4, <1>5, <1>6, <1>9, <1>10, <1>11, <1>12, <1>13
-----------------------------------------------------------------------------
\* What a client, a slow reader, a guard and the drain do to the streams.
LEMMA ClosingKeeps ==
  ASSUME StreamsInv,
         \/ \E s \in Streams : Leave(s) \/ GuardEnds(s) \/ EndCycle(s)
         \/ RunHooks
  PROVE  StreamsInv'
<1> USE StreamsAssumption
<1>1. StreamsTypeOK /\ Settling /\ NothingLeft
  BY DEF StreamsInv
<1>2. ASSUME NEW S \in SUBSET Open, End(S),
             hooks' = Open \ S, guarded' = Open \ S,
             UNCHANGED <<version, unsettled, request>>,
             drain' \in {"no", "begun", "stopped", "done"},
             cycling' \subseteq Streams, ticked' \subseteq Streams,
             behind' \in [Streams -> 0..(SlowTicks - 1)]
      PROVE StreamsInv'
  <2>1. UNCHANGED <<key, seen>>
    BY <1>2 DEF request
  <2>2. /\ Open' = Open \ S
        /\ {s \in Streams : sub'[s] # None} = Open \ S
        /\ Counted' /\ Capped' /\ Keyed' /\ Opened' /\ SharesItsPoller'
        /\ phase' \in [Streams -> {"new", "lookup", "opening", "open", "closed", "refused"}]
        /\ sub' \in [Streams -> Streams \cup {None}]
        /\ registry' \in [Keys -> Streams \cup {None}]
        /\ running' \subseteq Streams
    BY <1>2, <2>1, EndKeeps
  <2>3. Open \subseteq Streams
    BY DEF Open
  <2>4. StreamsTypeOK'
    BY <1>1, <1>2, <2>1, <2>2, <2>3 DEF StreamsTypeOK
  <2>5. Settling'
    BY <1>1, <1>2 DEF Settling
  <2>6. NothingLeft'
    BY <1>2, <2>2 DEF NothingLeft
  <2> QED  BY <2>2, <2>4, <2>5, <2>6 DEF StreamsInv
<1>3. ASSUME NEW s \in Streams, Leave(s) PROVE StreamsInv'
  <2>1. {s} \cap Open \in SUBSET Open /\ End({s} \cap Open)
    BY <1>3 DEF Leave, Close
  <2>2. hooks' = Open \ ({s} \cap Open) /\ guarded' = Open \ ({s} \cap Open)
    BY <1>1, <1>3 DEF Leave, Close, NothingLeft
  <2> QED  BY <1>1, <1>2, <1>3, <2>1, <2>2 DEF Leave, routes, StreamsTypeOK
<1>4. ASSUME NEW s \in Streams, GuardEnds(s) PROVE StreamsInv'
  <2>1. {s} \cap Open \in SUBSET Open /\ End({s} \cap Open)
    BY <1>4 DEF GuardEnds
  <2>2. hooks' = Open \ ({s} \cap Open) /\ guarded' = Open \ ({s} \cap Open)
    BY <1>1, <1>4 DEF GuardEnds, NothingLeft
  <2> QED  BY <1>1, <1>2, <1>4, <2>1, <2>2 DEF GuardEnds, routes, StreamsTypeOK
<1>5. ASSUME NEW p \in Streams, EndCycle(p) PROVE StreamsInv'
  <2>1. PICK slow \in SUBSET (Subscribers(p) \cap Open) :
          LET dropped == {s \in slow : behind[s] + 1 >= SlowTicks} IN
          /\ behind' = [s \in Streams |->
                          IF s \notin Subscribers(p) THEN behind[s]
                          ELSE IF s \in slow \ dropped THEN behind[s] + 1 ELSE 0]
          /\ Close(dropped)
    BY <1>5 DEF EndCycle
  <2> DEFINE dropped == {s \in slow : behind[s] + 1 >= SlowTicks}
  <2>2. behind' \in [Streams -> 0..(SlowTicks - 1)]
    BY <1>1, <2>1 DEF StreamsTypeOK
  <2>3. Close(dropped)
    BY <2>1
  <2>4. dropped \cap Open \in SUBSET Open
    OBVIOUS
  <2>5. cycling' \subseteq Streams /\ ticked' \subseteq Streams /\ drain' = drain
        /\ UNCHANGED <<version, unsettled, request>>
    BY <1>1, <1>5 DEF EndCycle, routes, StreamsTypeOK
  <2> HIDE DEF dropped
  <2>6. End(dropped \cap Open)
    BY <2>3 DEF Close
  <2>7. hooks' = Open \ (dropped \cap Open) /\ guarded' = Open \ (dropped \cap Open)
    BY <1>1, <2>3 DEF Close, NothingLeft
  <2>8. drain' \in {"no", "begun", "stopped", "done"}
    BY <1>1, <2>5 DEF StreamsTypeOK
  <2> QED  BY <1>2, <2>2, <2>4, <2>5, <2>6, <2>7, <2>8
<1>6. ASSUME RunHooks PROVE StreamsInv'
  <2>1. hooks = Open /\ hooks \cap Open \in SUBSET Open /\ End(hooks \cap Open)
    BY <1>1, <1>6 DEF RunHooks, NothingLeft
  <2>2. hooks' = Open \ (hooks \cap Open) /\ guarded' = Open \ (hooks \cap Open)
    BY <1>1, <1>6 DEF RunHooks, NothingLeft
  <2> QED  BY <1>1, <1>2, <1>6, <2>1, <2>2 DEF RunHooks, StreamsTypeOK
<1> QED  BY <1>3, <1>4, <1>5, <1>6
-----------------------------------------------------------------------------
\* getPoller, subscribe and attach: what the stream's own poller or the shared
\* one makes of the accounts.  A poller that is replaced is still counted on by
\* nobody: it left the registry and does not run.
LEMMA OpeningKeeps ==
  ASSUME StreamsInv, SlowTicks > 1, NEW s \in Streams, OpenStream(s)
  PROVE  StreamsInv'
<1> USE StreamsAssumption
<1>1. /\ StreamsTypeOK /\ Settling /\ NothingLeft /\ Counted /\ Capped
      /\ Keyed /\ Opened /\ SharesItsPoller
  BY DEF StreamsInv
<1> DEFINE old == registry[key[s]]
           p == IF Reuse(s, old) THEN old ELSE s
<1>2. /\ key[s] \in Keys /\ seen[s] \in 0..LastVersion
      /\ old \in Streams \cup {None} /\ p \in Streams /\ s \notin Open
      /\ phase[s] = "opening"
  BY <1>1 DEF OpenStream, Open, StreamsTypeOK, Reuse
\* With SlowTicks > 1 the catch-up's one tick does not drop the stream.
<1>3. PICK full \in BOOLEAN, leaves \in BOOLEAN :
        /\ phase' = [phase EXCEPT ![s] = IF leaves THEN "closed" ELSE "open"]
        /\ behind' = [behind EXCEPT ![s] = IF p \in ticked /\ full THEN 1 ELSE 0]
        /\ sub' = [sub EXCEPT ![s] = IF leaves THEN None ELSE p]
        /\ hooks' = IF leaves THEN hooks ELSE hooks \cup {s}
        /\ guarded' = IF leaves THEN guarded ELSE guarded \cup {s}
        /\ running' = (running \ {old}) \cup (IF Subscribers(p) # {} \/ ~leaves THEN {p} ELSE {})
        /\ registry' = [registry EXCEPT ![key[s]] =
                          IF Subscribers(p) # {} \/ ~leaves THEN p ELSE None]
        /\ cycling' = IF p \notin running THEN cycling \cup {p} ELSE cycling
  <2>1. SlowTicks # 1
    OBVIOUS
  <2> HIDE DEF p, old
  <2> QED  BY <2>1 DEF OpenStream, p, old
<1>4. UNCHANGED <<version, unsettled, drain, key, seen, ticked>>
  BY DEF OpenStream, routes, request
<1> DEFINE stays == Subscribers(p) # {} \/ ~leaves
<1>5. StreamsTypeOK'
  BY <1>1, <1>2, <1>3, <1>4 DEF StreamsTypeOK
<1>6. Settling'
  BY <1>1, <1>4 DEF Settling
<1>7. Open' = IF leaves THEN Open ELSE Open \cup {s}
  BY <1>1, <1>2, <1>3 DEF Open, StreamsTypeOK
<1>8. NothingLeft'
  <2>1. {t \in Streams : sub'[t] # None} = IF leaves THEN Open ELSE Open \cup {s}
    BY <1>1, <1>2, <1>3 DEF NothingLeft, StreamsTypeOK
  <2> QED  BY <1>1, <1>3, <1>7, <2>1 DEF NothingLeft
\* A poller that is reused, or replaced, is registered under the stream's key.
<1>9. old # None => old \in Registered /\ key[old] = key[s] /\ old \in running
  BY <1>1, <1>2 DEF Keyed, Registered, Counted
<1>10. p = old \/ p = s
  OBVIOUS
<1>11. key[p] = key[s] /\ seen[p] >= seen[s]
  BY <1>1, <1>2, <1>9 DEF Reuse, StreamsTypeOK
<1>12. registry'[key[s]] = IF stays THEN p ELSE None
  BY <1>1, <1>2, <1>3 DEF StreamsTypeOK
<1>13. \A k \in Keys : k # key[s] => registry'[k] = registry[k]
  BY <1>1, <1>3 DEF StreamsTypeOK
<1>14. Keyed'
  BY <1>1, <1>2, <1>4, <1>11, <1>12, <1>13 DEF Keyed
<1>15. Registered' = (Registered \ {old}) \cup (IF stays THEN {p} ELSE {})
  <2>1. ASSUME NEW q \in Streams, key[q] = key[s]
        PROVE  /\ q \in Registered <=> q = old
               /\ q \in Registered' <=> stays /\ q = p
    BY <1>2, <1>4, <1>12, <2>1 DEF Registered
  <2>2. ASSUME NEW q \in Streams, key[q] # key[s]
        PROVE  q \in Registered' <=> q \in Registered
    BY <1>1, <1>4, <1>13, <2>2 DEF Registered, StreamsTypeOK
  <2>3. ASSUME NEW q \in Streams, key[q] # key[s] PROVE q # p /\ q # old
    BY <1>2, <1>9, <1>11, <2>3
  <2>4. Registered \subseteq Streams /\ Registered' \subseteq Streams
    BY DEF Registered
  <2> HIDE DEF p, old, stays
  <2> QED  BY <1>2, <2>1, <2>2, <2>3, <2>4
<1>16. Counted'
  <2>1. ASSUME NEW q \in running' PROVE Subscribers(q)' # {}
    <3>1. \A t \in Streams : t # s => sub'[t] = sub[t]
      BY <1>1, <1>3 DEF StreamsTypeOK
    <3>2. sub[s] = None
      BY <1>1, <1>2 DEF NothingLeft
    <3>3. q \in Streams
      BY <1>5 DEF StreamsTypeOK
    <3>4. Subscribers(q) \subseteq Subscribers(q)'
      BY <3>1, <3>2, <3>3 DEF Subscribers
    <3>5. CASE Subscribers(q) # {}
      BY <3>4, <3>5
    <3>6. CASE Subscribers(q) = {}
      <4>1. q = p /\ ~leaves
        BY <1>1, <1>3, <3>6 DEF Counted
      <4>2. sub'[s] = p
        BY <1>1, <1>3, <4>1 DEF StreamsTypeOK
      <4> QED  BY <4>1, <4>2 DEF Subscribers
    <3> QED  BY <3>5, <3>6
  <2>2. running' = Registered'
    BY <1>1, <1>3, <1>15 DEF Counted
  <2> QED  BY <2>1, <2>2 DEF Counted
\* At the cap only a poller that replaces another is created.
<1>17. Capped'
  <2>1. IsFiniteSet(running) /\ Cardinality(running) \in Nat /\ Cardinality(running) <= MaxPollers
    BY <1>1, FS_CardinalityType DEF Capped
  <2>2. running' \subseteq (running \ {old}) \cup {p}
    BY <1>3
  <2>3. IsFiniteSet(running \ {old})
    BY <2>1, FS_Subset
  <2>4. /\ IsFiniteSet((running \ {old}) \cup {p})
        /\ Cardinality((running \ {old}) \cup {p}) <= Cardinality(running \ {old}) + 1
    <3> HIDE DEF p, old
    <3>1. Cardinality(running \ {old}) \in Nat
      BY <2>3, FS_CardinalityType
    <3>2. /\ IsFiniteSet((running \ {old}) \cup {p})
          /\ Cardinality((running \ {old}) \cup {p}) =
               IF p \in running \ {old} THEN Cardinality(running \ {old})
               ELSE Cardinality(running \ {old}) + 1
      BY <2>3, FS_AddElement
    <3> QED  BY <3>1, <3>2
  <2>5. Cardinality(running \ {old}) + 1 <= MaxPollers
    <3>1. CASE old = None
      <4>1. Cardinality(running) < MaxPollers
        BY <1>1, <2>1, <3>1 DEF OpenStream, AtCapacity, Counted
      <4>2. running \ {old} = running
        BY <1>1, <3>1 DEF StreamsTypeOK
      <4> QED  BY <2>1, <4>1, <4>2
    <3>2. CASE old # None
      <4>1. old \in running
        BY <1>9, <3>2
      <4> HIDE DEF old
      <4>2. Cardinality(running \ {old}) = Cardinality(running) - 1
        BY <2>1, <4>1, FS_RemoveElement
      <4> QED  BY <2>1, <4>2
    <3> QED  BY <3>1, <3>2
  <2> HIDE DEF p, old
  <2>6. IsFiniteSet(running') /\ Cardinality(running') <= Cardinality((running \ {old}) \cup {p})
    BY <2>2, <2>4, FS_Subset
  <2>7. /\ Cardinality(running') \in Nat /\ Cardinality(running \ {old}) \in Nat
        /\ Cardinality((running \ {old}) \cup {p}) \in Nat
    BY <2>3, <2>4, <2>6, FS_CardinalityType
  <2> QED  BY <2>4, <2>5, <2>6, <2>7 DEF Capped
<1>18. Opened'
  <2>1. p = old => phase[p] \in {"open", "closed"}
    <3> SUFFICES ASSUME p = old PROVE phase[p] \in {"open", "closed"}
      OBVIOUS
    <3>1. PICK t \in Subscribers(p) : TRUE
      BY <1>1, <1>2, <1>9 DEF Counted
    <3>2. t \in Open /\ sub[t] = p
      BY <1>1, <1>2, <3>1 DEF NothingLeft, Subscribers
    <3> QED  BY <1>1, <3>2 DEF Opened
  <2>2. ASSUME NEW t \in Open' PROVE phase'[sub'[t]] \in {"open", "closed"}
    <3>1. CASE t = s
      <4>1. ~leaves /\ sub'[t] = p
        BY <1>1, <1>2, <1>3, <1>7, <2>2, <3>1 DEF StreamsTypeOK
      <4> QED  BY <1>1, <1>2, <1>3, <1>10, <2>1, <4>1 DEF StreamsTypeOK
    <3>2. CASE t # s
      <4>1. t \in Open /\ t \in Streams /\ sub'[t] = sub[t] /\ sub[t] \in Streams
        BY <1>1, <1>3, <1>7, <2>2, <3>2 DEF StreamsTypeOK, NothingLeft, Open
      <4>2. phase[sub[t]] \in {"open", "closed"}
        BY <1>1, <4>1 DEF Opened
      <4> QED  BY <1>1, <1>2, <1>3, <4>1, <4>2 DEF StreamsTypeOK
    <3> QED  BY <3>1, <3>2
  <2> QED  BY <2>2 DEF Opened
<1>19. SharesItsPoller'
  <2>1. ASSUME NEW t \in Open' PROVE key[sub'[t]] = key[t] /\ seen[sub'[t]] >= seen[t]
    <3>1. CASE t = s
      <4>1. sub'[t] = p
        BY <1>1, <1>2, <1>3, <1>7, <2>1, <3>1 DEF StreamsTypeOK
      <4> QED  BY <1>11, <3>1, <4>1
    <3>2. CASE t # s
      <4>1. t \in Open /\ sub'[t] = sub[t]
        BY <1>1, <1>3, <1>7, <2>1, <3>2 DEF StreamsTypeOK, Open
      <4> QED  BY <1>1, <4>1 DEF SharesItsPoller
    <3> QED  BY <3>1, <3>2
  <2> QED  BY <1>4, <2>1 DEF SharesItsPoller
<1> QED
  BY <1>5, <1>6, <1>8, <1>14, <1>16, <1>17, <1>18, <1>19 DEF StreamsInv
-----------------------------------------------------------------------------
\* A request that has not opened yet is nobody's poller: what it reads changes
\* no one's key or version.
LEMMA RequestKeeps ==
  ASSUME StreamsInv, NEW s \in Streams, ConnectRequest(s) \/ LookUp(s) \/ Refuse(s)
  PROVE  StreamsInv'
<1> USE StreamsAssumption
<1>1. /\ StreamsTypeOK /\ Settling /\ NothingLeft /\ Counted /\ Capped
      /\ Keyed /\ Opened /\ SharesItsPoller
  BY DEF StreamsInv
<1>2. /\ phase[s] \in {"new", "lookup", "opening"}
      /\ \E next \in {"lookup", "opening", "refused"} : phase' = [phase EXCEPT ![s] = next]
      /\ seen' = seen \/ (seen' = [seen EXCEPT ![s] = version])
      /\ UNCHANGED <<version, unsettled, drain, key, registry, running, cycling, ticked,
                     sub, behind, hooks, guarded>>
  BY DEF ConnectRequest, LookUp, Refuse, routes, request, pollers
<1>3. Open' = Open
  BY <1>1, <1>2 DEF Open, StreamsTypeOK
<1>4. StreamsTypeOK' /\ Settling'
  BY <1>1, <1>2 DEF StreamsTypeOK, Settling
<1>5. Registered' = Registered
  BY <1>2 DEF Registered
<1>6. \A p : Subscribers(p)' = Subscribers(p)
  BY <1>2 DEF Subscribers
<1>7. Counted' /\ Capped' /\ Keyed' /\ NothingLeft'
  BY <1>1, <1>2, <1>3, <1>5, <1>6 DEF Counted, Capped, Keyed, NothingLeft
<1>8. ASSUME NEW t \in Open
      PROVE  /\ t \in Streams /\ t # s /\ sub[t] \in Streams /\ sub[t] # s
             /\ phase'[t] = phase[t] /\ phase'[sub[t]] = phase[sub[t]]
             /\ seen'[t] = seen[t] /\ seen'[sub[t]] = seen[sub[t]]
  <2>1. t \in Streams /\ phase[t] = "open" /\ t # s
    BY <1>2 DEF Open
  <2>2. sub[t] \in Streams /\ phase[sub[t]] \in {"open", "closed"}
    BY <1>1, <2>1 DEF NothingLeft, Opened, StreamsTypeOK
  <2>3. sub[t] # s
    BY <1>2, <2>2
  <2> QED  BY <1>1, <1>2, <2>1, <2>2, <2>3 DEF StreamsTypeOK
<1>9. Opened' /\ SharesItsPoller'
  BY <1>1, <1>2, <1>3, <1>8 DEF Opened, SharesItsPoller
<1> QED  BY <1>4, <1>7, <1>9 DEF StreamsInv

\* invalidatePoller and stopAllPollers empty the registry, and nothing runs
\* outside it.
LEMMA StoppingKeeps ==
  ASSUME StreamsInv, Invalidate \/ StopAllPollers
  PROVE  StreamsInv'
<1> USE StreamsAssumption
<1>1. /\ StreamsTypeOK /\ Settling /\ NothingLeft /\ Counted /\ Capped
      /\ Keyed /\ Opened /\ SharesItsPoller
  BY DEF StreamsInv
<1>2. /\ running' = running \ Registered
      /\ registry' = [k \in Keys |-> IF registry[k] \in Registered THEN None ELSE registry[k]]
      /\ UNCHANGED <<version, key, seen, cycling, ticked, phase, sub, behind, hooks, guarded>>
      /\ \/ unsettled > 0 /\ unsettled' = unsettled - 1 /\ drain' = drain
         \/ unsettled' = unsettled /\ drain' = "stopped"
  BY DEF Invalidate, StopAllPollers, StopPollers, Unregister, request, stream
<1>3. running' = {}
  BY <1>1, <1>2 DEF Counted
<1>4. Registered' = {}
  <2> SUFFICES ASSUME NEW q \in Streams, registry'[key[q]] = q PROVE FALSE
    BY <1>2 DEF Registered
  <2>1. key[q] \in Keys
    BY <1>1 DEF StreamsTypeOK
  <2>2. registry[key[q]] = q /\ registry[key[q]] \notin Registered
    BY <1>2, <2>1
  <2> QED  BY <2>2 DEF Registered
<1>5. StreamsTypeOK' /\ Settling'
  BY <1>1, <1>2 DEF StreamsTypeOK, Settling
<1>6. NothingLeft' /\ Opened' /\ SharesItsPoller'
  BY <1>1, <1>2 DEF NothingLeft, Opened, SharesItsPoller, Open
<1>7. Counted' /\ Keyed'
  BY <1>1, <1>2, <1>3, <1>4 DEF Counted, Keyed
<1>8. Capped'
  BY <1>3, FS_EmptySet DEF Capped
<1> QED  BY <1>5, <1>6, <1>7, <1>8 DEF StreamsInv

\* A commit and the drain flag touch no stream and no poller.
LEMMA RoutesKeep ==
  ASSUME StreamsInv, Save \/ Delete \/ BeginDrain \/ UNCHANGED vars
  PROVE  StreamsInv'
<1> USE StreamsAssumption
<1>1. /\ StreamsTypeOK /\ Settling /\ NothingLeft /\ Counted /\ Capped
      /\ Keyed /\ Opened /\ SharesItsPoller
  BY DEF StreamsInv
<1>2. UNCHANGED <<key, seen, registry, running, cycling, ticked,
                  phase, sub, behind, hooks, guarded>>
  BY DEF Save, Delete, BeginDrain, vars, request, pollers, stream
<1>3. StreamsTypeOK' /\ Settling'
  BY <1>1, <1>2 DEF StreamsTypeOK, Settling, Save, Delete, BeginDrain, Deleted, vars, routes
<1>4. /\ NothingLeft' /\ Counted' /\ Capped'
      /\ Keyed' /\ Opened' /\ SharesItsPoller'
  BY <1>1, <1>2 DEF NothingLeft, Counted, Capped, Keyed, Opened, SharesItsPoller,
     Open, Registered, Subscribers
<1> QED  BY <1>3, <1>4 DEF StreamsInv

LEMMA StreamsInvKept ==
  SlowTicks > 1 /\ StreamsInv /\ [Next]_vars => StreamsInv'
BY OpeningKeeps, ClosingKeeps, RequestKeeps, StoppingKeeps, RoutesKeep DEF Next

LEMMA StreamsInvHolds == SlowTicks > 1 => (Spec => []StreamsInv)
<1> SUFFICES ASSUME SlowTicks > 1 PROVE Spec => []StreamsInv
  OBVIOUS
<1>1. StreamsInv /\ [Next]_vars => StreamsInv'
  BY StreamsInvKept
<1> QED  BY <1>1, Initially, PTL DEF Spec
-----------------------------------------------------------------------------
\* Type correctness of the streams and the registry.
THEOREM StreamsTypeCorrect == SlowTicks > 1 => (Spec => []StreamsTypeOK)
<1>1. StreamsInv => StreamsTypeOK
  BY DEF StreamsInv
<1> QED  BY <1>1, StreamsInvHolds, PTL

\* A stream that closed left no subscription, drain hook or guard.
THEOREM NothingIsLeft == SlowTicks > 1 => (Spec => []NothingLeft)
<1>1. StreamsInv => NothingLeft
  BY DEF StreamsInv
<1> QED  BY <1>1, StreamsInvHolds, PTL

\* The registry accounts for every poller that runs, and keeps to the cap.
THEOREM PollersAreAccounted == SlowTicks > 1 => (Spec => []PollersAccounted)
<1>1. StreamsInv => PollersAccounted
  BY DEF StreamsInv, Counted, Capped, PollersAccounted
<1> QED  BY <1>1, StreamsInvHolds, PTL

\* No viewer watches an older version than the one its request read.
THEOREM PollersAreShared == SlowTicks > 1 => (Spec => []SharesItsPoller)
<1>1. StreamsInv => SharesItsPoller
  BY DEF StreamsInv
<1> QED  BY <1>1, StreamsInvHolds, PTL
-----------------------------------------------------------------------------
\* A poller stops with its last subscriber, so nobody is left on it.
LEMMA EndLeavesNobody ==
  ASSUME StreamsInv, NEW S \in SUBSET Open, End(S),
         NEW p \in running, p \notin running'
  PROVE  ~\E s \in Streams : sub'[s] = p
<1>1. p \in Streams /\ p # None
  BY StreamsAssumption DEF StreamsInv, StreamsTypeOK
<1>2. /\ sub' = [s \in Streams |-> IF s \in S THEN None ELSE sub[s]]
      /\ p \in AbandonedBy(S)
  BY DEF End, StopPollers
<1> QED  BY <1>1, <1>2 DEF AbandonedBy, Subscribers

\* A stream that opens stops a poller only to replace it by a newer version.
LEMMA OpeningReplaces ==
  ASSUME StreamsInv, SlowTicks > 1, NEW s \in Streams, OpenStream(s),
         NEW p \in running, p \notin running'
  PROVE  /\ phase[s] = "opening" /\ phase'[s] # "opening"
         /\ key[s] = key[p] /\ seen[s] > seen[p]
<1> USE StreamsAssumption
<1>1. StreamsTypeOK /\ Counted /\ Keyed
  BY DEF StreamsInv
<1> DEFINE old == registry[key[s]]
           new == IF Reuse(s, old) THEN old ELSE s
<1>2. PICK leaves \in BOOLEAN :
        /\ phase[s] = "opening"
        /\ phase' = [phase EXCEPT ![s] = IF leaves THEN "closed" ELSE "open"]
        /\ running' = (running \ {old}) \cup (IF Subscribers(new) # {} \/ ~leaves THEN {new} ELSE {})
  <2>1. SlowTicks # 1
    OBVIOUS
  <2> HIDE DEF new, old
  <2> QED  BY <2>1 DEF OpenStream, new, old
<1>3. phase'[s] # "opening"
  BY <1>1, <1>2 DEF StreamsTypeOK
<1>4. p \in Streams /\ p = old
  BY <1>1, <1>2 DEF StreamsTypeOK
<1>5. key[p] = key[s]
  BY <1>1, <1>4 DEF StreamsTypeOK, Keyed
<1>6. new # old
  <2>1. Subscribers(old) # {}
    BY <1>1, <1>4 DEF Counted
  <2> QED  BY <1>2, <1>4, <2>1
<1>7. ~(seen[p] >= seen[s])
  BY <1>4, <1>6 DEF Reuse
<1> QED  BY <1>1, <1>2, <1>3, <1>4, <1>5, <1>7 DEF StreamsTypeOK

\* A poller stops under viewers that stay only for a save, a delete, a newer
\* version of its key or a shutdown.
THEOREM OthersAlwaysCarryOn == SlowTicks > 1 => (Spec => OthersCarryOn)
<1> SUFFICES ASSUME SlowTicks > 1 PROVE Spec => OthersCarryOn
  OBVIOUS
<1> DEFINE Excused(p) ==
      \/ unsettled' < unsettled
      \/ drain' # drain
      \/ \E s \in Streams : /\ phase[s] = "opening" /\ phase'[s] # "opening"
                            /\ key[s] = key[p] /\ seen[s] > seen[p]
<1>1. ASSUME StreamsInv, [Next]_vars, NEW p \in running, p \notin running',
             \E s \in Streams : sub'[s] = p
      PROVE Excused(p)
  <2>1. ASSUME NEW S \in SUBSET Open, End(S) PROVE FALSE
    BY <1>1, <2>1, EndLeavesNobody
  <2>2. ASSUME NEW s \in Streams, Leave(s) \/ GuardEnds(s) PROVE FALSE
    <3>1. {s} \cap Open \in SUBSET Open /\ End({s} \cap Open)
      BY <2>2 DEF Leave, GuardEnds, Close
    <3> QED  BY <2>1, <3>1
  <2>3. ASSUME NEW s \in Streams, EndCycle(s) PROVE FALSE
    <3>1. PICK dropped : Close(dropped)
      BY <2>3 DEF EndCycle
    <3>2. dropped \cap Open \in SUBSET Open /\ End(dropped \cap Open)
      BY <3>1 DEF Close
    <3> QED  BY <2>1, <3>2
  <2>4. ASSUME RunHooks PROVE FALSE
    <3>1. hooks \cap Open \in SUBSET Open /\ End(hooks \cap Open)
      BY <2>4 DEF RunHooks
    <3> QED  BY <2>1, <3>1
  <2>5. ASSUME NEW s \in Streams, OpenStream(s) PROVE Excused(p)
    <3>1. /\ phase[s] = "opening" /\ phase'[s] # "opening"
          /\ key[s] = key[p] /\ seen[s] > seen[p]
      BY <1>1, <2>5, OpeningReplaces
    <3> QED  BY <3>1
  <2>6. ASSUME NEW s \in Streams, ConnectRequest(s) \/ LookUp(s) \/ Refuse(s) PROVE FALSE
    BY <1>1, <2>6 DEF ConnectRequest, LookUp, Refuse, pollers
  <2>7. ASSUME Save \/ Delete \/ BeginDrain \/ UNCHANGED vars PROVE FALSE
    BY <1>1, <2>7 DEF Save, Delete, BeginDrain, vars, pollers
  <2>8. CASE Invalidate
    <3>1. unsettled \in Nat /\ unsettled' = unsettled - 1
      BY <1>1, <2>8, StreamsAssumption DEF Invalidate, StreamsInv, StreamsTypeOK
    <3> QED  BY <3>1
  <2>9. CASE StopAllPollers
    BY <2>9 DEF StopAllPollers
  <2> HIDE DEF Excused
  <2> QED  BY <1>1, <2>2, <2>3, <2>4, <2>5, <2>6, <2>7, <2>8, <2>9 DEF Next
<1>2. StreamsInv /\ [Next]_vars =>
        [\A p \in running : (p \notin running' /\ \E s \in Streams : sub'[s] = p) =>
            Excused(p)]_vars
  <2> HIDE DEF Excused
  <2> QED  BY <1>1
<1>3. StreamsInv /\ [Next]_vars =>
        [\A p \in running : (p \notin running' /\ \E s \in Streams : sub'[s] = p) =>
            \/ unsettled' < unsettled
            \/ drain' # drain
            \/ \E s \in Streams : /\ phase[s] = "opening" /\ phase'[s] # "opening"
                                  /\ key[s] = key[p] /\ seen[s] > seen[p]]_vars
  BY <1>2
<1> QED  BY <1>3, StreamsInvHolds, PTL DEF Spec, OthersCarryOn
=============================================================================
