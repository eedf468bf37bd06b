------------------------- MODULE DuckDbEnginesProofs -------------------------
(* The engine cache's safety properties for any queries, deletes, openings *)
(* and configurations.                                                     *)
EXTENDS DuckDbEngines, FiniteSetTheorems, TLAPS

Users(e) == {q \in Queries : pc[q] = "running" /\ at[q] = e}

\* The count is of the queries that run on the engine.
Counted == \A e \in Engines : active[e] = Cardinality(Users(e))

\* Whoever awaits or holds an engine, awaits or holds one that was opened.
Awaited ==
  \A c \in Callers : pc[c] \in {"finding", "acquiring", "running"} =>
    at[c] \in Engines /\ status[at[c]] # "unused"

\* The Map's engine serves or will, and one that queries run on is open.
MapServes == map # None => status[map] \in {"opening", "open"} /\ map \notin retired
RetiredOnce ==
  \A e \in Engines :
    /\ e \in retired => status[e] \in {"open", "closed"}
    /\ status[e] = "closed" => e \in retired
    /\ active[e] # 0 => status[e] = "open"

\* What a disposal awaits has left the Map.
Taken == \A d \in Disposals : pc[d] = "finding" => at[d] # map

\* The inductive invariant.
EnginesInv ==
  /\ EnginesTypeOK /\ Counted /\ Awaited /\ MapServes /\ RetiredOnce /\ Taken /\ NoStray

LEMMA Initially == Init => EnginesInv
<1> SUFFICES ASSUME Init PROVE EnginesInv
  OBVIOUS
<1> USE EnginesAssumption
<1>1. Cardinality(Queries) \in Nat
  BY FS_CardinalityType
<1>2. EnginesTypeOK
  BY <1>1 DEF Init, EnginesTypeOK
<1>3. Counted
  <2>1. \A e \in Engines : Users(e) = {}
    BY DEF Init, Users, Callers
  <2> QED  BY <2>1, FS_EmptySet DEF Init, Counted
<1>4. Awaited /\ MapServes /\ RetiredOnce /\ Taken /\ NoStray
  BY DEF Init, Awaited, MapServes, RetiredOnce, Taken, NoStray, Callers
<1> QED  BY <1>2, <1>3, <1>4 DEF EnginesInv

\* What the count says: it is bounded, and positive while anyone runs.
LEMMA Counts ==
  ASSUME Counted, NEW e \in Engines
  PROVE  /\ IsFiniteSet(Users(e))
         /\ active[e] \in 0..Cardinality(Queries)
         /\ active[e] = 0 <=> Users(e) = {}
<1>1. IsFiniteSet(Users(e)) /\ Cardinality(Users(e)) <= Cardinality(Queries)
  BY EnginesAssumption, FS_Subset DEF Users
<1>2. Cardinality(Queries) \in Nat /\ Cardinality(Users(e)) \in Nat
  BY <1>1, EnginesAssumption, FS_CardinalityType
<1>3. Cardinality(Users(e)) = 0 <=> Users(e) = {}
  BY <1>1, FS_EmptySet
<1> QED  BY <1>1, <1>2, <1>3 DEF Counted

\* Steps at which no query begins or stops to run leave the counts right.
LEMMA SameUsers ==
  ASSUME Counted, active' = active,
         \A q \in Queries : \/ pc'[q] = pc[q] /\ at'[q] = at[q]
                            \/ pc[q] # "running" /\ pc'[q] # "running"
  PROVE  Counted'
<1>1. ASSUME NEW e \in Engines PROVE Users(e)' = Users(e)
  BY DEF Users
<1> QED  BY <1>1 DEF Counted
-----------------------------------------------------------------------------
\* The steps of a query that touch no engine.
LEMMA WaitingKeeps ==
  ASSUME EnginesInv, NEW q \in Queries,
         \/ RunPlan(q) \/ PrepareFails(q) \/ Find(q) \/ FindsLive(q)
         \/ LooksAgain(q) \/ Throw(q)
  PROVE  EnginesInv'
<1> USE EnginesAssumption
<1>1. EnginesTypeOK /\ Counted /\ Awaited /\ MapServes /\ RetiredOnce /\ Taken /\ NoStray
  BY DEF EnginesInv
<1>2. PICK place \in {"preparing", "finding", "acquiring", "done"}, e \in Engines \cup {None} :
        /\ pc' = [pc EXCEPT ![q] = place] /\ at' = [at EXCEPT ![q] = e]
        /\ place \in {"finding", "acquiring"} => e \in Engines /\ status[e] # "unused"
  BY <1>1 DEF RunPlan, PrepareFails, Find, FindsLive, LooksAgain, Throw, Go,
     EnginesTypeOK, MapServes, Settled, Callers, Awaited
<1>3. /\ pc[q] # "running"
      /\ want' \in [Queries -> Configs]
      /\ UNCHANGED <<config, map, status, key, active, retired>>
  BY <1>1 DEF RunPlan, PrepareFails, Find, FindsLive, LooksAgain, Throw, engines, EnginesTypeOK
<1>4. q \in Callers /\ q \notin Disposals
  BY DEF Callers, Disposals
<1>5. EnginesTypeOK'
  BY <1>1, <1>2, <1>3 DEF EnginesTypeOK
<1>6. Counted'
  BY <1>1, <1>2, <1>3, <1>4, SameUsers DEF EnginesTypeOK, Callers
<1>7. Awaited'
  BY <1>1, <1>2, <1>3 DEF Awaited, EnginesTypeOK
<1>8. MapServes' /\ RetiredOnce'
  BY <1>1, <1>3 DEF MapServes, RetiredOnce
<1>9. Taken' /\ NoStray'
  BY <1>1, <1>2, <1>3, <1>4 DEF Taken, NoStray, EnginesTypeOK
<1> QED  BY <1>5, <1>6, <1>7, <1>8, <1>9 DEF EnginesInv
-----------------------------------------------------------------------------
\* What retire() does to an engine and leaves of the others.
LEMMA Retiring ==
  ASSUME EnginesInv, NEW e \in Engines, Settled(e)
  PROVE  /\ AfterRetire(e) \in [Engines -> {"unused", "opening", "open", "failed", "closed"}]
         /\ \A f \in Engines : f # e => AfterRetire(e)[f] = status[f]
         /\ AfterRetire(e)[e] \in {"open", "failed", "closed"}
         /\ AfterRetire(e)[e] = "open" => active[e] > 0
         /\ Retired(e) \subseteq Engines
         /\ retired \subseteq Retired(e) /\ Retired(e) \subseteq retired \cup {e}
         /\ e \in Retired(e) <=> AfterRetire(e)[e] # "failed"
         /\ active[e] # 0 => AfterRetire(e)[e] = "open"
<1>1. EnginesTypeOK /\ RetiredOnce
  BY DEF EnginesInv
<1>2. active[e] \in Nat
  BY <1>1, EnginesAssumption, FS_CardinalityType DEF EnginesTypeOK
<1> QED  BY <1>1, <1>2 DEF EnginesTypeOK, RetiredOnce, AfterRetire, Retired, Settled

\* A query or a disposal that found an engine takes it out of the Map and
\* retires it, and whoever it is goes on to await the Map's engine or is done.
LEMMA ReplacingKeeps ==
  ASSUME EnginesInv, NEW c \in Callers,
         (c \in Queries /\ TakesRaced(c)) \/ (c \in Disposals /\ DisposeRetires(c))
  PROVE  EnginesInv'
<1> USE EnginesAssumption
<1> DEFINE e == at[c]
<1>1. EnginesTypeOK /\ Counted /\ Awaited /\ MapServes /\ RetiredOnce /\ Taken /\ NoStray
  BY DEF EnginesInv
<1>2. pc[c] = "finding" /\ Settled(e) /\ e \in Engines
  BY <1>1 DEF TakesRaced, DisposeRetires, Awaited
<1>3. /\ status' = AfterRetire(e) /\ retired' = Retired(e)
      /\ UNCHANGED <<config, key, active, want>>
      /\ map' = map
      /\ c \in Queries => map # None /\ map # e
  BY DEF TakesRaced, DisposeRetires, Without, Disposals
<1>4. PICK place \in {"acquiring", "done"}, f \in Engines \cup {None} :
        /\ pc' = [pc EXCEPT ![c] = place] /\ at' = [at EXCEPT ![c] = f]
        /\ place = "acquiring" => f \in Engines /\ f = map /\ f # e
  BY <1>1, <1>2 DEF TakesRaced, DisposeRetires, Go, Without, EnginesTypeOK
<1>5. /\ status' \in [Engines -> {"unused", "opening", "open", "failed", "closed"}]
      /\ \A g \in Engines : g # e => status'[g] = status[g]
      /\ status'[e] \in {"open", "failed", "closed"}
      /\ status'[e] = "open" => active[e] > 0
      /\ retired' \subseteq Engines
      /\ retired \subseteq retired' /\ retired' \subseteq retired \cup {e}
      /\ e \in retired' <=> status'[e] # "failed"
      /\ active[e] # 0 => status'[e] = "open"
  <2> HIDE DEF e
  <2> QED  BY <1>2, <1>3, Retiring
<1> HIDE DEF e
<1>6. EnginesTypeOK'
  BY <1>1, <1>3, <1>4, <1>5 DEF EnginesTypeOK
<1>7. Counted'
  BY <1>1, <1>2, <1>3, <1>4, SameUsers DEF EnginesTypeOK, Callers
<1>8. Awaited'
  BY <1>1, <1>2, <1>3, <1>4, <1>5 DEF Awaited, EnginesTypeOK, MapServes
\* What a disposal found, the Map no longer holds; nor has a query just put it back.
<1>9. map # e
  BY <1>1, <1>2, <1>3 DEF Taken, Callers, e
<1>10. MapServes'
  BY <1>1, <1>3, <1>5, <1>9 DEF MapServes, EnginesTypeOK
<1>11. RetiredOnce'
  BY <1>1, <1>3, <1>5 DEF RetiredOnce
<1>12. Taken'
  BY <1>1, <1>2, <1>3, <1>4 DEF Taken, EnginesTypeOK, Callers
<1>13. NoStray'
  <2> SUFFICES ASSUME NEW g \in Engines, status'[g] \in {"opening", "open"}
               PROVE  \/ g = map'
                      \/ \E d \in Disposals : pc'[d] = "finding" /\ at'[d] = g
                      \/ g \in retired' /\ active'[g] > 0
    BY DEF NoStray
  <2>1. CASE g = e
    BY <1>3, <1>5, <2>1
  <2>2. CASE g # e
    <3>1. \A d \in Disposals : pc[d] = "finding" /\ at[d] = g =>
            pc'[d] = "finding" /\ at'[d] = g
      BY <1>1, <1>4, <2>2 DEF EnginesTypeOK, e
    <3> QED  BY <1>1, <1>3, <1>5, <2>2, <3>1 DEF NoStray
  <2> QED  BY <2>1, <2>2
<1> QED  BY <1>6, <1>7, <1>8, <1>10, <1>11, <1>12, <1>13 DEF EnginesInv

LEMMA FreshIsUnused ==
  ASSUME CanOpen PROVE Fresh \in Engines /\ status[Fresh] = "unused"
BY DEF CanOpen, Fresh

\* A query opens an engine where the Map has none, or has the one it retires.
LEMMA OpeningKeeps ==
  ASSUME EnginesInv, NEW q \in Queries, OpenFirst(q) \/ Reopens(q)
  PROVE  EnginesInv'
<1> USE EnginesAssumption
<1> DEFINE e == at[q]
           f == Fresh
<1>1. /\ EnginesTypeOK /\ Counted /\ Awaited /\ MapServes /\ RetiredOnce /\ Taken /\ NoStray
      /\ q \in Callers /\ q \notin Disposals
  BY DEF EnginesInv, Callers, Disposals
<1>2. f \in Engines /\ status[f] = "unused"
  BY FreshIsUnused DEF OpenFirst, Reopens
<1>3. /\ pc[q] # "running"
      /\ map' = f /\ key' = [key EXCEPT ![f] = want[q]]
      /\ pc' = [pc EXCEPT ![q] = "acquiring"] /\ at' = [at EXCEPT ![q] = f]
      /\ UNCHANGED <<config, active, want>>
  BY DEF OpenFirst, Reopens, Open, Go
\* What becomes of the engines it does not open.
<1> DEFINE Kept(g) ==
      /\ g \in retired' => status'[g] \in {"open", "closed"}
      /\ status'[g] = "closed" => g \in retired'
      /\ active[g] # 0 => status'[g] = "open"
      /\ status[g] # "unused" => status'[g] # "unused"
      /\ status'[g] \in {"opening", "open"} =>
           \/ g # map /\ status[g] = status'[g] /\ (g \in retired => g \in retired')
           \/ g \in retired' /\ active[g] > 0
<1>4. /\ status' \in [Engines -> {"unused", "opening", "open", "failed", "closed"}]
      /\ status'[f] = "opening"
      /\ retired' \subseteq Engines /\ f \notin retired'
      /\ \A g \in Engines : g # f => Kept(g)
  <2>1. CASE OpenFirst(q)
    <3>1. status' = [status EXCEPT ![f] = "opening"] /\ retired' = retired /\ map = None
      BY <2>1 DEF OpenFirst
    <3>2. f \notin retired
      BY <1>1, <1>2 DEF RetiredOnce
    <3> HIDE DEF f
    <3> QED  BY <1>1, <1>2, <3>1, <3>2 DEF EnginesTypeOK, RetiredOnce
  <2>2. CASE Reopens(q)
    <3>1. /\ status' = [AfterRetire(e) EXCEPT ![f] = "opening"] /\ retired' = Retired(e)
          /\ e \in Engines /\ Settled(e) /\ map \in {None, e}
      BY <1>1, <2>2 DEF Reopens, Without, Awaited
    <3>2. f \notin retired /\ f # e
      BY <1>1, <1>2, <3>1 DEF RetiredOnce, Settled
    <3> HIDE DEF f, e, Kept
    <3>3. /\ AfterRetire(e) \in [Engines -> {"unused", "opening", "open", "failed", "closed"}]
          /\ \A g \in Engines : g # e => AfterRetire(e)[g] = status[g]
          /\ AfterRetire(e)[e] \in {"open", "failed", "closed"}
          /\ AfterRetire(e)[e] = "open" => active[e] > 0
          /\ retired' \subseteq Engines
          /\ retired \subseteq retired' /\ retired' \subseteq retired \cup {e}
          /\ e \in retired' <=> AfterRetire(e)[e] # "failed"
          /\ active[e] # 0 => AfterRetire(e)[e] = "open"
      BY <3>1, Retiring
    <3>4. \A g \in Engines : g # f => status'[g] = AfterRetire(e)[g]
      BY <3>1, <3>3
    <3>5. status'[f] = "opening" /\ status' \in [Engines -> {"unused", "opening", "open", "failed", "closed"}]
      BY <1>2, <3>1, <3>3
    <3>6. Kept(e)
      BY <3>1, <3>2, <3>3, <3>4 DEF Kept
    <3>7. ASSUME NEW g \in Engines, g # f, g # e PROVE Kept(g)
      <4>1. status'[g] = status[g] /\ g # map /\ (g \in retired' <=> g \in retired)
        BY <3>1, <3>3, <3>4, <3>7
      <4> QED  BY <1>1, <3>7, <4>1 DEF Kept, RetiredOnce
    <3> QED  BY <3>2, <3>3, <3>5, <3>6, <3>7
  <2> QED  BY <2>1, <2>2
<1> HIDE DEF f, e
<1>5. EnginesTypeOK'
  BY <1>1, <1>2, <1>3, <1>4 DEF EnginesTypeOK
<1>6. Counted'
  BY <1>1, <1>3, SameUsers DEF EnginesTypeOK, Callers
<1>7. Awaited'
  BY <1>1, <1>2, <1>3, <1>4 DEF Awaited, EnginesTypeOK
<1>8. MapServes'
  BY <1>3, <1>4 DEF MapServes
<1>9. RetiredOnce'
  BY <1>1, <1>2, <1>3, <1>4 DEF RetiredOnce
<1>10. Taken'
  BY <1>1, <1>2, <1>3 DEF Taken, Awaited, EnginesTypeOK, Callers
<1>11. NoStray'
  <2> SUFFICES ASSUME NEW g \in Engines, g # f, status'[g] \in {"opening", "open"}
               PROVE  \/ \E d \in Disposals : pc'[d] = "finding" /\ at'[d] = g
                      \/ g \in retired' /\ active'[g] > 0
    BY <1>3 DEF NoStray
  <2>1. CASE g \in retired' /\ active[g] > 0
    BY <1>3, <2>1
  <2>2. CASE g # map /\ status[g] = status'[g] /\ (g \in retired => g \in retired')
    BY <1>1, <1>3, <2>2 DEF NoStray, EnginesTypeOK
  <2> QED  BY <1>4, <2>1, <2>2
<1> QED  BY <1>5, <1>6, <1>7, <1>8, <1>9, <1>10, <1>11 DEF EnginesInv

\* An opening ends; a failed one leaves the Map, and nobody runs on it.
LEMMA OpenedKeeps ==
  ASSUME EnginesInv, NEW e \in Engines, Opens(e) \/ OpeningFails(e)
  PROVE  EnginesInv'
<1> USE EnginesAssumption
<1>1. EnginesTypeOK /\ Counted /\ Awaited /\ MapServes /\ RetiredOnce /\ Taken /\ NoStray
  BY DEF EnginesInv
<1>2. PICK end \in {"open", "failed"} :
        /\ status[e] = "opening" /\ status' = [status EXCEPT ![e] = end]
        /\ map' = IF end = "failed" /\ map = e THEN None ELSE map
  BY DEF Opens, OpeningFails, Without
<1>3. UNCHANGED <<config, key, active, retired, pc, at, want>>
  BY DEF Opens, OpeningFails, calls
<1>4. EnginesTypeOK'
  BY <1>1, <1>2, <1>3 DEF EnginesTypeOK
<1>5. Counted'
  BY <1>1, <1>3, SameUsers
<1>6. Awaited' /\ Taken'
  BY <1>1, <1>2, <1>3 DEF Awaited, Taken, EnginesTypeOK, Callers
<1>7. MapServes' /\ RetiredOnce'
  BY <1>1, <1>2, <1>3 DEF MapServes, RetiredOnce, EnginesTypeOK
<1>8. NoStray'
  BY <1>1, <1>2, <1>3 DEF NoStray, EnginesTypeOK
<1> QED  BY <1>4, <1>5, <1>6, <1>7, <1>8 DEF EnginesInv
-----------------------------------------------------------------------------
\* A query that begins to run is counted, on an engine that is open.
LEMMA AcquiringKeeps ==
  ASSUME EnginesInv, NEW q \in Queries, Acquire(q)
  PROVE  EnginesInv'
<1> USE EnginesAssumption
<1> DEFINE e == at[q]
<1>1. /\ EnginesTypeOK /\ Counted /\ Awaited /\ MapServes /\ RetiredOnce /\ Taken /\ NoStray
      /\ q \in Callers /\ q \notin Disposals
  BY DEF EnginesInv, Callers, Disposals
<1>2. /\ e \in Engines /\ status[e] = "open" /\ pc[q] = "acquiring"
      /\ active' = [active EXCEPT ![e] = @ + 1]
      /\ pc' = [pc EXCEPT ![q] = "running"] /\ at' = [at EXCEPT ![q] = e]
      /\ UNCHANGED <<config, map, status, key, retired, want>>
  BY <1>1 DEF Acquire, Go, Settled, Awaited, EnginesTypeOK, RetiredOnce
<1> HIDE DEF e
<1>3. \A g \in Engines : Users(g)' = IF g = e THEN Users(g) \cup {q} ELSE Users(g)
  BY <1>1, <1>2 DEF Users, EnginesTypeOK, Callers
<1>4. q \notin Users(e) /\ IsFiniteSet(Users(e))
  BY <1>1, <1>2, Counts DEF Users
<1>5. Cardinality(Users(e) \cup {q}) = Cardinality(Users(e)) + 1
  BY <1>4, FS_AddElement
<1>6. Counted'
  BY <1>1, <1>2, <1>3, <1>5 DEF Counted, EnginesTypeOK
<1>7. active'[e] \in 0..Cardinality(Queries)
  <2>1. Users(e) \cup {q} \subseteq Queries
    BY DEF Users
  <2>2. /\ Cardinality(Users(e) \cup {q}) <= Cardinality(Queries)
        /\ Cardinality(Users(e) \cup {q}) \in Nat /\ Cardinality(Queries) \in Nat
    BY <2>1, FS_Subset, FS_CardinalityType
  <2>3. active'[e] = Cardinality(Users(e) \cup {q})
    BY <1>1, <1>2, <1>5 DEF Counted, EnginesTypeOK
  <2> QED  BY <2>2, <2>3
<1>8. EnginesTypeOK'
  BY <1>1, <1>2, <1>7 DEF EnginesTypeOK
<1>9. Awaited' /\ Taken' /\ MapServes'
  BY <1>1, <1>2 DEF Awaited, Taken, MapServes, EnginesTypeOK
<1>10. RetiredOnce'
  BY <1>1, <1>2 DEF RetiredOnce, EnginesTypeOK
<1>11. active[e] \in Nat /\ active'[e] = active[e] + 1
  BY <1>1, <1>2, FS_CardinalityType DEF EnginesTypeOK
<1>12. NoStray'
  BY <1>1, <1>2, <1>11 DEF NoStray, EnginesTypeOK
<1> QED  BY <1>6, <1>8, <1>9, <1>10, <1>12 DEF EnginesInv

\* The last query of a retired engine closes it.
LEMMA ReleasingKeeps ==
  ASSUME EnginesInv, NEW q \in Queries, Release(q)
  PROVE  EnginesInv'
<1> USE EnginesAssumption
<1> DEFINE e == at[q]
<1>1. /\ EnginesTypeOK /\ Counted /\ Awaited /\ MapServes /\ RetiredOnce /\ Taken /\ NoStray
      /\ q \in Callers /\ q \notin Disposals
  BY DEF EnginesInv, Callers, Disposals
<1>2. /\ e \in Engines /\ pc[q] = "running"
      /\ active' = [active EXCEPT ![e] = @ - 1]
      /\ status' = [status EXCEPT ![e] = IF e \in retired /\ active[e] = 1 THEN "closed" ELSE @]
      /\ pc' = [pc EXCEPT ![q] = "done"] /\ at' = [at EXCEPT ![q] = None]
      /\ UNCHANGED <<config, map, key, retired, want>>
  BY <1>1 DEF Release, Go, Awaited
<1> HIDE DEF e
<1>3. \A g \in Engines : Users(g)' = IF g = e THEN Users(g) \ {q} ELSE Users(g)
  BY <1>1, <1>2 DEF Users, EnginesTypeOK, Callers, e
<1>4. q \in Users(e) /\ IsFiniteSet(Users(e)) /\ active[e] \in 0..Cardinality(Queries)
      /\ active[e] # 0
  BY <1>1, <1>2, Counts DEF Users, e
<1>5. Cardinality(Users(e) \ {q}) = Cardinality(Users(e)) - 1
  BY <1>4, FS_RemoveElement
<1>6. Counted'
  BY <1>1, <1>2, <1>3, <1>5 DEF Counted, EnginesTypeOK
<1>7. Cardinality(Queries) \in Nat
  BY FS_CardinalityType
<1>8. EnginesTypeOK'
  BY <1>1, <1>2, <1>4, <1>7 DEF EnginesTypeOK
<1>9. Awaited' /\ Taken' /\ MapServes'
  BY <1>1, <1>2 DEF Awaited, Taken, MapServes, EnginesTypeOK
<1>10. RetiredOnce'
  BY <1>1, <1>2, <1>4, <1>7 DEF RetiredOnce, EnginesTypeOK
<1>11. NoStray'
  BY <1>1, <1>2, <1>4, <1>7 DEF NoStray, EnginesTypeOK
<1> QED  BY <1>6, <1>8, <1>9, <1>10, <1>11 DEF EnginesInv
-----------------------------------------------------------------------------
\* A disposal takes the Map's engine, and awaits it.
LEMMA DisposingKeeps ==
  ASSUME EnginesInv, NEW d \in Disposals, Dispose(d)
  PROVE  EnginesInv'
<1> USE EnginesAssumption
<1>1. /\ EnginesTypeOK /\ Counted /\ Awaited /\ MapServes /\ RetiredOnce /\ Taken /\ NoStray
      /\ d \in Callers /\ d \notin Queries
  BY DEF EnginesInv, Callers, Disposals
<1>2. /\ pc[d] = "new" /\ map' = None
      /\ pc' = [pc EXCEPT ![d] = IF map = None THEN "done" ELSE "finding"]
      /\ at' = [at EXCEPT ![d] = map]
      /\ UNCHANGED <<config, status, key, active, retired, want>>
  BY DEF Dispose, Go, engines
<1>3. EnginesTypeOK' /\ MapServes' /\ RetiredOnce'
  BY <1>1, <1>2 DEF EnginesTypeOK, MapServes, RetiredOnce
<1>4. Counted'
  BY <1>1, <1>2, SameUsers DEF EnginesTypeOK, Callers
<1>5. Awaited'
  BY <1>1, <1>2 DEF Awaited, MapServes, EnginesTypeOK
<1>6. Taken'
  BY <1>2, <1>5 DEF Taken, Awaited, Callers
<1>7. NoStray'
  <2> SUFFICES ASSUME NEW g \in Engines, status[g] \in {"opening", "open"}
               PROVE  \/ \E c \in Disposals : pc'[c] = "finding" /\ at'[c] = g
                      \/ g \in retired /\ active[g] > 0
    BY <1>2 DEF NoStray
  <2>1. CASE g = map
    BY <1>1, <1>2, <2>1 DEF EnginesTypeOK
  <2>2. CASE g # map
    <3>1. \A c \in Disposals : pc[c] = "finding" => pc'[c] = pc[c] /\ at'[c] = at[c]
      BY <1>1, <1>2 DEF EnginesTypeOK, Callers
    <3> QED  BY <1>1, <2>2, <3>1 DEF NoStray
  <2> QED  BY <2>1, <2>2
<1> QED  BY <1>3, <1>4, <1>5, <1>6, <1>7 DEF EnginesInv

\* The routes' commits touch no engine.
LEMMA CommitsKeep ==
  ASSUME EnginesInv, (\E c \in Configs : Edit(c)) \/ Delete \/ UNCHANGED vars
  PROVE  EnginesInv'
<1>1. EnginesTypeOK /\ Counted /\ Awaited /\ MapServes /\ RetiredOnce /\ Taken /\ NoStray
  BY DEF EnginesInv
<1>2. /\ config' \in Configs \cup {None}
      /\ UNCHANGED <<map, status, key, active, retired, pc, at, want>>
  BY <1>1 DEF Edit, Delete, vars, engines, calls, EnginesTypeOK
<1>3. EnginesTypeOK'
  BY <1>1, <1>2 DEF EnginesTypeOK
<1>4. Counted' /\ Awaited' /\ MapServes'
  BY <1>1, <1>2 DEF Counted, Users, Awaited, MapServes
<1>5. RetiredOnce' /\ Taken' /\ NoStray'
  BY <1>1, <1>2 DEF RetiredOnce, Taken, NoStray
<1> QED  BY <1>3, <1>4, <1>5 DEF EnginesInv

LEMMA EnginesInvKept == EnginesInv /\ [Next]_vars => EnginesInv'
<1> SUFFICES ASSUME EnginesInv, [Next]_vars PROVE EnginesInv'
  OBVIOUS
<1>1. ASSUME NEW q \in Queries,
             \/ RunPlan(q) \/ PrepareFails(q) \/ Find(q) \/ FindsLive(q)
             \/ LooksAgain(q) \/ Throw(q)
      PROVE  EnginesInv'
  BY <1>1, WaitingKeeps
<1>2. ASSUME NEW q \in Queries, TakesRaced(q) PROVE EnginesInv'
  BY <1>2, ReplacingKeeps DEF Callers
<1>3. ASSUME NEW q \in Queries, OpenFirst(q) \/ Reopens(q) PROVE EnginesInv'
  BY <1>3, OpeningKeeps
<1>4. ASSUME NEW d \in Disposals, Dispose(d) \/ DisposeRetires(d) PROVE EnginesInv'
  BY <1>4, DisposingKeeps, ReplacingKeeps DEF Callers
<1> QED
  BY <1>1, <1>2, <1>3, <1>4, OpenedKeeps, AcquiringKeeps, ReleasingKeeps, CommitsKeep
  DEF Next

LEMMA EnginesInvHolds == Spec => []EnginesInv
BY Initially, EnginesInvKept, PTL DEF Spec
-----------------------------------------------------------------------------
\* Type correctness of the engine cache.
THEOREM EnginesTypeCorrect == Spec => []EnginesTypeOK
<1>1. EnginesInv => EnginesTypeOK
  BY DEF EnginesInv
<1> QED  BY <1>1, EnginesInvHolds, PTL

\* No instance is closed under a query that runs on it.
THEOREM InUseStaysOpen == Spec => []InUseIsOpen
<1>1. ASSUME EnginesInv, NEW q \in Queries, pc[q] = "running"
      PROVE  status[at[q]] = "open"
  <2>1. at[q] \in Engines /\ q \in Users(at[q])
    BY <1>1 DEF EnginesInv, Awaited, Callers, Users
  <2>2. active[at[q]] # 0
    BY <1>1, <2>1, Counts DEF EnginesInv
  <2> QED  BY <1>1, <2>1, <2>2 DEF EnginesInv, RetiredOnce
<1>2. EnginesInv => InUseIsOpen
  BY <1>1 DEF InUseIsOpen
<1> QED  BY <1>2, EnginesInvHolds, PTL

\* Every open instance is one that somebody will close.
THEOREM NothingStrays == Spec => []NoStray
<1>1. EnginesInv => NoStray
  BY DEF EnginesInv
<1> QED  BY <1>1, EnginesInvHolds, PTL

\* A retired engine counts no query more.
THEOREM RetiredTakesNoMore == Spec => RetiredTakesNone
<1>1. ASSUME EnginesInv, [Next]_vars, NEW e \in retired PROVE active'[e] <= active[e]
  <2>1. e \in Engines /\ active[e] \in Nat /\ active \in [Engines -> 0..Cardinality(Queries)]
    BY <1>1, EnginesAssumption, FS_CardinalityType DEF EnginesInv, EnginesTypeOK
  <2>2. CASE active' = active
    BY <2>1, <2>2
  <2>3. ASSUME NEW q \in Queries, Acquire(q) PROVE active'[e] <= active[e]
    <3>1. at[q] # e /\ active' = [active EXCEPT ![at[q]] = @ + 1]
      BY <1>1, <2>3 DEF Acquire
    <3> QED  BY <2>1, <3>1
  <2>4. ASSUME NEW q \in Queries, Release(q) PROVE active'[e] <= active[e]
    <3>1. active' = [active EXCEPT ![at[q]] = @ - 1]
      BY <2>4 DEF Release
    <3> QED  BY <2>1, <3>1
  <2>5. \/ active' = active
        \/ \E q \in Queries : Acquire(q) \/ Release(q)
    BY <1>1 DEF Next, vars, engines, RunPlan, PrepareFails, Find, OpenFirst, FindsLive,
       TakesRaced, Reopens, LooksAgain, Throw, Opens, OpeningFails, Edit, Delete,
       Dispose, DisposeRetires
  <2> QED  BY <2>2, <2>3, <2>4, <2>5
<1>2. EnginesInv /\ [Next]_vars => [\A e \in retired : active'[e] <= active[e]]_vars
  BY <1>1
<1> QED  BY <1>2, EnginesInvHolds, PTL DEF Spec, RetiredTakesNone
=============================================================================
