--------------------------- MODULE LiveViewProofs ---------------------------
(***************************************************************************)
(* What a viewer's panels show is what a fresh load would: of one frame,   *)
(* for every result, cursor and budget, then of a stream's frames wherever *)
(* they are when it is lost, resumed or replaced.  And a page away from    *)
(* its stream shows nothing as live.                                       *)
(***************************************************************************)
EXTENDS LiveView, FiniteSetTheorems, WellFoundedInduction, SequenceTheorems, TLAPS

\* A row of a result, by its bucket.
LEMMA RowAt ==
  ASSUME NEW w \in Nat, NEW n \in Nat, NEW v, NEW r
  PROVE  r \in RowsAt(w, n, v) <=>
           /\ r.bucket \in 0..(n \div 2) /\ r.bucket > n \div 2 - w
           /\ r.bucket \notin Gaps
           /\ r = [bucket |-> r.bucket,
                   full |-> r.bucket < n \div 2 \/ n % 2 = 1, of |-> v]
<1> DEFINE B == {x \in 0..(n \div 2) : x > n \div 2 - w /\ x \notin Gaps}
           row(b) == [bucket |-> b, full |-> b < n \div 2 \/ n % 2 = 1, of |-> v]
<1>1. r \in RowsAt(w, n, v) <=> \E b \in B : r = row(b)
  BY DEF RowsAt
<1>2. \A b : row(b).bucket = b
  OBVIOUS
<1>3. r \in RowsAt(w, n, v) <=> r.bucket \in B /\ r = row(r.bucket)
  <2> HIDE DEF B, row
  <2> QED
    BY <1>1, <1>2
<1> QED
  BY <1>3

\* The buckets of a result are finitely many naturals.
LEMMA TimesOfRowsAt ==
  ASSUME NEW w \in Nat, NEW n \in Nat, NEW v
  PROVE  /\ \A b : b \in Times(RowsAt(w, n, v)) <=>
                     b \in 0..(n \div 2) /\ b > n \div 2 - w /\ b \notin Gaps
         /\ IsFiniteSet(Times(RowsAt(w, n, v)))
<1> DEFINE T == Times(RowsAt(w, n, v))
<1>1. \A b : b \in T <=> b \in 0..(n \div 2) /\ b > n \div 2 - w /\ b \notin Gaps
  <2>1. ASSUME NEW b \in T
        PROVE  b \in 0..(n \div 2) /\ b > n \div 2 - w /\ b \notin Gaps
    BY <2>1, RowAt DEF Times
  <2>2. ASSUME NEW b \in 0..(n \div 2), b > n \div 2 - w, b \notin Gaps
        PROVE  b \in T
    <3> DEFINE r == [bucket |-> b, full |-> b < n \div 2 \/ n % 2 = 1, of |-> v]
    <3>1. r.bucket = b
      OBVIOUS
    <3>2. r \in RowsAt(w, n, v)
      BY <2>2 DEF RowsAt
    <3> QED
      BY <3>1, <3>2 DEF Times
  <2> QED
    BY <2>1, <2>2
<1>2. T \subseteq 0..(n \div 2)
  BY <1>1
<1>3. IsFiniteSet(0..(n \div 2))
  BY FS_Interval
<1>4. IsFiniteSet(T)
  BY <1>2, <1>3, FS_Subset
<1> QED
  BY <1>1, <1>4

\* Fewer buckets are newer than a newer one.
LEMMA FewerNewer ==
  ASSUME NEW S \in SUBSET Int, NEW T \in SUBSET Int, IsFiniteSet(T),
         NEW x \in Int, NEW y \in Int, x <= y,
         \A b \in S : b > y => b \in T
  PROVE  Cardinality(Newer(S, y)) <= Cardinality(Newer(T, x))
<1>1. Newer(S, y) \in SUBSET Newer(T, x)
  <2>1. ASSUME NEW b \in S, b > y PROVE b \in T /\ b > x
    <3>1. b \in Int
      OBVIOUS
    <3> QED
      BY <2>1, <3>1
  <2> QED
    BY <2>1 DEF Newer
<1>2. IsFiniteSet(Newer(T, x))
  <2>1. Newer(T, x) \in SUBSET T
    BY DEF Newer
  <2> QED
    BY <2>1, FS_Subset
<1> QED
  BY <1>1, <1>2, FS_Subset

LEMMA NewerIsNat ==
  ASSUME NEW T, IsFiniteSet(T), NEW x
  PROVE  Cardinality(Newer(T, x)) \in Nat
<1>1. Newer(T, x) \in SUBSET T
  BY DEF Newer
<1> QED
  BY <1>1, FS_Subset, FS_CardinalityType

-----------------------------------------------------------------------------
(* The rows a result names                                                   *)

LEMMA LeastOf ==
  ASSUME NEW T \in SUBSET Nat, T # {}
  PROVE  \E x \in T : \A y \in T : x <= y
<1>1. PICK x \in T : \A y \in T : ~(<<y, x>> \in OpToRel(<, Nat))
  BY WFMin, NatLessThanWellFounded
<1>2. ASSUME NEW y \in T PROVE x <= y
  <2>1. ~(y < x)
    BY <1>1 DEF OpToRel
  <2> QED
    BY <2>1
<1> QED
  BY <1>2

LEMMA GreatestOf ==
  ASSUME NEW n \in Nat, NEW T \in SUBSET (0..n), T # {}
  PROVE  \E x \in T : \A y \in T : y <= x
<1> DEFINE D == {n - x : x \in T}
<1>1. D \in SUBSET Nat /\ D # {}
  <2>1. \A x \in T : n - x \in Nat
    OBVIOUS
  <2> QED
    BY <2>1
<1>2. PICK d \in D : \A e \in D : d <= e
  <2> HIDE DEF D
  <2> QED
    BY <1>1, LeastOf
<1>3. PICK x \in T : d = n - x
  OBVIOUS
<1>4. \A y \in T : n - x <= n - y
  BY <1>2, <1>3
<1> QED
  BY <1>4

\* Where a result that has rows begins and ends.
LEMMA EndsOf ==
  ASSUME NEW w \in Nat, NEW n \in Nat, NEW v, RowsAt(w, n, v) # {}
  PROVE  \E o, z \in Times(RowsAt(w, n, v)) :
           /\ \A x \in Times(RowsAt(w, n, v)) : o <= x /\ x <= z
           /\ OldestTime(RowsAt(w, n, v)) = o
           /\ \A c : Advance(RowsAt(w, n, v), c) = IF c # None /\ c > z THEN c ELSE z
<1> DEFINE R == RowsAt(w, n, v)
           T == Times(R)
<1>1. T \in SUBSET (0..(n \div 2)) /\ n \div 2 \in Nat
  BY TimesOfRowsAt
<1>2. T # {}
  BY DEF Times
<1> HIDE DEF T, R
<1>3. PICK o \in T : \A x \in T : o <= x
  <2>1. T \in SUBSET Nat
    BY <1>1
  <2> QED
    BY <1>2, <2>1, LeastOf
<1>4. PICK z \in T : \A x \in T : x <= z
  BY <1>1, <1>2, GreatestOf
<1>5. R # {}
  BY DEF R
<1>6. OldestTime(R) = o
  <2>1. \A b \in T : (\A x \in T : b <= x) => b = o
    BY <1>1, <1>3
  <2> QED
    BY <1>3, <1>5, <2>1 DEF OldestTime, IsOldest, T
<1>7. (CHOOSE b \in Times(R) : IsNewest(b, R)) = z
  <2>1. \A b \in T : (\A x \in T : x <= b) => b = z
    BY <1>1, <1>4
  <2> QED
    BY <1>4, <2>1 DEF IsNewest, T
<1>8. ASSUME NEW c PROVE Advance(R, c) = IF c # None /\ c > z THEN c ELSE z
  <2> DEFINE newest == CHOOSE b \in Times(R) : IsNewest(b, R)
  <2>1. newest = z
    BY <1>7
  <2>2. Advance(R, c) = IF c # None /\ c > newest THEN c ELSE newest
    BY <1>5 DEF Advance
  <2> HIDE DEF newest
  <2> QED
    BY <2>1, <2>2
<1> QED
  BY <1>3, <1>4, <1>6, <1>8 DEF T, R
-----------------------------------------------------------------------------
(* What a browser holds of a version's results below a cursor                *)

FullRow(b, v) == [bucket |-> b, full |-> TRUE, of |-> v]

DataIn(b, c) == {x \in 0..c : x > b /\ x \notin Gaps}

\* H holds what was sent up to the cursor c, of results up to time s: below the
\* cursor it has rows of full buckets only, from its oldest row on all of them,
\* and all of the window's that are within the point budget.
Holds(H, c, s, w, v) ==
  c # None =>
    /\ c \in Nat /\ c <= s \div 2
    /\ \A r \in H : r.bucket \in Nat
    /\ \A r \in H : r.bucket < c => r.bucket \notin Gaps /\ r = FullRow(r.bucket, v)
    /\ \A r \in H : \A x \in r.bucket..c :
         x < c /\ x \notin Gaps => FullRow(x, v) \in H
    /\ \A b \in 0..c :
         /\ b < c /\ b \notin Gaps /\ b > s \div 2 - w
         /\ Cardinality(DataIn(b, c)) < Points
         => FullRow(b, v) \in H

LEMMA DataInFinite ==
  ASSUME NEW b \in Nat, NEW c \in Nat
  PROVE  IsFiniteSet(DataIn(b, c)) /\ Cardinality(DataIn(b, c)) \in Nat
<1>1. DataIn(b, c) \in SUBSET (0..c)
  BY DEF DataIn
<1>2. IsFiniteSet(0..c)
  BY FS_Interval
<1> QED
  BY <1>1, <1>2, FS_Subset, FS_CardinalityType

\* Later results ask for less.
LEMMA HoldsLater ==
  ASSUME NEW H, NEW c, NEW s \in Nat, NEW t \in Nat, s <= t, NEW w \in Nat, NEW v,
         Holds(H, c, s, w, v)
  PROVE  Holds(H, c, t, w, v)
<1>1. s \div 2 \in Nat /\ t \div 2 \in Nat /\ s \div 2 <= t \div 2
  OBVIOUS
<1> DEFINE a == s \div 2
           z == t \div 2
<1>2. a \in Nat /\ z \in Nat /\ a <= z
  BY <1>1
<1> HIDE DEF a, z
<1>3. c # None =>
    /\ c \in Nat /\ c <= a
    /\ \A r \in H : r.bucket \in Nat
    /\ \A r \in H : r.bucket < c => r.bucket \notin Gaps /\ r = FullRow(r.bucket, v)
    /\ \A r \in H : \A x \in r.bucket..c :
         x < c /\ x \notin Gaps => FullRow(x, v) \in H
    /\ \A b \in 0..c :
         /\ b < c /\ b \notin Gaps /\ b > a - w
         /\ Cardinality(DataIn(b, c)) < Points
         => FullRow(b, v) \in H
  BY Zenon DEF Holds, a
<1>4. ASSUME c # None PROVE c <= z
  BY <1>2, <1>3, <1>4
<1>5. ASSUME c # None, NEW b \in 0..c, b > z - w PROVE b > a - w
  BY <1>2, <1>3, <1>5
<1> QED
  BY <1>3, <1>4, <1>5, Zenon DEF Holds, z

\* The budget takes from the old end.
LEMMA FitHolds ==
  ASSUME NEW J, NEW c \in Nat, NEW s \in Nat, NEW w \in Nat, NEW v, Holds(J, c, s, w, v),
         \A r \in J : r.bucket \in 0..c /\ r.bucket \notin Gaps
  PROVE  Holds(Fit(J), c, s, w, v)
<1>1. Times(J) \in SUBSET (0..c) /\ IsFiniteSet(Times(J)) /\ Times(J) \subseteq Int
  <2>1. Times(J) \in SUBSET (0..c)
    BY DEF Times
  <2>2. IsFiniteSet(0..c)
    BY FS_Interval
  <2> QED
    BY <2>1, <2>2, FS_Subset
<1>2. c # None
  BY DeltaAssumption
<1>3. Fit(J) \subseteq J
  BY DEF Fit
<1>4. ASSUME NEW r \in Fit(J), NEW x \in r.bucket..c, x < c, x \notin Gaps
      PROVE  FullRow(x, v) \in Fit(J)
  <2>1. FullRow(x, v) \in J /\ FullRow(x, v).bucket = x
    BY <1>2, <1>3, <1>4 DEF Holds, FullRow
  <2>2. r.bucket \in Nat /\ x \in Nat /\ r.bucket <= x
    BY <1>3, <1>4
  <2>3. Cardinality(Newer(Times(J), x)) <= Cardinality(Newer(Times(J), r.bucket))
    BY <1>1, <2>2, FewerNewer
  <2>4. Cardinality(Newer(Times(J), r.bucket)) < Points
    BY DEF Fit
  <2> QED
    BY <1>1, <2>1, <2>3, <2>4, NewerIsNat, DeltaAssumption DEF Fit
<1>5. ASSUME NEW b \in 0..c, b < c, b \notin Gaps, b > s \div 2 - w,
             Cardinality(DataIn(b, c)) < Points
      PROVE  FullRow(b, v) \in Fit(J)
  <2>1. FullRow(b, v) \in J /\ FullRow(b, v).bucket = b
    BY <1>2, <1>5 DEF Holds, FullRow
  <2>2. Newer(Times(J), b) \in SUBSET DataIn(b, c)
    BY DEF Newer, DataIn, Times
  <2>3. Cardinality(Newer(Times(J), b)) <= Cardinality(DataIn(b, c))
    BY <2>2, DataInFinite, FS_Subset
  <2>4. /\ Cardinality(Newer(Times(J), b)) \in Nat
        /\ Cardinality(DataIn(b, c)) \in Nat
    <3>1. b \in Nat
      OBVIOUS
    <3> QED
      BY <3>1, <1>1, DataInFinite, NewerIsNat
  <2>5. Cardinality(Newer(Times(J), b)) < Points
    BY <1>5, <2>3, <2>4, DeltaAssumption
  <2> QED
    BY <2>1, <2>5 DEF Fit
<1>6. /\ c <= s \div 2
      /\ \A r \in J : r.bucket \in Nat
      /\ \A r \in J : r.bucket < c => r.bucket \notin Gaps /\ r = FullRow(r.bucket, v)
  BY <1>2 DEF Holds
<1> QED
  BY <1>3, <1>4, <1>5, <1>6 DEF Holds
\* What a frame cut at a cursor leaves of the rows held: before the budget, the
\* result's rows from the cursor on and the older ones it has not moved past.
LEMMA MergeOfCut ==
  ASSUME NEW H, NEW R, NEW c \in Nat, NEW o \in Nat,
         R # {}, OldestTime(R) = o, \A r \in R : r.bucket \in Nat /\ r.bucket >= o,
         \A r \in H : r.bucket \in Nat
  PROVE  Merge(H, Cut(R, c)) =
           Fit({r \in R : r.bucket >= c} \cup {r \in H : r.bucket < c /\ r.bucket >= o})
<1>1. c # None /\ o # None
  BY DeltaAssumption
<1>2. Cut(R, c).fresh = Fresh(R, c) /\ Cut(R, c).since = c /\ Cut(R, c).oldest = o
  BY <1>1 DEF Cut
<1>3. {r \in Fresh(R, c) \cup Kept(H, Cut(R, c)) :
         Cut(R, c).oldest = None \/ r.bucket >= Cut(R, c).oldest}
      = {r \in R : r.bucket >= c} \cup {r \in H : r.bucket < c /\ r.bucket >= o}
  BY <1>1, <1>2 DEF Fresh, Kept
<1> QED
  BY <1>2, <1>3, Zenon DEF Merge

LEMMA MergeOfEmpty ==
  ASSUME NEW H, NEW c \in Nat
  PROVE  Merge(H, Cut({}, c)) = Fit({r \in H : r.bucket < c})
<1>1. c # None
  BY DeltaAssumption
<1>2. Cut({}, c).fresh = {} /\ Cut({}, c).since = c /\ Cut({}, c).oldest = None
  BY <1>1 DEF Cut, Fresh, OldestTime
<1>3. {r \in {} \cup Kept(H, Cut({}, c)) :
         Cut({}, c).oldest = None \/ r.bucket >= Cut({}, c).oldest}
      = {r \in H : r.bucket < c}
  BY <1>1, <1>2 DEF Kept
<1> QED
  BY <1>2, <1>3, Zenon DEF Merge

LEMMA MergeOfReplace ==
  ASSUME NEW H, NEW R
  PROVE  Merge(H, Cut(R, None)) = Fit(R)
<1>2. /\ Cut(R, None).fresh = R /\ Cut(R, None).since = None
      /\ Cut(R, None).oldest = None
  BY DEF Cut, Fresh
<1>3. {r \in R \cup Kept(H, Cut(R, None)) :
         Cut(R, None).oldest = None \/ r.bucket >= Cut(R, None).oldest}
      = R
  BY <1>2 DEF Kept
<1> QED
  BY <1>2, <1>3, Zenon DEF Merge

\* A result's rows before its newest are what a browser may hold of it.
LEMMA ResultHolds ==
  ASSUME NEW w \in Nat, NEW n \in Nat, NEW v,
         NEW z \in Times(RowsAt(w, n, v)), IsNewest(z, RowsAt(w, n, v))
  PROVE  /\ Holds(RowsAt(w, n, v), z, n, w, v)
         /\ z \in Nat
         /\ \A r \in RowsAt(w, n, v) : r.bucket \in 0..z /\ r.bucket \notin Gaps
<1> DEFINE R == RowsAt(w, n, v)
           a == n \div 2
<1>1. a \in Nat
  OBVIOUS
<1>2. \A r : r \in R <=>
        /\ r.bucket \in 0..a /\ r.bucket > a - w /\ r.bucket \notin Gaps
        /\ r = [bucket |-> r.bucket, full |-> r.bucket < a \/ n % 2 = 1, of |-> v]
  BY RowAt
<1>3. z \in 0..a /\ z \notin Gaps
  BY TimesOfRowsAt
<1>4. \A r \in R : r.bucket \in Times(R) /\ r.bucket <= z
  BY DEF Times, IsNewest
<1>5. \A r \in R : r.bucket \in 0..z /\ r.bucket \notin Gaps
  BY <1>1, <1>2, <1>3, <1>4
<1> HIDE DEF R, a
<1>6. ASSUME NEW b \in Nat, b < z, b > a - w, b \notin Gaps
      PROVE  FullRow(b, v) \in R
  <2>1. b < a /\ b \in 0..a
    BY <1>1, <1>3, <1>6
  <2>2. FullRow(b, v).bucket = b
    BY DEF FullRow
  <2>3. FullRow(b, v) = [bucket |-> b, full |-> b < a \/ n % 2 = 1, of |-> v]
    BY <2>1 DEF FullRow
  <2> QED
    BY <1>2, <1>6, <2>1, <2>2, <2>3
<1>7. ASSUME NEW r \in R, r.bucket < z PROVE r = FullRow(r.bucket, v)
  <2>1. r.bucket < a
    BY <1>1, <1>3, <1>5, <1>7
  <2> QED
    BY <1>2, <2>1 DEF FullRow
<1>8. ASSUME NEW r \in R, NEW x \in r.bucket..z, x < z, x \notin Gaps
      PROVE  FullRow(x, v) \in R
  <2>1. x \in Nat /\ x > a - w
    BY <1>1, <1>2, <1>5, <1>8
  <2> QED
    BY <1>6, <1>8, <2>1
<1>9. Holds(R, z, n, w, v)
  BY <1>3, <1>5, <1>6, <1>7, <1>8 DEF Holds, a
<1> QED
  BY <1>3, <1>5, <1>9 DEF R

\* Wherever the cursor is and whenever the result ran, a frame leaves rows that
\* the moved cursor describes.
LEMMA MergeHolds ==
  ASSUME NEW H, NEW c, NEW s \in Nat, NEW w \in Nat, NEW v, Holds(H, c, s, w, v),
         NEW n \in Nat, NEW t \in Nat, s <= t, n <= t
  PROVE  Holds(Merge(H, Cut(RowsAt(w, n, v), c)), Advance(RowsAt(w, n, v), c), t, w, v)
<1> DEFINE R == RowsAt(w, n, v)
           a == n \div 2
           e == t \div 2
           d == s \div 2
<1>1. /\ a \in Nat /\ e \in Nat /\ d \in Nat /\ a <= e /\ d <= e
  OBVIOUS
<1>2. CASE R = {}
  <2>1. Advance(R, c) = c
    BY <1>2 DEF Advance
  <2>2. CASE c = None
    BY <2>1, <2>2 DEF Holds
  <2>3. CASE c # None
    <3> DEFINE J == {r \in H : r.bucket < c}
    <3>1. c \in Nat
      BY <2>3 DEF Holds
    <3>2. Holds(H, c, t, w, v)
      BY HoldsLater
    <3>3. \A r \in J : r.bucket \in 0..c /\ r.bucket \notin Gaps
      BY <2>3, <3>1 DEF Holds
    <3>4. Holds(J, c, t, w, v)
      <4>1. \A x : FullRow(x, v).bucket = x
        BY DEF FullRow
      <4>2. \A r \in H : r \in J <=> r.bucket < c
        OBVIOUS
      <4>3. \A x : x < c /\ FullRow(x, v) \in H => FullRow(x, v) \in J
        BY <4>1, <4>2
      <4>4. \A r \in J : r \in H
        OBVIOUS
      <4> HIDE DEF J
      <4> QED
        BY <3>2, <4>3, <4>4 DEF Holds
    <3>5. Holds(Fit(J), c, t, w, v)
      <4> HIDE DEF J
      <4> QED
        BY <3>1, <3>3, <3>4, FitHolds
    <3> QED
      BY <1>2, <2>1, <3>1, <3>5, MergeOfEmpty
  <2> QED
    BY <2>2, <2>3
<1>3. CASE R # {}
  <2>1. PICK o \in Times(R), z \in Times(R) :
          /\ \A x \in Times(R) : o <= x /\ x <= z
          /\ OldestTime(R) = o
          /\ \A b : Advance(R, b) = IF b # None /\ b > z THEN b ELSE z
    BY <1>3, EndsOf
  <2>2. /\ o \in 0..a /\ z \in 0..a /\ o > a - w /\ o <= z
    BY <2>1, TimesOfRowsAt
  <2>3. /\ \A r : r \in R => r.bucket \in 0..z /\ r.bucket >= o /\ r.bucket \notin Gaps
        /\ Holds(R, z, n, w, v)
    <3>1. IsNewest(z, R)
      BY <2>1 DEF IsNewest
    <3>2. \A r \in R : r.bucket \in Times(R)
      BY DEF Times
    <3> QED
      BY <2>1, <3>1, <3>2, ResultHolds
  <2>4. \A b : b \in Times(R) <=> b \in 0..a /\ b > a - w /\ b \notin Gaps
    BY TimesOfRowsAt
  <2>5. CASE c = None
    <3>1. Advance(R, c) = z
      BY <2>1, <2>5
    <3>2. Holds(R, z, t, w, v)
      BY <2>3, HoldsLater
    <3>3. Holds(Fit(R), z, t, w, v)
      <4> HIDE DEF R
      <4> QED
        BY <2>2, <2>3, <3>2, FitHolds
    <3> QED
      BY <2>5, <3>1, <3>3, MergeOfReplace
  <2>6. CASE c # None
    <3> DEFINE J == {r \in R : r.bucket >= c} \cup {r \in H : r.bucket < c /\ r.bucket >= o}
               k == Advance(R, c)
    <3>1. /\ c \in Nat /\ c <= d
          /\ \A r \in H : r.bucket \in Nat
          /\ \A r \in H : r.bucket < c => r.bucket \notin Gaps /\ r = FullRow(r.bucket, v)
          /\ \A r \in H : \A x \in r.bucket..c :
               x < c /\ x \notin Gaps => FullRow(x, v) \in H
          /\ \A b \in 0..c :
               /\ b < c /\ b \notin Gaps /\ b > d - w
               /\ Cardinality(DataIn(b, c)) < Points
               => FullRow(b, v) \in H
      BY <2>6, Zenon DEF Holds
    <3>2. k = IF c > z THEN c ELSE z
      BY <2>1, <2>6
    <3>3. k \in Nat /\ k <= e /\ c <= k /\ z <= k /\ (c < k => k = z)
      BY <1>1, <2>2, <3>1, <3>2
    <3>4. /\ z # None
          /\ \A r \in R : r.bucket < z => r = FullRow(r.bucket, v)
          /\ \A r \in R : \A x \in r.bucket..z :
               x < z /\ x \notin Gaps => FullRow(x, v) \in R
      <4>1. z # None
        BY <2>2, DeltaAssumption
      <4> QED
        BY <2>3, <4>1 DEF Holds
    <3>5. Merge(H, Cut(R, c)) = Fit(J)
      <4>1. \A r \in R : r.bucket \in Nat
        BY <2>3
      <4> HIDE DEF R
      <4>2. o \in Nat
        BY <2>2
      <4> QED
        BY <1>3, <2>1, <2>3, <3>1, <4>1, <4>2, MergeOfCut
    <3>6. \A x : FullRow(x, v).bucket = x
      BY DEF FullRow
    <3>7. \A r : r \in J <=>
            (r \in R /\ r.bucket >= c) \/ (r \in H /\ r.bucket < c /\ r.bucket >= o)
      OBVIOUS
    <3>8. ASSUME NEW x \in Nat, x < z, x > a - w, x \notin Gaps
          PROVE  FullRow(x, v) \in R /\ x >= o
      <4>1. x \in Times(R)
        BY <1>1, <2>2, <2>4, <3>8
      <4>2. PICK r \in R : r.bucket = x
        BY <4>1 DEF Times
      <4> QED
        BY <2>1, <3>4, <3>8, <4>1, <4>2
    <3> HIDE DEF J, k, R, a, d, e
    <3>9. \A r \in J : r.bucket \in 0..k /\ r.bucket \notin Gaps
      BY <2>2, <2>3, <3>1, <3>3, <3>7
    <3>10. ASSUME NEW r \in J, r.bucket < k PROVE r = FullRow(r.bucket, v)
      <4>1. CASE r \in R /\ r.bucket >= c
        <5>1. r.bucket < z
          BY <2>3, <3>1, <3>3, <3>10, <4>1
        <5> QED
          BY <3>4, <4>1, <5>1
      <4>2. CASE r \in H /\ r.bucket < c
        BY <3>1, <4>2
      <4> QED
        BY <3>7, <4>1, <4>2
    <3>11. ASSUME NEW r \in J, NEW x \in r.bucket..k, x < k, x \notin Gaps
           PROVE  FullRow(x, v) \in J
      <4>1. r.bucket \in Nat /\ x \in Nat /\ r.bucket <= x /\ r.bucket >= o
        <5>1. r.bucket \in Nat
          BY <3>9
        <5>2. r.bucket >= o
          BY <2>3, <3>7
        <5> QED
          BY <3>11, <5>1, <5>2
      <4>2. x >= o
        BY <2>2, <4>1
      <4>3. CASE x < c
        <5>1. r \in H /\ x \in r.bucket..c
          BY <3>1, <3>7, <4>1, <4>3
        <5>2. FullRow(x, v) \in H
          BY <3>1, <3>11, <4>3, <5>1
        <5> QED
          BY <3>6, <3>7, <4>2, <4>3, <5>2
      <4>4. CASE x >= c
        <5>1. x < z /\ x > a - w
          BY <1>1, <2>2, <3>1, <3>3, <3>11, <4>1, <4>2, <4>4
        <5>2. FullRow(x, v) \in R
          BY <3>8, <3>11, <4>1, <5>1
        <5> QED
          BY <3>6, <3>7, <4>4, <5>2
      <4> QED
        BY <3>1, <4>1, <4>3, <4>4
    <3>12. ASSUME NEW b \in 0..k, b < k, b \notin Gaps, b > e - w,
                  Cardinality(DataIn(b, k)) < Points
           PROVE  FullRow(b, v) \in J
      <4>1. b \in Nat /\ b > a - w /\ b > d - w
        BY <1>1, <3>3, <3>12
      <4>2. b >= o
        <5>1. CASE b < z
          BY <3>8, <3>12, <4>1, <5>1
        <5> QED
          BY <2>2, <4>1, <5>1
      <4>3. CASE b >= c
        <5>1. b < z
          BY <3>1, <3>3, <3>12, <4>1, <4>3
        <5>2. FullRow(b, v) \in R
          BY <3>8, <3>12, <4>1, <5>1
        <5> QED
          BY <3>6, <3>7, <4>3, <5>2
      <4>4. CASE b < c
        <5>1. DataIn(b, c) \in SUBSET DataIn(b, k)
          BY <3>1, <3>3 DEF DataIn
        <5>2. /\ Cardinality(DataIn(b, c)) <= Cardinality(DataIn(b, k))
              /\ Cardinality(DataIn(b, c)) \in Nat /\ Cardinality(DataIn(b, k)) \in Nat
          BY <3>1, <3>3, <4>1, <5>1, DataInFinite, FS_Subset
        <5>3. Cardinality(DataIn(b, c)) < Points
          BY <3>12, <5>2, DeltaAssumption
        <5>4. b \in 0..c
          BY <3>1, <4>1, <4>4
        <5>5. FullRow(b, v) \in H
          BY <3>1, <3>12, <4>1, <4>4, <5>3, <5>4
        <5> QED
          BY <3>6, <3>7, <4>2, <4>4, <5>5
      <4> QED
        BY <3>1, <4>1, <4>3, <4>4
    <3>13. Holds(J, k, t, w, v)
      <4>1. \A r \in J : r.bucket \in Nat
        BY <3>3, <3>9
      <4>2. \A r \in J : r.bucket < k => r.bucket \notin Gaps /\ r = FullRow(r.bucket, v)
        BY <3>9, <3>10
      <4> QED
        BY <3>3, <3>11, <3>12, <4>1, <4>2, Zenon DEF Holds, e
    <3>14. Holds(Fit(J), k, t, w, v)
      BY <3>3, <3>9, <3>13, FitHolds
    <3> QED
      BY <3>5, <3>14 DEF k, R
  <2> QED
    BY <2>5, <2>6
<1> QED
  BY <1>2, <1>3

\* A result not older than any sent before shows as a fresh load would.
LEMMA MergeShows ==
  ASSUME NEW H, NEW c, NEW s \in Nat, NEW w \in Nat, NEW v, Holds(H, c, s, w, v),
         NEW n \in Nat, s <= n, RowsAt(w, n, v) # {}
  PROVE  Merge(H, Cut(RowsAt(w, n, v), c)) = Fit(RowsAt(w, n, v))
<1> DEFINE R == RowsAt(w, n, v)
           a == n \div 2
           d == s \div 2
<1>1. a \in Nat /\ d \in Nat /\ d <= a
  OBVIOUS
<1>2. CASE c = None
  BY <1>2, MergeOfReplace
<1>3. CASE c # None
  <2>1. PICK o \in Times(R), z \in Times(R) :
          /\ \A x \in Times(R) : o <= x /\ x <= z
          /\ OldestTime(R) = o
    BY EndsOf
  <2>2. o \in 0..a /\ o > a - w
    BY TimesOfRowsAt
  <2>3. \A r \in R : r.bucket \in Times(R) /\ r.bucket \in Nat /\ r.bucket >= o
    <3>1. \A r \in R : r.bucket \in Times(R)
      BY DEF Times
    <3> QED
      BY <2>1, <3>1, TimesOfRowsAt
  <2>4. \A b : b \in Times(R) <=> b \in 0..a /\ b > a - w /\ b \notin Gaps
    BY TimesOfRowsAt
  <2>5. IsFiniteSet(Times(R)) /\ Times(R) \in SUBSET Int
    BY TimesOfRowsAt
  <2>6. \A r \in R : r.bucket < a => r = FullRow(r.bucket, v)
    BY RowAt DEF FullRow
  <2>7. /\ c \in Nat /\ c <= d
        /\ \A r \in H : r.bucket \in Nat
        /\ \A r \in H : r.bucket < c => r.bucket \notin Gaps /\ r = FullRow(r.bucket, v)
        /\ \A r \in H : \A x \in r.bucket..c :
             x < c /\ x \notin Gaps => FullRow(x, v) \in H
        /\ \A b \in 0..c :
             /\ b < c /\ b \notin Gaps /\ b > d - w
             /\ Cardinality(DataIn(b, c)) < Points
             => FullRow(b, v) \in H
    BY <1>3, Zenon DEF Holds
  <2> DEFINE J == {r \in R : r.bucket >= c} \cup {r \in H : r.bucket < c /\ r.bucket >= o}
  <2>8. Merge(H, Cut(R, c)) = Fit(J)
    <3> HIDE DEF R
    <3>1. o \in Nat
      BY <2>2
    <3> QED
      BY <2>1, <2>3, <2>7, <3>1, MergeOfCut DEF R
  <2>9. \A r : r \in J <=>
          (r \in R /\ r.bucket >= c) \/ (r \in H /\ r.bucket < c /\ r.bucket >= o)
    OBVIOUS
  <2>10. \A x : FullRow(x, v).bucket = x
    BY DEF FullRow
  <2> HIDE DEF J, R, a, d
  <2>11. ASSUME NEW r \in J PROVE r \in R
    <3>1. CASE r \in H /\ r.bucket < c /\ r.bucket >= o
      <4>1. r.bucket \in Nat /\ r.bucket \notin Gaps /\ r = FullRow(r.bucket, v)
        BY <2>7, <3>1
      <4>2. r.bucket \in 0..a /\ r.bucket > a - w /\ r.bucket < a
        BY <1>1, <2>2, <2>7, <3>1, <4>1
      <4>3. PICK x \in R : x.bucket = r.bucket
        BY <2>4, <4>1, <4>2 DEF Times
      <4> QED
        BY <2>6, <4>1, <4>2, <4>3
    <3> QED
      BY <2>9, <3>1
  <2>12. ASSUME NEW r \in R, r \notin J
         PROVE  /\ r.bucket < c /\ r = FullRow(r.bucket, v) /\ r \notin H
                /\ ~(Cardinality(Newer(Times(R), r.bucket)) < Points)
    <3>1. r.bucket \in Nat /\ r.bucket >= o /\ r.bucket > a - w /\ r.bucket \notin Gaps
      BY <2>3, <2>4
    <3>2. r.bucket < c
      BY <2>7, <2>9, <2>12, <3>1
    <3>3. r \notin H
      BY <2>9, <2>12, <3>1, <3>2
    <3>4. r = FullRow(r.bucket, v)
      BY <1>1, <2>6, <2>7, <3>1, <3>2
    <3>5. ~(Cardinality(DataIn(r.bucket, c)) < Points)
      <4>1. r.bucket \in 0..c /\ r.bucket > d - w
        BY <1>1, <2>7, <3>1, <3>2
      <4>2. FullRow(r.bucket, v) \notin H
        BY <3>3, <3>4
      <4> QED
        BY <2>7, <3>1, <3>2, <4>1, <4>2
    <3>6. DataIn(r.bucket, c) \in SUBSET Newer(Times(R), r.bucket)
      <4>1. ASSUME NEW x \in 0..c, x > r.bucket, x \notin Gaps PROVE x \in Times(R)
        <5>1. x \in 0..a /\ x > a - w
          BY <1>1, <2>7, <3>1, <4>1
        <5> QED
          BY <2>4, <4>1, <5>1
      <4> QED
        BY <4>1 DEF DataIn, Newer
    <3>7. Newer(Times(R), r.bucket) \in SUBSET Times(R)
      BY DEF Newer
    <3>8. IsFiniteSet(Newer(Times(R), r.bucket))
      BY <2>5, <3>7, FS_Subset
    <3>9. /\ Cardinality(DataIn(r.bucket, c)) <= Cardinality(Newer(Times(R), r.bucket))
          /\ Cardinality(DataIn(r.bucket, c)) \in Nat
          /\ Cardinality(Newer(Times(R), r.bucket)) \in Nat
      BY <2>5, <2>7, <3>1, <3>6, <3>8, FS_Subset, DataInFinite, NewerIsNat
    <3> QED
      BY <3>2, <3>3, <3>4, <3>5, <3>9, DeltaAssumption
  <2>13. IsFiniteSet(Times(J)) /\ Times(J) \in SUBSET Times(R) /\ Times(J) \in SUBSET Int
    <3>1. Times(J) \in SUBSET Times(R)
      BY <2>11 DEF Times
    <3> QED
      BY <2>5, <3>1, FS_Subset
  <2>14. ASSUME NEW r \in Fit(J) PROVE r \in Fit(R)
    <3>1. r \in J /\ r \in R /\ Cardinality(Newer(Times(J), r.bucket)) < Points
      BY <2>11 DEF Fit
    <3>2. ASSUME NEW b \in Times(R), b > r.bucket PROVE b \in Times(J)
      <4>1. PICK x \in R : x.bucket = b
        BY DEF Times
      <4>2. SUFFICES ASSUME x \notin J PROVE FALSE
        BY <4>1 DEF Times
      <4>3. b < c /\ x = FullRow(b, v) /\ x \notin H
        BY <2>12, <4>1, <4>2
      <4>4. b \in Nat /\ r.bucket \in Nat /\ b \notin Gaps
        BY <2>3, <2>4, <3>1, <4>1
      <4>5. r \in H
        BY <2>7, <2>9, <3>1, <3>2, <4>3, <4>4
      <4>6. b \in r.bucket..c
        BY <2>7, <3>2, <4>3, <4>4
      <4> QED
        BY <2>7, <4>3, <4>4, <4>5, <4>6
    <3>3. r.bucket \in Int
      BY <2>3, <3>1
    <3>4. Cardinality(Newer(Times(R), r.bucket)) <= Cardinality(Newer(Times(J), r.bucket))
      BY <2>5, <2>13, <3>2, <3>3, FewerNewer
    <3>5. /\ Cardinality(Newer(Times(R), r.bucket)) \in Nat
          /\ Cardinality(Newer(Times(J), r.bucket)) \in Nat
      BY <2>5, <2>13, NewerIsNat
    <3>6. Cardinality(Newer(Times(R), r.bucket)) < Points
      BY <3>1, <3>4, <3>5, DeltaAssumption
    <3> QED
      BY <3>1, <3>6 DEF Fit
  <2>15. ASSUME NEW r \in Fit(R) PROVE r \in Fit(J)
    <3>1. r \in R /\ Cardinality(Newer(Times(R), r.bucket)) < Points
      BY DEF Fit
    <3>2. r \in J
      BY <2>12, <3>1
    <3>3. r.bucket \in Int
      BY <2>3, <3>1
    <3>4. Cardinality(Newer(Times(J), r.bucket)) <= Cardinality(Newer(Times(R), r.bucket))
      BY <2>5, <2>13, <3>3, FewerNewer
    <3>5. /\ Cardinality(Newer(Times(R), r.bucket)) \in Nat
          /\ Cardinality(Newer(Times(J), r.bucket)) \in Nat
      BY <2>5, <2>13, NewerIsNat
    <3>6. Cardinality(Newer(Times(J), r.bucket)) < Points
      BY <3>1, <3>4, <3>5, DeltaAssumption
    <3> QED
      BY <3>2, <3>6 DEF Fit
  <2>16. Fit(J) = Fit(R)
    BY <2>14, <2>15
  <2> QED
    BY <2>8, <2>16 DEF R
<1> QED
  BY <1>2, <1>3

\* The heart of a stream: what a browser shows after an append is what a fresh
\* load would show.  It holds the newest rows of some result, cut to the point
\* budget; the frame is cut from a result that is not older, at the cursor the
\* first one left, its newest row c.
THEOREM AppendIsFresh ==
  ASSUME NEW w \in Nat, NEW m \in Nat, NEW n \in Nat, m <= n, NEW v,
         NEW c \in Times(RowsAt(w, m, v)), IsNewest(c, RowsAt(w, m, v)),
         RowsAt(w, n, v) # {}
  PROVE  Merge(Fit(RowsAt(w, m, v)), Cut(RowsAt(w, n, v), c)) = Fit(RowsAt(w, n, v))
<1>1. Holds(Fit(RowsAt(w, m, v)), c, m, w, v)
  BY ResultHolds, FitHolds
<1> QED
  BY <1>1, MergeShows
-----------------------------------------------------------------------------
(* A frame from the subscriber to the rows it lands on                       *)

Hands == [Panels -> SUBSET Row]

\* What a frame makes of the rows held.
Landed(H, f) == IF IsError(f) THEN H ELSE [H EXCEPT ![f.panel] = Merge(@, f)]

\* H is what was sent up to the cursors of t, which is a subscriber or an id.
Matches(H, t, snt, w) ==
  \A p \in Panels : Holds(H[p], t.cursors[p], snt[p], w, t.of)

LEMMA NumbersOf ==
  /\ \A e \in Result : e.at \in Nat /\ e.of \in Versions /\ e.of \in Nat
  /\ \A r \in Ranges : r \in Nat
  /\ \A v \in Versions : v \in Nat
  BY LiveViewAssumption DEF Result, Versions

LEMMA RowsTyped ==
  ASSUME NEW w \in Nat, NEW n \in Nat, NEW v \in Nat
  PROVE  RowsAt(w, n, v) \in SUBSET Row
<1> SUFFICES ASSUME NEW r \in RowsAt(w, n, v) PROVE r \in Row
  OBVIOUS
<1>1. /\ r.bucket \in Nat
      /\ r = [bucket |-> r.bucket, full |-> r.bucket < n \div 2 \/ n % 2 = 1, of |-> v]
  BY RowAt
<1> DEFINE b == r.bucket
           f == b < n \div 2 \/ n % 2 = 1
<1>2. b \in Nat /\ f \in BOOLEAN /\ r = [bucket |-> b, full |-> f, of |-> v]
  BY <1>1
<1> HIDE DEF b, f
<1> QED
  BY <1>2 DEF Row

LEMMA MergeTyped ==
  ASSUME NEW H \in SUBSET Row, NEW f, f.fresh \in SUBSET Row
  PROVE  Merge(H, f) \in SUBSET Row
BY DEF Merge, Fit, Kept

LEMMA CursorTyped ==
  ASSUME NEW w \in Nat, NEW n \in Nat, NEW v, NEW c \in Nat \cup {None}
  PROVE  /\ Advance(RowsAt(w, n, v), c) \in Nat \cup {None}
         /\ Cut(RowsAt(w, n, v), c).oldest \in Nat \cup {None}
         /\ Cut(RowsAt(w, n, v), c).since = c
         /\ Cut(RowsAt(w, n, v), c).fresh \in SUBSET RowsAt(w, n, v)
<1> DEFINE R == RowsAt(w, n, v)
<1>1. CASE R = {}
  <2>1. Advance(R, c) = c /\ OldestTime(R) = None
    BY <1>1 DEF Advance, OldestTime
  <2> QED
    BY <2>1 DEF Cut, Fresh
<1>2. CASE R # {}
  <2>1. PICK o \in Times(R), z \in Times(R) :
          /\ OldestTime(R) = o
          /\ \A b : Advance(R, b) = IF b # None /\ b > z THEN b ELSE z
    BY <1>2, EndsOf
  <2>2. o \in Nat /\ z \in Nat
    BY TimesOfRowsAt
  <2> HIDE DEF R
  <2>3. Advance(R, c) \in Nat \cup {None}
    BY <2>1, <2>2
  <2> QED
    BY <2>1, <2>2, <2>3 DEF Cut, Fresh, R
<1> QED
  BY <1>1, <1>2

LEMMA IsErrorOf ==
  /\ \A p, b : IsError([panel |-> p, error |-> b])
  /\ \A p, a, b, c, d :
       ~IsError([panel |-> p, fresh |-> a, since |-> b, oldest |-> c, id |-> d])
  BY DEF IsError

\* deliver, of a result and of an error.
Delivered(s, p, R, d) ==
  /\ d.to \in Subscriber /\ d.to.range = s.range /\ d.to.of = s.of
  /\ d.to.cursors = [s.cursors EXCEPT ![p] = Advance(R, @)]
  /\ d.frame \in Frame /\ ~IsError(d.frame) /\ d.frame.panel = p
  /\ d.frame.id.of = s.of /\ d.frame.id.cursors = d.to.cursors
  /\ d.frame.fresh \in SUBSET Row
  /\ \A H : Merge(H, d.frame) = Merge(H, Cut(R, s.cursors[p]))

LEMMA DeliverResult ==
  ASSUME NEW s \in Subscriber, NEW p \in Panels, NEW event \in Result
  PROVE  Delivered(s, p, RowsOf(s.range, event), Deliver(s, p, event))
<1> DEFINE R == RowsOf(s.range, event)
           answer == Deliver(s, p, event)
           c == s.cursors[p]
           new == [s.cursors EXCEPT ![p] = Advance(R, @)]
           to == [s EXCEPT !.cursors[p] = Advance(R, @)]
           f == Cut(R, c)
           id == [of |-> s.of, cursors |-> to.cursors]
           frame == [panel |-> p, fresh |-> f.fresh, since |-> f.since,
                     oldest |-> f.oldest, id |-> id]
<1>1. /\ s.range \in Nat /\ s.range \in Ranges /\ s.of \in Versions
      /\ event.at \in Nat /\ event.of \in Nat
      /\ s.cursors \in Cursors /\ c \in Nat \cup {None}
  BY NumbersOf DEF Subscriber, Cursors
<1>2. /\ Advance(R, c) \in Nat \cup {None} /\ f.oldest \in Nat \cup {None}
      /\ f.since = c /\ f.fresh \in SUBSET Row
  <2>1. R \in SUBSET Row
    BY <1>1, RowsTyped DEF RowsOf
  <2> QED
    BY <1>1, <2>1, CursorTyped DEF RowsOf
<1>3. event # Error
  BY ValuesAssumption
<1>4. answer = [to |-> to, frame |-> frame]
  BY <1>3 DEF Deliver
<1> HIDE DEF R, f, answer
<1>5. /\ to \in Subscriber /\ to.range = s.range /\ to.of = s.of
      /\ to.cursors = new
  BY <1>1, <1>2 DEF Subscriber, Cursors
<1> HIDE DEF to, new
<1>6. id \in Token /\ id.of = s.of /\ id.cursors = to.cursors
  BY <1>1, <1>5 DEF Token, Subscriber
<1> HIDE DEF id
<1>7. /\ frame \in Frame /\ frame.panel = p /\ frame.id = id /\ frame.fresh = f.fresh
      /\ frame.since = c /\ frame.oldest = f.oldest
  BY <1>1, <1>2, <1>6 DEF Frame
<1>8. ~IsError(frame)
  BY IsErrorOf
<1>9. ASSUME NEW H PROVE Merge(H, frame) = Merge(H, f)
  <2>1. Kept(H, frame) = Kept(H, f)
    BY <1>2, <1>7, Zenon DEF Kept
  <2> QED
    BY <1>2, <1>7, <2>1, Zenon DEF Merge
<1> HIDE DEF frame
<1>10. answer.to = to /\ answer.frame = frame
  BY <1>4
<1> QED
  BY <1>2, <1>5, <1>6, <1>7, <1>8, <1>9, <1>10 DEF R, answer, f, new, Delivered

LEMMA DeliverError ==
  ASSUME NEW s \in Subscriber, NEW p \in Panels
  PROVE  LET d == Deliver(s, p, Error)
         IN d.to = s /\ d.frame \in Frame /\ d.frame.panel = p /\ IsError(d.frame)
<1> DEFINE frame == [panel |-> p, error |-> TRUE]
<1>1. Deliver(s, p, Error) = [to |-> s, frame |-> frame]
  BY DEF Deliver
<1>2. frame \in Frame /\ frame.panel = p /\ IsError(frame)
  BY IsErrorOf DEF Frame
<1> HIDE DEF frame
<1> QED
  BY <1>1, <1>2

LEMMA NewestIs ==
  ASSUME NEW n \in Nat, NEW event \in Result \cup {None, Error}
  PROVE  /\ Newest(n, event) \in Nat /\ n <= Newest(n, event)
         /\ event \in Result => event.at <= Newest(n, event)
         /\ event \in {None, Error} => Newest(n, event) = n
<1>1. CASE event \in Result
  BY <1>1, NumbersOf, ValuesAssumption DEF Newest
<1>2. CASE event \in {None, Error}
  BY <1>2, ValuesAssumption DEF Newest
<1> QED
  BY <1>1, <1>2

\* One delivery: what the browser holds and the subscriber's cursors stay in
\* step, no other panel is touched, and a result not older than what was sent
\* shows as a fresh load would.
InStep(s, p, event, H, snt, d, K, now) ==
  /\ d.to \in Subscriber /\ d.to.range = s.range /\ d.to.of = s.of
  /\ d.frame \in Frame
  /\ K \in Hands /\ now \in [Panels -> Nat] /\ Matches(K, d.to, now, s.range)
  /\ ~IsError(d.frame) => Matches(K, d.frame.id, now, s.range)
  /\ \A x \in Panels \ {p} :
       K[x] = H[x] /\ d.to.cursors[x] = s.cursors[x] /\ now[x] = snt[x]
  /\ event \in Result /\ RowsOf(s.range, event) # {} /\ now[p] = event.at
       => K[p] = Fit(RowsOf(s.range, event))

LEMMA Delivering ==
  ASSUME NEW s \in Subscriber, NEW p \in Panels, NEW H \in Hands,
         NEW snt \in [Panels -> Nat], Matches(H, s, snt, s.range),
         NEW event \in Result \cup {Error}, event \in Result => event.of = s.of
  PROVE  InStep(s, p, event, H, snt, Deliver(s, p, event),
                Landed(H, Deliver(s, p, event).frame),
                [snt EXCEPT ![p] = Newest(@, event)])
<1> DEFINE d == Deliver(s, p, event)
           K == Landed(H, d.frame)
           now == [snt EXCEPT ![p] = Newest(@, event)]
<1>1. /\ now \in [Panels -> Nat] /\ snt[p] \in Nat /\ now[p] = Newest(snt[p], event)
      /\ snt[p] <= now[p]
      /\ event \in Result => event.at <= now[p]
      /\ \A x \in Panels \ {p} : now[x] = snt[x]
  <2>1. snt[p] \in Nat
    OBVIOUS
  <2> QED
    BY <2>1, NewestIs
<1>2. CASE event = Error
  <2>1. d.to = s /\ d.frame \in Frame /\ IsError(d.frame)
    BY <1>2, DeliverError
  <2>2. K = H
    BY <2>1 DEF Landed
  <2>3. now = snt
    <3>1. Newest(snt[p], event) = snt[p]
      BY <1>1, <1>2, NewestIs
    <3> QED
      BY <3>1
  <2>4. event \notin Result
    BY <1>2, ValuesAssumption
  <2> HIDE DEF d, K, now
  <2> QED
    BY <2>1, <2>2, <2>3, <2>4 DEF d, K, now, InStep
<1>3. CASE event \in Result
  <2> DEFINE R == RowsOf(s.range, event)
             c == s.cursors[p]
  <2>1. /\ d.to \in Subscriber /\ d.to.range = s.range /\ d.to.of = s.of
        /\ d.to.cursors = [s.cursors EXCEPT ![p] = Advance(R, @)]
        /\ d.frame \in Frame /\ ~IsError(d.frame) /\ d.frame.panel = p
        /\ d.frame.id.of = s.of /\ d.frame.id.cursors = d.to.cursors
        /\ d.frame.fresh \in SUBSET Row
        /\ \A G : Merge(G, d.frame) = Merge(G, Cut(R, c))
    <3>1. Delivered(s, p, R, d)
      BY <1>3, DeliverResult
    <3> HIDE DEF K, now, d, R
    <3> QED
      BY <3>1 DEF Delivered
  <2>2. s.cursors \in [Panels -> Nat \cup {None}] /\ s.range \in Nat
    BY NumbersOf DEF Subscriber, Cursors
  <2> HIDE DEF d
  <2>3. H \in [Panels -> SUBSET Row]
    BY DEF Hands
  <2>4. /\ K = [H EXCEPT ![p] = Merge(H[p], d.frame)]
        /\ K[p] = Merge(H[p], Cut(R, c))
        /\ \A x \in Panels \ {p} : K[x] = H[x]
        /\ K \in Hands
    <3>1. K = [H EXCEPT ![p] = Merge(H[p], d.frame)]
      BY <2>1, <2>3, Zenon DEF Landed
    <3>2. Merge(H[p], d.frame) \in SUBSET Row
      BY <2>1, <2>3, MergeTyped
    <3> HIDE DEF K
    <3> QED
      BY <2>1, <2>3, <3>1, <3>2 DEF Hands
  <2>5. /\ d.to.cursors[p] = Advance(R, c)
        /\ \A x \in Panels \ {p} : d.to.cursors[x] = s.cursors[x]
    BY <2>1, <2>2
  <2>6. Holds(H[p], c, snt[p], s.range, s.of)
    BY DEF Matches
  <2>7. event.at \in Nat /\ event.of = s.of /\ now[p] \in Nat
    BY <1>1, <1>3, NumbersOf
  <2>11. R = RowsAt(s.range, event.at, s.of)
    BY <2>7 DEF RowsOf
  <2> HIDE DEF K, now, c, R
  <2>8. Holds(K[p], d.to.cursors[p], now[p], s.range, s.of)
    <3>1. Holds(Merge(H[p], Cut(R, c)), Advance(R, c), now[p], s.range, s.of)
      BY <1>1, <1>3, <2>2, <2>6, <2>7, <2>11, MergeHolds
    <3> QED
      BY <2>4, <2>5, <3>1
  <2>9. \A x \in Panels : Holds(K[x], d.to.cursors[x], now[x], s.range, s.of)
    <3> SUFFICES ASSUME NEW x \in Panels, x # p
                 PROVE  Holds(K[x], d.to.cursors[x], now[x], s.range, s.of)
      BY <2>8
    <3>1. Holds(H[x], s.cursors[x], snt[x], s.range, s.of)
      BY DEF Matches
    <3> QED
      BY <1>1, <2>4, <2>5, <3>1
  <2>10. ASSUME R # {}, now[p] = event.at PROVE K[p] = Fit(R)
    BY <1>1, <2>2, <2>4, <2>6, <2>7, <2>10, <2>11, MergeShows
  <2> QED
    BY <1>1, <2>1, <2>4, <2>5, <2>9, <2>10 DEF Matches, d, K, now, R, InStep
<1> QED
  BY <1>2, <1>3
-----------------------------------------------------------------------------
(* The recursive functions of a catch-up and of a batch exist                *)

LEMMA NatInd ==
  ASSUME NEW S, 0 \in S, \A k \in Nat : k \in S => k + 1 \in S
  PROVE  \A k \in Nat : k \in S
<1> DEFINE T == {k \in Nat : k \notin S}
<1> SUFFICES ASSUME T # {} PROVE FALSE
  OBVIOUS
<1>1. PICK k \in T : \A j \in T : k <= j
  BY LeastOf
<1>2. k # 0 /\ k - 1 \in Nat
  OBVIOUS
<1>3. k - 1 \in S
  BY <1>1, <1>2
<1>4. k - 1 + 1 = k
  OBVIOUS
<1> QED
  BY <1>2, <1>3, <1>4

\* a: what the panels show as a batch lands, frame by frame.
Landing(a, frames) ==
  /\ a[0] = [rows |-> rows, live |-> live]
  /\ \A i \in 1..Len(frames) : a[i] = Land(a[i - 1], frames[i])
  /\ Apply(frames) = a[Len(frames)]

LEMMA ApplyIs ==
  ASSUME NEW frames, Len(frames) \in Nat
  PROVE  \E a : Landing(a, frames)
<1> DEFINE start == [rows |-> rows, live |-> live]
           Is(a, k) == a = [i \in 0..k |-> IF i = 0 THEN start
                                           ELSE Land(a[i - 1], frames[i])]
           S == {k \in Nat : \E a : Is(a, k)}
<1>1. 0 \in S
  <2> DEFINE a == [i \in 0..0 |-> start]
  <2>1. Is(a, 0)
    OBVIOUS
  <2> QED
    BY <2>1
<1>2. ASSUME NEW k \in Nat, k \in S PROVE k + 1 \in S
  <2>1. PICK a : Is(a, k)
    BY <1>2
  <2> DEFINE b == [i \in 0..(k + 1) |-> IF i <= k THEN a[i] ELSE Land(a[k], frames[k + 1])]
  <2>2. \A i \in 0..(k + 1) : b[i] = IF i = 0 THEN start ELSE Land(b[i - 1], frames[i])
    <3> SUFFICES ASSUME NEW i \in 0..(k + 1)
                 PROVE  b[i] = IF i = 0 THEN start ELSE Land(b[i - 1], frames[i])
      OBVIOUS
    <3>1. a[0] = start /\ \A j \in 1..k : a[j] = Land(a[j - 1], frames[j])
      BY <2>1
    <3> HIDE DEF start
    <3>2. CASE i = 0
      BY <3>1, <3>2
    <3>3. CASE i \in 1..k
      <4>1. b[i - 1] = a[i - 1] /\ b[i] = a[i] /\ i # 0
        BY <3>3
      <4> QED
        BY <3>1, <3>3, <4>1
    <3>4. CASE i = k + 1
      <4>1. b[i - 1] = a[k] /\ b[i] = Land(a[k], frames[k + 1]) /\ i # 0
        BY <3>4
      <4> QED
        BY <3>4, <4>1
    <3> QED
      BY <3>2, <3>3, <3>4
  <2>3. Is(b, k + 1)
    <3> HIDE DEF start
    <3>1. b = [i \in 0..(k + 1) |-> b[i]]
      OBVIOUS
    <3> HIDE DEF b
    <3> QED
      BY <2>2, <3>1
  <2> HIDE DEF Is, b
  <2> QED
    BY <2>3
<1>3. \A k \in Nat : k \in S
  <2> HIDE DEF S
  <2> QED
    BY <1>1, <1>2, NatInd
<1> DEFINE n == Len(frames)
           land == CHOOSE a : Is(a, n)
<1>4. Is(land, n)
  <2>1. \E a : Is(a, n)
    BY <1>3
  <2> HIDE DEF Is
  <2> QED
    BY <2>1
<1>5. Apply(frames) = land[n]
  BY DEF Apply
<1>6. land[0] = start /\ \A i \in 1..n : land[i] = Land(land[i - 1], frames[i])
  <2> HIDE DEF land, start
  <2> QED
    BY <1>4
<1> QED
  BY <1>5, <1>6 DEF Landing

\* One more panel of a catch-up.
Join(prev, p, event) ==
  LET d == Deliver(prev.to, p, event)
  IN IF event = None THEN prev
     ELSE [to |-> d.to, wire |-> Append(prev.wire, d.frame)]

\* a: what has joined of a catch-up, panel by panel.
Joining(a, s, q, order) ==
  /\ a[0] = [to |-> s, wire |-> <<>>]
  /\ \A i \in 1..Len(order) : a[i] = Join(a[i - 1], order[i], latest[q][order[i]])
  /\ CatchUp(s, q, order) = a[Len(order)]

LEMMA CatchUpIs ==
  ASSUME NEW s, NEW q, NEW order, Len(order) \in Nat
  PROVE  \E a : Joining(a, s, q, order)
<1> DEFINE start == [to |-> s, wire |-> <<>>]
           next(prev, i) == Join(prev, order[i], latest[q][order[i]])
           Is(a, k) == a = [i \in 0..k |-> IF i = 0 THEN start ELSE next(a[i - 1], i)]
           S == {k \in Nat : \E a : Is(a, k)}
<1>1. 0 \in S
  <2> DEFINE a == [i \in 0..0 |-> start]
  <2>1. Is(a, 0)
    OBVIOUS
  <2> QED
    BY <2>1
<1>2. ASSUME NEW k \in Nat, k \in S PROVE k + 1 \in S
  <2>1. PICK a : Is(a, k)
    BY <1>2
  <2> DEFINE b == [i \in 0..(k + 1) |-> IF i <= k THEN a[i] ELSE next(a[k], k + 1)]
  <2> HIDE DEF start, next
  <2>2. \A i \in 0..(k + 1) : b[i] = IF i = 0 THEN start ELSE next(b[i - 1], i)
    <3> SUFFICES ASSUME NEW i \in 0..(k + 1)
                 PROVE  b[i] = IF i = 0 THEN start ELSE next(b[i - 1], i)
      OBVIOUS
    <3>1. a[0] = start /\ \A j \in 1..k : a[j] = next(a[j - 1], j)
      BY <2>1
    <3>2. CASE i = 0
      BY <3>1, <3>2
    <3>3. CASE i \in 1..k
      <4>1. b[i - 1] = a[i - 1] /\ b[i] = a[i] /\ i # 0
        BY <3>3
      <4> QED
        BY <3>1, <3>3, <4>1
    <3>4. CASE i = k + 1
      <4>1. b[i - 1] = a[k] /\ b[i] = next(a[k], k + 1) /\ i # 0
        BY <3>4
      <4> QED
        BY <3>4, <4>1
    <3> QED
      BY <3>2, <3>3, <3>4
  <2>3. Is(b, k + 1)
    <3>1. b = [i \in 0..(k + 1) |-> b[i]]
      OBVIOUS
    <3> HIDE DEF b
    <3> QED
      BY <2>2, <3>1
  <2> HIDE DEF Is, b
  <2> QED
    BY <2>3
<1>3. \A k \in Nat : k \in S
  <2> HIDE DEF S
  <2> QED
    BY <1>1, <1>2, NatInd
<1> DEFINE n == Len(order)
           joined == CHOOSE a : Is(a, n)
<1>4. Is(joined, n)
  <2>1. \E a : Is(a, n)
    BY <1>3
  <2> HIDE DEF Is
  <2> QED
    BY <2>1
<1>5. CatchUp(s, q, order) = joined[n]
  BY Zenon DEF CatchUp, Join
<1>6. joined[0] = start /\ \A i \in 1..n : joined[i] = next(joined[i - 1], i)
  <2> HIDE DEF joined, start, next
  <2> QED
    BY <1>4
<1> QED
  BY <1>5, <1>6 DEF Joining
-----------------------------------------------------------------------------
(* The frames under way, and what they will make of the rows                 *)

\* h: what the rows H become as the frames of q land, one after the other; the
\* id of each frame describes what the browser holds once it has landed.
Line(h, q, H, snt, w) ==
  /\ h \in [Nat -> Hands] /\ h[0] = H
  /\ \A i \in 1..Len(q) :
       /\ h[i] = Landed(h[i - 1], q[i])
       /\ ~IsError(q[i]) => Matches(h[i], q[i].id, snt, w)

LEMMA MatchesLater ==
  ASSUME NEW H, NEW t, NEW w \in Nat, NEW snt \in [Panels -> Nat], NEW now \in [Panels -> Nat],
         \A p \in Panels : snt[p] <= now[p], Matches(H, t, snt, w)
  PROVE  Matches(H, t, now, w)
<1> SUFFICES ASSUME NEW p \in Panels PROVE Holds(H[p], t.cursors[p], now[p], w, t.of)
  BY DEF Matches
<1>1. Holds(H[p], t.cursors[p], snt[p], w, t.of)
  BY DEF Matches
<1>2. snt[p] \in Nat /\ now[p] \in Nat /\ snt[p] <= now[p]
  OBVIOUS
<1> QED
  BY <1>1, <1>2, HoldsLater

LEMMA LineLater ==
  ASSUME NEW h, NEW q, NEW H, NEW w \in Nat, NEW snt \in [Panels -> Nat],
         NEW now \in [Panels -> Nat], \A p \in Panels : snt[p] <= now[p],
         Line(h, q, H, snt, w)
  PROVE  Line(h, q, H, now, w)
BY MatchesLater DEF Line

\* The line h, longer by the frame f, which makes the rows K.
Longer(h, q, f, H, K, now, w) ==
  \E g : /\ Line(g, Append(q, f), H, now, w)
         /\ g[Len(q) + 1] = K
         /\ \A i \in 0..Len(q) : g[i] = h[i]

LEMMA LineGrows ==
  ASSUME NEW q \in Seq(Frame), NEW f \in Frame, NEW h, NEW H, NEW w \in Nat,
         NEW snt \in [Panels -> Nat], NEW now \in [Panels -> Nat],
         \A p \in Panels : snt[p] <= now[p], Line(h, q, H, snt, w),
         NEW K \in Hands, K = Landed(h[Len(q)], f), ~IsError(f) => Matches(K, f.id, now, w)
  PROVE  Longer(h, q, f, H, K, now, w)
<1> DEFINE n == Len(q)
           g == [h EXCEPT ![n + 1] = K]
           r == Append(q, f)
<1>1. n \in Nat /\ Len(r) = n + 1 /\ r[n + 1] = f /\ \A i \in 1..n : r[i] = q[i]
  BY AppendProperties, LenProperties
<1>2. Line(h, q, H, now, w)
  BY LineLater
<1>3. h \in [Nat -> Hands] /\ h[0] = H
  BY DEF Line
<1>4. g \in [Nat -> Hands] /\ g[n + 1] = K /\ \A i \in 0..n : g[i] = h[i]
  BY <1>1, <1>3
<1> HIDE DEF g, r
<1>5. ASSUME NEW i \in 1..(n + 1)
      PROVE  /\ g[i] = Landed(g[i - 1], r[i])
             /\ ~IsError(r[i]) => Matches(g[i], r[i].id, now, w)
  <2>1. CASE i \in 1..n
    <3>1. /\ h[i] = Landed(h[i - 1], q[i])
          /\ ~IsError(q[i]) => Matches(h[i], q[i].id, now, w)
      BY <1>2, <2>1 DEF Line
    <3>2. g[i] = h[i] /\ g[i - 1] = h[i - 1] /\ r[i] = q[i]
      BY <1>1, <1>4, <2>1
    <3> QED
      BY <3>1, <3>2
  <2>2. CASE i = n + 1
    <3>1. g[i] = K /\ g[i - 1] = h[n] /\ r[i] = f
      BY <1>1, <1>4, <2>2
    <3> QED
      BY <3>1
  <2> QED
    BY <1>1, <2>1, <2>2
<1>6. Line(g, r, H, now, w)
  <2>1. g[0] = H
    BY <1>1, <1>3, <1>4
  <2> QED
    BY <1>1, <1>4, <1>5, <2>1 DEF Line
<1> QED
  BY <1>4, <1>6 DEF r, Longer

\* The order of a catch-up names every panel once.
LEMMA OrderCovers ==
  ASSUME NEW order \in SetToSeqs(Panels)
  PROVE  /\ Len(order) \in Nat
         /\ \A i \in 1..Len(order) : order[i] \in Panels
         /\ \A i, j \in 1..Len(order) : i # j => order[i] # order[j]
         /\ \A p \in Panels : \E i \in 1..Len(order) : order[i] = p
<1> DEFINE n == Cardinality(Panels)
<1>1. n \in Nat /\ IsFiniteSet(Panels)
  BY LiveViewAssumption, FS_CardinalityType
<1>2. order \in [1..n -> Panels] /\ \A i, j \in 1..n : i # j => order[i] # order[j]
  BY DEF SetToSeqs
<1>3. Len(order) = n
  BY <1>1, <1>2, IsASeq, LenProperties
<1>4. ASSUME NEW p \in Panels, \A i \in 1..n : order[i] # p PROVE FALSE
  <2> DEFINE T == Panels \ {p}
  <2>1. IsFiniteSet(T) /\ Cardinality(T) = n - 1
    BY <1>1, FS_RemoveElement
  <2>2. order \in [1..n -> T]
    BY <1>2, <1>4
  <2>3. IsFiniteSet(1..n) /\ Cardinality(1..n) = n
    BY <1>1, FS_Interval
  <2>4. \E i, j \in 1..n : i # j /\ order[i] = order[j]
    <3> HIDE DEF T
    <3>1. Cardinality(T) < Cardinality(1..n)
      BY <1>1, <2>1, <2>3
    <3> QED
      BY <2>1, <2>2, <2>3, <3>1, FS_PigeonHole
  <2> QED
    BY <1>2, <2>4
<1> QED
  BY <1>1, <1>2, <1>3, <1>4

\* Shown of a panel whose last event is event, if nothing newer was sent.
Shown(R, event, time, w) ==
  event \in Result /\ RowsOf(w, event) # {} /\ time = event.at => R = Fit(RowsOf(w, event))

\* A stream's frames and its subscriber: once all has landed, the browser holds
\* what the cursors say, and shows what was sent last.
Feeds(h, q, H, t, events, snt, w) ==
  /\ Line(h, q, H, snt, w)
  /\ Matches(h[Len(q)], t, snt, w)
  /\ \A p \in Panels : Shown(h[Len(q)][p], events[p], snt[p], w)

\* What one more frame adds to a feed.
Grown(s, p, event, q, h, H, events, d, now) ==
  /\ d.to \in Subscriber /\ d.to.range = s.range /\ d.to.of = s.of
  /\ d.frame \in Frame /\ now \in [Panels -> Nat]
  /\ \E g : /\ Line(g, Append(q, d.frame), H, now, s.range)
            /\ Matches(g[Len(q) + 1], d.to, now, s.range)
            /\ Shown(g[Len(q) + 1][p], event, now[p], s.range)
            /\ \A x \in Panels \ {p} :
                 Shown(g[Len(q) + 1][x], events[x], now[x], s.range)
            /\ \A i \in 0..Len(q) : g[i] = h[i]

LEMMA FeedGrows ==
  ASSUME NEW s \in Subscriber, NEW p \in Panels, NEW event \in Result \cup {Error},
         event \in Result => event.of = s.of,
         NEW snt \in [Panels -> Nat], NEW q \in Seq(Frame), NEW h, NEW H,
         NEW events, Feeds(h, q, H, s, events, snt, s.range)
  PROVE  Grown(s, p, event, q, h, H, events, Deliver(s, p, event),
               [snt EXCEPT ![p] = Newest(@, event)])
<1> DEFINE d == Deliver(s, p, event)
           G == h[Len(q)]
           K == Landed(G, d.frame)
           now == [snt EXCEPT ![p] = Newest(@, event)]
<1>1. /\ Line(h, q, H, snt, s.range) /\ Matches(G, s, snt, s.range)
      /\ \A x \in Panels : Shown(G[x], events[x], snt[x], s.range)
  BY DEF Feeds
<1>2. Len(q) \in Nat /\ G \in Hands /\ s.range \in Nat
  <2>1. h \in [Nat -> Hands]
    BY <1>1 DEF Line
  <2> QED
    BY <2>1, NumbersOf, LenProperties DEF Subscriber
<1> HIDE DEF G
<1>3. InStep(s, p, event, G, snt, d, K, now)
  BY <1>1, <1>2, Delivering
<1>8. K = Landed(h[Len(q)], d.frame)
  BY DEF G
<1>4. \A x \in Panels : snt[x] <= now[x]
  <2>1. snt[p] <= now[p]
    BY NewestIs
  <2> HIDE DEF now, d, K
  <2> QED
    BY <1>3, <2>1 DEF InStep
<1> HIDE DEF d, K, now
<1>9. /\ d.to \in Subscriber /\ d.to.range = s.range /\ d.to.of = s.of
      /\ d.frame \in Frame /\ K \in Hands /\ now \in [Panels -> Nat]
      /\ Matches(K, d.to, now, s.range)
      /\ ~IsError(d.frame) => Matches(K, d.frame.id, now, s.range)
  BY <1>3 DEF InStep
<1>10. Longer(h, q, d.frame, H, K, now, s.range)
  BY <1>1, <1>2, <1>4, <1>8, <1>9, LineGrows
<1>5. PICK g : /\ Line(g, Append(q, d.frame), H, now, s.range)
               /\ g[Len(q) + 1] = K
               /\ \A i \in 0..Len(q) : g[i] = h[i]
  BY <1>10 DEF Longer
<1>6. Shown(K[p], event, now[p], s.range)
  BY <1>3 DEF Shown, InStep
<1>7. \A x \in Panels \ {p} : Shown(K[x], events[x], now[x], s.range)
  BY <1>1, <1>3 DEF InStep
<1> QED
  BY <1>5, <1>6, <1>7, <1>9 DEF d, now, Grown

\* What a subscriber is sent when it joins.
LEMMA CatchingUp ==
  ASSUME NEW s \in Subscriber, NEW q, NEW order \in SetToSeqs(Panels),
         latest[q] \in [Panels -> Result \cup {None, Error}],
         \A p \in Panels : latest[q][p] \in Result => latest[q][p].of = s.of,
         NEW snt \in [Panels -> Nat], NEW H \in Hands, Matches(H, s, snt, s.range)
  PROVE  LET joined == CatchUp(s, q, order)
             now == [p \in Panels |-> Newest(snt[p], latest[q][p])]
         IN /\ joined.to \in Subscriber /\ joined.to.range = s.range /\ joined.to.of = s.of
            /\ joined.wire \in Seq(Frame) /\ now \in [Panels -> Nat]
            /\ \E h : Feeds(h, joined.wire, H, joined.to, latest[q], now, s.range)
<1> DEFINE n == Len(order)
           events == latest[q]
           done(k) == {order[i] : i \in 1..k}
           seen(k) == [p \in Panels |-> IF p \in done(k) THEN events[p] ELSE None]
           now(k) == [p \in Panels |-> IF p \in done(k) THEN Newest(snt[p], events[p]) ELSE snt[p]]
<1>1. /\ n \in Nat
      /\ \A i \in 1..n : order[i] \in Panels
      /\ \A i, j \in 1..n : i # j => order[i] # order[j]
      /\ \A p \in Panels : \E i \in 1..n : order[i] = p
  BY OrderCovers
<1>7. PICK a : Joining(a, s, q, order)
  BY <1>1, CatchUpIs
<1>2. /\ a[0] = [to |-> s, wire |-> <<>>]
      /\ \A i \in 1..n : a[i] = Join(a[i - 1], order[i], events[order[i]])
      /\ CatchUp(s, q, order) = a[n]
  BY <1>7 DEF Joining
<1> DEFINE Good(k) ==
             /\ a[k].to \in Subscriber /\ a[k].to.range = s.range /\ a[k].to.of = s.of
             /\ a[k].wire \in Seq(Frame) /\ now(k) \in [Panels -> Nat]
             /\ \E h : Feeds(h, a[k].wire, H, a[k].to, seen(k), now(k), s.range)
           S == {k \in Nat : k <= n => Good(k)}
<1> HIDE DEF n, events
<1>3. 0 \in S
  <2>1. a[0].to = s /\ a[0].wire = <<>>
    BY <1>2
  <2>2. now(0) = snt /\ \A p \in Panels : seen(0)[p] = None
    <3>1. done(0) = {}
      OBVIOUS
    <3> HIDE DEF done
    <3> QED
      BY <3>1
  <2> DEFINE h == [i \in Nat |-> H]
  <2>3. <<>> \in Seq(Frame) /\ Len(<<>>) = 0
    OBVIOUS
  <2> HIDE DEF now, seen
  <2>4. Feeds(h, <<>>, H, s, seen(0), snt, s.range)
    <3>1. \A p \in Panels : Shown(h[0][p], None, snt[p], s.range)
      BY ValuesAssumption DEF Shown
    <3>2. h \in [Nat -> Hands] /\ h[0] = H
      OBVIOUS
    <3> HIDE DEF h
    <3> QED
      BY <2>2, <2>3, <3>1, <3>2 DEF Feeds, Line
  <2>5. Good(0)
    BY <2>1, <2>2, <2>3, <2>4
  <2> HIDE DEF Good
  <2> QED
    BY <2>5
<1>4. ASSUME NEW k \in Nat, k \in S PROVE k + 1 \in S
  <2>9. Good(k) \/ ~(k + 1 <= n)
    <3> HIDE DEF Good
    <3> QED
      BY <1>1, <1>4
  <2>10. SUFFICES ASSUME k + 1 <= n PROVE Good(k + 1)
    <3> HIDE DEF Good
    <3> QED
      BY <2>10
  <2> DEFINE p == order[k + 1]
             event == events[p]
             t == a[k].to
             r == a[k].wire
  <2>1. Good(k)
    <3> HIDE DEF Good
    <3> QED
      BY <2>9, <2>10
  <2>2. /\ p \in Panels /\ p \notin done(k)
        /\ \A x : x \in done(k + 1) <=> x \in done(k) \/ x = p
    <3>1. k + 1 \in 1..n /\ \A i \in 1..k : i \in 1..n /\ i # k + 1
      BY <1>1, <2>10
    <3>2. \A i : i \in 1..(k + 1) <=> i \in 1..k \/ i = k + 1
      OBVIOUS
    <3> QED
      BY <1>1, <3>1, <3>2
  <2>3. a[k + 1] = Join(a[k], p, event)
    <3>1. k + 1 \in 1..n /\ k + 1 - 1 = k
      BY <1>1, <2>10
    <3> QED
      BY <1>2, <3>1
  <2>4. event \in Result \cup {None, Error} /\ (event \in Result => event.of = s.of)
    BY <2>2 DEF events
  <2>5. /\ now(k + 1) = [now(k) EXCEPT ![p] = Newest(@, event)]
        /\ seen(k + 1) = [seen(k) EXCEPT ![p] = event]
    <3> HIDE DEF done, p
    <3> QED
      BY <2>2
  <2>6. CASE event = None
    <3>1. a[k + 1] = a[k]
      BY <2>3, <2>6 DEF Join
    <3>2. now(k + 1) = now(k)
      <4>1. snt[p] \in Nat /\ Newest(snt[p], event) = snt[p]
        BY <2>2, <2>6, NewestIs
      <4>2. now(k)[p] = snt[p]
        BY <2>2
      <4>3. now(k) \in [Panels -> Nat]
        BY <2>1
      <4>4. now(k + 1) = [now(k) EXCEPT ![p] = snt[p]]
        <5> HIDE DEF now, event, p
        <5> QED
          BY <2>5, <4>1, <4>2
      <4> HIDE DEF now, event, p
      <4> QED
        BY <4>2, <4>3, <4>4
    <3>3. seen(k + 1) = seen(k)
      <4>1. seen(k)[p] = None
        BY <2>2
      <4>2. DOMAIN seen(k) = Panels /\ seen(k) = [x \in DOMAIN seen(k) |-> seen(k)[x]]
        OBVIOUS
      <4> HIDE DEF seen, p, event
      <4> QED
        BY <2>2, <2>5, <2>6, <4>1, <4>2
    <3> HIDE DEF now, seen
    <3> QED
      BY <2>1, <3>1, <3>2, <3>3
  <2>7. CASE event # None
    <3> DEFINE d == Deliver(t, p, event)
    <3>1. a[k + 1] = [to |-> d.to, wire |-> Append(r, d.frame)]
      BY <2>3, <2>7 DEF Join
    <3>2. t \in Subscriber /\ t.range = s.range /\ t.of = s.of /\ r \in Seq(Frame)
          /\ now(k) \in [Panels -> Nat]
      BY <2>1
    <3>3. PICK h : Feeds(h, r, H, t, seen(k), now(k), t.range)
      BY <2>1
    <3>4. event \in Result \cup {Error}
      BY <2>4, <2>7
    <3>5. seen(k + 1)[p] = event /\ \A x \in Panels \ {p} : seen(k + 1)[x] = seen(k)[x]
      <4> HIDE DEF done, p
      <4> QED
        BY <2>2
    <3> HIDE DEF now, seen, t, r, p, event
    <3> DEFINE then == [now(k) EXCEPT ![p] = Newest(@, event)]
    <3>12. Grown(t, p, event, r, h, H, seen(k), d, then)
      BY <2>2, <2>4, <3>2, <3>3, <3>4, FeedGrows
    <3> HIDE DEF d, then
    <3>6. /\ d.to \in Subscriber /\ d.to.range = t.range /\ d.to.of = t.of
          /\ d.frame \in Frame /\ then \in [Panels -> Nat]
      BY <3>12 DEF Grown
    <3>7. PICK g : /\ Line(g, Append(r, d.frame), H, then, t.range)
                   /\ Matches(g[Len(r) + 1], d.to, then, t.range)
                   /\ Shown(g[Len(r) + 1][p], event, then[p], t.range)
                   /\ \A x \in Panels \ {p} :
                        Shown(g[Len(r) + 1][x], seen(k)[x], then[x], t.range)
      BY <3>12, Zenon DEF Grown
    <3>8. Append(r, d.frame) \in Seq(Frame) /\ Len(Append(r, d.frame)) = Len(r) + 1
      BY <3>2, <3>6, AppendProperties
    <3>9. a[k + 1].to = d.to /\ a[k + 1].wire = Append(r, d.frame)
      BY <3>1
    <3>10. now(k + 1) = then
      BY <2>5 DEF then
    <3>11. Feeds(g, Append(r, d.frame), H, d.to, seen(k + 1), then, s.range)
      BY <3>2, <3>5, <3>7, <3>8 DEF Feeds
    <3> QED
      BY <3>2, <3>6, <3>8, <3>9, <3>10, <3>11
  <2> QED
    BY <2>6, <2>7
<1>5. Good(n)
  <2>1. \A k \in Nat : k \in S
    <3> HIDE DEF S
    <3> QED
      BY <1>3, <1>4, NatInd
  <2> HIDE DEF Good
  <2> QED
    BY <1>1, <2>1
<1>6. now(n) = [p \in Panels |-> Newest(snt[p], events[p])] /\ seen(n) = events
  <2>1. \A p \in Panels : p \in done(n)
    BY <1>1
  <2>2. events = [p \in Panels |-> events[p]]
    BY DEF events
  <2> HIDE DEF done
  <2> QED
    BY <2>1, <2>2
<1> HIDE DEF now, seen
<1> QED
  BY <1>2, <1>5, <1>6 DEF events
-----------------------------------------------------------------------------
(* The batch a page applies                                                  *)

LEMMA FrameParts ==
  ASSUME NEW f \in Frame
  PROVE  /\ f.panel \in Panels
         /\ ~IsError(f) => f.fresh \in SUBSET Row /\ f.id \in Token
<1>1. CASE f \in [panel : Panels, error : BOOLEAN]
  <2>1. f = [panel |-> f.panel, error |-> f.error]
    BY <1>1
  <2>2. IsError(f)
    BY <2>1, IsErrorOf
  <2> QED
    BY <1>1, <2>2
<1>2. CASE f \in [panel : Panels, fresh : SUBSET Row, since : Nat \cup {None},
                  oldest : Nat \cup {None}, id : Token]
  BY <1>2
<1> QED
  BY <1>1, <1>2 DEF Frame

LEMMA LandedTyped ==
  ASSUME NEW H \in Hands, NEW f \in Frame
  PROVE  Landed(H, f) \in Hands
<1>1. CASE IsError(f)
  BY <1>1 DEF Landed
<1>2. CASE ~IsError(f)
  <2>1. f.panel \in Panels /\ H \in [Panels -> SUBSET Row]
    BY FrameParts DEF Hands
  <2>2. Merge(H[f.panel], f) \in SUBSET Row
    BY <1>2, <2>1, FrameParts, MergeTyped
  <2>3. Landed(H, f) = [H EXCEPT ![f.panel] = Merge(H[f.panel], f)]
    BY <1>2 DEF Landed
  <2> QED
    BY <2>1, <2>2, <2>3 DEF Hands
<1> QED
  BY <1>1, <1>2

Screens == [rows : Hands, live : SUBSET Panels]

LEMMA LandTyped ==
  ASSUME NEW s \in Screens, NEW f \in Frame
  PROVE  Land(s, f) \in Screens /\ Land(s, f).rows = Landed(s.rows, f)
<1>1. CASE IsError(f)
  <2> DEFINE gone == s.live \ {f.panel}
             t == [s EXCEPT !.live = s.live \ {f.panel}]
  <2>1. t \in Screens /\ t.rows = s.rows
    BY DEF Screens
  <2>2. Land(s, f) = t
    BY <1>1, Zenon DEF Land
  <2>3. Landed(s.rows, f) = s.rows
    BY <1>1 DEF Landed
  <2> HIDE DEF t
  <2> QED
    BY <2>1, <2>2, <2>3
<1>2. CASE ~IsError(f)
  <2> DEFINE r == Landed(s.rows, f)
             l == s.live \cup {f.panel}
  <2>1. Land(s, f) = [rows |-> r, live |-> l]
    BY <1>2, Zenon DEF Land, Landed
  <2>2. r \in Hands /\ l \in SUBSET Panels
    BY LandedTyped, FrameParts DEF Screens
  <2> HIDE DEF r, l
  <2>3. Land(s, f) \in Screens /\ Land(s, f).rows = r
    BY <2>1, <2>2 DEF Screens
  <2> QED
    BY <2>3 DEF r
<1> QED
  BY <1>1, <1>2

LEMMA ApplyTyped ==
  ASSUME NEW frames \in Seq(Frame), rows \in Hands, live \subseteq Panels
  PROVE  Apply(frames) \in Screens
<1> DEFINE n == Len(frames)
<1>1. n \in Nat /\ \A i \in 1..n : frames[i] \in Frame
  BY LenProperties
<1>2. PICK a : Landing(a, frames)
  BY <1>1, ApplyIs
<1> DEFINE S == {k \in Nat : k <= n => a[k] \in Screens}
<1>3. 0 \in S
  BY <1>2 DEF Landing, Screens
<1>4. ASSUME NEW k \in Nat, k \in S PROVE k + 1 \in S
  <2>1. SUFFICES ASSUME k + 1 <= n PROVE a[k + 1] \in Screens
    OBVIOUS
  <2>2. a[k] \in Screens /\ k + 1 \in 1..n /\ k + 1 - 1 = k
    BY <1>1, <1>4, <2>1
  <2>3. a[k + 1] = Land(a[k], frames[k + 1])
    BY <1>2, <2>2 DEF Landing
  <2> QED
    BY <1>1, <2>2, <2>3, LandTyped
<1>5. \A k \in Nat : k \in S
  <2> HIDE DEF S
  <2> QED
    BY <1>3, <1>4, NatInd
<1> QED
  BY <1>1, <1>2, <1>5 DEF Landing

\* Applying a batch takes the rows to the end of its line.
LEMMA ApplyFollows ==
  ASSUME NEW frames \in Seq(Frame), rows \in Hands, live \subseteq Panels,
         NEW h, h[0] = rows,
         \A i \in 1..Len(frames) : h[i] = Landed(h[i - 1], frames[i])
  PROVE  Apply(frames).rows = h[Len(frames)]
<1> DEFINE n == Len(frames)
<1>1. n \in Nat /\ \A i \in 1..n : frames[i] \in Frame
  BY LenProperties
<1>2. PICK a : Landing(a, frames)
  BY <1>1, ApplyIs
<1> DEFINE S == {k \in Nat : k <= n => a[k] \in Screens /\ a[k].rows = h[k]}
<1>3. 0 \in S
  BY <1>2 DEF Landing, Screens
<1>4. ASSUME NEW k \in Nat, k \in S PROVE k + 1 \in S
  <2>1. SUFFICES ASSUME k + 1 <= n PROVE a[k + 1] \in Screens /\ a[k + 1].rows = h[k + 1]
    OBVIOUS
  <2>2. a[k] \in Screens /\ a[k].rows = h[k] /\ k + 1 \in 1..n /\ k + 1 - 1 = k
    BY <1>1, <1>4, <2>1
  <2>3. /\ a[k + 1] = Land(a[k], frames[k + 1])
        /\ h[k + 1] = Landed(h[k], frames[k + 1])
    BY <1>2, <2>2 DEF Landing
  <2> QED
    BY <1>1, <2>2, <2>3, LandTyped
<1>5. \A k \in Nat : k \in S
  <2> HIDE DEF S
  <2> QED
    BY <1>3, <1>4, NatInd
<1> QED
  BY <1>1, <1>2, <1>5 DEF Landing
-----------------------------------------------------------------------------
(* Types                                                                     *)

LEMMA CatchUpTyped ==
  ASSUME NEW s \in Subscriber, NEW q, NEW order \in SetToSeqs(Panels),
         latest[q] \in [Panels -> Result \cup {None, Error}]
  PROVE  CatchUp(s, q, order).to \in Subscriber /\ CatchUp(s, q, order).wire \in Seq(Frame)
<1> DEFINE n == Len(order)
<1>1. n \in Nat /\ \A i \in 1..n : order[i] \in Panels
  BY OrderCovers
<1>2. PICK a : Joining(a, s, q, order)
  BY <1>1, CatchUpIs
<1> DEFINE S == {k \in Nat : k <= n => a[k].to \in Subscriber /\ a[k].wire \in Seq(Frame)}
<1>3. 0 \in S
  <2>1. a[0].to = s /\ a[0].wire = <<>>
    BY <1>2 DEF Joining
  <2>2. <<>> \in Seq(Frame)
    BY EmptySeq
  <2>3. a[0].to \in Subscriber /\ a[0].wire \in Seq(Frame)
    BY <2>1, <2>2
  <2> QED
    BY <2>3
<1>4. ASSUME NEW k \in Nat, k \in S PROVE k + 1 \in S
  <2>1. SUFFICES ASSUME k + 1 <= n
                 PROVE  a[k + 1].to \in Subscriber /\ a[k + 1].wire \in Seq(Frame)
    OBVIOUS
  <2> DEFINE p == order[k + 1]
             event == latest[q][p]
             t == a[k].to
             d == Deliver(t, p, event)
  <2>2. /\ t \in Subscriber /\ a[k].wire \in Seq(Frame)
        /\ k + 1 \in 1..n /\ k + 1 - 1 = k
    BY <1>1, <1>4, <2>1
  <2>3. a[k + 1] = Join(a[k], p, event)
    BY <1>2, <2>2 DEF Joining
  <2>4. p \in Panels /\ event \in Result \cup {None, Error}
    BY <1>1, <2>2
  <2>5. CASE event = None
    <3>1. a[k + 1] = a[k]
      BY <2>3, <2>5 DEF Join
    <3> QED
      BY <2>2, <3>1
  <2>6. CASE event # None
    <3>1. d.to \in Subscriber /\ d.frame \in Frame
      <4>1. CASE event \in Result
        <5>1. Delivered(t, p, RowsOf(t.range, event), d)
          BY <2>2, <2>4, <4>1, DeliverResult
        <5> QED
          BY <5>1 DEF Delivered
      <4>2. CASE event = Error
        BY <2>2, <2>4, <4>2, DeliverError
      <4> QED
        BY <2>4, <2>6, <4>1, <4>2
    <3>2. a[k + 1] = [to |-> d.to, wire |-> Append(a[k].wire, d.frame)]
      BY <2>3, <2>6 DEF Join
    <3> HIDE DEF d
    <3>3. Append(a[k].wire, d.frame) \in Seq(Frame)
      BY <2>2, <3>1, AppendProperties
    <3> QED
      BY <3>1, <3>2, <3>3
  <2> QED
    BY <2>5, <2>6
<1>5. \A k \in Nat : k \in S
  <2> HIDE DEF S
  <2> QED
    BY <1>3, <1>4, NatInd
<1> QED
  BY <1>1, <1>2, <1>5 DEF Joining

LEMMA FlushTyped ==
  ASSUME LiveTypeOK, NEW stale \in BOOLEAN, FlushAnd(stale)
  PROVE  rows' \in Hands /\ live' \subseteq Panels /\ pending' = <<>>
<1>1. rows \in Hands /\ live \subseteq Panels /\ pending \in Seq(Frame)
  BY DEF LiveTypeOK, Hands
<1>2. CASE pending = <<>>
  <2> DEFINE s == [rows |-> rows, live |-> live]
  <2>1. rows' = s.rows /\ live' = (IF stale THEN {} ELSE s.live) /\ pending' = <<>>
    BY <1>2 DEF FlushAnd
  <2> QED
    BY <1>1, <2>1
<1>3. CASE pending # <<>>
  <2>1. Apply(pending) \in Screens
    BY <1>1, ApplyTyped
  <2>2. /\ rows' = Apply(pending).rows
        /\ live' = (IF stale THEN {} ELSE Apply(pending).live) /\ pending' = <<>>
    BY <1>3, Zenon DEF FlushAnd
  <2> QED
    BY <2>1, <2>2 DEF Screens
<1> QED
  BY <1>2, <1>3

LEMMA SendTyped ==
  ASSUME LiveTypeOK, NEW q \in Pollers, NEW p \in Panels,
         NEW event \in Result \cup {Error}, Send(q, p, event)
  PROVE  /\ sub' \in Subscriber \cup {None} /\ wire' \in Seq(Frame)
         /\ sent' \in [Panels -> 0..MaxTime]
<1> DEFINE d == Deliver(sub, p, event)
<1>1. CASE Watches(q)
  <2>1. sub \in Subscriber /\ wire \in Seq(Frame) /\ sent \in [Panels -> 0..MaxTime]
    BY <1>1 DEF Watches, LiveTypeOK
  <2>2. /\ sub' = d.to /\ wire' = Append(wire, d.frame)
        /\ sent' = [sent EXCEPT ![p] = Newest(sent[p], event)]
    BY <1>1 DEF Send
  <2>3. d.to \in Subscriber /\ d.frame \in Frame
    <3>1. CASE event \in Result
      <4>1. Delivered(sub, p, RowsOf(sub.range, event), d)
        BY <2>1, <3>1, DeliverResult
      <4> QED
        BY <4>1 DEF Delivered
    <3>2. CASE event = Error
      BY <2>1, <3>2, DeliverError
    <3> QED
      BY <3>1, <3>2
  <2>4. Newest(sent[p], event) \in 0..MaxTime
    <3>1. sent[p] \in 0..MaxTime /\ (event \in Result => event.at \in 0..MaxTime)
      BY <2>1 DEF Result
    <3>2. event \notin {None, Error} => event \in Result
      OBVIOUS
    <3> QED
      BY <3>1, <3>2 DEF Newest
  <2> HIDE DEF d
  <2>5. wire' \in Seq(Frame)
    BY <2>1, <2>2, <2>3, AppendProperties
  <2>6. sent' \in [Panels -> 0..MaxTime]
    BY <2>1, <2>2, <2>4
  <2> QED
    BY <2>2, <2>3, <2>5, <2>6
<1>2. CASE ~Watches(q)
  BY <1>2 DEF Send, stream, LiveTypeOK
<1> QED
  BY <1>1, <1>2

LEMMA DecodeTyped ==
  ASSUME NEW t \in Token \cup {None}, NEW v
  PROVE  /\ Decode(t, v) \in Cursors
         /\ Decode(t, v) = Nothing \/ (t # None /\ t.of = v /\ Decode(t, v) = t.cursors)
BY DEF Decode, Nothing, Token, Cursors

\* A poller's last events are of its own version.
Labelled ==
  \A q \in Pollers : \A p \in Panels :
    latest[q][p] \in Result => latest[q][p].of = q[2]

TypesInv == LiveTypeOK /\ Labelled

LEMMA TypesInit == Init => TypesInv
<1> SUFFICES ASSUME Init PROVE TypesInv
  OBVIOUS
<1>1. /\ 0 \in 0..MaxTime /\ 1 \in Versions /\ 0 \in 0..Losses /\ 0 \in 0..Changes
  BY LiveViewAssumption DEF Versions
<1>2. latest \in [Pollers -> [Panels -> Result \cup {None, Error}]]
  BY DEF Init, Nothing
<1>3. LiveTypeOK
  BY <1>1, <1>2 DEF Init, LiveTypeOK
<1>4. Labelled
  BY ValuesAssumption DEF Init, Nothing, Labelled
<1> QED
  BY <1>3, <1>4 DEF TypesInv

LEMMA TypesStep == TypesInv /\ [Next]_vars => TypesInv'
<1> SUFFICES ASSUME LiveTypeOK, Labelled, [Next]_vars PROVE LiveTypeOK' /\ Labelled'
  BY DEF TypesInv
<1> USE DEF Hands
<1>1. CASE TimePasses
  <2>1. clock + 1 \in 0..MaxTime
    BY <1>1, LiveViewAssumption DEF TimePasses, LiveTypeOK
  <2> QED
    BY <1>1, <2>1 DEF TimePasses, LiveTypeOK, Labelled, bounds, stream, reading, shown
<1>2. CASE Save
  <2>1. version + 1 \in Versions
    BY <1>2, LiveViewAssumption DEF Save, LiveTypeOK, Versions
  <2> QED
    BY <1>2, <2>1 DEF Save, LiveTypeOK, Labelled, bounds, stream, reading, shown
<1>3. CASE Connect
  <2> DEFINE q == <<range, version>>
             s == [range |-> range, of |-> version, cursors |-> Decode(token, version)]
  <2>1. /\ q \in Pollers
        /\ latest[q] \in [Panels -> Result \cup {None, Error}]
    BY DEF LiveTypeOK, Pollers
  <2>2. s \in Subscriber
    BY DecodeTyped DEF LiveTypeOK, Subscriber
  <2>3. PICK order \in SetToSeqs(Panels) :
          /\ sub' = CatchUp(s, q, order).to
          /\ wire' = CatchUp(s, q, order).wire
          /\ sent' = [p \in Panels |-> Newest(sent[p], latest[q][p])]
    BY <1>3, Zenon DEF Connect
  <2>4. sub' \in Subscriber /\ wire' \in Seq(Frame)
    <3> HIDE DEF s, q
    <3> QED
      BY <2>1, <2>2, <2>3, CatchUpTyped
  <2>5. sent' \in [Panels -> 0..MaxTime]
    <3> SUFFICES ASSUME NEW p \in Panels PROVE Newest(sent[p], latest[q][p]) \in 0..MaxTime
      BY <2>3
    <3> DEFINE event == latest[q][p]
    <3>1. event \in Result \cup {None, Error} /\ sent[p] \in 0..MaxTime
      BY <2>1 DEF LiveTypeOK
    <3> HIDE DEF event
    <3>2. Newest(sent[p], event) \in 0..MaxTime
      BY <3>1 DEF Newest, Result
    <3> QED
      BY <3>2 DEF event
  <2>6. /\ es' = "open" /\ fresh' = FALSE /\ connection' = "live"
        /\ UNCHANGED <<server, bounds, range, token, lastId>>
        /\ IF fresh THEN pending' = <<>> /\ rows' = [p \in Panels |-> {}] /\ live' = {}
           ELSE UNCHANGED <<pending, shown>>
    BY <1>3, Zenon DEF Connect
  <2>7. /\ pending' \in Seq(Frame) /\ rows' \in [Panels -> SUBSET Row]
        /\ live' \subseteq Panels
    <3>1. <<>> \in Seq(Frame) /\ [p \in Panels |-> {}] \in [Panels -> SUBSET Row]
      BY EmptySeq
    <3>2. CASE fresh
      BY <2>6, <3>1, <3>2
    <3>3. CASE ~fresh
      BY <2>6, <3>3 DEF LiveTypeOK, shown
    <3> QED
      BY <3>2, <3>3
  <2> QED
    BY <2>4, <2>5, <2>6, <2>7 DEF LiveTypeOK, Labelled, server, bounds
<1>4. CASE Arrive
  <2> DEFINE f == Head(wire)
  <2>1. /\ wire # <<>> /\ wire' = Tail(wire) /\ pending' = Append(pending, f)
        /\ IF IsError(f) THEN UNCHANGED <<token, lastId>>
           ELSE token' = f.id /\ lastId' = [range |-> range, id |-> f.id]
        /\ UNCHANGED <<server, bounds, sub, sent, range, es, fresh, connection, shown>>
    BY <1>4 DEF Arrive
  <2>2. f \in Frame /\ wire' \in Seq(Frame)
    BY <2>1, HeadTailProperties DEF LiveTypeOK
  <2> HIDE DEF f
  <2>3. pending' \in Seq(Frame)
    BY <2>1, <2>2, AppendProperties DEF LiveTypeOK
  <2>4. token' \in Token \cup {None} /\ lastId' \in LastId \cup {None}
    <3>1. CASE IsError(f)
      BY <2>1, <3>1 DEF LiveTypeOK
    <3>2. CASE ~IsError(f)
      <4>1. f.id \in Token
        BY <2>2, <3>2, FrameParts
      <4> QED
        BY <2>1, <3>2, <4>1 DEF LiveTypeOK, LastId
    <3> QED
      BY <3>1, <3>2
  <2> QED
    BY <2>1, <2>2, <2>3, <2>4 DEF LiveTypeOK, Labelled, server, bounds, shown
<1>5. CASE Flush
  <2>1. FlushAnd(FALSE) /\ UNCHANGED <<server, bounds, stream, range, es, fresh, token, lastId>>
        /\ connection' \in {"live", connection}
    BY <1>5 DEF Flush
  <2>2. rows' \in Hands /\ live' \subseteq Panels /\ pending' = <<>>
    BY <2>1, FlushTyped
  <2> QED
    BY <2>1, <2>2 DEF LiveTypeOK, Labelled, server, bounds, stream
<1>6. CASE Fail
  <2>1. /\ FlushAnd(TRUE) /\ Cutoff /\ losses < Losses /\ losses' = losses + 1
        /\ es' = "connecting" /\ connection' = "reconnecting"
        /\ UNCHANGED <<server, changes, range, fresh, token, lastId>>
    BY <1>6 DEF Fail
  <2>2. rows' \in Hands /\ live' \subseteq Panels /\ pending' = <<>>
    BY <2>1, FlushTyped
  <2>3. losses' \in 0..Losses
    BY <2>1, LiveViewAssumption DEF LiveTypeOK
  <2> QED
    BY <2>1, <2>2, <2>3 DEF LiveTypeOK, Labelled, server, Cutoff
<1>7. CASE End
  <2>1. losses' \in 0..Losses
    BY <1>7, LiveViewAssumption DEF LiveTypeOK, End
  <2> QED
    BY <1>7, <2>1 DEF End, LiveTypeOK, Labelled, server, Cutoff
<1>8. CASE Pause
  <2>1. /\ FlushAnd(FALSE) /\ Cutoff /\ changes < Changes /\ changes' = changes + 1
        /\ es' = "closed" /\ connection' = "paused"
        /\ UNCHANGED <<server, losses, range, fresh, token, lastId>>
    BY <1>8 DEF Pause
  <2>2. rows' \in Hands /\ live' \subseteq Panels /\ pending' = <<>>
    BY <2>1, FlushTyped
  <2>3. changes' \in 0..Changes
    BY <2>1, LiveViewAssumption DEF LiveTypeOK
  <2> QED
    BY <2>1, <2>2, <2>3 DEF LiveTypeOK, Labelled, server, Cutoff
<1>9. CASE DashboardError
  <2>1. FlushAnd(TRUE) /\ UNCHANGED <<server, bounds, stream, reading>>
    BY <1>9 DEF DashboardError
  <2>2. rows' \in Hands /\ live' \subseteq Panels /\ pending' = <<>>
    BY <2>1, FlushTyped
  <2> QED
    BY <2>1, <2>2 DEF LiveTypeOK, Labelled, server, bounds, stream, reading
<1>10. CASE Watchdog
  BY <1>10 DEF Watchdog, LiveTypeOK, Labelled, server, bounds, stream, reading
<1>11. ASSUME NEW q \in Pollers, Forget(q) PROVE LiveTypeOK' /\ Labelled'
  <2>1. latest' = [latest EXCEPT ![q] = Nothing]
    BY <1>11 DEF Forget
  <2>2. latest' \in [Pollers -> [Panels -> Result \cup {None, Error}]]
    BY <2>1 DEF LiveTypeOK, Nothing
  <2>3. Labelled'
    BY <2>1, ValuesAssumption DEF LiveTypeOK, Labelled, Nothing
  <2> QED
    BY <1>11, <2>2, <2>3 DEF Forget, LiveTypeOK, bounds, stream, reading, shown
<1>12. ASSUME NEW q \in Pollers, NEW p \in Panels, Publish(q, p)
       PROVE  LiveTypeOK' /\ Labelled'
  <2>1. PICK n \in (clock - Lag)..clock, fails \in BOOLEAN :
          LET event == IF fails THEN Error ELSE [at |-> n, of |-> q[2]] IN
          /\ n >= 0
          /\ latest' = [latest EXCEPT ![q][p] = event]
          /\ Send(q, p, event)
    BY <1>12 DEF Publish
  <2> DEFINE event == IF fails THEN Error ELSE [at |-> n, of |-> q[2]]
  <2>2. event \in Result \cup {Error} /\ (event \in Result => event.of = q[2])
    <3>1. n \in 0..MaxTime /\ q[2] \in Versions
      BY <2>1, LiveViewAssumption DEF LiveTypeOK, Pollers
    <3>2. CASE fails
      BY <3>2, ValuesAssumption
    <3>3. CASE ~fails
      BY <3>1, <3>3 DEF Result
    <3> QED
      BY <3>2, <3>3
  <2>3. latest' = [latest EXCEPT ![q][p] = event] /\ Send(q, p, event)
    BY <2>1
  <2> HIDE DEF event
  <2>4. latest' \in [Pollers -> [Panels -> Result \cup {None, Error}]]
    BY <2>2, <2>3 DEF LiveTypeOK
  <2>5. Labelled'
    BY <2>2, <2>3 DEF LiveTypeOK, Labelled
  <2>6. /\ sub' \in Subscriber \cup {None} /\ wire' \in Seq(Frame)
        /\ sent' \in [Panels -> 0..MaxTime]
    BY <2>2, <2>3, SendTyped
  <2>7. UNCHANGED <<clock, version, bounds, reading, pending, shown>>
    BY <1>12 DEF Publish
  <2> QED
    BY <2>4, <2>5, <2>6, <2>7 DEF LiveTypeOK, bounds, reading, shown
<1>13. ASSUME NEW r \in Ranges, Reopen(r) PROVE LiveTypeOK' /\ Labelled'
  <2>1. /\ changes < Changes /\ changes' = changes + 1
        /\ FlushAnd(FALSE) /\ Cutoff /\ Open(r)
        /\ connection' = (IF connection = "paused" THEN "connecting" ELSE connection)
        /\ UNCHANGED <<server, losses, lastId>>
    BY <1>13 DEF Reopen
  <2>2. rows' \in Hands /\ live' \subseteq Panels /\ pending' = <<>>
    BY <2>1, FlushTyped
  <2>3. changes' \in 0..Changes
    BY <2>1, LiveViewAssumption DEF LiveTypeOK
  <2>4. range' \in Ranges /\ es' = "connecting" /\ fresh' \in BOOLEAN
        /\ token' \in Token \cup {None}
    <3>1. lastId # None => lastId.id \in Token
      BY DEF LiveTypeOK, LastId
    <3> QED
      BY <2>1, <3>1 DEF Open
  <2> QED
    BY <2>1, <2>2, <2>3, <2>4 DEF LiveTypeOK, Labelled, server, Cutoff
<1>14. CASE UNCHANGED vars
  BY <1>14 DEF vars, LiveTypeOK, Labelled, server, bounds, stream, reading, shown
<1> QED
  BY <1>1, <1>2, <1>3, <1>4, <1>5, <1>6, <1>7, <1>8, <1>9, <1>10, <1>11, <1>12,
     <1>13, <1>14 DEF Next

LEMMA TypesHold == Spec => []TypesInv
BY TypesInit, TypesStep, PTL DEF Spec

\* What the page, the stream and the pollers hold always has its type.
THEOREM LiveTypes == Spec => []LiveTypeOK
<1>1. TypesInv => LiveTypeOK
  BY DEF TypesInv
<1> QED
  BY <1>1, TypesHold, PTL
-----------------------------------------------------------------------------
(* What a viewer holds                                                       *)

\* The event id the page remembers is of the window it shows.
Known == lastId # None /\ lastId.range = range

\* The viewer goes back to the window of the remembered id: no frame of the
\* window in between has arrived, though its stream may have cleared the panels.
GoesBack == range' # range /\ lastId # None /\ lastId.range = range'

\* The frames that have not been applied.
Queue == pending \o wire

\* h is where the rows are going: the last event id describes them as they are
\* once the frames that arrived are applied, the subscriber's cursors as they are
\* once all has landed, and then they show what was sent last.
Ahead(h) ==
  /\ Line(h, Queue, rows, sent, range)
  /\ Known => Matches(h[Len(pending)], lastId.id, sent, range)
  /\ sub # None =>
       Feeds(h, Queue, rows, sub, latest[<<sub.range, sub.of>>], sent, range)

ViewInv ==
  /\ es # "open" => sub = None /\ wire = <<>>
  /\ es = "open" => sub # None /\ ~fresh
  /\ es = "connecting" => pending = <<>>
  /\ sub # None => sub.range = range
  /\ fresh => ~Known
  /\ token # None => Known /\ token = lastId.id
  /\ \E h : Ahead(h)

LEMMA TypesOf ==
  ASSUME TypesInv
  PROVE  /\ pending \in Seq(Frame) /\ wire \in Seq(Frame) /\ Queue \in Seq(Frame)
         /\ Len(pending) \in Nat /\ Len(wire) \in Nat
         /\ Len(Queue) = Len(pending) + Len(wire)
         /\ \A i \in 1..Len(pending) : Queue[i] = pending[i]
         /\ \A i \in 1..Len(wire) : Queue[i + Len(pending)] = wire[i]
         /\ rows \in Hands /\ live \subseteq Panels
         /\ sent \in [Panels -> Nat] /\ range \in Ranges /\ range \in Nat
<1>1. pending \in Seq(Frame) /\ wire \in Seq(Frame)
  BY DEF TypesInv, LiveTypeOK
<1>2. Len(pending) \in Nat /\ Len(wire) \in Nat
  BY <1>1, LenProperties
<1>3. /\ Queue \in Seq(Frame) /\ Len(Queue) = Len(pending) + Len(wire)
      /\ \A i \in 1..(Len(pending) + Len(wire)) :
           Queue[i] = IF i <= Len(pending) THEN pending[i] ELSE wire[i - Len(pending)]
  BY <1>1, ConcatProperties DEF Queue
<1>4. \A i \in 1..Len(pending) : Queue[i] = pending[i]
  BY <1>2, <1>3
<1>5. \A i \in 1..Len(wire) : Queue[i + Len(pending)] = wire[i]
  <2> SUFFICES ASSUME NEW i \in 1..Len(wire) PROVE Queue[i + Len(pending)] = wire[i]
    OBVIOUS
  <2>1. /\ i + Len(pending) \in 1..(Len(pending) + Len(wire))
        /\ ~(i + Len(pending) <= Len(pending))
        /\ i + Len(pending) - Len(pending) = i
    BY <1>2
  <2> QED
    BY <1>3, <2>1
<1>6. rows \in Hands /\ live \subseteq Panels /\ sent \in [Panels -> Nat]
      /\ range \in Ranges /\ range \in Nat
  BY NumbersOf DEF TypesInv, LiveTypeOK, Hands
<1> QED
  BY <1>1, <1>2, <1>3, <1>4, <1>5, <1>6

\* A batch is applied: the line goes on from there.
LEMMA LineMoves ==
  ASSUME TypesInv, NEW h, Line(h, Queue, rows, sent, range), NEW stale \in BOOLEAN,
         FlushAnd(stale)
  PROVE  /\ pending' = <<>> /\ rows' = h[Len(pending)]
         /\ \E g : Line(g, wire, rows', sent, range) /\ g[Len(wire)] = h[Len(Queue)]
<1> DEFINE n == Len(pending)
<1>1. n \in Nat /\ h \in [Nat -> Hands] /\ h[0] = rows
      /\ \A i \in 1..Len(Queue) :
           /\ h[i] = Landed(h[i - 1], Queue[i])
           /\ ~IsError(Queue[i]) => Matches(h[i], Queue[i].id, sent, range)
  BY TypesOf DEF Line
<1>2. pending' = <<>> /\ rows' = h[n]
  <2>1. CASE pending = <<>>
    <3>1. n = 0
      BY <2>1, EmptySeq
    <3>2. rows' = rows /\ pending' = <<>>
      BY <2>1 DEF FlushAnd
    <3> QED
      BY <1>1, <3>1, <3>2
  <2>2. CASE pending # <<>>
    <3>1. \A i \in 1..n : h[i] = Landed(h[i - 1], pending[i])
      BY <1>1, TypesOf
    <3>2. Apply(pending).rows = h[n]
      BY <1>1, <3>1, TypesOf, ApplyFollows
    <3>3. rows' = Apply(pending).rows /\ pending' = <<>>
      BY <2>2, Zenon DEF FlushAnd
    <3> QED
      BY <3>2, <3>3
  <2> QED
    BY <2>1, <2>2
<1> DEFINE g == [i \in Nat |-> h[i + n]]
<1>3. g \in [Nat -> Hands] /\ g[0] = rows' /\ g[Len(wire)] = h[Len(Queue)]
  <2>1. Len(wire) \in Nat /\ Len(Queue) = Len(wire) + n
    BY TypesOf
  <2> QED
    BY <1>1, <1>2, <2>1
<1>4. ASSUME NEW i \in 1..Len(wire)
      PROVE  /\ g[i] = Landed(g[i - 1], wire[i])
             /\ ~IsError(wire[i]) => Matches(g[i], wire[i].id, sent, range)
  <2>1. /\ i + n \in 1..Len(Queue) /\ Queue[i + n] = wire[i]
        /\ i \in Nat /\ i - 1 \in Nat /\ i + n - 1 = i - 1 + n
    BY <1>1, TypesOf
  <2>2. /\ h[i + n] = Landed(h[i + n - 1], Queue[i + n])
        /\ ~IsError(Queue[i + n]) => Matches(h[i + n], Queue[i + n].id, sent, range)
    BY <1>1, <2>1
  <2>3. g[i] = h[i + n] /\ g[i - 1] = h[i - 1 + n]
    BY <2>1
  <2> HIDE DEF g
  <2> QED
    BY <2>1, <2>2, <2>3
<1> HIDE DEF g
<1>5. Line(g, wire, rows', sent, range)
  BY <1>3, <1>4 DEF Line
<1> QED
  BY <1>2, <1>3, <1>5

\* Nothing the line is made of changes, or only what its stream does not watch.
LEMMA ViewStays ==
  ASSUME ViewInv,
         UNCHANGED <<pending, wire, rows, lastId, sub, sent, range, es, fresh, token>>,
         sub # None => latest'[<<sub.range, sub.of>>] = latest[<<sub.range, sub.of>>]
  PROVE  ViewInv'
<1>1. PICK h : Ahead(h)
  BY DEF ViewInv
<1>2. Ahead(h)'
  BY <1>1 DEF Ahead, Queue, Known
<1> QED
  BY <1>2 DEF ViewInv, Known

\* A stream goes away: what was applied before it is all there is.
LEMMA StreamGoes ==
  ASSUME TypesInv, TypesInv', ViewInv, ~GoesBack, NEW stale \in BOOLEAN, FlushAnd(stale),
         Cutoff, lastId' = lastId
  PROVE  \E g : Ahead(g)'
<1>1. PICK h : Ahead(h)
  BY DEF ViewInv
<1>2. Line(h, Queue, rows, sent, range)
      /\ (Known => Matches(h[Len(pending)], lastId.id, sent, range))
  BY <1>1 DEF Ahead
<1>3. pending' = <<>> /\ rows' = h[Len(pending)]
  BY <1>2, LineMoves
<1>4. /\ sent' = sent /\ sub' = None /\ wire' = <<>>
      /\ Known' => Known /\ range' = range
  BY DEF Cutoff, GoesBack, Known
<1>5. rows' \in Hands
  BY DEF TypesInv, LiveTypeOK, Hands
<1>6. PICK g : g \in [Nat -> Hands] /\ g[0] = rows'
  <2> DEFINE k == [i \in Nat |-> rows']
  <2>1. k \in [Nat -> Hands] /\ k[0] = rows'
    BY <1>5
  <2> HIDE DEF k
  <2> QED
    BY <2>1
<1>7. Queue' = <<>> /\ Len(<<>>) = 0 /\ Len(pending') = 0
  BY <1>3, <1>4 DEF Queue
<1>8. Line(g, Queue', rows', sent', range')
  BY <1>6, <1>7 DEF Line
<1>9. Known' => Matches(g[Len(pending')], lastId'.id, sent', range')
  BY <1>2, <1>3, <1>4, <1>6, <1>7
<1>10. Ahead(g)'
  BY <1>4, <1>8, <1>9 DEF Ahead
<1> QED
  BY <1>10

LEMMA ViewConnect ==
  ASSUME TypesInv, TypesInv', ViewInv, Connect
  PROVE  ViewInv'
<1> DEFINE q == <<range, version>>
           s == [range |-> range, of |-> version, cursors |-> Decode(token, version)]
<1>1. PICK h : Ahead(h)
  BY DEF ViewInv
<1>2. /\ es = "connecting" /\ pending = <<>> /\ wire = <<>>
      /\ fresh => ~Known
      /\ token # None => Known /\ token = lastId.id
  BY DEF Connect, ViewInv
<1>3. /\ es' = "open" /\ fresh' = FALSE
      /\ UNCHANGED <<latest, range, token, lastId>>
      /\ IF fresh THEN pending' = <<>> /\ rows' = [p \in Panels |-> {}]
         ELSE UNCHANGED <<pending, rows>>
  BY Zenon DEF Connect, server, shown
<1>4. PICK order \in SetToSeqs(Panels) :
        /\ sub' = CatchUp(s, q, order).to
        /\ wire' = CatchUp(s, q, order).wire
        /\ sent' = [p \in Panels |-> Newest(sent[p], latest[q][p])]
  BY Zenon DEF Connect
<1>5. /\ q \in Pollers /\ q[2] = version
      /\ latest[q] \in [Panels -> Result \cup {None, Error}]
      /\ \A p \in Panels : latest[q][p] \in Result => latest[q][p].of = version
      /\ token \in Token \cup {None} /\ rows' \in Hands
  BY DEF TypesInv, LiveTypeOK, Pollers, Labelled, Hands
<1>6. s \in Subscriber /\ s.range = range /\ s.of = version
      /\ s.cursors = Decode(token, version)
  BY DecodeTyped DEF TypesInv, LiveTypeOK, Subscriber
<1>7. sent \in [Panels -> Nat] /\ range \in Nat
  BY TypesOf
<1>8. pending' = <<>> /\ Len(pending) = 0 /\ Len(pending') = 0
  BY <1>2, <1>3
<1>9. Known => rows' = rows /\ Matches(rows, lastId.id, sent, range)
  <2>1. h[0] = rows /\ (Known => Matches(h[Len(pending)], lastId.id, sent, range))
    BY <1>1 DEF Ahead, Line
  <2> QED
    BY <1>2, <1>3, <1>8, <2>1
<1>10. Matches(rows', s, sent, s.range)
  <2>1. CASE Decode(token, version) = Nothing
    BY <1>6, <2>1 DEF Matches, Holds, Nothing
  <2>2. CASE Decode(token, version) # Nothing
    <3>1. token # None /\ token.of = version /\ Decode(token, version) = token.cursors
      BY <1>5, <2>2, DecodeTyped
    <3>2. Known /\ token = lastId.id
      BY <1>2, <3>1
    <3>3. Matches(rows', token, sent, range)
      BY <1>9, <3>2
    <3> QED
      BY <1>6, <3>1, <3>3 DEF Matches
  <2> QED
    BY <2>1, <2>2
<1> DEFINE joined == CatchUp(s, q, order)
           now == [p \in Panels |-> Newest(sent[p], latest[q][p])]
<1> HIDE DEF s, q
<1>11. /\ joined.to \in Subscriber /\ joined.to.range = s.range /\ joined.to.of = s.of
       /\ now \in [Panels -> Nat]
       /\ \E k : Feeds(k, joined.wire, rows', joined.to, latest[q], now, s.range)
  BY <1>5, <1>6, <1>7, <1>10, CatchingUp
<1>12. \A p \in Panels : sent[p] <= now[p]
  BY <1>5, <1>7, NewestIs
<1>13. sub' = joined.to /\ wire' = joined.wire /\ sent' = now
  BY <1>4
<1> HIDE DEF joined, now
<1>14. sub' # None /\ <<sub'.range, sub'.of>> = q /\ sub'.range = range
  BY <1>6, <1>11, <1>13, ValuesAssumption DEF q
<1>15. PICK k : Feeds(k, wire', rows', sub', latest[q], sent', range)
  BY <1>6, <1>11, <1>13
<1>16. Queue' = wire'
  BY <1>8, ConcatEmptySeq DEF Queue, TypesInv, LiveTypeOK
<1>17. k[0] = rows' /\ Line(k, wire', rows', sent', range)
  BY <1>15 DEF Feeds, Line
<1>18. Known => Matches(rows', lastId.id, sent', range)
  BY <1>7, <1>9, <1>11, <1>12, <1>13, MatchesLater
<1>19. Ahead(k)'
  BY <1>3, <1>8, <1>14, <1>15, <1>16, <1>17, <1>18 DEF Ahead, Known
<1> QED
  BY <1>2, <1>3, <1>8, <1>14, <1>19 DEF ViewInv, Known

LEMMA ViewArrive ==
  ASSUME TypesInv, TypesInv', ViewInv, Arrive
  PROVE  ViewInv'
<1> DEFINE f == Head(wire)
           n == Len(pending)
<1>1. PICK h : Ahead(h)
  BY DEF ViewInv
<1>2. /\ wire # <<>> /\ wire' = Tail(wire) /\ pending' = Append(pending, f)
      /\ IF IsError(f) THEN UNCHANGED <<token, lastId>>
         ELSE token' = f.id /\ lastId' = [range |-> range, id |-> f.id]
      /\ UNCHANGED <<latest, sub, sent, range, es, fresh, rows>>
  BY DEF Arrive, server, shown
<1>3. /\ pending \in Seq(Frame) /\ wire \in Seq(Frame) /\ n \in Nat /\ f \in Frame
      /\ wire' \in Seq(Frame) /\ pending' \in Seq(Frame) /\ wire[1] = f
      /\ Len(pending') = n + 1 /\ Len(wire) \in Nat /\ Len(wire) >= 1
      /\ Len(wire') = Len(wire) - 1
      /\ \A i \in 1..Len(wire') : wire'[i] = wire[i + 1]
      /\ \A i \in 1..n : pending'[i] = pending[i]
      /\ pending'[n + 1] = f
  <2>1. pending \in Seq(Frame) /\ wire \in Seq(Frame) /\ n \in Nat /\ Len(wire) \in Nat
    BY TypesOf
  <2>2. f \in Frame /\ wire[1] = f /\ Len(wire) >= 1
    BY <1>2, <2>1, HeadTailProperties, EmptySeq
  <2> HIDE DEF f, n
  <2>3. /\ wire' \in Seq(Frame) /\ Len(wire') = Len(wire) - 1
        /\ \A i \in 1..Len(wire') : wire'[i] = wire[i + 1]
    BY <1>2, <2>1, HeadTailProperties
  <2>4. /\ pending' \in Seq(Frame) /\ Len(pending') = n + 1
        /\ (\A i \in 1..n : pending'[i] = pending[i]) /\ pending'[n + 1] = f
    BY <1>2, <2>1, <2>2, AppendProperties DEF n
  <2> QED
    BY <2>1, <2>2, <2>3, <2>4
<1> HIDE DEF f, n
<1>4. Queue' = Queue
  <2> DEFINE a == pending \o wire
             b == pending' \o wire'
  <2>1. /\ a \in Seq(Frame) /\ Len(a) = n + Len(wire)
        /\ \A i \in 1..(n + Len(wire)) : a[i] = IF i <= n THEN pending[i] ELSE wire[i - n]
    BY <1>3, ConcatProperties DEF n
  <2>2. /\ b \in Seq(Frame) /\ Len(b) = n + 1 + Len(wire')
        /\ \A i \in 1..(n + 1 + Len(wire')) :
             b[i] = IF i <= n + 1 THEN pending'[i] ELSE wire'[i - (n + 1)]
    <3> DEFINE m == Len(pending')
    <3>1. pending' \in Seq(Frame) /\ wire' \in Seq(Frame) /\ m = n + 1
      BY <1>3
    <3>2. /\ b \in Seq(Frame) /\ Len(b) = m + Len(wire')
          /\ \A i \in 1..(m + Len(wire')) :
               b[i] = IF i <= m THEN pending'[i] ELSE wire'[i - m]
      BY <3>1, ConcatProperties
    <3> HIDE DEF m, b
    <3> QED
      BY <3>1, <3>2
  <2> HIDE DEF a, b
  <2>3. ASSUME NEW i \in 1..(n + Len(wire)) PROVE a[i] = b[i]
    <3>1. i \in 1..(n + 1 + Len(wire'))
      BY <1>3
    <3>2. CASE i <= n
      <4>1. i \in 1..n /\ i <= n + 1
        BY <1>3, <3>2
      <4>2. a[i] = pending[i] /\ b[i] = pending'[i]
        BY <2>1, <2>2, <3>1, <3>2, <4>1
      <4> QED
        BY <1>3, <4>1, <4>2
    <3>3. CASE i = n + 1
      <4>1. i - n = 1 /\ ~(i <= n) /\ i <= n + 1
        BY <1>3, <3>3
      <4>2. a[i] = wire[1]
        BY <2>1, <4>1
      <4>3. b[i] = pending'[n + 1]
        BY <2>2, <3>1, <3>3, <4>1
      <4> QED
        BY <1>3, <4>2, <4>3
    <3>4. CASE i > n + 1
      <4>1. i - (n + 1) \in 1..Len(wire') /\ i - (n + 1) + 1 = i - n
        BY <1>3, <3>1, <3>4
      <4>2. wire'[i - (n + 1)] = wire[i - n]
        BY <1>3, <4>1
      <4> QED
        BY <1>3, <2>1, <2>2, <3>1, <3>4, <4>2
    <3> QED
      BY <1>3, <3>2, <3>3, <3>4
  <2>4. Len(a) = Len(b)
    BY <1>3, <2>1, <2>2
  <2>5. a = b
    BY <2>1, <2>2, <2>3, <2>4, SeqEqual
  <2> QED
    BY <2>5 DEF a, b, Queue
<1>5. /\ h[n + 1] = Landed(h[n], f)
      /\ ~IsError(f) => Matches(h[n + 1], f.id, sent, range)
  <2>1. n + 1 \in 1..Len(Queue) /\ Queue[n + 1] = f /\ n + 1 - 1 = n
    <3>1. /\ Len(Queue) = n + Len(wire)
          /\ \A i \in 1..Len(wire) : Queue[i + n] = wire[i]
      BY TypesOf DEF n
    <3>2. 1 \in 1..Len(wire)
      BY <1>3
    <3>3. Queue[1 + n] = wire[1]
      BY <3>1, <3>2
    <3>4. 1 + n = n + 1 /\ n + 1 - 1 = n /\ n + 1 \in 1..(n + Len(wire))
      BY <1>3
    <3> QED
      BY <1>3, <3>1, <3>3, <3>4
  <2>2. \A i \in 1..Len(Queue) :
          /\ h[i] = Landed(h[i - 1], Queue[i])
          /\ ~IsError(Queue[i]) => Matches(h[i], Queue[i].id, sent, range)
    BY <1>1 DEF Ahead, Line
  <2>3. PICK i \in 1..Len(Queue) : i = n + 1 /\ i - 1 = n /\ Queue[i] = f
    <3>1. \E i \in 1..Len(Queue) : i = n + 1
      BY <2>1, Zenon
    <3> QED
      BY <1>3, <2>1, <3>1
  <2>4. /\ h[i] = Landed(h[i - 1], Queue[i])
        /\ ~IsError(Queue[i]) => Matches(h[i], Queue[i].id, sent, range)
    BY <2>2
  <2>5. h[i] = Landed(h[n], f) /\ (~IsError(f) => Matches(h[i], f.id, sent, range))
    BY <2>3, <2>4, Zenon
  <2> QED
    BY <2>3, <2>5, Zenon
<1>6. Known' => Matches(h[n + 1], lastId'.id, sent, range)
  <2>1. CASE IsError(f)
    <3>1. h[n + 1] = h[n] /\ lastId' = lastId /\ (Known' => Known)
      BY <1>2, <1>5, <2>1 DEF Landed, Known
    <3>2. Known => Matches(h[n], lastId.id, sent, range)
      BY <1>1 DEF Ahead, n
    <3> QED
      BY <3>1, <3>2
  <2>2. CASE ~IsError(f)
    <3>1. lastId'.id = f.id
      BY <1>2, <2>2
    <3> QED
      BY <1>5, <2>2, <3>1
  <2> QED
    BY <2>1, <2>2
<1>7. Ahead(h)'
  <2>1. /\ Line(h, Queue, rows, sent, range)
        /\ sub # None => Feeds(h, Queue, rows, sub, latest[<<sub.range, sub.of>>], sent, range)
    BY <1>1 DEF Ahead
  <2> QED
    BY <1>2, <1>3, <1>4, <1>6, <2>1 DEF Ahead
<1>8. es = "open" /\ es' = "open" /\ sub' # None /\ ~fresh' /\ sub'.range = range'
  BY <1>2 DEF ViewInv
<1>9. token' # None => Known' /\ token' = lastId'.id
  <2>1. CASE IsError(f)
    BY <1>2, <2>1 DEF ViewInv, Known
  <2>2. CASE ~IsError(f)
    <3>1. f.id \in Token /\ range \in Ranges
      BY <1>3, <2>2, FrameParts, TypesOf
    <3>2. lastId' \in LastId /\ lastId'.id = f.id
      BY <1>2, <2>2, <3>1 DEF LastId
    <3>3. lastId' # None
      BY <3>2, ValuesAssumption
    <3>4. lastId'.range = range'
      BY <1>2, <2>2
    <3> QED
      BY <1>2, <2>2, <3>2, <3>3, <3>4 DEF Known
  <2> QED
    BY <2>1, <2>2
<1> QED
  BY <1>7, <1>8, <1>9 DEF ViewInv

LEMMA ViewFlush ==
  ASSUME TypesInv, TypesInv', ViewInv, NEW stale \in BOOLEAN, FlushAnd(stale),
         UNCHANGED <<latest, sub, wire, sent, range, es, fresh, token, lastId>>
  PROVE  ViewInv'
<1>1. PICK h : Ahead(h)
  BY DEF ViewInv
<1>2. /\ Line(h, Queue, rows, sent, range)
      /\ Known => Matches(h[Len(pending)], lastId.id, sent, range)
      /\ sub # None => Feeds(h, Queue, rows, sub, latest[<<sub.range, sub.of>>], sent, range)
  BY <1>1 DEF Ahead
<1>3. pending' = <<>> /\ rows' = h[Len(pending)]
  BY <1>2, LineMoves
<1>4. PICK g : Line(g, wire, rows', sent, range) /\ g[Len(wire)] = h[Len(Queue)]
  BY <1>2, LineMoves
<1>5. Queue' = wire /\ Len(pending') = 0
  BY <1>3, ConcatEmptySeq DEF Queue, TypesInv, LiveTypeOK
<1>6. g[0] = rows'
  BY <1>4 DEF Line
<1>7. sub # None => Feeds(g, wire, rows', sub, latest[<<sub.range, sub.of>>], sent, range)
  BY <1>2, <1>4 DEF Feeds
<1>8. Ahead(g)'
  BY <1>2, <1>3, <1>4, <1>5, <1>6, <1>7 DEF Ahead, Known
<1> QED
  BY <1>3, <1>8 DEF ViewInv, Known

LEMMA ViewEnd ==
  ASSUME TypesInv, ViewInv, End
  PROVE  ViewInv'
<1>1. PICK h : Ahead(h)
  BY DEF ViewInv
<1>2. /\ es = "open" /\ es' = "closed" /\ sub' = None /\ wire' = <<>> /\ sent' = sent
      /\ UNCHANGED <<range, fresh, token, lastId, pending, rows>>
  BY DEF End, Cutoff
<1>3. Queue' = pending
  BY <1>2, ConcatEmptySeq, TypesOf DEF Queue
<1>4. Line(h, pending, rows, sent, range)
  <2>1. /\ h \in [Nat -> Hands] /\ h[0] = rows
        /\ \A i \in 1..Len(Queue) :
             /\ h[i] = Landed(h[i - 1], Queue[i])
             /\ ~IsError(Queue[i]) => Matches(h[i], Queue[i].id, sent, range)
    BY <1>1 DEF Ahead, Line
  <2>2. \A i \in 1..Len(pending) : i \in 1..Len(Queue) /\ Queue[i] = pending[i]
    BY TypesOf
  <2> QED
    BY <2>1, <2>2 DEF Line
<1>5. Ahead(h)'
  BY <1>1, <1>2, <1>3, <1>4 DEF Ahead, Known
<1> QED
  BY <1>2, <1>5 DEF ViewInv, Known

LEMMA ViewPublish ==
  ASSUME TypesInv, ViewInv, NEW q \in Pollers, NEW p \in Panels, Publish(q, p)
  PROVE  ViewInv'
<1>1. PICK h : Ahead(h)
  BY DEF ViewInv
<1>2. PICK n \in (clock - Lag)..clock, fails \in BOOLEAN :
        LET event == IF fails THEN Error ELSE [at |-> n, of |-> q[2]] IN
        /\ n >= 0
        /\ latest' = [latest EXCEPT ![q][p] = event]
        /\ Send(q, p, event)
  BY DEF Publish
<1> DEFINE event == IF fails THEN Error ELSE [at |-> n, of |-> q[2]]
<1>3. event \in Result \cup {Error} /\ (event \in Result => event.of = q[2])
  <2>1. n \in 0..MaxTime /\ q[2] \in Versions
    BY <1>2, LiveViewAssumption DEF TypesInv, LiveTypeOK, Pollers
  <2>2. CASE fails
    BY <2>2, ValuesAssumption
  <2>3. CASE ~fails
    BY <2>1, <2>3 DEF Result
  <2> QED
    BY <2>2, <2>3
<1>4. latest' = [latest EXCEPT ![q][p] = event] /\ Send(q, p, event)
  BY <1>2
<1>5. UNCHANGED <<pending, rows, range, es, fresh, token, lastId>>
  BY DEF Publish, reading, shown
<1>6. latest \in [Pollers -> [Panels -> Result \cup {None, Error}]]
  BY DEF TypesInv, LiveTypeOK
<1> HIDE DEF event
<1>7. CASE ~Watches(q)
  <2>1. UNCHANGED <<sub, wire, sent>>
    BY <1>4, <1>7 DEF Send, stream
  <2>2. sub # None => latest'[<<sub.range, sub.of>>] = latest[<<sub.range, sub.of>>]
    BY <1>4, <1>6, <1>7 DEF Watches
  <2> QED
    BY <1>5, <2>1, <2>2, ViewStays
<1>8. CASE Watches(q)
  <2> DEFINE d == Deliver(sub, p, event)
             now == [sent EXCEPT ![p] = Newest(@, event)]
             m == Len(Queue)
  <2>1. /\ sub # None /\ <<sub.range, sub.of>> = q /\ sub \in Subscriber
        /\ sub.of = q[2] /\ sub.range = range
    BY <1>8 DEF Watches, ViewInv, TypesInv, LiveTypeOK
  <2>2. sub' = d.to /\ wire' = Append(wire, d.frame) /\ sent' = now
    BY <1>4, <1>8 DEF Send
  <2>3. /\ Queue \in Seq(Frame) /\ m \in Nat /\ sent \in [Panels -> Nat]
        /\ Len(pending) \in 0..m /\ range \in Nat
    BY TypesOf, LenProperties
  <2>4. /\ Feeds(h, Queue, rows, sub, latest[q], sent, sub.range)
        /\ Known => Matches(h[Len(pending)], lastId.id, sent, range)
    BY <1>1, <2>1 DEF Ahead
  <2>5. Grown(sub, p, event, Queue, h, rows, latest[q], d, now)
    BY <1>3, <2>1, <2>3, <2>4, FeedGrows
  <2>6. \A x \in Panels : sent[x] <= now[x]
    <3>1. sent[p] <= now[p]
      BY <1>3, <2>3, NewestIs
    <3>2. \A x \in Panels : sent[x] \in Nat
      BY <2>3
    <3>3. \A x \in Panels : x # p => now[x] = sent[x]
      BY <2>3
    <3> HIDE DEF now
    <3> QED
      BY <3>1, <3>2, <3>3
  <2> HIDE DEF d, now
  <2>7. /\ d.to \in Subscriber /\ d.to.range = range /\ d.to.of = sub.of
        /\ d.frame \in Frame /\ now \in [Panels -> Nat]
    BY <2>1, <2>5 DEF Grown
  <2>8. PICK g : /\ Line(g, Append(Queue, d.frame), rows, now, range)
                 /\ Matches(g[m + 1], d.to, now, range)
                 /\ Shown(g[m + 1][p], event, now[p], range)
                 /\ \A x \in Panels \ {p} : Shown(g[m + 1][x], latest[q][x], now[x], range)
                 /\ \A i \in 0..m : g[i] = h[i]
    BY <2>1, <2>5, Zenon DEF Grown
  <2>9. Queue' = Append(Queue, d.frame) /\ Len(Append(Queue, d.frame)) = m + 1
    <3>1. pending \in Seq(Frame) /\ wire \in Seq(Frame)
      BY TypesOf
    <3>2. pending \o Append(wire, d.frame) = Append(pending \o wire, d.frame)
      <4>1. <<d.frame>> \in Seq(Frame)
        BY <2>7
      <4>2. /\ Append(wire, d.frame) = wire \o <<d.frame>>
            /\ Append(pending \o wire, d.frame) = (pending \o wire) \o <<d.frame>>
        BY <2>3, <2>7, <3>1, AppendIsConcat DEF Queue
      <4> QED
        BY <3>1, <4>1, <4>2, ConcatAssociative
    <3>3. Len(Append(Queue, d.frame)) = m + 1
      BY <2>3, <2>7, AppendProperties
    <3> QED
      BY <1>5, <2>2, <3>2, <3>3 DEF Queue
  <2> HIDE DEF m
  <2>10. /\ latest'[q][p] = event
         /\ \A x \in Panels \ {p} : latest'[q][x] = latest[q][x]
    BY <1>4, <1>6
  <2>11. Feeds(g, Queue', rows, d.to, latest'[q], now, range)
    BY <2>8, <2>9, <2>10 DEF Feeds
  <2>12. Known => Matches(g[Len(pending)], lastId.id, now, range)
    <3>1. g[Len(pending)] = h[Len(pending)]
      BY <2>3, <2>8
    <3> QED
      BY <2>3, <2>4, <2>6, <2>7, <3>1, MatchesLater
  <2>13. sub' # None /\ <<sub'.range, sub'.of>> = q
    BY <2>1, <2>2, <2>7, ValuesAssumption
  <2>14. Line(g, Queue', rows, now, range)
    BY <2>8, <2>9
  <2>15. Ahead(g)'
    BY <1>5, <2>2, <2>11, <2>12, <2>13, <2>14 DEF Ahead, Known
  <2>16. es = "open" /\ sub'.range = range
    BY <2>1, <2>2, <2>7 DEF ViewInv
  <2> QED
    BY <1>5, <2>13, <2>15, <2>16 DEF ViewInv, Known
<1> QED
  BY <1>7, <1>8

\* The stream goes away and no frame is lost that had arrived.
LEMMA ViewFail ==
  ASSUME TypesInv, TypesInv', ViewInv, Fail
  PROVE  ViewInv'
<1>1. /\ es = "open" /\ es' = "connecting" /\ Cutoff /\ FlushAnd(TRUE)
      /\ UNCHANGED <<range, fresh, token, lastId>>
  BY Zenon DEF Fail
<1>2. \E g : Ahead(g)'
  BY <1>1, StreamGoes DEF GoesBack
<1>3. sub' = None /\ wire' = <<>> /\ pending' = <<>>
  BY <1>1, Zenon DEF Cutoff, FlushAnd
<1> QED
  BY <1>1, <1>2, <1>3 DEF ViewInv, Known

LEMMA ViewPause ==
  ASSUME TypesInv, TypesInv', ViewInv, Pause
  PROVE  ViewInv'
<1>1. /\ es' = "closed" /\ Cutoff /\ FlushAnd(FALSE)
      /\ UNCHANGED <<range, fresh, token, lastId>>
  BY Zenon DEF Pause
<1>2. \E g : Ahead(g)'
  BY <1>1, StreamGoes DEF GoesBack
<1>3. sub' = None /\ wire' = <<>>
  BY <1>1, Zenon DEF Cutoff
<1> QED
  BY <1>1, <1>2, <1>3 DEF ViewInv, Known

\* A new EventSource resumes exactly if the remembered id is of its window, and
\* then it is the window of the rows.
LEMMA ViewReopen ==
  ASSUME TypesInv, TypesInv', ViewInv, ~GoesBack, NEW r \in Ranges, Reopen(r)
  PROVE  ViewInv'
<1>1. /\ Cutoff /\ FlushAnd(FALSE) /\ Open(r) /\ lastId' = lastId
  BY Zenon DEF Reopen
<1>2. \E g : Ahead(g)'
  BY <1>1, StreamGoes
<1>3. sub' = None /\ wire' = <<>> /\ pending' = <<>>
  BY <1>1, Zenon DEF Cutoff, FlushAnd
<1>4. /\ es' = "connecting" /\ (fresh' => ~Known')
      /\ token' # None => Known' /\ token' = lastId'.id
  BY <1>1 DEF Open, Known
<1> QED
  BY <1>2, <1>3, <1>4 DEF ViewInv

\* What no stream watches may change.
LEMMA ViewForget ==
  ASSUME TypesInv, ViewInv, NEW q \in Pollers, Forget(q)
  PROVE  ViewInv'
<1>1. /\ latest' = [latest EXCEPT ![q] = Nothing] /\ ~Watches(q)
      /\ UNCHANGED <<pending, wire, rows, lastId, sub, sent, range, es, fresh, token>>
  BY DEF Forget, stream, reading, shown
<1>2. sub # None => latest'[<<sub.range, sub.of>>] = latest[<<sub.range, sub.of>>]
  <2>1. SUFFICES ASSUME sub # None
                 PROVE  latest'[<<sub.range, sub.of>>] = latest[<<sub.range, sub.of>>]
    OBVIOUS
  <2>2. <<sub.range, sub.of>> # q
    BY <1>1, <2>1 DEF Watches
  <2>3. <<sub.range, sub.of>> \in Pollers
    BY <2>1 DEF TypesInv, LiveTypeOK, Subscriber, Pollers
  <2>4. DOMAIN latest = Pollers
    BY DEF TypesInv, LiveTypeOK
  <2> QED
    BY <1>1, <2>2, <2>3, <2>4
<1> QED
  BY <1>1, <1>2, ViewStays

LEMMA ViewInit == TypesInv /\ Init => ViewInv
<1> SUFFICES ASSUME TypesInv, Init PROVE ViewInv
  OBVIOUS
<1>1. /\ es = "connecting" /\ sub = None /\ wire = <<>> /\ pending = <<>>
      /\ fresh /\ lastId = None /\ token = None
  BY DEF Init
<1> DEFINE h == [i \in Nat |-> rows]
<1>2. h \in [Nat -> Hands] /\ h[0] = rows
  BY TypesOf
<1> HIDE DEF h
<1>3. Queue = <<>> /\ Len(Queue) = 0
  BY <1>1 DEF Queue
<1>4. Line(h, Queue, rows, sent, range)
  BY <1>2, <1>3 DEF Line
<1>5. Ahead(h)
  BY <1>1, <1>4 DEF Ahead, Known
<1> QED
  BY <1>1, <1>5 DEF ViewInv, Known

LEMMA ViewStep ==
  ASSUME TypesInv, TypesInv', ViewInv, [Next]_vars, [~GoesBack]_vars
  PROVE  ViewInv'
<1>1. ASSUME \/ TimePasses \/ Save \/ Watchdog \/ UNCHANGED vars
      PROVE  ViewInv'
  <2>1. UNCHANGED <<latest, pending, wire, rows, lastId, sub, sent, range, es, fresh, token>>
    BY <1>1 DEF TimePasses, Save, Watchdog, vars, server, stream, reading, shown
  <2> QED
    BY <2>1, ViewStays
<1>2. ASSUME Flush PROVE ViewInv'
  <2>1. FlushAnd(FALSE)
        /\ UNCHANGED <<latest, sub, wire, sent, range, es, fresh, token, lastId>>
    BY <1>2, Zenon DEF Flush, server, stream
  <2> QED
    BY <2>1, ViewFlush
<1>3. ASSUME DashboardError PROVE ViewInv'
  <2>1. FlushAnd(TRUE)
        /\ UNCHANGED <<latest, sub, wire, sent, range, es, fresh, token, lastId>>
    BY <1>3, Zenon DEF DashboardError, server, stream, reading
  <2> QED
    BY <2>1, ViewFlush
<1>4. ASSUME NEW r \in Ranges, Reopen(r) PROVE ViewInv'
  <2>1. ~GoesBack
    BY DEF GoesBack, vars, reading
  <2> QED
    BY <1>4, <2>1, ViewReopen
<1> QED
  BY <1>1, <1>2, <1>3, <1>4, ViewConnect, ViewArrive, ViewFail, ViewEnd, ViewPause,
     ViewForget, ViewPublish DEF Next

LEMMA ViewHolds == Spec /\ [][~GoesBack]_vars => []ViewInv
<1>1. Init => TypesInv /\ ViewInv
  BY TypesInit, ViewInit
<1>2. TypesInv /\ TypesInv' /\ ViewInv /\ [Next]_vars /\ [~GoesBack]_vars => ViewInv'
  BY ViewStep
<1> QED
  BY <1>1, <1>2, TypesHold, PTL DEF Spec

\* All has landed: the rows are where the line ends.
LEMMA ViewFresh == ASSUME TypesInv, ViewInv PROVE HeldIsFresh
<1> SUFFICES ASSUME Settled, NEW p \in Panels,
                    NEW result \in LastResult(<<sub.range, sub.of>>, p),
                    InOrder(p, result)
             PROVE  Shows(p, result)
  BY DEF HeldIsFresh
<1>1. PICK h : Ahead(h)
  BY DEF ViewInv
<1>2. sub # None /\ wire = <<>> /\ pending = <<>>
  BY DEF Settled, ViewInv
<1>3. Queue = <<>> /\ Len(Queue) = 0
  BY <1>2 DEF Queue
<1>4. /\ result = latest[<<sub.range, sub.of>>][p] /\ result # None /\ result # Error
      /\ RowsOf(sub.range, result) # {} /\ sent[p] = result.at
  BY DEF LastResult, InOrder
<1>5. sub.range = range
  BY <1>2 DEF ViewInv
<1>6. /\ Line(h, Queue, rows, sent, range)
      /\ Feeds(h, Queue, rows, sub, latest[<<sub.range, sub.of>>], sent, range)
  BY <1>1, <1>2 DEF Ahead
<1>7. h[0] = rows
  BY <1>6 DEF Line
<1>8. Shown(rows[p], result, sent[p], range)
  BY <1>3, <1>4, <1>6, <1>7 DEF Feeds
<1>9. result \in Result
  <2>1. <<sub.range, sub.of>> \in Pollers
    BY <1>2 DEF TypesInv, LiveTypeOK, Subscriber, Pollers
  <2> QED
    BY <1>4, <2>1 DEF TypesInv, LiveTypeOK
<1> QED
  BY <1>4, <1>5, <1>8, <1>9 DEF Shown, Shows

\* "the held window is what a fresh load would show" (docs, architecture/
\* invariants.md, 11): when all that was sent has landed, a panel shows the rows
\* of its last result, limited to the point budget, through every loss, resume,
\* save, pause and replaced poller, whatever gaps the data has and however the
\* results overtake each other.  The viewer may pick any windows, but for going
\* back to one before a frame of the next has arrived, which breaks it: that is
\* what range_round_trip shows, and nothing else breaks it.
THEOREM HeldWindowIsFresh == Spec /\ [][~GoesBack]_vars => []HeldIsFresh
<1>1. TypesInv /\ ViewInv => HeldIsFresh
  BY ViewFresh
<1> QED
  BY <1>1, TypesHold, ViewHolds, PTL
-----------------------------------------------------------------------------
\* While its stream is away a page has no subscriber, and nothing is left to
\* land.
Away ==
  connection = "reconnecting" =>
    es # "open" /\ sub = None /\ wire = <<>> /\ pending = <<>> /\ live = {}

LEMMA AwayStep == Away /\ [Next]_vars => Away'
<1> SUFFICES ASSUME Away, [Next]_vars PROVE Away'
  OBVIOUS
<1> USE DEF Away
<1>1. CASE TimePasses
  BY <1>1 DEF TimePasses, stream, reading, shown
<1>2. CASE Save
  BY <1>2 DEF Save, stream, reading, shown
<1>3. CASE Connect
  BY <1>3 DEF Connect
<1>4. CASE Arrive
  BY <1>4 DEF Arrive, shown
<1>5. CASE Flush
  BY <1>5 DEF Flush, stream
<1>6. CASE Fail
  BY <1>6 DEF Fail, Cutoff, FlushAnd
<1>7. CASE End
  BY <1>7 DEF End
<1>8. CASE Pause
  BY <1>8 DEF Pause
<1>9. CASE DashboardError
  BY <1>9 DEF DashboardError, stream, reading
<1>10. CASE Watchdog
  BY <1>10 DEF Watchdog, stream, reading
<1>11. ASSUME NEW q \in Pollers, Forget(q) PROVE Away'
  BY <1>11 DEF Forget, stream, reading, shown
<1>12. ASSUME NEW q \in Pollers, NEW p \in Panels, Publish(q, p) PROVE Away'
  BY <1>12 DEF Publish, Send, Watches, stream, reading, shown
<1>13. ASSUME NEW r \in Ranges, Reopen(r) PROVE Away'
  BY <1>13 DEF Reopen, Open, Cutoff, FlushAnd
<1>14. CASE UNCHANGED vars
  BY <1>14 DEF vars, stream, reading, shown
<1> QED
  BY <1>1, <1>2, <1>3, <1>4, <1>5, <1>6, <1>7, <1>8, <1>9, <1>10, <1>11, <1>12,
     <1>13, <1>14 DEF Next

\* No panel reads as live while the stream is away, however many panels, frames
\* and losses there are.
THEOREM AwayShowsStale == Spec => []AwayIsStale
<1>1. Init => Away
  BY DEF Init, Away
<1>2. Away => AwayIsStale
  BY DEF Away, AwayIsStale
<1> QED
  BY <1>1, <1>2, AwayStep, PTL DEF Spec
=============================================================================
