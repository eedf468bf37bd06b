----------------------------- MODULE StreamDelta -----------------------------
(***************************************************************************)
(* The rows of a time-series panel on their way to a browser: what the     *)
(* poller cuts from a result for a subscriber's cursor                     *)
(* (src/lib/poller/registry.ts), and how the frame lands on the rows the   *)
(* browser holds (src/lib/stream-merge.ts, src/lib/panel-state.ts).        *)
(*                                                                         *)
(* A result is named by when it ran and by the version of the spec.  That  *)
(* fixes its rows: one for each bucket of the window that has data, of     *)
(* which the newest is still filling every second time.  Rows are a set:   *)
(* the order a query returns them in decides at which end a frame lands,   *)
(* and nothing else.                                                       *)
(***************************************************************************)
EXTENDS Integers, FiniteSets

CONSTANTS
  Gaps,   \* the buckets without data
  Points, \* MAX_WINDOW_POINTS
  None

ASSUME DeltaAssumption ==
  Gaps \subseteq Nat /\ Points \in Nat \ {0} /\ None \notin Nat

Row == [bucket : Nat, full : BOOLEAN, of : Nat]

\* What a source, which is outside, answers at time n over a window of w
\* buckets.  A bucket older than the newest does not change any more.
RowsAt(w, n, v) ==
  {[bucket |-> b, full |-> b < n \div 2 \/ n % 2 = 1, of |-> v] :
     b \in {x \in 0..(n \div 2) : x > n \div 2 - w /\ x \notin Gaps}}

Times(R) == {r.bucket : r \in R}

IsNewest(b, R) == \A x \in Times(R) : x <= b
IsOldest(b, R) == \A x \in Times(R) : b <= x

\* Wrong: what the window has moved past is not told.
NeverOldest(R) == None

\* oldestTime
OldestTime(R) == IF R = {} THEN None ELSE CHOOSE b \in Times(R) : IsOldest(b, R)

\* Wrong: the rows after the cursor.
FreshAfter(R, cursor) == {r \in R : cursor = None \/ r.bucket > cursor}

\* computeDelta: the rows from the cursor on.
Fresh(R, cursor) == {r \in R : cursor = None \/ r.bucket >= cursor}

\* computeDelta: the cursor moves to the newest row, never back.
Advance(R, cursor) ==
  IF R = {} THEN cursor
  ELSE LET newest == CHOOSE b \in Times(R) : IsNewest(b, R)
       IN IF cursor # None /\ cursor > newest THEN cursor ELSE newest

\* The frame deliver sends of a result's rows to a subscriber at a cursor.
Cut(R, cursor) ==
  [fresh  |-> Fresh(R, cursor),
   since  |-> cursor,
   oldest |-> IF cursor = None THEN None ELSE OldestTime(R)]

Newer(T, b) == {x \in T : x > b}

\* fitToWindow, newest: the rows of the newest Points buckets.
Fit(R) == {r \in R : Cardinality(Newer(Times(R), r.bucket)) < Points}

\* The rows a frame keeps of those the browser holds.  One without since is a
\* replace and keeps none.
Kept(prev, f) == {r \in prev : f.since # None /\ r.bucket < f.since}

\* mergePanelRows: the frame covers every row from since on; what is older than
\* the whole result's oldest row goes.
Merge(prev, f) ==
  Fit({r \in f.fresh \cup Kept(prev, f) : f.oldest = None \/ r.bucket >= f.oldest})
=============================================================================
