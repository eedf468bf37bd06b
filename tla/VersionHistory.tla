--------------------------- MODULE VersionHistory ---------------------------
(* What the history of a dashboard promises (the migration's comments and    *)
(* saveDashboardVersion's): saves are appended one after another, each under *)
(* the next number; a version is never changed, only the oldest are let go;  *)
(* and the dashboard is what its newest version says.                        *)
EXTENDS Naturals, FiniteSets

CONSTANTS
    Specs,      \* what a version can say: a title and panels
    Keep,       \* DASHBOARD_VERSIONS_KEEP, 0 for all of them
    Before      \* how many there are at first

VARIABLES
    kept,       \* the versions there are: a number to what it says
    current,    \* the number of the one that is shown
    title,      \* the dashboard's name in lists
    deleted

history == <<kept, current, title, deleted>>

Oldest(n) == IF Keep = 0 \/ n <= Keep THEN 1 ELSE n - Keep + 1

Append(spec) ==
    LET n == current + 1 IN
    /\ current' = n
    /\ title' = spec.title
    /\ kept' = [v \in {u \in DOMAIN kept : u >= Oldest(n)} \union {n} |->
                    IF v = n THEN spec ELSE kept[v]]
    /\ UNCHANGED deleted

Delete == ~deleted /\ deleted' = TRUE /\ UNCHANGED <<kept, current, title>>

HistoryInit ==
    /\ kept \in [1..Before -> Specs]
    /\ current = Before /\ title = kept[Before].title
    /\ deleted = FALSE
HistorySpec == HistoryInit /\ [][(\E s \in Specs : Append(s)) \/ Delete]_history
=============================================================================
