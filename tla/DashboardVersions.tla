------------------------- MODULE DashboardVersions --------------------------
(* The writers of one dashboard at the database: a save (PUT), a rename      *)
(* (PATCH), a restore and a delete, each a handler that reads the dashboard, *)
(* then runs saveDashboardVersion's transaction (lib/db/repo.ts and the      *)
(* routes under app/api/dashboards/[id]).                                    *)
(*                                                                           *)
(* PostgreSQL runs it READ COMMITTED: a statement sees what had committed    *)
(* when it began. So the next number is read in one step and used in         *)
(* another; an insert of a number somebody else has inserted waits for that  *)
(* transaction, and fails when it commits. From its insert on nothing can    *)
(* stop a transaction but the loss of its connection, and its statements     *)
(* are one step with the commit.                                             *)
EXTENDS Naturals, FiniteSets, FiniteSetsExt

CONSTANTS
    Writers,
    Panels, Titles,
    Keep,
    Overtaking,     \* may Keep saves land between two statements of another's?
    Before,         \* versions saved before it all starts
    MaxVersion,     \* bound: no handler starts once this version is there
    None

Specs == [title : Titles, panels : Panels]

ASSUME VersionsAssumption ==
    /\ IsFiniteSet(Writers) /\ Keep \in Nat /\ MaxVersion \in Nat
    /\ Overtaking \in BOOLEAN
    /\ Before \in Nat \ {0} /\ (Keep # 0 => Before <= Keep)
    /\ Panels # {} /\ Titles # {} /\ None \notin Specs

VARIABLES
    rows,       \* dashboard_versions: the committed versions
    dash,       \* dashboards: current version, title, deleted_at
    job         \* per writer: its handler

db == <<rows, dash>>
versionVars == <<rows, dash, job>>
Free == [stage |-> "free"]
InTransaction == {"numbered", "inserted"}

VersionsInit ==
    /\ rows \in [1..Before -> Specs]
    /\ dash = [current |-> Before, title |-> rows[Before].title, deleted |-> FALSE]
    /\ job = [w \in Writers |-> Free]

-----------------------------------------------------------------------------
(* The handlers read the dashboard first: no version of a deleted one. A save *)
(* brings its spec, and asks nothing about the version it was made from.     *)
Ready(kind, spec) == [stage |-> "ready", kind |-> kind, spec |-> spec]
Starts(w) == job[w] = Free /\ ~dash.deleted /\ dash.current < MaxVersion

Put(w, spec) ==
    /\ Starts(w)
    /\ job' = [job EXCEPT ![w] = Ready("save", spec)]
    /\ UNCHANGED db

\* PATCH: the spec that was read, under another title.
Rename(w) ==
    /\ Starts(w)
    /\ \E t \in Titles \ {dash.title} :
          job' = [job EXCEPT ![w] = Ready("rename", [rows[dash.current] EXCEPT !.title = t])]
    /\ UNCHANGED db

\* A restore reads the dashboard, then the version it is to copy, which may
\* have been let go in between.
Restore(w) ==
    /\ Starts(w)
    /\ \E v \in DOMAIN rows \ {dash.current} :
          job' = [job EXCEPT ![w] = [stage |-> "target", version |-> v]]
    /\ UNCHANGED db
ReadTarget(w) ==
    /\ job[w].stage = "target"
    /\ job' = [job EXCEPT ![w] = IF @.version \in DOMAIN rows
                                 THEN Ready("restore", rows[@.version])
                                 ELSE [stage |-> "refused"]]
    /\ UNCHANGED db

SoftDelete ==
    /\ ~dash.deleted
    /\ dash' = [dash EXCEPT !.deleted = TRUE]
    /\ UNCHANGED <<rows, job>>

-----------------------------------------------------------------------------
(* saveDashboardVersion                                                      *)

\* Wrong: the versions there are, counted.
CountAndOne == Cardinality(DOMAIN rows) + 1

NextNumber == Max(DOMAIN rows) + 1
ReadNext(w) ==
    /\ job[w].stage = "ready"
    /\ job' = [job EXCEPT ![w] = [stage |-> "numbered", kind |-> @.kind, spec |-> @.spec,
                                  next |-> NextNumber, seen |-> dash.current]]
    /\ UNCHANGED db

\* Wrong: the insert looks only at what has committed.
InsertAnyway(w) ==
    /\ job[w].stage = "numbered"
    /\ job' = [job EXCEPT ![w] = IF @.next \in DOMAIN rows
                                 THEN [stage |-> "failed", seen |-> @.seen]
                                 ELSE [@ EXCEPT !.stage = "inserted"]]
    /\ UNCHANGED db

\* The unique key of (dashboard_id, version).
Insert(w) ==
    /\ job[w].stage = "numbered"
    /\ \A u \in Writers \ {w} :
          ~(job[u].stage = "inserted" /\ job[u].next = job[w].next)
    /\ job' = [job EXCEPT ![w] = IF @.next \in DOMAIN rows
                                 THEN [stage |-> "failed", seen |-> @.seen]
                                 ELSE [@ EXCEPT !.stage = "inserted"]]
    /\ UNCHANGED db

\* Wrong: one version too few is kept.
PrunedOneMore(n) == IF Keep = 0 THEN {} ELSE {v \in DOMAIN rows : v + Keep <= n + 1}

\* version <= new - keep, and never the new one.
Pruned(n) == IF Keep = 0 THEN {} ELSE {v \in DOMAIN rows : v + Keep <= n}
\* By default a hundred versions are kept: nobody is that slow.
NobodyOvertaken(n) ==
    Keep = 0 \/ \A w \in Writers : job[w].stage = "numbered" => n < job[w].next + Keep
Commit(w) ==
    /\ job[w].stage = "inserted"
    /\ Overtaking \/ NobodyOvertaken(job[w].next)
    /\ LET n == job[w].next IN
       /\ rows' = [v \in (DOMAIN rows \ Pruned(n)) \union {n} |->
                      IF v = n THEN job[w].spec ELSE rows[v]]
       /\ dash' = [dash EXCEPT !.current = n, !.title = job[w].spec.title]
       /\ job' = [job EXCEPT ![w] = [stage |-> "done", version |-> n]]

\* The spec does not validate, a source of it is gone, or the connection is
\* lost: the transaction rolls back if it had begun.
Abort(w) ==
    /\ job[w].stage \in {"ready"} \union InTransaction
    /\ job' = [job EXCEPT ![w] = [stage |-> "refused"]]
    /\ UNCHANGED db

\* The response: 200, or a 404 or 500.
Answered == {"done", "failed", "refused"}
Respond(w) ==
    /\ job[w].stage \in Answered
    /\ job' = [job EXCEPT ![w] = Free]
    /\ UNCHANGED db

Save(w) == ReadNext(w) \/ Insert(w) \/ Commit(w)

-----------------------------------------------------------------------------
(* Properties                                                                *)

\* Saves in any order, at once or cut off, add up to one history: numbered
\* without a gap, never rewritten, pruned to the newest, and shown as its
\* newest version says. (With Overtaking it is not: a number that was pruned
\* again before its insert is free, and the save that takes it becomes current
\* below the newest, against the comment at repo.ts:715.)
History == INSTANCE VersionHistory
    WITH kept <- rows, current <- dash.current, title <- dash.title, deleted <- dash.deleted
IsAHistory == History!HistorySpec

\* A save that fails on the unique key lost to one that landed since it read
\* the number to take: of saves at once somebody's is kept.
LostToAnother == \A w \in Writers : job[w].stage = "failed" => dash.current > job[w].seen

\* "a rename here appends a version whose spec differs only in its title"
\* (route.ts:96-97): from the version before it, which the code does not keep
\* to when a save lands while the rename is at work.
RenameKeepsPanels ==
    [][\A w \in Writers :
          Commit(w) /\ job[w].kind = "rename" => job[w].spec.panels = rows[dash.current].panels]_versionVars
=============================================================================
