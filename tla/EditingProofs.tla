---------------------------- MODULE EditingProofs -----------------------------
(* That the saves of any writers add up to one history, and what the editors *)
(* of any tabs keep of unsaved work, for every number of panels, titles,     *)
(* versions and writers.                                                     *)
(*                                                                           *)
(* What is proved of the history takes that nobody is overtaken: versions    *)
(* are kept for ever, or no save waits while as many others land as are kept.*)
(* The editors' work is in the draft without it.                             *)
EXTENDS EditorDrafts, FiniteSetTheorems, TLAPS

NobodyIsOvertaken == Keep = 0 \/ ~Overtaking

-----------------------------------------------------------------------------
(* The invariants                                                            *)

Kinds == {"save", "rename", "restore"}
Job ==
    [stage : {"free", "refused"}]
    \union [stage : {"target", "done"}, version : Nat]
    \union [stage : {"ready"}, kind : Kinds, spec : Specs]
    \union [stage : InTransaction, kind : Kinds, spec : Specs, next : Nat \ {0}, seen : Nat]
    \union [stage : {"failed"}, seen : Nat]

\* There are versions, one of them the newest; the current one is there.
VersionsTypes ==
    /\ DOMAIN rows \subseteq Nat \ {0} /\ rows \in [DOMAIN rows -> Specs]
    /\ \E n \in DOMAIN rows : \A v \in DOMAIN rows : v <= n
    /\ dash \in [current : Nat, title : Titles, deleted : BOOLEAN]
    /\ dash.current \in DOMAIN rows
    /\ job \in [Writers -> Job]

\* The versions there are end at the current one and begin at the oldest that
\* is kept.
InOneLine ==
    /\ DOMAIN rows = History!Oldest(dash.current)..dash.current
    /\ dash.title = rows[dash.current].title

\* Where a transaction that has its number stands to the current version.
InTurn(j) ==
    /\ j.stage \in InTransaction => j.seen <= dash.current /\ j.next = j.seen + 1
    /\ j.stage = "numbered" => Keep = 0 \/ dash.current < j.next + Keep
    /\ j.stage = "inserted" => j.next = dash.current + 1
    /\ j.stage = "failed" => j.seen < dash.current

OneInserted ==
    \A u, w \in Writers :
        job[u].stage = "inserted" /\ job[w].stage = "inserted" => u = w

HistoryInv ==
    /\ VersionsTypes /\ InOneLine /\ OneInserted
    /\ \A w \in Writers : InTurn(job[w])

Draft == [base : Nat, spec : Specs, from : Specs]
Page == [version : Nat, spec : Specs]
Sent == [tab : Tabs, spec : Specs]
OpenEditor ==
    [open : {TRUE}, spec : Specs, saved : Specs, version : Nat,
     offer : {NoOffer} \union [kind : {"conflict", "restorable"}, draft : Draft],
     timer : BOOLEAN, put : {None} \union Requests]
Editor == [open : {FALSE}] \union OpenEditor

EditorTypes ==
    /\ editor \in [Tabs -> Editor]
    /\ draft \in {None} \union Draft
    /\ touched \subseteq Tabs

\* What is on its way to a tab.
WaitingTypes ==
    /\ page \in [Tabs -> {None} \union Page]
    /\ sent \in [Requests -> {None} \union Sent]

\* An offer that is open stands over saved work: to edit is to decline it.
OfferOverSaved == \A t \in Tabs : Open(t) /\ editor[t].offer # NoOffer => ~Dirty(editor[t])

WorkInv == VersionsTypes /\ EditorTypes /\ WaitingTypes /\ OfferOverSaved /\ DraftHoldsWork

\* A save that somebody waits for is of what was sent.
Sending(j, spec) ==
    \/ j.stage \in {"ready"} \union InTransaction /\ j.spec = spec
    \/ j.stage \in Answered

\* Somewhere it is held that version v says spec: by the draft of what it was
\* made from, by a page, by an editor of what is saved, by an answer of what
\* it saved.
Said(v, spec) ==
    \/ draft # None /\ v = draft.base /\ spec = draft.from
    \/ \E t \in Tabs : page[t] # None /\ v = page[t].version /\ spec = page[t].spec
    \/ \E t \in Tabs : Open(t) /\ v = editor[t].version /\ spec = editor[t].saved
    \/ \E r \in Requests : /\ sent[r] # None /\ job[r].stage = "done"
                           /\ v = job[r].version /\ spec = sent[r].spec

\* Nobody has version v to be yet, and the current one says spec if it is v.
MadeFrom(v, spec) == v <= dash.current /\ (v = dash.current => spec = rows[v])

\* All that is held of versions is so, and nobody holds anything else of them.
SilenceInv ==
    /\ HistoryInv /\ WorkInv
    /\ \A r \in Requests : sent[r] # None => Sending(job[r], sent[r].spec)
    /\ \A v \in Nat, x \in Specs : Said(v, x) => MadeFrom(v, x)
    /\ \A v \in Nat, x, y \in Specs : Said(v, x) /\ Said(v, y) => x = y

-----------------------------------------------------------------------------
(* The steps of the writers                                                  *)

\* A handler's next step.
Writes(w) ==
    \/ \E spec \in Specs : Put(w, spec)
    \/ Rename(w) \/ Restore(w) \/ ReadTarget(w) \/ Save(w) \/ Abort(w) \/ Respond(w)

\* Whatever a tab or a writer does, the database sees a step of one handler,
\* a delete, or nothing.
LEMMA StepOfVersions ==
    ASSUME EditorTypes, [Next]_vars
    PROVE  UNCHANGED versionVars \/ SoftDelete \/ \E w \in Writers : Writes(w)
<1>1. ASSUME NEW w \in Writers, Elsewhere(w) \/ ReadTarget(w) \/ Save(w) \/ Abort(w)
      PROVE  Writes(w)
    BY <1>1 DEF Elsewhere, Writes
<1>2. ASSUME NEW t \in Tabs,
             \/ Load(t) \/ Mount(t) \/ Refresh(t) \/ Edit(t) \/ RestoreDraft(t)
             \/ DiscardDraft(t) \/ Autosave(t) \/ Leave(t) \/ Navigate(t) \/ Crash(t)
      PROVE  UNCHANGED versionVars
    BY <1>2 DEF Load, Mount, Refresh, Edit, RestoreDraft, DiscardDraft, Autosave, Leave, Navigate,
                Crash, versionVars
<1>3. ASSUME NEW t \in Tabs, SaveVersion(t)
      PROVE  \E w \in Writers : Writes(w)
    <2>1. editor[t] \in Editor /\ Open(t) /\ \E r \in Requests : Put(r, editor[t].spec)
        BY <1>3 DEF SaveVersion, EditorTypes
    <2>2. editor[t].spec \in Specs
        BY <2>1 DEF Editor, OpenEditor, Open
    <2> QED  BY <2>1, <2>2, EditorAssumption DEF Writes
<1>4. ASSUME NEW r \in Requests, Saved(r) \/ SavedAfterLeaving(r) \/ SaveFailed(r)
      PROVE  Writes(r)
    BY <1>4 DEF Saved, SavedAfterLeaving, SaveFailed, Answers, Writes
<1>5. CASE UNCHANGED vars
    BY <1>5 DEF vars, versionVars
<1> QED
    BY <1>1, <1>2, <1>3, <1>4, <1>5, EditorAssumption DEF Next

\* The number a save is to take follows the newest version.
LEMMA NextIsNew ==
    ASSUME VersionsTypes
    PROVE  /\ NextNumber \in Nat \ {0} /\ NextNumber \notin DOMAIN rows
           /\ \A n \in DOMAIN rows : (\A v \in DOMAIN rows : v <= n) => NextNumber = n + 1
<1>1. PICK n \in DOMAIN rows : \A v \in DOMAIN rows : v <= n
    BY DEF VersionsTypes
<1>2. DOMAIN rows \subseteq Nat
    BY DEF VersionsTypes
<1>3. \A m \in DOMAIN rows : (\A v \in DOMAIN rows : m >= v) => m = n
    BY <1>1, <1>2
<1>4. Max(DOMAIN rows) = n
    BY <1>1, <1>2, <1>3 DEF Max
<1> QED
    BY <1>1, <1>2, <1>3, <1>4 DEF NextNumber

\* What becomes of a handler in a step that is no commit: how its record j after
\* the step comes from the one before.
Becomes(w, j) ==
    \/ j.stage \in {"free", "refused", "target", "ready"}
    \/ /\ job[w].stage = "ready" /\ j.stage = "numbered" /\ j.spec = job[w].spec
       /\ j.next = NextNumber /\ j.seen = dash.current
    \/ /\ job[w].stage = "numbered" /\ j.stage = "inserted" /\ j.spec = job[w].spec
       /\ j.next = job[w].next /\ j.seen = job[w].seen
       /\ j.next \notin DOMAIN rows
       /\ \A u \in Writers \ {w} : ~(job[u].stage = "inserted" /\ job[u].next = j.next)
    \/ /\ job[w].stage = "numbered" /\ j.stage = "failed" /\ j.seen = job[w].seen
       /\ job[w].next \in DOMAIN rows

\* The records a handler may be at.
LEMMA ReadyMade ==
    ASSUME NEW kind \in Kinds, NEW spec \in Specs
    PROVE  Ready(kind, spec) \in Job /\ Ready(kind, spec).stage = "ready"
BY DEF Job, Ready

LEMMA JobMade ==
    ASSUME NEW kind \in Kinds, NEW spec \in Specs, NEW n \in Nat, NEW next \in Nat \ {0}
    PROVE  \A stage \in InTransaction :
                 [stage |-> stage, kind |-> kind, spec |-> spec, next |-> next, seen |-> n] \in Job
BY DEF Job

LEMMA JobRead ==
    ASSUME NEW j \in Job
    PROVE  /\ j.stage \in {"ready"} \union InTransaction => j.kind \in Kinds /\ j.spec \in Specs
           /\ j.stage \in {"target", "done"} => j.version \in Nat
           /\ j.stage \in InTransaction => j.next \in Nat \ {0} /\ j.seen \in Nat
           /\ j.stage = "failed" => j.seen \in Nat
           /\ j.stage = "numbered" =>
                 [j EXCEPT !.stage = "inserted"] = [stage |-> "inserted", kind |-> j.kind,
                    spec |-> j.spec, next |-> j.next, seen |-> j.seen]
<1>1. CASE j \in [stage : InTransaction, kind : Kinds, spec : Specs,
                  next : Nat \ {0}, seen : Nat]
    BY <1>1 DEF InTransaction
<1>2. CASE j \in [stage : {"free", "refused"}]
    BY <1>2 DEF InTransaction
<1>3. CASE j \in [stage : {"target", "done"}, version : Nat]
    BY <1>3 DEF InTransaction
<1>4. CASE j \in [stage : {"ready"}, kind : Kinds, spec : Specs]
    BY <1>4 DEF InTransaction
<1>5. CASE j \in [stage : {"failed"}, seen : Nat]
    BY <1>5 DEF InTransaction
<1> QED
    BY <1>1, <1>2, <1>3, <1>4, <1>5 DEF Job

LEMMA HandlerSteps ==
    ASSUME VersionsTypes, NEW w \in Writers, Writes(w), ~Commit(w)
    PROVE  /\ UNCHANGED db
           /\ \E j \in Job : job' = [job EXCEPT ![w] = j] /\ Becomes(w, j)
<1> DEFINE Goal == \E j \in Job : job' = [job EXCEPT ![w] = j] /\ Becomes(w, j)
<1>0. job[w] \in Job /\ dash.current \in Nat /\ NextNumber \in Nat \ {0} /\ DOMAIN rows \subseteq Nat
    BY NextIsNew DEF VersionsTypes
<1> SUFFICES Goal
    BY DEF Writes, Put, Rename, Restore, ReadTarget, Save, ReadNext, Insert, Abort, Respond
<1>1. ASSUME NEW spec \in Specs, Put(w, spec)
      PROVE  Goal
    <2>1. Ready("save", spec) \in Job /\ Ready("save", spec).stage = "ready"
        BY ReadyMade DEF Kinds
    <2> QED  BY <1>1, <2>1 DEF Put, Becomes
<1>2. CASE Rename(w)
    <2>1. PICK t \in Titles : job' = [job EXCEPT ![w] =
                                  Ready("rename", [rows[dash.current] EXCEPT !.title = t])]
        BY <1>2 DEF Rename
    <2> DEFINE spec == [rows[dash.current] EXCEPT !.title = t]
    <2>2. spec \in Specs
        BY DEF VersionsTypes, Specs
    <2> HIDE DEF spec
    <2>3. Ready("rename", spec) \in Job /\ Ready("rename", spec).stage = "ready"
        BY <2>2, ReadyMade DEF Kinds
    <2>4. job' = [job EXCEPT ![w] = Ready("rename", spec)]
        BY <2>1 DEF spec
    <2> QED  BY <2>3, <2>4 DEF Becomes
<1>3. CASE Restore(w)
    <2>1. PICK v \in DOMAIN rows : job' = [job EXCEPT ![w] = [stage |-> "target", version |-> v]]
        BY <1>3 DEF Restore
    <2>2. v \in Nat
        BY <1>0
    <2>3. [stage |-> "target", version |-> v] \in Job
        BY <2>2 DEF Job
    <2> QED  BY <2>1, <2>3 DEF Becomes
<1>4. CASE ReadTarget(w)
    <2>1. CASE job[w].version \in DOMAIN rows
        <3>1. rows[job[w].version] \in Specs
            BY <2>1 DEF VersionsTypes
        <3>2. Ready("restore", rows[job[w].version]) \in Job
              /\ Ready("restore", rows[job[w].version]).stage = "ready"
            BY <3>1, ReadyMade DEF Kinds
        <3>3. job' = [job EXCEPT ![w] = Ready("restore", rows[job[w].version])]
            BY <1>4, <2>1 DEF ReadTarget, VersionsTypes
        <3> QED  BY <3>2, <3>3 DEF Becomes
    <2>2. CASE job[w].version \notin DOMAIN rows
        <3>1. job' = [job EXCEPT ![w] = [stage |-> "refused"]]
            BY <1>4, <2>2 DEF ReadTarget, VersionsTypes
        <3>2. [stage |-> "refused"] \in Job
            BY DEF Job
        <3> QED  BY <3>1, <3>2 DEF Becomes
    <2> QED  BY <2>1, <2>2
<1>5. CASE ReadNext(w)
    <2> DEFINE j == [stage |-> "numbered", kind |-> job[w].kind, spec |-> job[w].spec,
                     next |-> NextNumber, seen |-> dash.current]
    <2>1. job[w].stage = "ready" /\ job' = [job EXCEPT ![w] = j]
        BY <1>5 DEF ReadNext, VersionsTypes
    <2>2. job[w].kind \in Kinds /\ job[w].spec \in Specs
        BY <1>0, <2>1, JobRead
    <2>3. j \in Job
        BY <1>0, <2>2, JobMade DEF InTransaction
    <2> QED  BY <2>1, <2>3 DEF Becomes
<1>6. CASE Insert(w)
    <2> DEFINE k == job[w]
    <2>1. k.stage = "numbered"
          /\ \A u \in Writers \ {w} : ~(job[u].stage = "inserted" /\ job[u].next = k.next)
        BY <1>6 DEF Insert
    <2>2. k.kind \in Kinds /\ k.spec \in Specs /\ k.next \in Nat \ {0} /\ k.seen \in Nat
        BY <1>0, <2>1, JobRead DEF InTransaction
    <2>3. CASE k.next \in DOMAIN rows
        <3> DEFINE j == [stage |-> "failed", seen |-> k.seen]
        <3>1. job' = [job EXCEPT ![w] = j]
            BY <1>6, <2>3 DEF Insert, VersionsTypes
        <3>2. j \in Job
            BY <2>2 DEF Job
        <3> QED  BY <2>1, <2>3, <3>1, <3>2 DEF Becomes
    <2>4. CASE k.next \notin DOMAIN rows
        <3> DEFINE j == [stage |-> "inserted", kind |-> k.kind, spec |-> k.spec,
                         next |-> k.next, seen |-> k.seen]
        <3>1. job' = [job EXCEPT ![w] = [job[w] EXCEPT !.stage = "inserted"]]
            BY <1>6, <2>4 DEF Insert, VersionsTypes
        <3>2. j \in Job /\ [job[w] EXCEPT !.stage = "inserted"] = j
            BY <1>0, <2>1, <2>2, JobMade, JobRead DEF InTransaction
        <3>3. job' = [job EXCEPT ![w] = j]
            BY <3>1, <3>2, Zenon
        <3> QED  BY <2>1, <2>4, <3>2, <3>3 DEF Becomes
    <2> QED  BY <2>3, <2>4
<1>7. CASE Abort(w) \/ Respond(w)
    <2>1. Free \in Job /\ [stage |-> "refused"] \in Job
        BY DEF Job, Free
    <2> QED  BY <1>7, <2>1 DEF Abort, Respond, Free, Becomes
<1> QED
    BY <1>1, <1>2, <1>3, <1>4, <1>5, <1>6, <1>7 DEF Writes, Save

\* What a commit leaves: its version, and of the others those that are kept.
LEMMA CommitLeaves ==
    ASSUME VersionsTypes, NEW w \in Writers, Commit(w), NEW n, n = job[w].next
    PROVE  /\ job[w].stage = "inserted" /\ n \in Nat \ {0} /\ job[w].spec \in Specs
           /\ DOMAIN rows' = (DOMAIN rows \ Pruned(n)) \union {n}
           /\ rows'[n] = job[w].spec
           /\ \A v \in DOMAIN rows' \ {n} : v \in DOMAIN rows /\ rows'[v] = rows[v]
           /\ dash' = [current |-> n, title |-> job[w].spec.title, deleted |-> dash.deleted]
           /\ job' = [job EXCEPT ![w] = [stage |-> "done", version |-> n]]
<1>1. job[w].stage = "inserted" /\ job[w] \in Job
    BY DEF Commit, VersionsTypes
<1>2. n \in Nat \ {0} /\ job[w].spec \in Specs
    BY <1>1, JobRead DEF InTransaction
<1>3. rows' = [v \in (DOMAIN rows \ Pruned(n)) \union {n} |->
                  IF v = n THEN job[w].spec ELSE rows[v]]
    BY DEF Commit
<1>4. dash' = [current |-> n, title |-> job[w].spec.title, deleted |-> dash.deleted]
    BY DEF Commit, VersionsTypes
<1> QED
    BY <1>1, <1>2, <1>3, <1>4 DEF Commit

LEMMA VersionsTypesCommit ==
    ASSUME VersionsTypes, NEW w \in Writers, Commit(w)
    PROVE  VersionsTypes'
<1> DEFINE n == job[w].next
<1>1. PICK m \in DOMAIN rows : \A v \in DOMAIN rows : v <= m
    BY DEF VersionsTypes
<1>2. /\ n \in Nat \ {0} /\ job[w].spec \in Specs /\ job[w].spec.title \in Titles
      /\ DOMAIN rows \subseteq Nat \ {0} /\ m \in Nat
    BY <1>1, CommitLeaves DEF VersionsTypes, Specs
<1>3. DOMAIN rows' = (DOMAIN rows \ Pruned(n)) \union {n}
    BY CommitLeaves
<1>4. DOMAIN rows' \subseteq Nat \ {0}
    BY <1>2, <1>3
<1>5. rows' \in [DOMAIN rows' -> Specs]
    <2>1. \A v \in DOMAIN rows' : rows'[v] \in Specs
        BY CommitLeaves DEF VersionsTypes
    <2>2. rows' = [v \in DOMAIN rows' |-> rows'[v]]
        BY <1>3 DEF Commit
    <2> QED  BY <2>1, <2>2
<1>6. \E k \in DOMAIN rows' : \A v \in DOMAIN rows' : v <= k
    <2>1. CASE m <= n
        <3>1. \A v \in DOMAIN rows' : v <= n
            BY <1>1, <1>2, <1>3, <2>1
        <3> QED  BY <1>3, <3>1
    <2>2. CASE ~(m <= n)
        <3>1. m \notin Pruned(n)
            BY <1>2, <2>2, VersionsAssumption DEF Pruned
        <3>2. \A v \in DOMAIN rows' : v <= m
            BY <1>1, <1>2, <1>3, <2>2
        <3> QED  BY <1>1, <1>3, <3>1, <3>2
    <2> QED  BY <2>1, <2>2
<1>7. dash' \in [current : Nat, title : Titles, deleted : BOOLEAN] /\ dash'.current = n
    <2>1. dash' = [current |-> n, title |-> job[w].spec.title, deleted |-> dash.deleted]
        BY CommitLeaves
    <2> QED  BY <1>2, <2>1 DEF VersionsTypes
<1>8. job' \in [Writers -> Job]
    <2>1. [stage |-> "done", version |-> n] \in Job
        BY <1>2 DEF Job
    <2>2. job' = [job EXCEPT ![w] = [stage |-> "done", version |-> n]]
        BY CommitLeaves
    <2> QED  BY <2>1, <2>2 DEF VersionsTypes
<1> QED
    BY <1>3, <1>4, <1>5, <1>6, <1>7, <1>8 DEF VersionsTypes

LEMMA VersionsTypesStep ==
    ASSUME VersionsTypes, EditorTypes, [Next]_vars
    PROVE  VersionsTypes'
<1>1. CASE UNCHANGED versionVars
    BY <1>1 DEF VersionsTypes, versionVars
<1>2. CASE SoftDelete
    BY <1>2 DEF VersionsTypes, SoftDelete
<1>3. ASSUME NEW w \in Writers, Commit(w)
      PROVE  VersionsTypes'
    BY <1>3, VersionsTypesCommit
<1>4. ASSUME NEW w \in Writers, Writes(w), ~Commit(w)
      PROVE  VersionsTypes'
    <2>1. PICK j \in Job : job' = [job EXCEPT ![w] = j]
        BY <1>4, HandlerSteps
    <2>2. rows' = rows /\ dash' = dash
        BY <1>4, HandlerSteps DEF db
    <2>3. job' \in [Writers -> Job]
        BY <2>1 DEF VersionsTypes
    <2> QED  BY <2>2, <2>3 DEF VersionsTypes
<1> QED
    BY <1>1, <1>2, <1>3, <1>4, StepOfVersions DEF Writes, Save

-----------------------------------------------------------------------------
(* One history                                                               *)

LEMMA HistoryInvInit == Init => HistoryInv
<1> SUFFICES ASSUME Init PROVE HistoryInv
    OBVIOUS
<1>1. PICK r \in [1..Before -> Specs] : rows = r
    BY DEF Init, VersionsInit
<1>2. DOMAIN rows = 1..Before /\ Before \in Nat \ {0} /\ rows[Before] \in Specs
    BY <1>1, VersionsAssumption
<1>3. dash = [current |-> Before, title |-> rows[Before].title, deleted |-> FALSE]
    BY DEF Init, VersionsInit
<1>4. job = [w \in Writers |-> Free] /\ Free \in Job
    BY DEF Init, VersionsInit, Free, Job
<1>5. VersionsTypes
    <2>1. \A v \in DOMAIN rows : v <= Before
        BY <1>2
    <2>2. dash \in [current : Nat, title : Titles, deleted : BOOLEAN]
        BY <1>2, <1>3 DEF Specs
    <2>3. DOMAIN rows \subseteq Nat \ {0} /\ rows \in [DOMAIN rows -> Specs]
        BY <1>1, <1>2
    <2>4. dash.current = Before /\ Before \in DOMAIN rows
        BY <1>2, <1>3
    <2>5. job \in [Writers -> Job]
        BY <1>4
    <2> QED  BY <2>1, <2>2, <2>3, <2>4, <2>5 DEF VersionsTypes
<1>6. InOneLine
    <2>1. History!Oldest(Before) = 1
        BY VersionsAssumption DEF History!Oldest
    <2> QED  BY <1>2, <1>3, <2>1 DEF InOneLine
<1> QED
    BY <1>4, <1>5, <1>6 DEF HistoryInv, OneInserted, InTurn, Free, InTransaction

\* A transaction that has inserted its version commits the next one.
LEMMA CommitAppends ==
    ASSUME HistoryInv, NEW w \in Writers, Commit(w)
    PROVE  /\ job[w].next = dash.current + 1
           /\ DOMAIN rows' = History!Oldest(dash.current + 1)..(dash.current + 1)
           /\ History!Append(job[w].spec)
<1> DEFINE n == job[w].next
<1>1. VersionsTypes /\ InOneLine /\ dash.current \in Nat
    BY DEF HistoryInv, VersionsTypes
<1>2. n = dash.current + 1
    BY <1>1, CommitLeaves DEF HistoryInv, InTurn
<1>3. DOMAIN rows = History!Oldest(dash.current)..dash.current
    BY <1>1 DEF InOneLine
<1>4. DOMAIN rows \ Pruned(n) = {v \in DOMAIN rows : v >= History!Oldest(n)}
    <2>1. \A v \in DOMAIN rows : v \in Pruned(n) <=> ~(v >= History!Oldest(n))
        BY <1>1, <1>2, <1>3, VersionsAssumption DEF Pruned, History!Oldest
    <2> QED  BY <2>1
<1>5. {v \in DOMAIN rows : v >= History!Oldest(n)} \union {n} = History!Oldest(n)..n
    BY <1>1, <1>2, <1>3, VersionsAssumption DEF History!Oldest
<1>6. rows' = [v \in (DOMAIN rows \ Pruned(n)) \union {n} |->
                  IF v = n THEN job[w].spec ELSE rows[v]]
    BY DEF Commit
<1>7. rows' = [v \in {u \in DOMAIN rows : u >= History!Oldest(n)} \union {n} |->
                  IF v = n THEN job[w].spec ELSE rows[v]]
    BY <1>4, <1>6, Zenon
<1>8. dash' = [current |-> n, title |-> job[w].spec.title, deleted |-> dash.deleted]
    BY <1>1, CommitLeaves
<1>9. DOMAIN rows' = History!Oldest(n)..n
    BY <1>4, <1>5, <1>6
<1> QED
    BY <1>2, <1>7, <1>8, <1>9 DEF History!Append

LEMMA HistoryInvCommit ==
    ASSUME NobodyIsOvertaken, HistoryInv, NEW w \in Writers, Commit(w)
    PROVE  HistoryInv'
<1> DEFINE n == job[w].next
<1>1. VersionsTypes /\ VersionsTypes' /\ dash.current \in Nat
    BY VersionsTypesCommit DEF HistoryInv, VersionsTypes
<1>2. n = dash.current + 1 /\ DOMAIN rows' = History!Oldest(n)..n
    BY CommitAppends
<1>3. dash'.current = n /\ dash'.title = job[w].spec.title /\ rows'[n] = job[w].spec
      /\ job[w].stage = "inserted"
    <2>1. dash' = [current |-> n, title |-> job[w].spec.title, deleted |-> dash.deleted]
        BY <1>1, CommitLeaves
    <2>2. rows'[n] = job[w].spec /\ job[w].stage = "inserted"
        BY <1>1, CommitLeaves
    <2> QED  BY <2>1, <2>2
<1>4. job' = [job EXCEPT ![w] = [stage |-> "done", version |-> n]]
    BY <1>1, CommitLeaves
<1>5. InOneLine'
    BY <1>2, <1>3 DEF InOneLine
<1>6. ASSUME NEW u \in Writers, u # w
      PROVE  job'[u] = job[u] /\ job'[u].stage # "inserted" /\ InTurn(job[u])'
    <2>1. job'[u] = job[u] /\ job[u] \in Job /\ InTurn(job[u])
        BY <1>1, <1>4, <1>6 DEF VersionsTypes, HistoryInv
    <2>2. job[u].stage # "inserted"
        BY <1>3, <1>6 DEF HistoryInv, OneInserted
    <2>3. job[u].stage = "numbered" => Keep = 0 \/ n < job[u].next + Keep
        BY DEF Commit, NobodyOvertaken, NobodyIsOvertaken
    <2>4. job[u].stage \in InTransaction => job[u].seen \in Nat
        BY <2>1, JobRead
    <2>5. job[u].stage = "failed" => job[u].seen \in Nat
        BY <2>1, JobRead
    <2> QED  BY <1>1, <1>2, <1>3, <2>1, <2>2, <2>3, <2>4, <2>5 DEF InTurn
<1>7. job'[w] = [stage |-> "done", version |-> n]
    BY <1>1, <1>4 DEF VersionsTypes
<1>8. job'[w].stage = "done"
    BY <1>7
<1>9. OneInserted'
    BY <1>6, <1>8 DEF OneInserted
<1>10. InTurn(job[w])'
    BY <1>8 DEF InTurn, InTransaction
<1> QED
    BY <1>1, <1>5, <1>6, <1>9, <1>10 DEF HistoryInv

LEMMA HistoryInvHandler ==
    ASSUME HistoryInv, NEW w \in Writers, Writes(w), ~Commit(w), VersionsTypes'
    PROVE  HistoryInv'
<1>1. VersionsTypes /\ InOneLine /\ dash.current \in Nat /\ dash.current \in DOMAIN rows
      /\ job[w] \in Job /\ InTurn(job[w])
    BY DEF HistoryInv, VersionsTypes
<1>2. PICK j \in Job : job' = [job EXCEPT ![w] = j] /\ Becomes(w, j)
    BY <1>1, HandlerSteps
<1>3. rows' = rows /\ dash' = dash
    BY <1>1, HandlerSteps DEF db
<1>4. DOMAIN rows = History!Oldest(dash.current)..dash.current
    BY <1>1 DEF InOneLine
<1>5. NextNumber = dash.current + 1
    <2>1. \A v \in DOMAIN rows : v <= dash.current
        BY <1>1, <1>4 DEF History!Oldest
    <2> QED  BY <1>1, <2>1, NextIsNew
<1>6. j.stage = "inserted" => j.next = dash.current + 1
    <2> SUFFICES ASSUME j.stage = "inserted" PROVE j.next = dash.current + 1
        OBVIOUS
    <2>1. job[w].stage = "numbered" /\ j.next = job[w].next /\ j.next \notin DOMAIN rows
        BY <1>2 DEF Becomes
    <2>2. job[w].next \in Nat \ {0} /\ job[w].seen \in Nat
        BY <1>1, <2>1, JobRead DEF InTransaction
    <2>3. job[w].next <= dash.current + 1 /\ (Keep = 0 \/ dash.current < job[w].next + Keep)
        BY <1>1, <2>1, <2>2 DEF InTurn, InTransaction
    <2> QED  BY <1>1, <1>4, <2>1, <2>2, <2>3, VersionsAssumption DEF History!Oldest
<1>7. InTurn(j)
    <2>1. CASE j.stage \in {"free", "refused", "target", "ready", "done"}
        BY <2>1 DEF InTurn, InTransaction
    <2>2. CASE j.stage = "numbered"
        BY <1>1, <1>2, <1>5, <2>2, VersionsAssumption DEF Becomes, InTurn, InTransaction
    <2>3. CASE j.stage = "inserted"
        BY <1>1, <1>2, <1>6, <2>3 DEF Becomes, InTurn, InTransaction
    <2>4. CASE j.stage = "failed"
        <3>1. job[w].stage = "numbered" /\ j.seen = job[w].seen /\ job[w].next \in DOMAIN rows
            BY <1>2, <2>4 DEF Becomes
        <3>2. job[w].next = job[w].seen + 1 /\ job[w].seen \in Nat
            BY <1>1, <3>1, JobRead DEF InTurn, InTransaction
        <3>3. job[w].next <= dash.current
            BY <1>1, <1>4, <3>1 DEF History!Oldest
        <3> QED  BY <1>1, <2>4, <3>1, <3>2, <3>3 DEF InTurn, InTransaction
    <2> QED  BY <1>2, <2>1, <2>2, <2>3, <2>4 DEF Becomes
<1>8. job'[w] = j /\ \A u \in Writers \ {w} : job'[u] = job[u]
    BY <1>1, <1>2 DEF VersionsTypes
<1>9. OneInserted'
    <2>1. ASSUME NEW u \in Writers \ {w}, j.stage = "inserted", job[u].stage = "inserted"
          PROVE  FALSE
        <3>1. job[u].next = dash.current + 1
            BY <2>1 DEF HistoryInv, InTurn
        <3> QED  BY <1>2, <1>6, <2>1, <3>1 DEF Becomes
    <2> QED  BY <1>8, <2>1 DEF OneInserted, HistoryInv
<1>10. InOneLine'
    BY <1>1, <1>3 DEF InOneLine
<1>11. \A u \in Writers : InTurn(job[u])'
    <2>1. \A u \in Writers : InTurn(job'[u])
        BY <1>7, <1>8 DEF HistoryInv
    <2> QED  BY <1>3, <2>1 DEF InTurn
<1> QED
    BY <1>9, <1>10, <1>11 DEF HistoryInv

LEMMA HistoryInvStep ==
    ASSUME NobodyIsOvertaken, HistoryInv, EditorTypes, [Next]_vars
    PROVE  HistoryInv'
<1>1. VersionsTypes'
    BY VersionsTypesStep DEF HistoryInv
<1>2. CASE UNCHANGED versionVars
    BY <1>1, <1>2 DEF HistoryInv, InOneLine, OneInserted, InTurn, versionVars
<1>3. CASE SoftDelete
    <2>1. dash'.current = dash.current /\ dash'.title = dash.title /\ rows' = rows /\ job' = job
        BY <1>3 DEF SoftDelete, HistoryInv, VersionsTypes
    <2> QED  BY <1>1, <2>1 DEF HistoryInv, InOneLine, OneInserted, InTurn
<1>4. ASSUME NEW w \in Writers, Commit(w)
      PROVE  HistoryInv'
    BY <1>4, HistoryInvCommit
<1>5. ASSUME NEW w \in Writers, Writes(w), ~Commit(w)
      PROVE  HistoryInv'
    BY <1>1, <1>5, HistoryInvHandler
<1> QED
    BY <1>2, <1>3, <1>4, <1>5, StepOfVersions DEF Writes, Save

-----------------------------------------------------------------------------
(* What the steps of a tab make of its editor and of the draft               *)

LEMMA OpenIsTyped ==
    ASSUME EditorTypes, NEW t \in Tabs
    PROVE  /\ Open(t) <=> editor[t] \in OpenEditor
           /\ Closed \in Editor /\ ~Closed.open
BY DEF EditorTypes, Editor, OpenEditor, Open, Closed

\* The draft after a step of tab t: as it was; as it was, for a tab that closed;
\* or what t wrote, which the other open tabs have not noticed.
DraftAfter(t) ==
    \/ UNCHANGED <<draft, touched>>
    \/ draft' = draft /\ touched' = touched \ {t}
    \/ /\ draft' = None \/ (Open(t) /\ draft' = [base |-> editor[t].version,
                                spec |-> editor[t].spec, from |-> editor[t].saved])
       /\ touched' = (touched \ {t}) \union (OpenTabs \ {t})

LEMMA ClearsOrNot ==
    ASSUME NEW t \in Tabs, NEW e, RenderedDraft(t, e) \/ ClearDraft(t)
    PROVE  DraftAfter(t)
BY DEF RenderedDraft, ClearDraft, KeepDraft, DraftAfter

\* The editor k that a step leaves tab t with: unsaved work is in the draft,
\* unless it is on the timer's way there or t has lost the draft to another.
Leaves(t, k) ==
    /\ editor' = [editor EXCEPT ![t] = k]
    /\ DraftAfter(t)
    /\ k.open /\ k.offer # NoOffer => k.spec = k.saved
    /\ k.open /\ k.spec # k.saved /\ ~k.timer /\ t \notin touched' =>
          draft' # None /\ draft'.spec = k.spec

\* What a render makes of the editor it is given.
LEMMA RenderLeaves ==
    ASSUME EditorTypes, NEW t \in Tabs, NEW e \in OpenEditor, Rendered(t, e),
           RenderedDraft(t, e) \/ ClearDraft(t)
    PROVE  \E k \in OpenEditor :
              /\ Leaves(t, k)
              /\ k.saved = e.saved /\ k.version = e.version /\ k.offer \in {NoOffer, e.offer}
<1> DEFINE k1 == [e EXCEPT !.offer = NoOffer, !.timer = TRUE]
           k2 == [e EXCEPT !.timer = FALSE]
<1>1. /\ k1 \in OpenEditor /\ k1.spec = e.spec /\ k1.saved = e.saved /\ k1.version = e.version
      /\ k1.offer = NoOffer /\ k1.timer
    BY DEF OpenEditor
<1>2. /\ k2 \in OpenEditor /\ k2.spec = e.spec /\ k2.saved = e.saved /\ k2.version = e.version
      /\ k2.offer = e.offer
    BY DEF OpenEditor
<1>3. IF Dirty(e) THEN editor' = [editor EXCEPT ![t] = k1] ELSE editor' = [editor EXCEPT ![t] = k2]
    BY DEF Rendered
<1>4. DraftAfter(t)
    BY ClearsOrNot
<1> HIDE DEF k1, k2
<1>5. CASE Dirty(e)
    <2>1. Leaves(t, k1)
        BY <1>1, <1>3, <1>4, <1>5 DEF Leaves
    <2> QED  BY <1>1, <2>1
<1>6. CASE ~Dirty(e)
    <2>1. Leaves(t, k2)
        BY <1>2, <1>3, <1>4, <1>6 DEF Leaves, Dirty
    <2> QED  BY <1>2, <2>1
<1> QED
    BY <1>5, <1>6

LEMMA OfferMade ==
    ASSUME EditorTypes, NEW p \in Page
    PROVE  /\ Offer(p) \in {NoOffer} \union [kind : {"conflict", "restorable"}, draft : Draft]
           /\ Offer(p).kind = "none" => Offer(p) = NoOffer
           /\ Offer(p).kind = "restorable" => draft # None /\ draft.base = p.version
<1>1. draft # None => draft \in Draft /\ draft.base \in Nat
    BY DEF EditorTypes, Draft
<1>2. p.version \in Nat
    BY DEF Page
<1> QED
    BY <1>1, <1>2 DEF Offer, NoOffer

\* An editor opens with what was rendered for its tab.
LEMMA MountLeaves ==
    ASSUME EditorTypes, WaitingTypes, NEW t \in Tabs, Mount(t)
    PROVE  /\ page[t] \in Page
           /\ \E k \in OpenEditor :
                 /\ Leaves(t, k)
                 /\ k.saved = page[t].spec /\ k.version = page[t].version
                 /\ k.offer \in {NoOffer, Offer(page[t])}
<1> DEFINE e == [open |-> TRUE, spec |-> page[t].spec, saved |-> page[t].spec,
                 version |-> page[t].version, offer |-> Offer(page[t]), timer |-> FALSE,
                 put |-> None]
<1>1. page[t] \in Page /\ page[t].spec \in Specs /\ page[t].version \in Nat
    BY DEF Mount, WaitingTypes, Page
<1>2. Offer(page[t]) \in {NoOffer} \union [kind : {"conflict", "restorable"}, draft : Draft]
    BY <1>1, OfferMade
<1>3. e \in OpenEditor /\ e.saved = page[t].spec /\ e.version = page[t].version
      /\ e.offer = Offer(page[t])
    BY <1>1, <1>2 DEF OpenEditor
<1>4. Rendered(t, e) /\ RenderedDraft(t, e)
    BY DEF Mount
<1> HIDE DEF e
<1>5. PICK k \in OpenEditor :
         /\ Leaves(t, k)
         /\ k.saved = e.saved /\ k.version = e.version /\ k.offer \in {NoOffer, e.offer}
    BY <1>3, <1>4, RenderLeaves
<1> QED
    BY <1>1, <1>3, <1>5

\* The draft is compared with what was rendered anew.
LEMMA RefreshLeaves ==
    ASSUME WorkInv, NEW t \in Tabs, Refresh(t)
    PROVE  /\ Open(t) /\ page[t] \in Page
           /\ \E k \in OpenEditor :
                 /\ Leaves(t, k)
                 /\ k.saved = editor[t].saved /\ k.version = editor[t].version
                 /\ k.offer \in {NoOffer, Offer(page[t])}
<1> DEFINE c == editor[t]
           e == [c EXCEPT !.offer = Offer(page[t])]
<1>0. EditorTypes /\ editor \in [Tabs -> Editor]
    BY DEF WorkInv, EditorTypes
<1>1. page[t] \in Page /\ Open(t)
    BY DEF Refresh, WaitingTypes, WorkInv
<1>2. c \in OpenEditor
    BY <1>0, <1>1, OpenIsTyped
<1>3. /\ Offer(page[t]) \in {NoOffer} \union [kind : {"conflict", "restorable"}, draft : Draft]
      /\ Offer(page[t]).kind = "none" => Offer(page[t]) = NoOffer
    BY <1>0, <1>1, OfferMade
<1>4. /\ e \in OpenEditor /\ e.spec = c.spec /\ e.saved = c.saved /\ e.version = c.version
      /\ e.timer = c.timer /\ e.offer = Offer(page[t])
    BY <1>2, <1>3 DEF OpenEditor
<1>5. IF e.offer.kind # c.offer.kind
      THEN Rendered(t, e) /\ RenderedDraft(t, e)
      ELSE editor' = [editor EXCEPT ![t] = e] /\ UNCHANGED <<draft, touched>>
    BY DEF Refresh
<1> HIDE DEF e
<1>6. CASE e.offer.kind # c.offer.kind
    <2>1. PICK k \in OpenEditor :
             /\ Leaves(t, k)
             /\ k.saved = e.saved /\ k.version = e.version /\ k.offer \in {NoOffer, e.offer}
        BY <1>0, <1>4, <1>5, <1>6, RenderLeaves
    <2> QED  BY <1>1, <1>4, <2>1
<1>7. CASE e.offer.kind = c.offer.kind
    <2>1. editor' = [editor EXCEPT ![t] = e] /\ UNCHANGED <<draft, touched>>
        BY <1>5, <1>7
    <2>2. e.offer # NoOffer => c.offer # NoOffer
        BY <1>3, <1>4, <1>7 DEF NoOffer
    <2>3. /\ c.offer # NoOffer => c.spec = c.saved
          /\ c.spec # c.saved /\ ~c.timer /\ t \notin touched => draft # None /\ draft.spec = c.spec
        BY <1>1 DEF WorkInv, OfferOverSaved, DraftHoldsWork, Dirty
    <2>4. Leaves(t, e)
        BY <1>4, <2>1, <2>2, <2>3 DEF Leaves, DraftAfter
    <2> QED  BY <1>1, <1>4, <2>4
<1> QED
    BY <1>6, <1>7

\* Editing, and taking the draft that is offered.
LEMMA EditLeaves ==
    ASSUME EditorTypes, NEW t \in Tabs, Edit(t) \/ RestoreDraft(t)
    PROVE  /\ Open(t)
           /\ \E k \in OpenEditor :
                 /\ Leaves(t, k)
                 /\ k.saved = editor[t].saved /\ k.version = editor[t].version
<1> DEFINE c == editor[t]
<1>1. Open(t) /\ c \in OpenEditor
    BY OpenIsTyped DEF Edit, RestoreDraft
<1>2. \E e \in OpenEditor :
         /\ Rendered(t, e) /\ RenderedDraft(t, e)
         /\ e.saved = c.saved /\ e.version = c.version
    <2>1. CASE Edit(t)
        <3>1. PICK p \in Panels : LET e == [c EXCEPT !.spec.panels = p] IN
                 Rendered(t, e) /\ RenderedDraft(t, e)
            BY <2>1 DEF Edit
        <3> DEFINE e == [c EXCEPT !.spec.panels = p]
        <3>2. e \in OpenEditor /\ e.saved = c.saved /\ e.version = c.version
            BY <1>1 DEF OpenEditor, Specs
        <3>3. Rendered(t, e) /\ RenderedDraft(t, e)
            BY <3>1
        <3> HIDE DEF e
        <3> QED  BY <3>2, <3>3
    <2>2. CASE RestoreDraft(t)
        <3> DEFINE e == [c EXCEPT !.spec = c.offer.draft.spec, !.offer = NoOffer]
        <3>1. c.offer.draft.spec \in Specs
            <4>1. c.offer \in [kind : {"conflict", "restorable"}, draft : Draft]
                BY <1>1, <2>2 DEF RestoreDraft, OpenEditor
            <4> QED  BY <4>1 DEF Draft
        <3>2. e \in OpenEditor /\ e.saved = c.saved /\ e.version = c.version
            BY <1>1, <3>1 DEF OpenEditor
        <3>3. Rendered(t, e) /\ RenderedDraft(t, e)
            BY <2>2 DEF RestoreDraft
        <3> HIDE DEF e
        <3> QED  BY <3>2, <3>3
    <2> QED  BY <2>1, <2>2
<1>3. PICK e \in OpenEditor :
         /\ Rendered(t, e) /\ RenderedDraft(t, e)
         /\ e.saved = c.saved /\ e.version = c.version
    BY <1>2
<1> QED
    BY <1>1, <1>3, RenderLeaves

\* What stays on the page while a draft is discarded or kept, and while a save
\* is sent.
LEMMA PageStays ==
    ASSUME WorkInv, NEW t \in Tabs, DiscardDraft(t) \/ Autosave(t) \/ SaveVersion(t)
    PROVE  /\ Open(t)
           /\ \E k \in OpenEditor :
                 /\ Leaves(t, k)
                 /\ k.saved = editor[t].saved /\ k.version = editor[t].version
<1> DEFINE c == editor[t]
<1>1. Open(t) /\ c \in OpenEditor
    BY OpenIsTyped DEF WorkInv, DiscardDraft, Autosave, SaveVersion
<1>2. /\ c.offer # NoOffer => c.spec = c.saved
      /\ c.spec # c.saved /\ ~c.timer /\ t \notin touched => draft # None /\ draft.spec = c.spec
    BY <1>1 DEF WorkInv, OfferOverSaved, DraftHoldsWork, Dirty
<1> DEFINE Stays(k) == k.spec = c.spec /\ k.saved = c.saved /\ k.version = c.version
<1>3. CASE DiscardDraft(t)
    <2> DEFINE k == [c EXCEPT !.offer = NoOffer]
    <2>1. k \in OpenEditor /\ Stays(k) /\ k.offer = NoOffer
        BY <1>1 DEF OpenEditor
    <2>2. editor' = [editor EXCEPT ![t] = k]
        BY <1>3 DEF DiscardDraft
    <2>3. DraftAfter(t)
        BY <1>3, ClearsOrNot DEF DiscardDraft
    <2>4. c.spec = c.saved
        BY <1>2, <1>3 DEF DiscardDraft
    <2> HIDE DEF k
    <2>5. Leaves(t, k)
        BY <2>1, <2>2, <2>3, <2>4 DEF Leaves
    <2> QED  BY <1>1, <2>1, <2>5
<1>4. CASE Autosave(t)
    <2> DEFINE k == [c EXCEPT !.timer = FALSE]
    <2>1. k \in OpenEditor /\ Stays(k) /\ k.offer = c.offer
        BY <1>1 DEF OpenEditor
    <2>2. /\ editor' = [editor EXCEPT ![t] = k]
          /\ draft' = [base |-> c.version, spec |-> c.spec, from |-> c.saved]
          /\ touched' = (touched \ {t}) \union (OpenTabs \ {t})
        BY <1>4 DEF Autosave, KeepDraft
    <2>3. DraftAfter(t)
        BY <1>1, <2>2 DEF DraftAfter
    <2>4. c.version \in Nat /\ c.spec \in Specs /\ c.saved \in Specs
        BY <1>1 DEF OpenEditor
    <2>5. draft' # None /\ draft'.spec = c.spec
        BY <2>2, <2>4, EditorAssumption
    <2> HIDE DEF k
    <2>6. Leaves(t, k)
        BY <1>2, <2>1, <2>2, <2>3, <2>5 DEF Leaves
    <2> QED  BY <1>1, <2>1, <2>6
<1>5. CASE SaveVersion(t)
    <2>1. PICK r \in Requests : editor' = [editor EXCEPT ![t].put = r]
        BY <1>5 DEF SaveVersion
    <2> DEFINE k == [c EXCEPT !.put = r]
    <2>2. k \in OpenEditor /\ Stays(k) /\ k.offer = c.offer /\ k.timer = c.timer
        BY <1>1 DEF OpenEditor
    <2>3. editor' = [editor EXCEPT ![t] = k] /\ UNCHANGED <<draft, touched>>
        BY <1>5, <2>1 DEF SaveVersion
    <2> HIDE DEF k
    <2>4. Leaves(t, k)
        BY <1>2, <2>2, <2>3 DEF Leaves, DraftAfter
    <2> QED  BY <1>1, <2>2, <2>4
<1> QED
    BY <1>3, <1>4, <1>5

\* A save that landed, and whose editor is still there: what was sent is saved
\* now.
LEMMA SavedLeaves ==
    ASSUME WorkInv, NEW r \in Requests, Saved(r)
    PROVE  /\ sent[r] \in Sent /\ job[r].stage = "done"
           /\ \E k \in OpenEditor :
                 /\ Leaves(sent[r].tab, k)
                 /\ k.saved = sent[r].spec /\ k.version = job[r].version
<1>1. sent[r] \in Sent /\ job[r].stage = "done" /\ job[r] \in Job
    BY EditorAssumption DEF Saved, Answers, WorkInv, WaitingTypes, VersionsTypes
<1>2. PICK t \in Tabs : t = sent[r].tab
    BY <1>1 DEF Sent
<1> DEFINE c == editor[t]
           e == [c EXCEPT !.saved = sent[r].spec, !.version = job[r].version,
                          !.offer = NoOffer, !.put = None]
<1>3. Open(t) /\ c \in OpenEditor /\ EditorTypes
    BY <1>2, OpenIsTyped DEF Saved, Awaits, WorkInv
<1>4. sent[r].spec \in Specs /\ job[r].version \in Nat
    BY <1>1, JobRead DEF Sent
<1>5. e \in OpenEditor /\ e.saved = sent[r].spec /\ e.version = job[r].version
    BY <1>3, <1>4 DEF OpenEditor
<1>6. Rendered(t, e) /\ ClearDraft(t)
    BY <1>2 DEF Saved, SavedBy
<1> HIDE DEF e
<1>7. PICK k \in OpenEditor : Leaves(t, k) /\ k.saved = e.saved /\ k.version = e.version
    BY <1>3, <1>5, <1>6, RenderLeaves
<1> QED
    BY <1>1, <1>2, <1>5, <1>7

\* A tab that is left, or gone.
LEMMA GoneLeaves ==
    ASSUME WorkInv, NEW t \in Tabs, Leave(t) \/ Navigate(t) \/ Crash(t)
    PROVE  Leaves(t, Closed)
<1>1. ~Closed.open
    BY DEF Closed
<1>2. editor' = [editor EXCEPT ![t] = Closed]
    BY DEF Leave, Navigate, Crash, Closes
<1>3. DraftAfter(t)
    <2>1. ClearDraft(t) \/ (draft' = draft /\ touched' = touched \ {t})
        BY DEF Leave, Navigate, Crash
    <2> QED  BY <2>1, ClearsOrNot DEF DraftAfter
<1> QED
    BY <1>1, <1>2, <1>3 DEF Leaves

\* Tab t does something to its editor, or has its save answered.
OfTab(t) ==
    \/ Mount(t) \/ Refresh(t) \/ Edit(t) \/ RestoreDraft(t) \/ DiscardDraft(t) \/ Autosave(t)
    \/ SaveVersion(t) \/ Leave(t) \/ Navigate(t) \/ Crash(t)
    \/ \E r \in Requests : Saved(r) /\ sent[r].tab = t

\* The editor it is left with, and where what it holds of its version is from.
LEMMA TabLeaves ==
    ASSUME WorkInv, NEW t \in Tabs, OfTab(t)
    PROVE  \E k \in Editor : Leaves(t, k) /\ (k.open => Said(k.version, k.saved))
<1>0. /\ EditorTypes /\ WaitingTypes /\ OpenEditor \subseteq Editor
      /\ Closed \in Editor /\ ~Closed.open
      /\ None \notin Page /\ None \notin Sent
    BY EditorAssumption DEF WorkInv, Closed, Editor, Page, Sent
<1>1. CASE Mount(t)
    <2>1. PICK k \in OpenEditor :
             Leaves(t, k) /\ k.saved = page[t].spec /\ k.version = page[t].version
        BY <1>0, <1>1, MountLeaves
    <2>2. page[t] # None
        BY <1>1 DEF Mount
    <2> QED  BY <1>0, <2>1, <2>2 DEF Said
<1>2. CASE Refresh(t) \/ Edit(t) \/ RestoreDraft(t) \/ DiscardDraft(t) \/ Autosave(t)
           \/ SaveVersion(t)
    <2>1. PICK k \in OpenEditor :
             Leaves(t, k) /\ k.saved = editor[t].saved /\ k.version = editor[t].version
        BY <1>0, <1>2, RefreshLeaves, EditLeaves, PageStays
    <2>2. Open(t)
        BY <1>0, <1>2, RefreshLeaves, EditLeaves, PageStays
    <2> QED  BY <1>0, <2>1, <2>2 DEF Said
<1>3. ASSUME NEW r \in Requests, Saved(r), sent[r].tab = t
      PROVE  \E k \in Editor : Leaves(t, k) /\ (k.open => Said(k.version, k.saved))
    <2>1. PICK k \in OpenEditor :
             Leaves(t, k) /\ k.saved = sent[r].spec /\ k.version = job[r].version
        BY <1>3, SavedLeaves
    <2>2. sent[r] # None /\ job[r].stage = "done"
        BY <1>0, <1>3, SavedLeaves
    <2> QED  BY <1>0, <2>1, <2>2 DEF Said
<1>4. CASE Leave(t) \/ Navigate(t) \/ Crash(t)
    BY <1>0, <1>4, GoneLeaves
<1> QED
    BY <1>1, <1>2, <1>3, <1>4 DEF OfTab

\* Whatever editor a tab is left with, the work of every tab is where it was
\* promised to be.
LEMMA WorkIsKept ==
    ASSUME WorkInv, NEW t \in Tabs, NEW k \in Editor, Leaves(t, k)
    PROVE  EditorTypes' /\ OfferOverSaved' /\ DraftHoldsWork'
<1>1. editor \in [Tabs -> Editor] /\ draft \in {None} \union Draft /\ touched \subseteq Tabs
    BY DEF WorkInv, EditorTypes
<1>2. editor' = [editor EXCEPT ![t] = k] /\ editor'[t] = k
    BY <1>1 DEF Leaves
<1>3. \A u \in Tabs \ {t} : editor'[u] = editor[u]
    BY <1>1, <1>2
<1>4. EditorTypes'
    <2>1. draft' \in {None} \union Draft
        <3>1. ASSUME Open(t)
              PROVE  [base |-> editor[t].version, spec |-> editor[t].spec,
                      from |-> editor[t].saved] \in Draft
            <4>1. editor[t] \in OpenEditor
                BY <3>1, OpenIsTyped DEF WorkInv
            <4> QED  BY <4>1 DEF OpenEditor, Draft
        <3> QED  BY <1>1, <3>1 DEF Leaves, DraftAfter
    <2>2. touched' \subseteq Tabs
        BY <1>1 DEF Leaves, DraftAfter, OpenTabs
    <2> QED  BY <1>1, <1>2, <2>1, <2>2 DEF EditorTypes
<1>5. OfferOverSaved'
    <2> SUFFICES ASSUME NEW u \in Tabs, editor'[u].open, editor'[u].offer # NoOffer
                 PROVE  editor'[u].spec = editor'[u].saved
        BY DEF OfferOverSaved, Open, Dirty
    <2>1. CASE u = t
        BY <1>2, <2>1 DEF Leaves
    <2>2. CASE u # t
        BY <1>3, <2>2 DEF WorkInv, OfferOverSaved, Open, Dirty
    <2> QED  BY <2>1, <2>2
<1>6. DraftHoldsWork'
    <2> SUFFICES ASSUME NEW u \in Tabs, u \notin touched', editor'[u].open,
                        editor'[u].spec # editor'[u].saved, ~editor'[u].timer
                 PROVE  draft' # None /\ draft'.spec = editor'[u].spec
        BY DEF DraftHoldsWork, Open, Dirty
    <2>1. CASE u = t
        BY <1>2, <2>1 DEF Leaves
    <2>2. CASE u # t
        <3>1. editor'[u] = editor[u] /\ Open(u)
            BY <1>3, <2>2 DEF Open
        <3>2. u \notin touched /\ draft' = draft
            BY <2>2, <3>1 DEF Leaves, DraftAfter, OpenTabs
        <3> QED  BY <3>1, <3>2 DEF WorkInv, DraftHoldsWork, Dirty
    <2> QED  BY <2>1, <2>2
<1> QED
    BY <1>4, <1>5, <1>6

-----------------------------------------------------------------------------
(* The work in the editors                                                   *)

LEMMA WorkInvInit == Init => WorkInv
<1> SUFFICES ASSUME Init PROVE WorkInv
    OBVIOUS
<1>1. VersionsTypes
    BY HistoryInvInit DEF HistoryInv
<1>2. editor = [t \in Tabs |-> Closed] /\ draft = None /\ touched = {}
    BY DEF Init
<1>3. Closed \in Editor /\ \A t \in Tabs : ~Open(t)
    BY <1>2 DEF Editor, Closed, Open
<1>4. WaitingTypes
    BY DEF Init, WaitingTypes
<1> QED
    BY <1>1, <1>2, <1>3, <1>4 DEF WorkInv, EditorTypes, OfferOverSaved, DraftHoldsWork

\* The steps there are.
LEMMA StepOfEditing ==
    ASSUME WorkInv, [Next]_vars
    PROVE  \/ UNCHANGED editing
           \/ \E t \in Tabs : OfTab(t)
           \/ \E t \in Tabs : Load(t)
           \/ \E r \in Requests : SavedAfterLeaving(r) \/ SaveFailed(r)
<1>1. ASSUME NEW r \in Requests, Saved(r)
      PROVE  \E t \in Tabs : OfTab(t)
    <2>1. sent[r].tab \in Tabs
        BY <1>1, SavedLeaves DEF Sent
    <2> QED  BY <1>1, <2>1 DEF OfTab
<1>2. CASE UNCHANGED vars
    BY <1>2 DEF vars, editing
<1> QED
    BY <1>1, <1>2 DEF Next, OfTab

\* What is rendered anew is the current version; and what is rendered or sent
\* stays what it is until it is shown or answered.
Waits ==
    /\ WaitingTypes'
    /\ \A t \in Tabs : page'[t] # None =>
          \/ page'[t] = page[t]
          \/ /\ page'[t].version = dash.current /\ page'[t].spec = rows[dash.current]
             /\ UNCHANGED db
    /\ \A r \in Requests : sent'[r] # None =>
          \/ sent'[r] = sent[r]
          \/ sent'[r].spec \in Specs /\ job'[r] = Ready("save", sent'[r].spec)

LEMMA WaitingStep ==
    ASSUME WorkInv, [Next]_vars
    PROVE  Waits
<1>0. /\ page \in [Tabs -> {None} \union Page] /\ sent \in [Requests -> {None} \union Sent]
      /\ EditorTypes /\ job \in [Writers -> Job] /\ Requests \subseteq Writers
    BY EditorAssumption DEF WorkInv, WaitingTypes, VersionsTypes
<1>1. CASE UNCHANGED <<page, sent>>
    BY <1>0, <1>1 DEF Waits, WaitingTypes
<1>2. ASSUME NEW t \in Tabs, Load(t)
      PROVE  Waits
    <2> DEFINE p == [version |-> dash.current, spec |-> rows[dash.current]]
    <2>1. p \in Page /\ p.version = dash.current /\ p.spec = rows[dash.current]
        BY DEF WorkInv, VersionsTypes, Page
    <2>2. page' = [page EXCEPT ![t] = p] /\ UNCHANGED sent /\ UNCHANGED db
        BY <1>2 DEF Load, db
    <2> HIDE DEF p
    <2> QED  BY <1>0, <2>1, <2>2 DEF Waits, WaitingTypes
<1>3. ASSUME NEW t \in Tabs, Mount(t) \/ Refresh(t) \/ Leave(t) \/ Navigate(t)
      PROVE  Waits
    <2>1. page' = [page EXCEPT ![t] = None] /\ UNCHANGED sent
        BY <1>3 DEF Mount, Refresh, Leave, Navigate, Closes
    <2> QED  BY <1>0, <2>1 DEF Waits, WaitingTypes
<1>4. ASSUME NEW t \in Tabs, SaveVersion(t)
      PROVE  Waits
    <2>1. PICK r \in Requests :
             /\ sent' = [sent EXCEPT ![r] = [tab |-> t, spec |-> editor[t].spec]]
             /\ job' = [job EXCEPT ![r] = Ready("save", editor[t].spec)]
        BY <1>4 DEF SaveVersion, Put
    <2>2. editor[t].spec \in Specs
        BY <1>0, <1>4, OpenIsTyped DEF SaveVersion, OpenEditor
    <2>3. PICK x \in Specs : x = editor[t].spec
        BY <2>2
    <2>4. /\ sent'[r].spec = x
          /\ sent' \in [Requests -> {None} \union Sent]
          /\ \A q \in Requests \ {r} : sent'[q] = sent[q]
        BY <1>0, <2>1, <2>3 DEF Sent
    <2>5. job'[r] = Ready("save", x)
        BY <1>0, <2>1, <2>3
    <2>6. page' = page
        BY <1>4 DEF SaveVersion
    <2> QED  BY <1>0, <2>4, <2>5, <2>6 DEF Waits, WaitingTypes
<1>5. ASSUME NEW r \in Requests, Saved(r) \/ SavedAfterLeaving(r) \/ SaveFailed(r)
      PROVE  Waits
    <2>1. sent' = [sent EXCEPT ![r] = None] /\ page' = page
        BY <1>5 DEF Saved, SavedAfterLeaving, SaveFailed, Answers
    <2> QED  BY <1>0, <2>1 DEF Waits, WaitingTypes
<1>6. ASSUME NEW t \in Tabs, Crash(t)
      PROVE  Waits
    BY <1>0, <1>6 DEF Crash, Closes, Waits, WaitingTypes
<1>7. ASSUME NEW t \in Tabs, Edit(t) \/ RestoreDraft(t) \/ DiscardDraft(t) \/ Autosave(t)
      PROVE  UNCHANGED <<page, sent>>
    BY <1>7 DEF Edit, RestoreDraft, DiscardDraft, Autosave
<1>8. UNCHANGED editing \/ UNCHANGED vars => UNCHANGED <<page, sent>>
    BY DEF editing, vars
<1> QED
    BY <1>1, <1>2, <1>3, <1>4, <1>5, <1>6, <1>7, <1>8 DEF Next

LEMMA WorkInvStep == WorkInv /\ [Next]_vars => WorkInv'
<1> SUFFICES ASSUME WorkInv, [Next]_vars PROVE WorkInv'
    OBVIOUS
<1>1. VersionsTypes' /\ WaitingTypes'
    BY VersionsTypesStep, WaitingStep DEF WorkInv, Waits
<1>2. editor \in [Tabs -> Editor] /\ draft \in {None} \union Draft /\ touched \subseteq Tabs
    BY DEF WorkInv, EditorTypes
<1> DEFINE Kept == EditorTypes' /\ OfferOverSaved' /\ DraftHoldsWork'
<1>3. ASSUME UNCHANGED <<editor, draft, touched>>
      PROVE  Kept
    BY <1>3 DEF WorkInv, EditorTypes, OfferOverSaved, DraftHoldsWork, Open
<1>4. ASSUME NEW t \in Tabs, OfTab(t)
      PROVE  Kept
    BY <1>4, TabLeaves, WorkIsKept
<1>5. ASSUME NEW r \in Requests, SavedAfterLeaving(r)
      PROVE  Kept
    BY <1>5 DEF SavedAfterLeaving, WorkInv, EditorTypes, OfferOverSaved, DraftHoldsWork,
                OpenTabs, Open
<1>6. ASSUME NEW r \in Requests, SaveFailed(r)
      PROVE  Kept
    <2>1. ASSUME NEW t \in Tabs
          PROVE  /\ editor'[t] \in Editor /\ (editor'[t].open <=> Open(t))
                 /\ Open(t) => /\ editor'[t].spec = editor[t].spec
                               /\ editor'[t].saved = editor[t].saved
                               /\ editor'[t].offer = editor[t].offer
                               /\ editor'[t].timer = editor[t].timer
        <3>1. CASE Awaits(t, r)
            <4>1. editor'[t] = [editor[t] EXCEPT !.put = None]
                BY <1>6, <3>1 DEF SaveFailed
            <4>2. editor[t] \in OpenEditor
                BY <3>1, OpenIsTyped DEF Awaits, WorkInv
            <4> QED  BY <4>1, <4>2 DEF OpenEditor, Editor, Open
        <3>2. CASE ~Awaits(t, r)
            BY <1>2, <1>6, <3>2 DEF SaveFailed, Open
        <3> QED  BY <3>1, <3>2
    <2>2. editor' \in [Tabs -> Editor] /\ draft' = draft /\ touched' = touched
        BY <1>6, <2>1 DEF SaveFailed
    <2> QED
        BY <1>2, <2>1, <2>2 DEF WorkInv, EditorTypes, OfferOverSaved, DraftHoldsWork, Open, Dirty
<1>7. UNCHANGED editing \/ (\E t \in Tabs : Load(t)) => UNCHANGED <<editor, draft, touched>>
    BY DEF editing, Load
<1> QED
    BY <1>1, <1>3, <1>4, <1>5, <1>6, <1>7, StepOfEditing DEF WorkInv

-----------------------------------------------------------------------------
(* What is held of the versions                                              *)

\* What was made from a version stays so: versions are not rewritten, and the
\* next one has another number.
LEMMA MadeFromStays ==
    ASSUME HistoryInv, EditorTypes, [Next]_vars, NEW v \in Nat, NEW spec, MadeFrom(v, spec)
    PROVE  MadeFrom(v, spec)'
<1>1. VersionsTypes /\ dash.current \in Nat
    BY DEF HistoryInv, VersionsTypes
<1>2. CASE UNCHANGED versionVars
    BY <1>2 DEF versionVars, MadeFrom
<1>3. CASE SoftDelete
    BY <1>1, <1>3 DEF SoftDelete, MadeFrom, VersionsTypes
<1>4. ASSUME NEW w \in Writers, Commit(w)
      PROVE  MadeFrom(v, spec)'
    <2>1. dash'.current = dash.current + 1
        <3>1. dash' = [current |-> job[w].next, title |-> job[w].spec.title,
                       deleted |-> dash.deleted]
            BY <1>1, <1>4, CommitLeaves
        <3>2. job[w].next = dash.current + 1
            BY <1>4, CommitAppends
        <3> QED  BY <3>1, <3>2
    <2> QED  BY <1>1, <2>1 DEF MadeFrom
<1>5. ASSUME NEW w \in Writers, Writes(w), ~Commit(w)
      PROVE  MadeFrom(v, spec)'
    <2>1. UNCHANGED db
        BY <1>1, <1>5, HandlerSteps
    <2> QED  BY <2>1 DEF db, MadeFrom
<1> QED
    BY <1>2, <1>3, <1>4, <1>5, StepOfVersions DEF Writes, Save

\* A handler that goes on: with the spec it has, to its answer, which is of
\* that spec if it committed.
Goes(w) == ReadTarget(w) \/ Save(w) \/ Abort(w)

LEMMA SendingOn ==
    ASSUME HistoryInv, NEW w \in Writers, NEW spec, Sending(job[w], spec), Goes(w)
    PROVE  /\ Sending(job[w], spec)'
           /\ job'[w].stage = "done" =>
                 job'[w].version = dash'.current /\ rows'[dash'.current] = spec
<1>1. VersionsTypes /\ job \in [Writers -> Job] /\ job[w] \in Job
    BY DEF HistoryInv, VersionsTypes
<1>2. ~ReadTarget(w)
    BY DEF Sending, ReadTarget, InTransaction, Answered
<1>3. CASE ReadNext(w)
    <2> DEFINE j == [stage |-> "numbered", kind |-> job[w].kind, spec |-> job[w].spec,
                     next |-> NextNumber, seen |-> dash.current]
    <2>1. job[w].stage = "ready" /\ job' = [job EXCEPT ![w] = j]
        BY <1>3, <1>1 DEF ReadNext
    <2>2. job[w].spec = spec
        BY <2>1 DEF Sending, InTransaction, Answered
    <2> QED  BY <1>1, <2>1, <2>2 DEF Sending, InTransaction
<1>4. CASE Insert(w)
    <2> DEFINE k == job[w]
    <2>1. k.stage = "numbered" /\ k.spec = spec
        BY <1>4 DEF Insert, Sending, InTransaction, Answered
    <2>2. CASE k.next \in DOMAIN rows
        <3>1. job' = [job EXCEPT ![w] = [stage |-> "failed", seen |-> k.seen]]
            BY <1>1, <1>4, <2>2 DEF Insert
        <3> QED  BY <1>1, <3>1 DEF Sending, Answered
    <2>3. CASE k.next \notin DOMAIN rows
        <3> DEFINE j == [stage |-> "inserted", kind |-> k.kind, spec |-> k.spec,
                         next |-> k.next, seen |-> k.seen]
        <3>1. job' = [job EXCEPT ![w] = [job[w] EXCEPT !.stage = "inserted"]]
            BY <1>1, <1>4, <2>3 DEF Insert
        <3>2. [job[w] EXCEPT !.stage = "inserted"] = j
            BY <1>1, <2>1, JobRead
        <3>3. job' = [job EXCEPT ![w] = j]
            BY <3>1, <3>2, Zenon
        <3> QED  BY <1>1, <2>1, <3>3 DEF Sending, InTransaction
    <2> QED  BY <2>2, <2>3
<1>5. CASE Commit(w)
    <2>0. PICK n : n = job[w].next
        OBVIOUS
    <2>1. /\ job' = [job EXCEPT ![w] = [stage |-> "done", version |-> n]]
          /\ dash' = [current |-> n, title |-> job[w].spec.title, deleted |-> dash.deleted]
          /\ rows'[n] = job[w].spec /\ job[w].stage = "inserted" /\ n \in Nat
        BY <1>1, <1>5, <2>0, CommitLeaves
    <2>2. job[w].spec = spec
        BY <2>1 DEF Sending, InTransaction, Answered
    <2>3. job'[w] = [stage |-> "done", version |-> n] /\ dash'.current = n
        BY <1>1, <2>1
    <2> QED  BY <2>1, <2>2, <2>3 DEF Sending, Answered
<1>6. CASE Abort(w)
    BY <1>1, <1>6 DEF Abort, Sending, Answered
<1> QED
    BY <1>2, <1>3, <1>4, <1>5, <1>6 DEF Goes, Save

\* What a step makes of the handlers: one goes on, or begins, or is free again,
\* and nobody waits for the answer it gave.
LEMMA HandlersStep ==
    ASSUME WorkInv, [Next]_vars, NEW r \in Requests, sent'[r] # None
    PROVE  \/ job'[r] = Ready("save", sent'[r].spec) /\ sent'[r].spec \in Specs
           \/ sent'[r] = sent[r] /\ (job'[r] = job[r] \/ Goes(r))
<1>0. /\ job \in [Writers -> Job] /\ Requests \subseteq Writers
      /\ sent \in [Requests -> {None} \union Sent]
    BY EditorAssumption DEF WorkInv, VersionsTypes, WaitingTypes
<1>1. \/ sent'[r] = sent[r]
      \/ sent'[r].spec \in Specs /\ job'[r] = Ready("save", sent'[r].spec)
    BY WaitingStep DEF Waits
<1>2. ASSUME NEW w \in Writers, UNCHANGED editing, Elsewhere(w)
      PROVE  job'[r] = job[r]
    <2>1. r # w
        <3>1. sent[r] # None
            BY <1>2 DEF editing
        <3> QED  BY <1>2, <3>1 DEF Elsewhere
    <2> QED  BY <1>0, <1>2, <2>1 DEF Elsewhere, Restore, Rename, Respond
<1>3. ASSUME NEW w \in Writers, Goes(w)
      PROVE  job'[r] = job[r] \/ Goes(r)
    <2>1. CASE r = w
        BY <1>3, <2>1
    <2>2. CASE r # w
        BY <1>0, <1>3, <2>2 DEF Goes, ReadTarget, Save, ReadNext, Insert, Commit, Abort
    <2> QED  BY <2>1, <2>2
<1>4. ASSUME NEW t \in Tabs, SaveVersion(t)
      PROVE  \/ job'[r] = job[r]
             \/ job'[r] = Ready("save", sent'[r].spec) /\ sent'[r].spec \in Specs
    <2>1. PICK q \in Requests :
             /\ sent[q] = None
             /\ sent' = [sent EXCEPT ![q] = [tab |-> t, spec |-> editor[t].spec]]
             /\ job' = [job EXCEPT ![q] = Ready("save", editor[t].spec)]
        BY <1>4 DEF SaveVersion, Put
    <2>2. CASE r = q
        <3>1. sent[r] = None /\ sent'[r] # sent[r]
            BY <2>1, <2>2
        <3> QED  BY <1>1, <3>1
    <2>3. CASE r # q
        BY <1>0, <2>1, <2>3
    <2> QED  BY <2>2, <2>3
<1>5. ASSUME NEW q \in Requests, Saved(q) \/ SavedAfterLeaving(q) \/ SaveFailed(q)
      PROVE  job'[r] = job[r]
    <2>1. sent' = [sent EXCEPT ![q] = None] /\ job' = [job EXCEPT ![q] = Free]
        BY <1>5 DEF Saved, SavedAfterLeaving, SaveFailed, Answers, Respond
    <2>2. r # q
        BY <1>0, <2>1
    <2> QED  BY <1>0, <2>1, <2>2
<1>6. ASSUME NEW t \in Tabs,
             \/ Load(t) \/ Mount(t) \/ Refresh(t) \/ Edit(t) \/ RestoreDraft(t)
             \/ DiscardDraft(t) \/ Autosave(t) \/ Leave(t) \/ Navigate(t) \/ Crash(t)
      PROVE  job' = job
    BY <1>6 DEF Load, Mount, Refresh, Edit, RestoreDraft, DiscardDraft, Autosave, Leave, Navigate,
                Crash
<1>7. SoftDelete \/ UNCHANGED vars => job' = job
    BY DEF SoftDelete, vars
<1>8. job'[r] = job[r] \/ Goes(r)
      \/ (job'[r] = Ready("save", sent'[r].spec) /\ sent'[r].spec \in Specs)
    BY <1>2, <1>3, <1>4, <1>5, <1>6, <1>7 DEF Next, Goes
<1> QED
    BY <1>1, <1>8

\* Whoever holds something of a version after a step held it before, or has
\* just read or made the current one.
LEMMA SaidStep ==
    ASSUME SilenceInv, [Next]_vars, NEW v \in Nat, NEW x \in Specs, Said(v, x)'
    PROVE  Said(v, x) \/ (v = dash'.current /\ x = rows'[dash'.current])
<1> DEFINE Goal == Said(v, x) \/ (v = dash'.current /\ x = rows'[dash'.current])
<1>0. /\ WorkInv /\ HistoryInv /\ EditorTypes /\ editor \in [Tabs -> Editor]
      /\ job \in [Writers -> Job] /\ Requests \subseteq Writers
    BY EditorAssumption DEF SilenceInv, WorkInv, EditorTypes, VersionsTypes
<1>1. ASSUME draft' # None, v = draft'.base, x = draft'.from
      PROVE  Goal
    <2>1. draft' = draft \/ draft' = None
          \/ \E t \in Tabs : Open(t) /\ draft' = [base |-> editor[t].version,
                                spec |-> editor[t].spec, from |-> editor[t].saved]
        <3>1. ASSUME NEW t \in Tabs, OfTab(t)
              PROVE  DraftAfter(t)
            BY <1>0, <3>1, TabLeaves DEF Leaves
        <3>2. ASSUME NEW r \in Requests, SavedAfterLeaving(r) \/ SaveFailed(r)
              PROVE  draft' = draft \/ draft' = None
            BY <3>2 DEF SavedAfterLeaving, SaveFailed
        <3>3. UNCHANGED editing \/ (\E t \in Tabs : Load(t)) => draft' = draft
            BY DEF editing, Load
        <3> QED  BY <1>0, <3>1, <3>2, <3>3, StepOfEditing DEF DraftAfter
    <2> QED  BY <1>1, <2>1 DEF Said
<1>2. ASSUME NEW t \in Tabs, page'[t] # None, v = page'[t].version, x = page'[t].spec
      PROVE  Goal
    <2>1. \/ page'[t] = page[t]
          \/ v = dash.current /\ x = rows[dash.current] /\ UNCHANGED db
        BY <1>0, <1>2, WaitingStep DEF Waits
    <2> QED  BY <1>2, <2>1 DEF Said, db
<1>3. ASSUME NEW t \in Tabs, editor'[t].open, v = editor'[t].version, x = editor'[t].saved
      PROVE  Goal
    <2>1. CASE UNCHANGED editor
        BY <1>3, <2>1 DEF Said, Open
    <2>2. ASSUME NEW u \in Tabs, OfTab(u)
          PROVE  Goal
        <3>1. PICK k \in Editor : Leaves(u, k) /\ (k.open => Said(k.version, k.saved))
            BY <1>0, <2>2, TabLeaves
        <3>2. editor' = [editor EXCEPT ![u] = k]
            BY <3>1 DEF Leaves
        <3>3. CASE u = t
            <4>1. editor'[t] = k
                BY <1>0, <3>2, <3>3
            <4> QED  BY <1>3, <3>1, <4>1
        <3>4. CASE u # t
            <4>1. editor'[t] = editor[t]
                BY <1>0, <3>2, <3>4
            <4> QED  BY <1>3, <4>1 DEF Said, Open
        <3> QED  BY <3>3, <3>4
    <2>3. ASSUME NEW r \in Requests, SaveFailed(r)
          PROVE  Goal
        <3>1. editor'[t] = IF Awaits(t, r) THEN [editor[t] EXCEPT !.put = None] ELSE editor[t]
            BY <2>3 DEF SaveFailed
        <3>2. CASE Awaits(t, r)
            <4>1. editor[t] \in OpenEditor /\ Open(t)
                BY <1>0, <3>2, OpenIsTyped DEF Awaits
            <4>2. editor'[t].version = editor[t].version /\ editor'[t].saved = editor[t].saved
                BY <3>1, <3>2, <4>1 DEF OpenEditor
            <4> QED  BY <1>3, <4>1, <4>2 DEF Said
        <3>3. CASE ~Awaits(t, r)
            BY <1>3, <3>1, <3>3 DEF Said, Open
        <3> QED  BY <3>2, <3>3
    <2>4. UNCHANGED editing \/ (\E u \in Tabs : Load(u)) \/ (\E r \in Requests : SavedAfterLeaving(r))
          => UNCHANGED editor
        BY DEF editing, Load, SavedAfterLeaving
    <2> QED  BY <1>0, <2>1, <2>2, <2>3, <2>4, StepOfEditing
<1>4. ASSUME NEW r \in Requests, sent'[r] # None, job'[r].stage = "done",
             v = job'[r].version, x = sent'[r].spec
      PROVE  Goal
    <2>1. CASE job'[r] = Ready("save", sent'[r].spec)
        BY <1>4, <2>1 DEF Ready
    <2>2. CASE sent'[r] = sent[r] /\ job'[r] = job[r]
        BY <1>4, <2>2 DEF Said
    <2>3. CASE sent'[r] = sent[r] /\ Goes(r)
        <3>1. Sending(job[r], x) /\ r \in Writers
            BY <1>0, <1>4, <2>3 DEF SilenceInv
        <3> QED  BY <1>0, <1>4, <2>3, <3>1, SendingOn
    <2> QED  BY <1>0, <1>4, <2>1, <2>2, <2>3, HandlersStep
<1> QED
    BY <1>1, <1>2, <1>3, <1>4 DEF Said, Open

LEMMA SilenceInvInit == Init => SilenceInv
<1> SUFFICES ASSUME Init PROVE SilenceInv
    OBVIOUS
<1>1. /\ draft = None /\ \A t \in Tabs : ~Open(t) /\ page[t] = None
      /\ \A r \in Requests : sent[r] = None
    BY DEF Init, Open, Closed
<1> QED
    BY <1>1, HistoryInvInit, WorkInvInit DEF SilenceInv, Said

LEMMA SilenceInvStep == NobodyIsOvertaken /\ SilenceInv /\ [Next]_vars => SilenceInv'
<1> SUFFICES ASSUME NobodyIsOvertaken, SilenceInv, [Next]_vars PROVE SilenceInv'
    OBVIOUS
<1>0. HistoryInv /\ WorkInv /\ EditorTypes /\ HistoryInv' /\ WorkInv'
    BY HistoryInvStep, WorkInvStep DEF SilenceInv, WorkInv
<1>1. ASSUME NEW r \in Requests, sent'[r] # None
      PROVE  Sending(job'[r], sent'[r].spec)
    <2>1. CASE job'[r] = Ready("save", sent'[r].spec)
        BY <2>1 DEF Ready, Sending
    <2>2. CASE sent'[r] = sent[r] /\ job'[r] = job[r]
        BY <1>1, <2>2 DEF SilenceInv
    <2>3. CASE sent'[r] = sent[r] /\ Goes(r)
        <3>1. PICK x : x = sent[r].spec
            OBVIOUS
        <3>2. Sending(job[r], x) /\ r \in Writers
            BY <1>1, <2>3, <3>1, EditorAssumption DEF SilenceInv
        <3>3. Sending(job[r], x)'
            BY <1>0, <2>3, <3>2, SendingOn
        <3> QED  BY <2>3, <3>1, <3>3 DEF Sending
    <2> QED  BY <1>0, <1>1, <2>1, <2>2, <2>3, HandlersStep
<1>2. ASSUME NEW v \in Nat, NEW x \in Specs, Said(v, x)'
      PROVE  MadeFrom(v, x)'
    <2>1. CASE Said(v, x)
        <3>1. MadeFrom(v, x)
            BY <2>1 DEF SilenceInv
        <3> QED  BY <1>0, <3>1, MadeFromStays
    <2>2. CASE v = dash'.current /\ x = rows'[dash'.current]
        BY <2>2 DEF MadeFrom
    <2> QED  BY <1>2, <2>1, <2>2, SaidStep
<1>3. ASSUME NEW v \in Nat, NEW x \in Specs, NEW y \in Specs, Said(v, x)', Said(v, y)'
      PROVE  x = y
    <2>1. CASE v = dash'.current
        BY <1>2, <1>3, <2>1 DEF MadeFrom
    <2>2. CASE v # dash'.current
        BY <1>3, <2>2, SaidStep DEF SilenceInv
    <2> QED  BY <2>1, <2>2
<1> QED
    BY <1>0, <1>1, <1>2, <1>3 DEF SilenceInv

\* An offer is made where something rendered is shown, of a draft that is held
\* to say the same of the version on it.
LEMMA OffersSayAll ==
    ASSUME SilenceInv, [Next]_vars, NEW t \in Tabs, Shows(t),
           editor'[t].offer.kind = "restorable"
    PROVE  draft.from = page[t].spec
<1>0. WorkInv /\ EditorTypes /\ WaitingTypes /\ editor \in [Tabs -> Editor]
      /\ page \in [Tabs -> {None} \union Page]
    BY DEF SilenceInv, WorkInv, EditorTypes, WaitingTypes
<1>1. page[t] # None /\ page'[t] = None /\ editor'[t].open
    BY DEF Shows
<1>2. Mount(t) \/ Refresh(t)
    <2>1. ASSUME NEW u \in Tabs, Mount(u) \/ Refresh(u)
          PROVE  u = t
        BY <1>0, <1>1, <2>1 DEF Mount, Refresh
    <2>2. ASSUME NEW u \in Tabs, Load(u)
          PROVE  FALSE
        BY <1>0, <1>1, <2>2 DEF Load
    <2>3. ASSUME NEW u \in Tabs, Leave(u) \/ Navigate(u) \/ Crash(u)
          PROVE  FALSE
        <3>1. editor' = [editor EXCEPT ![u] = Closed] /\ page' = [page EXCEPT ![u] = None]
            BY <2>3 DEF Leave, Navigate, Crash, Closes
        <3> QED  BY <1>0, <1>1, <3>1 DEF Closed
    <2>4. ASSUME NEW u \in Tabs,
                 Edit(u) \/ RestoreDraft(u) \/ DiscardDraft(u) \/ Autosave(u) \/ SaveVersion(u)
          PROVE  FALSE
        BY <1>1, <2>4 DEF Edit, RestoreDraft, DiscardDraft, Autosave, SaveVersion
    <2>5. ASSUME NEW r \in Requests, Saved(r) \/ SavedAfterLeaving(r) \/ SaveFailed(r)
          PROVE  FALSE
        BY <1>1, <2>5 DEF Saved, SavedAfterLeaving, SaveFailed, Answers
    <2>6. ~(UNCHANGED editing \/ UNCHANGED vars)
        BY <1>1 DEF editing, vars
    <2> QED  BY <2>1, <2>2, <2>3, <2>4, <2>5, <2>6 DEF Next
<1>3. page[t] \in Page
    BY <1>0, <1>1
<1>4. PICK k \in OpenEditor : Leaves(t, k) /\ k.offer \in {NoOffer, Offer(page[t])}
    BY <1>0, <1>2, MountLeaves, RefreshLeaves
<1>5. editor'[t] = k
    BY <1>0, <1>4 DEF Leaves
<1>6. Offer(page[t]).kind = "restorable"
    BY <1>4, <1>5 DEF NoOffer
<1>7. draft # None /\ draft.base = page[t].version
    BY <1>0, <1>3, <1>6, OfferMade
<1>8. PICK v \in Nat, x \in Specs, y \in Specs :
         v = page[t].version /\ x = page[t].spec /\ y = draft.from /\ v = draft.base
    BY <1>0, <1>3, <1>7 DEF EditorTypes, Page, Draft
<1>9. Said(v, x) /\ Said(v, y)
    BY <1>1, <1>7, <1>8 DEF Said
<1> QED
    BY <1>8, <1>9 DEF SilenceInv

-----------------------------------------------------------------------------
(* What follows of every run                                                 *)

\* A step of the editors is a step of one history: an append, a delete, or none.
LEMMA StepOfHistory ==
    ASSUME NobodyIsOvertaken, HistoryInv, EditorTypes, [Next]_vars
    PROVE  [(\E s \in Specs : History!Append(s)) \/ History!Delete]_(History!history)
<1>1. VersionsTypes
    BY DEF HistoryInv
<1>2. CASE UNCHANGED versionVars
    BY <1>2 DEF versionVars, History!history
<1>3. CASE SoftDelete
    <2>1. /\ dash'.current = dash.current /\ dash'.title = dash.title
          /\ dash'.deleted = TRUE /\ rows' = rows /\ ~dash.deleted
        BY <1>1, <1>3 DEF SoftDelete, VersionsTypes
    <2> QED  BY <2>1 DEF History!Delete
<1>4. ASSUME NEW w \in Writers, Commit(w)
      PROVE  \E s \in Specs : History!Append(s)
    <2>1. job[w].spec \in Specs
        BY <1>1, <1>4, CommitLeaves
    <2> QED  BY <1>4, <2>1, CommitAppends
<1>5. ASSUME NEW w \in Writers, Writes(w), ~Commit(w)
      PROVE  UNCHANGED History!history
    <2>1. UNCHANGED db
        BY <1>1, <1>5, HandlerSteps
    <2> QED  BY <2>1 DEF db, History!history
<1> QED
    BY <1>2, <1>3, <1>4, <1>5, StepOfVersions DEF Writes, Save

\* Whatever the writers do at once, and wherever a transaction is cut off, the
\* versions are one history: saveDashboardVersion's commits append to it under
\* the next number, prune it to the newest Keep, and show its newest.
THEOREM OneHistory ==
    ASSUME NobodyIsOvertaken
    PROVE  Spec => IsAHistory
<1>1. Init => History!HistoryInit
    BY DEF Init, VersionsInit, History!HistoryInit
<1>2. WorkInv => EditorTypes
    BY DEF WorkInv
<1> QED
    BY <1>1, <1>2, HistoryInvInit, HistoryInvStep, WorkInvInit, WorkInvStep, StepOfHistory, PTL
    DEF Spec, IsAHistory, History!HistorySpec

\* A save that fails on the unique key of (dashboard_id, version) lost to one
\* that has landed since it read its number (repo.ts:685-701).
THEOREM LosersLost ==
    ASSUME NobodyIsOvertaken
    PROVE  Spec => []LostToAnother
<1>1. WorkInv => EditorTypes
    BY DEF WorkInv
<1>2. HistoryInv => LostToAnother
    <2> SUFFICES ASSUME HistoryInv, NEW w \in Writers, job[w].stage = "failed"
                 PROVE  dash.current > job[w].seen
        BY DEF LostToAnother
    <2>1. dash.current \in Nat /\ job[w].seen \in Nat /\ job[w].seen < dash.current
        BY JobRead DEF HistoryInv, VersionsTypes, InTurn
    <2> QED  BY <2>1
<1> QED
    BY <1>1, <1>2, HistoryInvInit, HistoryInvStep, WorkInvInit, WorkInvStep, PTL DEF Spec

\* The versions, the draft and the editors are specs, and one transaction is
\* past its insert at a time: the others wait for it or have failed.
THEOREM EditingTypes ==
    ASSUME NobodyIsOvertaken
    PROVE  Spec => []EditingTypeOK
<1>1. HistoryInv /\ WorkInv => EditingTypeOK
    <2> SUFFICES ASSUME HistoryInv, WorkInv PROVE EditingTypeOK
        OBVIOUS
    <2> DEFINE Past == {w \in Writers : job[w].stage = "inserted"}
    <2>1. Cardinality(Past) <= 1
        <3>1. CASE Past = {}
            BY <3>1, FS_EmptySet
        <3>2. CASE Past # {}
            <4>1. PICK w \in Past : TRUE
                BY <3>2
            <4>2. Past = {w}
                BY <4>1 DEF HistoryInv, OneInserted
            <4> QED  BY <4>2, FS_Singleton
        <3> QED  BY <3>1, <3>2
    <2>2. \A v \in DOMAIN rows : rows[v] \in Specs
        BY DEF HistoryInv, VersionsTypes
    <2>3. dash.current \in DOMAIN rows /\ dash.deleted \in BOOLEAN
        BY DEF HistoryInv, VersionsTypes
    <2>4. draft = None \/ (draft.base \in Nat /\ draft.spec \in Specs)
        BY DEF WorkInv, EditorTypes, Draft
    <2>5. \A t \in Tabs : Open(t) => editor[t].spec \in Specs /\ editor[t].saved \in Specs
        BY OpenIsTyped DEF WorkInv, OpenEditor
    <2> QED  BY <2>1, <2>2, <2>3, <2>4, <2>5 DEF EditingTypeOK
<1>2. WorkInv => EditorTypes
    BY DEF WorkInv
<1> QED
    BY <1>1, <1>2, HistoryInvInit, HistoryInvStep, WorkInvInit, WorkInvStep, PTL DEF Spec

\* Unsaved work is in the draft or on the timer's way to it, whatever was
\* saved, failed, restored, discarded or overtaken meanwhile (edit-client.tsx,
\* the autosave effect), unless another editor of the same person, in another
\* tab or one that was left, has used the draft they share.
THEOREM WorkIsInDraft == Spec => []DraftHoldsWork
<1>1. WorkInv => DraftHoldsWork
    BY DEF WorkInv
<1> QED
    BY <1>1, WorkInvInit, WorkInvStep, PTL DEF Spec

\* A draft that draftOffer offers without a warning was made from the version
\* on the page: nobody's version in between goes unmentioned.
THEOREM NothingWinsSilently ==
    ASSUME NobodyIsOvertaken
    PROVE  Spec => NoSilentWin
<1>1. SilenceInv /\ [Next]_vars =>
         [\A t \in Tabs :
             Shows(t) /\ editor'[t].offer.kind = "restorable"
             => draft.from = page[t].spec]_vars
    BY OffersSayAll
<1> QED
    BY <1>1, SilenceInvInit, SilenceInvStep, PTL DEF Spec, NoSilentWin
=============================================================================
