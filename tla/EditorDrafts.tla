---------------------------- MODULE EditorDrafts ----------------------------
(* The editors of one person, in the tabs of one browser, over the versions  *)
(* of DashboardVersions: the working spec, the draft that autosave keeps in  *)
(* localStorage for the dashboard and the person, the offer of a draft when  *)
(* an editor opens, and saving (edit-client.tsx, lib/editor/drafts.ts).      *)
(*                                                                           *)
(* React runs an effect after a render in which what it depends on has       *)
(* changed: it is part of the step that changes it. A save outlives its      *)
(* editor: the page may be left and opened again in the same tab while it is *)
(* in flight, and what the answer does is done then. Writers that are no     *)
(* requests of editors are other people, who rename the dashboard and        *)
(* restore its versions.                                                     *)
EXTENDS DashboardVersions

CONSTANTS
    Tabs,       \* the tabs of this browser, each with an editor or none
    Requests    \* the writers that are saves of these editors

ASSUME EditorAssumption ==
    /\ Requests \subseteq Writers
    /\ None \notin [base : Nat, spec : Specs, from : Specs]
    /\ None \notin [version : Nat, spec : Specs]
    /\ None \notin [tab : Tabs, spec : Specs]
    /\ None \notin Requests

VARIABLES
    editor,     \* per tab: closed, or the state of its editor
    page,       \* per tab: what the server has rendered for it, until it is shown
    sent,       \* per request: the tab it answers to and what was sent, or None
    draft,      \* localStorage under draftKey
    touched     \* (history) tabs whose editor had its draft written over or
                \* removed by another: another tab's, or one that was left

editing == <<editor, page, sent, draft, touched>>
vars == <<rows, dash, job, editor, page, sent, draft, touched>>

Closed == [open |-> FALSE]
NoOffer == [kind |-> "none"]
Open(t) == editor[t].open
Dirty(e) == e.spec # e.saved
OpenTabs == {t \in Tabs : Open(t)}
Awaits(t, r) == Open(t) /\ editor[t].put = r

Init ==
    /\ VersionsInit
    /\ editor = [t \in Tabs |-> Closed]
    /\ page = [t \in Tabs |-> None]
    /\ sent = [r \in Requests |-> None]
    /\ draft = None
    /\ touched = {}

-----------------------------------------------------------------------------
(* localStorage, as one tab writes it and the others do not notice.          *)
KeepDraft(t, d) == draft' = d /\ touched' = (touched \ {t}) \union (OpenTabs \ {t})
ClearDraft(t) == KeepDraft(t, None)

\* The effect of a render that left the editor as e. Unsaved work answers the
\* offer and sets the timer anew; without any, and no offer open, the draft goes.
Rendered(t, e) ==
    IF Dirty(e)
    THEN editor' = [editor EXCEPT ![t] = [e EXCEPT !.offer = NoOffer, !.timer = TRUE]]
    ELSE editor' = [editor EXCEPT ![t] = [e EXCEPT !.timer = FALSE]]
RenderedDraft(t, e) ==
    IF ~Dirty(e) /\ e.offer = NoOffer THEN ClearDraft(t) ELSE UNCHANGED <<draft, touched>>

\* Wrong: the version the draft was made from is not asked about.
OfferAny(p) ==
    IF draft = None \/ draft.spec = p.spec THEN NoOffer
    ELSE [kind |-> "restorable", draft |-> draft]

\* draftOffer, without expiry: nothing new, the version on the page carried on,
\* or a dashboard that has moved on underneath.
Offer(p) ==
    IF draft = None \/ draft.base > p.version \/ draft.spec = p.spec THEN NoOffer
    ELSE [kind |-> IF draft.base < p.version THEN "conflict" ELSE "restorable",
          draft |-> draft]

\* The server renders the page: for an editor to open, or for an open one when
\* the router is told to refresh.
Load(t) ==
    /\ page[t] = None /\ ~dash.deleted
    /\ page' = [page EXCEPT ![t] = [version |-> dash.current, spec |-> rows[dash.current]]]
    /\ UNCHANGED <<rows, dash, job, editor, sent, draft, touched>>

\* An editor opens with what was rendered, and reads the draft.
Mount(t) ==
    /\ ~Open(t) /\ page[t] # None
    /\ LET e == [open |-> TRUE, spec |-> page[t].spec, saved |-> page[t].spec,
                 version |-> page[t].version, offer |-> Offer(page[t]), timer |-> FALSE,
                 put |-> None]
       IN Rendered(t, e) /\ RenderedDraft(t, e)
    /\ page' = [page EXCEPT ![t] = None]
    /\ UNCHANGED <<rows, dash, job, sent>>

\* Other props: the draft is read again and compared with them, while the
\* editor keeps the version it has. Autosave's effect runs if the offer changes.
Refresh(t) ==
    /\ Open(t) /\ page[t] # None
    /\ LET e == [editor[t] EXCEPT !.offer = Offer(page[t])] IN
       IF e.offer.kind # editor[t].offer.kind
       THEN Rendered(t, e) /\ RenderedDraft(t, e)
       ELSE editor' = [editor EXCEPT ![t] = e] /\ UNCHANGED <<draft, touched>>
    /\ page' = [page EXCEPT ![t] = None]
    /\ UNCHANGED <<rows, dash, job, sent>>

Edit(t) ==
    /\ Open(t)
    /\ \E p \in Panels \ {editor[t].spec.panels} :
          LET e == [editor[t] EXCEPT !.spec.panels = p] IN Rendered(t, e) /\ RenderedDraft(t, e)
    /\ UNCHANGED <<rows, dash, job, page, sent>>

RestoreDraft(t) ==
    /\ Open(t) /\ editor[t].offer # NoOffer
    /\ LET e == [editor[t] EXCEPT !.spec = editor[t].offer.draft.spec, !.offer = NoOffer] IN
       Rendered(t, e) /\ RenderedDraft(t, e)
    /\ UNCHANGED <<rows, dash, job, page, sent>>

DiscardDraft(t) ==
    /\ Open(t) /\ editor[t].offer # NoOffer
    /\ ClearDraft(t)
    /\ editor' = [editor EXCEPT ![t].offer = NoOffer]
    /\ UNCHANGED <<rows, dash, job, page, sent>>

\* DRAFT_DEBOUNCE_MS after the last edit.
Autosave(t) ==
    /\ Open(t) /\ editor[t].timer
    /\ KeepDraft(t, [base |-> editor[t].version, spec |-> editor[t].spec, from |-> editor[t].saved])
    /\ editor' = [editor EXCEPT ![t].timer = FALSE]
    /\ UNCHANGED <<rows, dash, job, page, sent>>

-----------------------------------------------------------------------------
(* Save version.                                                             *)

SaveVersion(t) ==
    /\ Open(t) /\ editor[t].put = None
    /\ \E r \in Requests :
          /\ sent[r] = None
          /\ sent' = [sent EXCEPT ![r] = [tab |-> t, spec |-> editor[t].spec]]
          /\ editor' = [editor EXCEPT ![t].put = r]
          /\ Put(r, editor[t].spec)
    /\ UNCHANGED <<page, draft, touched>>

Answers(r) ==
    /\ sent[r] # None
    /\ Respond(r)
    /\ sent' = [sent EXCEPT ![r] = None]
    /\ UNCHANGED page

SavedBy(r) ==
    [editor[sent[r].tab] EXCEPT !.saved = sent[r].spec, !.version = job[r].version,
                                !.offer = NoOffer, !.put = None]

\* Wrong: the new version is no reason to run the effect again.
SavedWithoutEffect(r) ==
    /\ Answers(r) /\ job[r].stage = "done" /\ Awaits(sent[r].tab, r)
    /\ editor' = [editor EXCEPT ![sent[r].tab] = SavedBy(r)]
    /\ ClearDraft(sent[r].tab)

\* The answer: what was sent is what is saved now, and the draft goes. Edits
\* made meanwhile are unsaved work on top of it. ("Save and view" then leaves,
\* like any navigation.)
Saved(r) ==
    /\ Answers(r) /\ job[r].stage = "done" /\ Awaits(sent[r].tab, r)
    /\ Rendered(sent[r].tab, SavedBy(r))
    /\ ClearDraft(sent[r].tab)

\* The editor was left meanwhile: nothing of it is rendered any more, but the
\* draft goes all the same, whoever's it is by now.
SavedAfterLeaving(r) ==
    /\ Answers(r) /\ job[r].stage = "done" /\ ~Awaits(sent[r].tab, r)
    /\ draft' = None
    /\ touched' = OpenTabs
    /\ UNCHANGED editor

\* An error, or no answer though the save may have landed: an editor stays as
\* it is.
SaveFailed(r) ==
    /\ Answers(r)
    /\ editor' = [t \in Tabs |-> IF Awaits(t, r) THEN [editor[t] EXCEPT !.put = None] ELSE editor[t]]
    /\ UNCHANGED <<draft, touched>>

-----------------------------------------------------------------------------
(* Leaving.                                                                  *)

Closes(t) ==
    /\ editor' = [editor EXCEPT ![t] = Closed]
    /\ page' = [page EXCEPT ![t] = None]

\* A link out asks about unsaved work, and clears the draft of work given up.
Leave(t) ==
    /\ Open(t) /\ Dirty(editor[t]) /\ editor[t].put = None
    /\ Closes(t)
    /\ ClearDraft(t)
    /\ UNCHANGED <<rows, dash, job, sent>>

\* A navigation that asks nothing: the command palette, the browser's back, a
\* link without unsaved work, and the push after "Save and view".
Navigate(t) ==
    /\ Open(t)
    /\ Closes(t)
    /\ touched' = touched \ {t}
    /\ UNCHANGED <<rows, dash, job, sent, draft>>

\* The tab or the browser is gone, and with it whoever waits for an answer;
\* what it had sent goes on.
Crash(t) ==
    /\ Open(t) \/ page[t] # None \/ \E r \in Requests : sent[r] # None /\ sent[r].tab = t
    /\ Closes(t)
    /\ sent' = [r \in Requests |-> IF sent[r] # None /\ sent[r].tab = t THEN None ELSE sent[r]]
    /\ touched' = touched \ {t}
    /\ UNCHANGED <<rows, dash, job, draft>>

-----------------------------------------------------------------------------
Elsewhere(w) ==
    \/ w \notin Requests /\ (Restore(w) \/ Rename(w) \/ Respond(w))
    \/ w \in Requests /\ sent[w] = None /\ Respond(w)
Next ==
    \/ \E w \in Writers : /\ Elsewhere(w) \/ ReadTarget(w) \/ Save(w) \/ Abort(w)
                          /\ UNCHANGED editing
    \/ SoftDelete /\ UNCHANGED editing
    \/ \E t \in Tabs :
          \/ Load(t) \/ Mount(t) \/ Refresh(t)
          \/ Edit(t) \/ RestoreDraft(t) \/ DiscardDraft(t) \/ Autosave(t)
          \/ SaveVersion(t) \/ Leave(t) \/ Navigate(t) \/ Crash(t)
    \/ \E r \in Requests : Saved(r) \/ SavedAfterLeaving(r) \/ SaveFailed(r)
Spec == Init /\ [][Next]_vars

-----------------------------------------------------------------------------
(* Properties                                                                *)

\* The types, and one transaction past its insert at a time.
EditingTypeOK ==
    /\ \A v \in DOMAIN rows : rows[v] \in Specs
    /\ dash.current \in DOMAIN rows /\ dash.deleted \in BOOLEAN
    /\ draft = None \/ (draft.base \in Nat /\ draft.spec \in Specs)
    /\ \A t \in Tabs : Open(t) => editor[t].spec \in Specs /\ editor[t].saved \in Specs
    /\ Cardinality({w \in Writers : job[w].stage = "inserted"}) <= 1

\* Work that is not saved is in the draft, or will be when the timer fires, so
\* that a crash costs no more than a pause of typing: whatever was saved,
\* failed, refreshed, restored or discarded meanwhile. Unless another editor of
\* the same person has used the one draft they share: another tab's, or one
\* that was left with a save in flight.
DraftHoldsWork ==
    \A t \in Tabs \ touched :
        Open(t) /\ Dirty(editor[t]) /\ ~editor[t].timer
        => draft # None /\ draft.spec = editor[t].spec

\* The step in which what was rendered for a tab is shown.
Shows(t) == page[t] # None /\ page'[t] = None /\ editor'[t].open

\* A draft that is offered without a warning was made from the very version on
\* the page, when the editor opens and when other props come: whatever was
\* saved since, here or elsewhere, is said.
NoSilentWin ==
    [][\A t \in Tabs :
          Shows(t) /\ editor'[t].offer.kind = "restorable"
          => draft.from = page[t].spec]_vars

\* "The saved version now holds everything the draft did" (edit-client.tsx:570),
\* where a save that lands removes the draft.
SavedHoldsDraft ==
    [][\A r \in Requests :
          Saved(r) /\ sent[r].tab \notin touched /\ draft # None
          => draft.spec = sent[r].spec]_vars

\* "An accidental navigation lost everything since the last save", which drafts
\* are to prevent (drafts.ts:10-12): a navigation and its undoing lose nothing
\* that is autosaved, in one tab. They do: the answer to a save of the editor
\* that was left removes what the one that was opened again has kept.
NavigationLosesNothing ==
    [][\A r \in Requests :
          SavedAfterLeaving(r) /\ OpenTabs = {sent[r].tab} /\ draft # None
          => ~Dirty(editor[sent[r].tab])]_vars
=============================================================================
