# Holotable: a verification project

Holotable serves live dashboards from one Node.js process. A language model
writes panel specifications; the process runs their guarded queries against
metrics sources and streams the rows to browsers. The parts where that is hard
to get right are not the queries but what surrounds them: one poller shared by
many viewers, slots and connections shared by many pollers, a gate in front of
a paid model, streams that must end with the right to see them, a browser
that must end up with what a fresh load would show, sessions renewed by several
tabs while they are revoked, editors that must not lose work, database instances
replaced while queries run on them.

These TLA+ modules model those parts from the code. TLC checks them on small
instances, and TLAPS proves their main safety properties for every instance.
`PROJECT.json` ties each definition to the lines it models and lists the runs,
the hazards each property is for, the theorems and the findings. Paths below
are relative to the application's `src/lib`, unless they start with `app/`.

## How JavaScript is modelled

The process is single-threaded: between two awaits nothing else runs. So **an
action is one synchronous stretch of code, from an await to the next**, and all
a stretch changes, changes in one step. What was read before an await may be
stale after it; it is kept in a variable of its own (`seen`, `want`, `at`,
`captured`) so that it can be. Where one stretch starts several executions
(the poller's cycle), the decision is an action and each start another, and
nothing else is enabled while some are left.

Steps that are transactions at PostgreSQL follow its default isolation, READ
COMMITTED: a statement sees what had committed when it began, a row taken FOR UPDATE
waits for its holder, a unique key waits for whoever inserts the same value. A
transaction that awaits a call to another system (a renewal, which asks the realm
with its row locked) is a sequence of steps that hold the row.

`DashboardPoller` gives microtasks their priority over timers and requests,
because properties depend on it; `DuckDbEngines` lets continuations run in any
order, which allows more behaviours than the runtime has.

Time is abstract: a timer is set and may fire. `LlmAdmission`, whose arithmetic is
about time, has a clock, as has `LiveView`, whose rows are made of it; `Sessions`
only orders moments: the n-th token expires n-th, and a token is from before or
after a revocation.

## The system's parts

### Modelled

| Part | State it keeps | Operations | What is hard | What makes it correct |
| --- | --- | --- | --- | --- |
| Source slots (`poller/source-slots.ts`) | a Map from source to a mutable Gate: a counter and a queue of waiters | acquire, the waiter's timer, release | gates are removed when idle while closures keep them; release and timeout in either order | the cap per source, no lost wakeup, one gate per source, no gate left, first come first served |
| Dashboard poller (`poller/registry.ts`, `poller/backoff.ts`) | subscribers, the timer, the panels executing, their health and what a joiner is sent | subscribe, tick, runPanel, retry, stop | cycles and retries overlap at awaits; a cycle that fails or outlives its poller | it never falls silent, leaks no slot, says "degraded" exactly while it backs off |
| Poller registry (`poller/registry.ts`) | a Map from key to poller | getPoller, stop, invalidatePoller, stopAllPollers | pollers replaced or invalidated under their subscribers, which stop them again later | the cap counts every poller that runs; each has a viewer |
| SSE streams (`sse-stream.ts`, `app/api/dashboards/[id]/stream`) | one viewer's subscription, guard, drain hook, backpressure count | open, send, drop, close | seven ways to end, one of them inside opening | nothing is left behind; the others carry on |
| Stream guard, revocation (`auth/stream-guard.ts`, `auth/revocation.ts`) | the expiry timer, the check under way, the revocations | expiry, recheck, revoke, stop | a check awaits twice, and the world changes meanwhile | the reason told is true, told once, and a stream ends with its token, session or dashboard |
| LLM admission (`limits/*.ts`), the requests of a call (`ai/invoke.ts`, `ai/data-chat.ts`) | token buckets, reservations, the usage table, the request under way | admit, ask, answer, repair, finish, record, release | two awaits between the cap, the budget and the reservation; a chat turn admitted once that makes several requests | a reservation is its call's for its whole time and no longer; reservations stay within the budget; busy means busy |
| Deltas and resume (`poller/registry.ts`, `poller/resume.ts`, `stream-merge.ts`), the live page (`components/dashboard/LiveDashboard.tsx`) | a subscriber's cursors, the event id, the frames on their way, the browser's pending frames, rows, badges and indicator | publish, deliver, catch up, resume, merge, flush, reopen, pause, cut-offs | a stream lost between any two frames resumes on another poller or version; the bucket of the newest row still fills; results overtake each other | the held rows are those of a fresh load; nothing stale is called live; the page catches up |
| Sessions and renewal (`auth/renewal.ts`, `auth/session-store.ts`, `session-renewal.ts`, `components/session-keepalive.tsx`, the refresh, logout and back-channel routes) | the row with the realm's refresh token, revocations, the cookie, each tab's keepalive | ask, lock, the realm's answer, verify, write, arrive, sign out, back-channel, sign in, restart | a transaction with a call inside; tabs that do not know of each other; a realm that rotates; an end that lands in the middle | a session is ended only if it is over; one that was ended stays ended; every tab comes to a later token or is told |
| Dashboard versions (`db/repo.ts`, `app/api/dashboards/[id]`) | the versions, the current number, the title, each writer's handler | save, rename, restore, delete, prune | writers that read a number in one statement and use it in another, without a lock | one history without gaps or rewrites; a save that fails lost to another |
| Editor and drafts (`app/dashboards/[id]/edit/edit-client.tsx`, `editor/drafts.ts`) | the working spec, what is saved, the timer, the offer, one draft per person and dashboard | load, mount, refresh, edit, autosave, restore, discard, save, leave, navigate, crash, late answers | edits while a save is in flight, a save that outlives its editor, tabs that share a draft, a dashboard that moves on underneath | unsaved work is in the draft or will be; an old draft is never offered as if it were current |
| DuckDB engines (`duckdb/client.ts`) | a Map from source to an engine, which counts the queries on it and may be retired | engineFor, acquire, retire, release, dispose | engines replaced, disposed of or failed while queries await or hold them | none is closed under a query; none that is open is forgotten |

### Not modelled

| Part | What it does | Why not, or when |
| --- | --- | --- |
| Shutdown (`shutdown.ts`) | drain flag, pollers, hooks, work in flight, pools, deadline | next in the plan; its steps that streams see are in `LiveStreams` |
| Catalog refresh, DuckDB uploads | a preview applied by digest; a staging area that is swept | candidates after the plan |
| TimescaleDB pools | a pool per connection | a simpler form of `DuckDbEngines`; a busy pool is in `DashboardPoller` |
| Generation and chat | model calls with bounded repair | admission, the requests of a turn, their deadlines and the report of a repair are in `LlmAdmission`; retries within a deadline and what a model answers are not |
| The IR, the SQL, PromQL and LogQL guards, authorization | pure checks over documents, syntax trees and roles | no state and no order of events; a small instance says little about three grammars |
| Retention, share links, API tokens, limits, MCP, secrets, configuration, metrics, readiness, the UI | rows, lookups, probes, rendering | no protocol of their own |

### How the modelled parts meet

A viewer's **stream** passes the route's checks, is attached to a **poller** of
its key in the **registry**, and starts a **guard**. The poller's cycle starts
executions, each of which waits for a **slot** of its source; an execution
against a DuckDB source holds an **engine**. A save or a delete invalidates
pollers; a logout ends guards; a shutdown stops pollers, ends streams, waits for
what is in flight and disposes of engines. **Admission** stands before the
routes that call a model, once for all the requests of a chat turn, and shares no
state with the rest.

What a stream carries ends in a browser's **live page**, which keeps its event id
and presents it when it connects again, to whichever poller serves its window then.
A page whose stream lost its session asks for a **renewal**, as the keepalive of
every tab does on its own. An **editor** saves **versions** over those of other
writers; each save invalidates the pollers that served the version before.

`DashboardPoller` composes with `SourceSlots` (it instantiates it over its own
variables). `LiveStreams` takes a poller's cycle only as something that ends, and
a guard only as something that may end a stream; `DashboardPoller` and
`StreamGuard` are the detail of those two steps. `LiveView` takes the pollers'
results as published at any time, in an order that `Lag` bounds, and a stream that
connects as opened: what makes a result and who may open a stream is the business of
the other two. `EditorDrafts` extends `DashboardVersions`: the saves its editors send
are writers of it, and what the others do comes from there. `LiveView` rests on `StreamDelta`, which
has no state.

## Modules

| Module | Models | State | Actions |
| --- | --- | --- | --- |
| `SourceSlots` | `SourceSlots` and `Gate` | `gates` is the Map, `inFlight` and `queue` the Gate objects, `captured` the object a closure holds, `slot` what an acquire came to | `Acquire`, `TimeOut`, `Release` (with hand-over and `Forget`), `Skip` |
| `SlotPromise` | what its callers may rely on: no gates, counters or queues | `slot` | `Take`, `Wait`, `GiveUp`, `GiveBack`, `GoOn` |
| `DashboardPoller` | one `DashboardPoller` object | `run` is where an execution's `runPanel` is; `executing`, `failures`, `backoff`, `latest`, `timer`, `ticking` are the fields of those names or of `PanelHealth`; `launching` is the rest of a stretch | `Subscribe`, `Unsubscribe`, `TimerFires`, `Launch`, `CompleteTick`, `SlotTimesOut`, `SkipRun`, `Execute`, `Succeed`, `Fail`, `Busy`, `Retry`, `TimePasses`, `StopUnderSubscribers` |
| `LiveStreams` | the registry, the stream route, the save and delete routes, the drain | `phase`, `key`, `seen`, `sub`, `behind`, `hooks`, `guarded` of a stream; `registry`, `running`, `cycling`, `ticked` of pollers; `version`, `unsettled`, `drain` | `ConnectRequest`, `LookUp`, `Refuse`, `OpenStream`, `Leave`, `EndCycle`, `GuardEnds`, `Save`, `Delete`, `Invalidate`, `BeginDrain`, `StopAllPollers`, `RunHooks` |
| `StreamGuard` | `guardStream`, `revoke`, the verification of a first-party token | `revoked`, `expired`, `viewable`; `phase`, `check`, `why` of a stream | `Connect`, `Guard`, `Stop`, `TokenExpires`, `ExpiryTimer`, `RevokeSession`, `Withdraw`, `Recheck`, `RecheckExpired`, `Verified`, `Authorized`, `LookupFails` |
| `LlmAdmission` | `enforceLlmLimits` and its three limits; the requests of an admitted call | `bucket`, `open` (reservations), `used` (the table), `writes` (reports on their way there, with `spent` and `wroteOn`), and each call's `phase`, `at`, `seen`, `asked` (its requests), `sent` (when the one under way was sent) | `Enter`, `CheckRateAndCap`, `ReadUsage`, `Decide`, `Ask`, `Answer`, `Repair`, `Finish`, `Release`, `Abandon`, `WriteUsage`, `LoseUsage`, `Tick` |
| `DuckDbEngines` | `runPlan`, `engineFor`, `acquire`, `retire`, the two disposals, for one source | `map`, and of an engine `status`, `key`, `active`, `retired`; of a query `pc`, `at`, `want` | `RunPlan`, `PrepareFails`, `Find`, `OpenFirst`, `FindsLive`, `TakesRaced`, `Reopens`, `Opens`, `OpeningFails`, `Acquire`, `LooksAgain`, `Throw`, `Release`, `Edit`, `Delete`, `Dispose`, `DisposeRetires` |
| `StreamDelta` | the operators of `computeDelta`, `maxTime`, `oldestTime`, `mergePanelRows` and the point budget over sets of rows; the rows a result has | none | none |
| `LiveView` | the delivery of `DashboardPoller`, `resume.ts`, and `LiveDashboard` | `latest` is what a joiner is sent, `sub` a subscriber with its cursors, `wire` and `pending` the frames, `es` the EventSource, `token` and `lastId` the event ids, `rows`, `live`, `connection` what is shown; `sent` is history | `TimePasses`, `Publish`, `Forget`, `Save`, `Connect`, `Arrive`, `Flush`, `DashboardError`, `Watchdog`, `Fail`, `End`, `Reopen`, `Pause` |
| `Sessions` | `renewSession`, its locked row, `revoke`, the three routes, the browser's keepalives | `row`, `revokedAt`, `cookie`, `tab`, `shared`; `req`, `out`, `told` are a renewal, a sign-out and the realm's call at the step they have reached; `realm` is what the realm accepts; `excused` and `left` are history | `KeepAlive`, `StreamLost`, `NoCookie`, `Lock`, `Grant`, `Refuse`, `RealmFails`, `Verify`, `KeysUnreachable`, `Write`, `WriteFails`, `Arrive`, `SignOut`, `DeleteRow`, `RevokeToken`, `SignedOut`, `RealmEnds`, `BackChannel`, `BackDelete`, `SignIn`, `Due`, `Expire`, `RowExpires`, `Restart` |
| `VersionHistory` | what a dashboard's history promises: no writers, no transactions | `kept`, `current`, `title`, `deleted` | `Append`, `Delete` |
| `DashboardVersions` | the routes that write a dashboard and `saveDashboardVersion`, statement by statement | `rows`, `dash`, and per writer `job`, its handler at the step it has reached | `Put`, `Rename`, `Restore`, `ReadTarget`, `SoftDelete`, `ReadNext`, `Insert`, `Commit`, `Abort`, `Respond` |
| `EditorDrafts` | the editor's page in several tabs of one person | `editor`; `page` is what the server rendered for a tab and it does not show yet; `sent` is a save in flight, with the tab it answers to; `draft`; `touched` is history | `Load`, `Mount`, `Refresh`, `Edit`, `RestoreDraft`, `DiscardDraft`, `Autosave`, `SaveVersion`, `Saved`, `SavedAfterLeaving`, `SaveFailed`, `Leave`, `Navigate`, `Crash` |

`MC*` modules give the constants of an instance, `*Proofs` modules hold the
theorems. A definition whose comment begins with "Wrong:" is no part of a
specification: it is the form a bug would give the definition after it, and the
property it is for must fail with it in place.

Abstractions worth knowing:

- A gate object nobody refers to is used again for a new one; identity is what
  `OneGatePerSource` needs of objects, and a finite set gives it.
- A poller is named by the stream whose `getPoller` made it, which fixes its key
  and version.
- A panel's backoff is fresh, past the retry's floor, or due. The length of a
  wait is left out; that the floor precedes the due time follows from the least
  refresh interval.
- A stream key stands for the dashboard range, row scope and variable values that
  make up a registry key; the last two are constant for a viewer's request.
- The tokens of `StreamGuard` are the app's own, which is what a browser's cookie
  holds. A token of the realm, whose verification needs the realm's keys, is not
  modelled; nor is the eight-hour hold after which a revocation is forgotten,
  which is as long as a token lives.
- A row is a bucket and a value; the newest bucket of a result still fills, so its
  value differs in the next. `Gaps` are buckets for which the source has no row. Time
  runs in halves of a bucket, so that a result can bring a new value without a new
  bucket. Truncation notices and the order of rows are left out.
- In `Sessions`, everybody signs in to one realm session, as a browser does under SSO.
  `excused` collects the sessions a fault may have cost: those whose refresh token the
  realm has replaced and nobody stored, whose keys could not be fetched, or whose row
  expired. The realm's words for "no" are one. `SignIn` is one step, from the sign-in
  page to the cookie: another tab's renewal comes before or after it, not within.
- `LiveView`'s `Pause` is the viewer's button and also a page that is hidden: both
  close the stream and keep what is shown.
- An editor's spec is a title and one choice of panels; undo is an edit. A draft's
  expiry and size are left out, as are a save that fails validation or whose
  dashboard is deleted (both answer like any other failure, `SaveFailed`).
- An editor that is left may be opened again while its save is in flight. The save's
  answer then finds no editor of its own (`SavedAfterLeaving`) and still removes the
  draft. "Save and view" is a save and a `Navigate`; if the page was left before the
  answer, its push is one more. Going back in the browser renders the page anew: the
  router's memory of pages is left out.
- What an editor is opened with, or refreshed with, was rendered earlier (`Load`), so the
  draft may be newer than the page it is compared with, or the page than the draft. A
  refresh compares again but leaves the editor the version it had.
- Bucket tokens are counted in `Minute`-ths so that a refill is whole.
- Every request of a call has a deadline from when it was sent, and `Tick` lets none
  outlive its own. Nothing else keeps time from passing: the awaits of an admission and
  the tools between two requests take any time, so a chat turn may run past the
  reservation of its admission.
- A call reports at its end and, if a chat turn repaired an answer, once before
  (`Repair`). The held-up stream of a repair is not told apart from the requests of the turn.

## The runs

`tlc -config X.cfg M` for each; every one ends within three minutes on two cores.

| Run | Instance | Question and result |
| --- | --- | --- |
| `source_slots` | five executions, four of them on one source of two slots; three gates | Cap, lost wakeups, gate identity, idle gates, queue order, refinement of `SlotPromise`, and that every waiter is served: all hold. Two can wait at once, so a timeout leaves from either end of the queue, and a source's second gate need not be its first. |
| `dashboard_poller` | two panels of different cadence, one source of one slot, two viewers, one retry each, two failures to back off | The poller is never silent, truthful about degraded panels, leaks no slot, completes every cycle and drains when stopped: all hold. A retry and a cycle of one panel overlap here, and one slot makes everything wait. |
| `live_streams` | three viewers, two of one key, a cap of one poller, two versions, dropped after two cycles | Nothing is left by a closed stream, the registry accounts for every poller, viewers are on a poller of their key and no older version, the others carry on, a deleted dashboard stops: all hold. A replaced poller and its successor need two viewers of one key; the cap needs a second key. |
| `stream_guard` | three streams, two of one session | The reason is true and said once; expiry, revocation and deletion end the stream: all hold. |
| `llm_admission` | three calls in two workspaces and of two users, two of them chat turns of up to three requests and a repair; limits of each kind; three ticks | Reservations stay within the budget, last their time and no call that is over keeps one, busy only when busy: all hold. Long enough for a reservation to expire under a turn that goes on, a bucket to refill and the day to change. |
| `duckdb_engines` | three queries, three openings, two configurations, a delete and a shutdown | No engine is closed under a query, none strays, a retired one takes no query more and closes: all hold. Three openings let one be replaced while another is held and a third opens. |
| `live_view` | one panel, a window of two buckets, a source with a gap, a budget of two points, time for three buckets, results that may overtake each other by half a bucket, one save, one lost connection, one change of the viewer's | Once all that was sent has landed the panel shows a fresh load's rows, no badge is live while the stream is away, and a page whose stream is served catches up again and again: all hold. The window moves past its first bucket, and the newest is seen filling. The gap lets a window's newest row stay the same while its oldest moves on. Two frames can be under way when the connection is lost, so that one of them landed and the other did not. |
| `range_round_trip` | two windows, two changes, no fault | `HeldIsFresh` fails: a window left and picked again (below, 1). |
| `sessions` | two tabs, a rotating realm, two sign-ins, one renewal moment, one revocation, one fault of any kind | An end is said only of what is over, what ended stays ended, tabs go on: all hold. Two tabs are what it takes to race for a row, two sign-ins for a late answer to meet a newer session; one fault cuts any sequence at any point. |
| `editing` | two tabs with one save in flight between them and another writer, two panels, two titles, two versions kept and there at first, one more saved, one page on its way at a time | One history, failures lost to another, drafts that hold the work, no old draft offered as current: all hold. Two are kept so that a save prunes. One save in flight is enough for its editor to be left and opened again, in its tab or the other; two at once are in the theorems. |
| `rename_undoes_save` | two saves at once and another writer | `RenameKeepsPanels` fails (below, 2). |
| `save_and_view` | the same | `SavedHoldsDraft` fails (below, 3). |

The bounds are small because the parts are symmetric: every property is about at
most two executions, streams or queries and one more actor to disturb them. The
safety properties with a theorem hold for every bound anyway. What the bounds cut
off is named in the constants and one constraint: `LastVersion` and `MaxVersion` saves, `MaxClock` ticks,
`MaxTime` halves of a bucket, `InFlight` frames, `Losses`, `Changes`, `MaxFaults`,
`MaxSignIns`, `MaxDue`, `MaxRevocations`, `Retries` pending at once, `Engines` openings,
`Gates` objects, `MaxRequests` of a turn, and `OnePage`, that one page is on its way at a time.
With `Engines` or `Gates` spent an
action is disabled, which removes behaviours but forces none.

Deadlock is not checked where the system may stop: a poller stopped for good, all
calls answered, all streams closed, a clock at its bound. It is checked for `SourceSlots` and
`StreamGuard`.

## Fairness

- `SourceSlots`: an execution that holds a slot releases it (the `finally` of
  `runPanel`; sources bound their statements), and a skipped one goes on. **None on
  `TimeOut`**: waiters must be served without their timer.
- `DashboardPoller`: promises settle, timers fire, statements end. None on viewers,
  retries, the passing of backoff, or the slots' timeout.
- `LiveStreams`: only that the guard of a deleted dashboard's stream ends it,
  which `StreamGuard` shows (`WithdrawalEndsStream`).
- `StreamGuard`: timers fire and verification answers, weakly. Strong for the
  answer of the dashboard lookup: a check that fails is repeated, and the config
  store is assumed not to fail at each of infinitely many checks.
- `DuckDbEngines`: a statement ends, if need be interrupted by its timer.
- `LiveView`: an EventSource reconnects by itself, frames land, pending ones are
  flushed. Strong for a result of the served poller that is the newest there is: its
  cycles go on (`NextCycleComes`) and not every one of them is overtaken or fails. None
  on the viewer, losses or the watchdog.
- `Sessions`: timers fire, requests arrive, the server goes through its steps, weakly;
  strongly for `Lock`, since the database hands a row on in turn. None on the realm's
  failures, sign-outs or time.
- `LlmAdmission`, `EditorDrafts` and `DashboardVersions`: none; they have no liveness
  property. (A save may fail for ever, and an editor may stay open.)

## Proofs

`tlapm` checks every theorem to its leaves. Assumptions are those named
`...Assumption` in the modules, evaluated by TLC in each run, and three that are part
of the theorems that need them: `SlowTicks > 1` for streams, `NobodyIsOvertaken` for
the history, that the viewer never `GoesBack` for the held window. Each is shown to be needed
by a configuration in which the property fails without it (below).

**`SourceSlotsProofs`**, for any sources, executions, gates and capacity. The cap is
not inductive: that the counter bounds the holders needs every release function in
use to refer to the registered gate, which needs gates to be forgotten only when
nobody holds or awaits a slot of theirs, which needs the queue to be exactly the
source's waiters. `SlotsInv` is the conjunction (`Captures`, `OneGatePerSource`,
`DistinctGates`, `QueueOfWaiters`, `CountOfHolders`); `SlotsInvariant` is
its theorem, and the cap, no lost wakeup, one gate and no idle gate follow; so does that
slots are granted in the order they were asked for (`GrantsAreFifo`), because a queue is
only added to at its end and who leaves it without a slot has timed out. Under
it each step of the gates is one of `SlotPromise` (`GatesKeepPromise`): a grant is
a `Take`, a hand-over a `GiveBack` to one of the waiters.

**`DashboardPollerProofs`**, for any panels, cadences, viewers, retries and
threshold. The cap is inherited from the theorems above rather than proved again
(`PollerCapIsKept`), as is what a hand-over may rely on in `NoSlotIsLeaked`: the poller
is written as a client of the slots, which a lemma spells out. `NeverSilentHolds` and
`DegradedIsTruthfulHolds` are inductive with the types.

**`LiveStreamsProofs`**, for any viewers, keys, caps and saves, with `SlowTicks > 1`
(at 1 `NothingLeft` is false). `StreamsInv` adds to the properties that
a poller is registered under its own key, that the stream that made it has opened
(so its key and version are fixed), and that the running pollers are finite and
counted. The heart is `EndKeeps`: any set of streams may end at once and the
registry still accounts for what runs. `OthersAlwaysCarryOn` is an action property
proved from the same invariant.

**`DuckDbEnginesProofs`**, for any queries, deletes, openings and configurations.
`EnginesInv` says that an engine's count is the number of queries running on it,
that the Map's engine is live, that what a disposal awaits has left the Map, and
that closed engines are retired and hold nobody. `InUseStaysOpen`,
`NothingStrays` and `RetiredTakesNoMore` follow.

**`LlmAdmissionProofs`**, for any finite set of calls and any limits and durations.
What makes a sweep safe is time: its `now` is from before two awaits, but never in
the future (`Timely`), so it takes no reservation before its end, and with it
`ReservedForItsTime` is inductive. That is as much as the code gives a call: a
reservation for its time, which a request sent within the slack cannot outlive, since
none outlives its deadline. It does not give a chat turn one for as long as it runs
(`RunningIsReserved`, below). `ReservedBounded` is by counting: an admission adds one
reservation to those it counted in the same step. `BusyIsTrue` is an action property
from both.

**`LiveViewProofs`**, for any panels, gaps, point budget, losses, saves and lag. Two
facts about the operators make deltas right at all. `Holds` says what rows a browser may
have of a result that was sent up to a cursor: below the cursor full buckets only, no
hole after the oldest, and all that the window and the point budget ask for.
`MergeHolds`: a frame cut at that cursor, from a result of any time, leaves rows that
hold it up to the next cursor. `MergeShows`: from a result that is not older, it leaves
the rows a fresh load would show. `AppendIsFresh` is its case for a browser that was
shown a result whole.

That the held window is fresh (`HeldWindowIsFresh`) is about frames that have not landed,
which the invariant follows to where they go. `Ahead(h)`: `h[n]` are the rows once n of
the frames that wait or are under way have been applied; each frame's id describes `h`
where it lands, the event id the page remembers describes it where the frames that have
arrived end, the subscriber's cursors where all end, and there it shows what was sent
last. A connection that is lost cuts the line off where the remembered id describes it,
and that is where a resume takes it up, on whichever poller and version (`StreamGoes`,
`ViewConnect`). `ViewInv` adds what the page knows of its stream. The types come first
(`LiveTypes`), with the version a frame's id names.

The theorem's hypothesis is about the viewer: the page is not asked back to the window
its remembered id is of (`GoesBack`), that is, back from another window before a frame of
that one has arrived. There the panels may have been cleared, and the id describes rows
the page no longer has; it is what run `range_round_trip` shows (below, 1). Everything
else is covered: picking windows otherwise, pausing, losing connections, being served by
another poller or version. A dashboard of one window has no such step, which is the
instance of run `live_view`. `AwayShowsStale` needs no hypothesis.

What counts as in order is by time, not by cursor (`sent`): two results whose newest row
is of the same bucket have the same cursor, though one may be older and hold an older
value of it, or an older window. An earlier form of `HeldIsFresh` compared cursors; the
proof failed on it, and TLC finds the state as soon as the source has a gap.

**`AccessProofs`**, about who may go on: sessions and the streams they hold open.

- `Sessions`, for any tabs, sign-ins, revocations and faults, with and without rotation.
  That an end is true is not inductive: it needs that a row has one renewal at a time
  (`OneHolder`), that the row of a session that is not over holds the token the realm
  accepts, but while a renewal is on its way back with the next (`RowsStand`), and that
  what such a renewal read or was given is still the realm's word (`Held`). `EndedInv` is
  the conjunction. That what ended stays ended needs `StaysInv`: after the two steps of a
  sign-out no row is left and no renewal that could write one (`Shut`, `Leaves`), and
  nothing of the session was vouched for later than the revocation (`LeftIsPast`).
- `StreamGuard`, for any streams and sessions: causes (expiry, revocation, withdrawal)
  never go away, and whatever a step says is true when it is said, so it stays true.
  `SaidOnceHolds` needs the types alone.

**`EditingProofs`**, for any panels, titles, versions, tabs, saves and other writers. Three
invariants, each resting on the one before.

- `WorkInv` is about the editors and the draft, and needs no more of the history than its
  types: an offer stands over saved work only, and with that `DraftHoldsWork` is inductive
  (`WorkIsInDraft`). It excuses an editor only from the step in which another removed or
  replaced the draft until its own next write; what it excuses is real, and shown below
  (`NavigationLosesNothing`).
- `HistoryInv` is about the database. The versions there are end at the current one
  (`InOneLine`), one transaction at a time is past its insert (`OneInserted`), and one that
  has read its number holds the one after what it saw, which others may have passed
  (`InTurn`). From it each commit appends to the history (`OneHistory`, the refinement of
  `VersionHistory`), a save that fails on the unique key lost to one that landed
  (`LosersLost`), and the types hold (`EditingTypes`).
- `SilenceInv` adds what is said of a version by whoever holds one: the draft of its base,
  a rendered page, an editor, an answer on its way. `Said` collects these; all that is said
  of one version agrees, and with what the database has of the current one. So a page and
  a draft of one version are of one spec however old both are, and no draft is offered as
  current that is not (`NothingWinsSilently`).

The theorems of the last two take `NobodyIsOvertaken`: versions are kept for ever, or no save is so slow
that as many others land between two of its statements as are kept, a hundred by default.
Without it `IsAHistory` is false (the last line of the table below). `WorkIsInDraft`
holds regardless.

Only model-checked are the liveness properties (`WaiterServed`, `NextCycleComes`,
`StoppedPollerDrains`, `DeletedStopsRunning`, `SessionEndsStream`,
`WithdrawalEndsStream`, `RetiredCloses`, `CatchesUp`, `TabsGoOn`), which are beyond the
prover. Every safety property of the passing runs has its theorem.

## Where code and comments differ

Three disagreements have a run that shows them; `PROJECT.json` quotes the lines.

1. **A window left and picked again stays empty** (`HeldIsFresh`, run
   `range_round_trip`). The stream of the second window clears the panels when it opens;
   the id that is remembered is the first window's until a frame with an id arrives. Back
   before that, the page resumes from it and is sent only what follows
   (`components/dashboard/LiveDashboard.tsx:297`).
2. **A rename can undo a save** (`RenameKeepsPanels`, run `rename_undoes_save`): it writes
   the spec it read before, and neither locks nor compares
   (`app/api/dashboards/[id]/route.ts:138`).
3. **Edits made while a save is in flight can be lost** (`SavedHoldsDraft`, run
   `save_and_view`): the answer removes the draft, and "save and view" leaves the page
   (`app/dashboards/[id]/edit/edit-client.tsx:571`). It does so even if the editor was left
   and opened again meanwhile (`NavigationLosesNothing`, below).

Others can be shown with the configurations kept beside the modules:

| Property | Shown by | What the code does |
| --- | --- | --- |
| `NoOverlap` | `tlc -config MCPollerOverlap.cfg MCDashboardPoller` | A cycle and a retry of one panel run at once: both test `executing` before they wait for a slot and are added to it after (`poller/registry.ts:716`). |
| `StopMeansNoNewQueries` | `MCPollerStop.cfg`, `MCDashboardPoller` | An execution that waits for a slot when `stop()` is called runs when it gets one, also during a shutdown (`poller/registry.ts:707,716`). |
| `InFlightCapped` | `MCLlmInFlight.cfg`, `MCLlmAdmission` | More than `LLM_MAX_IN_FLIGHT` calls run: the cap is tested before the usage query and the reservation made after it (`limits/llm.ts:167`). |
| `RunningIsReserved` | `MCLlmTurn.cfg`, `MCLlmAdmission` | A chat turn runs on unreserved, though "open reservations are also the calls in flight" (`limits/reservations.ts:11`). It is admitted once and makes several requests, each with a deadline of its own (`ai/invoke.ts:85`), while its reservation lasts one deadline and 15 seconds (`limits/llm.ts:107`) and is swept then (`limits/reservations.ts:33`); and the report of a repair settles it in the middle of the turn (`chat/turn.ts:115`). |
| `SpendingBounded` | `MCLlmBudget.cfg`, `MCLlmAdmission` | A day is overspent by calls that stay within their reservations: one that settles between another's usage query and its decision is counted in neither (`limits/llm.ts:212`). |
| `NothingLeft` | `MCStreamGhost.cfg`, `MCLiveStreams` | With `SSE_SLOW_TICKS=1` a stream can be dropped inside its own opening and leave a subscriber behind, which keeps its poller running (`sse-stream.ts:93`). |
| `GoneWhenDeleted` | `MCDuckDbDeleted.cfg`, `MCDuckDbEngines` | A query that read a source before its delete reopens the engine after the dispose, and it stays until shutdown (`app/api/sources/[id]/route.ts:144`). |
| `NavigationLosesNothing` | `MCLeftEditor.cfg`, `MCEditing` | A save is slow, the page is left through the command palette and opened again, edits are made and autosaved: the old save's answer removes their draft (`app/dashboards/[id]/edit/edit-client.tsx:571`), and another accidental navigation, which drafts are to outlive (`editor/drafts.ts:10`), loses them. |
| `IsAHistory` | `MCEditing.cfg` with `Overtaking = TRUE`, `MCEditing` | A save so slow that `DASHBOARD_VERSIONS_KEEP` others pass it between two of its statements finds its number pruned and free, and becomes current below the newest (`db/repo.ts:715`). It takes a small limit; the default is a hundred. |

And some were met while modelling and are written into the models as they are, without a
property that says otherwise:

- Live page. A cycle whose result is empty, of a window that has moved past all its data,
  changes nothing, and the old rows stay. The handlers of an ended session, withdrawn
  access and a full server take the badges without applying the frames that wait, which
  show as live until the watchdog looks. A save stops the poller under its viewers, who
  are served again when their guard or token ends the stream (`poller/registry.ts:995`).
  A result that is overtaken by an older one's execution leaves a viewer without its
  newest bucket until the next in order: `CatchesUp` and `HeldIsFresh` except it.
- Sessions. Realm keys that cannot be fetched make a valid token verify as null, and the
  session ends, where `refresh/route.ts:27` speaks of a 503. A realm token that was
  rotated and could not be written ends the session at the next renewal. A sign-out whose
  session cookie has expired revokes nothing, so that a renewal on its way can sign back
  in; so can another tab when the row's delete failed. A late 401 clears the cookies of a
  newer sign-in. A restart forgets revocations. `EndedIsTrue` and `StaysEnded` name what
  they except.
- Editing. Editors of one person share one draft, those in other tabs and those that were
  left with a save in flight (`touched`). A save after a soft delete adds
  a version. A PUT says nothing of the version it was made from, so the last writer wins.
  An answer that is lost shows one's own save as a conflict.
- A rate limiter's take with an older `now` sets `updatedAt` back, and the interval is
  refilled twice (`limits/rate.ts:58,63`). A DuckDB query whose engine was retired while
  it waited takes another query's engine without comparing configurations
  (`duckdb/client.ts:336`). The registry's test for a stalled poller
  (`poller/registry.ts:602`) is never true, as `NeverSilent` shows.

## Plan

Done: `SourceSlots` and `SlotPromise`, `DashboardPoller`, `LiveStreams` and
`StreamGuard`, `LlmAdmission`, `DuckDbEngines`, `StreamDelta` and `LiveView`, `Sessions`,
`VersionHistory`, `DashboardVersions` and `EditorDrafts`. Left, in order:

1. `Shutdown`: the order of its steps, the deadline, the second signal and the count of
   work in flight, composed with the executions of a poller. Its property: nothing that
   runs is cut off before the deadline, and a stream that opens late is ended.
2. `CatalogRefresh`: introspection, preview and apply against a digest, under concurrent
   edits; and a small module of the first write of workspace limits (`db/repo.ts:892`).
3. Refinements: that `DashboardPoller` implements the cycles of `LiveStreams`, and
   `StreamGuard` its `GuardEnds`.
4. The library of DuckDB uploads: a slow upload against the sweep of its staging area.
