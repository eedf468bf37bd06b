------------------------------ MODULE LiveView ------------------------------
(***************************************************************************)
(* What one viewer's panels show, against what a fresh load would: the     *)
(* pollers of the windows the viewer may pick, the subscriber's cursors    *)
(* and the event id a stream resumes from (src/lib/poller/registry.ts,     *)
(* src/lib/poller/resume.ts), and the browser's stream                     *)
(* (src/components/dashboard/LiveDashboard.tsx).                           *)
(*                                                                         *)
(* A window is its length in buckets.  Which pollers run and when a stream *)
(* may open is in LiveStreams; here a stream that connects opens.          *)
(***************************************************************************)
EXTENDS StreamDelta, SequencesExt

CONSTANTS
  Panels,
  Ranges,      \* the windows the viewer may pick
  Lag,         \* by how much two executions of a panel may overtake each other
  MaxTime,     \* bound on time, in halves of a bucket
  LastVersion, \* bound on the dashboard's saves
  InFlight,    \* bound on frames sent that have not landed
  Losses,      \* bound on lost connections
  Changes,     \* bound on what the viewer does
  Error

ASSUME LiveViewAssumption ==
  /\ Ranges \subseteq Nat \ {0} /\ Ranges # {} /\ Error # None
  /\ IsFiniteSet(Panels) /\ Panels # {}
  /\ Lag \in Nat /\ MaxTime \in Nat
  /\ LastVersion \in Nat \ {0} /\ InFlight \in Nat /\ Losses \in Nat /\ Changes \in Nat

VARIABLES
  clock, version, losses, changes,
  latest,  \* <<window, version>> -> panel -> what a joiner is sent of it
  sub,     \* the stream's subscriber: its poller and its cursors, or None
  wire,    \* frames sent that have not arrived
  sent,    \* (history) panel -> when the newest result it was sent had run
  range,   \* the window picked
  es,      \* the EventSource: "closed", "connecting" or "open"
  fresh,   \* the stream starts over when it opens
  token,   \* the event id the EventSource presents when it connects
  lastId,  \* lastEventIdRef: the last event id, and the window it is of
  pending, \* pendingRef: frames waiting for a tick or an animation frame
  rows,    \* panel -> the rows it shows
  live,    \* the panels with a live badge
  connection \* what the indicator says of the stream

server  == <<clock, version, latest>>
stream  == <<sub, wire, sent>>
reading == <<range, es, fresh, token, lastId, connection>>
shown   == <<rows, live>>
bounds  == <<losses, changes>>
vars == <<server, bounds, stream, reading, pending, shown>>

Versions == 1..LastVersion
Pollers == Ranges \X Versions
Result == [at : 0..MaxTime, of : Versions]
Cursors == [Panels -> Nat \cup {None}]
Subscriber == [range : Ranges, of : Versions, cursors : Cursors]
Token == [of : Versions, cursors : Cursors]
LastId == [range : Ranges, id : Token]
Frame ==
  [panel : Panels, fresh : SUBSET Row, since : Nat \cup {None},
   oldest : Nat \cup {None}, id : Token]
  \cup [panel : Panels, error : BOOLEAN]

ASSUME ValuesAssumption ==
  \A x \in {None, Error} : x \notin Result /\ x \notin Subscriber /\ x \notin LastId

LiveTypeOK ==
  /\ clock \in 0..MaxTime /\ version \in Versions
  /\ losses \in 0..Losses /\ changes \in 0..Changes
  /\ latest \in [Pollers -> [Panels -> Result \cup {None, Error}]]
  /\ sub \in Subscriber \cup {None}
  /\ range \in Ranges /\ es \in {"closed", "connecting", "open"} /\ fresh \in BOOLEAN
  /\ token \in Token \cup {None}
  /\ lastId \in LastId \cup {None}
  /\ sent \in [Panels -> 0..MaxTime]
  /\ wire \in Seq(Frame) /\ pending \in Seq(Frame)
  /\ rows \in [Panels -> SUBSET Row] /\ live \subseteq Panels
  /\ connection \in {"connecting", "live", "reconnecting", "paused", "failed"}

Nothing == [p \in Panels |-> None]

Init ==
  /\ clock = 0 /\ version = 1 /\ losses = 0 /\ changes = 0
  /\ latest = [q \in Pollers |-> Nothing]
  /\ sub = None /\ wire = <<>> /\ sent = [p \in Panels |-> 0]
  /\ range \in Ranges /\ es = "connecting" /\ fresh = TRUE
  /\ token = None /\ lastId = None /\ pending = <<>>
  /\ rows = [p \in Panels |-> {}] /\ live = {}
  /\ connection = "connecting"
-----------------------------------------------------------------------------
RowsOf(w, result) == RowsAt(w, result.at, result.of)

IsError(f) == "error" \in DOMAIN f

\* deliver: one panel's event to a subscriber.  Its cursor moves, and the id of
\* the frame is all its cursors after that; an error has none.
Deliver(s, p, event) ==
  IF event = Error
  THEN [to |-> s, frame |-> [panel |-> p, error |-> TRUE]]
  ELSE LET R  == RowsOf(s.range, event)
           to == [s EXCEPT !.cursors[p] = Advance(R, @)]
           f  == Cut(R, s.cursors[p])
       IN [to |-> to,
           frame |-> [panel |-> p, fresh |-> f.fresh, since |-> f.since,
                      oldest |-> f.oldest,
                      id |-> [of |-> s.of, cursors |-> to.cursors]]]

\* catchUp: what the last cycle produced of each panel, in the spec's order.
CatchUp(s, q, order) ==
  LET joined[i \in 0..Len(order)] ==
        IF i = 0 THEN [to |-> s, wire |-> <<>>]
        ELSE LET event == latest[q][order[i]]
                 d == Deliver(joined[i - 1].to, order[i], event)
             IN IF event = None THEN joined[i - 1]
                ELSE [to |-> d.to, wire |-> Append(joined[i - 1].wire, d.frame)]
  IN joined[Len(order)]

\* The newest of what was sent of a panel, now that event is sent too.
Newest(n, event) == IF event \in {None, Error} \/ event.at < n THEN n ELSE event.at

\* Wrong: an id of another version will do.
DecodeAny(t, v) == IF t = None THEN Nothing ELSE t.cursors

\* decodeResumeToken: the cursors of an id of this version, or none.
Decode(t, v) == IF t = None \/ t.of # v THEN Nothing ELSE t.cursors

\* applyPollerEvents: a batch of frames, one after the other.
Land(s, f) ==
  IF IsError(f) THEN [s EXCEPT !.live = @ \ {f.panel}]
  ELSE [rows |-> [s.rows EXCEPT ![f.panel] = Merge(@, f)], live |-> s.live \cup {f.panel}]
Apply(frames) ==
  LET landed[i \in 0..Len(frames)] ==
        IF i = 0 THEN [rows |-> rows, live |-> live] ELSE Land(landed[i - 1], frames[i])
  IN landed[Len(frames)]

\* flushEvents, and the badges markStale leaves.
FlushAnd(stale) ==
  LET s == IF pending = <<>> THEN [rows |-> rows, live |-> live] ELSE Apply(pending)
  IN /\ rows' = s.rows
     /\ live' = IF stale THEN {} ELSE s.live
     /\ pending' = <<>>
-----------------------------------------------------------------------------
TimePasses ==
  /\ clock < MaxTime
  /\ clock' = clock + 1
  /\ UNCHANGED <<version, latest, bounds, stream, reading, pending, shown>>

\* The stream is a subscriber of poller q.
Watches(q) == sub # None /\ <<sub.range, sub.of>> = q

Send(q, p, event) ==
  IF Watches(q)
  THEN LET d == Deliver(sub, p, event) IN
       /\ sub' = d.to
       /\ wire' = Append(wire, d.frame)
       /\ sent' = [sent EXCEPT ![p] = Newest(@, event)]
  ELSE UNCHANGED stream

\* publish, of an execution that started at most Lag ago: an execution may be
\* overtaken by a later one of its panel.
Publish(q, p) ==
  /\ q[2] <= version
  /\ Len(wire) + Len(pending) < InFlight
  /\ \E n \in (clock - Lag)..clock, fails \in BOOLEAN :
       LET event == IF fails THEN Error ELSE [at |-> n, of |-> q[2]] IN
       /\ n >= 0
       /\ latest' = [latest EXCEPT ![q][p] = event]
       /\ Send(q, p, event)
  /\ UNCHANGED <<clock, version, bounds, reading, pending, shown>>

\* A poller nobody else watches stops, and its successor starts with nothing.
Forget(q) ==
  /\ ~Watches(q)
  /\ latest[q] # Nothing
  /\ latest' = [latest EXCEPT ![q] = Nothing]
  /\ UNCHANGED <<clock, version, bounds, stream, reading, pending, shown>>

Save ==
  /\ version < LastVersion
  /\ version' = version + 1
  /\ UNCHANGED <<clock, latest, bounds, stream, reading, pending, shown>>

\* The request reaches the route, which subscribes it to the poller of the
\* current version, and the response opens the stream.  Only one that starts
\* over clears the panels.
Connect ==
  /\ es = "connecting"
  /\ \E order \in SetToSeqs(Panels) :
       LET q == <<range, version>>
           joined == CatchUp([range |-> range, of |-> version,
                              cursors |-> Decode(token, version)], q, order)
       IN /\ sub' = joined.to
          /\ wire' = joined.wire
          /\ sent' = [p \in Panels |-> Newest(sent[p], latest[q][p])]
  /\ es' = "open" /\ fresh' = FALSE /\ connection' = "live"
  /\ IF fresh
     THEN /\ pending' = <<>>
          /\ rows' = [p \in Panels |-> {}]
          /\ live' = {}
     ELSE UNCHANGED <<pending, shown>>
  /\ UNCHANGED <<server, bounds, range, token, lastId>>
-----------------------------------------------------------------------------
\* onmessage: the id is kept at once, the frame waits.
Arrive ==
  /\ wire # <<>>
  /\ LET f == Head(wire) IN
     /\ wire' = Tail(wire)
     /\ pending' = Append(pending, f)
     /\ IF IsError(f) THEN UNCHANGED <<token, lastId>>
        ELSE /\ token' = f.id
             /\ lastId' = [range |-> range, id |-> f.id]
  /\ UNCHANGED <<server, bounds, sub, sent, range, es, fresh, connection, shown>>

\* The animation frame, or a tick, which also says that the stream is live.
Flush ==
  /\ pending # <<>>
  /\ FlushAnd(FALSE)
  /\ \E tick \in BOOLEAN :
       /\ tick => es = "open"
       /\ connection' = IF tick THEN "live" ELSE connection
  /\ UNCHANGED <<server, bounds, stream, range, es, fresh, token, lastId>>

\* A dashboard-error: the stream is healthy, the data behind it is not.
DashboardError ==
  /\ es = "open"
  /\ FlushAnd(TRUE)
  /\ UNCHANGED <<server, bounds, stream, reading>>

\* No tick for two cycles.
Watchdog ==
  /\ es # "closed"
  /\ live' = {}
  /\ UNCHANGED <<server, bounds, stream, reading, pending, rows>>

Cutoff == sub' = None /\ wire' = <<>> /\ UNCHANGED sent

\* Wrong: the frames that arrived first are applied after the badges went.
FailKeepingFrames ==
  /\ es = "open" /\ losses < Losses
  /\ losses' = losses + 1
  /\ es' = "connecting"
  /\ Cutoff
  /\ live' = {} /\ connection' = "reconnecting"
  /\ UNCHANGED <<server, changes, range, fresh, token, lastId, pending, rows>>

\* onerror, a drain or a drop: what was sent and has not arrived is lost, and
\* the EventSource connects again.
Fail ==
  /\ es = "open" /\ losses < Losses
  /\ losses' = losses + 1
  /\ es' = "connecting" /\ connection' = "reconnecting"
  /\ Cutoff
  /\ FlushAnd(TRUE)
  /\ UNCHANGED <<server, changes, range, fresh, token, lastId>>

\* session-ended and access-ended: the stream is closed for good, and what
\* waits is not applied before the badges go.
End ==
  /\ es = "open" /\ losses < Losses
  /\ losses' = losses + 1
  /\ es' = "closed" /\ connection' = "failed"
  /\ Cutoff
  /\ live' = {}
  /\ UNCHANGED <<server, changes, range, fresh, token, lastId, pending, rows>>

\* A new EventSource, for the window r: it resumes if the last id is of that
\* window, and starts over otherwise.
Open(r) ==
  LET resuming == lastId # None /\ lastId.range = r IN
  /\ range' = r /\ es' = "connecting"
  /\ fresh' = ~resuming
  /\ token' = IF resuming THEN lastId.id ELSE None

\* The viewer picks another window, reconnects, shows the page again or goes
\* on after a pause; so does a renewed session.  The old stream closes first.
Reopen(r) ==
  /\ changes < Changes
  /\ changes' = changes + 1
  /\ Cutoff
  /\ FlushAnd(FALSE)
  /\ Open(r)
  /\ connection' = IF connection = "paused" THEN "connecting" ELSE connection
  /\ UNCHANGED <<server, losses, lastId>>

\* A pause, or a page hidden for long.
Pause ==
  /\ es # "closed" /\ changes < Changes
  /\ changes' = changes + 1
  /\ es' = "closed" /\ connection' = "paused"
  /\ Cutoff
  /\ FlushAnd(FALSE)
  /\ UNCHANGED <<server, losses, range, fresh, token, lastId>>
-----------------------------------------------------------------------------
Next ==
  \/ TimePasses \/ Save \/ Connect \/ Arrive \/ Flush \/ Fail \/ End \/ Pause
  \/ DashboardError \/ Watchdog
  \/ \E q \in Pollers : Forget(q) \/ \E p \in Panels : Publish(q, p)
  \/ \E r \in Ranges : Reopen(r)

\* A poller that was not stopped under the stream by a save runs its panels
\* again and again, and not always in vain; frames arrive and are applied, and
\* an EventSource connects again.
Served == Watches(<<range, version>>)

PublishesNow(p) ==
  /\ Served
  /\ Publish(<<range, version>>, p)
  /\ latest'[<<range, version>>][p] = [at |-> clock, of |-> version]

Fairness ==
  /\ WF_vars(Connect) /\ WF_vars(Arrive) /\ WF_vars(Flush)
  /\ \A p \in Panels : SF_vars(PublishesNow(p))

Spec == Init /\ [][Next]_vars /\ Fairness
-----------------------------------------------------------------------------
\* All that was sent to the open stream has landed.
Settled == es = "open" /\ wire = <<>> /\ pending = <<>>

\* The result has rows, and none the panel was sent before was newer.
InOrder(p, result) == RowsOf(sub.range, result) # {} /\ sent[p] = result.at

Shows(p, result) == rows[p] = Fit(RowsOf(range, result))

\* The panel's last result, if it is one.
LastResult(q, p) == {result \in {latest[q][p]} : result \notin {None, Error}}

\* "the held window is what a fresh load would show" (docs, architecture/
\* invariants.md, 11): once all that was sent has landed, a panel shows the
\* rows of its poller's last result, limited to the point budget, whatever was
\* lost, resumed, replaced, paused or overtaken before.
HeldIsFresh ==
  Settled =>
    \A p \in Panels : \A result \in LastResult(<<sub.range, sub.of>>, p) :
      InOrder(p, result) => Shows(p, result)

\* No panel reads as live while the indicator says that the stream is away: the
\* frames that arrived before it went are applied before the badges are taken.
AwayIsStale == connection = "reconnecting" => live = {}

\* A viewer whose stream is served, and who does not close it, is shown what
\* the source holds now, again and again, but for a result that was overtaken.
CatchesUp ==
  \/ <>[](es = "closed" \/ (es = "open" /\ ~Served))
  \/ \A p \in Panels :
       []<>\/ \E n \in (clock - Lag)..clock :
                n >= 0 /\ Shows(p, [at |-> n, of |-> version])
           \/ /\ es = "open"
              /\ \E result \in LastResult(<<sub.range, sub.of>>, p) : ~InOrder(p, result)
=============================================================================
