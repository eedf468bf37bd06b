------------------------------ MODULE Sessions ------------------------------
(* The life of a signed-in browser: the cookie whose token every request     *)
(* verifies, the row with the realm's refresh token that renews it, the tabs *)
(* that ask for a renewal each on its own, and the ways a session ends: the  *)
(* realm's word, a sign-out, a row nobody renewed in time                    *)
(* (lib/auth/renewal.ts, session-store.ts, revocation.ts, the refresh,       *)
(* logout and back-channel routes, lib/session-renewal.ts and the keepalive).*)
(*                                                                           *)
(* A renewal is one transaction that holds its row from the read to the      *)
(* commit, with two calls to the realm in between, so its parts are steps of *)
(* their own: Lock, the realm's answer, Verify, Write, and the response's    *)
(* arrival. Everybody signs in to one realm session (SSO); what follows the  *)
(* end of the realm's session is a sign-in like the first.                   *)
EXTENDS Naturals, FiniteSets

CONSTANTS
    Tabs,           \* the browser's tabs, each with a keepalive
    None,           \* no cookie, nothing asked
    Rotates,        \* the realm replaces a refresh token when it is used
    MaxSignIns,     \* bound: sign-ins, the first included
    MaxDue,         \* bound: renewal moments that come
    MaxRevocations, \* bound: after this many nobody signs out, nor does the realm end it
    MaxFaults       \* bound: calls, writes and answers that fail

ASSUME SessionsAssumption ==
    /\ Tabs # {} /\ IsFiniteSet(Tabs) /\ None \notin Nat
    /\ Rotates \in BOOLEAN
    /\ MaxSignIns \in Nat \ {0} /\ MaxDue \in Nat /\ MaxRevocations \in Nat /\ MaxFaults \in Nat

VARIABLES
    row,        \* per session id: the row's refresh token, 0 when it is gone
    stale,      \* session ids whose row has outlived its refresh token
    realm,      \* [over, accepts]: is it ended, and the token it takes per id
    excused,    \* (history) session ids that have ended, or may be ended
    revokedAt,  \* the moment of the last revocation the process remembers
    clock,      \* counts revocations: what came before or after which
    req,        \* per tab: its renewal in flight
    out,        \* the sign-out in flight
    told,       \* the realm's back-channel call in flight
    cookie,     \* the browser's two cookies
    left,       \* (history) session ids ended by a sign-out or by the realm's call
    tab,        \* per tab: the keepalive
    shared,     \* localStorage: the expiry the last renewal announced
    minted,     \* tokens minted: the n-th expires n-th
    due,        \* the renewal moments of tokens up to this one have come
    passed,     \* the tokens up to this one have expired
    faults

vars == <<row, stale, realm, excused, revokedAt, clock, req, out, told, cookie, left,
          tab, shared, minted, due, passed, faults>>
server == <<row, stale, realm, excused, revokedAt, clock>>
browser == <<cookie, left, tab, shared>>
time == <<minted, due, passed>>

Ids == 1..MaxSignIns
SignedIn == {s \in Ids : realm.accepts[s] # 0}
Later(a, b) == IF a > b THEN a ELSE b
Idle == [stage |-> "idle"]
NoToken == [n |-> 0, vouched |-> 0]

\* verifySessionToken of a token this app signed: not expired, and not issued
\* at or before the revocation of its realm session.
Accepted(token) == token.n > passed /\ token.vouched > revokedAt

-----------------------------------------------------------------------------
Init ==
    /\ row = [s \in Ids |-> IF s = 1 THEN 1 ELSE 0]
    /\ stale = {}
    /\ realm = [over |-> FALSE, accepts |-> [s \in Ids |-> IF s = 1 THEN 1 ELSE 0]]
    /\ excused = {}
    /\ revokedAt = 0 /\ clock = 1
    /\ req = [t \in Tabs |-> Idle]
    /\ out = Idle
    /\ told = "no"
    /\ cookie = [token |-> [n |-> 1, vouched |-> 1], id |-> 1]
    /\ left = {}
    /\ tab = [t \in Tabs |-> [timer |-> "due", known |-> 1, ended |-> FALSE]]
    /\ shared = 0
    /\ minted = 1 /\ due = 0 /\ passed = 0
    /\ faults = 0

Fault == faults < MaxFaults /\ faults' = faults + 1

-----------------------------------------------------------------------------
(* A tab asks. One request in flight per tab: who asks meanwhile shares it.  *)

Ask(t) == req' = IF req[t].stage # "idle" THEN req
                 ELSE [req EXCEPT ![t] = [stage |-> "sent", id |-> cookie.id]]

\* adopt: the expiry is known, and the timer set for shortly before it.
Adopt(k, n) == [timer |-> "due", known |-> Later(k.known, n), ended |-> FALSE]

\* The keepalive's timer: a token about to expire, or a renewal to try again.
\* Another tab may have renewed for everyone.
KeepAlive(t) ==
    /\ \/ tab[t].timer = "due" /\ tab[t].known <= due
       \/ tab[t].timer = "retry"
    /\ IF shared > passed /\ shared > tab[t].known
       THEN /\ tab' = [tab EXCEPT ![t].timer = "due", ![t].known = shared]
            /\ UNCHANGED req
       ELSE /\ tab' = [tab EXCEPT ![t].timer = "none"]
            /\ Ask(t)
    /\ UNCHANGED <<server, out, told, cookie, left, shared, time, faults>>

\* A live dashboard of the tab lost its stream: to a revocation, or to expiry
\* when no tab has announced a later one (ensureSession).
StreamLost(t) ==
    /\ cookie.token # NoToken /\ ~Accepted(cookie.token)
    /\ cookie.token.vouched <= revokedAt \/ shared <= passed
    /\ req[t].stage = "idle"
    /\ Ask(t)
    /\ UNCHANGED <<server, out, told, browser, time, faults>>

-----------------------------------------------------------------------------
(* POST /api/auth/refresh                                                    *)

\* Wrong: the row is read without FOR UPDATE.
Unlocked(s) == FALSE

Locked(s) == \E t \in Tabs : /\ req[t].stage \in {"asking", "granted", "verified"}
                             /\ req[t].id = s

Answer(t, a) == req' = [req EXCEPT ![t] = [stage |-> "answered", id |-> @.id, answer |-> a]]
Ended(t) == /\ Answer(t, "ended")
            /\ row' = [row EXCEPT ![req[t].id] = 0]
            /\ UNCHANGED <<stale, revokedAt, clock, faults>>
Unavailable(t) == Answer(t, "unavailable") /\ UNCHANGED row

\* No renewal cookie: a 401 that touches nothing.
NoCookie(t) ==
    /\ req[t].stage = "sent" /\ req[t].id = None
    /\ Answer(t, "ended")
    /\ UNCHANGED <<server, out, told, browser, time, faults>>

\* SELECT ... FOR UPDATE. A row that is gone or expired ends the session; from
\* here to the answer the row is this renewal's. vouchedAt is taken now.
Vouch(t) == clock
Lock(t) ==
    /\ req[t].stage = "sent" /\ req[t].id # None /\ ~Locked(req[t].id)
    /\ IF row[req[t].id] = 0 \/ req[t].id \in stale
       THEN Ended(t)
       ELSE /\ req' = [req EXCEPT ![t] = [stage |-> "asking", id |-> @.id,
                                          rt |-> row[req[t].id], vouched |-> Vouch(t)]]
            /\ UNCHANGED <<row, stale, revokedAt, clock, faults>>
    /\ UNCHANGED <<realm, excused, out, told, browser, time>>

\* refreshTokens: the realm takes the token it last gave, of a session it has
\* not ended, and may give another in its place.
NextToken(s) == IF Rotates THEN realm.accepts[s] + 1 ELSE realm.accepts[s]
Grant(t) ==
    /\ req[t].stage = "asking" /\ ~realm.over /\ req[t].rt = realm.accepts[req[t].id]
    /\ realm' = [realm EXCEPT !.accepts[req[t].id] = NextToken(req[t].id)]
    /\ req' = [req EXCEPT ![t] = [stage |-> "granted", id |-> @.id, vouched |-> @.vouched,
                                  rt |-> NextToken(req[t].id), issued |-> clock]]
    /\ UNCHANGED <<row, stale, excused, revokedAt, clock, out, told, browser, time, faults>>

Refuse(t) ==
    /\ req[t].stage = "asking"
    /\ realm.over \/ req[t].rt # realm.accepts[req[t].id]
    /\ Ended(t)
    /\ UNCHANGED <<realm, excused, out, told, browser, time>>

\* The realm does not answer, or answers too late: TOKEN_TIMEOUT_MS. The
\* transaction rolls back, and a token it may have given is nobody's.
RealmFails(t) ==
    /\ Fault /\ req[t].stage = "asking" /\ Unavailable(t)
    /\ \/ UNCHANGED <<realm, excused>>
       \/ /\ Rotates /\ ~realm.over /\ req[t].rt = realm.accepts[req[t].id]
          /\ realm' = [realm EXCEPT !.accepts[req[t].id] = NextToken(req[t].id)]
          /\ excused' = excused \union {req[t].id}
    /\ UNCHANGED <<stale, revokedAt, clock, out, told, browser, time>>

\* verifyIdToken of what the realm gave: null when it was issued before a
\* revocation.
Verify(t) ==
    /\ req[t].stage = "granted"
    /\ \/ /\ req[t].issued > revokedAt
          /\ req' = [req EXCEPT ![t].stage = "verified"]
          /\ UNCHANGED <<row, stale, revokedAt, clock, faults>>
       \/ req[t].issued <= revokedAt /\ Ended(t)
    /\ UNCHANGED <<realm, excused, out, told, browser, time>>

\* verifyRealmToken answers null as well when the realm's keys cannot be
\* fetched, and the session ends as if the token were not the realm's.
KeysUnreachable(t) ==
    /\ Fault /\ req[t].stage = "granted"
    /\ Answer(t, "ended")
    /\ row' = [row EXCEPT ![req[t].id] = 0]
    /\ excused' = excused \union {req[t].id}
    /\ UNCHANGED <<stale, realm, revokedAt, clock, out, told, browser, time>>

\* Wrong: the token's issue time is when this app signs it.
IssuedWhenSigned(t) == clock

\* The row is updated and the transaction commits; the new token's issue time
\* is the moment the realm was asked.
IssuedAs(t) == req[t].vouched
Write(t) ==
    /\ req[t].stage = "verified"
    /\ row' = [row EXCEPT ![req[t].id] = req[t].rt]
    /\ stale' = stale \ {req[t].id}
    /\ minted' = minted + 1
    /\ req' = [req EXCEPT ![t] = [stage |-> "answered", id |-> @.id, answer |-> "renewed",
                                  token |-> [n |-> minted + 1, vouched |-> IssuedAs(t)]]]
    /\ UNCHANGED <<realm, excused, revokedAt, clock, out, told, browser, due, passed, faults>>

WriteFails(t) ==
    /\ Fault /\ req[t].stage = "verified" /\ Unavailable(t)
    /\ excused' = IF Rotates THEN excused \union {req[t].id} ELSE excused
    /\ UNCHANGED <<stale, realm, revokedAt, clock, out, told, browser, time>>

\* The response lands: cookies, then SESSION_EVENT in this tab and a storage
\* event in the others that listen: a tab that sleeps looks when it wakes.
Renewed(t) ==
    /\ req[t].answer = "renewed"
    /\ cookie' = [token |-> req[t].token, id |-> req[t].id]
    /\ shared' = req[t].token.n
    /\ \E listening \in SUBSET Tabs :
          tab' = [u \in Tabs |-> IF u \in {t} \union listening
                                THEN Adopt(tab[u], req[t].token.n) ELSE tab[u]]
Over(t) ==
    /\ req[t].answer = "ended"
    /\ cookie' = IF req[t].id = None THEN cookie ELSE [token |-> NoToken, id |-> None]
    /\ tab' = [tab EXCEPT ![t] = [@ EXCEPT !.timer = "none", !.ended = TRUE]]
    /\ UNCHANGED shared

\* Wrong: a failed renewal is left at that.
GiveUp(t) ==
    /\ tab' = [tab EXCEPT ![t].timer = "none"]
    /\ UNCHANGED <<cookie, shared>>

TryLater(t) ==
    /\ tab' = [tab EXCEPT ![t].timer = "retry"]
    /\ UNCHANGED <<cookie, shared>>
Arrive(t) ==
    /\ req[t].stage = "answered"
    /\ \/ Renewed(t) /\ UNCHANGED faults
       \/ Over(t) /\ UNCHANGED faults
       \/ req[t].answer = "unavailable" /\ TryLater(t) /\ UNCHANGED faults
       \/ req[t].answer # "unavailable" /\ Fault /\ TryLater(t)     \* the answer is lost
    /\ req' = [req EXCEPT ![t] = Idle]
    /\ UNCHANGED <<server, out, told, left, time>>

-----------------------------------------------------------------------------
(* POST /api/auth/logout: the row first, then the token.                     *)

SignOut ==
    /\ out = Idle /\ cookie.token # NoToken /\ clock <= MaxRevocations
    /\ out' = [stage |-> "deleting", id |-> cookie.id, token |-> cookie.token, rowGone |-> TRUE]
    /\ UNCHANGED <<server, req, told, browser, time, faults>>

\* endSession. The DELETE waits for a renewal that holds the row; a failure is
\* logged, and the sign-out goes on.
DeleteRow ==
    /\ out.stage = "deleting"
    /\ \/ /\ out.id # None => ~Locked(out.id)
          /\ row' = [s \in Ids |-> IF s = out.id THEN 0 ELSE row[s]]
          /\ excused' = excused \union (Ids \intersect {out.id})
          /\ out' = [out EXCEPT !.stage = "revoking"]
          /\ UNCHANGED faults
       \/ /\ Fault
          /\ out' = [out EXCEPT !.stage = "revoking", !.rowGone = FALSE]
          /\ UNCHANGED <<row, excused>>
    /\ UNCHANGED <<stale, realm, revokedAt, clock, req, told, browser, time>>

Revoke == revokedAt' = clock /\ clock' = clock + 1

Gone == IF out.rowGone THEN {out.id} ELSE {}

\* getSessionRef is null for a token that no longer verifies, and nothing is
\* revoked. What is revoked is the realm session: every token issued in it.
RevokeToken ==
    /\ out.stage = "revoking"
    /\ IF Accepted(out.token)
       THEN Revoke /\ excused' = excused \union SignedIn /\ left' = left \union Gone
       ELSE UNCHANGED <<revokedAt, clock, excused, left>>
    /\ out' = [out EXCEPT !.stage = "answered"]
    /\ UNCHANGED <<row, stale, realm, req, told, cookie, tab, shared, time, faults>>

SignedOut ==
    /\ out.stage = "answered"
    /\ cookie' = [token |-> NoToken, id |-> None]
    /\ out' = Idle
    /\ UNCHANGED <<server, req, told, left, tab, shared, time, faults>>

\* POST /api/auth/backchannel-logout, when the realm's session ends: the
\* revocation first, then the rows. A failed delete is logged.
RealmEnds ==
    /\ ~realm.over /\ clock <= MaxRevocations
    /\ realm' = [realm EXCEPT !.over = TRUE]
    /\ told' = "calling"
    /\ UNCHANGED <<row, stale, excused, revokedAt, clock, req, out, browser, time, faults>>
BackChannel ==
    /\ told = "calling" /\ Revoke /\ told' = "deleting"
    /\ left' = SignedIn
    /\ UNCHANGED <<row, stale, realm, excused, req, out, cookie, tab, shared, time, faults>>
BackDelete ==
    /\ told = "deleting" /\ told' = "no"
    /\ \/ (\A s \in SignedIn : ~Locked(s)) /\ row' = [s \in Ids |-> 0] /\ UNCHANGED faults
       \/ Fault /\ UNCHANGED row
    /\ UNCHANGED <<stale, realm, excused, revokedAt, clock, req, out, browser, time>>

\* The sign-in page and the callback: a new row, a new pair of cookies, and a
\* tab that loads anew. The realm session is the one that goes on.
SignIn(t) ==
    /\ ~realm.over /\ req[t] = Idle
    /\ tab[t].ended \/ cookie.token = NoToken
    /\ \E s \in Ids :
          /\ realm.accepts[s] = 0 /\ \A r \in Ids : r < s => realm.accepts[r] # 0
          /\ realm' = [realm EXCEPT !.accepts[s] = 1]
          /\ row' = [row EXCEPT ![s] = 1]
          /\ cookie' = [token |-> [n |-> minted + 1, vouched |-> clock], id |-> s]
    /\ minted' = minted + 1
    /\ tab' = [tab EXCEPT ![t] = [timer |-> "due", known |-> minted + 1, ended |-> FALSE]]
    /\ UNCHANGED <<stale, excused, revokedAt, clock, req, out, told, left, shared, due, passed, faults>>

-----------------------------------------------------------------------------
(* Time, and the process.                                                    *)

Due == /\ due < MaxDue /\ due < minted /\ due' = due + 1
       /\ UNCHANGED <<server, req, out, told, browser, minted, passed, faults>>
Expire == /\ passed < due /\ passed' = passed + 1
          /\ UNCHANGED <<server, req, out, told, browser, minted, due, faults>>

\* A row lives longer than its tokens, and not for ever.
RowExpires(s) ==
    /\ row[s] # 0 /\ s \notin stale /\ passed = minted
    /\ stale' = stale \union {s} /\ excused' = excused \union {s}
    /\ UNCHANGED <<row, realm, revokedAt, clock, req, out, told, browser, time, faults>>

\* The process stops and another starts: revocations are forgotten, open
\* transactions roll back, and what was asked of it fails.
Restart ==
    /\ Fault
    /\ revokedAt' = 0 /\ left' = {}
    /\ req' = [t \in Tabs |-> IF req[t].stage \in {"idle", "answered"} THEN req[t]
                              ELSE [stage |-> "answered", id |-> req[t].id, answer |-> "unavailable"]]
    /\ excused' = excused \union
          {s \in Ids : Rotates /\ \E t \in Tabs : /\ req[t].stage \in {"granted", "verified"}
                                                  /\ req[t].id = s}
    /\ out' = IF out.stage = "answered" THEN out ELSE Idle
    /\ told' = "no"
    /\ UNCHANGED <<row, stale, realm, clock, cookie, tab, shared, time>>

Renewal(t) == NoCookie(t) \/ Lock(t) \/ Grant(t) \/ Refuse(t) \/ Verify(t) \/ Write(t)
Next ==
    \/ \E t \in Tabs : \/ KeepAlive(t) \/ StreamLost(t) \/ Renewal(t) \/ Arrive(t)
                       \/ RealmFails(t) \/ KeysUnreachable(t) \/ WriteFails(t) \/ SignIn(t)
    \/ SignOut \/ DeleteRow \/ RevokeToken \/ SignedOut
    \/ RealmEnds \/ BackChannel \/ BackDelete
    \/ Due \/ Expire \/ Restart \/ \E s \in Ids : RowExpires(s)

\* Timers fire, and the server and the network work through what they took:
\* a lock that is released again and again is granted in the end.
Fairness == \A t \in Tabs :
    /\ WF_vars(KeepAlive(t)) /\ WF_vars(Renewal(t)) /\ SF_vars(Lock(t)) /\ WF_vars(Arrive(t))
Spec == Init /\ [][Next]_vars /\ Fairness

-----------------------------------------------------------------------------
(* Properties                                                                *)

Token == [n : Nat, vouched : Nat]
Request ==
    [stage : {"idle"}]
    \union [stage : {"sent"}, id : Ids \union {None}]
    \union [stage : {"asking"}, id : Ids, rt : Nat, vouched : Nat]
    \union [stage : {"granted", "verified"}, id : Ids, rt : Nat, vouched : Nat, issued : Nat]
    \union [stage : {"answered"}, id : Ids \union {None}, answer : {"ended", "unavailable"}]
    \union [stage : {"answered"}, id : Ids, answer : {"renewed"}, token : Token]
Leaving ==
    [stage : {"idle"}]
    \union [stage : {"deleting", "revoking", "answered"}, id : Ids \union {None}, token : Token,
             rowGone : BOOLEAN]

\* Types and ranges.
SessionsTypeOK ==
    /\ row \in [Ids -> Nat] /\ stale \subseteq Ids /\ excused \subseteq Ids
    /\ realm \in [over : BOOLEAN, accepts : [Ids -> Nat]]
    /\ revokedAt \in Nat /\ clock \in Nat /\ revokedAt < clock
    /\ req \in [Tabs -> Request] /\ out \in Leaving
    /\ told \in {"no", "calling", "deleting"}
    /\ cookie \in [token : Token, id : Ids \union {None}]
    /\ left \subseteq Ids \union {None}
    /\ tab \in [Tabs -> [timer : {"due", "none", "retry"}, known : Nat, ended : BOOLEAN]]
    /\ shared \in Nat /\ minted \in Nat /\ due \in Nat /\ passed \in Nat /\ faults \in Nat

\* A renewal is answered with "ended", which signs the browser out, only for a
\* session that is over: the realm ended it, somebody signed out, its row was
\* left to expire, or a token the realm gave was lost on the way to the row or
\* could not be verified because its keys could not be fetched.
\* Tabs that renew together, in any order, never end each other's session.
EndedIsTrue ==
    \A t \in Tabs :
        req[t].stage = "answered" /\ req[t].answer = "ended" /\ req[t].id # None
        => realm.over \/ req[t].id \in excused

\* A session that a sign-out or the realm has ended stays ended: no renewal
\* that was on its way, and no tab told of the end, brings back a cookie that
\* is accepted (revocation.ts, #28 and #542). For a process that still knows of
\* it, and a sign-out whose cookie verified and whose row could be deleted.
StaysEnded == cookie.id \in left => ~Accepted(cookie.token)

\* A tab whose token is due is not left waiting: it learns of a later one, or
\* it says that the session has ended.
TabsGoOn == \A t \in Tabs :
    (tab[t].known <= due) ~> (tab[t].known > due \/ tab[t].ended)
=============================================================================
