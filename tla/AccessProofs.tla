---------------------------- MODULE AccessProofs -----------------------------
(* For how long somebody is let in: the session they renew (Sessions) and    *)
(* the streams it holds open (StreamGuard). The two share no state.          *)
(*                                                                           *)
(* What Sessions promises holds for every number of tabs, sign-ins,          *)
(* renewals, revocations and faults, whether or not the realm rotates its    *)
(* refresh tokens. Two invariants carry it: EndedInv says that the row of a  *)
(* session nobody ended follows the realm, StaysInv that nothing of a        *)
(* session that was ended was vouched for after its end. What StreamGuard    *)
(* promises holds for any streams and sessions; that streams do end is       *)
(* liveness and stays with TLC.                                              *)
EXTENDS Sessions, StreamGuard, TLAPS

-----------------------------------------------------------------------------
(* Sessions                                                                  *)


\* The first state is well typed.
LEMMA TypeInit == Init => SessionsTypeOK
<1> SUFFICES ASSUME Init PROVE SessionsTypeOK
  OBVIOUS
<1> USE SessionsAssumption DEF Init
<1>1. 1 \in Ids
  BY DEF Ids
<1>2. req \in [Tabs -> Request] /\ out \in Leaving
  BY DEF Idle, Request, Leaving
<1> QED  BY <1>1, <1>2 DEF SessionsTypeOK, Token

\* A tab's keepalive.
Keepalive == [timer : {"due", "none", "retry"}, known : Nat, ended : BOOLEAN]

\* Adopting an expiry leaves a keepalive one.
LEMMA AdoptType ==
  ASSUME NEW k \in Keepalive, NEW n \in Nat
  PROVE  Adopt(k, n) \in Keepalive
BY DEF Adopt, Later, Keepalive

\* Every step keeps the types.
LEMMA TypeKept == SessionsTypeOK /\ [Next]_vars => SessionsTypeOK'
<1> SUFFICES ASSUME SessionsTypeOK, [Next]_vars PROVE SessionsTypeOK'
  OBVIOUS
<1> USE SessionsAssumption DEF SessionsTypeOK
<1>1. ASSUME NEW t \in Tabs, KeepAlive(t) PROVE SessionsTypeOK'
  <2>1. tab' \in [Tabs -> Keepalive]
    BY <1>1 DEF KeepAlive, Keepalive
  <2>2. req' \in [Tabs -> Request]
    BY <1>1 DEF KeepAlive, Ask, Request
  <2> QED  BY <1>1, <2>1, <2>2 DEF KeepAlive, Keepalive, server, time
<1>2. ASSUME NEW t \in Tabs, StreamLost(t) PROVE SessionsTypeOK'
  BY <1>2 DEF StreamLost, Ask, Request, server, browser, time
<1>3. ASSUME NEW t \in Tabs, NoCookie(t) PROVE SessionsTypeOK'
  BY <1>3 DEF NoCookie, Answer, Request, server, browser, time
<1>4. ASSUME NEW t \in Tabs, Lock(t) PROVE SessionsTypeOK'
  BY <1>4 DEF Lock, Ended, Vouch, Answer, Request, server, browser, time
<1>5. ASSUME NEW t \in Tabs, Grant(t) PROVE SessionsTypeOK'
  BY <1>5 DEF Grant, NextToken, Request, server, browser, time
<1>6. ASSUME NEW t \in Tabs, Refuse(t) PROVE SessionsTypeOK'
  BY <1>6 DEF Refuse, Ended, Answer, Request, server, browser, time
<1>7. ASSUME NEW t \in Tabs, Verify(t) PROVE SessionsTypeOK'
  BY <1>7 DEF Verify, Ended, Answer, Request, server, browser, time
<1>8. ASSUME NEW t \in Tabs, Write(t) PROVE SessionsTypeOK'
  BY <1>8 DEF Write, IssuedAs, Token, Request, server, browser, time
<1>9. ASSUME NEW t \in Tabs, Arrive(t) PROVE SessionsTypeOK'
  <2>1. req' \in [Tabs -> Request]
    BY <1>9 DEF Arrive, Idle, Request
  <2>2. CASE Renewed(t) /\ UNCHANGED faults
    <3>1. req[t].token \in Token /\ req[t].id \in Ids /\ req[t].token.n \in Nat
      BY <1>9, <2>2 DEF Arrive, Renewed, Request, Token
    <3>2. \A u \in Tabs : Adopt(tab[u], req[t].token.n) \in Keepalive
      BY <3>1, AdoptType DEF Keepalive
    <3>3. PICK listening \in SUBSET Tabs :
            tab' = [u \in Tabs |-> IF u \in {t} \union listening
                                  THEN Adopt(tab[u], req[t].token.n) ELSE tab[u]]
      BY <2>2 DEF Renewed
    <3>4. tab' \in [Tabs -> Keepalive]
      BY <3>2, <3>3 DEF Keepalive
    <3> QED  BY <1>9, <2>1, <2>2, <3>1, <3>4 DEF Arrive, Renewed, Keepalive, server, time
  <2>3. CASE Over(t) /\ UNCHANGED faults
    <3> DEFINE k == [tab[t] EXCEPT !.timer = "none", !.ended = TRUE]
    <3>5. tab[t] \in Keepalive
      BY DEF Keepalive
    <3>6. k \in Keepalive
      BY <3>5 DEF Keepalive
    <3>7. tab' = [tab EXCEPT ![t] = k]
      BY <2>3 DEF Over
    <3> HIDE DEF k
    <3>1. tab' \in [Tabs -> Keepalive]
      BY <3>6, <3>7 DEF Keepalive
    <3>2. cookie' \in [token : Token, id : Ids \union {None}]
      BY <2>3 DEF Over, NoToken, Token
    <3> QED  BY <1>9, <2>1, <2>3, <3>1, <3>2 DEF Arrive, Over, Keepalive, server, time
  <2>4. CASE TryLater(t) /\ (UNCHANGED faults \/ Fault)
    BY <1>9, <2>1, <2>4 DEF Arrive, TryLater, Fault, server, time
  <2> QED  BY <1>9, <2>2, <2>3, <2>4 DEF Arrive
<1>10. ASSUME NEW t \in Tabs, RealmFails(t) PROVE SessionsTypeOK'
  BY <1>10 DEF RealmFails, Fault, Unavailable, Answer, NextToken, Request, server, browser, time
<1>11. ASSUME NEW t \in Tabs, KeysUnreachable(t) PROVE SessionsTypeOK'
  BY <1>11 DEF KeysUnreachable, Fault, Answer, Request, server, browser, time
<1>12. ASSUME NEW t \in Tabs, WriteFails(t) PROVE SessionsTypeOK'
  BY <1>12 DEF WriteFails, Fault, Unavailable, Answer, Request, server, browser, time
<1>13. ASSUME NEW t \in Tabs, SignIn(t) PROVE SessionsTypeOK'
  <2>1. PICK s \in Ids :
          /\ realm' = [realm EXCEPT !.accepts[s] = 1] /\ row' = [row EXCEPT ![s] = 1]
          /\ cookie' = [token |-> [n |-> minted + 1, vouched |-> clock], id |-> s]
    BY <1>13 DEF SignIn
  <2>2. cookie' \in [token : Token, id : Ids \union {None}]
    BY <2>1 DEF Token
  <2>3. realm' \in [over : BOOLEAN, accepts : [Ids -> Nat]] /\ row' \in [Ids -> Nat]
    BY <2>1
  <2> QED  BY <1>13, <2>2, <2>3 DEF SignIn
<1>14. CASE SignOut
  BY <1>14 DEF SignOut, Leaving, Request, server, browser, time
<1>15. CASE DeleteRow
  <2>1. out' \in Leaving
    BY <1>15 DEF DeleteRow, Leaving
  <2>2. row' \in [Ids -> Nat] /\ excused' \subseteq Ids
    BY <1>15 DEF DeleteRow
  <2>3. faults' \in Nat
    BY <1>15 DEF DeleteRow, Fault
  <2> QED  BY <1>15, <2>1, <2>2, <2>3 DEF DeleteRow, browser, time
<1>16. CASE RevokeToken
  BY <1>16 DEF RevokeToken, Revoke, Accepted, SignedIn, Gone, Leaving, Request, server, browser,
     time
<1>17. CASE SignedOut
  BY <1>17 DEF SignedOut, NoToken, Token, Idle, Leaving, Request, server, browser, time
<1>18. CASE RealmEnds
  BY <1>18 DEF RealmEnds, Request, server, browser, time
<1>19. CASE BackChannel
  BY <1>19 DEF BackChannel, Revoke, SignedIn, Request, server, browser, time
<1>20. CASE BackDelete
  BY <1>20 DEF BackDelete, Fault, Request, server, browser, time
<1>21. CASE Due \/ Expire
  BY <1>21 DEF Due, Expire, Request, server, browser, time
<1>22. CASE Restart
  BY <1>22 DEF Restart, Fault, Idle, Leaving, Request, server, browser, time
<1>23. ASSUME NEW s \in Ids, RowExpires(s) PROVE SessionsTypeOK'
  BY <1>23 DEF RowExpires, Request, server, browser, time
<1>24. CASE UNCHANGED vars
  BY <1>24 DEF vars, Request, server, browser, time
<1> QED
  BY <1>1, <1>2, <1>3, <1>4, <1>5, <1>6, <1>7, <1>8, <1>9, <1>10, <1>11, <1>12, <1>13, <1>14,
     <1>15, <1>16, <1>17, <1>18, <1>19, <1>20, <1>21, <1>22, <1>23, <1>24
  DEF Next, Renewal

\* Spec keeps the types of every variable.
THEOREM SessionsTypes == Spec => []SessionsTypeOK
<1> QED  BY TypeInit, TypeKept, PTL DEF Spec

-----------------------------------------------------------------------------
(* Why the end of a session is always the truth.                             *)

HoldsRow(t, s) == req[t].stage \in {"asking", "granted", "verified"} /\ req[t].id = s
Spends(t, s) == req[t].stage \in {"granted", "verified"} /\ req[t].id = s
Known(s) == realm.accepts[s] # 0
Excused(s) == realm.over \/ s \in excused

\* A row belongs to one renewal at a time.
OneHolder == \A t, u \in Tabs : \A s \in Ids : HoldsRow(t, s) /\ HoldsRow(u, s) => t = u

\* Nobody asks for, and no cookie names, a session that was never opened.
KnownIds ==
    /\ \A t \in Tabs : req[t].stage # "idle" /\ req[t].id # None => Known(req[t].id)
    /\ cookie.id # None => Known(cookie.id)
    /\ \A s \in Ids : Known(s) \/ (row[s] = 0 /\ s \notin stale)

\* The row of a session nobody ended holds the token the realm takes, unless a
\* renewal is on its way back with the next one.
RowsStand == \A s \in Ids : Known(s) /\ ~Excused(s) =>
    /\ row[s] # 0 /\ s \notin stale
    /\ row[s] = realm.accepts[s] \/ (Rotates /\ \E t \in Tabs : Spends(t, s))

\* What a renewal of such a session read or was given is the realm's word, and
\* was said after the last revocation.
Held == \A t \in Tabs : \A s \in Ids : HoldsRow(t, s) /\ ~Excused(s) =>
    /\ req[t].rt = realm.accepts[s]
    /\ req[t].stage = "granted" => req[t].issued > revokedAt

Called == told # "no" => realm.over

EndedInv == OneHolder /\ KnownIds /\ RowsStand /\ Held /\ Called /\ EndedIsTrue

\* No id is the absence of one.
LEMMA NoneIsNoId == None \notin Ids
BY SessionsAssumption DEF Ids

\* What a request that holds a row carries.
LEMMA Carries ==
  ASSUME SessionsTypeOK, NEW t \in Tabs
  PROVE  /\ req[t].stage \in {"asking", "granted", "verified"} =>
               /\ req[t].id \in Ids /\ req[t].id # None
               /\ req[t].rt \in Nat /\ req[t].vouched \in Nat
         /\ req[t].stage = "answered" /\ req[t].answer = "renewed" =>
               /\ req[t].id \in Ids /\ req[t].id # None
               /\ req[t].token \in [n : Nat, vouched : Nat]
               /\ req[t].token.vouched \in Nat
         /\ req[t].stage # "idle" => req[t].id \in Ids \union {None}
BY SessionsAssumption, NoneIsNoId DEF SessionsTypeOK, Request, Token

\* A sign-out keeps its session when it deletes the row, or fails to.
LEMMA DeleteRowStep ==
  ASSUME SessionsTypeOK, DeleteRow
  PROVE  /\ out.stage = "deleting" /\ out'.stage = "revoking" /\ out'.id = out.id
         /\ \/ /\ out.id # None => ~Locked(out.id)
               /\ row' = [s \in Ids |-> IF s = out.id THEN 0 ELSE row[s]]
            \/ UNCHANGED row /\ out'.rowGone = FALSE
<1>1. out = [stage |-> out.stage, id |-> out.id, token |-> out.token, rowGone |-> out.rowGone]
  BY DEF DeleteRow, SessionsTypeOK, Leaving
<1>2. /\ [out EXCEPT !.stage = "revoking"].stage = "revoking"
      /\ [out EXCEPT !.stage = "revoking"].id = out.id
  BY <1>1
<1>3. /\ [out EXCEPT !.stage = "revoking", !.rowGone = FALSE].stage = "revoking"
      /\ [out EXCEPT !.stage = "revoking", !.rowGone = FALSE].id = out.id
      /\ [out EXCEPT !.stage = "revoking", !.rowGone = FALSE].rowGone = FALSE
  BY <1>1
<1> QED  BY <1>2, <1>3 DEF DeleteRow

\* What verifying a token leaves of the request, field by field.
LEMMA VerifyStep ==
  ASSUME SessionsTypeOK, NEW t \in Tabs, Verify(t)
  PROVE  /\ req[t].stage = "granted" /\ req[t].id \in Ids /\ req[t].id # None
         /\ req[t].issued \in Nat
         /\ \/ /\ req[t].issued > revokedAt
               /\ req' = [req EXCEPT ![t] =
                            [stage |-> "verified", id |-> req[t].id, rt |-> req[t].rt,
                             vouched |-> req[t].vouched, issued |-> req[t].issued]]
               /\ UNCHANGED row
            \/ req[t].issued <= revokedAt /\ Ended(t)
         /\ UNCHANGED <<stale, revokedAt, clock, faults>>
         /\ UNCHANGED <<realm, excused, out, told, browser, time>>
<1>1. /\ req[t].stage = "granted" /\ req[t].id \in Ids /\ req[t].rt \in Nat
      /\ req[t].vouched \in Nat /\ req[t].issued \in Nat
      /\ req[t] = [stage |-> req[t].stage, id |-> req[t].id, rt |-> req[t].rt,
                   vouched |-> req[t].vouched, issued |-> req[t].issued]
  BY SessionsAssumption DEF Verify, SessionsTypeOK, Request
<1> DEFINE v == [stage |-> "verified", id |-> req[t].id, rt |-> req[t].rt,
                 vouched |-> req[t].vouched, issued |-> req[t].issued]
<1>2. [req[t] EXCEPT !.stage = "verified"] = v
  BY <1>1
<1>3. req[t].issued > revokedAt => req' = [req EXCEPT ![t] = v]
  BY <1>1, <1>2 DEF Verify, SessionsTypeOK, Ended
<1> QED  BY <1>1, <1>3, NoneIsNoId DEF Verify, Ended, SessionsTypeOK

\* A row stays one renewal's: Lock takes it only when nobody holds it.
LEMMA OneHolderKept ==
  SessionsTypeOK /\ OneHolder /\ [Next]_vars => OneHolder'
<1> SUFFICES ASSUME SessionsTypeOK, OneHolder, [Next]_vars PROVE OneHolder'
  OBVIOUS
<1> USE SessionsAssumption DEF OneHolder, HoldsRow, SessionsTypeOK, Locked
<1>1. ASSUME NEW t \in Tabs, KeepAlive(t) PROVE OneHolder'
  BY <1>1 DEF KeepAlive, Ask, Adopt, Later, server, browser, time
<1>2. ASSUME NEW t \in Tabs, StreamLost(t) PROVE OneHolder'
  BY <1>2 DEF StreamLost, Ask, server, browser, time
<1>3. ASSUME NEW t \in Tabs, NoCookie(t) PROVE OneHolder'
  BY <1>3 DEF NoCookie, Answer, server, browser, time
<1>4. ASSUME NEW t \in Tabs, Lock(t) PROVE OneHolder'
  BY <1>4 DEF Lock, Ended, Vouch, Answer, server, browser, time
<1>5. ASSUME NEW t \in Tabs, Grant(t) PROVE OneHolder'
  BY <1>5 DEF Grant, NextToken, server, browser, time
<1>6. ASSUME NEW t \in Tabs, Refuse(t) PROVE OneHolder'
  BY <1>6 DEF Refuse, Ended, Answer, server, browser, time
<1>7. ASSUME NEW t \in Tabs, Verify(t) PROVE OneHolder'
  BY <1>7, VerifyStep DEF Ended, Answer, server, browser, time
<1>8. ASSUME NEW t \in Tabs, Write(t) PROVE OneHolder'
  BY <1>8 DEF Write, IssuedAs, server, browser, time
<1>9. ASSUME NEW t \in Tabs, Arrive(t) PROVE OneHolder'
  BY <1>9 DEF Arrive, Renewed, Over, TryLater, Fault, Adopt, Later, NoToken, Idle, server,
     browser, time
<1>10. ASSUME NEW t \in Tabs, RealmFails(t) PROVE OneHolder'
  BY <1>10 DEF RealmFails, Fault, Unavailable, Answer, NextToken, server, browser, time
<1>11. ASSUME NEW t \in Tabs, KeysUnreachable(t) PROVE OneHolder'
  BY <1>11 DEF KeysUnreachable, Fault, Answer, server, browser, time
<1>12. ASSUME NEW t \in Tabs, WriteFails(t) PROVE OneHolder'
  BY <1>12 DEF WriteFails, Fault, Unavailable, Answer, server, browser, time
<1>13. ASSUME NEW t \in Tabs, SignIn(t) PROVE OneHolder'
  BY <1>13 DEF SignIn, server, browser, time
<1>14. CASE SignOut
  BY <1>14 DEF SignOut, server, browser, time
<1>15. CASE DeleteRow
  BY <1>15 DEF DeleteRow, Fault, server, browser, time
<1>16. CASE RevokeToken
  BY <1>16 DEF RevokeToken, Revoke, Accepted, SignedIn, Gone, server, browser, time
<1>17. CASE SignedOut
  BY <1>17 DEF SignedOut, NoToken, Idle, server, browser, time
<1>18. CASE RealmEnds
  BY <1>18 DEF RealmEnds, server, browser, time
<1>19. CASE BackChannel
  BY <1>19 DEF BackChannel, Revoke, SignedIn, server, browser, time
<1>20. CASE BackDelete
  BY <1>20 DEF BackDelete, Fault, server, browser, time
<1>21. CASE Due \/ Expire
  BY <1>21 DEF Due, Expire, server, browser, time
<1>22. CASE Restart
  BY <1>22 DEF Restart, Fault, Idle, server, browser, time
<1>23. ASSUME NEW s \in Ids, RowExpires(s) PROVE OneHolder'
  BY <1>23 DEF RowExpires, server, browser, time
<1>24. CASE UNCHANGED vars
  BY <1>24 DEF vars, server, browser, time
<1> QED
  BY <1>1, <1>2, <1>3, <1>4, <1>5, <1>6, <1>7, <1>8, <1>9, <1>10, <1>11, <1>12, <1>13, <1>14,
     <1>15, <1>16, <1>17, <1>18, <1>19, <1>20, <1>21, <1>22, <1>23, <1>24
  DEF Next, Renewal

\* Only ids of sessions that were opened are asked for: they come from the cookie.
LEMMA KnownKept ==
  SessionsTypeOK /\ KnownIds /\ OneHolder /\ [Next]_vars => KnownIds'
<1> SUFFICES ASSUME SessionsTypeOK, KnownIds, OneHolder, [Next]_vars PROVE KnownIds'
  OBVIOUS
<1> USE SessionsAssumption DEF KnownIds, Known, SessionsTypeOK
<1>1. ASSUME NEW t \in Tabs, KeepAlive(t) PROVE KnownIds'
  BY <1>1 DEF KeepAlive, Ask, Adopt, Later, server, browser, time
<1>2. ASSUME NEW t \in Tabs, StreamLost(t) PROVE KnownIds'
  BY <1>2 DEF StreamLost, Ask, server, browser, time
<1>3. ASSUME NEW t \in Tabs, NoCookie(t) PROVE KnownIds'
  BY <1>3 DEF NoCookie, Answer, server, browser, time
<1>4. ASSUME NEW t \in Tabs, Lock(t) PROVE KnownIds'
  BY <1>4 DEF Lock, Ended, Vouch, Answer, server, browser, time
<1>5. ASSUME NEW t \in Tabs, Grant(t) PROVE KnownIds'
  BY <1>5 DEF Grant, NextToken, server, browser, time
<1>6. ASSUME NEW t \in Tabs, Refuse(t) PROVE KnownIds'
  BY <1>6 DEF Refuse, Ended, Answer, server, browser, time
<1>7. ASSUME NEW t \in Tabs, Verify(t) PROVE KnownIds'
  BY <1>7, VerifyStep DEF Ended, Answer, server, browser, time
<1>8. ASSUME NEW t \in Tabs, Write(t) PROVE KnownIds'
  <2>1. req[t].id \in Ids /\ Known(req[t].id)
    BY <1>8, Carries DEF Write
  <2>2. req' = [req EXCEPT ![t] = [stage |-> "answered", id |-> req[t].id, answer |-> "renewed",
                                   token |-> req'[t].token]]
    BY <1>8 DEF Write
  <2>3. \A u \in Tabs : req'[u].stage # "idle" => req'[u].id = req[u].id /\ req[u].stage # "idle"
    BY <1>8, <2>2 DEF Write
  <2> QED  BY <1>8, <2>1, <2>3 DEF Write, server, browser
<1>9. ASSUME NEW t \in Tabs, Arrive(t) PROVE KnownIds'
  BY <1>9 DEF Arrive, Renewed, Over, TryLater, Fault, Adopt, Later, NoToken, Idle, server,
     browser, time
<1>10. ASSUME NEW t \in Tabs, RealmFails(t) PROVE KnownIds'
  <2>1. req[t].id \in Ids
    BY <1>10, Carries DEF RealmFails
  <2>2. \A s \in Ids : Known(s) => Known(s)'
    BY <1>10, <2>1 DEF RealmFails, NextToken
  <2>3. \A u \in Tabs : req'[u].stage # "idle" => req'[u].id = req[u].id /\ req[u].stage # "idle"
    BY <1>10 DEF RealmFails, Unavailable, Answer
  <2> QED  BY <1>10, <2>1, <2>2, <2>3, Carries DEF RealmFails, Unavailable, browser
<1>11. ASSUME NEW t \in Tabs, KeysUnreachable(t) PROVE KnownIds'
  BY <1>11 DEF KeysUnreachable, Fault, Answer, server, browser, time
<1>12. ASSUME NEW t \in Tabs, WriteFails(t) PROVE KnownIds'
  BY <1>12 DEF WriteFails, Fault, Unavailable, Answer, server, browser, time
<1>13. ASSUME NEW t \in Tabs, SignIn(t) PROVE KnownIds'
  BY <1>13 DEF SignIn, server, browser, time
<1>14. CASE SignOut
  BY <1>14 DEF SignOut, server, browser, time
<1>15. CASE DeleteRow
  BY <1>15 DEF DeleteRow, Fault, server, browser, time
<1>16. CASE RevokeToken
  BY <1>16 DEF RevokeToken, Revoke, Accepted, SignedIn, Gone, server, browser, time
<1>17. CASE SignedOut
  BY <1>17 DEF SignedOut, NoToken, Idle, server, browser, time
<1>18. CASE RealmEnds
  BY <1>18 DEF RealmEnds, server, browser, time
<1>19. CASE BackChannel
  BY <1>19 DEF BackChannel, Revoke, SignedIn, server, browser, time
<1>20. CASE BackDelete
  BY <1>20 DEF BackDelete, Fault, server, browser, time
<1>21. CASE Due \/ Expire
  BY <1>21 DEF Due, Expire, server, browser, time
<1>22. CASE Restart
  BY <1>22 DEF Restart, Fault, Idle, server, browser, time
<1>23. ASSUME NEW s \in Ids, RowExpires(s) PROVE KnownIds'
  BY <1>23 DEF RowExpires, server, browser, time
<1>24. CASE UNCHANGED vars
  BY <1>24 DEF vars, server, browser, time
<1> QED
  BY <1>1, <1>2, <1>3, <1>4, <1>5, <1>6, <1>7, <1>8, <1>9, <1>10, <1>11, <1>12, <1>13, <1>14,
     <1>15, <1>16, <1>17, <1>18, <1>19, <1>20, <1>21, <1>22, <1>23, <1>24
  DEF Next, Renewal

\* The realm's call is in flight only after the realm has ended the session.
LEMMA CalledKept ==
  SessionsTypeOK /\ Called /\ [Next]_vars => Called'
<1> SUFFICES ASSUME SessionsTypeOK, Called, [Next]_vars PROVE Called'
  OBVIOUS
<1> USE SessionsAssumption DEF Called, SessionsTypeOK
<1>1. ASSUME NEW t \in Tabs, KeepAlive(t) PROVE Called'
  BY <1>1 DEF KeepAlive, Ask, Adopt, Later, server, browser, time
<1>2. ASSUME NEW t \in Tabs, StreamLost(t) PROVE Called'
  BY <1>2 DEF StreamLost, Ask, server, browser, time
<1>3. ASSUME NEW t \in Tabs, NoCookie(t) PROVE Called'
  BY <1>3 DEF NoCookie, Answer, server, browser, time
<1>4. ASSUME NEW t \in Tabs, Lock(t) PROVE Called'
  BY <1>4 DEF Lock, Ended, Vouch, Answer, server, browser, time
<1>5. ASSUME NEW t \in Tabs, Grant(t) PROVE Called'
  BY <1>5 DEF Grant, NextToken, server, browser, time
<1>6. ASSUME NEW t \in Tabs, Refuse(t) PROVE Called'
  BY <1>6 DEF Refuse, Ended, Answer, server, browser, time
<1>7. ASSUME NEW t \in Tabs, Verify(t) PROVE Called'
  BY <1>7, VerifyStep DEF Ended, Answer, server, browser, time
<1>8. ASSUME NEW t \in Tabs, Write(t) PROVE Called'
  BY <1>8 DEF Write, IssuedAs, server, browser, time
<1>9. ASSUME NEW t \in Tabs, Arrive(t) PROVE Called'
  BY <1>9 DEF Arrive, Renewed, Over, TryLater, Fault, Adopt, Later, NoToken, Idle, server,
     browser, time
<1>10. ASSUME NEW t \in Tabs, RealmFails(t) PROVE Called'
  BY <1>10 DEF RealmFails, Fault, Unavailable, Answer, NextToken, server, browser, time
<1>11. ASSUME NEW t \in Tabs, KeysUnreachable(t) PROVE Called'
  BY <1>11 DEF KeysUnreachable, Fault, Answer, server, browser, time
<1>12. ASSUME NEW t \in Tabs, WriteFails(t) PROVE Called'
  BY <1>12 DEF WriteFails, Fault, Unavailable, Answer, server, browser, time
<1>13. ASSUME NEW t \in Tabs, SignIn(t) PROVE Called'
  BY <1>13 DEF SignIn, server, browser, time
<1>14. CASE SignOut
  BY <1>14 DEF SignOut, server, browser, time
<1>15. CASE DeleteRow
  BY <1>15 DEF DeleteRow, Fault, server, browser, time
<1>16. CASE RevokeToken
  BY <1>16 DEF RevokeToken, Revoke, Accepted, SignedIn, Gone, server, browser, time
<1>17. CASE SignedOut
  BY <1>17 DEF SignedOut, NoToken, Idle, server, browser, time
<1>18. CASE RealmEnds
  BY <1>18 DEF RealmEnds, server, browser, time
<1>19. CASE BackChannel
  BY <1>19 DEF BackChannel, Revoke, SignedIn, server, browser, time
<1>20. CASE BackDelete
  BY <1>20 DEF BackDelete, Fault, server, browser, time
<1>21. CASE Due \/ Expire
  BY <1>21 DEF Due, Expire, server, browser, time
<1>22. CASE Restart
  BY <1>22 DEF Restart, Fault, Idle, server, browser, time
<1>23. ASSUME NEW s \in Ids, RowExpires(s) PROVE Called'
  BY <1>23 DEF RowExpires, server, browser, time
<1>24. CASE UNCHANGED vars
  BY <1>24 DEF vars, server, browser, time
<1> QED
  BY <1>1, <1>2, <1>3, <1>4, <1>5, <1>6, <1>7, <1>8, <1>9, <1>10, <1>11, <1>12, <1>13, <1>14,
     <1>15, <1>16, <1>17, <1>18, <1>19, <1>20, <1>21, <1>22, <1>23, <1>24
  DEF Next, Renewal

\* What takes a row of a session that is not over, or leaves it behind the realm, is excused.
LEMMA RowsKept ==
  SessionsTypeOK /\ OneHolder /\ KnownIds /\ Called /\ Held /\ RowsStand /\ [Next]_vars
  => RowsStand'
<1> SUFFICES ASSUME SessionsTypeOK, OneHolder, KnownIds, Called, Held, RowsStand,
                    [Next]_vars
             PROVE  RowsStand'
  OBVIOUS
<1> USE SessionsAssumption
      DEF RowsStand, OneHolder, KnownIds, Called, Held, Known, Excused, Spends, HoldsRow,
          SessionsTypeOK
<1>1. ASSUME NEW t \in Tabs, KeepAlive(t) PROVE RowsStand'
  BY <1>1 DEF KeepAlive, Ask, Adopt, Later, server, browser, time
<1>2. ASSUME NEW t \in Tabs, StreamLost(t) PROVE RowsStand'
  BY <1>2 DEF StreamLost, Ask, server, browser, time
<1>3. ASSUME NEW t \in Tabs, NoCookie(t) PROVE RowsStand'
  BY <1>3 DEF NoCookie, Answer, server, browser, time
<1>4. ASSUME NEW t \in Tabs, Lock(t) PROVE RowsStand'
  BY <1>4 DEF Lock, Ended, Vouch, Answer, server, browser, time
<1>5. ASSUME NEW t \in Tabs, Grant(t) PROVE RowsStand'
  <2>1. req[t].id \in Ids /\ Known(req[t].id)
    BY <1>5, Carries DEF Grant
  <2>2. \A u \in Tabs : \A s \in Ids : Spends(u, s) => Spends(u, s)'
    BY <1>5 DEF Grant
  <2>3. req'[t].stage = "granted" /\ req'[t].id = req[t].id
    BY <1>5 DEF Grant
  <2>4. UNCHANGED <<row, stale, excused>> /\ realm'.over = realm.over
    BY <1>5 DEF Grant
  <2>5. CASE Rotates
    <3>1. \A s \in Ids \ {req[t].id} : realm'.accepts[s] = realm.accepts[s]
      BY <1>5 DEF Grant
    <3>2. ASSUME NEW s \in Ids, Known(s)', ~Excused(s)'
          PROVE  /\ row'[s] # 0 /\ s \notin stale'
                 /\ row'[s] = realm'.accepts[s] \/ \E u \in Tabs : Spends(u, s)'
      <4>1. Known(s) /\ ~Excused(s)
        BY <2>1, <2>4, <3>1, <3>2
      <4>2. row[s] # 0 /\ s \notin stale
            /\ (row[s] = realm.accepts[s] \/ \E u \in Tabs : Spends(u, s))
        BY <4>1
      <4>3. CASE s = req[t].id
        BY <2>3, <2>4, <4>2, <4>3
      <4>4. CASE s # req[t].id
        <5> HIDE DEF Spends
        <5> QED  BY <2>2, <2>4, <3>1, <4>2, <4>4
      <4> QED  BY <4>3, <4>4
    <3> QED  BY <2>5, <3>2
  <2>6. CASE ~Rotates
    <3>1. realm' = realm
      BY <1>5, <2>1, <2>6 DEF Grant, NextToken
    <3> QED  BY <2>4, <2>6, <3>1
  <2> QED  BY <2>5, <2>6
<1>6. ASSUME NEW t \in Tabs, Refuse(t) PROVE RowsStand'
  BY <1>6 DEF Refuse, Ended, Answer, server, browser, time
<1>7. ASSUME NEW t \in Tabs, Verify(t) PROVE RowsStand'
  <2>1. CASE req[t].issued > revokedAt
    <3>1. \A u \in Tabs : \A s \in Ids : Spends(u, s) => Spends(u, s)'
      BY <1>7, <2>1, VerifyStep DEF Ended
    <3> QED  BY <1>7, <2>1, <3>1, VerifyStep DEF Ended
  <2>2. CASE req[t].issued <= revokedAt
    <3>1. Excused(req[t].id)
      BY <1>7, <2>2, VerifyStep
    <3>2. \A u \in Tabs : \A s \in Ids \ {req[t].id} : Spends(u, s) => Spends(u, s)'
      BY <1>7, <2>2, VerifyStep DEF Ended, Answer
    <3>3. UNCHANGED <<realm, stale, excused>> /\ row' = [row EXCEPT ![req[t].id] = 0]
      BY <1>7, <2>2, VerifyStep DEF Ended
    <3>4. ASSUME NEW s \in Ids, Known(s)', ~Excused(s)'
          PROVE  /\ s # req[t].id /\ Known(s) /\ ~Excused(s)
                 /\ row'[s] = row[s] /\ realm'.accepts[s] = realm.accepts[s]
      BY <3>1, <3>3, <3>4
    <3> HIDE DEF Spends
    <3> QED  BY <3>2, <3>3, <3>4
  <2> QED  BY <1>7, <2>1, <2>2, VerifyStep
<1>8. ASSUME NEW t \in Tabs, Write(t) PROVE RowsStand'
  BY <1>8 DEF Write, IssuedAs, server, browser, time
<1>9. ASSUME NEW t \in Tabs, Arrive(t) PROVE RowsStand'
  BY <1>9 DEF Arrive, Renewed, Over, TryLater, Fault, Adopt, Later, NoToken, Idle, server,
     browser, time
<1>10. ASSUME NEW t \in Tabs, RealmFails(t) PROVE RowsStand'
  BY <1>10 DEF RealmFails, Fault, Unavailable, Answer, NextToken, server, browser, time
<1>11. ASSUME NEW t \in Tabs, KeysUnreachable(t) PROVE RowsStand'
  BY <1>11 DEF KeysUnreachable, Fault, Answer, server, browser, time
<1>12. ASSUME NEW t \in Tabs, WriteFails(t) PROVE RowsStand'
  BY <1>12 DEF WriteFails, Fault, Unavailable, Answer, server, browser, time
<1>13. ASSUME NEW t \in Tabs, SignIn(t) PROVE RowsStand'
  BY <1>13 DEF SignIn, server, browser, time
<1>14. CASE SignOut
  BY <1>14 DEF SignOut, server, browser, time
<1>15. CASE DeleteRow
  BY <1>15 DEF DeleteRow, Fault, server, browser, time
<1>16. CASE RevokeToken
  BY <1>16 DEF RevokeToken, Revoke, Accepted, SignedIn, Gone, server, browser, time
<1>17. CASE SignedOut
  BY <1>17 DEF SignedOut, NoToken, Idle, server, browser, time
<1>18. CASE RealmEnds
  BY <1>18 DEF RealmEnds, server, browser, time
<1>19. CASE BackChannel
  BY <1>19 DEF BackChannel, Revoke, SignedIn, server, browser, time
<1>20. CASE BackDelete
  BY <1>20 DEF BackDelete, Fault, server, browser, time
<1>21. CASE Due \/ Expire
  BY <1>21 DEF Due, Expire, server, browser, time
<1>22. CASE Restart
  BY <1>22 DEF Restart, Fault, Idle, server, browser, time
<1>23. ASSUME NEW s \in Ids, RowExpires(s) PROVE RowsStand'
  BY <1>23 DEF RowExpires, server, browser, time
<1>24. CASE UNCHANGED vars
  BY <1>24 DEF vars, server, browser, time
<1> QED
  BY <1>1, <1>2, <1>3, <1>4, <1>5, <1>6, <1>7, <1>8, <1>9, <1>10, <1>11, <1>12, <1>13, <1>14,
     <1>15, <1>16, <1>17, <1>18, <1>19, <1>20, <1>21, <1>22, <1>23, <1>24
  DEF Next, Renewal

\* Nothing but the holder's own renewal moves the realm's token or revokes under it.
LEMMA HeldKept ==
  SessionsTypeOK /\ OneHolder /\ KnownIds /\ Called /\ RowsStand /\ Held /\ [Next]_vars => Held'
<1> SUFFICES ASSUME SessionsTypeOK, OneHolder, KnownIds, Called, RowsStand, Held,
                    [Next]_vars
             PROVE  Held'
  OBVIOUS
<1> USE SessionsAssumption
      DEF Held, RowsStand, OneHolder, KnownIds, Called, Known, Excused, Spends, HoldsRow,
          Locked, SessionsTypeOK
<1>1. ASSUME NEW t \in Tabs, KeepAlive(t) PROVE Held'
  BY <1>1 DEF KeepAlive, Ask, Adopt, Later, server, browser, time
<1>2. ASSUME NEW t \in Tabs, StreamLost(t) PROVE Held'
  BY <1>2 DEF StreamLost, Ask, server, browser, time
<1>3. ASSUME NEW t \in Tabs, NoCookie(t) PROVE Held'
  BY <1>3 DEF NoCookie, Answer, server, browser, time
<1>4. ASSUME NEW t \in Tabs, Lock(t) PROVE Held'
  BY <1>4 DEF Lock, Ended, Vouch, Answer, server, browser, time
<1>5. ASSUME NEW t \in Tabs, Grant(t) PROVE Held'
  BY <1>5 DEF Grant, NextToken, server, browser, time
<1>6. ASSUME NEW t \in Tabs, Refuse(t) PROVE Held'
  BY <1>6 DEF Refuse, Ended, Answer, server, browser, time
<1>7. ASSUME NEW t \in Tabs, Verify(t) PROVE Held'
  BY <1>7, VerifyStep DEF Ended, Answer, server, browser, time
<1>8. ASSUME NEW t \in Tabs, Write(t) PROVE Held'
  BY <1>8 DEF Write, IssuedAs, server, browser, time
<1>9. ASSUME NEW t \in Tabs, Arrive(t) PROVE Held'
  BY <1>9 DEF Arrive, Renewed, Over, TryLater, Fault, Adopt, Later, NoToken, Idle, server,
     browser, time
<1>10. ASSUME NEW t \in Tabs, RealmFails(t) PROVE Held'
  BY <1>10 DEF RealmFails, Fault, Unavailable, Answer, NextToken, server, browser, time
<1>11. ASSUME NEW t \in Tabs, KeysUnreachable(t) PROVE Held'
  BY <1>11 DEF KeysUnreachable, Fault, Answer, server, browser, time
<1>12. ASSUME NEW t \in Tabs, WriteFails(t) PROVE Held'
  BY <1>12 DEF WriteFails, Fault, Unavailable, Answer, server, browser, time
<1>13. ASSUME NEW t \in Tabs, SignIn(t) PROVE Held'
  <2>1. PICK s \in Ids : realm.accepts[s] = 0 /\ realm' = [realm EXCEPT !.accepts[s] = 1]
    BY <1>13 DEF SignIn
  <2>2. \A u \in Tabs : ~HoldsRow(u, s)
    BY <2>1, NoneIsNoId
  <2> QED  BY <1>13, <2>1, <2>2 DEF SignIn
<1>14. CASE SignOut
  BY <1>14 DEF SignOut, server, browser, time
<1>15. CASE DeleteRow
  BY <1>15 DEF DeleteRow, Fault, server, browser, time
<1>16. CASE RevokeToken
  <2>1. UNCHANGED <<req, realm>> /\ excused \subseteq excused'
    BY <1>16 DEF RevokeToken
  <2>2. ASSUME NEW u \in Tabs, NEW s \in Ids, HoldsRow(u, s), ~Excused(s)'
        PROVE  revokedAt' = revokedAt /\ ~Excused(s)
    <3>1. s \in SignedIn
      BY <2>2, NoneIsNoId DEF SignedIn
    <3> QED  BY <1>16, <2>1, <2>2, <3>1 DEF RevokeToken
  <2> HIDE DEF Excused
  <2> QED  BY <2>1, <2>2
<1>17. CASE SignedOut
  BY <1>17 DEF SignedOut, NoToken, Idle, server, browser, time
<1>18. CASE RealmEnds
  BY <1>18 DEF RealmEnds, server, browser, time
<1>19. CASE BackChannel
  BY <1>19 DEF BackChannel, Revoke, SignedIn, server, browser, time
<1>20. CASE BackDelete
  BY <1>20 DEF BackDelete, Fault, server, browser, time
<1>21. CASE Due \/ Expire
  BY <1>21 DEF Due, Expire, server, browser, time
<1>22. CASE Restart
  BY <1>22 DEF Restart, Fault, Idle, server, browser, time
<1>23. ASSUME NEW s \in Ids, RowExpires(s) PROVE Held'
  BY <1>23 DEF RowExpires, server, browser, time
<1>24. CASE UNCHANGED vars
  BY <1>24 DEF vars, server, browser, time
<1> QED
  BY <1>1, <1>2, <1>3, <1>4, <1>5, <1>6, <1>7, <1>8, <1>9, <1>10, <1>11, <1>12, <1>13, <1>14,
     <1>15, <1>16, <1>17, <1>18, <1>19, <1>20, <1>21, <1>22, <1>23, <1>24
  DEF Next, Renewal

\* Every way to answer "ended" starts from a session that is over.
LEMMA EndedKept ==
  SessionsTypeOK /\ KnownIds /\ RowsStand /\ Held /\ EndedIsTrue /\ [Next]_vars => EndedIsTrue'
<1> SUFFICES ASSUME SessionsTypeOK, KnownIds, RowsStand, Held, EndedIsTrue,
                    [Next]_vars
             PROVE  EndedIsTrue'
  OBVIOUS
<1> USE SessionsAssumption
      DEF EndedIsTrue, RowsStand, KnownIds, Held, Known, Excused, HoldsRow, SessionsTypeOK
<1>1. ASSUME NEW t \in Tabs, KeepAlive(t) PROVE EndedIsTrue'
  <2>1. \A u \in Tabs : req'[u].stage = "answered" => req'[u] = req[u]
    BY <1>1 DEF KeepAlive, Ask
  <2> QED  BY <1>1, <2>1 DEF KeepAlive, server
<1>2. ASSUME NEW t \in Tabs, StreamLost(t) PROVE EndedIsTrue'
  BY <1>2 DEF StreamLost, Ask, server, browser, time
<1>3. ASSUME NEW t \in Tabs, NoCookie(t) PROVE EndedIsTrue'
  BY <1>3 DEF NoCookie, Answer, server, browser, time
<1>4. ASSUME NEW t \in Tabs, Lock(t) PROVE EndedIsTrue'
  <2>1. req[t].id \in Ids
    BY <1>4, Carries DEF Lock
  <2>2. CASE row[req[t].id] = 0 \/ req[t].id \in stale
    <3>1. Excused(req[t].id)
      BY <1>4, <2>1, <2>2 DEF Lock
    <3> QED  BY <1>4, <2>1, <2>2, <3>1 DEF Lock, Ended, Answer
  <2>3. CASE ~(row[req[t].id] = 0 \/ req[t].id \in stale)
    BY <1>4, <2>3 DEF Lock
  <2> QED  BY <2>2, <2>3
<1>5. ASSUME NEW t \in Tabs, Grant(t) PROVE EndedIsTrue'
  BY <1>5 DEF Grant, NextToken, server, browser, time
<1>6. ASSUME NEW t \in Tabs, Refuse(t) PROVE EndedIsTrue'
  <2>1. req[t].id \in Ids /\ Excused(req[t].id)
    BY <1>6, Carries DEF Refuse
  <2> QED  BY <1>6, <2>1 DEF Refuse, Ended, Answer
<1>7. ASSUME NEW t \in Tabs, Verify(t) PROVE EndedIsTrue'
  <2>1. CASE req[t].issued > revokedAt
    BY <1>7, <2>1, VerifyStep DEF Ended
  <2>2. CASE req[t].issued <= revokedAt
    <3>1. Excused(req[t].id)
      BY <1>7, <2>2, VerifyStep
    <3> QED  BY <1>7, <2>2, <3>1, VerifyStep DEF Ended, Answer
  <2> QED  BY <1>7, <2>1, <2>2, VerifyStep
<1>8. ASSUME NEW t \in Tabs, Write(t) PROVE EndedIsTrue'
  BY <1>8 DEF Write, IssuedAs, server, browser, time
<1>9. ASSUME NEW t \in Tabs, Arrive(t) PROVE EndedIsTrue'
  BY <1>9 DEF Arrive, Renewed, Over, TryLater, Fault, Adopt, Later, NoToken, Idle, server,
     browser, time
<1>10. ASSUME NEW t \in Tabs, RealmFails(t) PROVE EndedIsTrue'
  BY <1>10 DEF RealmFails, Fault, Unavailable, Answer, NextToken, server, browser, time
<1>11. ASSUME NEW t \in Tabs, KeysUnreachable(t) PROVE EndedIsTrue'
  BY <1>11 DEF KeysUnreachable, Fault, Answer, server, browser, time
<1>12. ASSUME NEW t \in Tabs, WriteFails(t) PROVE EndedIsTrue'
  BY <1>12 DEF WriteFails, Fault, Unavailable, Answer, server, browser, time
<1>13. ASSUME NEW t \in Tabs, SignIn(t) PROVE EndedIsTrue'
  BY <1>13 DEF SignIn, server, browser, time
<1>14. CASE SignOut
  BY <1>14 DEF SignOut, server, browser, time
<1>15. CASE DeleteRow
  BY <1>15 DEF DeleteRow, Fault, server, browser, time
<1>16. CASE RevokeToken
  BY <1>16 DEF RevokeToken, Revoke, Accepted, SignedIn, Gone, server, browser, time
<1>17. CASE SignedOut
  BY <1>17 DEF SignedOut, NoToken, Idle, server, browser, time
<1>18. CASE RealmEnds
  BY <1>18 DEF RealmEnds, server, browser, time
<1>19. CASE BackChannel
  BY <1>19 DEF BackChannel, Revoke, SignedIn, server, browser, time
<1>20. CASE BackDelete
  BY <1>20 DEF BackDelete, Fault, server, browser, time
<1>21. CASE Due \/ Expire
  BY <1>21 DEF Due, Expire, server, browser, time
<1>22. CASE Restart
  BY <1>22 DEF Restart, Fault, Idle, server, browser, time
<1>23. ASSUME NEW s \in Ids, RowExpires(s) PROVE EndedIsTrue'
  BY <1>23 DEF RowExpires, server, browser, time
<1>24. CASE UNCHANGED vars
  BY <1>24 DEF vars, server, browser, time
<1> QED
  BY <1>1, <1>2, <1>3, <1>4, <1>5, <1>6, <1>7, <1>8, <1>9, <1>10, <1>11, <1>12, <1>13, <1>14,
     <1>15, <1>16, <1>17, <1>18, <1>19, <1>20, <1>21, <1>22, <1>23, <1>24
  DEF Next, Renewal

\* At the start one session is open, its row is the realm's, nobody asks.
LEMMA EndedInit == Init => EndedInv
<1> SUFFICES ASSUME Init PROVE EndedInv
  OBVIOUS
<1> USE SessionsAssumption DEF Init
<1>1. \A t \in Tabs : req[t].stage = "idle"
  BY DEF Idle
<1>2. KnownIds
  BY <1>1 DEF KnownIds, Known, Ids
<1>3. RowsStand
  BY <1>1 DEF RowsStand, Known
<1> QED
  BY <1>1, <1>2, <1>3 DEF EndedInv, OneHolder, Held, Called, EndedIsTrue, HoldsRow

\* Every step keeps all of it.
LEMMA EndedInvKept == SessionsTypeOK /\ EndedInv /\ [Next]_vars => EndedInv'
<1> QED
  BY OneHolderKept, KnownKept, CalledKept, RowsKept, HeldKept, EndedKept DEF EndedInv

\* A renewal says that a session has ended only when it has, or may have been
\* lost: refresh/route.ts clears the browser's cookies on that word alone.
THEOREM EndedAlwaysTrue == Spec => []EndedIsTrue
<1>1. EndedInv => EndedIsTrue
  BY DEF EndedInv
<1> QED
  BY <1>1, TypeInit, TypeKept, EndedInit, EndedInvKept, PTL DEF Spec

-----------------------------------------------------------------------------
(* Why a session that was ended stays ended.                                 *)

Renewing(t, s) == req[t].stage = "answered" /\ req[t].answer = "renewed" /\ req[t].id = s

\* Nothing vouches for a moment that has not come.
Past ==
    /\ cookie.token.vouched <= clock
    /\ \A t \in Tabs : \A s \in Ids :
          /\ HoldsRow(t, s) => req[t].vouched <= clock
          /\ Renewing(t, s) => req[t].token.vouched <= clock

\* A token comes with the id of its session, and a sign-out takes both.
Pairs ==
    /\ cookie.token # NoToken => cookie.id \in Ids
    /\ out.stage \in {"deleting", "revoking"} => out.id \in Ids /\ Known(out.id)

\* No row, and no renewal that could write one.
Shut(s) == row[s] = 0 /\ \A t \in Tabs : ~HoldsRow(t, s)

\* Between the two steps of a sign-out the session is shut already.
Leaves == out.stage = "revoking" /\ out.rowGone => Shut(out.id)

\* After them, nothing of the session was vouched for later.
LeftIsPast == \A s \in left :
    /\ s \in Ids /\ Known(s)
    /\ realm.over \/ Shut(s)
    /\ cookie.id = s => cookie.token.vouched <= revokedAt
    /\ \A t \in Tabs : /\ Spends(t, s) => req[t].vouched <= revokedAt
                       /\ Renewing(t, s) => req[t].token.vouched <= revokedAt

StaysInv == Past /\ Pairs /\ Leaves /\ LeftIsPast

\* Moments are taken from the clock, which only goes on.
LEMMA PastKept ==
  SessionsTypeOK /\ Past /\ [Next]_vars => Past'
<1> SUFFICES ASSUME SessionsTypeOK, Past, [Next]_vars PROVE Past'
  OBVIOUS
<1> USE SessionsAssumption DEF Past, HoldsRow, Renewing, SessionsTypeOK
<1>1. ASSUME NEW t \in Tabs, KeepAlive(t) PROVE Past'
  BY <1>1 DEF KeepAlive, Ask, Adopt, Later, server, browser, time
<1>2. ASSUME NEW t \in Tabs, StreamLost(t) PROVE Past'
  BY <1>2 DEF StreamLost, Ask, server, browser, time
<1>3. ASSUME NEW t \in Tabs, NoCookie(t) PROVE Past'
  BY <1>3 DEF NoCookie, Answer, server, browser, time
<1>4. ASSUME NEW t \in Tabs, Lock(t) PROVE Past'
  BY <1>4 DEF Lock, Ended, Vouch, Answer, server, browser, time
<1>5. ASSUME NEW t \in Tabs, Grant(t) PROVE Past'
  BY <1>5 DEF Grant, NextToken, server, browser, time
<1>6. ASSUME NEW t \in Tabs, Refuse(t) PROVE Past'
  BY <1>6 DEF Refuse, Ended, Answer, server, browser, time
<1>7. ASSUME NEW t \in Tabs, Verify(t) PROVE Past'
  BY <1>7, VerifyStep DEF Ended, Answer, server, browser, time
<1>8. ASSUME NEW t \in Tabs, Write(t) PROVE Past'
  BY <1>8 DEF Write, IssuedAs, server, browser, time
<1>9. ASSUME NEW t \in Tabs, Arrive(t) PROVE Past'
  <2>1. cookie'.token.vouched <= clock
    <3>1. CASE Renewed(t)
      BY <1>9, <3>1, Carries DEF Arrive, Renewed
    <3>2. CASE Over(t)
      BY <3>2 DEF Over, NoToken
    <3>3. CASE TryLater(t)
      BY <3>3 DEF TryLater
    <3> QED  BY <1>9, <3>1, <3>2, <3>3 DEF Arrive
  <2>2. \A u \in Tabs : req'[u].stage # "idle" => req'[u] = req[u]
    BY <1>9 DEF Arrive, Idle
  <2> QED  BY <1>9, <2>1, <2>2 DEF Arrive, server
<1>10. ASSUME NEW t \in Tabs, RealmFails(t) PROVE Past'
  BY <1>10 DEF RealmFails, Fault, Unavailable, Answer, NextToken, server, browser, time
<1>11. ASSUME NEW t \in Tabs, KeysUnreachable(t) PROVE Past'
  BY <1>11 DEF KeysUnreachable, Fault, Answer, server, browser, time
<1>12. ASSUME NEW t \in Tabs, WriteFails(t) PROVE Past'
  BY <1>12 DEF WriteFails, Fault, Unavailable, Answer, server, browser, time
<1>13. ASSUME NEW t \in Tabs, SignIn(t) PROVE Past'
  BY <1>13 DEF SignIn, server, browser, time
<1>14. CASE SignOut
  BY <1>14 DEF SignOut, server, browser, time
<1>15. CASE DeleteRow
  BY <1>15 DEF DeleteRow, Fault, server, browser, time
<1>16. CASE RevokeToken
  <2>1. clock' \in Nat /\ clock <= clock' /\ UNCHANGED <<req, cookie>>
    BY <1>16 DEF RevokeToken, Revoke
  <2>2. \A u \in Tabs : \A s \in Ids : HoldsRow(u, s) => req[u].vouched \in Nat
    BY Carries
  <2>3. \A u \in Tabs : \A s \in Ids : Renewing(u, s) => req[u].token.vouched \in Nat
    BY Carries
  <2>4. cookie.token.vouched \in Nat
    BY DEF Token
  <2> QED  BY <2>1, <2>2, <2>3, <2>4
<1>17. CASE SignedOut
  BY <1>17 DEF SignedOut, NoToken, Idle, server, browser, time
<1>18. CASE RealmEnds
  BY <1>18 DEF RealmEnds, server, browser, time
<1>19. CASE BackChannel
  <2>1. clock' \in Nat /\ clock <= clock' /\ UNCHANGED <<req, cookie>>
    BY <1>19 DEF BackChannel, Revoke
  <2>2. \A u \in Tabs : \A s \in Ids : HoldsRow(u, s) => req[u].vouched \in Nat
    BY Carries
  <2>3. \A u \in Tabs : \A s \in Ids : Renewing(u, s) => req[u].token.vouched \in Nat
    BY Carries
  <2>4. cookie.token.vouched \in Nat
    BY DEF Token
  <2> QED  BY <2>1, <2>2, <2>3, <2>4
<1>20. CASE BackDelete
  BY <1>20 DEF BackDelete, Fault, server, browser, time
<1>21. CASE Due \/ Expire
  BY <1>21 DEF Due, Expire, server, browser, time
<1>22. CASE Restart
  BY <1>22 DEF Restart, Fault, Idle, server, browser, time
<1>23. ASSUME NEW s \in Ids, RowExpires(s) PROVE Past'
  BY <1>23 DEF RowExpires, server, browser, time
<1>24. CASE UNCHANGED vars
  BY <1>24 DEF vars, server, browser, time
<1> QED
  BY <1>1, <1>2, <1>3, <1>4, <1>5, <1>6, <1>7, <1>8, <1>9, <1>10, <1>11, <1>12, <1>13, <1>14,
     <1>15, <1>16, <1>17, <1>18, <1>19, <1>20, <1>21, <1>22, <1>23, <1>24
  DEF Next, Renewal

\* Tokens and ids are set together, and a sign-out copies both.
LEMMA PairsKept ==
  SessionsTypeOK /\ KnownIds /\ Pairs /\ [Next]_vars => Pairs'
<1> SUFFICES ASSUME SessionsTypeOK, KnownIds, Pairs, [Next]_vars PROVE Pairs'
  OBVIOUS
<1> USE SessionsAssumption DEF Pairs, KnownIds, Known, SessionsTypeOK
<1>1. ASSUME NEW t \in Tabs, KeepAlive(t) PROVE Pairs'
  BY <1>1 DEF KeepAlive, Ask, Adopt, Later, server, browser, time
<1>2. ASSUME NEW t \in Tabs, StreamLost(t) PROVE Pairs'
  BY <1>2 DEF StreamLost, Ask, server, browser, time
<1>3. ASSUME NEW t \in Tabs, NoCookie(t) PROVE Pairs'
  BY <1>3 DEF NoCookie, Answer, server, browser, time
<1>4. ASSUME NEW t \in Tabs, Lock(t) PROVE Pairs'
  BY <1>4 DEF Lock, Ended, Vouch, Answer, server, browser, time
<1>5. ASSUME NEW t \in Tabs, Grant(t) PROVE Pairs'
  BY <1>5 DEF Grant, NextToken, server, browser, time
<1>6. ASSUME NEW t \in Tabs, Refuse(t) PROVE Pairs'
  BY <1>6 DEF Refuse, Ended, Answer, server, browser, time
<1>7. ASSUME NEW t \in Tabs, Verify(t) PROVE Pairs'
  BY <1>7, VerifyStep DEF Ended, Answer, server, browser, time
<1>8. ASSUME NEW t \in Tabs, Write(t) PROVE Pairs'
  BY <1>8 DEF Write, IssuedAs, server, browser, time
<1>9. ASSUME NEW t \in Tabs, Arrive(t) PROVE Pairs'
  <2>1. cookie'.token # NoToken => cookie'.id \in Ids
    <3>1. CASE Renewed(t)
      BY <1>9, <3>1, Carries DEF Arrive, Renewed
    <3>2. CASE Over(t)
      BY <3>2 DEF Over
    <3>3. CASE TryLater(t)
      BY <3>3 DEF TryLater
    <3> QED  BY <1>9, <3>1, <3>2, <3>3 DEF Arrive
  <2> QED  BY <1>9, <2>1 DEF Arrive, server
<1>10. ASSUME NEW t \in Tabs, RealmFails(t) PROVE Pairs'
  BY <1>10 DEF RealmFails, Fault, Unavailable, Answer, NextToken, server, browser, time
<1>11. ASSUME NEW t \in Tabs, KeysUnreachable(t) PROVE Pairs'
  BY <1>11 DEF KeysUnreachable, Fault, Answer, server, browser, time
<1>12. ASSUME NEW t \in Tabs, WriteFails(t) PROVE Pairs'
  BY <1>12 DEF WriteFails, Fault, Unavailable, Answer, server, browser, time
<1>13. ASSUME NEW t \in Tabs, SignIn(t) PROVE Pairs'
  BY <1>13 DEF SignIn, server, browser, time
<1>14. CASE SignOut
  BY <1>14, NoneIsNoId DEF SignOut, server, browser
<1>15. CASE DeleteRow
  BY <1>15, DeleteRowStep DEF DeleteRow, browser
<1>16. CASE RevokeToken
  BY <1>16 DEF RevokeToken, Revoke, Accepted, SignedIn, Gone, server, browser, time
<1>17. CASE SignedOut
  BY <1>17 DEF SignedOut, NoToken, Idle, server, browser, time
<1>18. CASE RealmEnds
  BY <1>18 DEF RealmEnds, server, browser, time
<1>19. CASE BackChannel
  BY <1>19 DEF BackChannel, Revoke, SignedIn, server, browser, time
<1>20. CASE BackDelete
  BY <1>20 DEF BackDelete, Fault, server, browser, time
<1>21. CASE Due \/ Expire
  BY <1>21 DEF Due, Expire, server, browser, time
<1>22. CASE Restart
  BY <1>22 DEF Restart, Fault, Idle, server, browser, time
<1>23. ASSUME NEW s \in Ids, RowExpires(s) PROVE Pairs'
  BY <1>23 DEF RowExpires, server, browser, time
<1>24. CASE UNCHANGED vars
  BY <1>24 DEF vars, server, browser, time
<1> QED
  BY <1>1, <1>2, <1>3, <1>4, <1>5, <1>6, <1>7, <1>8, <1>9, <1>10, <1>11, <1>12, <1>13, <1>14,
     <1>15, <1>16, <1>17, <1>18, <1>19, <1>20, <1>21, <1>22, <1>23, <1>24
  DEF Next, Renewal

\* A row that a sign-out deleted is not written again: its writers held it before.
LEMMA LeavesKept ==
  SessionsTypeOK /\ KnownIds /\ Pairs /\ Leaves /\ [Next]_vars => Leaves'
<1> SUFFICES ASSUME SessionsTypeOK, KnownIds, Pairs, Leaves, [Next]_vars PROVE Leaves'
  OBVIOUS
<1> USE SessionsAssumption
      DEF Leaves, Pairs, KnownIds, Shut, Known, HoldsRow, Locked, SessionsTypeOK
<1>1. ASSUME NEW t \in Tabs, KeepAlive(t) PROVE Leaves'
  BY <1>1 DEF KeepAlive, Ask, Adopt, Later, server, browser, time
<1>2. ASSUME NEW t \in Tabs, StreamLost(t) PROVE Leaves'
  BY <1>2 DEF StreamLost, Ask, server, browser, time
<1>3. ASSUME NEW t \in Tabs, NoCookie(t) PROVE Leaves'
  BY <1>3 DEF NoCookie, Answer, server, browser, time
<1>4. ASSUME NEW t \in Tabs, Lock(t) PROVE Leaves'
  <2>1. req[t].id \in Ids
    BY <1>4, Carries DEF Lock
  <2>2. CASE row[req[t].id] = 0
    BY <1>4, <2>1, <2>2 DEF Lock, Ended, Answer
  <2>3. CASE row[req[t].id] # 0
    <3>1. \A s \in Ids : s # req[t].id => \A u \in Tabs : HoldsRow(u, s)' => HoldsRow(u, s)
      BY <1>4 DEF Lock, Ended, Answer
    <3>2. \A s \in Ids : row[s] = 0 => row'[s] = 0
      BY <1>4, <2>1 DEF Lock, Ended
    <3> HIDE DEF HoldsRow
    <3> QED  BY <1>4, <2>3, <3>1, <3>2 DEF Lock
  <2> QED  BY <2>2, <2>3
<1>5. ASSUME NEW t \in Tabs, Grant(t) PROVE Leaves'
  BY <1>5 DEF Grant, NextToken, server, browser, time
<1>6. ASSUME NEW t \in Tabs, Refuse(t) PROVE Leaves'
  BY <1>6 DEF Refuse, Ended, Answer, server, browser, time
<1>7. ASSUME NEW t \in Tabs, Verify(t) PROVE Leaves'
  BY <1>7, VerifyStep DEF Ended, Answer, server, browser, time
<1>8. ASSUME NEW t \in Tabs, Write(t) PROVE Leaves'
  BY <1>8 DEF Write, IssuedAs, server, browser, time
<1>9. ASSUME NEW t \in Tabs, Arrive(t) PROVE Leaves'
  BY <1>9 DEF Arrive, Renewed, Over, TryLater, Fault, Adopt, Later, NoToken, Idle, server,
     browser, time
<1>10. ASSUME NEW t \in Tabs, RealmFails(t) PROVE Leaves'
  BY <1>10 DEF RealmFails, Fault, Unavailable, Answer, NextToken, server, browser, time
<1>11. ASSUME NEW t \in Tabs, KeysUnreachable(t) PROVE Leaves'
  BY <1>11 DEF KeysUnreachable, Fault, Answer, server, browser, time
<1>12. ASSUME NEW t \in Tabs, WriteFails(t) PROVE Leaves'
  BY <1>12 DEF WriteFails, Fault, Unavailable, Answer, server, browser, time
<1>13. ASSUME NEW t \in Tabs, SignIn(t) PROVE Leaves'
  BY <1>13 DEF SignIn, server, browser, time
<1>14. CASE SignOut
  BY <1>14 DEF SignOut, server, browser, time
<1>15. CASE DeleteRow
  <2>1. out.id \in Ids /\ UNCHANGED req
    BY <1>15 DEF DeleteRow
  <2>2. CASE row' = [s \in Ids |-> IF s = out.id THEN 0 ELSE row[s]] /\ ~Locked(out.id)
    BY <1>15, <2>1, <2>2, DeleteRowStep
  <2> QED  BY <1>15, <2>1, <2>2, NoneIsNoId, DeleteRowStep
<1>16. CASE RevokeToken
  BY <1>16 DEF RevokeToken, Revoke, Accepted, SignedIn, Gone, server, browser, time
<1>17. CASE SignedOut
  BY <1>17 DEF SignedOut, NoToken, Idle, server, browser, time
<1>18. CASE RealmEnds
  BY <1>18 DEF RealmEnds, server, browser, time
<1>19. CASE BackChannel
  BY <1>19 DEF BackChannel, Revoke, SignedIn, server, browser, time
<1>20. CASE BackDelete
  BY <1>20 DEF BackDelete, Fault, server, browser, time
<1>21. CASE Due \/ Expire
  BY <1>21 DEF Due, Expire, server, browser, time
<1>22. CASE Restart
  BY <1>22 DEF Restart, Fault, Idle, server, browser, time
<1>23. ASSUME NEW s \in Ids, RowExpires(s) PROVE Leaves'
  BY <1>23 DEF RowExpires, server, browser, time
<1>24. CASE UNCHANGED vars
  BY <1>24 DEF vars, server, browser, time
<1> QED
  BY <1>1, <1>2, <1>3, <1>4, <1>5, <1>6, <1>7, <1>8, <1>9, <1>10, <1>11, <1>12, <1>13, <1>14,
     <1>15, <1>16, <1>17, <1>18, <1>19, <1>20, <1>21, <1>22, <1>23, <1>24
  DEF Next, Renewal

\* A session that was ended is given no token that was vouched for later.
LEMMA LeftKept ==
  SessionsTypeOK /\ KnownIds /\ Called /\ Past /\ Pairs /\ Leaves /\ LeftIsPast /\ [Next]_vars
  => LeftIsPast'
<1> SUFFICES ASSUME SessionsTypeOK, KnownIds, Called, Past, Pairs, Leaves, LeftIsPast,
                    [Next]_vars
             PROVE  LeftIsPast'
  OBVIOUS
<1> USE SessionsAssumption
      DEF Past, Pairs, Leaves, LeftIsPast, Shut, Called, KnownIds, Known, Spends, Renewing,
          HoldsRow, SessionsTypeOK
<1>1. ASSUME NEW t \in Tabs, KeepAlive(t) PROVE LeftIsPast'
  <2>1. UNCHANGED <<row, realm, revokedAt, cookie, left>>
    BY <1>1 DEF KeepAlive, server
  <2>2. \A u \in Tabs : req'[u].stage # "sent" => req'[u] = req[u]
    BY <1>1 DEF KeepAlive, Ask
  <2> QED  BY <2>1, <2>2
<1>2. ASSUME NEW t \in Tabs, StreamLost(t) PROVE LeftIsPast'
  BY <1>2 DEF StreamLost, Ask, server, browser, time
<1>3. ASSUME NEW t \in Tabs, NoCookie(t) PROVE LeftIsPast'
  BY <1>3 DEF NoCookie, Answer, server, browser, time
<1>4. ASSUME NEW t \in Tabs, Lock(t) PROVE LeftIsPast'
  <2>1. req[t].id \in Ids
    BY <1>4, Carries DEF Lock
  <2>2. UNCHANGED <<realm, revokedAt, cookie, left>>
    BY <1>4 DEF Lock, Ended, browser
  <2>3. \A u \in Tabs : \A s \in Ids :
          (Spends(u, s)' => Spends(u, s) /\ req'[u] = req[u])
          /\ (Renewing(u, s)' => Renewing(u, s) /\ req'[u] = req[u])
    BY <1>4 DEF Lock, Ended, Answer
  <2>4. \A s \in Ids : Shut(s) => Shut(s)'
    <3>1. CASE row[req[t].id] = 0
      BY <1>4, <2>1, <3>1 DEF Lock, Ended, Answer
    <3>2. CASE row[req[t].id] # 0
      <4>1. \A s \in Ids : s # req[t].id => \A u \in Tabs : HoldsRow(u, s)' => HoldsRow(u, s)
        BY <1>4 DEF Lock, Ended, Answer
      <4>2. \A s \in Ids : row[s] = 0 => row'[s] = 0
        BY <1>4, <2>1 DEF Lock, Ended
      <4> HIDE DEF HoldsRow
      <4> QED  BY <3>2, <4>1, <4>2
    <3> QED  BY <3>1, <3>2
  <2> HIDE DEF Shut, Spends, Renewing
  <2> QED  BY <2>2, <2>3, <2>4
<1>5. ASSUME NEW t \in Tabs, Grant(t) PROVE LeftIsPast'
  BY <1>5 DEF Grant, NextToken, server, browser, time
<1>6. ASSUME NEW t \in Tabs, Refuse(t) PROVE LeftIsPast'
  BY <1>6 DEF Refuse, Ended, Answer, server, browser, time
<1>7. ASSUME NEW t \in Tabs, Verify(t) PROVE LeftIsPast'
  <2>1. UNCHANGED <<realm, revokedAt, cookie, left>>
    BY <1>7, VerifyStep DEF browser
  <2>2. \A u \in Tabs : \A s \in Ids :
          (HoldsRow(u, s)' => HoldsRow(u, s))
          /\ (Spends(u, s)' => Spends(u, s) /\ req'[u].vouched = req[u].vouched)
          /\ (Renewing(u, s)' => Renewing(u, s) /\ req'[u] = req[u])
    BY <1>7, VerifyStep DEF Ended, Answer
  <2>3. \A s \in Ids : row[s] = 0 => row'[s] = 0
    BY <1>7, VerifyStep DEF Ended
  <2> HIDE DEF HoldsRow, Spends, Renewing
  <2> QED  BY <2>1, <2>2, <2>3
<1>8. ASSUME NEW t \in Tabs, Write(t) PROVE LeftIsPast'
  BY <1>8 DEF Write, IssuedAs, server, browser, time
<1>9. ASSUME NEW t \in Tabs, Arrive(t) PROVE LeftIsPast'
  BY <1>9 DEF Arrive, Renewed, Over, TryLater, Fault, Adopt, Later, NoToken, Idle, server,
     browser, time
<1>10. ASSUME NEW t \in Tabs, RealmFails(t) PROVE LeftIsPast'
  BY <1>10 DEF RealmFails, Fault, Unavailable, Answer, NextToken, server, browser, time
<1>11. ASSUME NEW t \in Tabs, KeysUnreachable(t) PROVE LeftIsPast'
  BY <1>11 DEF KeysUnreachable, Fault, Answer, server, browser, time
<1>12. ASSUME NEW t \in Tabs, WriteFails(t) PROVE LeftIsPast'
  BY <1>12 DEF WriteFails, Fault, Unavailable, Answer, server, browser, time
<1>13. ASSUME NEW t \in Tabs, SignIn(t) PROVE LeftIsPast'
  BY <1>13 DEF SignIn, server, browser, time
<1>14. CASE SignOut
  BY <1>14 DEF SignOut, server, browser, time
<1>15. CASE DeleteRow
  BY <1>15 DEF DeleteRow, Fault, server, browser, time
<1>16. CASE RevokeToken
  BY <1>16 DEF RevokeToken, Revoke, Accepted, SignedIn, Gone, server, browser, time
<1>17. CASE SignedOut
  BY <1>17 DEF SignedOut, NoToken, Idle, server, browser, time
<1>18. CASE RealmEnds
  BY <1>18 DEF RealmEnds, server, browser, time
<1>19. CASE BackChannel
  BY <1>19 DEF BackChannel, Revoke, SignedIn, server, browser, time
<1>20. CASE BackDelete
  BY <1>20 DEF BackDelete, Fault, server, browser, time
<1>21. CASE Due \/ Expire
  BY <1>21 DEF Due, Expire, server, browser, time
<1>22. CASE Restart
  BY <1>22 DEF Restart, Fault, Idle, server, browser, time
<1>23. ASSUME NEW s \in Ids, RowExpires(s) PROVE LeftIsPast'
  BY <1>23 DEF RowExpires, server, browser, time
<1>24. CASE UNCHANGED vars
  BY <1>24 DEF vars, server, browser, time
<1> QED
  BY <1>1, <1>2, <1>3, <1>4, <1>5, <1>6, <1>7, <1>8, <1>9, <1>10, <1>11, <1>12, <1>13, <1>14,
     <1>15, <1>16, <1>17, <1>18, <1>19, <1>20, <1>21, <1>22, <1>23, <1>24
  DEF Next, Renewal

\* At the start nothing was ended and nothing is on its way.
LEMMA StaysInit == Init => StaysInv
<1> SUFFICES ASSUME Init PROVE StaysInv
  OBVIOUS
<1> USE SessionsAssumption DEF Init
<1>1. \A t \in Tabs : req[t].stage = "idle"
  BY DEF Idle
<1>2. 1 \in Ids
  BY DEF Ids
<1> QED
  BY <1>1, <1>2
  DEF StaysInv, Past, Pairs, Leaves, LeftIsPast, HoldsRow, Renewing, Idle

\* Every step keeps all of it.
LEMMA StaysInvKept ==
  SessionsTypeOK /\ EndedInv /\ StaysInv /\ [Next]_vars => StaysInv'
<1> QED
  BY PastKept, PairsKept, LeavesKept, LeftKept DEF StaysInv, EndedInv

\* What a sign-out or the realm has ended stays ended: the cookie of such a
\* session is never accepted again (revocation.ts), by whatever order renewals,
\* revocations and answers come.
THEOREM EndedForGood == Spec => []StaysEnded
<1>1. SessionsTypeOK /\ StaysInv => StaysEnded
  BY DEF SessionsTypeOK, StaysInv, LeftIsPast, StaysEnded, Accepted, Token
<1> QED
  BY <1>1, TypeInit, TypeKept, EndedInit, EndedInvKept, StaysInit, StaysInvKept, PTL DEF Spec

-----------------------------------------------------------------------------
(* Guards of streams                                                         *)

\* The streams that end are guarded ones, and each is told the reason.
LEMMA EndFacts ==
  ASSUME GuardTypeOK, NEW S, NEW reason \in {"expired", "revoked", "forbidden"},
         End(S, reason)
  PROVE  /\ phase' \in [Streams -> {"new", "opening", "open", "closed"}]
         /\ why' \in [Streams -> {Untold, "expired", "revoked", "forbidden"}]
         /\ \A s \in Streams : why'[s] = why[s] \/ (why'[s] = reason /\ s \in S)
         /\ \A s \in Streams : phase[s] = "closed" => why'[s] = why[s]
BY DEF GuardTypeOK, End, Guarded

\* The type invariant is inductive.
LEMMA GuardKept == GuardTypeOK /\ [GuardNext]_guardVars => GuardTypeOK'
<1> SUFFICES ASSUME GuardTypeOK, [GuardNext]_guardVars PROVE GuardTypeOK'
  OBVIOUS
<1>1. ASSUME NEW s \in Streams, Connect(s) \/ Guard(s) \/ Stop(s)
      PROVE GuardTypeOK'
  BY <1>1 DEF GuardTypeOK, Connect, Guard, Stop
<1>2. ASSUME NEW s \in Streams, TokenExpires(s) PROVE GuardTypeOK'
  BY <1>2 DEF GuardTypeOK, TokenExpires
<1>3. ASSUME NEW s \in Streams, ExpiryTimer(s) \/ RecheckExpired(s) PROVE GuardTypeOK'
  <2>1. End({s}, "expired") /\ UNCHANGED <<revoked, expired, viewable, check>>
    BY <1>3 DEF ExpiryTimer, RecheckExpired
  <2> QED  BY <2>1, EndFacts DEF GuardTypeOK
<1>4. ASSUME NEW session \in RealmSessions, RevokeSession(session) PROVE GuardTypeOK'
  <2>1. /\ End({s \in Streams : SessionOf[s] = session}, "revoked")
        /\ revoked' = revoked \cup {session}
        /\ UNCHANGED <<expired, viewable, check>>
    BY <1>4 DEF RevokeSession
  <2> QED  BY <2>1, EndFacts DEF GuardTypeOK
<1>5. CASE Withdraw
  BY <1>5 DEF GuardTypeOK, Withdraw
<1>6. ASSUME NEW s \in Streams, Recheck(s) \/ LookupFails(s) PROVE GuardTypeOK'
  BY <1>6 DEF GuardTypeOK, Recheck, LookupFails
<1>7. ASSUME NEW s \in Streams, Verified(s) PROVE GuardTypeOK'
  <2>1. /\ UNCHANGED <<revoked, expired, viewable>>
        /\ check' \in [Streams -> {"idle", "verifying", "authorizing"}]
    BY <1>7 DEF GuardTypeOK, Verified
  <2>2. UNCHANGED <<phase, why>> \/ End({s}, "expired") \/ End({s}, "revoked")
    BY <1>7 DEF Verified, Verdict
  <2> QED  BY <2>1, <2>2, EndFacts DEF GuardTypeOK
<1>8. ASSUME NEW s \in Streams, Authorized(s) PROVE GuardTypeOK'
  <2>1. /\ UNCHANGED <<revoked, expired, viewable>>
        /\ check' \in [Streams -> {"idle", "verifying", "authorizing"}]
    BY <1>8 DEF GuardTypeOK, Authorized
  <2>2. UNCHANGED <<phase, why>> \/ End({s}, "forbidden")
    BY <1>8 DEF Authorized
  <2> QED  BY <2>1, <2>2, EndFacts DEF GuardTypeOK
<1>9. CASE UNCHANGED guardVars
  BY <1>9 DEF GuardTypeOK, guardVars
<1> QED
  BY <1>1, <1>2, <1>3, <1>4, <1>5, <1>6, <1>7, <1>8, <1>9 DEF GuardNext

\* Type correctness of the guard, of stream-guard.ts.
THEOREM GuardTypeCorrect == GuardSpec => []GuardTypeOK
<1>1. GuardInit => GuardTypeOK
  BY DEF GuardInit, GuardTypeOK
<1> QED  BY <1>1, GuardKept, PTL DEF GuardSpec
-----------------------------------------------------------------------------
\* Revocations and expiries are never taken back, and the dashboard does not
\* come back: a reason that was true when it was said stays true.
LEMMA CausesStay ==
  ASSUME [GuardNext]_guardVars
  PROVE  revoked \subseteq revoked' /\ expired \subseteq expired' /\ (~viewable => ~viewable')
<1>1. revoked \subseteq revoked'
  BY DEF GuardNext, guardVars, Connect, Guard, Stop, TokenExpires, ExpiryTimer, RevokeSession, Withdraw,
         Recheck, RecheckExpired, Verified, Authorized, LookupFails
<1>2. expired \subseteq expired'
  BY DEF GuardNext, guardVars, Connect, Guard, Stop, TokenExpires, ExpiryTimer, RevokeSession, Withdraw,
         Recheck, RecheckExpired, Verified, Authorized, LookupFails
<1>3. ~viewable => ~viewable'
  BY DEF GuardNext, guardVars, Connect, Guard, Stop, TokenExpires, ExpiryTimer, RevokeSession, Withdraw,
         Recheck, RecheckExpired, Verified, Authorized, LookupFails
<1> QED  BY <1>1, <1>2, <1>3

\* A step tells a stream a new reason only if that reason holds, and only a
\* stream that is not closed.
LEMMA SaidWhenTrue ==
  ASSUME GuardTypeOK, [GuardNext]_guardVars, NEW s \in Streams, why'[s] # why[s]
  PROVE  /\ phase[s] # "closed"
         /\ \/ why'[s] = "expired" /\ s \in expired'
            \/ why'[s] = "revoked" /\ SessionOf[s] \in revoked'
            \/ why'[s] = "forbidden" /\ ~viewable'
<1> DEFINE Said(t) == /\ phase[t] # "closed"
                      /\ \/ why'[t] = "expired" /\ t \in expired'
                         \/ why'[t] = "revoked" /\ SessionOf[t] \in revoked'
                         \/ why'[t] = "forbidden" /\ ~viewable'
<1> SUFFICES Said(s)
  OBVIOUS
<1>1. ASSUME NEW t \in Streams, ExpiryTimer(t) \/ RecheckExpired(t) PROVE Said(s)
  <2>1. End({t}, "expired") /\ t \in expired /\ expired' = expired
    BY <1>1 DEF ExpiryTimer, RecheckExpired
  <2> QED  BY <2>1, EndFacts
<1>2. ASSUME NEW session \in RealmSessions, RevokeSession(session) PROVE Said(s)
  <2>1. /\ End({t \in Streams : SessionOf[t] = session}, "revoked")
        /\ session \in revoked'
    BY <1>2 DEF RevokeSession
  <2>2. /\ phase[s] # "closed" /\ why'[s] = "revoked"
        /\ s \in {t \in Streams : SessionOf[t] = session}
    BY <2>1, EndFacts
  <2> QED  BY <2>1, <2>2
<1>3. ASSUME NEW t \in Streams, Verified(t) PROVE Said(s)
  <2>1. /\ End({t}, Verdict(t)) /\ ~Verifies(t)
        /\ UNCHANGED <<revoked, expired>>
    BY <1>3 DEF Verified
  <2>2. CASE t \in expired
    <3>1. End({t}, "expired")
      BY <2>1, <2>2 DEF Verdict
    <3> QED  BY <2>1, <2>2, <3>1, EndFacts
  <2>3. CASE t \notin expired
    <3>1. End({t}, "revoked") /\ SessionOf[t] \in revoked
      BY <2>1, <2>3 DEF Verdict, Verifies
    <3> QED  BY <2>1, <3>1, EndFacts
  <2> QED  BY <2>2, <2>3
<1>4. ASSUME NEW t \in Streams, Authorized(t) PROVE Said(s)
  <2>1. End({t}, "forbidden") /\ ~viewable /\ viewable' = viewable
    BY <1>4 DEF Authorized
  <2> QED  BY <2>1, EndFacts
<1>5. \/ \E t \in Streams : \/ ExpiryTimer(t) \/ RecheckExpired(t)
                             \/ Verified(t) \/ Authorized(t)
      \/ \E session \in RealmSessions : RevokeSession(session)
  BY DEF GuardNext, guardVars, Connect, Guard, Stop, TokenExpires, Withdraw, Recheck, LookupFails
<1> QED  BY <1>1, <1>2, <1>3, <1>4, <1>5

\* What onEnd tells the browser (expired, revoked, forbidden) is true.
THEOREM ReasonIsTrueHolds == GuardSpec => []ReasonIsTrue
<1>1. GuardInit => ReasonIsTrue
  BY DEF GuardInit, ReasonIsTrue, Untold
<1>2. GuardTypeOK /\ ReasonIsTrue /\ [GuardNext]_guardVars => ReasonIsTrue'
  <2> SUFFICES ASSUME GuardTypeOK, ReasonIsTrue, [GuardNext]_guardVars, NEW s \in Streams
               PROVE /\ why'[s] = "expired" => s \in expired'
                     /\ why'[s] = "revoked" => SessionOf[s] \in revoked'
                     /\ why'[s] = "forbidden" => ~viewable'
    BY DEF ReasonIsTrue
  <2>1. CASE why'[s] = why[s]
    BY <2>1, CausesStay DEF ReasonIsTrue
  <2>2. CASE why'[s] # why[s]
    BY <2>2, SaidWhenTrue
  <2> QED  BY <2>1, <2>2
<1> QED  BY <1>1, <1>2, GuardTypeCorrect, PTL DEF GuardSpec

\* onEnd speaks at most once, and never after the guard has stopped.
THEOREM SaidOnceHolds == GuardSpec => SaidOnce
<1>1. GuardTypeOK /\ [GuardNext]_guardVars =>
        [\A s \in Streams : phase[s] = "closed" => why'[s] = why[s]]_guardVars
  BY SaidWhenTrue
<1> QED  BY <1>1, GuardTypeCorrect, PTL DEF GuardSpec, SaidOnce
=============================================================================
