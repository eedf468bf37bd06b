----------------------------- MODULE StreamGuard -----------------------------
(***************************************************************************)
(* How long a dashboard stream stays authorized: guardStream               *)
(* (src/lib/auth/stream-guard.ts), the revocations of a back-channel       *)
(* logout (src/lib/auth/revocation.ts) and the verification of a session   *)
(* token, for the streams of one dashboard.                                *)
(*                                                                         *)
(* A stream is one connection with the token it was made with; several     *)
(* tokens may be of one realm session.  Whatever else closes a stream is   *)
(* in LiveStreams; here it may close at any time.                          *)
(***************************************************************************)
EXTENDS FiniteSets

CONSTANTS Streams, RealmSessions, SessionOf

ASSUME GuardAssumption == SessionOf \in [Streams -> RealmSessions]

VARIABLES
  revoked,  \* sessions revoked
  expired,  \* streams whose token has reached its exp
  viewable, \* the dashboard is there, in a workspace of the viewers
  phase,    \* where a stream is
  check,    \* its guard's periodic check; it may outlive the guard
  why       \* what onEnd told the browser

guardVars == <<revoked, expired, viewable, phase, check, why>>

Untold == "none"

GuardTypeOK ==
  /\ revoked \subseteq RealmSessions /\ expired \subseteq Streams
  /\ viewable \in BOOLEAN
  /\ phase \in [Streams -> {"new", "opening", "open", "closed"}]
  /\ check \in [Streams -> {"idle", "verifying", "authorizing"}]
  /\ why \in [Streams -> {Untold, "expired", "revoked", "forbidden"}]

GuardInit ==
  /\ revoked = {} /\ expired = {} /\ viewable = TRUE
  /\ phase = [s \in Streams |-> "new"]
  /\ check = [s \in Streams |-> "idle"]
  /\ why = [s \in Streams |-> Untold]

\* The streams whose guard is not done.
Guarded == {s \in Streams : phase[s] = "open"}

\* Wrong: revocations are left to the listeners.
VerifiesByExpiry(s) == s \notin expired

\* verifySessionToken of a first-party token, which is what a browser's cookie
\* holds: its signature's exp, and isRevoked.  It asks the realm for nothing
\* that could fail; a token of the realm itself is not modelled.
Verifies(s) == s \notin expired /\ SessionOf[s] \notin revoked
-----------------------------------------------------------------------------
\* requireIdentity and the view check, once.
Connect(s) ==
  /\ phase[s] = "new" /\ Verifies(s) /\ viewable
  /\ phase' = [phase EXCEPT ![s] = "opening"]
  /\ UNCHANGED <<revoked, expired, viewable, check, why>>

\* The route's lookups are done: guardStream registers for revocations and
\* schedules the token's expiry.  It does not look at either first.
Guard(s) ==
  /\ phase[s] = "opening"
  /\ phase' = [phase EXCEPT ![s] = "open"]
  /\ UNCHANGED <<revoked, expired, viewable, check, why>>

\* The stream closes for another reason and stops its guard.
Stop(s) ==
  /\ s \in Guarded
  /\ phase' = [phase EXCEPT ![s] = "closed"]
  /\ UNCHANGED <<revoked, expired, viewable, check, why>>

\* Wrong: a guard that is done still tells the browser.
EndAnyway(S, reason) ==
  /\ phase' = [s \in Streams |-> IF s \in S THEN "closed" ELSE phase[s]]
  /\ why' = [s \in Streams |-> IF s \in S THEN reason ELSE why[s]]

\* end(reason), of the guards of S that are not done.
End(S, reason) ==
  /\ phase' = [s \in Streams |-> IF s \in S \cap Guarded THEN "closed" ELSE phase[s]]
  /\ why' = [s \in Streams |-> IF s \in S \cap Guarded THEN reason ELSE why[s]]
-----------------------------------------------------------------------------
TokenExpires(s) ==
  /\ expired' = expired \cup {s}
  /\ UNCHANGED <<revoked, viewable, phase, check, why>>

\* The timer for exp, which may be set anew for a long wait.
ExpiryTimer(s) ==
  /\ s \in Guarded \cap expired
  /\ End({s}, "expired")
  /\ UNCHANGED <<revoked, expired, viewable, check>>

\* revoke(): every listener is called in the same step.
RevokeSession(session) ==
  /\ revoked' = revoked \cup {session}
  /\ End({s \in Streams : SessionOf[s] = session}, "revoked")
  /\ UNCHANGED <<expired, viewable, check>>

\* The dashboard is deleted, or moved to another workspace.
Withdraw ==
  /\ viewable' = FALSE
  /\ UNCHANGED <<revoked, expired, phase, check, why>>

\* The interval fires and no check is under way: verify() is awaited.
Recheck(s) ==
  /\ s \in Guarded \ expired /\ check[s] = "idle"
  /\ check' = [check EXCEPT ![s] = "verifying"]
  /\ UNCHANGED <<revoked, expired, viewable, phase, why>>

RecheckExpired(s) ==
  /\ s \in Guarded \cap expired /\ check[s] = "idle"
  /\ End({s}, "expired")
  /\ UNCHANGED <<revoked, expired, viewable, check>>

\* Wrong: a token that stopped verifying is always taken for revoked.
VerdictRevoked(s) == "revoked"

Verdict(s) == IF s \in expired THEN "expired" ELSE "revoked"

\* verify() answers.  A guard done meanwhile looks no further.
Verified(s) ==
  /\ check[s] = "verifying"
  /\ \/ /\ s \notin Guarded
        /\ check' = [check EXCEPT ![s] = "idle"]
        /\ UNCHANGED <<phase, why>>
     \/ /\ s \in Guarded /\ ~Verifies(s)
        /\ check' = [check EXCEPT ![s] = "idle"]
        /\ End({s}, Verdict(s))
     \/ /\ s \in Guarded /\ Verifies(s)
        /\ check' = [check EXCEPT ![s] = "authorizing"]
        /\ UNCHANGED <<phase, why>>
  /\ UNCHANGED <<revoked, expired, viewable>>

\* authorize() answers for the dashboard as it is now.
Authorized(s) ==
  /\ check[s] = "authorizing"
  /\ check' = [check EXCEPT ![s] = "idle"]
  /\ IF viewable THEN UNCHANGED <<phase, why>> ELSE End({s}, "forbidden")
  /\ UNCHANGED <<revoked, expired, viewable>>

\* Wrong: `checking` stays set when the lookup fails.
LookupFailsUnreset(s) ==
  /\ check[s] = "authorizing"
  /\ check' = [check EXCEPT ![s] = "failed"]
  /\ UNCHANGED <<revoked, expired, viewable, phase, why>>

\* The lookup fails: the stream carries on, and the next check tries again.
LookupFails(s) ==
  /\ check[s] = "authorizing"
  /\ check' = [check EXCEPT ![s] = "idle"]
  /\ UNCHANGED <<revoked, expired, viewable, phase, why>>
-----------------------------------------------------------------------------
GuardNext ==
  \/ \E s \in Streams : Connect(s) \/ Guard(s) \/ Stop(s)
  \/ \E s \in Streams : TokenExpires(s) \/ ExpiryTimer(s)
  \/ \E s \in Streams : \/ Recheck(s) \/ RecheckExpired(s)
                        \/ Verified(s) \/ Authorized(s) \/ LookupFails(s)
  \/ \E session \in RealmSessions : RevokeSession(session)
  \/ Withdraw

\* Timers fire, verification answers, and the config store does not fail at
\* every check for ever.  No client has to leave and no token to end.
GuardFairness ==
  \A s \in Streams : /\ WF_guardVars(ExpiryTimer(s))
                     /\ WF_guardVars(Recheck(s))
                     /\ WF_guardVars(Verified(s))
                     /\ SF_guardVars(Authorized(s))

GuardSpec == GuardInit /\ [][GuardNext]_guardVars /\ GuardFairness
-----------------------------------------------------------------------------
\* The browser acts on the reason it is given (renews, signs in, or stops and
\* says that access ended), so the reason is true whatever happened while a
\* check awaited its answers: a token that merely expired is never "revoked",
\* and a lookup that failed never "forbidden".
ReasonIsTrue ==
  \A s \in Streams : /\ why[s] = "expired" => s \in expired
                     /\ why[s] = "revoked" => SessionOf[s] \in revoked
                     /\ why[s] = "forbidden" => ~viewable

\* "Called at most once, after the guard has stopped": a stream that closed is
\* told nothing more, also by a check that was under way when it closed.
SaidOnce ==
  [][\A s \in Streams : phase[s] = "closed" => why'[s] = why[s]]_guardVars

\* A stream outlives neither its token nor its session, also when the session
\* was revoked before the guard could listen, while the route still awaited.
SessionEndsStream ==
  \A s \in Streams :
    (s \in Guarded /\ (s \in expired \/ SessionOf[s] \in revoked)) ~> s \notin Guarded

\* Nor its dashboard, although checks may fail and try again.
WithdrawalEndsStream ==
  \A s \in Streams : (s \in Guarded /\ ~viewable) ~> s \notin Guarded
=============================================================================
