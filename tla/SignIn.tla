------------------------------- MODULE SignIn -------------------------------
(***************************************************************************)
(* Signing in: the password forms of /authorize and of the portal, the     *)
(* second factor, the forced password rotation, silent single sign-on and  *)
(* step-up; and what changes an account meanwhile, by the user's own pages *)
(* or by an administrator.                                                 *)
(*                                                                         *)
(* A handler is a sequence of actions of one request, cut at each write to *)
(* the database and at each read that decides a later write.  Between two  *)
(* steps of a sign-in the browser holds a sealed cookie and the server     *)
(* nothing: clearing it asks the browser to forget it, so a cookie works   *)
(* again until it expires.                                                 *)
(*                                                                         *)
(* Abstractions.  Passwords are numbered per account, each change takes    *)
(* the next number.  An account has a security key or not.  A second       *)
(* factor that is right is a step, one that is wrong is none; the WebAuthn *)
(* challenge drawn before it changes nothing here.  A publish to the audit *)
(* journal that fails ends the request, like any other failure (Abort).    *)
(* Clients are public or confidential, which is all the policy asks.       *)
(***************************************************************************)
EXTENDS Integers, FiniteSets

CONSTANTS
  Users, Requests,
  Subjects,     \* bound: the accounts that have factors and that change
  None,
  MaxTime,      \* bound: ticks of the clock
  MaxRequests,  \* bound: requests begun
  MaxSessions,  \* bound: portal sessions created
  MaxFailures,  \* AccountLockoutRule.MaxFailures
  LockTTL,      \* AccountLockoutRule.LockDuration
  CookieTTL,    \* portalLoginCookieTTL, authStateTTL
  IdleTTL,      \* portalCookieTTL
  AbsoluteTTL   \* absoluteSessionTTL

ASSUME SignInAssumption ==
  /\ {MaxTime, MaxRequests, MaxSessions, MaxFailures,
      LockTTL, CookieTTL, IdleTTL, AbsoluteTTL} \subseteq Nat
  /\ IdleTTL <= AbsoluteTTL
  /\ Subjects \subseteq Users
  /\ None \notin Users

VARIABLES
  now,
  acct,      \* tables users, totp_credentials, webauthn_credentials
  known,     \* <<user, password>> somebody can type
  cookies,   \* portal_login and auth_state cookies given to browsers
  sess,      \* portal sessions in table sessions
  handed,    \* sessions whose auth_portal cookie a browser has
  req,       \* local state of each request
  temps,     \* history: <<user, password>> generated by an admin reset
  begun      \* the number of requests begun

vars == <<now, acct, known, cookies, sess, handed, req, temps, begun>>

-----------------------------------------------------------------------------

Flows == {"portal", "public", "confidential"}
Methods == {"totp", "key"}

Account == [pw : Nat, active : BOOLEAN, must : BOOLEAN, mfa : BOOLEAN,
            totp : {"none", "pending", "on"}, key : BOOLEAN,
            failed : Nat, locked : Nat]

\* How a request came to know its user: the password that was seen (or set),
\* whether a second factor followed, and the page it came from.
Evidence == [pw : Nat, second : BOOLEAN,
             via : {"none", "password", "rotation", "sso"} \cup Methods]
NoEvidence == [pw |-> 0, second |-> FALSE, via |-> "none"]

Cookie == [user : Users, flow : Flows, pw : Nat, exp : Nat]

\* second is history: a second factor was passed for this session.
Portal == [state : {"none", "live", "gone"}, user : Users \cup {None},
           mfa : BOOLEAN, created : Nat, exp : Nat, second : BOOLEAN]
NoPortal == [state |-> "none", user |-> None, mfa |-> FALSE, created |-> 0,
             exp |-> 0, second |-> FALSE]
GonePortal == [NoPortal EXCEPT !.state = "gone"]

SelfService == {"selfPassword", "profile", "enrollDelete", "confirm",
                "totpDelete", "keyAdd", "keyDelete", "stepTotp", "stepKey",
                "logout"}
Administration == {"reset", "compromised", "clearMFA", "deactivate", "activate"}

Labels == {"idle", "bumpFailed", "clearFailed", "rotate", "reload", "verify",
           "create", "hand", "switch", "seat", "code", "enrollStore", "flagOn",
           "flagOff", "keyRecheck", "stepMark", "resetFlag", "wipeTotp",
           "wipeKey", "wipeFlag", "dropSessions"} \cup SelfService \cup Administration

\* mfa, must, active, key and count are what the request has read of the
\* account; job is the administrator's request.
Local == [pc : Labels, user : Users \cup {None}, flow : Flows, ev : Evidence,
          mfa : BOOLEAN, must : BOOLEAN, active : BOOLEAN, key : BOOLEAN,
          count : Nat, sid : 0 .. MaxSessions,
          job : Administration \cup {"none"}]
Idle == [pc |-> "idle", user |-> None, flow |-> "portal", ev |-> NoEvidence,
         mfa |-> FALSE, must |-> FALSE, active |-> FALSE, key |-> FALSE,
         count |-> 0, sid |-> 0, job |-> "none"]

At(r, label) == req[r].pc = label
Goto(r, label) == req' = [req EXCEPT ![r].pc = label]
Finish(r) == req' = [req EXCEPT ![r] = Idle]
Begin(r, local) ==
  /\ At(r, "idle")
  /\ begun < MaxRequests /\ begun' = begun + 1
  /\ req' = [req EXCEPT ![r] = local]

A(r) == acct[req[r].user]

\* One UPDATE of the account of request r, after which it goes on at label.
Write(r, row, label) ==
  /\ acct' = [acct EXCEPT ![req[r].user] = row]
  /\ IF label = "idle" THEN Finish(r) ELSE Goto(r, label)

\* The same where the code only logs an error, or drops it, and goes on.
TryWrite(r, row, label) == \E result \in {row, A(r)} : Write(r, result, label)

capByAbsolute(deadline, created) ==
  IF deadline <= created + AbsoluteTTL THEN deadline ELSE created + AbsoluteTTL

\* Whether password p of u is a temporary one that nobody has replaced yet.
OnTemp(u, p) == <<u, p>> \in temps /\ acct[u].pw = p

-----------------------------------------------------------------------------
(* The policy engine, where it reads state.                                *)

\* AccountLockoutRule.
Locked(u) == now < acct[u].locked

\* MFARequiredRule: with a password, enrolment is enough, the flow goes
\* through the second factor; without one, the session must have it.
PolicyAllows(u, flow, mfa) == ~Locked(u) /\ (flow = "confidential" => mfa)

-----------------------------------------------------------------------------
(* The password step: handleAuthorizePost, handlePortalLoginPOST.          *)

\* The account is read and the password does not match.
WrongPassword(r, u) ==
  /\ u \in Subjects
  /\ Begin(r, [Idle EXCEPT !.pc = "bumpFailed", !.user = u,
                           !.count = acct[u].failed + 1])
  /\ UNCHANGED <<now, acct, known, cookies, sess, handed, temps>>

\* incrementFailedAttempts writes a count taken from the earlier read, and
\* with it NULL or a new deadline.
BumpFailed(r) ==
  /\ At(r, "bumpFailed")
  /\ Write(r, [A(r) EXCEPT !.failed = req[r].count,
                !.locked = IF req[r].count >= MaxFailures THEN now + LockTTL ELSE 0],
           "idle")
  /\ UNCHANGED <<now, known, cookies, sess, handed, temps, begun>>

\* The account is read, the password matches, the policy has no objection.
PasswordCheck(r, u, flow) ==
  /\ <<u, acct[u].pw>> \in known
  /\ acct[u].active
  /\ PolicyAllows(u, flow, acct[u].mfa)
  /\ Begin(r, [Idle EXCEPT !.pc = "clearFailed", !.user = u, !.flow = flow,
                 !.mfa = acct[u].mfa, !.must = acct[u].must,
                 !.ev = [pw |-> acct[u].pw, second |-> FALSE, via |-> "password"]])
  /\ UNCHANGED <<now, acct, known, cookies, sess, handed, temps>>

\* setPortalLoginCookie, setAuthStateCookie.
GiveCookie(r) ==
  cookies' = cookies \cup {[user |-> req[r].user, flow |-> req[r].flow,
                            pw |-> req[r].ev.pw, exp |-> now + CookieTTL]}

\* What still stands between the password and a session.  /authorize does not
\* look at must_change_password.
NeedsMore(r) == req[r].mfa \/ (req[r].flow = "portal" /\ req[r].must)

\* UpdateUserFailedAttempts(0, NULL), whose error is dropped, then a cookie for
\* the next page, or straight on to the session.
ClearFailed(r) ==
  /\ At(r, "clearFailed")
  /\ LET row == [A(r) EXCEPT !.failed = 0, !.locked = 0]
     IN \/ NeedsMore(r) /\ GiveCookie(r) /\ TryWrite(r, row, "idle")
        \/ /\ ~NeedsMore(r)
           /\ TryWrite(r, row, IF req[r].flow = "portal" THEN "create" ELSE "switch")
           /\ UNCHANGED cookies
  /\ UNCHANGED <<now, known, sess, handed, temps, begun>>

-----------------------------------------------------------------------------
(* The pages after it, entered with a cookie.                              *)

Valid(c) == now <= c.exp

\* handlePortalChangePassword up to the write: the account must be flagged,
\* and the policy rules see it.
ChangePassword(r, c) ==
  /\ Valid(c) /\ c.flow = "portal"
  /\ acct[c.user].must /\ ~Locked(c.user)
  /\ Begin(r, [Idle EXCEPT !.pc = "rotate", !.user = c.user,
                 !.ev = [pw |-> c.pw, second |-> FALSE, via |-> "rotation"]])
  /\ UNCHANGED <<now, acct, known, cookies, sess, handed, temps>>

\* UpdateUserPassword: a new password, and the flag comes down with it.
UpdateUserPassword(u) ==
  [acct[u] EXCEPT !.pw = @ + 1, !.must = FALSE]

Rotate(r) ==
  /\ At(r, "rotate")
  /\ acct' = [acct EXCEPT ![req[r].user] = UpdateUserPassword(req[r].user)]
  /\ known' = known \cup {<<req[r].user, A(r).pw + 1>>}
  /\ req' = [req EXCEPT ![r].pc = "reload", ![r].ev.pw = A(r).pw + 1]
  /\ UNCHANGED <<now, cookies, sess, handed, temps, begun>>

\* Wrong on purpose: on to the session whatever mfa_enabled says.
ReloadSkipsMFA(r) ==
  /\ At(r, "reload")
  /\ req' = [req EXCEPT ![r].pc = "create", ![r].mfa = A(r).mfa]
  /\ UNCHANGED <<now, acct, known, cookies, sess, handed, temps, begun>>

\* The account is read again: a second factor, with the cookie the browser
\* still has, or the session.
Reload(r) ==
  /\ At(r, "reload")
  /\ \/ A(r).mfa /\ Finish(r)
     \/ ~A(r).mfa /\ Goto(r, "create")
  /\ UNCHANGED <<now, acct, known, cookies, sess, handed, temps, begun>>

\* handlePortalLoginMFA, handlePortalLoginMFAWebAuthnFinish, handleMFATOTPPost,
\* handleSSOWebAuthnFinish: the account is read; only the portal's TOTP page
\* looks at must_change_password.
SecondFactor(r, c, method) ==
  /\ Valid(c)
  /\ c.flow = "portal" /\ method = "totp" => ~acct[c.user].must
  /\ Begin(r, [Idle EXCEPT !.pc = "verify", !.user = c.user, !.flow = c.flow,
                 !.mfa = acct[c.user].mfa,
                 !.ev = [pw |-> c.pw, second |-> FALSE, via |-> method]])
  /\ UNCHANGED <<now, acct, known, cookies, sess, handed, temps>>

\* VerifyTOTP with a right code, FinishLogin with a right assertion.
Proves(u, method) == IF method = "totp" THEN acct[u].totp = "on" ELSE acct[u].key

Verify(r) ==
  /\ At(r, "verify")
  /\ Proves(req[r].user, req[r].ev.via)
  /\ req' = [req EXCEPT ![r].ev.second = TRUE,
               ![r].pc = IF req[r].flow = "portal" THEN "create" ELSE "switch"]
  /\ UNCHANGED <<now, acct, known, cookies, sess, handed, temps, begun>>

-----------------------------------------------------------------------------
(* Portal sessions and authorization codes.                                *)

\* The row createPortalSession and ensurePortalCookie insert.
CreateSession(r) ==
  \E s \in 1 .. MaxSessions :
    /\ sess[s].state = "none"
    /\ \A t \in 1 .. s - 1 : sess[t].state # "none"
    /\ sess' = [sess EXCEPT ![s] =
         [state |-> "live", user |-> req[r].user, mfa |-> req[r].mfa,
          created |-> now, exp |-> now + IdleTTL, second |-> req[r].ev.second]]

NewSession == {s \in 1 .. MaxSessions : sess[s].state # sess'[s].state}

\* Wrong on purpose: the failed INSERT goes unnoticed.
CreateLost(r) ==
  /\ At(r, "create")
  /\ \E s \in 1 .. MaxSessions : req' = [req EXCEPT ![r].pc = "hand", ![r].sid = s]
  /\ UNCHANGED <<now, acct, known, cookies, sess, handed, temps, begun>>

\* createPortalSession; the cookie follows once the login is journalled.
Create(r) ==
  /\ At(r, "create")
  /\ CreateSession(r)
  /\ \E s \in NewSession : req' = [req EXCEPT ![r].pc = "hand", ![r].sid = s]
  /\ UNCHANGED <<now, acct, known, cookies, handed, temps, begun>>

Hand(r) ==
  /\ At(r, "hand")
  /\ handed' = handed \cup {req[r].sid}
  /\ Finish(r)
  /\ UNCHANGED <<now, acct, known, cookies, sess, temps, begun>>

\* readAuthPortalSession.
Accepted(s) ==
  /\ s \in handed
  /\ sess[s].state = "live"
  /\ now <= sess[s].exp
  /\ now <= sess[s].created + AbsoluteTTL

\* DeleteSessionsByUserID.
DropSessions(u) ==
  sess' = [s \in 1 .. MaxSessions |->
             IF sess[s].user = u THEN GonePortal ELSE sess[s]]

\* ensurePortalCookie, first half: the browser may bring the cookie of another
\* user, whose sessions all end.
SwitchUser(r) ==
  /\ At(r, "switch")
  /\ \/ \E s \in 1 .. MaxSessions :
          /\ Accepted(s) /\ sess[s].user # req[r].user
          /\ DropSessions(sess[s].user)
     \/ UNCHANGED sess
  /\ Goto(r, "seat")
  /\ UNCHANGED <<now, acct, known, cookies, handed, temps, begun>>

\* Second half: a session, its cookie, as far as they succeed; the code comes
\* anyway.
Seat(r) ==
  /\ At(r, "seat")
  /\ \/ CreateSession(r) /\ handed' = handed \cup NewSession
     \/ CreateSession(r) /\ UNCHANGED handed
     \/ UNCHANGED <<sess, handed>>
  /\ Goto(r, "code")
  /\ UNCHANGED <<now, acct, known, cookies, temps, begun>>

\* Wrong on purpose: the deadline slides without capByAbsolute.
SlideUncapped(s) == sess' = [sess EXCEPT ![s].exp = now + IdleTTL]

\* slidePortalSession, whose errors are only logged.
Slide(s) ==
  \/ sess' = [sess EXCEPT ![s].exp = capByAbsolute(now + IdleTTL, sess[s].created)]
  \/ UNCHANGED sess

\* Wrong on purpose: silent SSO without the policy engine.
SilentSSOUnchecked(r, s, flow) ==
  /\ Accepted(s)
  /\ flow # "portal"
  /\ acct[sess[s].user].active
  /\ acct[sess[s].user].mfa => sess[s].mfa
  /\ Slide(s)
  /\ Begin(r, [Idle EXCEPT !.pc = "code", !.user = sess[s].user, !.flow = flow,
                 !.mfa = sess[s].mfa,
                 !.ev = [pw |-> 0, second |-> sess[s].second, via |-> "sso"]])
  /\ UNCHANGED <<now, acct, known, cookies, handed, temps>>

\* trySilentSSO: a portal session answers for its user.
SilentSSO(r, s, flow) ==
  /\ Accepted(s)
  /\ flow # "portal"
  /\ acct[sess[s].user].active
  /\ acct[sess[s].user].mfa => sess[s].mfa
  /\ PolicyAllows(sess[s].user, flow, sess[s].mfa)
  /\ Slide(s)
  /\ Begin(r, [Idle EXCEPT !.pc = "code", !.user = sess[s].user, !.flow = flow,
                 !.mfa = sess[s].mfa,
                 !.ev = [pw |-> 0, second |-> sess[s].second, via |-> "sso"]])
  /\ UNCHANGED <<now, acct, known, cookies, handed, temps>>

\* The mfaVerifiedAt of the code: set after a second factor, or carried over
\* from the session by silent SSO.
CodeMFA(r) == IF req[r].ev.via = "sso" THEN req[r].mfa ELSE req[r].ev.via \in Methods

\* issueCodeAndRedirect, and the end of handleSSOWebAuthnFinish.  The row and
\* its life are TokenService's.
IssueCode(r) ==
  /\ At(r, "code")
  /\ Finish(r)
  /\ UNCHANGED <<now, acct, known, cookies, sess, handed, temps, begun>>

-----------------------------------------------------------------------------
(* The user's own pages, behind portalAuth.                                *)

\* portalAuth reads the session and the account and slides the deadline.
\* Changing the password asks for the current one.
Visit(r, s, page) ==
  /\ Accepted(s) /\ sess[s].user \in Subjects
  /\ page = "selfPassword" => <<sess[s].user, acct[sess[s].user].pw>> \in known
  /\ Slide(s)
  /\ Begin(r, [Idle EXCEPT !.pc = page, !.user = sess[s].user, !.sid = s,
                 !.active = acct[sess[s].user].active])
  /\ UNCHANGED <<now, acct, known, cookies, handed, temps>>

\* handlePortalAccountPassword.
SelfPassword(r) ==
  /\ At(r, "selfPassword")
  /\ Write(r, UpdateUserPassword(req[r].user), "idle")
  /\ known' = known \cup {<<req[r].user, A(r).pw + 1>>}
  /\ UNCHANGED <<now, cookies, sess, handed, temps, begun>>

\* The pages that write one column of the account at a time.
\* handlePortalAccountProfile writes back the value of active it read.
SelfStep(r) ==
  /\ \/ At(r, "profile") /\ Write(r, [A(r) EXCEPT !.active = req[r].active], "idle")
     \* EnrollTOTP: the old credential goes, enabled or not, then the new one
     \/ At(r, "enrollDelete") /\ TryWrite(r, [A(r) EXCEPT !.totp = "none"], "enrollStore")
     \/ At(r, "enrollStore") /\ A(r).totp = "none"
        /\ Write(r, [A(r) EXCEPT !.totp = "pending"], "idle")
     \* ConfirmTOTP with a right code, then mfa_enabled
     \/ At(r, "confirm") /\ A(r).totp # "none"
        /\ Write(r, [A(r) EXCEPT !.totp = "on"], "flagOn")
     \* FinishRegistration, then mfa_enabled
     \/ At(r, "keyAdd") /\ Write(r, [A(r) EXCEPT !.key = TRUE], "flagOn")
     \/ At(r, "flagOn") /\ Write(r, [A(r) EXCEPT !.mfa = TRUE], "idle")
     \/ At(r, "totpDelete") /\ Write(r, [A(r) EXCEPT !.totp = "none"], "flagOff")
     \/ At(r, "flagOff") /\ Write(r, [A(r) EXCEPT !.mfa = FALSE], "idle")
     \* the key goes; mfa_enabled too if no factor is left, confirmed or not,
     \* where one that cannot be read counts as none
     \/ At(r, "keyDelete") /\ A(r).key
        /\ Write(r, [A(r) EXCEPT !.key = FALSE], "keyRecheck")
     \/ At(r, "keyRecheck") /\ Write(r, A(r), "flagOff")
     \/ At(r, "keyRecheck") /\ (A(r).key \/ A(r).totp # "none") /\ Write(r, A(r), "idle")
  /\ UNCHANGED <<now, known, cookies, sess, handed, temps, begun>>

\* handlePortalStepUp, handlePortalStepUpWebAuthnFinish.
StepVerify(r) ==
  /\ \/ At(r, "stepTotp") /\ Proves(req[r].user, "totp")
     \/ At(r, "stepKey") /\ Proves(req[r].user, "key")
  /\ Goto(r, "stepMark")
  /\ UNCHANGED <<now, acct, known, cookies, sess, handed, temps, begun>>

\* markStepUpSuccess: MarkSessionMFA, which may find the row gone.
StepMark(r) ==
  /\ At(r, "stepMark")
  /\ sess' = IF sess[req[r].sid].state = "live"
             THEN [sess EXCEPT ![req[r].sid].mfa = TRUE, ![req[r].sid].second = TRUE]
             ELSE sess
  /\ Finish(r)
  /\ UNCHANGED <<now, acct, known, cookies, handed, temps, begun>>

\* handlePortalLogout.
Logout(r) ==
  /\ At(r, "logout")
  /\ DropSessions(req[r].user)
  /\ Finish(r)
  /\ UNCHANGED <<now, acct, known, cookies, handed, temps, begun>>

-----------------------------------------------------------------------------
(* The administrator's pages.  A compromised reset lists the keys when it  *)
(* begins, handlePortalAdminUserClearMFA once the TOTP credential is gone. *)

Administer(r, u, job) ==
  /\ u \in Subjects
  /\ Begin(r, [Idle EXCEPT !.user = u, !.job = job, !.key = acct[u].key,
                 !.pc = IF job = "clearMFA" THEN "wipeTotp" ELSE job])
  /\ UNCHANGED <<now, acct, known, cookies, sess, handed, temps>>

\* handlePortalAdminUserEdit, the column active.
SetActive(r) ==
  /\ At(r, "deactivate") \/ At(r, "activate")
  /\ Write(r, [A(r) EXCEPT !.active = At(r, "activate")], "idle")
  /\ UNCHANGED <<now, known, cookies, sess, handed, temps, begun>>

\* handlePortalAdminUserResetPassword, handlePortalAdminUserCompromisedReset:
\* a generated password, which lowers must_change_password ...
ResetPassword(r) ==
  /\ At(r, "reset") \/ At(r, "compromised")
  /\ acct' = [acct EXCEPT ![req[r].user] = UpdateUserPassword(req[r].user)]
  /\ req' = [req EXCEPT ![r].pc = "resetFlag", ![r].ev.pw = A(r).pw + 1]
  /\ temps' = temps \cup {<<req[r].user, A(r).pw + 1>>}
  /\ UNCHANGED <<now, known, cookies, sess, handed, begun>>

\* Wrong on purpose: the temporary password is shown without the flag.
ResetFlagForgotten(r) ==
  /\ At(r, "resetFlag")
  /\ Write(r, A(r), IF req[r].job = "reset" THEN "dropSessions" ELSE "wipeTotp")
  /\ UNCHANGED <<now, known, cookies, sess, handed, temps, begun>>

\* ... SetUserMustChangePassword raises it again ...
ResetFlag(r) ==
  /\ At(r, "resetFlag")
  /\ Write(r, [A(r) EXCEPT !.must = TRUE],
           IF req[r].job = "reset" THEN "dropSessions" ELSE "wipeTotp")
  /\ UNCHANGED <<now, known, cookies, sess, handed, temps, begun>>

\* ... the compromised account, like handlePortalAdminUserClearMFA, loses its
\* factors and then mfa_enabled, each as far as the statement succeeds ...
Wipe(r) ==
  /\ \/ /\ At(r, "wipeTotp")
        /\ \/ acct' = [acct EXCEPT ![req[r].user].totp = "none"]
           \/ UNCHANGED acct
        /\ req' = [req EXCEPT ![r].pc = "wipeKey",
                     ![r].key = IF req[r].job = "clearMFA" THEN A(r).key ELSE @]
     \/ At(r, "wipeKey")
        /\ TryWrite(r, [A(r) EXCEPT !.key = @ /\ ~req[r].key], "wipeFlag")
     \/ At(r, "wipeFlag")
        /\ TryWrite(r, [A(r) EXCEPT !.mfa = FALSE],
                    IF req[r].job = "clearMFA" THEN "idle" ELSE "dropSessions")
  /\ UNCHANGED <<now, known, cookies, sess, handed, temps, begun>>

\* ... and the sessions go, or an error is dropped.  Only now is the temporary
\* password shown.
ResetSessions(r) ==
  /\ At(r, "dropSessions")
  /\ DropSessions(req[r].user) \/ UNCHANGED sess
  /\ known' = known \cup {<<req[r].user, req[r].ev.pw>>}
  /\ Finish(r)
  /\ UNCHANGED <<now, acct, cookies, handed, temps, begun>>

-----------------------------------------------------------------------------

\* A failed statement, an unreachable journal, a cancelled context, a panic.
Abort(r) ==
  /\ req[r].pc # "idle"
  /\ Finish(r)
  /\ UNCHANGED <<now, acct, known, cookies, sess, handed, temps, begun>>

Tick ==
  /\ now < MaxTime
  /\ now' = now + 1
  /\ UNCHANGED <<acct, known, cookies, sess, handed, req, temps, begun>>

\* Accounts with a first password and any set of confirmed factors.
Init ==
  /\ now = 0
  /\ acct \in [Users -> {a \in [pw : {1}, active : {TRUE}, must : {FALSE},
                                mfa : BOOLEAN, totp : {"none", "on"}, key : BOOLEAN,
                                failed : {0}, locked : {0}] :
                           a.mfa = (a.totp = "on" \/ a.key)}]
  /\ \A u \in Users \ Subjects : ~acct[u].mfa
  /\ known = Users \X {1}
  /\ cookies = {} /\ handed = {} /\ temps = {} /\ begun = 0
  /\ sess = [s \in 1 .. MaxSessions |-> NoPortal]
  /\ req = [r \in Requests |-> Idle]

Next ==
  \/ \E r \in Requests, u \in Users :
       \/ WrongPassword(r, u)
       \/ \E flow \in Flows : PasswordCheck(r, u, flow)
       \/ \E job \in Administration : Administer(r, u, job)
  \/ \E r \in Requests, c \in cookies :
       ChangePassword(r, c) \/ \E m \in Methods : SecondFactor(r, c, m)
  \/ \E r \in Requests, s \in 1 .. MaxSessions :
       \/ \E flow \in Flows : SilentSSO(r, s, flow)
       \/ \E page \in SelfService : Visit(r, s, page)
  \/ \E r \in Requests :
       \/ BumpFailed(r) \/ ClearFailed(r) \/ Rotate(r) \/ Reload(r) \/ Verify(r)
       \/ Create(r) \/ Hand(r) \/ SwitchUser(r) \/ Seat(r) \/ IssueCode(r)
       \/ SelfPassword(r) \/ SelfStep(r) \/ StepVerify(r) \/ StepMark(r) \/ Logout(r)
       \/ SetActive(r) \/ ResetPassword(r) \/ ResetFlag(r) \/ Wipe(r)
       \/ ResetSessions(r) \/ Abort(r)
  \/ Tick

Spec == Init /\ [][Next]_vars

-----------------------------------------------------------------------------
(* Properties.                                                             *)

\* Every variable has its type, and every cookie names a session that was
\* stored (createPortalSession).
SignInTypeOK ==
  /\ now \in Nat /\ begun \in Nat
  /\ acct \in [Users -> Account]
  /\ known \subseteq Users \X Nat /\ temps \subseteq Users \X Nat
  /\ cookies \subseteq Cookie
  /\ sess \in [1 .. MaxSessions -> Portal]
  /\ handed \subseteq {s \in 1 .. MaxSessions : sess[s].state # "none"}
  /\ req \in [Requests -> Local]

\* createPortalSession and ensurePortalCookie copy the account's mfa_enabled
\* into the session, trySilentSSO the session's mark into the code: however
\* the flag, the factors and the pages race, a mark stands for a second factor
\* that this sign-in, or a step-up in its session, really passed.
SecondFactorReal ==
  /\ \A s \in 1 .. MaxSessions : sess[s].mfa => sess[s].second
  /\ \A r \in Requests : At(r, "code") /\ CodeMFA(r) => req[r].ev.second

\* MFARequiredRule asks for enrolment at the password and for a marked session
\* at silent SSO: no code for a confidential client without a second factor.
ConfidentialNeedsFactor ==
  \A r \in Requests :
    At(r, "code") /\ req[r].flow = "confidential" => CodeMFA(r) /\ req[r].ev.second

\* handlePortalLoginPOST, handlePortalLoginMFA: no session opens from the
\* portal's password form or TOTP page on a temporary password before it is
\* replaced, though a reset lowers the flag and raises it in two statements.
PortalGateHolds ==
  \A r \in Requests :
    At(r, "create") /\ req[r].ev.via # "key" => ~OnTemp(req[r].user, req[r].ev.pw)

\* README: "sessions hard-cap at 4 hours from created_at", however often
\* slidePortalSession moves the deadline.
PortalWithinCap ==
  \A s \in 1 .. MaxSessions :
    sess[s].state = "live" => sess[s].exp <= sess[s].created + AbsoluteTTL

\* handlePortalAdminUserResetPassword: "on next login the user is forced
\* through /portal/login/change-password to set a real password before the
\* session is issued".
TempPasswordOpensNothing ==
  \A r \in Requests :
    req[r].pc \in {"create", "seat", "code"} => ~OnTemp(req[r].user, req[r].ev.pw)

=============================================================================
