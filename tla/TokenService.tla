---------------------------- MODULE TokenService ----------------------------
(***************************************************************************)
(* The OAuth2 token endpoint of authd and the rows it works on: authoriz-  *)
(* ation codes, sessions, and the refresh tokens each session has rotated  *)
(* away from.  Handlers run concurrently, one goroutine per HTTP request,  *)
(* and share nothing but the database, whose statements (and the one       *)
(* transaction, RotateRefreshToken) are atomic.  So a handler is a         *)
(* sequence of actions of one request, cut at every statement whose result *)
(* another request can influence and at every publish to the audit         *)
(* journal, which may fail on its own.                                     *)
(*                                                                         *)
(* Abstractions.  A token is a number, fresh when generated: pair p stands *)
(* for the access token and the refresh token generated together, which    *)
(* are always stored and replaced together.  A session is named by the     *)
(* pair it was created with.  A request that is refused without touching   *)
(* the database (unknown client, wrong PKCE verifier, expired code, ...)   *)
(* is a stuttering step and has no action.  Time is a counter; a deadline  *)
(* has passed when now > deadline, as time.Time.After says.                *)
(***************************************************************************)
EXTENDS Integers, FiniteSets

CONSTANTS
  Users,        \* accounts
  Clients,      \* registered relying parties
  Codes,        \* authorization codes that may be issued
  Requests,     \* slots for requests in flight
  None,         \* "no user", "no code", "no client"
  MaxPairs,     \* bound: token pairs generated
  MaxTime,      \* bound: ticks of the clock
  CodeTTL, AccessTTL, RefreshTTL, AbsoluteTTL

ASSUME BoundAssumption == MaxPairs \in Nat /\ MaxTime \in Nat
ASSUME TTLAssumption ==
  /\ {CodeTTL, AccessTTL, RefreshTTL, AbsoluteTTL} \subseteq Nat
  /\ AccessTTL <= AbsoluteTTL /\ RefreshTTL <= AbsoluteTTL
ASSUME NoneAssumption == None \notin Users \cup Clients \cup Codes

VARIABLES
  now,
  users,        \* rows of table users
  grants,       \* table grants, by code
  sessions,     \* table sessions, by session
  retired,      \* table retired_refresh_tokens: pair -> session, 0 = no row
  next,         \* the next pair the random generator returns
  req,          \* local state of each request
  journal,      \* events in the audit journal
  handed,       \* history: token halves that left in a 200 response
  minted,       \* history: <<code, session>> created by a code exchange
  rotated,      \* history: <<old pair, new pair>> of every rotation
  family        \* history: the session each pair was generated for

vars == <<now, users, grants, sessions, retired, next, req, journal,
          handed, minted, rotated, family>>

-----------------------------------------------------------------------------
(* Types and empty values.                                                 *)

Pairs == 1 .. MaxPairs
Times == Nat

Grant == [state : {"none", "open", "used", "gone"},
          user : Users \cup {None}, client : Clients \cup {None}, exp : Times]
NoGrant == [state |-> "none", user |-> None, client |-> None, exp |-> 0]
GoneGrant == [NoGrant EXCEPT !.state = "gone"]

Session == [live : BOOLEAN, user : Users \cup {None},
            client : Clients \cup {None}, tok : 0 .. MaxPairs,
            aexp : Times, rexp : Times, created : Times]
NoSession == [live |-> FALSE, user |-> None, client |-> None, tok |-> 0,
              aexp |-> 0, rexp |-> 0, created |-> 0]

Request == [pc : {"idle", "markUsed", "mint", "auditIssued", "rotate",
                  "auditRefreshed", "reuse", "revokeReuse", "auditReuse",
                  "auditRevoke", "deleteRevoked"},
            code : Codes \cup {None}, user : Users \cup {None},
            client : Clients \cup {None}, tok : 0 .. MaxPairs,
            new : 0 .. MaxPairs, sid : 0 .. MaxPairs, at : Times]
Idle == [pc |-> "idle", code |-> None, user |-> None, client |-> None,
         tok |-> 0, new |-> 0, sid |-> 0, at |-> 0]

Halves == {"access", "refresh"}
Events == {"token.issued", "token.refreshed", "token.refresh_reuse",
           "token.revoked"}

-----------------------------------------------------------------------------
(* The store.                                                              *)

\* GetSessionBy{Access,Refresh}TokenHash: both columns are UNIQUE.
SessionOf(p) == {s \in Pairs : sessions[s].live /\ sessions[s].tok = p}

\* GetSessionByRetiredRefreshTokenHash: the row must still have its session.
SessionRetiring(p) == {s \in Pairs : sessions[s].live /\ retired[p] = s}

\* INSERT INTO sessions; created_at is the database's clock.
CreateSession(u, cl) ==
  /\ sessions' = [sessions EXCEPT ![next] =
        [live |-> TRUE, user |-> u, client |-> cl, tok |-> next,
         aexp |-> now + AccessTTL, rexp |-> now + RefreshTTL, created |-> now]]
  /\ next' = next + 1
  /\ family' = [family EXCEPT ![next] = next]

\* DELETE FROM sessions, with the cascade to retired_refresh_tokens.
DeleteSessions(S) ==
  /\ sessions' = [s \in Pairs |-> IF s \in S THEN NoSession ELSE sessions[s]]
  /\ retired' = [p \in Pairs |-> IF retired[p] \in S THEN 0 ELSE retired[p]]

\* Wrong on purpose: the UPDATE of used_at without AND used_at IS NULL.
MarkGrantUsedUnguarded(c) ==
  /\ grants[c].state \in {"open", "used"}
  /\ grants' = [grants EXCEPT ![c].state = "used"]

\* UPDATE grants SET used_at = NOW() WHERE id = $1 AND used_at IS NULL.
MarkGrantUsed(c) ==
  /\ grants[c].state = "open"
  /\ grants' = [grants EXCEPT ![c].state = "used"]

\* Wrong on purpose: the deadline slides without the hard ceiling.
SlideUncapped(deadline, created) == deadline

\* min(deadline, createdAt + absoluteSessionTTL).
capByAbsolute(deadline, created) ==
  IF deadline > created + AbsoluteTTL THEN created + AbsoluteTTL ELSE deadline

\* Wrong on purpose: the deadlines slide, the tokens stay.
RotatedKeepingToken(s, at) ==
  [sessions[s] EXCEPT
     !.aexp = capByAbsolute(at + AccessTTL, sessions[s].created),
     !.rexp = capByAbsolute(at + RefreshTTL, sessions[s].created)]

\* The row a rotation leaves; at is the handler's own, earlier, reading of
\* the clock.
Rotated(s, at) ==
  [sessions[s] EXCEPT !.tok = next,
     !.aexp = capByAbsolute(at + AccessTTL, sessions[s].created),
     !.rexp = capByAbsolute(at + RefreshTTL, sessions[s].created)]

\* Wrong on purpose: the UPDATE guarded by the session id alone.
RotateRefreshTokenById(s, old, at) ==
  /\ sessions[s].live
  /\ sessions' = [sessions EXCEPT ![s] = Rotated(s, at)]
  /\ retired' = [retired EXCEPT ![old] = IF @ = 0 THEN s ELSE @]
  /\ next' = next + 1
  /\ family' = [family EXCEPT ![next] = s]

\* Wrong on purpose: the retired token is not remembered.
RotateRefreshTokenForgetful(s, old, at) ==
  /\ sessions[s].live /\ sessions[s].tok = old
  /\ sessions' = [sessions EXCEPT ![s] = Rotated(s, at)]
  /\ next' = next + 1
  /\ family' = [family EXCEPT ![next] = s]
  /\ UNCHANGED retired

\* Wrong on purpose: an upsert, which writes the row back if it is gone.
RotateRefreshTokenUpsert(s, old, at) ==
  /\ sessions[s].live => sessions[s].tok = old
  /\ sessions' = [sessions EXCEPT ![s] =
                    [Rotated(s, at) EXCEPT !.live = TRUE]]
  /\ retired' = [retired EXCEPT ![old] = IF @ = 0 THEN s ELSE @]
  /\ next' = next + 1
  /\ family' = [family EXCEPT ![next] = s]

\* One transaction: UPDATE ... WHERE id = $1 AND refresh_token_hash = $2,
\* then INSERT of the old token ON CONFLICT DO NOTHING.
RotateRefreshToken(s, old, at) ==
  /\ sessions[s].live /\ sessions[s].tok = old
  /\ sessions' = [sessions EXCEPT ![s] = Rotated(s, at)]
  /\ retired' = [retired EXCEPT ![old] = IF @ = 0 THEN s ELSE @]
  /\ next' = next + 1
  /\ family' = [family EXCEPT ![next] = s]

-----------------------------------------------------------------------------
(* The audit journal.                                                      *)

\* logAudit returned nil: the journal acknowledged the event.
Recorded(e) == journal' = journal \cup {e}

\* logAudit returned an error: the event was not stored, or it was and the
\* acknowledgement timed out.
Unrecorded(e) == journal' \in {journal, journal \cup {e}}

-----------------------------------------------------------------------------
(* Requests.                                                               *)

Goto(r, label) == req' = [req EXCEPT ![r].pc = label]
Finish(r) == req' = [req EXCEPT ![r] = Idle]

\* Keeps a pair in reserve for every request that will store one, so that
\* the bound never stops a request half way.
Room ==
  next + Cardinality({q \in Requests :
                        req[q].pc \in {"markUsed", "mint", "rotate"}}) <= MaxPairs

\* bearerAuth with sessionTokenLive: the access half of p opens the API.
Accepted(p) ==
  \E s \in SessionOf(p) :
    /\ now <= sessions[s].aexp
    /\ now <= sessions[s].created + AbsoluteTTL

-----------------------------------------------------------------------------
(* The authorization endpoint, after the user has authenticated.           *)

\* issueCodeAndRedirect.
IssueCode(c, u, cl) ==
  /\ grants[c].state = "none"
  /\ u \in users
  /\ grants' = [grants EXCEPT ![c] =
        [state |-> "open", user |-> u, client |-> cl, exp |-> now + CodeTTL]]
  /\ UNCHANGED <<now, users, sessions, retired, next, req, journal, handed,
                 minted, rotated, family>>

(* grant_type=authorization_code.                                          *)

\* handleTokenAuthCode up to MarkGrantUsed: the row is read and checked.
ExchangeBegin(r, c, cl) ==
  /\ req[r].pc = "idle" /\ Room
  /\ grants[c].state = "open"
  /\ grants[c].client = cl
  /\ now <= grants[c].exp
  /\ req' = [req EXCEPT ![r] = [Idle EXCEPT !.pc = "markUsed", !.code = c,
                                 !.user = grants[c].user, !.client = cl]]
  /\ UNCHANGED <<now, users, grants, sessions, retired, next, journal, handed,
                 minted, rotated, family>>

\* MarkGrantUsed, won; or lost to another redemption of the code (or to the
\* deletion of its user), answered invalid_grant.
ExchangeMark(r) ==
  /\ req[r].pc = "markUsed"
  /\ \/ MarkGrantUsed(req[r].code) /\ Goto(r, "mint")
     \/ /\ grants[req[r].code].state # "open"
        /\ Finish(r)
        /\ UNCHANGED grants
  /\ UNCHANGED <<now, users, sessions, retired, next, journal, handed, minted,
                 rotated, family>>

\* GetUserByID and mintTokenResponseWithMFAAt: the session row, or a 500
\* when the user is gone (sessions.user_id references users).
ExchangeMint(r) ==
  /\ req[r].pc = "mint"
  /\ \/ /\ req[r].user \in users
        /\ next <= MaxPairs
        /\ CreateSession(req[r].user, req[r].client)
        /\ minted' = minted \cup {<<req[r].code, next>>}
        /\ req' = [req EXCEPT ![r] = [Idle EXCEPT !.pc = "auditIssued",
                                       !.user = req[r].user, !.new = next]]
     \/ /\ req[r].user \notin users
        /\ Finish(r)
        /\ UNCHANGED <<sessions, next, family, minted>>
  /\ UNCHANGED <<now, users, grants, retired, journal, handed, rotated>>

(* grant_type=client_credentials.                                          *)

\* handleTokenClientCreds: a session that belongs to no user.  Its refresh
\* half is an internal placeholder that never leaves the server.
ClientCredentials(r, cl) ==
  /\ req[r].pc = "idle" /\ Room
  /\ next <= MaxPairs
  /\ CreateSession(None, cl)
  /\ req' = [req EXCEPT ![r] = [Idle EXCEPT !.pc = "auditIssued", !.new = next]]
  /\ UNCHANGED <<now, users, grants, retired, journal, handed, minted, rotated>>

\* Wrong on purpose: the response goes out whether or not the journal took
\* the event.
AuditIssuedLax(r) ==
  /\ req[r].pc = "auditIssued"
  /\ handed' = handed \cup ({req[r].new} \X
        (IF req[r].user = None THEN {"access"} ELSE Halves))
  /\ Unrecorded(<<"token.issued", req[r].new>>)
  /\ Finish(r)
  /\ UNCHANGED <<now, users, grants, sessions, retired, next, minted, rotated,
                 family>>

\* logAudit(ActionTokenIssued), then the 200 with the tokens; or auditFail's
\* 503, which leaves the session row behind.
AuditIssued(r) ==
  /\ req[r].pc = "auditIssued"
  /\ \/ /\ Recorded(<<"token.issued", req[r].new>>)
        /\ handed' = handed \cup ({req[r].new} \X
              (IF req[r].user = None THEN {"access"} ELSE Halves))
     \/ /\ Unrecorded(<<"token.issued", req[r].new>>)
        /\ UNCHANGED handed
  /\ Finish(r)
  /\ UNCHANGED <<now, users, grants, sessions, retired, next, minted, rotated,
                 family>>

(* grant_type=refresh_token.                                               *)

\* handleTokenRefresh up to RotateRefreshToken.  Whoever holds a copy of a
\* refresh token may present it, as often as they like, as any client they
\* can authenticate as.  A token that no live session carries goes to
\* revokeOnRefreshReuse.
RefreshBegin(r, p, cl) ==
  /\ req[r].pc = "idle" /\ Room
  /\ <<p, "refresh">> \in handed
  /\ \/ \E s \in SessionOf(p) :
          /\ sessions[s].client = cl
          /\ now <= sessions[s].rexp
          /\ now <= sessions[s].created + AbsoluteTTL
          /\ req' = [req EXCEPT ![r] = [Idle EXCEPT !.pc = "rotate",
                       !.client = cl, !.tok = p, !.sid = s, !.at = now]]
     \/ /\ SessionOf(p) = {}
        /\ req' = [req EXCEPT ![r] = [Idle EXCEPT !.pc = "reuse",
                     !.client = cl, !.tok = p]]
  /\ UNCHANGED <<now, users, grants, sessions, retired, next, journal, handed,
                 minted, rotated, family>>

\* RotateRefreshToken, won; or lost: the same token was presented twice, or
\* the session went away.
RefreshRotate(r) ==
  /\ req[r].pc = "rotate"
  /\ \/ /\ next <= MaxPairs
        /\ RotateRefreshToken(req[r].sid, req[r].tok, req[r].at)
        /\ rotated' = rotated \cup {<<req[r].tok, next>>}
        /\ req' = [req EXCEPT ![r].pc = "auditRefreshed", ![r].new = next]
     \/ /\ req[r].sid \notin SessionOf(req[r].tok)
        /\ Goto(r, "reuse")
        /\ UNCHANGED <<sessions, retired, next, rotated, family>>
  /\ UNCHANGED <<now, users, grants, journal, handed, minted>>

\* logAudit(ActionTokenRefreshed), then the 200 with the new pair; or the
\* 503: the rotation stays, and nobody receives the new pair.
AuditRefreshed(r) ==
  /\ req[r].pc = "auditRefreshed"
  /\ \/ /\ Recorded(<<"token.refreshed", req[r].new>>)
        /\ handed' = handed \cup ({req[r].new} \X Halves)
     \/ /\ Unrecorded(<<"token.refreshed", req[r].new>>)
        /\ UNCHANGED handed
  /\ Finish(r)
  /\ UNCHANGED <<now, users, grants, sessions, retired, next, minted, rotated,
                 family>>

\* Wrong on purpose: ErrNotFound from the lookup is not looked at.
ReuseLookupUnchecked(r) ==
  /\ req[r].pc = "reuse"
  /\ req' = [req EXCEPT ![r].pc = "revokeReuse", ![r].sid = retired[req[r].tok]]
  /\ UNCHANGED <<now, users, grants, sessions, retired, next, journal, handed,
                 minted, rotated, family>>

\* revokeOnRefreshReuse, the lookup: a token this client's session rotated
\* away from is a replay; another client's, or an unknown one, is not.
ReuseLookup(r) ==
  /\ req[r].pc = "reuse"
  /\ \/ \E s \in SessionRetiring(req[r].tok) :
          /\ sessions[s].client = req[r].client
          /\ req' = [req EXCEPT ![r].pc = "revokeReuse", ![r].sid = s]
     \/ /\ \A s \in SessionRetiring(req[r].tok) :
              sessions[s].client # req[r].client
        /\ Finish(r)
  /\ UNCHANGED <<now, users, grants, sessions, retired, next, journal, handed,
                 minted, rotated, family>>

\* Wrong on purpose: only the token is refused, the session lives on.
ReuseRevokeNothing(r) ==
  /\ req[r].pc = "revokeReuse"
  /\ Goto(r, "auditReuse")
  /\ UNCHANGED <<now, users, grants, sessions, retired, next, journal, handed,
                 minted, rotated, family>>

\* revokeOnRefreshReuse, DeleteSession.
ReuseRevoke(r) ==
  /\ req[r].pc = "revokeReuse"
  /\ DeleteSessions({req[r].sid})
  /\ Goto(r, "auditReuse")
  /\ UNCHANGED <<now, users, grants, next, journal, handed, minted, rotated,
                 family>>

\* revokeOnRefreshReuse, the audit event, after the fact: the answer is an
\* error either way.
ReuseAudit(r) ==
  /\ req[r].pc = "auditReuse"
  /\ \/ Recorded(<<"token.refresh_reuse", req[r].sid>>)
     \/ Unrecorded(<<"token.refresh_reuse", req[r].sid>>)
  /\ Finish(r)
  /\ UNCHANGED <<now, users, grants, sessions, retired, next, handed, minted,
                 rotated, family>>

(* POST /revoke.                                                           *)

\* handleRevoke: the session of either half of the pair.  An unknown token
\* is answered 200 and changes nothing.
RevokeBegin(r, p) ==
  /\ req[r].pc = "idle"
  /\ \E h \in Halves : <<p, h>> \in handed
  /\ \E s \in SessionOf(p) :
       req' = [req EXCEPT ![r] = [Idle EXCEPT !.pc = "auditRevoke",
                                      !.tok = p, !.sid = s]]
  /\ UNCHANGED <<now, users, grants, sessions, retired, next, journal, handed,
                 minted, rotated, family>>

\* logAudit(ActionTokenRevoked); without the acknowledgement nothing is
\* deleted.
RevokeAudit(r) ==
  /\ req[r].pc = "auditRevoke"
  /\ \/ /\ Recorded(<<"token.revoked", req[r].sid>>)
        /\ Goto(r, "deleteRevoked")
     \/ /\ Unrecorded(<<"token.revoked", req[r].sid>>)
        /\ Finish(r)
  /\ UNCHANGED <<now, users, grants, sessions, retired, next, handed, minted,
                 rotated, family>>

\* Wrong on purpose: the session is looked up again by the token that was
\* presented.
RevokeDeleteByToken(r) ==
  /\ req[r].pc = "deleteRevoked"
  /\ DeleteSessions(SessionOf(req[r].tok))
  /\ Finish(r)
  /\ UNCHANGED <<now, users, grants, next, journal, handed, minted, rotated,
                 family>>

\* handleRevoke, DeleteSession by id.
RevokeDelete(r) ==
  /\ req[r].pc = "deleteRevoked"
  /\ DeleteSessions({req[r].sid})
  /\ Finish(r)
  /\ UNCHANGED <<now, users, grants, next, journal, handed, minted, rotated,
                 family>>

-----------------------------------------------------------------------------
(* Everything else that touches these rows.                                *)

SessionsOfUser(u) == {s \in Pairs : sessions[s].live /\ sessions[s].user = u}

\* DeleteSessionsByUserID, the statement every sign-out everywhere ends in:
\* portal logout, password reset, compromised-account reset, user switch.
SignOut(u) ==
  /\ u \in users
  /\ DeleteSessions(SessionsOfUser(u))
  /\ UNCHANGED <<now, users, grants, next, req, journal, handed, minted,
                 rotated, family>>

\* DELETE FROM users, which cascades to grants and sessions.
DeleteUser(u) ==
  /\ u \in users
  /\ users' = users \ {u}
  /\ DeleteSessions(SessionsOfUser(u))
  /\ grants' = [c \in Codes |->
                  IF grants[c].state # "none" /\ grants[c].user = u
                  THEN GoneGrant ELSE grants[c]]
  /\ UNCHANGED <<now, next, req, journal, handed, minted, rotated, family>>

\* A request that dies between two steps: its context is cancelled because
\* the client hung up, a statement or an ID token signature fails, or the
\* process stops.
Abort(r) ==
  /\ req[r].pc # "idle"
  /\ Finish(r)
  /\ UNCHANGED <<now, users, grants, sessions, retired, next, journal, handed,
                 minted, rotated, family>>

Tick ==
  /\ now < MaxTime
  /\ now' = now + 1
  /\ UNCHANGED <<users, grants, sessions, retired, next, req, journal, handed,
                 minted, rotated, family>>

-----------------------------------------------------------------------------

Init ==
  /\ now = 0
  /\ users = Users
  /\ grants = [c \in Codes |-> NoGrant]
  /\ sessions = [s \in Pairs |-> NoSession]
  /\ retired = [p \in Pairs |-> 0]
  /\ next = 1
  /\ req = [r \in Requests |-> Idle]
  /\ journal = {} /\ handed = {} /\ minted = {} /\ rotated = {}
  /\ family = [p \in Pairs |-> 0]

\* The steps a request takes by itself once it has begun.
Proceed(r) ==
  \/ ExchangeMark(r) \/ ExchangeMint(r) \/ AuditIssued(r)
  \/ RefreshRotate(r) \/ AuditRefreshed(r)
  \/ ReuseLookup(r) \/ ReuseRevoke(r) \/ ReuseAudit(r)
  \/ RevokeAudit(r) \/ RevokeDelete(r)

\* What happens while no request dies, within one instant.
Run ==
  \/ \E c \in Codes, u \in Users, cl \in Clients : IssueCode(c, u, cl)
  \/ \E r \in Requests, c \in Codes, cl \in Clients : ExchangeBegin(r, c, cl)
  \/ \E r \in Requests, cl \in Clients : ClientCredentials(r, cl)
  \/ \E r \in Requests, p \in Pairs, cl \in Clients : RefreshBegin(r, p, cl)
  \/ \E r \in Requests, p \in Pairs : RevokeBegin(r, p)
  \/ \E r \in Requests : Proceed(r)
  \/ \E u \in Users : SignOut(u) \/ DeleteUser(u)

Next == Run \/ (\E r \in Requests : Abort(r)) \/ Tick

Spec == Init /\ [][Next]_vars

\* A goroutine keeps running until its handler returns.  Lifetimes are longer than
\* any handler.
FairSpec == Init /\ [][Run]_vars /\ \A r \in Requests : WF_vars(Proceed(r))

-----------------------------------------------------------------------------
(* Properties.                                                             *)

\* Every variable has its type; the columns of the tables, the labels of the
\* handlers and the kinds of journal events are the ones listed above.
TypeOK ==
  /\ now \in Times
  /\ users \subseteq Users
  /\ grants \in [Codes -> Grant]
  /\ sessions \in [Pairs -> Session]
  /\ retired \in [Pairs -> 0 .. MaxPairs]
  /\ next \in 1 .. MaxPairs + 1
  /\ req \in [Requests -> Request]
  /\ journal \subseteq Events \X Pairs
  /\ handed \subseteq Pairs \X Halves
  /\ minted \subseteq Codes \X Pairs
  /\ rotated \subseteq Pairs \X Pairs
  /\ family \in [Pairs -> 0 .. MaxPairs]

\* An authorization code is strictly single-use: however many redemptions
\* of it are in flight, and wherever they die, it opens at most one session
\* (handleTokenAuthCode, MarkGrantUsed).
CodeSingleUse == \A m, n \in minted : m[1] = n[1] => m = n

\* A refresh token buys at most one successor, however many requests present
\* it at once (handleTokenRefresh, RotateRefreshToken).
RefreshSingleUse == \A m, n \in rotated : m[1] = n[1] => m = n

\* Every refresh token ever generated for a session that is still alive is
\* either its current one or on record as retired by it, and never both: so
\* no replay within a live session goes unrecognised by
\* revokeOnRefreshReuse, and no legitimate holder is taken for a replayer.
LineageComplete ==
  \A p \in Pairs :
    family[p] # 0 /\ sessions[family[p]].live =>
      ((sessions[family[p]].tok = p) # (retired[p] = family[p]))

\* A refresh ends the access token it replaces at once and for good, though
\* that token had time left: no session ever answers to it again (bearerAuth,
\* GetSessionByAccessTokenHash).
ReplacedPairRefused == \A m \in rotated : ~Accepted(m[1])

\* No refresh, even one that computed its deadlines long before it stored
\* them, moves a deadline past the hard ceiling set when the user signed in
\* (capByAbsolute).
ExpiryWithinCap ==
  \A s \in Pairs :
    sessions[s].live =>
      /\ sessions[s].aexp <= sessions[s].created + AbsoluteTTL
      /\ sessions[s].rexp <= sessions[s].created + AbsoluteTTL

\* Fail closed: no token is in anybody's hands unless the journal holds the
\* event that records it (logAudit before writeJSON).
HandedWasJournalled ==
  \A h \in handed :
    <<"token.issued", h[1]>> \in journal \/ <<"token.refreshed", h[1]>> \in journal

\* A session that has been deleted - by a replay, a revocation, a sign-out or
\* the deletion of its user - never comes back, whatever requests that had
\* read it were still in flight (RotateRefreshToken is an UPDATE).
DeadStaysDead ==
  [][\A s \in Pairs :
       s < next /\ ~sessions[s].live => ~sessions'[s].live]_vars

\* Two refreshes in flight with the same token count as a replay: unless one
\* of them dies on the way, the session is gone in the end, and with it the
\* tokens the winner received (docs/upgrade-checklist.md).
ConcurrentRefreshEndsSession ==
  \A q, r \in Requests, s \in Pairs :
    (/\ q # r
     /\ req[q].pc = "rotate" /\ req[r].pc = "rotate"
     /\ req[q].tok = req[r].tok /\ req[q].sid = s /\ req[r].sid = s)
    ~> ~sessions[s].live

\* Unless its request dies first, a revocation the journal acknowledged ends
\* the session: handleRevoke deletes by session id, so a refresh that rotates
\* the pair in between does not save it.
RevocationCompletes ==
  \A r \in Requests, s \in Pairs :
    req[r].pc = "deleteRevoked" /\ req[r].sid = s ~> ~sessions[s].live

\* README: when the journal is unreachable the handler answers 503 and "the
\* originating action is refused".  So a refresh token may count as replayed
\* only when its successor was handed out, or is about to be.
RefusalKeepsToken ==
  \A r \in Requests :
    req[r].pc = "revokeReuse" =>
      \E n \in Pairs :
        /\ <<req[r].tok, n>> \in rotated
        /\ \/ <<n, "refresh">> \in handed
           \/ \E q \in Requests : req[q].pc = "auditRefreshed" /\ req[q].new = n

=============================================================================
