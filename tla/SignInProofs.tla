---------------------------- MODULE SignInProofs ----------------------------
(***************************************************************************)
(* Theorems about SignIn, for any set of accounts, any number of requests  *)
(* in flight, any bounds and any lifetimes with IdleTTL <= AbsoluteTTL.    *)
(* Cookies are replayed, factors and flags come and go between any two     *)
(* steps, and requests die anywhere: the argument is that what a request   *)
(* carries from one page to the next (LocalOK) already implies what the    *)
(* session or the code it ends in will say.                                *)
(***************************************************************************)
EXTENDS SignIn, TLAPS

-----------------------------------------------------------------------------
(* The inductive invariant.                                                *)

\* A live session has a user and a deadline within the cap, and its mark has a
\* second factor behind it.
PortalOK(p) ==
  /\ p.state = "live" => p.user \in Users
  /\ p.mfa => p.second
  /\ p.state = "live" => p.exp <= p.created + AbsoluteTTL

\* What holds of a request at each point of its sign-in.
LocalOK(l) ==
  /\ l.pc # "idle" => l.user \in Users
  /\ l.pc = "hand" => l.sid # 0
  /\ l.pc = "clearFailed" =>
       l.ev.via = "password" /\ (l.flow = "confidential" => l.mfa)
  /\ l.pc \in {"rotate", "reload"} => ~l.mfa
  /\ l.pc = "verify" => l.ev.via \in Methods
  /\ l.pc \in {"create", "switch", "seat", "code"} => (l.mfa => l.ev.second)
  /\ l.pc \in {"switch", "seat", "code"} =>
       /\ l.ev.via \in Methods => l.ev.second
       /\ l.flow = "confidential" =>
            l.ev.second /\ (l.ev.via \in Methods \/ (l.ev.via = "sso" /\ l.mfa))

AcctPart ==
  /\ now \in Nat /\ begun \in Nat
  /\ acct \in [Users -> Account]
  /\ known \subseteq Users \X Nat /\ temps \subseteq Users \X Nat
  /\ cookies \subseteq Cookie

SessPart ==
  /\ sess \in [1 .. MaxSessions -> Portal]
  /\ \A s \in 1 .. MaxSessions : PortalOK(sess[s])

ReqPart ==
  /\ req \in [Requests -> Local]
  /\ \A r \in Requests : LocalOK(req[r])

\* A session a cookie names, or is about to, has been stored.
HandPart ==
  /\ handed \subseteq {s \in 1 .. MaxSessions : sess[s].state # "none"}
  /\ \A r \in Requests : req[r].pc = "hand" => sess[req[r].sid].state # "none"

SInv == AcctPart /\ SessPart /\ ReqPart /\ HandPart

\* No step takes a session back to "none".
Stored == \A s \in 1 .. MaxSessions : sess[s].state # "none" => sess'[s].state # "none"

-----------------------------------------------------------------------------
(* A step of one request.                                                  *)

\* The invariant of the requests needs checking only for the one that moved.
LEMMA OneMoves ==
  ASSUME ReqPart, NEW r \in Requests, NEW l \in Local, LocalOK(l),
         req' = [req EXCEPT ![r] = l]
  PROVE  ReqPart'
  BY DEF ReqPart, LocalOK

\* A request that has ended owes nothing.
LEMMA IdleOK == Idle \in Local /\ LocalOK(Idle)
<1>1. NoEvidence \in Evidence
  BY DEF NoEvidence, Evidence
<1>2. 0 \in 0 .. MaxSessions
  BY SignInAssumption
<1>3. Idle \in Local
  BY <1>1, <1>2 DEF Idle, Local, Labels, Flows
<1>4. LocalOK(Idle)
  BY DEF Idle, LocalOK
<1> QED BY <1>3, <1>4

\* Request r moves, others do not, and r is not about to hand out a cookie.
Moves(r) ==
  /\ ReqPart'
  /\ \A q \in Requests \ {r} : req'[q] = req[q]
  /\ req'[r].pc # "hand"

\* The labels at which LocalOK asks for no more than a user.
Quiet == Labels \ {"hand", "clearFailed", "rotate", "reload", "verify", "create",
                   "switch", "seat", "code"}

\* Finish, the end of every handler, keeps the invariant of the requests.
LEMMA FinishMoves ==
  ASSUME ReqPart, NEW r \in Requests, Finish(r)
  PROVE  Moves(r)
  BY OneMoves, IdleOK DEF Finish, ReqPart, Idle, Moves

\* Begin, the start of every handler, does, when what it starts with is right.
LEMMA BeginMoves ==
  ASSUME ReqPart, begun \in Nat, NEW r \in Requests, NEW l \in Local, LocalOK(l),
         l.pc # "hand", Begin(r, l)
  PROVE  Moves(r) /\ begun' \in Nat
  BY OneMoves DEF Begin, ReqPart, Moves

\* So does Goto, to a label whose demands the request meets.
LEMMA GotoMoves ==
  ASSUME ReqPart, NEW r \in Requests, NEW label \in Labels \ {"hand"}, Goto(r, label),
         LocalOK([req[r] EXCEPT !.pc = label])
  PROVE  Moves(r)
<1> DEFINE l == [req[r] EXCEPT !.pc = label]
<1>1. l \in Local /\ l.pc = label
  BY DEF ReqPart, Local
<1>2. req' = [req EXCEPT ![r] = l]
  BY DEF Goto, ReqPart
<1> HIDE DEF l
<1>3. LocalOK(l)
  BY DEF l
<1> QED BY <1>1, <1>2, <1>3, OneMoves DEF Moves, ReqPart

\* A quiet label demands nothing new.
LEMMA QuietMoves ==
  ASSUME ReqPart, NEW r \in Requests, req[r].pc # "idle", NEW label \in Quiet,
         Goto(r, label)
  PROVE  Moves(r)
<1>1. LocalOK([req[r] EXCEPT !.pc = label])
  BY DEF ReqPart, LocalOK, Local, Quiet
<1> QED BY <1>1, GotoMoves DEF Quiet

\* Write changes one account and moves on to a quiet label.
LEMMA WriteMoves ==
  ASSUME SInv, NEW r \in Requests, req[r].pc # "idle", NEW row \in Account,
         NEW label \in Quiet, Write(r, row, label)
  PROVE  Moves(r) /\ acct' \in [Users -> Account]
<1>1. Moves(r)
  BY FinishMoves, QuietMoves DEF SInv, Write
<1>2. req[r].user \in Users
  BY DEF SInv, ReqPart, LocalOK
<1> QED BY <1>1, <1>2 DEF SInv, AcctPart, Write

\* So does TryWrite.
LEMMA TryWriteMoves ==
  ASSUME SInv, NEW r \in Requests, req[r].pc # "idle", NEW row \in Account,
         NEW label \in Quiet, TryWrite(r, row, label)
  PROVE  Moves(r) /\ acct' \in [Users -> Account]
<1>1. A(r) \in Account
  BY DEF SInv, ReqPart, LocalOK, AcctPart, A
<1> QED BY <1>1, WriteMoves DEF TryWrite

\* The parts put together, when no cookie is handed out.
LEMMA Combine ==
  ASSUME SInv, NEW r \in Requests, Moves(r), AcctPart', SessPart', Stored,
         handed' = handed
  PROVE  SInv'
<1>1. HandPart'
  BY DEF SInv, ReqPart, LocalOK, HandPart, Stored, Local, Moves
<1> QED BY <1>1 DEF SInv, Moves

\* The same for a step that leaves the sessions alone.
LEMMA CombineQuiet ==
  ASSUME SInv, NEW r \in Requests, Moves(r), AcctPart', UNCHANGED <<sess, handed>>
  PROVE  SInv'
<1>1. SessPart' /\ Stored
  BY DEF SInv, SessPart, Stored, PortalOK
<1> QED BY <1>1, Combine

-----------------------------------------------------------------------------
(* What happens to the sessions.                                           *)

\* DeleteSessionsByUserID keeps the invariant of the sessions.
LEMMA DropKeeps ==
  ASSUME SessPart, NEW u, DropSessions(u)
  PROVE  SessPart' /\ Stored
<1>1. GonePortal \in Portal /\ PortalOK(GonePortal) /\ GonePortal.state = "gone"
  BY DEF GonePortal, NoPortal, Portal, PortalOK
<1> QED BY <1>1 DEF SessPart, Stored, DropSessions, PortalOK

\* slidePortalSession keeps the deadline within the cap.
LEMMA SlideKeeps ==
  ASSUME SessPart, now \in Nat, NEW s \in 1 .. MaxSessions, Slide(s)
  PROVE  SessPart' /\ Stored
<1>0. CASE UNCHANGED sess
  BY <1>0 DEF SessPart, Stored, PortalOK
<1> SUFFICES ASSUME sess' # sess PROVE SessPart' /\ Stored
  BY <1>0
<1> DEFINE d == capByAbsolute(now + IdleTTL, sess[s].created)
           p == [sess[s] EXCEPT !.exp = d]
<1>1. sess[s] \in Portal /\ sess[s].created \in Nat
  BY DEF SessPart, Portal
<1>2. d \in Nat /\ d <= sess[s].created + AbsoluteTTL
  BY <1>1, SignInAssumption DEF capByAbsolute
<1>3. sess' = [sess EXCEPT ![s] = p]
  BY DEF Slide, SessPart
<1> HIDE DEF d
<1>4. p \in Portal /\ PortalOK(p) /\ p.state = sess[s].state
  BY <1>1, <1>2 DEF Portal, PortalOK, SessPart
<1> QED BY <1>3, <1>4 DEF SessPart, Stored, PortalOK

\* A new session is within the cap, and marked only if its request passed a
\* second factor.
LEMMA CreateKeeps ==
  ASSUME SInv, NEW r \in Requests, req[r].pc \in {"create", "seat"}, CreateSession(r)
  PROVE  SessPart' /\ Stored
<1>1. PICK s \in 1 .. MaxSessions :
        sess' = [sess EXCEPT ![s] =
          [state |-> "live", user |-> req[r].user, mfa |-> req[r].mfa,
           created |-> now, exp |-> now + IdleTTL, second |-> req[r].ev.second]]
  BY DEF CreateSession
<1> DEFINE p == [state |-> "live", user |-> req[r].user, mfa |-> req[r].mfa,
                 created |-> now, exp |-> now + IdleTTL, second |-> req[r].ev.second]
<1>2. req[r].ev.second \in BOOLEAN /\ req[r].mfa \in BOOLEAN /\ req[r].user \in Users
  BY DEF SInv, ReqPart, Local, LocalOK, Evidence
<1>3. now \in Nat /\ now + IdleTTL \in Nat /\ now + IdleTTL <= now + AbsoluteTTL
  BY SignInAssumption DEF SInv, AcctPart
<1>4. req[r].mfa => req[r].ev.second
  BY DEF SInv, ReqPart, LocalOK
<1>5. p \in Portal /\ PortalOK(p) /\ p.state = "live"
  BY <1>2, <1>3, <1>4 DEF Portal, PortalOK
<1> HIDE DEF p
<1>6. sess' = [sess EXCEPT ![s] = p]
  BY <1>1 DEF p
<1> QED BY <1>5, <1>6 DEF SInv, SessPart, Stored, PortalOK

-----------------------------------------------------------------------------
(* The steps that begin a request.                                         *)

\* handleAuthorizePost, handlePortalLoginPOST.
LEMMA PasswordStep ==
  ASSUME SInv, NEW r \in Requests, NEW u \in Users, NEW flow \in Flows,
         WrongPassword(r, u) \/ PasswordCheck(r, u, flow)
  PROVE  SInv'
<1>1. acct[u] \in Account /\ acct[u].failed + 1 \in Nat /\ begun \in Nat /\ ReqPart
  BY DEF SInv, AcctPart, Account
<1>2. CASE WrongPassword(r, u)
  <2> DEFINE l == [Idle EXCEPT !.pc = "bumpFailed", !.user = u,
                               !.count = acct[u].failed + 1]
  <2>1. l \in Local /\ LocalOK(l) /\ l.pc # "hand"
    BY <1>1, IdleOK DEF Local, Idle, LocalOK, Labels
  <2>2. Begin(r, l)
    BY <1>2 DEF WrongPassword
  <2> HIDE DEF l
  <2>3. Moves(r) /\ begun' \in Nat
    BY <1>1, <2>1, <2>2, BeginMoves
  <2>4. AcctPart'
    BY <1>2, <2>3 DEF WrongPassword, SInv, AcctPart
  <2> QED BY <1>2, <2>3, <2>4, CombineQuiet DEF WrongPassword
<1>3. CASE PasswordCheck(r, u, flow)
  <2> DEFINE e == [pw |-> acct[u].pw, second |-> FALSE, via |-> "password"]
             l == [Idle EXCEPT !.pc = "clearFailed", !.user = u, !.flow = flow,
                     !.mfa = acct[u].mfa, !.must = acct[u].must, !.ev = e]
  <2>1. e \in Evidence /\ e.via = "password"
    BY <1>1 DEF Evidence, Account
  <2>2. acct[u].mfa \in BOOLEAN /\ acct[u].must \in BOOLEAN
    BY <1>1 DEF Account
  <2>3. flow = "confidential" => acct[u].mfa
    BY <1>3 DEF PasswordCheck, PolicyAllows
  <2>4. Begin(r, l)
    BY <1>3 DEF PasswordCheck
  <2> HIDE DEF e
  <2>5. l \in Local /\ LocalOK(l) /\ l.pc # "hand"
    BY <2>1, <2>2, <2>3, IdleOK, ZenonT(60) DEF Local, Idle, LocalOK, Labels
  <2> HIDE DEF l
  <2>6. Moves(r) /\ begun' \in Nat
    BY <1>1, <2>4, <2>5, BeginMoves
  <2>7. AcctPart'
    BY <1>3, <2>6 DEF PasswordCheck, SInv, AcctPart
  <2> QED BY <1>3, <2>6, <2>7, CombineQuiet DEF PasswordCheck
<1> QED BY <1>2, <1>3

\* handlePortalChangePassword and the four pages for a second factor: the
\* cookie says who, whatever has become of the account.
LEMMA CookieStep ==
  ASSUME SInv, NEW r \in Requests, NEW c \in cookies, NEW m \in Methods,
         ChangePassword(r, c) \/ SecondFactor(r, c, m)
  PROVE  SInv'
<1>1. /\ c.user \in Users /\ c.flow \in Flows /\ c.pw \in Nat
      /\ acct[c.user].mfa \in BOOLEAN /\ begun \in Nat /\ ReqPart
  BY DEF SInv, AcctPart, Cookie, Account
<1>2. CASE ChangePassword(r, c)
  <2> DEFINE e == [pw |-> c.pw, second |-> FALSE, via |-> "rotation"]
             l == [Idle EXCEPT !.pc = "rotate", !.user = c.user, !.ev = e]
  <2>1. e \in Evidence /\ e.via = "rotation"
    BY <1>1 DEF Evidence
  <2>2. Begin(r, l)
    BY <1>2 DEF ChangePassword
  <2> HIDE DEF e
  <2>3. l \in Local /\ LocalOK(l) /\ l.pc # "hand"
    BY <1>1, <2>1, IdleOK DEF Local, Idle, LocalOK, Labels
  <2> HIDE DEF l
  <2>4. Moves(r) /\ begun' \in Nat
    BY <1>1, <2>2, <2>3, BeginMoves
  <2>5. AcctPart'
    BY <1>2, <2>4 DEF ChangePassword, SInv, AcctPart
  <2> QED BY <1>2, <2>4, <2>5, CombineQuiet DEF ChangePassword
<1>3. CASE SecondFactor(r, c, m)
  <2> DEFINE e == [pw |-> c.pw, second |-> FALSE, via |-> m]
             l == [Idle EXCEPT !.pc = "verify", !.user = c.user, !.flow = c.flow,
                     !.mfa = acct[c.user].mfa, !.ev = e]
  <2>1. e \in Evidence /\ e.via \in Methods
    BY <1>1 DEF Evidence
  <2>2. Begin(r, l)
    BY <1>3 DEF SecondFactor
  <2> HIDE DEF e
  <2>3. l \in Local /\ LocalOK(l) /\ l.pc # "hand"
    BY <1>1, <2>1, IdleOK DEF Local, Idle, LocalOK, Labels
  <2> HIDE DEF l
  <2>4. Moves(r) /\ begun' \in Nat
    BY <1>1, <2>2, <2>3, BeginMoves
  <2>5. AcctPart'
    BY <1>3, <2>4 DEF SecondFactor, SInv, AcctPart
  <2> QED BY <1>3, <2>4, <2>5, CombineQuiet DEF SecondFactor
<1> QED BY <1>2, <1>3

\* trySilentSSO and portalAuth: a session answers for its user.
LEMMA SessionStep ==
  ASSUME SInv, NEW r \in Requests, NEW s \in 1 .. MaxSessions, NEW flow \in Flows,
         NEW page \in SelfService,
         SilentSSO(r, s, flow) \/ Visit(r, s, page)
  PROVE  SInv'
<1> DEFINE u == sess[s].user
<1>1. begun \in Nat /\ now \in Nat /\ ReqPart /\ SessPart
  BY DEF SInv, AcctPart
<1>2. sess[s].mfa \in BOOLEAN /\ sess[s].second \in BOOLEAN
  BY DEF SInv, SessPart, Portal
<1>3. sess[s].mfa => sess[s].second
  BY DEF SInv, SessPart, PortalOK
<1>4. CASE SilentSSO(r, s, flow)
  <2> DEFINE e == [pw |-> 0, second |-> sess[s].second, via |-> "sso"]
             l == [Idle EXCEPT !.pc = "code", !.user = u, !.flow = flow,
                     !.mfa = sess[s].mfa, !.ev = e]
  <2>1. e \in Evidence /\ e.via = "sso" /\ e.second = sess[s].second
    BY <1>2 DEF Evidence
  <2>2. flow = "confidential" => sess[s].mfa
    BY <1>4 DEF SilentSSO, PolicyAllows
  <2>3. Begin(r, l)
    BY <1>4 DEF SilentSSO
  <2>u. u \in Users
    BY <1>4 DEF SilentSSO, Accepted, SInv, SessPart, PortalOK
  <2> HIDE DEF e
  <2>4. l \in Local /\ LocalOK(l) /\ l.pc # "hand"
    BY <1>2, <1>3, <2>1, <2>2, <2>u, IdleOK, ZenonT(60) DEF Local, Idle, LocalOK, Labels, Methods
  <2> HIDE DEF l
  <2>5. Moves(r) /\ begun' \in Nat
    BY <1>1, <2>3, <2>4, BeginMoves
  <2>6. AcctPart'
    BY <1>4, <2>5 DEF SilentSSO, SInv, AcctPart
  <2>7. SessPart' /\ Stored
    BY <1>1, <1>4, SlideKeeps DEF SilentSSO
  <2> QED BY <1>4, <2>5, <2>6, <2>7, Combine DEF SilentSSO
<1>5. CASE Visit(r, s, page)
  <2> DEFINE l == [Idle EXCEPT !.pc = page, !.user = u, !.sid = s,
                     !.active = acct[u].active]
  <2>1. u \in Users /\ acct[u].active \in BOOLEAN
    BY <1>5, SignInAssumption DEF Visit, SInv, AcctPart, Account
  <2>2. Begin(r, l)
    BY <1>5 DEF Visit
  <2>3. s \in 0 .. MaxSessions
    BY SignInAssumption
  <2>p. page \in Quiet
    BY DEF Quiet, Labels, SelfService
  <2>4. l \in Local /\ LocalOK(l) /\ l.pc # "hand"
    BY <2>1, <2>3, <2>p, IdleOK DEF Local, Idle, LocalOK, Quiet
  <2> HIDE DEF l
  <2>5. Moves(r) /\ begun' \in Nat
    BY <1>1, <2>2, <2>4, BeginMoves
  <2>6. AcctPart'
    BY <1>5, <2>5 DEF Visit, SInv, AcctPart
  <2>7. SessPart' /\ Stored
    BY <1>1, <1>5, SlideKeeps DEF Visit
  <2> QED BY <1>5, <2>5, <2>6, <2>7, Combine DEF Visit
<1> QED BY <1>4, <1>5

\* The administrator's pages, which any account may be named in.
LEMMA AdministerStep ==
  ASSUME SInv, NEW r \in Requests, NEW u \in Users, NEW job \in Administration,
         Administer(r, u, job)
  PROVE  SInv'
<1> DEFINE pc == IF job = "clearMFA" THEN "wipeTotp" ELSE job
           l == [Idle EXCEPT !.user = u, !.job = job, !.key = acct[u].key, !.pc = pc]
<1>1. begun \in Nat /\ ReqPart /\ acct[u].key \in BOOLEAN
  BY DEF SInv, AcctPart, Account
<1>2. Begin(r, l)
  BY DEF Administer
<1>3. pc \in Quiet
  BY DEF Quiet, Labels, Administration
<1> HIDE DEF pc
<1>4. l \in Local /\ LocalOK(l) /\ l.pc # "hand"
  BY <1>1, <1>3, IdleOK DEF Local, Idle, LocalOK, Quiet
<1> HIDE DEF l
<1>5. Moves(r) /\ begun' \in Nat
  BY <1>1, <1>2, <1>4, BeginMoves
<1>6. AcctPart'
  BY <1>5 DEF Administer, SInv, AcctPart
<1> QED BY <1>5, <1>6, CombineQuiet DEF Administer

-----------------------------------------------------------------------------
(* The steps within a request.                                             *)

\* The sign-in pages: what follows the password, the new password and the
\* second factor.
LEMMA PageStep ==
  ASSUME SInv, NEW r \in Requests,
         ClearFailed(r) \/ Rotate(r) \/ Reload(r) \/ Verify(r)
  PROVE  SInv'
<1>1. req[r] \in Local /\ LocalOK(req[r]) /\ ReqPart
  BY DEF SInv, ReqPart
<1>2. req[r].ev \in Evidence /\ req[r].flow \in Flows /\ req[r].mfa \in BOOLEAN
  BY <1>1 DEF Local
<1>3. req[r].pc # "idle" /\ req[r].user \in Users
  BY <1>1 DEF ClearFailed, Rotate, Reload, Verify, At, LocalOK
<1>4. A(r) \in Account /\ A(r).pw + 1 \in Nat
  BY <1>3 DEF SInv, AcctPart, A, Account
<1>5. CASE ClearFailed(r)
  <2> DEFINE row == [A(r) EXCEPT !.failed = 0, !.locked = 0]
             next == IF req[r].flow = "portal" THEN "create" ELSE "switch"
  <2>1. row \in Account
    BY <1>4 DEF Account
  <2>2. cookies' \subseteq Cookie
    <3>1. now + CookieTTL \in Nat /\ req[r].ev.pw \in Nat
      BY <1>2, SignInAssumption DEF SInv, AcctPart, Evidence
    <3>2. [user |-> req[r].user, flow |-> req[r].flow, pw |-> req[r].ev.pw,
           exp |-> now + CookieTTL] \in Cookie
      BY <1>2, <1>3, <3>1 DEF Cookie
    <3> QED BY <1>5, <3>2 DEF ClearFailed, GiveCookie, SInv, AcctPart
  <2>3. CASE NeedsMore(r) /\ GiveCookie(r) /\ TryWrite(r, row, "idle")
    <3>1. "idle" \in Quiet
      BY DEF Quiet, Labels
    <3> HIDE DEF row
    <3> QED BY <1>3, <2>1, <2>3, <3>1, <2>2, <1>5, TryWriteMoves, CombineQuiet
            DEF ClearFailed, SInv, AcctPart
  <2>4. CASE ~NeedsMore(r) /\ TryWrite(r, row, next)
    <3>1. ~req[r].mfa /\ req[r].flow # "confidential" /\ req[r].ev.via = "password"
      BY <1>1, <1>5, <2>4 DEF NeedsMore, ClearFailed, At, LocalOK
    <3>0. PICK result \in Account : Write(r, result, next)
      BY <1>4, <2>1, <2>4 DEF TryWrite
    <3>2. Goto(r, next)
      BY <3>0 DEF Write
    <3>3. LocalOK([req[r] EXCEPT !.pc = next])
      BY <1>1, <1>3, <3>1 DEF LocalOK, Local, Methods
    <3>4. next \in Labels \ {"hand"}
      BY DEF Labels
    <3> HIDE DEF next
    <3>5. Moves(r)
      BY <1>1, <3>2, <3>3, <3>4, GotoMoves
    <3>6. acct' \in [Users -> Account]
      BY <1>3, <3>0 DEF Write, SInv, AcctPart
    <3> QED BY <1>5, <2>2, <3>5, <3>6, CombineQuiet DEF ClearFailed, SInv, AcctPart
  <2> QED BY <1>5, <2>3, <2>4 DEF ClearFailed
<1>6. CASE Rotate(r)
  <2> DEFINE l == [req[r] EXCEPT !.pc = "reload", !.ev = [@ EXCEPT !.pw = A(r).pw + 1]]
  <2>1. req' = [req EXCEPT ![r] = l]
    BY <1>6, <1>1 DEF Rotate, SInv, ReqPart, Local
  <2>2. [req[r].ev EXCEPT !.pw = A(r).pw + 1] \in Evidence
    BY <1>2, <1>4 DEF Evidence
  <2>3. l \in Local /\ LocalOK(l) /\ l.pc # "hand"
    BY <1>1, <1>3, <1>6, <2>2 DEF Local, LocalOK, Labels, Rotate, At
  <2> HIDE DEF l
  <2>4. Moves(r)
    BY <1>1, <2>1, <2>3, OneMoves DEF Moves, ReqPart
  <2>5. UpdateUserPassword(req[r].user) \in Account
    BY <1>4 DEF UpdateUserPassword, A, Account
  <2>6. AcctPart'
    BY <1>3, <1>4, <1>6, <2>5 DEF Rotate, SInv, AcctPart
  <2> QED BY <1>6, <2>4, <2>6, CombineQuiet DEF Rotate
<1>7. CASE Reload(r)
  <2>1. Moves(r)
    <3>1. CASE Finish(r)
      BY <1>1, <3>1, FinishMoves
    <3>2. CASE Goto(r, "create")
      <4>1. LocalOK([req[r] EXCEPT !.pc = "create"])
        BY <1>1, <1>3, <1>7 DEF Reload, At, LocalOK, Local
      <4>2. "create" \in Labels \ {"hand"}
        BY DEF Labels
      <4> QED BY <1>1, <3>2, <4>1, <4>2, GotoMoves
    <3> QED BY <1>7, <3>1, <3>2 DEF Reload
  <2> QED BY <1>7, <2>1, CombineQuiet DEF Reload, SInv, AcctPart
<1>8. CASE Verify(r)
  <2> DEFINE next == IF req[r].flow = "portal" THEN "create" ELSE "switch"
             l == [req[r] EXCEPT !.pc = next, !.ev = [@ EXCEPT !.second = TRUE]]
  <2>1. req' = [req EXCEPT ![r] = l]
    BY <1>8, <1>1 DEF Verify, SInv, ReqPart, Local
  <2>2. [req[r].ev EXCEPT !.second = TRUE] \in Evidence
    BY <1>2 DEF Evidence
  <2>3. req[r].ev.via \in Methods
    BY <1>1, <1>8 DEF Verify, At, LocalOK
  <2>4. l \in Local /\ l.pc # "hand"
    BY <1>1, <1>3, <2>2 DEF Local, Labels
  <2>5. LocalOK(l)
    BY <1>1, <1>2, <1>3, <2>3 DEF LocalOK, Local, Evidence
  <2> HIDE DEF l
  <2>6. Moves(r)
    BY <1>1, <2>1, <2>4, <2>5, OneMoves DEF Moves, ReqPart
  <2> QED BY <1>8, <2>6, CombineQuiet DEF Verify, SInv, AcctPart
<1> QED BY <1>5, <1>6, <1>7, <1>8

\* createPortalSession and ensurePortalCookie, and the code that follows.
LEMMA PortalStep ==
  ASSUME SInv, NEW r \in Requests,
         Create(r) \/ Hand(r) \/ SwitchUser(r) \/ Seat(r) \/ IssueCode(r)
  PROVE  SInv'
<1>1. req[r] \in Local /\ LocalOK(req[r]) /\ ReqPart /\ SessPart
  BY DEF SInv, ReqPart
<1>2. AcctPart'
  BY DEF Create, Hand, SwitchUser, Seat, IssueCode, SInv, AcctPart
<1>3. CASE Create(r)
  <2>1. SessPart' /\ Stored
    BY <1>3, CreateKeeps DEF Create, At
  <2>2. PICK s \in NewSession : req' = [req EXCEPT ![r].pc = "hand", ![r].sid = s]
    BY <1>3 DEF Create
  <2>3. s \in 1 .. MaxSessions /\ sess'[s].state # "none"
    BY <2>1, <2>2 DEF NewSession, Stored
  <2> DEFINE l == [req[r] EXCEPT !.pc = "hand", !.sid = s]
  <2>4. req' = [req EXCEPT ![r] = l]
    BY <1>1, <2>2 DEF ReqPart, Local
  <2>5. s \in 0 .. MaxSessions /\ s # 0
    BY <2>3, SignInAssumption
  <2>6. l \in Local /\ LocalOK(l) /\ l.sid = s
    BY <1>1, <1>3, <2>5 DEF Local, LocalOK, Labels, Create, At
  <2> HIDE DEF l
  <2>7. ReqPart'
    BY <1>1, <2>4, <2>6, OneMoves
  <2>8. HandPart'
    <3>1. handed' \subseteq {t \in 1 .. MaxSessions : sess'[t].state # "none"}
      BY <1>3, <2>1 DEF Create, SInv, HandPart, Stored
    <3>2. ASSUME NEW q \in Requests, req'[q].pc = "hand"
          PROVE  sess'[req'[q].sid].state # "none"
      <4>1. CASE q = r
        BY <1>1, <2>3, <2>4, <2>6, <4>1 DEF ReqPart
      <4>2. CASE q # r
        <5>1. req'[q] = req[q] /\ req[q].sid \in 1 .. MaxSessions
          BY <1>1, <2>4, <3>2, <4>2, SignInAssumption DEF ReqPart, LocalOK, Local
        <5> QED BY <2>1, <3>2, <5>1 DEF SInv, HandPart, Stored
      <4> QED BY <4>1, <4>2
    <3> QED BY <3>1, <3>2 DEF HandPart
  <2> QED BY <1>2, <2>1, <2>7, <2>8 DEF SInv
<1>4. CASE Hand(r)
  <2>1. Moves(r)
    BY <1>1, <1>4, FinishMoves DEF Hand
  <2>2. SessPart'
    BY <1>4 DEF Hand, SInv, SessPart, PortalOK
  <2>3. req[r].sid \in 1 .. MaxSessions
    BY <1>1, <1>4, SignInAssumption DEF Hand, At, LocalOK, Local
  <2>4. HandPart'
    BY <1>4, <2>1, <2>3 DEF Hand, At, Moves, SInv, HandPart
  <2> QED BY <1>2, <2>1, <2>2, <2>4 DEF SInv, Moves
<1>5. CASE SwitchUser(r)
  <2>1. LocalOK([req[r] EXCEPT !.pc = "seat"])
    BY <1>1, <1>5 DEF SwitchUser, At, LocalOK, Local
  <2>2. "seat" \in Labels \ {"hand"}
    BY DEF Labels
  <2>3. Moves(r)
    BY <1>1, <1>5, <2>1, <2>2, GotoMoves DEF SwitchUser
  <2>4. CASE UNCHANGED sess
    BY <1>2, <1>5, <2>3, <2>4, CombineQuiet DEF SwitchUser
  <2>5. CASE \E s \in 1 .. MaxSessions : DropSessions(sess[s].user)
    <3>1. SessPart' /\ Stored
      BY <1>1, <2>5, DropKeeps
    <3> QED BY <1>2, <1>5, <2>3, <3>1, Combine DEF SwitchUser
  <2> QED BY <1>5, <2>4, <2>5 DEF SwitchUser
<1>6. CASE Seat(r)
  <2>1. LocalOK([req[r] EXCEPT !.pc = "code"])
    BY <1>1, <1>6 DEF Seat, At, LocalOK, Local
  <2>2. "code" \in Labels \ {"hand"}
    BY DEF Labels
  <2>3. Moves(r)
    BY <1>1, <1>6, <2>1, <2>2, GotoMoves DEF Seat
  <2>4. CASE UNCHANGED <<sess, handed>>
    BY <1>2, <2>3, <2>4, CombineQuiet
  <2>5. CASE CreateSession(r) /\ handed' \in {handed, handed \cup NewSession}
    <3>1. SessPart' /\ Stored
      BY <1>6, <2>5, CreateKeeps DEF Seat, At
    <3>2. \A s \in NewSession : s \in 1 .. MaxSessions /\ sess'[s].state # "none"
      BY <3>1 DEF NewSession, Stored
    <3>3. handed' \subseteq {t \in 1 .. MaxSessions : sess'[t].state # "none"}
      BY <2>5, <3>1, <3>2 DEF SInv, HandPart, Stored
    <3>4. ASSUME NEW q \in Requests, req'[q].pc = "hand"
          PROVE  sess'[req'[q].sid].state # "none"
      <4>1. req'[q] = req[q]
        BY <2>3, <3>4 DEF Moves
      <4>2. req[q].sid \in 1 .. MaxSessions
        BY <3>4, <4>1, <1>1, SignInAssumption DEF ReqPart, LocalOK, Local
      <4> QED BY <3>1, <3>4, <4>1, <4>2 DEF SInv, HandPart, Stored
    <3>5. HandPart'
      BY <3>3, <3>4 DEF HandPart
    <3> QED BY <1>2, <2>3, <3>1, <3>5 DEF SInv, Moves
  <2> QED BY <1>6, <2>4, <2>5 DEF Seat
<1>7. CASE IssueCode(r)
  <2>1. Moves(r)
    BY <1>1, <1>7, FinishMoves DEF IssueCode
  <2> QED BY <1>2, <1>7, <2>1, CombineQuiet DEF IssueCode
<1> QED BY <1>3, <1>4, <1>5, <1>6, <1>7

\* Step-up and logout, and a request that dies.
LEMMA VisitStep ==
  ASSUME SInv, NEW r \in Requests,
         StepVerify(r) \/ StepMark(r) \/ Logout(r) \/ Abort(r)
  PROVE  SInv'
<1>1. req[r] \in Local /\ LocalOK(req[r]) /\ ReqPart /\ SessPart
  BY DEF SInv, ReqPart
<1>2. AcctPart'
  BY DEF StepVerify, StepMark, Logout, Abort, SInv, AcctPart
<1>3. CASE StepVerify(r)
  <2>1. "stepMark" \in Quiet
    BY DEF Quiet, Labels
  <2>2. Moves(r)
    BY <1>1, <1>3, <2>1, QuietMoves DEF StepVerify, At
  <2> QED BY <1>2, <1>3, <2>2, CombineQuiet DEF StepVerify
<1>4. CASE StepMark(r)
  <2>1. Moves(r)
    BY <1>1, <1>4, FinishMoves DEF StepMark
  <2>2. SessPart' /\ Stored
    <3>1. CASE sess' = sess
      BY <1>1, <3>1 DEF SessPart, Stored, PortalOK
    <3>2. CASE sess' = [sess EXCEPT ![req[r].sid].mfa = TRUE, ![req[r].sid].second = TRUE]
      <4> DEFINE s == req[r].sid
                 p == [sess[s] EXCEPT !.mfa = TRUE, !.second = TRUE]
      <4>1. CASE s \in 1 .. MaxSessions
        <5>1. p \in Portal /\ PortalOK(p) /\ p.state = sess[s].state
          BY <1>1, <4>1, ZenonT(60) DEF SessPart, Portal, PortalOK
        <5>2. sess' = [sess EXCEPT ![s] = p]
          BY <1>1, <3>2, <4>1 DEF SessPart, Portal
        <5> HIDE DEF p
        <5> QED BY <1>1, <4>1, <5>1, <5>2 DEF SessPart, Stored, PortalOK
      <4>2. CASE s \notin 1 .. MaxSessions
        <5>1. sess' = sess
          BY <1>1, <3>2, <4>2 DEF SessPart
        <5> QED BY <1>1, <5>1 DEF SessPart, Stored, PortalOK
      <4> QED BY <4>1, <4>2
    <3> QED BY <1>4, <3>1, <3>2 DEF StepMark
  <2> QED BY <1>2, <1>4, <2>1, <2>2, Combine DEF StepMark
<1>5. CASE Logout(r)
  <2>1. Moves(r)
    BY <1>1, <1>5, FinishMoves DEF Logout
  <2>2. SessPart' /\ Stored
    BY <1>1, <1>5, DropKeeps DEF Logout
  <2> QED BY <1>2, <1>5, <2>1, <2>2, Combine DEF Logout
<1>6. CASE Abort(r)
  <2>1. Moves(r)
    BY <1>1, <1>6, FinishMoves DEF Abort
  <2> QED BY <1>2, <1>6, <2>1, CombineQuiet DEF Abort
<1> QED BY <1>3, <1>4, <1>5, <1>6

\* The steps that write the account: the failed-login counter, the user's own
\* pages and the administrator's.
LEMMA AccountStep ==
  ASSUME SInv, NEW r \in Requests,
         \/ BumpFailed(r) \/ SelfPassword(r) \/ SelfStep(r) \/ SetActive(r)
         \/ ResetPassword(r) \/ ResetFlag(r) \/ Wipe(r) \/ ResetSessions(r)
  PROVE  SInv'
<1>1. req[r] \in Local /\ LocalOK(req[r]) /\ ReqPart /\ SessPart /\ now \in Nat
  BY DEF SInv, ReqPart, AcctPart
<1>2. req[r].pc # "idle" /\ req[r].user \in Users
  BY <1>1 DEF BumpFailed, SelfPassword, SelfStep, SetActive, ResetPassword,
              ResetFlag, Wipe, ResetSessions, At, LocalOK
<1>3. A(r) \in Account /\ A(r).pw + 1 \in Nat
  BY <1>2 DEF SInv, AcctPart, A, Account
<1>4. UpdateUserPassword(req[r].user) \in Account
  BY <1>3 DEF UpdateUserPassword, A, Account
<1>5. /\ {"idle", "enrollStore", "flagOn", "flagOff", "keyRecheck", "resetFlag",
          "wipeTotp", "wipeKey", "wipeFlag", "dropSessions"} \subseteq Quiet
  BY DEF Quiet, Labels
<1>6. ASSUME NEW row \in Account, NEW label \in Quiet, Write(r, row, label),
             known' \subseteq Users \X Nat,
             UNCHANGED <<now, cookies, sess, handed, temps, begun>>
      PROVE  SInv'
  <2>1. Moves(r) /\ acct' \in [Users -> Account]
    BY <1>2, <1>6, WriteMoves
  <2>2. AcctPart'
    BY <1>6, <2>1 DEF SInv, AcctPart
  <2> QED BY <1>6, <2>1, <2>2, CombineQuiet
<1>7. known \subseteq Users \X Nat
  BY DEF SInv, AcctPart
<1>8. CASE BumpFailed(r)
  <2> DEFINE lock == IF req[r].count >= MaxFailures THEN now + LockTTL ELSE 0
             row == [A(r) EXCEPT !.failed = req[r].count, !.locked = lock]
  <2>1. req[r].count \in Nat /\ lock \in Nat
    BY <1>1, SignInAssumption DEF Local
  <2>2. row \in Account
    BY <1>3, <2>1 DEF Account
  <2>3. Write(r, row, "idle")
    BY <1>8 DEF BumpFailed
  <2> HIDE DEF row
  <2> QED BY <1>5, <1>6, <1>7, <1>8, <2>2, <2>3 DEF BumpFailed
<1>9. CASE SelfPassword(r)
  <2>1. known' \subseteq Users \X Nat
    BY <1>2, <1>3, <1>7, <1>9 DEF SelfPassword
  <2> QED BY <1>4, <1>5, <1>6, <1>9, <2>1 DEF SelfPassword
<1>10. CASE SelfStep(r)
  <2>1. req[r].active \in BOOLEAN
    BY <1>1 DEF Local
  <2>2. /\ [A(r) EXCEPT !.active = req[r].active] \in Account
        /\ [A(r) EXCEPT !.totp = "none"] \in Account
        /\ [A(r) EXCEPT !.totp = "pending"] \in Account
        /\ [A(r) EXCEPT !.totp = "on"] \in Account
        /\ [A(r) EXCEPT !.key = TRUE] \in Account
        /\ [A(r) EXCEPT !.key = FALSE] \in Account
        /\ [A(r) EXCEPT !.mfa = TRUE] \in Account
        /\ [A(r) EXCEPT !.mfa = FALSE] \in Account
    BY <1>3, <2>1 DEF Account
  <2>3. PICK row \in Account, label \in Quiet : Write(r, row, label)
    BY <1>3, <1>5, <1>10, <2>2 DEF SelfStep, TryWrite
  <2> QED BY <1>6, <1>7, <1>10, <2>3 DEF SelfStep
<1>11. CASE SetActive(r)
  <2>1. [A(r) EXCEPT !.active = At(r, "activate")] \in Account
    BY <1>3 DEF Account, At
  <2> QED BY <1>5, <1>6, <1>7, <1>11, <2>1 DEF SetActive
<1>12. CASE ResetPassword(r)
  <2> DEFINE l == [req[r] EXCEPT !.pc = "resetFlag", !.ev = [@ EXCEPT !.pw = A(r).pw + 1]]
  <2>1. req' = [req EXCEPT ![r] = l]
    BY <1>1, <1>12 DEF ResetPassword, ReqPart, Local
  <2>2. [req[r].ev EXCEPT !.pw = A(r).pw + 1] \in Evidence
    BY <1>1, <1>3 DEF Evidence, Local
  <2>3. l \in Local /\ LocalOK(l) /\ l.pc # "hand"
    BY <1>1, <1>2, <2>2 DEF Local, LocalOK, Labels
  <2> HIDE DEF l
  <2>4. Moves(r)
    BY <1>1, <2>1, <2>3, OneMoves DEF Moves, ReqPart
  <2>5. AcctPart'
    BY <1>2, <1>3, <1>4, <1>12 DEF ResetPassword, SInv, AcctPart
  <2> QED BY <1>12, <2>4, <2>5, CombineQuiet DEF ResetPassword
<1>13. CASE ResetFlag(r)
  <2>1. [A(r) EXCEPT !.must = TRUE] \in Account
    BY <1>3 DEF Account
  <2> QED BY <1>5, <1>6, <1>7, <1>13, <2>1 DEF ResetFlag
<1>14. CASE Wipe(r)
  <2>1. /\ [A(r) EXCEPT !.totp = "none"] \in Account
        /\ [A(r) EXCEPT !.key = A(r).key /\ ~req[r].key] \in Account
        /\ [A(r) EXCEPT !.mfa = FALSE] \in Account
    BY <1>1, <1>3 DEF Account, Local
  <2>2. CASE At(r, "wipeTotp")
    <3> DEFINE k == IF req[r].job = "clearMFA" THEN A(r).key ELSE req[r].key
               l == [req[r] EXCEPT !.pc = "wipeKey", !.key = k]
    <3>1. req' = [req EXCEPT ![r] = l]
      BY <1>1, <1>14, <2>2 DEF Wipe, At, ReqPart, Local
    <3>2. k \in BOOLEAN
      BY <1>1, <1>3 DEF Local, Account
    <3>3. l \in Local /\ LocalOK(l) /\ l.pc # "hand"
      BY <1>1, <1>2, <3>2 DEF Local, LocalOK, Labels
    <3> HIDE DEF l
    <3>4. Moves(r)
      BY <1>1, <3>1, <3>3, OneMoves DEF Moves, ReqPart
    <3>5. acct' = acct \/ acct' = [acct EXCEPT ![req[r].user] = [A(r) EXCEPT !.totp = "none"]]
      BY <1>14, <2>2 DEF Wipe, At, A
    <3>6. AcctPart'
      BY <1>2, <1>14, <2>1, <3>5 DEF Wipe, SInv, AcctPart
    <3> QED BY <1>14, <3>4, <3>6, CombineQuiet DEF Wipe
  <2>3. CASE At(r, "wipeKey")
    BY <1>3, <1>5, <1>6, <1>7, <1>14, <2>1, <2>3 DEF Wipe, At, TryWrite
  <2>4. CASE At(r, "wipeFlag")
    BY <1>3, <1>5, <1>6, <1>7, <1>14, <2>1, <2>4 DEF Wipe, At, TryWrite
  <2> QED BY <1>14, <2>2, <2>3, <2>4 DEF Wipe
<1>15. CASE ResetSessions(r)
  <2>1. Moves(r)
    BY <1>1, <1>15, FinishMoves DEF ResetSessions
  <2>2. SessPart' /\ Stored
    BY <1>1, <1>15, DropKeeps DEF ResetSessions, SessPart, Stored, PortalOK
  <2>3. req[r].ev.pw \in Nat
    BY <1>1 DEF Local, Evidence
  <2>4. AcctPart'
    BY <1>2, <1>15, <2>3 DEF ResetSessions, SInv, AcctPart
  <2> QED BY <1>15, <2>1, <2>2, <2>4, Combine DEF ResetSessions
<1> QED BY <1>8, <1>9, <1>10, <1>11, <1>12, <1>13, <1>14, <1>15

-----------------------------------------------------------------------------
(* The theorems.                                                           *)

\* The invariant holds initially.
LEMMA InitHolds == Init => SInv
<1> SUFFICES ASSUME Init PROVE SInv
  OBVIOUS
<1>1. AcctPart
  <2> DEFINE First == [pw : {1}, active : {TRUE}, must : {FALSE}, mfa : BOOLEAN,
                       totp : {"none", "on"}, key : BOOLEAN, failed : {0}, locked : {0}]
  <2>1. ASSUME NEW a \in First PROVE a \in Account
    <3>1. a = [pw |-> a.pw, active |-> a.active, must |-> a.must, mfa |-> a.mfa,
               totp |-> a.totp, key |-> a.key, failed |-> a.failed, locked |-> a.locked]
      OBVIOUS
    <3>2. a.pw = 1 /\ a.active = TRUE /\ a.must = FALSE /\ a.failed = 0 /\ a.locked = 0
      OBVIOUS
    <3>3. a.mfa \in BOOLEAN /\ a.key \in BOOLEAN /\ a.totp \in {"none", "on"}
      OBVIOUS
    <3> HIDE DEF First
    <3>4. a.pw \in Nat /\ a.failed \in Nat /\ a.locked \in Nat
      BY <3>2
    <3>5. a.active \in BOOLEAN /\ a.must \in BOOLEAN
      BY <3>2, Zenon
    <3>6. a.totp \in {"none", "pending", "on"}
      BY <3>3
    <3> QED BY <3>1, <3>3, <3>4, <3>5, <3>6 DEF Account
  <2> HIDE DEF First
  <2>0. acct \in [Users -> {a \in First : a.mfa = (a.totp = "on" \/ a.key)}]
    BY DEF Init, First
  <2>2. acct \in [Users -> Account]
    BY <2>1, <2>0
  <2> QED BY <2>2 DEF Init, AcctPart
<1>2. NoPortal \in Portal /\ PortalOK(NoPortal)
  BY DEF NoPortal, Portal, PortalOK
<1>3. SessPart
  BY <1>2 DEF Init, SessPart
<1>4. ReqPart
  BY IdleOK DEF Init, ReqPart
<1>5. HandPart
  BY DEF Init, HandPart, Idle
<1> QED BY <1>1, <1>3, <1>4, <1>5 DEF SInv

\* Every step keeps it.
LEMMA StepKeeps == SInv /\ [Next]_vars => SInv'
<1> SUFFICES ASSUME SInv, [Next]_vars PROVE SInv'
  OBVIOUS
<1>1. CASE UNCHANGED vars
  BY <1>1 DEF vars, SInv, AcctPart, SessPart, ReqPart, HandPart, PortalOK, LocalOK
<1>2. CASE Tick
  BY <1>2 DEF Tick, SInv, AcctPart, SessPart, ReqPart, HandPart, PortalOK, LocalOK
<1>3. ASSUME NEW r \in Requests, NEW u \in Users,
             \/ WrongPassword(r, u)
             \/ \E flow \in Flows : PasswordCheck(r, u, flow)
             \/ \E job \in Administration : Administer(r, u, job)
      PROVE  SInv'
  <2>1. "portal" \in Flows
    BY DEF Flows
  <2> QED BY <1>3, <2>1, PasswordStep, AdministerStep
<1>4. ASSUME NEW r \in Requests, NEW c \in cookies,
             ChangePassword(r, c) \/ \E m \in Methods : SecondFactor(r, c, m)
      PROVE  SInv'
  <2>1. "totp" \in Methods
    BY DEF Methods
  <2> QED BY <1>4, <2>1, CookieStep
<1>5. ASSUME NEW r \in Requests, NEW s \in 1 .. MaxSessions,
             \/ \E flow \in Flows : SilentSSO(r, s, flow)
             \/ \E page \in SelfService : Visit(r, s, page)
      PROVE  SInv'
  <2>1. "portal" \in Flows /\ "logout" \in SelfService
    BY DEF Flows, SelfService
  <2> QED BY <1>5, <2>1, SessionStep
<1>6. ASSUME NEW r \in Requests,
             \/ BumpFailed(r) \/ ClearFailed(r) \/ Rotate(r) \/ Reload(r) \/ Verify(r)
             \/ Create(r) \/ Hand(r) \/ SwitchUser(r) \/ Seat(r) \/ IssueCode(r)
             \/ SelfPassword(r) \/ SelfStep(r) \/ StepVerify(r) \/ StepMark(r)
             \/ Logout(r) \/ SetActive(r) \/ ResetPassword(r) \/ ResetFlag(r)
             \/ Wipe(r) \/ ResetSessions(r) \/ Abort(r)
      PROVE  SInv'
  BY <1>6, PageStep, PortalStep, VisitStep, AccountStep
<1> QED BY <1>1, <1>2, <1>3, <1>4, <1>5, <1>6 DEF Next

\* What the invariant says, in the words of the properties.
LEMMA InvariantImplies ==
  SInv => SignInTypeOK /\ SecondFactorReal /\ ConfidentialNeedsFactor /\ PortalWithinCap
<1> SUFFICES ASSUME SInv
             PROVE  SignInTypeOK /\ SecondFactorReal /\ ConfidentialNeedsFactor
                    /\ PortalWithinCap
  OBVIOUS
<1>1. SignInTypeOK
  BY DEF SInv, AcctPart, SessPart, ReqPart, HandPart, SignInTypeOK
<1>2. SecondFactorReal
  BY DEF SInv, SessPart, PortalOK, ReqPart, LocalOK, SecondFactorReal, CodeMFA, At
<1>3. ConfidentialNeedsFactor
  BY DEF SInv, ReqPart, LocalOK, ConfidentialNeedsFactor, CodeMFA, At, Methods
<1>4. PortalWithinCap
  BY DEF SInv, SessPart, PortalOK, PortalWithinCap
<1> QED BY <1>1, <1>2, <1>3, <1>4

\* Every variable keeps its type, and every auth_portal cookie given to a
\* browser names a session that createPortalSession or ensurePortalCookie
\* stored.
THEOREM SignInTyped == Spec => []SignInTypeOK
  BY InitHolds, StepKeeps, InvariantImplies, PTL DEF Spec

\* A session or a code marked with a second factor came out of a sign-in that
\* passed one, or of a session that was stepped up, however the account's
\* factors and mfa_enabled change while the pages run.
THEOREM SecondFactorsAreReal == Spec => []SecondFactorReal
  BY InitHolds, StepKeeps, InvariantImplies, PTL DEF Spec

\* MFARequiredRule works: no code for a confidential client without a second
\* factor, from either form or from silent single sign-on.
THEOREM ConfidentialCodesNeedAFactor == Spec => []ConfidentialNeedsFactor
  BY InitHolds, StepKeeps, InvariantImplies, PTL DEF Spec

\* slidePortalSession never moves a deadline past created_at + absoluteSessionTTL.
THEOREM PortalSessionsAreCapped == Spec => []PortalWithinCap
  BY InitHolds, StepKeeps, InvariantImplies, PTL DEF Spec

-----------------------------------------------------------------------------
(* Temporary passwords.                                                    *)

\* Password p of u is an old one, or was chosen by the user.  It stays so: the
\* numbers only go up, so what is generated later has another.
Settled(u, p) == p <= acct[u].pw /\ ~OnTemp(u, p)

\* A reset that has raised the flag: it is up as long as its password stands.
Flagged(l) ==
  /\ l.ev.pw <= acct[l.user].pw
  /\ acct[l.user].pw = l.ev.pw => acct[l.user].must

\* What a request carries about the password it saw, set or generated.
GateOK(l) ==
  /\ l.pc = "clearFailed" =>
       <<l.user, l.ev.pw>> \in known /\ (~l.must => Settled(l.user, l.ev.pw))
  /\ (\/ l.pc = "reload"
      \/ l.pc = "create" /\ l.ev.via # "key"
      \/ l.pc = "verify" /\ l.flow = "portal" /\ l.ev.via = "totp") =>
       Settled(l.user, l.ev.pw)
  /\ l.pc = "resetFlag" => l.ev.pw <= acct[l.user].pw
  /\ l.pc \in {"wipeTotp", "wipeKey", "wipeFlag"} /\ l.job # "clearMFA" => Flagged(l)
  /\ l.pc = "dropSessions" => Flagged(l)

GateLabels == {"clearFailed", "reload", "create", "verify", "resetFlag", "wipeTotp",
               "wipeKey", "wipeFlag", "dropSessions"}

\* A temporary password that somebody knows has its flag up until it is
\* replaced; a cookie was given for a password somebody knew.
Flags ==
  /\ \A u \in Users, p \in Nat : <<u, p>> \in known \cup temps => p <= acct[u].pw
  /\ \A u \in Users : <<u, acct[u].pw>> \in known \cap temps => acct[u].must
  /\ \A c \in cookies : <<c.user, c.pw>> \in known

Gate == Flags /\ \A r \in Requests : GateOK(req[r])

\* What every step leaves of what others rely on.
GateFrame ==
  /\ known \subseteq known'
  /\ \A u \in Users :
       /\ acct[u].pw <= acct'[u].pw
       /\ acct'[u].pw = acct[u].pw /\ acct[u].must => acct'[u].must
  /\ \A u \in Users, p \in Nat : Settled(u, p) => Settled(u, p)'

\* No password changes and no flag comes down.
SameRows ==
  /\ UNCHANGED <<known, temps>>
  /\ \A u \in Users : acct'[u].pw = acct[u].pw /\ (acct[u].must => acct'[u].must)

\* Nothing that is settled comes undone either.
LEMMA SameRowsFrame ==
  ASSUME SInv, SameRows
  PROVE  GateFrame
<1>1. \A u \in Users, p \in Nat : Settled(u, p) => Settled(u, p)'
  BY DEF SameRows, Settled, OnTemp
<1>2. \A u \in Users : acct[u].pw <= acct[u].pw
  BY DEF SInv, AcctPart, Account
<1> QED BY <1>1, <1>2 DEF SameRows, GateFrame

\* A request moves; the others keep what they carry.
LEMMA GateMoves ==
  ASSUME SInv, SInv', Gate, GateFrame, Flags', NEW r \in Requests,
         \A q \in Requests \ {r} : req'[q] = req[q], GateOK(req[r])'
  PROVE  Gate'
<1>1. ASSUME NEW q \in Requests, q # r PROVE GateOK(req[q])'
  <2>1. PICK l : l = req[q]
    OBVIOUS
  <2>2. l.pc \in GateLabels => l.user \in Users
    BY <2>1 DEF SInv, ReqPart, LocalOK, GateLabels
  <2>3. l.ev.pw \in Nat
    BY <2>1 DEF SInv, ReqPart, Local, Evidence
  <2>4. \A u \in Users : acct[u].pw \in Nat /\ acct'[u].pw \in Nat
    BY DEF SInv, AcctPart, Account
  <2>5. GateOK(l)
    BY <2>1 DEF Gate
  <2>6. l.pc \in GateLabels /\ Settled(l.user, l.ev.pw) => Settled(l.user, l.ev.pw)'
    BY <2>2, <2>3 DEF GateFrame
  <2>7. l.pc \in GateLabels /\ l.ev.pw <= acct[l.user].pw => l.ev.pw <= acct'[l.user].pw
    BY <2>2, <2>3, <2>4 DEF GateFrame
  <2>8. l.pc \in GateLabels /\ Flagged(l) => Flagged(l)'
    BY <2>2, <2>3, <2>4, <2>7 DEF GateFrame, Flagged
  <2>9. GateOK(l)'
    BY <2>5, <2>6, <2>7, <2>8 DEF GateOK, GateLabels, GateFrame
  <2>10. req'[q] = l
    BY <1>1, <2>1
  <2> QED BY <2>9, <2>10 DEF GateOK, Settled, OnTemp, Flagged
<1> QED BY <1>1 DEF Gate

\* What the accounts, the cookies and the known passwords say, when the
\* passwords and the flags stand and a cookie is given for a known password.
LEMMA SameRowsFlags ==
  ASSUME SInv, Gate, SameRows, \A c \in cookies' : <<c.user, c.pw>> \in known
  PROVE  Flags'
BY DEF Gate, SameRows, Flags

\* A step that changes no password, and whose request carries none afterwards.
LEMMA PlainGate ==
  ASSUME SInv, SInv', Gate, SameRows, cookies' = cookies, NEW r \in Requests,
         \A q \in Requests \ {r} : req'[q] = req[q], req'[r].pc \notin GateLabels
  PROVE  Gate'
<1>1. GateOK(req[r])'
  BY DEF GateOK, GateLabels
<1>2. Flags'
  BY SameRowsFlags DEF Gate, Flags
<1> QED BY <1>1, <1>2, SameRowsFrame, GateMoves

\* The same for a request that begins.
LEMMA BeginGate ==
  ASSUME SInv, SInv', Gate, UNCHANGED <<acct, known, temps, cookies>>, NEW r \in Requests, NEW l,
         Begin(r, l), GateOK(l)
  PROVE  Gate'
<1>1. SameRows
  BY DEF SameRows
<1>2. Flags'
  BY <1>1, SameRowsFlags DEF Gate, Flags
<1>3. \A q \in Requests : req'[q] = IF q = r THEN l ELSE req[q]
  BY DEF Begin, SInv, ReqPart
<1>4. GateOK(req[r])'
  BY <1>3 DEF GateOK, Settled, OnTemp, Flagged
<1> QED BY <1>1, <1>2, <1>3, <1>4, SameRowsFrame, GateMoves

\* A known password is settled, unless the account is flagged.
LEMMA KnownIsSettled ==
  ASSUME SInv, Gate, NEW u \in Users, NEW p \in Nat, <<u, p>> \in known, ~acct[u].must
  PROVE  Settled(u, p)
BY DEF Gate, Flags, Settled, OnTemp

\* The steps that begin a request.
LEMMA BeginsGate ==
  ASSUME SInv, SInv', Gate, NEW r \in Requests,
         \/ \E u \in Users :
              \/ WrongPassword(r, u)
              \/ \E flow \in Flows : PasswordCheck(r, u, flow)
              \/ \E job \in Administration : Administer(r, u, job)
         \/ \E c \in cookies :
              ChangePassword(r, c) \/ \E m \in Methods : SecondFactor(r, c, m)
         \/ \E s \in 1 .. MaxSessions :
              \/ \E flow \in Flows : SilentSSO(r, s, flow)
              \/ \E page \in SelfService : Visit(r, s, page)
  PROVE  Gate'
<1>0. UNCHANGED <<acct, known, temps, cookies>>
  BY DEF WrongPassword, PasswordCheck, Administer, ChangePassword, SecondFactor, SilentSSO, Visit
<1>1. ASSUME NEW l, Begin(r, l), l.pc \notin GateLabels PROVE Gate'
  <2>1. GateOK(l)
    BY <1>1 DEF GateOK, GateLabels
  <2> QED BY <1>0, <1>1, <2>1, BeginGate
<1>2. ASSUME NEW u \in Users, WrongPassword(r, u) PROVE Gate'
  <2>1. [Idle EXCEPT !.pc = "bumpFailed", !.user = u, !.count = acct[u].failed + 1].pc
          = "bumpFailed"
    BY DEF Idle
  <2> QED BY <1>1, <1>2, <2>1 DEF WrongPassword, GateLabels
<1>3. ASSUME NEW u \in Users, NEW flow \in Flows, PasswordCheck(r, u, flow) PROVE Gate'
  <2>1. PICK l : l = [Idle EXCEPT !.pc = "clearFailed", !.user = u, !.flow = flow,
                        !.mfa = acct[u].mfa, !.must = acct[u].must,
                        !.ev = [pw |-> acct[u].pw, second |-> FALSE, via |-> "password"]]
    OBVIOUS
  <2>2. l.pc = "clearFailed" /\ l.user = u /\ l.must = acct[u].must /\ l.ev.pw = acct[u].pw
    BY <2>1 DEF Idle
  <2>3. <<u, acct[u].pw>> \in known /\ acct[u].pw \in Nat
    BY <1>3 DEF PasswordCheck, SInv, AcctPart, Account
  <2>4. ~acct[u].must => Settled(u, acct[u].pw)
    BY <2>3, KnownIsSettled
  <2>5. GateOK(l)
    BY <2>2, <2>3, <2>4 DEF GateOK
  <2> QED BY <1>0, <1>3, <2>1, <2>5, BeginGate DEF PasswordCheck
<1>4. ASSUME NEW u \in Users, NEW job \in Administration, Administer(r, u, job) PROVE Gate'
  <2>1. PICK l : l = [Idle EXCEPT !.user = u, !.job = job, !.key = acct[u].key,
                        !.pc = IF job = "clearMFA" THEN "wipeTotp" ELSE job]
    OBVIOUS
  <2>2. l.job = job /\ l.pc = (IF job = "clearMFA" THEN "wipeTotp" ELSE job)
    BY <2>1 DEF Idle
  <2>3. GateOK(l)
    BY <2>2 DEF GateOK, Administration
  <2> QED BY <1>0, <1>4, <2>1, <2>3, BeginGate DEF Administer
<1>5. ASSUME NEW c \in cookies, ChangePassword(r, c) PROVE Gate'
  <2>1. [Idle EXCEPT !.pc = "rotate", !.user = c.user,
           !.ev = [pw |-> c.pw, second |-> FALSE, via |-> "rotation"]].pc = "rotate"
    BY DEF Idle
  <2> QED BY <1>1, <1>5, <2>1 DEF ChangePassword, GateLabels
<1>6. ASSUME NEW c \in cookies, NEW m \in Methods, SecondFactor(r, c, m) PROVE Gate'
  <2>1. PICK l : l = [Idle EXCEPT !.pc = "verify", !.user = c.user, !.flow = c.flow,
                        !.mfa = acct[c.user].mfa,
                        !.ev = [pw |-> c.pw, second |-> FALSE, via |-> m]]
    OBVIOUS
  <2>2. /\ l.pc = "verify" /\ l.user = c.user /\ l.flow = c.flow
        /\ l.ev.pw = c.pw /\ l.ev.via = m
    BY <2>1 DEF Idle
  <2>3. c.user \in Users /\ c.pw \in Nat /\ <<c.user, c.pw>> \in known
    BY DEF SInv, AcctPart, Cookie, Gate, Flags
  <2>4. c.flow = "portal" /\ m = "totp" => Settled(c.user, c.pw)
    BY <1>6, <2>3, KnownIsSettled DEF SecondFactor
  <2>5. GateOK(l)
    BY <2>2, <2>4 DEF GateOK
  <2> QED BY <1>0, <1>6, <2>1, <2>5, BeginGate DEF SecondFactor
<1>7. ASSUME NEW s \in 1 .. MaxSessions, NEW flow \in Flows, SilentSSO(r, s, flow) PROVE Gate'
  <2>1. [Idle EXCEPT !.pc = "code", !.user = sess[s].user, !.flow = flow, !.mfa = sess[s].mfa,
           !.ev = [pw |-> 0, second |-> sess[s].second, via |-> "sso"]].pc = "code"
    BY DEF Idle
  <2> QED BY <1>1, <1>7, <2>1 DEF SilentSSO, GateLabels
<1>8. ASSUME NEW s \in 1 .. MaxSessions, NEW page \in SelfService, Visit(r, s, page) PROVE Gate'
  <2>1. [Idle EXCEPT !.pc = page, !.user = sess[s].user, !.sid = s,
           !.active = acct[sess[s].user].active].pc = page
    BY DEF Idle
  <2>2. page \notin GateLabels
    BY DEF SelfService, GateLabels
  <2> QED BY <1>1, <1>8, <2>1, <2>2 DEF Visit
<1> QED BY <1>2, <1>3, <1>4, <1>5, <1>6, <1>7, <1>8

\* The request moves, the others do not.
LEMMA Moved ==
  ASSUME SInv, NEW r \in Requests, NEW label,
         \/ Goto(r, label)
         \/ Finish(r) /\ label = "idle"
  PROVE  /\ \A q \in Requests \ {r} : req'[q] = req[q]
         /\ req'[r].pc = label
         /\ label # "idle" => /\ req'[r].user = req[r].user /\ req'[r].ev = req[r].ev
                              /\ req'[r].job = req[r].job /\ req'[r].flow = req[r].flow
<1>1. req \in [Requests -> Local]
  BY DEF SInv, ReqPart
<1>2. CASE Goto(r, label)
  BY <1>1, <1>2 DEF Goto, Local
<1>3. CASE Finish(r) /\ label = "idle"
  BY <1>1, <1>3 DEF Finish, Idle
<1> QED BY <1>2, <1>3

\* A row is written that has the password and the flag it had, or the flag up.
LEMMA WriteSame ==
  ASSUME SInv, NEW r \in Requests, req[r].user \in Users, NEW row, NEW label,
         row.pw = A(r).pw, A(r).must => row.must, Write(r, row, label)
  PROVE  /\ \A u \in Users : acct'[u].pw = acct[u].pw /\ (acct[u].must => acct'[u].must)
         /\ \A q \in Requests \ {r} : req'[q] = req[q]
         /\ req'[r].pc = label
         /\ label # "idle" => /\ req'[r].user = req[r].user /\ req'[r].ev = req[r].ev
                              /\ req'[r].job = req[r].job /\ req'[r].flow = req[r].flow
         /\ acct'[req[r].user] = row
<1>1. acct \in [Users -> Account]
  BY DEF SInv, AcctPart
<1>2. \A u \in Users : acct'[u].pw = acct[u].pw /\ (acct[u].must => acct'[u].must)
  BY <1>1 DEF Write, A
<1>3. (label = "idle" /\ Finish(r)) \/ Goto(r, label)
  BY DEF Write
<1>4. acct'[req[r].user] = row
  BY <1>1 DEF Write
<1> QED BY <1>2, <1>3, <1>4, Moved

\* Who is at work has an account.
LEMMA Working ==
  ASSUME SInv, NEW r \in Requests, req[r].pc # "idle"
  PROVE  req[r] \in Local /\ req[r].user \in Users /\ A(r) \in Account
BY DEF SInv, ReqPart, LocalOK, AcctPart, A

\* The steps that change no password and carry none on.
LEMMA PlainSteps ==
  ASSUME SInv, SInv', Gate, NEW r \in Requests,
         \/ BumpFailed(r) \/ Create(r) \/ Hand(r) \/ SwitchUser(r) \/ Seat(r) \/ IssueCode(r)
         \/ SelfStep(r) \/ StepVerify(r) \/ StepMark(r) \/ Logout(r) \/ SetActive(r) \/ Abort(r)
  PROVE  Gate'
<1>1. /\ req[r] \in Local /\ req[r].user \in Users /\ A(r) \in Account
      /\ req \in [Requests -> Local]
  BY Working DEF BumpFailed, Create, Hand, SwitchUser, Seat, IssueCode, SelfStep, StepVerify,
     StepMark, Logout, SetActive, Abort, At, SInv, ReqPart
<1>2. UNCHANGED <<known, temps, cookies>>
  BY DEF BumpFailed, Create, Hand, SwitchUser, Seat, IssueCode, SelfStep, StepVerify, StepMark,
     Logout, SetActive, Abort
<1>3. CASE BumpFailed(r) \/ SelfStep(r) \/ SetActive(r)
  <2>1. PICK row, label : /\ row.pw = A(r).pw /\ row.must = A(r).must /\ Write(r, row, label)
                          /\ label \notin GateLabels
    <3>1. /\ \A f, k : LET row == [A(r) EXCEPT !.failed = f, !.locked = k]
                       IN  row.pw = A(r).pw /\ row.must = A(r).must
          /\ \A b : LET row == [A(r) EXCEPT !.active = b]
                    IN  row.pw = A(r).pw /\ row.must = A(r).must
          /\ \A b : LET row == [A(r) EXCEPT !.totp = b]
                    IN  row.pw = A(r).pw /\ row.must = A(r).must
          /\ \A b : LET row == [A(r) EXCEPT !.key = b]
                    IN  row.pw = A(r).pw /\ row.must = A(r).must
          /\ \A b : LET row == [A(r) EXCEPT !.mfa = b]
                    IN  row.pw = A(r).pw /\ row.must = A(r).must
      BY <1>1 DEF Account
    <3>2. \A label \in {"idle", "enrollStore", "flagOn", "flagOff", "keyRecheck"} :
            label \notin GateLabels
      BY DEF GateLabels
    <3>3. CASE BumpFailed(r)
      BY <3>1, <3>2, <3>3 DEF BumpFailed
    <3>4. CASE SelfStep(r)
      BY <3>1, <3>2, <3>4 DEF SelfStep, TryWrite
    <3>5. CASE SetActive(r)
      BY <3>1, <3>2, <3>5 DEF SetActive
    <3> QED BY <1>3, <3>3, <3>4, <3>5
  <2> QED BY <1>1, <1>2, <2>1, WriteSame, PlainGate DEF SameRows
<1>4. CASE /\ acct' = acct
           /\ \E label \in {"idle", "seat", "code", "stepMark"} :
                Goto(r, label) \/ (Finish(r) /\ label = "idle")
  <2>1. SameRows
    BY <1>2, <1>4 DEF SameRows
  <2> QED BY <1>2, <1>4, <2>1, Moved, PlainGate DEF GateLabels
<1>5. CASE Create(r)
  <2>1. PICK s : req' = [req EXCEPT ![r].pc = "hand", ![r].sid = s]
    BY <1>5 DEF Create
  <2>2. (\A q \in Requests \ {r} : req'[q] = req[q]) /\ req'[r].pc = "hand"
    BY <1>1, <2>1 DEF Local
  <2>3. SameRows
    BY <1>2, <1>5 DEF Create, SameRows
  <2> QED BY <1>2, <2>2, <2>3, PlainGate DEF GateLabels
<1> QED BY <1>3, <1>4, <1>5 DEF Hand, SwitchUser, Seat, IssueCode, StepVerify, StepMark, Logout, Abort

\* A cookie for the next page, or the session at once, which the password form
\* of the portal opens only for an account that was not flagged.
LEMMA ClearFailedGate ==
  ASSUME SInv, SInv', Gate, NEW r \in Requests, ClearFailed(r)
  PROVE  Gate'
<1>1. /\ req[r] \in Local /\ req[r].user \in Users /\ A(r) \in Account
      /\ GateOK(req[r]) /\ req[r].pc = "clearFailed"
  BY Working DEF ClearFailed, At, Gate
<1>2. PICK row, label :
        /\ row.pw = A(r).pw /\ row.must = A(r).must /\ Write(r, row, label)
        /\ \/ NeedsMore(r) /\ GiveCookie(r) /\ label = "idle"
           \/ /\ ~NeedsMore(r) /\ cookies' = cookies
              /\ label = IF req[r].flow = "portal" THEN "create" ELSE "switch"
  <2>1. LET row == [A(r) EXCEPT !.failed = 0, !.locked = 0]
        IN  row.pw = A(r).pw /\ row.must = A(r).must
    BY <1>1 DEF Account
  <2> QED BY <2>1 DEF ClearFailed, TryWrite
<1>3. SameRows
  BY <1>1, <1>2, WriteSame DEF SameRows, ClearFailed
<1>4. \A c \in cookies' : <<c.user, c.pw>> \in known
  <2>1. PICK new : new = [user |-> req[r].user, flow |-> req[r].flow, pw |-> req[r].ev.pw,
                          exp |-> now + CookieTTL]
    OBVIOUS
  <2>2. new.user = req[r].user /\ new.pw = req[r].ev.pw
    BY <2>1
  <2>3. <<req[r].user, req[r].ev.pw>> \in known
    BY <1>1 DEF GateOK
  <2>4. cookies' \subseteq cookies \cup {new}
    BY <1>2, <2>1 DEF GiveCookie
  <2> QED BY <2>2, <2>3, <2>4 DEF Gate, Flags
<1>5. Flags'
  BY <1>3, <1>4, SameRowsFlags
<1>6. \A q \in Requests \ {r} : req'[q] = req[q]
  BY <1>1, <1>2, WriteSame
<1>7. GateOK(req[r])'
  <2>1. CASE label \in {"idle", "switch"}
    BY <1>1, <1>2, <2>1, WriteSame DEF GateOK
  <2>2. CASE label = "create"
    <3>1. ~req[r].must
      BY <1>2, <2>2 DEF NeedsMore
    <3>2. Settled(req[r].user, req[r].ev.pw) /\ req[r].ev.pw \in Nat
      BY <1>1, <3>1 DEF GateOK, Local, Evidence
    <3>3. req'[r].pc = "create" /\ req'[r].user = req[r].user /\ req'[r].ev = req[r].ev
      BY <1>1, <1>2, <2>2, WriteSame
    <3>4. Settled(req[r].user, req[r].ev.pw)'
      BY <1>1, <1>3, <3>2, <3>3 DEF SameRows, Settled, OnTemp
    <3> QED BY <3>3, <3>4 DEF GateOK
  <2> QED BY <1>2, <2>1, <2>2
<1> QED BY <1>3, <1>5, <1>6, <1>7, SameRowsFrame, GateMoves

\* The page goes on from one label to the other with the password it has.
LEMMA PagesGate ==
  ASSUME SInv, SInv', Gate, NEW r \in Requests, Reload(r) \/ Verify(r)
  PROVE  Gate'
<1>1. /\ req[r] \in Local /\ req[r].user \in Users /\ GateOK(req[r]) /\ req[r].ev \in Evidence
      /\ req \in [Requests -> Local] /\ req[r].ev.pw \in Nat
  BY Working DEF Reload, Verify, At, Gate, SInv, ReqPart, Local, Evidence
<1>2. SameRows /\ cookies' = cookies
  BY DEF Reload, Verify, SameRows
<1>3. \A q \in Requests \ {r} : req'[q] = req[q]
  BY DEF Reload, Verify, Finish, Goto, SInv, ReqPart
<1>4. Flags'
  BY <1>2, SameRowsFlags DEF Gate, Flags
<1>5. ASSUME req'[r].pc = "create" => /\ req'[r].user = req[r].user
                                      /\ req'[r].ev.pw = req[r].ev.pw
                                      /\ req'[r].ev.via # "key" =>
                                           Settled(req[r].user, req[r].ev.pw),
             req'[r].pc \in {"create", "idle", "switch"}
      PROVE  Gate'
  <2>1. GateOK(req[r])'
    BY <1>2, <1>5 DEF GateOK, SameRows, Settled, OnTemp, Reload, Verify
  <2> QED BY <1>2, <1>3, <1>4, <2>1, SameRowsFrame, GateMoves
<1>6. CASE Reload(r)
  <2>1. Settled(req[r].user, req[r].ev.pw)
    BY <1>1, <1>6 DEF Reload, At, GateOK
  <2> QED BY <1>5, <1>6, <2>1, Moved DEF Reload
<1>7. CASE Verify(r)
  <2>1. PICK l : l = [req[r] EXCEPT !.ev = [req[r].ev EXCEPT !.second = TRUE],
                        !.pc = IF req[r].flow = "portal" THEN "create" ELSE "switch"]
    OBVIOUS
  <2>2. req'[r] = l
    BY <1>1, <1>7, <2>1 DEF Verify, Local
  <2>3. /\ l.pc = (IF req[r].flow = "portal" THEN "create" ELSE "switch")
        /\ l.user = req[r].user /\ l.ev.pw = req[r].ev.pw /\ l.ev.via = req[r].ev.via
    BY <1>1, <2>1 DEF Local, Evidence
  <2>4. req[r].ev.via \in Methods
    BY <1>7 DEF Verify, At, SInv, ReqPart, LocalOK
  <2> QED BY <1>1, <1>5, <1>7, <2>2, <2>3, <2>4 DEF Verify, At, GateOK, Methods
<1> QED BY <1>6, <1>7

\* A new password for account u: nobody has seen its number yet.
NewPassword(u) ==
  /\ acct'[u].pw = acct[u].pw + 1
  /\ \A w \in Users : w # u => acct'[w].pw = acct[w].pw /\ acct'[w].must = acct[w].must
  /\ \/ temps' = temps /\ known' = known \cup {<<u, acct[u].pw + 1>>}
     \/ known' = known /\ temps' = temps \cup {<<u, acct[u].pw + 1>>}

\* Nobody is on it, or on any password before it; it is not both known and
\* temporary.
LEMMA NewPasswordKeeps ==
  ASSUME SInv, Gate, NEW u \in Users, NewPassword(u), cookies' = cookies
  PROVE  GateFrame /\ Flags'
<1>1. \A w \in Users : acct[w].pw \in Nat
  BY DEF SInv, AcctPart, Account
<1>2. PICK n \in Nat : n = acct[u].pw + 1
  BY <1>1
<1>3. \A w, p : <<w, p>> = <<u, n>> => w = u /\ p = n
  OBVIOUS
<1>4. /\ \A w, p : <<w, p>> \in known' => <<w, p>> \in known \/ (w = u /\ p = n)
      /\ \A w, p : <<w, p>> \in temps' => <<w, p>> \in temps \/ (w = u /\ p = n)
      /\ known \subseteq known'
  BY <1>2, <1>3 DEF NewPassword
<1>5. acct'[u].pw = n /\ \A w \in Users : acct[w].pw <= acct'[w].pw /\ acct'[w].pw \in Nat
  BY <1>1, <1>2 DEF NewPassword
<1>6. \A w \in Users, p \in Nat : <<w, p>> \in known \cup temps => p <= acct[w].pw
  BY DEF Gate, Flags
<1>7. ASSUME NEW w \in Users, NEW p \in Nat, Settled(w, p) PROVE Settled(w, p)'
  <2>1. p <= acct[w].pw /\ p <= acct'[w].pw
    BY <1>1, <1>5, <1>7 DEF Settled
  <2>2. CASE w # u
    <3>1. acct'[w].pw = acct[w].pw /\ (<<w, p>> \in temps' => <<w, p>> \in temps)
      BY <1>4, <2>2 DEF NewPassword
    <3> QED BY <1>7, <2>1, <3>1 DEF Settled, OnTemp
  <2>3. CASE w = u
    <3>1. acct'[w].pw # p
      BY <1>1, <1>2, <1>5, <2>1, <2>3
    <3> QED BY <2>1, <3>1 DEF Settled, OnTemp
  <2> QED BY <2>2, <2>3
<1>8. GateFrame
  <2>1. ASSUME NEW w \in Users, acct'[w].pw = acct[w].pw, acct[w].must PROVE acct'[w].must
    <3>1. w # u
      BY <1>1, <1>2, <1>5, <2>1
    <3> QED BY <2>1, <3>1 DEF NewPassword
  <2> QED BY <1>4, <1>5, <1>7, <2>1 DEF GateFrame
<1>9. Flags'
  <2>1. \A w \in Users, p \in Nat : <<w, p>> \in known' \cup temps' => p <= acct'[w].pw
    BY <1>1, <1>4, <1>5, <1>6
  <2>2. ASSUME NEW w \in Users, <<w, acct'[w].pw>> \in known', <<w, acct'[w].pw>> \in temps'
        PROVE  acct'[w].must
    <3>1. CASE w # u
      BY <1>4, <2>2, <3>1 DEF NewPassword, Gate, Flags
    <3>2. CASE w = u
      <4>1. <<u, n>> \notin known \cup temps
        BY <1>1, <1>2, <1>6
      <4>2. <<u, n>> \in known' /\ <<u, n>> \in temps'
        BY <1>5, <2>2, <3>2
      <4> QED BY <1>2, <4>1, <4>2 DEF NewPassword
    <3> QED BY <3>1, <3>2
  <2>3. \A c \in cookies' : <<c.user, c.pw>> \in known'
    BY <1>4 DEF Gate, Flags
  <2> QED BY <2>1, <2>2, <2>3 DEF Flags
<1> QED BY <1>8, <1>9

\* The password changes: the rotation page, the user's own page, the generated one.
LEMMA PasswordGate ==
  ASSUME SInv, SInv', Gate, NEW r \in Requests, Rotate(r) \/ SelfPassword(r) \/ ResetPassword(r)
  PROVE  Gate'
<1>1. /\ req[r] \in Local /\ req[r].user \in Users /\ A(r) \in Account /\ req[r].ev \in Evidence
      /\ req \in [Requests -> Local] /\ acct \in [Users -> Account]
  BY Working DEF Rotate, SelfPassword, ResetPassword, At, SInv, ReqPart, AcctPart, Local
<1>2. PICK u \in Users : u = req[r].user
  BY <1>1
<1>3. acct[u].pw \in Nat /\ acct[u].pw + 1 \in Nat /\ A(r) = acct[u]
  BY <1>1, <1>2 DEF Account, A
<1>4. acct' = [acct EXCEPT ![u] = UpdateUserPassword(u)]
  BY <1>2 DEF Rotate, SelfPassword, ResetPassword, Write
<1>5. NewPassword(u) /\ cookies' = cookies
  <2>1. UpdateUserPassword(u).pw = acct[u].pw + 1
    BY <1>1 DEF UpdateUserPassword, Account
  <2>2. acct'[u] = UpdateUserPassword(u) /\ \A w \in Users : w # u => acct'[w] = acct[w]
    BY <1>1, <1>4
  <2>3. \/ temps' = temps /\ known' = known \cup {<<u, acct[u].pw + 1>>}
        \/ known' = known /\ temps' = temps \cup {<<u, acct[u].pw + 1>>}
    BY <1>2, <1>3 DEF Rotate, SelfPassword, ResetPassword
  <2> QED BY <2>1, <2>2, <2>3 DEF NewPassword, Rotate, SelfPassword, ResetPassword
<1>6. GateFrame /\ Flags' /\ acct'[u].pw = acct[u].pw + 1
  BY <1>5, NewPasswordKeeps DEF NewPassword
<1>7. CASE SelfPassword(r)
  <2>1. Finish(r)
    BY <1>7 DEF SelfPassword, Write
  <2>2. (\A q \in Requests \ {r} : req'[q] = req[q]) /\ req'[r].pc = "idle"
    BY <2>1, Moved
  <2>3. GateOK(req[r])'
    BY <2>2 DEF GateOK
  <2> QED BY <1>6, <2>2, <2>3, GateMoves
<1>8. ASSUME NEW label \in {"reload", "resetFlag"},
             req' = [req EXCEPT ![r].pc = label, ![r].ev.pw = A(r).pw + 1],
             label = "reload" => temps' = temps
      PROVE  Gate'
  <2>1. PICK n \in Nat : n = acct[u].pw + 1
    BY <1>3
  <2>2. /\ \A q \in Requests \ {r} : req'[q] = req[q]
        /\ req'[r].pc = label /\ req'[r].user = u /\ req'[r].ev.pw = n
    BY <1>1, <1>2, <1>3, <1>8, <2>1 DEF Local, Evidence
  <2>3. acct'[u].pw = n /\ n <= n
    BY <1>6, <2>1
  <2>4. label = "reload" => <<u, n>> \notin temps'
    BY <1>3, <1>8, <2>1 DEF Gate, Flags
  <2>5. GateOK(req[r])'
    BY <2>2, <2>3, <2>4 DEF GateOK, Settled, OnTemp
  <2> QED BY <1>6, <2>2, <2>5, GateMoves
<1> QED BY <1>7, <1>8 DEF Rotate, ResetPassword

\* The flag goes up, and the factors go: the reset goes on with its password.
LEMMA ResetGate ==
  ASSUME SInv, SInv', Gate, NEW r \in Requests, ResetFlag(r) \/ Wipe(r)
  PROVE  Gate'
<1>1. /\ req[r] \in Local /\ req[r].user \in Users /\ A(r) \in Account /\ GateOK(req[r])
      /\ req \in [Requests -> Local] /\ acct \in [Users -> Account]
  BY Working DEF ResetFlag, Wipe, At, SInv, ReqPart, AcctPart, Gate
<1>2. UNCHANGED <<known, temps, cookies>>
  BY DEF ResetFlag, Wipe
<1>3. ASSUME \A u \in Users : acct'[u].pw = acct[u].pw /\ (acct[u].must => acct'[u].must),
             \A q \in Requests \ {r} : req'[q] = req[q], GateOK(req[r])'
      PROVE  Gate'
  <2>1. SameRows
    BY <1>2, <1>3 DEF SameRows
  <2>2. Flags'
    BY <1>2, <2>1, SameRowsFlags DEF Gate, Flags
  <2> QED BY <1>3, <2>1, <2>2, SameRowsFrame, GateMoves
<1>4. CASE ResetFlag(r)
  <2>1. PICK row : row = [A(r) EXCEPT !.must = TRUE]
    OBVIOUS
  <2>2. row.pw = A(r).pw /\ row.must
    BY <1>1, <2>1 DEF Account
  <2>3. PICK label \in {"dropSessions", "wipeTotp"} : Write(r, row, label)
    BY <1>4, <2>1 DEF ResetFlag
  <2>4. req[r].ev.pw <= acct[req[r].user].pw
    BY <1>1, <1>4 DEF ResetFlag, At, GateOK
  <2>5. /\ \A u \in Users : acct'[u].pw = acct[u].pw /\ (acct[u].must => acct'[u].must)
        /\ \A q \in Requests \ {r} : req'[q] = req[q]
        /\ req'[r].pc = label /\ req'[r].user = req[r].user /\ req'[r].ev = req[r].ev
        /\ acct'[req[r].user].must
    BY <1>1, <2>2, <2>3, WriteSame
  <2>6. Flagged(req[r])'
    BY <1>1, <2>4, <2>5 DEF Flagged
  <2>7. GateOK(req[r])'
    BY <2>5, <2>6 DEF GateOK
  <2> QED BY <1>3, <2>5, <2>7
<1>5. CASE Wipe(r)
  <2>1. req[r].pc \in {"wipeTotp", "wipeKey", "wipeFlag"} /\ (req[r].job # "clearMFA" => Flagged(req[r]))
    BY <1>1, <1>5 DEF Wipe, At, GateOK
  <2>2. ASSUME \A u \in Users : acct'[u].pw = acct[u].pw /\ (acct[u].must => acct'[u].must),
               \A q \in Requests \ {r} : req'[q] = req[q],
               \/ req'[r].pc = "idle"
               \/ /\ req'[r].pc \in {"wipeKey", "wipeFlag", "dropSessions"}
                  /\ req'[r].pc = "dropSessions" => req[r].job # "clearMFA"
                  /\ req'[r].user = req[r].user /\ req'[r].ev = req[r].ev
                  /\ req'[r].job = req[r].job
        PROVE  Gate'
    <3>1. CASE req'[r].pc = "idle"
      <4>1. GateOK(req[r])'
        BY <3>1 DEF GateOK
      <4> QED BY <1>3, <2>2, <4>1
    <3>2. CASE req'[r].pc # "idle"
      <4>1. req[r].job # "clearMFA" => Flagged(req[r])'
        BY <1>1, <2>1, <2>2, <3>2 DEF Flagged
      <4>2. GateOK(req[r])'
        BY <2>2, <3>2, <4>1 DEF GateOK
      <4> QED BY <1>3, <2>2, <4>2
    <3> QED BY <3>1, <3>2
  <2>3. CASE At(r, "wipeTotp")
    <3>1. PICK k : req' = [req EXCEPT ![r].pc = "wipeKey", ![r].key = k]
      BY <1>5, <2>3 DEF Wipe, At
    <3>2. /\ \A q \in Requests \ {r} : req'[q] = req[q]
          /\ req'[r].pc = "wipeKey" /\ req'[r].user = req[r].user /\ req'[r].ev = req[r].ev
          /\ req'[r].job = req[r].job
      BY <1>1, <3>1 DEF Local
    <3>3. acct' = acct \/ acct' = [acct EXCEPT ![req[r].user].totp = "none"]
      BY <1>5, <2>3 DEF Wipe, At
    <3>4. \A u \in Users : acct'[u].pw = acct[u].pw /\ (acct[u].must => acct'[u].must)
      BY <1>1, <3>3 DEF Account
    <3> QED BY <2>2, <3>2, <3>4
  <2>4. CASE At(r, "wipeKey") \/ At(r, "wipeFlag")
    <3>1. PICK row, label : /\ row.pw = A(r).pw /\ row.must = A(r).must /\ Write(r, row, label)
                            /\ label \in {"idle", "wipeFlag", "dropSessions"}
                            /\ label = "dropSessions" => req[r].job # "clearMFA"
      <4>1. PICK row1, row2 : /\ row1 = [A(r) EXCEPT !.key = A(r).key /\ ~req[r].key]
                              /\ row2 = [A(r) EXCEPT !.mfa = FALSE]
        OBVIOUS
      <4>2. \A row \in {row1, row2, A(r)} : row.pw = A(r).pw /\ row.must = A(r).must
        BY <1>1, <4>1 DEF Account
      <4>3. CASE At(r, "wipeKey")
        <5>1. \E row \in {row1, A(r)} : Write(r, row, "wipeFlag")
          BY <1>5, <4>1, <4>3 DEF Wipe, At, TryWrite
        <5> QED BY <4>2, <5>1
      <4>4. CASE At(r, "wipeFlag")
        <5>1. \E row \in {row2, A(r)} :
                Write(r, row, IF req[r].job = "clearMFA" THEN "idle" ELSE "dropSessions")
          BY <1>5, <4>1, <4>4 DEF Wipe, At, TryWrite
        <5> QED BY <4>2, <5>1
      <4> QED BY <2>4, <4>3, <4>4
    <3>2. /\ \A u \in Users : acct'[u].pw = acct[u].pw /\ (acct[u].must => acct'[u].must)
          /\ \A q \in Requests \ {r} : req'[q] = req[q]
          /\ req'[r].pc = label
          /\ label # "idle" => /\ req'[r].user = req[r].user /\ req'[r].ev = req[r].ev
                               /\ req'[r].job = req[r].job
      BY <1>1, <3>1, WriteSame
    <3> QED BY <2>2, <3>1, <3>2
  <2> QED BY <1>5, <2>3, <2>4 DEF Wipe
<1> QED BY <1>4, <1>5

\* The temporary password is shown: if it still stands, its flag is up.
LEMMA ShownGate ==
  ASSUME SInv, SInv', Gate, NEW r \in Requests, ResetSessions(r)
  PROVE  Gate'
<1>1. /\ req[r] \in Local /\ req[r].user \in Users /\ Flagged(req[r]) /\ req[r].ev.pw \in Nat
  BY Working DEF ResetSessions, At, Gate, GateOK, Local, Evidence
<1>2. PICK u \in Users, p \in Nat : u = req[r].user /\ p = req[r].ev.pw
  BY <1>1
<1>3. known' = known \cup {<<u, p>>} /\ UNCHANGED <<acct, temps, cookies>>
  BY <1>2 DEF ResetSessions
<1>4. p <= acct[u].pw /\ (acct[u].pw = p => acct[u].must)
  BY <1>1, <1>2 DEF Flagged
<1>5. \A w, n : <<w, n>> \in known' => <<w, n>> \in known \/ (w = u /\ n = p)
  BY <1>3
<1>6. Flags'
  BY <1>3, <1>4, <1>5 DEF Gate, Flags
<1>7. GateFrame
  <2>1. \A w \in Users : acct[w].pw <= acct[w].pw
    BY DEF SInv, AcctPart, Account
  <2> QED BY <1>3, <2>1 DEF GateFrame, Settled, OnTemp
<1>8. (\A q \in Requests \ {r} : req'[q] = req[q]) /\ req'[r].pc = "idle"
  BY Moved DEF ResetSessions
<1>9. GateOK(req[r])'
  BY <1>8 DEF GateOK
<1> QED BY <1>6, <1>7, <1>8, <1>9, GateMoves

\* Every step keeps it.
LEMMA GateStep == SInv /\ SInv' /\ Gate /\ [Next]_vars => Gate'
<1> SUFFICES ASSUME SInv, SInv', Gate, [Next]_vars PROVE Gate'
  OBVIOUS
<1>1. CASE UNCHANGED vars \/ Tick
  BY <1>1 DEF vars, Tick, Gate, Flags, GateOK, Settled, OnTemp, Flagged
<1>2. ASSUME NEW r \in Requests,
             \/ \E u \in Users :
                  \/ WrongPassword(r, u)
                  \/ \E flow \in Flows : PasswordCheck(r, u, flow)
                  \/ \E job \in Administration : Administer(r, u, job)
             \/ \E c \in cookies :
                  ChangePassword(r, c) \/ \E m \in Methods : SecondFactor(r, c, m)
             \/ \E s \in 1 .. MaxSessions :
                  \/ \E flow \in Flows : SilentSSO(r, s, flow)
                  \/ \E page \in SelfService : Visit(r, s, page)
      PROVE  Gate'
  BY <1>2, BeginsGate
<1>3. ASSUME NEW r \in Requests,
             \/ BumpFailed(r) \/ ClearFailed(r) \/ Rotate(r) \/ Reload(r) \/ Verify(r)
             \/ Create(r) \/ Hand(r) \/ SwitchUser(r) \/ Seat(r) \/ IssueCode(r)
             \/ SelfPassword(r) \/ SelfStep(r) \/ StepVerify(r) \/ StepMark(r)
             \/ Logout(r) \/ SetActive(r) \/ ResetPassword(r) \/ ResetFlag(r)
             \/ Wipe(r) \/ ResetSessions(r) \/ Abort(r)
      PROVE  Gate'
  BY <1>3, PlainSteps, ClearFailedGate, PagesGate, PasswordGate, ResetGate, ShownGate
<1> QED BY <1>1, <1>2, <1>3 DEF Next

\* handlePortalLoginPOST, handlePortalLoginMFA, handlePortalChangePassword: no
\* session opens from the portal's password form, TOTP page or rotation page on a
\* temporary password before it is replaced, however many resets lower the flag
\* and raise it, and whatever cookies are replayed meanwhile.
THEOREM PortalGate == Spec => []PortalGateHolds
<1>1. Init => Gate
  <2> SUFFICES ASSUME Init PROVE Gate
    OBVIOUS
  <2>1. \A u \in Users : acct[u].pw = 1
    BY DEF Init
  <2>2. Flags
    BY <2>1 DEF Init, Flags
  <2>3. \A r \in Requests : GateOK(req[r])
    BY DEF Init, Idle, GateOK
  <2> QED BY <2>2, <2>3 DEF Gate
<1>2. ASSUME Gate PROVE PortalGateHolds
  BY <1>2 DEF Gate, GateOK, Settled, PortalGateHolds, At
<1> QED BY <1>1, <1>2, InitHolds, StepKeeps, GateStep, PTL DEF Spec

=============================================================================
