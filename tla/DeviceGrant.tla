----------------------------- MODULE DeviceGrant -----------------------------
(***************************************************************************)
(* The device authorization grant (RFC 8628): a headless device asks for a *)
(* pair of codes, a signed-in user types the short one into the portal and *)
(* approves or denies, and the device polls /token with the long one until *)
(* it gets tokens or a refusal.                                            *)
(*                                                                         *)
(* As in TokenService a handler is a sequence of actions of one request,   *)
(* cut at the statements other requests can influence and at the publishes *)
(* to the audit journal.  A grant names its two codes.  Grants belong to   *)
(* one client; a request for another client's grant, an expired one or a   *)
(* terminal one is refused without a write, and has no action.  The        *)
(* session a redemption creates lives on in TokenService.                  *)
(***************************************************************************)
EXTENDS Integers, FiniteSets

CONSTANTS
  Users, Grants, Requests,
  None,          \* SQL NULL
  MaxTime,       \* bound: ticks of the clock
  MaxInterval,   \* bound: poll interval
  DeviceTTL,     \* deviceCodeTTL
  PollStep       \* defaultDevicePollInterval

ASSUME DeviceAssumption ==
  /\ {MaxTime, MaxInterval, DeviceTTL, PollStep} \subseteq Nat
  /\ PollStep # 0 /\ PollStep <= MaxInterval
  /\ None \notin Users

VARIABLES
  now,
  users,      \* rows of table users
  active,     \* the users whose column active is true
  rows,       \* table device_grants
  known,      \* grants whose codes left in a 200 response
  shown,      \* <<user, grant>>: confirmation pages a browser has open
  req,        \* local state of each request
  journal,    \* events in the audit journal
  approvals,  \* history: [grant, user, mfa] of every UPDATE to approved
  denials,    \* history: grants an UPDATE set to denied
  minted,     \* history: [grant, user, mfa, n] of every session created
  delivered   \* history: grants whose tokens left in a 200 response

vars == <<now, users, active, rows, known, shown, req, journal, approvals,
          denials, minted, delivered>>

history == <<approvals, denials, minted, delivered>>

-----------------------------------------------------------------------------

Row == [status : {"none", "pending", "approved", "denied", "redeemed", "gone"},
        user : Users \cup {None}, mfa : BOOLEAN,
        interval : 0 .. MaxInterval, polled : Nat \cup {-1}, exp : Nat]
NoRow == [status |-> "none", user |-> None, mfa |-> FALSE, interval |-> 0,
          polled |-> -1, exp |-> 0]
GoneRow == [NoRow EXCEPT !.status = "gone"]

Local == [pc : {"idle", "auditCreated", "approve", "deny", "auditApproved",
                "auditDenied", "recordPoll", "redeem", "loadApprover", "mint",
                "auditRedeemed"},
          grant : Grants \cup {None}, user : Users \cup {None}, mfa : BOOLEAN,
          interval : 0 .. MaxInterval, at : Nat]
Idle == [pc |-> "idle", grant |-> None, user |-> None, mfa |-> FALSE,
         interval |-> 0, at |-> 0]

Events == {"created", "approved", "denied", "redeemed"}

Exists(g) == rows[g].status \notin {"none", "gone"}

Goto(r, label) == req' = [req EXCEPT ![r].pc = label]
Finish(r) == req' = [req EXCEPT ![r] = Idle]

\* logAudit: nil; or an error, with the event stored or not.
Recorded(e) == journal' = journal \cup {e}
Unrecorded(e) == journal' \in {journal, journal \cup {e}}

-----------------------------------------------------------------------------
(* The store.                                                              *)

\* Wrong on purpose: the UPDATE without AND status = 'pending'.
MarkApprovedUnguarded(g, u, mfa) ==
  /\ Exists(g)
  /\ u \in users
  /\ rows' = [rows EXCEPT ![g].status = "approved", ![g].user = u, ![g].mfa = mfa]

\* UPDATE ... WHERE id = $1 AND status = 'pending'; user_id references users.
MarkDeviceGrantApproved(g, u, mfa) ==
  /\ rows[g].status = "pending"
  /\ u \in users
  /\ rows' = [rows EXCEPT ![g].status = "approved", ![g].user = u, ![g].mfa = mfa]

\* Wrong on purpose: the UPDATE without AND status = 'pending'.
MarkDeniedUnguarded(g) ==
  /\ Exists(g)
  /\ rows' = [rows EXCEPT ![g].status = "denied"]

MarkDeviceGrantDenied(g) ==
  /\ rows[g].status = "pending"
  /\ rows' = [rows EXCEPT ![g].status = "denied"]

\* Wrong on purpose: the UPDATE without AND status = 'approved'.
MarkRedeemedUnguarded(g) ==
  /\ Exists(g)
  /\ rows' = [rows EXCEPT ![g].status = "redeemed"]

MarkDeviceGrantRedeemed(g) ==
  /\ rows[g].status = "approved"
  /\ rows' = [rows EXCEPT ![g].status = "redeemed"]

-----------------------------------------------------------------------------
(* POST /device_authorization.                                             *)

\* handleDeviceAuthorization, CreateDeviceGrant.
Authorize(r, g) ==
  /\ req[r].pc = "idle"
  /\ rows[g].status = "none"
  /\ rows' = [rows EXCEPT ![g] =
                [NoRow EXCEPT !.status = "pending", !.interval = PollStep,
                              !.exp = now + DeviceTTL]]
  /\ req' = [req EXCEPT ![r] = [Idle EXCEPT !.pc = "auditCreated", !.grant = g]]
  /\ UNCHANGED <<now, users, active, known, shown, journal, history>>

\* ... and its audit event; without it the codes go nowhere, the row stays.
AuditCreated(r) ==
  /\ req[r].pc = "auditCreated"
  /\ \/ /\ Recorded(<<"created", req[r].grant>>)
        /\ known' = known \cup {req[r].grant}
     \/ /\ Unrecorded(<<"created", req[r].grant>>)
        /\ UNCHANGED known
  /\ Finish(r)
  /\ UNCHANGED <<now, users, active, rows, shown, history>>

(* The portal pages.                                                       *)

\* handleDevice: the confirmation page, for a code still pending.
EnterCode(u, g) ==
  /\ u \in users
  /\ g \in known
  /\ rows[g].status = "pending"
  /\ now <= rows[g].exp
  /\ shown' = shown \cup {<<u, g>>}
  /\ UNCHANGED <<now, users, active, rows, known, req, journal, history>>

\* handleDeviceConfirm behind portalAuth.  The form carries the grant's id;
\* it may be submitted twice, late, or from two browsers.  Whether the portal
\* session is MFA-verified is read here.
Confirm(r, u, g, action, mfa) ==
  /\ req[r].pc = "idle"
  /\ u \in users
  /\ <<u, g>> \in shown
  /\ req' = [req EXCEPT ![r] = [Idle EXCEPT !.pc = action, !.grant = g,
                                 !.user = u, !.mfa = mfa]]
  /\ UNCHANGED <<now, users, active, rows, known, shown, journal, history>>

\* case "approve": the UPDATE, or the page "already processed or expired".
Approve(r) ==
  /\ req[r].pc = "approve"
  /\ \/ /\ MarkDeviceGrantApproved(req[r].grant, req[r].user, req[r].mfa)
        /\ approvals' = approvals \cup
             {[grant |-> req[r].grant, user |-> req[r].user, mfa |-> req[r].mfa]}
        /\ Goto(r, "auditApproved")
     \/ /\ rows[req[r].grant].status # "pending" \/ req[r].user \notin users
        /\ Finish(r)
        /\ UNCHANGED <<rows, approvals>>
  /\ UNCHANGED <<now, users, active, known, shown, journal, denials, minted, delivered>>

\* case "deny": the error of MarkDeviceGrantDenied is ignored, whether the row
\* was not pending or the statement failed on one that is; the event follows.
Deny(r) ==
  /\ req[r].pc = "deny"
  /\ \/ /\ MarkDeviceGrantDenied(req[r].grant)
        /\ denials' = denials \cup {req[r].grant}
     \/ UNCHANGED <<rows, denials>>
  /\ Goto(r, "auditDenied")
  /\ UNCHANGED <<now, users, active, known, shown, journal, approvals, minted, delivered>>

\* The audit event of either decision, after the fact.
AuditDecision(r) ==
  /\ \E e \in {"approved", "denied"} :
       /\ req[r].pc = (IF e = "approved" THEN "auditApproved" ELSE "auditDenied")
       /\ \/ Recorded(<<e, req[r].grant>>)
          \/ Unrecorded(<<e, req[r].grant>>)
  /\ Finish(r)
  /\ UNCHANGED <<now, users, active, rows, known, shown, history>>

(* grant_type=urn:ietf:params:oauth:grant-type:device_code.                *)

\* handleTokenDeviceCode, the row as it is read: pending answers
\* authorization_pending or slow_down after recording the poll, approved
\* goes on to redeem with the approver it has read.
PollBegin(r, g) ==
  /\ req[r].pc = "idle"
  /\ g \in known
  /\ Exists(g)
  /\ now <= rows[g].exp
  /\ \/ /\ rows[g].status = "pending"
        /\ \E i \in 0 .. MaxInterval :
             /\ i = IF rows[g].polled # -1 /\ now - rows[g].polled < rows[g].interval
                    THEN rows[g].interval + PollStep
                    ELSE rows[g].interval
             /\ req' = [req EXCEPT ![r] = [Idle EXCEPT !.pc = "recordPoll",
                                            !.grant = g, !.interval = i, !.at = now]]
     \/ /\ rows[g].status = "approved"
        /\ req' = [req EXCEPT ![r] = [Idle EXCEPT !.pc = "redeem", !.grant = g,
                                       !.user = rows[g].user, !.mfa = rows[g].mfa]]
  /\ UNCHANGED <<now, users, active, rows, known, shown, journal, history>>

\* UpdateDeviceGrantPoll writes what was computed from the earlier read,
\* whatever the row has become.
RecordPoll(r) ==
  /\ req[r].pc = "recordPoll"
  /\ rows' = IF Exists(req[r].grant)
             THEN [rows EXCEPT ![req[r].grant].polled = req[r].at,
                               ![req[r].grant].interval = req[r].interval]
             ELSE rows
  /\ Finish(r)
  /\ UNCHANGED <<now, users, active, known, shown, journal, history>>

\* MarkDeviceGrantRedeemed before anything is issued; or lost to another poll
\* (or to the reaper), answered invalid_grant.
Redeem(r) ==
  /\ req[r].pc = "redeem"
  /\ \/ MarkDeviceGrantRedeemed(req[r].grant) /\ Goto(r, "loadApprover")
     \/ /\ rows[req[r].grant].status # "approved"
        /\ Finish(r)
        /\ UNCHANGED rows
  /\ UNCHANGED <<now, users, active, known, shown, journal, history>>

\* grant.UserID is nil, the approver is gone or inactive: the grant is spent
\* for nothing.
LoadApprover(r) ==
  /\ req[r].pc = "loadApprover"
  /\ \/ req[r].user \in active /\ Goto(r, "mint")
     \/ req[r].user \notin active /\ Finish(r)
  /\ UNCHANGED <<now, users, active, rows, known, shown, journal, history>>

\* mintTokenResponseWithMFAAt: the session carries the MFA state the row had
\* when it was read.
Mint(r) ==
  /\ req[r].pc = "mint"
  /\ \/ /\ req[r].user \in users
        /\ minted' = minted \cup
             {[grant |-> req[r].grant, user |-> req[r].user, mfa |-> req[r].mfa,
               n |-> Cardinality(minted)]}
        /\ Goto(r, "auditRedeemed")
     \/ /\ req[r].user \notin users
        /\ Finish(r)
        /\ UNCHANGED minted
  /\ UNCHANGED <<now, users, active, rows, known, shown, journal, approvals, denials, delivered>>

\* Wrong on purpose: the 200 goes out whatever logAudit returned.
AuditRedeemedLax(r) ==
  /\ req[r].pc = "auditRedeemed"
  /\ Unrecorded(<<"redeemed", req[r].grant>>)
  /\ delivered' = delivered \cup {req[r].grant}
  /\ Finish(r)
  /\ UNCHANGED <<now, users, active, rows, known, shown, approvals, denials, minted>>

\* logAudit(ActionDeviceCodeRedeemed), then the 200; or the 503.
AuditRedeemed(r) ==
  /\ req[r].pc = "auditRedeemed"
  /\ \/ /\ Recorded(<<"redeemed", req[r].grant>>)
        /\ delivered' = delivered \cup {req[r].grant}
     \/ /\ Unrecorded(<<"redeemed", req[r].grant>>)
        /\ UNCHANGED delivered
  /\ Finish(r)
  /\ UNCHANGED <<now, users, active, rows, known, shown, approvals, denials, minted>>

-----------------------------------------------------------------------------
(* Everything else that touches these rows.                                *)

\* runDeviceGrantReaper: DELETE FROM device_grants WHERE expires_at < NOW().
Reap ==
  /\ \E g \in Grants : Exists(g) /\ rows[g].exp < now
  /\ rows' = [g \in Grants |->
                IF Exists(g) /\ rows[g].exp < now THEN GoneRow ELSE rows[g]]
  /\ UNCHANGED <<now, users, active, known, shown, req, journal, history>>

\* DELETE FROM users: device_grants.user_id is set to NULL.
DeleteUser(u) ==
  /\ u \in users
  /\ users' = users \ {u}
  /\ active' = active \ {u}
  /\ rows' = [g \in Grants |-> IF rows[g].user = u
                               THEN [rows[g] EXCEPT !.user = None] ELSE rows[g]]
  /\ UNCHANGED <<now, known, shown, req, journal, history>>

\* UpdateUser, the column active.
SetActive(u) ==
  /\ u \in users
  /\ active' \in {active \cup {u}, active \ {u}}
  /\ active' # active
  /\ UNCHANGED <<now, users, rows, known, shown, req, journal, history>>

\* A request dies between two steps.
Abort(r) ==
  /\ req[r].pc # "idle"
  /\ Finish(r)
  /\ UNCHANGED <<now, users, active, rows, known, shown, journal, history>>

Tick ==
  /\ now < MaxTime
  /\ now' = now + 1
  /\ UNCHANGED <<users, active, rows, known, shown, req, journal, history>>

-----------------------------------------------------------------------------

Init ==
  /\ now = 0
  /\ users = Users /\ active = Users
  /\ rows = [g \in Grants |-> NoRow]
  /\ known = {} /\ shown = {}
  /\ req = [r \in Requests |-> Idle]
  /\ journal = {} /\ approvals = {} /\ denials = {} /\ minted = {} /\ delivered = {}

Next ==
  \/ \E r \in Requests, g \in Grants : Authorize(r, g) \/ PollBegin(r, g)
  \/ \E u \in Users, g \in Grants : EnterCode(u, g)
  \/ \E r \in Requests, u \in Users, g \in Grants, a \in {"approve", "deny"},
        mfa \in BOOLEAN : Confirm(r, u, g, a, mfa)
  \/ \E r \in Requests :
       \/ AuditCreated(r) \/ Approve(r) \/ Deny(r) \/ AuditDecision(r)
       \/ RecordPoll(r) \/ Redeem(r) \/ LoadApprover(r) \/ Mint(r)
       \/ AuditRedeemed(r) \/ Abort(r)
  \/ \E u \in Users : DeleteUser(u) \/ SetActive(u)
  \/ Reap
  \/ Tick

Spec == Init /\ [][Next]_vars

-----------------------------------------------------------------------------
(* Properties.                                                             *)

\* Every variable has its type, and the foreign key device_grants.user_id
\* names an account that exists.
DeviceTypeOK ==
  /\ now \in Nat
  /\ users \subseteq Users /\ active \subseteq users
  /\ rows \in [Grants -> Row]
  /\ \A g \in Grants : rows[g].user \in users \cup {None}
  /\ known \subseteq Grants
  /\ shown \subseteq Users \X Grants
  /\ req \in [Requests -> Local]
  /\ journal \subseteq Events \X Grants
  /\ approvals \subseteq [grant : Grants, user : Users, mfa : BOOLEAN]
  /\ denials \subseteq Grants
  /\ minted \subseteq [grant : Grants, user : Users, mfa : BOOLEAN, n : Nat]
  /\ delivered \subseteq Grants

\* However many polls race for an approved grant, it opens at most one
\* session (handleTokenDeviceCode, MarkDeviceGrantRedeemed).
DeviceSingleUse == \A m, n \in minted : m.grant = n.grant => m = n

\* A session from a device grant speaks for the one user who approved it,
\* with the MFA state of that user's browser session at that moment, though
\* the page was open in several browsers and the row was read before it was
\* claimed (MarkDeviceGrantApproved).
ApproverBound ==
  \A m \in minted : {a \in approvals : a.grant = m.grant} =
                      {[grant |-> m.grant, user |-> m.user, mfa |-> m.mfa]}

\* Nothing is issued on a grant that was denied, by whatever path
\* (handleDeviceConfirm against a poll in flight).
DeniedIssuesNothing == \A m \in minted : m.grant \notin denials

\* Tokens reach the device only with the event that records them, and that
\* event implies a session (logAudit before writeJSON).
DeliveredWasJournalled ==
  \A g \in Grants :
    /\ g \in delivered => <<"redeemed", g>> \in journal
    /\ <<"redeemed", g>> \in journal => \E m \in minted : m.grant = g

\* A decision is final: an approved grant is never denied, a denied one never
\* approved, a spent one never revived; every one of them may be reaped.
DecisionIsFinal ==
  [][\A g \in Grants :
       /\ rows[g].status = "approved" => rows'[g].status \in {"approved", "redeemed", "gone"}
       /\ rows[g].status \in {"denied", "redeemed", "gone"} =>
            rows'[g].status \in {rows[g].status, "gone"}]_vars

=============================================================================
