-------------------------- MODULE DeviceGrantProofs --------------------------
(***************************************************************************)
(* The properties of DeviceGrant, for any number of users, grants and      *)
(* requests in flight, and for every value of the bounds.                  *)
(***************************************************************************)
EXTENDS DeviceGrant, FiniteSetTheorems, TLAPS

-----------------------------------------------------------------------------
(* The inductive invariant.                                                *)

\* What a request's local variables hold at each of its labels.
LocalOK(v) ==
  /\ v.pc # "idle" => v.grant \in Grants
  /\ v.pc \in {"approve", "deny", "mint"} => v.user \in Users

DeviceTyped ==
  /\ DeviceTypeOK /\ IsFiniteSet(minted)
  /\ \A r \in Requests : LocalOK(req[r])

\* The approval of grant g by user u.
Approval(g, u, m) == [grant |-> g, user |-> u, mfa |-> m]

\* One decision per grant, and the row says which; while it is approved it names
\* the approver, unless that account is gone.
Decided ==
  /\ \A a \in approvals : /\ rows[a.grant].status \in {"approved", "redeemed", "gone"}
                          /\ a.grant \notin denials
  /\ \A g \in denials : rows[g].status \in {"denied", "gone"}
  /\ \A a, b \in approvals : a.grant = b.grant => a = b
  /\ \A g \in Grants : rows[g].status = "approved" /\ rows[g].user # None =>
       Approval(g, rows[g].user, rows[g].mfa) \in approvals

\* A poll that found the grant approved carries the approver it has read.
CarriedOK(v) ==
  v.pc \in {"redeem", "loadApprover", "mint"} /\ v.user # None =>
    Approval(v.grant, v.user, v.mfa) \in approvals
Carried == \A r \in Requests : CarriedOK(req[r])

\* A poll that has claimed the grant and opened no session yet.
Claims(v) == v.pc \in {"loadApprover", "mint"}
ClaimOK(v) ==
  Claims(v) => /\ rows[v.grant].status \in {"redeemed", "gone"}
               /\ \A m \in minted : m.grant # v.grant
Claimed ==
  /\ \A r \in Requests : ClaimOK(req[r])
  /\ \A r, q \in Requests : Claims(req[r]) /\ Claims(req[q]) /\ req[r].grant = req[q].grant => r = q

\* A session was opened once, on a spent grant, for its approver.
Opened ==
  /\ DeviceSingleUse
  /\ \A m \in minted : /\ rows[m.grant].status \in {"redeemed", "gone"}
                       /\ Approval(m.grant, m.user, m.mfa) \in approvals

\* The event of a redemption is about a session.
EventOK(v) == v.pc = "auditRedeemed" => \E m \in minted : m.grant = v.grant
Journalled == DeliveredWasJournalled /\ \A r \in Requests : EventOK(req[r])

DeviceInv == DeviceTyped /\ Decided /\ Carried /\ Claimed /\ Opened /\ Journalled

-----------------------------------------------------------------------------
(* Types.                                                                  *)

\* The empty values are well typed.
LEMMA Empties == Idle \in Local /\ LocalOK(Idle) /\ NoRow \in Row /\ GoneRow \in Row
<1>1. 0 \in 0 .. MaxInterval /\ 0 \in Nat /\ -1 \in Nat \cup {-1}
  BY DeviceAssumption
<1>2. Idle \in Local /\ LocalOK(Idle)
  BY <1>1 DEF Idle, Local, LocalOK
<1>3. NoRow \in Row
  BY <1>1 DEF NoRow, Row
<1>4. GoneRow \in Row
  BY <1>3 DEF GoneRow, Row
<1> QED BY <1>2, <1>3, <1>4

\* A request takes a step.
LEMMA ReqTyped ==
  ASSUME DeviceTyped, NEW r \in Requests, NEW v \in Local, LocalOK(v),
         req' = [req EXCEPT ![r] = v]
  PROVE  req' \in [Requests -> Local] /\ \A q \in Requests : LocalOK(req'[q])
BY DEF DeviceTyped, DeviceTypeOK

\* A request ends.
LEMMA FinishTyped ==
  ASSUME DeviceTyped, NEW r \in Requests, Finish(r)
  PROVE  req' \in [Requests -> Local] /\ \A q \in Requests : LocalOK(req'[q])
BY Empties, ReqTyped DEF Finish

\* A request goes on to another label, with what it has.
LEMMA GotoTyped ==
  ASSUME DeviceTyped, NEW r \in Requests, req[r].pc # "idle",
         NEW l \in {"auditApproved", "auditDenied", "loadApprover", "mint", "auditRedeemed"},
         l = "mint" => req[r].user \in Users, Goto(r, l)
  PROVE  req' \in [Requests -> Local] /\ \A q \in Requests : LocalOK(req'[q])
<1> DEFINE v == [req[r] EXCEPT !.pc = l]
<1>1. req[r] \in Local /\ LocalOK(req[r])
  BY DEF DeviceTyped, DeviceTypeOK
<1>2. v \in Local
  BY <1>1 DEF Local
<1>3. LocalOK(v)
  BY <1>1 DEF LocalOK, Local
<1>4. req' = [req EXCEPT ![r] = v]
  BY DEF Goto
<1> HIDE DEF v
<1> QED BY <1>2, <1>3, <1>4, ReqTyped

\* Marking a row keeps the table typed.
LEMMA MarkTyped ==
  ASSUME DeviceTyped, NEW g \in Grants, NEW st \in {"denied", "redeemed"},
         rows' = [rows EXCEPT ![g].status = st]
  PROVE  rows' \in [Grants -> Row] /\ \A h \in Grants : rows'[h].user = rows[h].user
<1>1. rows[g] \in Row /\ rows \in [Grants -> Row]
  BY DEF DeviceTyped, DeviceTypeOK
<1>2. [rows[g] EXCEPT !.status = st] \in Row
  BY <1>1 DEF Row
<1>3. [rows[g] EXCEPT !.status = st].user = rows[g].user
  BY <1>1 DEF Row
<1> QED BY <1>1, <1>2, <1>3

\* The journal gains events only.
LEMMA EventsTyped ==
  ASSUME DeviceTyped, NEW g \in Grants, NEW e \in Events,
         Recorded(<<e, g>>) \/ Unrecorded(<<e, g>>)
  PROVE  journal' \subseteq Events \X Grants
BY DEF Recorded, Unrecorded, DeviceTyped, DeviceTypeOK

\* What the types say of the variables, one by one.
LEMMA TypedParts ==
  ASSUME DeviceTyped
  PROVE  /\ now \in Nat /\ users \subseteq Users /\ active \subseteq users
         /\ rows \in [Grants -> Row] /\ (\A g \in Grants : rows[g].user \in users \cup {None})
         /\ known \subseteq Grants /\ shown \subseteq Users \X Grants
         /\ req \in [Requests -> Local] /\ (\A r \in Requests : LocalOK(req[r]))
         /\ journal \subseteq Events \X Grants
         /\ approvals \subseteq [grant : Grants, user : Users, mfa : BOOLEAN]
         /\ denials \subseteq Grants /\ delivered \subseteq Grants
         /\ minted \subseteq [grant : Grants, user : Users, mfa : BOOLEAN, n : Nat]
         /\ IsFiniteSet(minted)
BY DEF DeviceTyped, DeviceTypeOK

\* The steps of a request that touch nothing but the request.
LEMMA QuietTyped ==
  ASSUME DeviceTyped, UNCHANGED <<now, users, active, rows, known, shown, journal, history>>,
         req' \in [Requests -> Local], \A q \in Requests : LocalOK(req'[q])
  PROVE  DeviceTyped'
BY DEF DeviceTyped, DeviceTypeOK, history

\* Asking for a grant keeps the types.
LEMMA AuthorizeTyped ==
  ASSUME DeviceTyped, NEW r \in Requests, NEW g \in Grants, Authorize(r, g)
  PROVE  DeviceTyped'
<1> USE TypedParts
<1> DEFINE v == [Idle EXCEPT !.pc = "auditCreated", !.grant = g]
           w == [NoRow EXCEPT !.status = "pending", !.interval = PollStep, !.exp = now + DeviceTTL]
<1>1. v \in Local /\ LocalOK(v)
  BY Empties DEF Local, LocalOK, Idle
<1>2. now + DeviceTTL \in Nat /\ PollStep \in 0 .. MaxInterval
  BY DeviceAssumption
<1>3. w \in Row /\ w.user = None
  BY <1>2, Empties DEF Row, NoRow
<1>4. req' = [req EXCEPT ![r] = v] /\ rows' = [rows EXCEPT ![g] = w]
  BY DEF Authorize
<1>5. UNCHANGED <<now, users, active, known, shown, journal, history>>
  BY DEF Authorize
<1> HIDE DEF v, w
<1>6. req' \in [Requests -> Local] /\ \A q \in Requests : LocalOK(req'[q])
  BY <1>1, <1>4, ReqTyped
<1>7. rows' \in [Grants -> Row] /\ \A h \in Grants : rows'[h].user \in users \cup {None}
  BY <1>3, <1>4
<1> QED BY <1>5, <1>6, <1>7 DEF DeviceTyped, DeviceTypeOK, history

\* Deciding keeps the types.
LEMMA DecideTyped ==
  ASSUME DeviceTyped, NEW r \in Requests, Approve(r) \/ Deny(r)
  PROVE  DeviceTyped'
<1> USE TypedParts
<1>1. req[r] \in Local /\ LocalOK(req[r]) /\ req[r].pc \in {"approve", "deny"}
  BY DEF Approve, Deny
<1>2. req[r].grant \in Grants /\ req[r].user \in Users /\ req[r].mfa \in BOOLEAN
  BY <1>1 DEF LocalOK, Local
<1>3. req' \in [Requests -> Local] /\ \A q \in Requests : LocalOK(req'[q])
  BY <1>1, FinishTyped, GotoTyped DEF Approve, Deny
<1>4. rows' \in [Grants -> Row] /\ \A h \in Grants : rows'[h].user \in users \cup {None}
  <2>1. CASE MarkDeviceGrantApproved(req[r].grant, req[r].user, req[r].mfa)
    <3> DEFINE w == [rows[req[r].grant] EXCEPT !.status = "approved", !.user = req[r].user,
                                              !.mfa = req[r].mfa]
    <3>1. rows' = [rows EXCEPT ![req[r].grant] = w] /\ req[r].user \in users
      BY <2>1 DEF MarkDeviceGrantApproved
    <3>2. rows[req[r].grant] \in Row /\ req[r].user \in Users \cup {None}
      BY <1>2
    <3>3. w \in Row /\ w.user = req[r].user
      BY <1>2, <3>2 DEF Row
    <3> HIDE DEF w
    <3> QED BY <1>2, <3>1, <3>3
  <2>2. CASE MarkDeviceGrantDenied(req[r].grant)
    BY <1>2, <2>2, MarkTyped DEF MarkDeviceGrantDenied
  <2>3. CASE rows' = rows
    BY <2>3
  <2> QED BY <2>1, <2>2, <2>3 DEF Approve, Deny
<1>5. /\ approvals' \subseteq [grant : Grants, user : Users, mfa : BOOLEAN]
      /\ denials' \subseteq Grants
  BY <1>2 DEF Approve, Deny
<1>6. UNCHANGED <<now, users, active, known, shown, journal, minted, delivered>>
  BY DEF Approve, Deny
<1> QED BY <1>3, <1>4, <1>5, <1>6 DEF DeviceTyped, DeviceTypeOK

\* Publishing an event keeps the types.
LEMMA AuditTyped ==
  ASSUME DeviceTyped, NEW r \in Requests,
         AuditCreated(r) \/ AuditDecision(r) \/ AuditRedeemed(r)
  PROVE  DeviceTyped'
<1> USE TypedParts
<1>1. req[r].grant \in Grants
  BY DEF AuditCreated, AuditDecision, AuditRedeemed, LocalOK
<1>2. req' \in [Requests -> Local] /\ \A q \in Requests : LocalOK(req'[q])
  BY FinishTyped DEF AuditCreated, AuditDecision, AuditRedeemed
<1>3. \E e \in Events : Recorded(<<e, req[r].grant>>) \/ Unrecorded(<<e, req[r].grant>>)
  BY DEF AuditCreated, AuditDecision, AuditRedeemed, Events
<1>4. journal' \subseteq Events \X Grants
  BY <1>1, <1>3, EventsTyped
<1>5. known' \subseteq Grants /\ delivered' \subseteq Grants
  BY <1>1 DEF AuditCreated, AuditDecision, AuditRedeemed, history
<1>6. UNCHANGED <<now, users, active, rows, shown, approvals, denials, minted>>
  BY DEF AuditCreated, AuditDecision, AuditRedeemed, history
<1> QED BY <1>2, <1>4, <1>5, <1>6 DEF DeviceTyped, DeviceTypeOK

\* Polling keeps the types.
LEMMA PollTyped ==
  ASSUME DeviceTyped, NEW r \in Requests, NEW g \in Grants, PollBegin(r, g)
  PROVE  DeviceTyped'
<1> USE TypedParts
<1>1. UNCHANGED <<now, users, active, rows, known, shown, journal, history>>
  BY DEF PollBegin
<1>2. ASSUME NEW i \in 0 .. MaxInterval,
             req' = [req EXCEPT ![r] = [Idle EXCEPT !.pc = "recordPoll", !.grant = g,
                                                    !.interval = i, !.at = now]]
      PROVE  req' \in [Requests -> Local] /\ \A q \in Requests : LocalOK(req'[q])
  <2> DEFINE v == [Idle EXCEPT !.pc = "recordPoll", !.grant = g, !.interval = i, !.at = now]
  <2>1. v \in Local /\ LocalOK(v)
    BY Empties DEF Local, LocalOK, Idle
  <2> QED BY <1>2, <2>1, ReqTyped
<1>3. ASSUME req' = [req EXCEPT ![r] = [Idle EXCEPT !.pc = "redeem", !.grant = g,
                                                    !.user = rows[g].user, !.mfa = rows[g].mfa]]
      PROVE  req' \in [Requests -> Local] /\ \A q \in Requests : LocalOK(req'[q])
  <2> DEFINE v == [Idle EXCEPT !.pc = "redeem", !.grant = g, !.user = rows[g].user,
                               !.mfa = rows[g].mfa]
  <2>1. rows[g].user \in Users \cup {None} /\ rows[g].mfa \in BOOLEAN
    BY DEF Row
  <2>2. v \in Local /\ LocalOK(v)
    BY <2>1, Empties DEF Local, LocalOK, Idle
  <2> QED BY <1>3, <2>2, ReqTyped
<1>4. req' \in [Requests -> Local] /\ \A q \in Requests : LocalOK(req'[q])
  BY <1>2, <1>3 DEF PollBegin
<1> QED BY <1>1, <1>4, QuietTyped

\* The steps after a poll keep the types.
LEMMA RedeemTyped ==
  ASSUME DeviceTyped, NEW r \in Requests,
         RecordPoll(r) \/ Redeem(r) \/ LoadApprover(r) \/ Mint(r) \/ Abort(r)
  PROVE  DeviceTyped'
<1> USE TypedParts
<1>1. req[r] \in Local /\ LocalOK(req[r]) /\ req[r].pc # "idle"
  BY DEF RecordPoll, Redeem, LoadApprover, Mint, Abort
<1>2. /\ req[r].grant \in Grants /\ req[r].mfa \in BOOLEAN /\ req[r].at \in Nat
      /\ req[r].interval \in 0 .. MaxInterval
  BY <1>1 DEF LocalOK, Local
<1>3. req' \in [Requests -> Local] /\ \A q \in Requests : LocalOK(req'[q])
  BY <1>1, FinishTyped, GotoTyped DEF RecordPoll, Redeem, LoadApprover, Mint, Abort
<1>4. rows' \in [Grants -> Row] /\ \A h \in Grants : rows'[h].user = rows[h].user
  <2>1. CASE rows' = [rows EXCEPT ![req[r].grant].polled = req[r].at,
                                  ![req[r].grant].interval = req[r].interval]
    <3> DEFINE w == [rows[req[r].grant] EXCEPT !.polled = req[r].at, !.interval = req[r].interval]
    <3>1. w \in Row /\ w.user = rows[req[r].grant].user
      BY <1>2, ZenonT(60) DEF Row
    <3>2. rows' = [rows EXCEPT ![req[r].grant] = w]
      BY <2>1
    <3> HIDE DEF w
    <3> QED BY <1>2, <3>1, <3>2
  <2>2. CASE MarkDeviceGrantRedeemed(req[r].grant)
    BY <1>2, <2>2, MarkTyped DEF MarkDeviceGrantRedeemed
  <2>3. CASE rows' = rows
    BY <2>3
  <2> QED BY <2>1, <2>2, <2>3 DEF RecordPoll, Redeem, LoadApprover, Mint, Abort
<1>5. /\ minted' \subseteq [grant : Grants, user : Users, mfa : BOOLEAN, n : Nat]
      /\ IsFiniteSet(minted')
  <2>1. CASE Mint(r)
    <3>1. Cardinality(minted) \in Nat
      BY FS_CardinalityType
    <3>2. req[r].user \in Users
      BY <1>1, <2>1 DEF Mint, LocalOK
    <3>3. [grant |-> req[r].grant, user |-> req[r].user, mfa |-> req[r].mfa,
           n |-> Cardinality(minted)] \in [grant : Grants, user : Users, mfa : BOOLEAN, n : Nat]
      BY <1>2, <3>1, <3>2
    <3>4. \A x : IsFiniteSet(minted \cup {x})
      BY FS_AddElement
    <3> QED BY <2>1, <3>3, <3>4, ZenonT(60) DEF Mint
  <2>2. CASE minted' = minted
    BY <2>2
  <2> QED BY <2>1, <2>2 DEF RecordPoll, Redeem, LoadApprover, Abort, history
<1>6. UNCHANGED <<now, users, active, known, shown, journal, approvals, denials, delivered>>
  BY DEF RecordPoll, Redeem, LoadApprover, Mint, Abort, history
<1> QED BY <1>3, <1>4, <1>5, <1>6 DEF DeviceTyped, DeviceTypeOK

\* The rest of the system keeps the types.
LEMMA WorldTyped ==
  ASSUME DeviceTyped,
         \/ \E u \in Users, g \in Grants : EnterCode(u, g)
         \/ \E r \in Requests, u \in Users, g \in Grants, a \in {"approve", "deny"},
               mfa \in BOOLEAN : Confirm(r, u, g, a, mfa)
         \/ \E u \in Users : DeleteUser(u) \/ SetActive(u)
         \/ Reap \/ Tick
  PROVE  DeviceTyped'
<1> USE TypedParts
<1>1. ASSUME NEW u \in Users, NEW g \in Grants, EnterCode(u, g) PROVE DeviceTyped'
  BY <1>1 DEF EnterCode, DeviceTyped, DeviceTypeOK, history
<1>2. ASSUME NEW r \in Requests, NEW u \in Users, NEW g \in Grants,
             NEW a \in {"approve", "deny"}, NEW mfa \in BOOLEAN, Confirm(r, u, g, a, mfa)
      PROVE  DeviceTyped'
  <2> DEFINE v == [Idle EXCEPT !.pc = a, !.grant = g, !.user = u, !.mfa = mfa]
  <2>1. v \in Local /\ LocalOK(v)
    BY Empties DEF Local, LocalOK, Idle
  <2>2. req' = [req EXCEPT ![r] = v]
    BY <1>2 DEF Confirm
  <2>3. UNCHANGED <<now, users, active, rows, known, shown, journal, history>>
    BY <1>2 DEF Confirm
  <2> HIDE DEF v
  <2> QED BY <2>1, <2>2, <2>3, ReqTyped, QuietTyped
<1>3. ASSUME NEW u \in Users, DeleteUser(u) PROVE DeviceTyped'
  <2>1. ASSUME NEW g \in Grants
        PROVE  [rows[g] EXCEPT !.user = None] \in Row /\ [rows[g] EXCEPT !.user = None].user = None
    BY DEF Row
  <2>2. rows' \in [Grants -> Row]
    BY <1>3, <2>1 DEF DeleteUser
  <2>3. \A g \in Grants : rows'[g].user \in users' \cup {None}
    BY <1>3, <2>1 DEF DeleteUser
  <2> QED BY <1>3, <2>2, <2>3 DEF DeleteUser, DeviceTyped, DeviceTypeOK, history
<1>4. ASSUME NEW u \in Users, SetActive(u) PROVE DeviceTyped'
  BY <1>4 DEF SetActive, DeviceTyped, DeviceTypeOK, history
<1>5. CASE Reap
  <2>1. GoneRow.user = None
    BY DEF GoneRow, NoRow
  <2> QED BY <1>5, <2>1, Empties DEF Reap, DeviceTyped, DeviceTypeOK, history
<1>6. CASE Tick
  BY <1>6 DEF Tick, DeviceTyped, DeviceTypeOK, history
<1> QED BY <1>1, <1>2, <1>3, <1>4, <1>5, <1>6

-----------------------------------------------------------------------------
(* The safety invariant.                                                   *)

\* A row may be created, spent or reaped, and may lose its approver; who approved
\* it does not change.
RowKeeps(g) ==
  /\ rows[g].status = "gone" => rows'[g].status = "gone"
  /\ rows[g].status = "redeemed" => rows'[g].status \in {"redeemed", "gone"}
  /\ rows[g].status = "approved" => rows'[g].status \in {"approved", "redeemed", "gone"}
  /\ rows[g].status = "denied" => rows'[g].status \in {"denied", "gone"}
  /\ rows'[g].status = "approved" /\ rows'[g].user # None =>
       /\ rows[g].status = "approved"
       /\ rows'[g].user = rows[g].user /\ rows'[g].mfa = rows[g].mfa
RowsKeep == \A g \in Grants : RowKeeps(g)

\* Nobody decides anything, and the rows keep what was decided.
LEMMA DecidedKeeps ==
  ASSUME DeviceInv, RowsKeep, approvals' = approvals, denials' = denials
  PROVE  Decided'
<1>1. (\A a \in approvals : a.grant \in Grants) /\ denials \subseteq Grants
  BY TypedParts DEF DeviceInv
<1>2. \A a \in approvals : rows'[a.grant].status \in {"approved", "redeemed", "gone"}
  BY <1>1 DEF DeviceInv, Decided, RowsKeep, RowKeeps
<1>3. \A g \in denials : rows'[g].status \in {"denied", "gone"}
  BY <1>1 DEF DeviceInv, Decided, RowsKeep, RowKeeps
<1>4. \A g \in Grants : rows'[g].status = "approved" /\ rows'[g].user # None =>
        Approval(g, rows'[g].user, rows'[g].mfa) \in approvals
  BY DEF DeviceInv, Decided, RowsKeep, RowKeeps
<1> QED BY <1>2, <1>3, <1>4 DEF DeviceInv, Decided, Approval

\* Spent and reaped grants stay so.
SpentKeeps == \A g \in Grants : rows[g].status \in {"redeemed", "gone"} =>
                                  rows'[g].status \in {"redeemed", "gone"}

\* Nobody opens a session.
LEMMA OpenedKeeps ==
  ASSUME DeviceInv, SpentKeeps, approvals \subseteq approvals', minted' = minted
  PROVE  Opened'
<1>1. \A m \in minted : m.grant \in Grants
  BY TypedParts DEF DeviceInv
<1> QED BY <1>1 DEF DeviceInv, Opened, DeviceSingleUse, SpentKeeps, Approval

\* A request takes a step that claims nothing new.
LEMMA ReqKeeps ==
  ASSUME DeviceInv, SpentKeeps, approvals \subseteq approvals', minted' = minted,
         NEW r \in Requests, NEW v, req' = [req EXCEPT ![r] = v],
         CarriedOK(v)', EventOK(v)',
         Claims(v) => Claims(req[r]) /\ v.grant = req[r].grant
  PROVE  Carried' /\ Claimed' /\ \A q \in Requests : EventOK(req[q])'
<1>1. \A q \in Requests : req'[q] = IF q = r THEN v ELSE req[q]
  BY TypedParts DEF DeviceInv
<1>2. \A q \in Requests : Claims(req[q]) => req[q].grant \in Grants
  BY TypedParts DEF DeviceInv, LocalOK, Claims
<1>3. Carried'
  BY <1>1 DEF DeviceInv, Carried, CarriedOK, Approval
<1>4. \A q \in Requests : Claims(req[q])' => Claims(req[q]) /\ req'[q].grant = req[q].grant
  BY <1>1 DEF Claims
<1>5. Claimed'
  BY <1>2, <1>4 DEF DeviceInv, Claimed, ClaimOK, SpentKeeps
<1>6. \A q \in Requests : EventOK(req[q])'
  BY <1>1 DEF DeviceInv, Journalled, EventOK
<1> QED BY <1>3, <1>5, <1>6

\* A request ends.
LEMMA FinishKeeps ==
  ASSUME DeviceInv, SpentKeeps, approvals \subseteq approvals', minted' = minted,
         NEW r \in Requests, Finish(r)
  PROVE  Carried' /\ Claimed' /\ \A q \in Requests : EventOK(req[q])'
<1>1. CarriedOK(Idle)' /\ EventOK(Idle)' /\ ~Claims(Idle)
  BY DEF CarriedOK, EventOK, Claims, Idle
<1> QED BY <1>1, ReqKeeps DEF Finish

\* No request takes a step.
LEMMA NobodyKeeps ==
  ASSUME DeviceInv, SpentKeeps, req' = req, approvals \subseteq approvals', minted' = minted
  PROVE  Carried' /\ Claimed' /\ \A q \in Requests : EventOK(req[q])'
<1>1. \A q \in Requests : Claims(req[q]) => req[q].grant \in Grants
  BY TypedParts DEF DeviceInv, LocalOK, Claims
<1> QED BY <1>1 DEF DeviceInv, Carried, CarriedOK, Claimed, ClaimOK, Claims, Journalled, EventOK,
           SpentKeeps, Approval

\* No token is delivered, and no redemption journalled.
LEMMA JournalKeeps ==
  ASSUME DeviceInv, delivered' = delivered, minted \subseteq minted', journal \subseteq journal',
         \A g \in Grants : <<"redeemed", g>> \in journal' => <<"redeemed", g>> \in journal,
         \A q \in Requests : EventOK(req[q])'
  PROVE  Journalled'
<1>1. DeliveredWasJournalled'
  BY DEF DeviceInv, Journalled, DeliveredWasJournalled
<1> QED BY <1>1 DEF Journalled

\* What a step that only moves a request, and decides nothing, has to show.
LEMMA MoveKeeps ==
  ASSUME DeviceInv, DeviceTyped', RowsKeep, UNCHANGED <<journal, history>>,
         Carried', Claimed', \A q \in Requests : EventOK(req[q])'
  PROVE  DeviceInv'
<1>1. SpentKeeps
  BY DEF RowsKeep, RowKeeps, SpentKeeps
<1>2. Decided' /\ Opened'
  BY <1>1, DecidedKeeps, OpenedKeeps DEF history
<1>3. Journalled'
  BY JournalKeeps DEF history
<1> QED BY <1>2, <1>3 DEF DeviceInv

\* Rows that do not change keep everything.
LEMMA SameRows == ASSUME rows' = rows PROVE RowsKeep /\ SpentKeeps
BY DEF RowsKeep, RowKeeps, SpentKeeps

\* Asking for a grant, the confirmation page, and the start of a poll.
LEMMA BeginInv ==
  ASSUME DeviceInv, DeviceTyped', NEW r \in Requests, NEW g \in Grants,
         \/ Authorize(r, g) \/ PollBegin(r, g)
         \/ \E u \in Users, a \in {"approve", "deny"}, mfa \in BOOLEAN : Confirm(r, u, g, a, mfa)
  PROVE  DeviceInv'
<1>1. UNCHANGED <<journal, history>>
  BY DEF Authorize, PollBegin, Confirm
<1>2. RowsKeep /\ SpentKeeps
  <2>1. CASE Authorize(r, g)
    <3>1. rows[g].status = "none" /\ rows'[g].status = "pending"
      BY <2>1, TypedParts DEF DeviceInv, Authorize, NoRow
    <3>2. \A h \in Grants : h # g => rows'[h] = rows[h]
      BY <2>1, TypedParts DEF DeviceInv, Authorize
    <3> QED BY <3>1, <3>2 DEF RowsKeep, RowKeeps, SpentKeeps
  <2>2. CASE rows' = rows
    BY <2>2, SameRows
  <2> QED BY <2>1, <2>2 DEF PollBegin, Confirm
<1>3. ASSUME NEW v, req' = [req EXCEPT ![r] = v], v.pc \in {"auditCreated", "recordPoll", "approve", "deny"}
      PROVE  Carried' /\ Claimed' /\ \A q \in Requests : EventOK(req[q])'
  <2>1. CarriedOK(v)' /\ EventOK(v)' /\ ~Claims(v)
    BY <1>3 DEF CarriedOK, EventOK, Claims
  <2> QED BY <1>1, <1>2, <1>3, <2>1, ReqKeeps DEF history
<1>4. CASE Authorize(r, g)
  <2>1. [Idle EXCEPT !.pc = "auditCreated", !.grant = g].pc = "auditCreated"
    BY DEF Idle
  <2> QED BY <1>1, <1>2, <1>3, <1>4, <2>1, MoveKeeps DEF Authorize
<1>5. ASSUME NEW u \in Users, NEW a \in {"approve", "deny"}, NEW mfa \in BOOLEAN,
             Confirm(r, u, g, a, mfa)
      PROVE  DeviceInv'
  <2>1. [Idle EXCEPT !.pc = a, !.grant = g, !.user = u, !.mfa = mfa].pc = a
    BY DEF Idle
  <2> QED BY <1>1, <1>2, <1>3, <1>5, <2>1, MoveKeeps DEF Confirm
<1>6. CASE PollBegin(r, g) /\ rows[g].status = "pending"
  <2>1. \A i : [Idle EXCEPT !.pc = "recordPoll", !.grant = g, !.interval = i, !.at = now].pc
                 = "recordPoll"
    BY DEF Idle
  <2> QED BY <1>1, <1>2, <1>3, <1>6, <2>1, MoveKeeps DEF PollBegin
<1>7. CASE PollBegin(r, g) /\ rows[g].status = "approved"
  <2> DEFINE v == [Idle EXCEPT !.pc = "redeem", !.grant = g, !.user = rows[g].user,
                               !.mfa = rows[g].mfa]
  <2>1. req' = [req EXCEPT ![r] = v]
    BY <1>7 DEF PollBegin
  <2>2. v.pc = "redeem" /\ v.grant = g /\ v.user = rows[g].user /\ v.mfa = rows[g].mfa
    BY DEF Idle
  <2>3. v.user # None => Approval(v.grant, v.user, v.mfa) \in approvals
    BY <1>7, <2>2 DEF DeviceInv, Decided
  <2>4. PICK w : w = v
    OBVIOUS
  <2>5. /\ req' = [req EXCEPT ![r] = w] /\ w.pc = "redeem"
        /\ w.user # None => Approval(w.grant, w.user, w.mfa) \in approvals
    BY <2>1, <2>2, <2>3, <2>4
  <2>6. CarriedOK(w)' /\ EventOK(w)' /\ ~Claims(w)
    BY <1>1, <2>5 DEF CarriedOK, EventOK, Claims, history, Approval
  <2> QED BY <1>1, <1>2, <2>5, <2>6, ReqKeeps, MoveKeeps DEF history
<1> QED BY <1>4, <1>5, <1>6, <1>7 DEF PollBegin

\* A request goes on to a label where it carries nothing to be checked.
LEMMA GotoKeeps ==
  ASSUME DeviceInv, SpentKeeps, approvals \subseteq approvals', minted' = minted,
         NEW r \in Requests, NEW l \in {"auditApproved", "auditDenied"}, Goto(r, l)
  PROVE  Carried' /\ Claimed' /\ \A q \in Requests : EventOK(req[q])'
<1>1. PICK v : v = [req[r] EXCEPT !.pc = l]
  OBVIOUS
<1>2. req' = [req EXCEPT ![r] = v] /\ v.pc = l
  BY <1>1, TypedParts DEF Goto, DeviceInv, Local
<1>3. CarriedOK(v)' /\ EventOK(v)' /\ ~Claims(v)
  BY <1>2 DEF CarriedOK, EventOK, Claims
<1> QED BY <1>2, <1>3, ReqKeeps

\* The decision.
LEMMA DecideInv ==
  ASSUME DeviceInv, DeviceTyped', NEW r \in Requests, Approve(r) \/ Deny(r)
  PROVE  DeviceInv'
<1>1. rows \in [Grants -> Row] /\ req[r] \in Local /\ LocalOK(req[r])
  BY TypedParts DEF DeviceInv
<1>2. PICK g \in Grants : g = req[r].grant
  BY <1>1 DEF Approve, Deny, LocalOK
<1>3. UNCHANGED <<journal, minted, delivered>>
  BY DEF Approve, Deny
<1>4. CASE /\ rows' = rows /\ approvals' = approvals /\ denials' = denials
           /\ Finish(r) \/ Goto(r, "auditDenied")
  <2>1. Carried' /\ Claimed' /\ \A q \in Requests : EventOK(req[q])'
    BY <1>3, <1>4, SameRows, FinishKeeps, GotoKeeps
  <2> QED BY <1>3, <1>4, <2>1, SameRows, MoveKeeps DEF history
<1>5. ASSUME rows[g].status = "pending", \A h \in Grants : h # g => rows'[h] = rows[h],
             approvals \subseteq approvals', Decided',
             Goto(r, "auditApproved") \/ Goto(r, "auditDenied")
      PROVE  DeviceInv'
  <2>1. SpentKeeps
    BY <1>5 DEF SpentKeeps
  <2>2. Carried' /\ Claimed' /\ \A q \in Requests : EventOK(req[q])'
    BY <1>3, <1>5, <2>1, GotoKeeps
  <2>3. Opened'
    BY <1>3, <1>5, <2>1, OpenedKeeps
  <2>4. Journalled'
    BY <1>3, <2>2, JournalKeeps
  <2> QED BY <1>5, <2>2, <2>3, <2>4 DEF DeviceInv
<1>6. rows[g].status = "pending" => g \notin denials /\ \A a \in approvals : a.grant # g
  BY DEF DeviceInv, Decided
<1>7. CASE /\ MarkDeviceGrantApproved(g, req[r].user, req[r].mfa)
           /\ approvals' = approvals \cup {Approval(g, req[r].user, req[r].mfa)}
           /\ Goto(r, "auditApproved") /\ denials' = denials
  <2> DEFINE new == Approval(g, req[r].user, req[r].mfa)
  <2>1. /\ rows[g].status = "pending" /\ approvals' = approvals \cup {new}
        /\ Goto(r, "auditApproved") /\ denials' = denials
    BY <1>7 DEF MarkDeviceGrantApproved
  <2>2. \A h \in Grants : h # g => rows'[h] = rows[h]
    BY <1>1, <1>7 DEF MarkDeviceGrantApproved
  <2>3. rows'[g].status = "approved" /\ rows'[g].user = req[r].user /\ rows'[g].mfa = req[r].mfa
    BY <1>1, <1>7 DEF MarkDeviceGrantApproved, Row
  <2>4. new.grant = g
    BY DEF Approval
  <2>5. (\A a \in approvals : a.grant \in Grants) /\ denials \subseteq Grants
    BY TypedParts DEF DeviceInv
  <2>6. \A a \in approvals' : /\ rows'[a.grant].status \in {"approved", "redeemed", "gone"}
                              /\ a.grant \notin denials'
    BY <1>6, <2>1, <2>2, <2>3, <2>4, <2>5 DEF DeviceInv, Decided
  <2>7. \A h \in denials' : rows'[h].status \in {"denied", "gone"}
    BY <1>6, <2>1, <2>2, <2>5 DEF DeviceInv, Decided
  <2>8. \A a, b \in approvals' : a.grant = b.grant => a = b
    BY <1>6, <2>1, <2>4 DEF DeviceInv, Decided
  <2>9. \A h \in Grants : rows'[h].status = "approved" /\ rows'[h].user # None =>
          Approval(h, rows'[h].user, rows'[h].mfa) \in approvals'
    BY <2>1, <2>2, <2>3 DEF DeviceInv, Decided
  <2>10. Decided'
    BY <2>6, <2>7, <2>8, <2>9 DEF Decided, Approval
  <2> QED BY <1>5, <2>1, <2>2, <2>10
<1>8. CASE Deny(r) /\ MarkDeviceGrantDenied(g)
  <2>1. /\ rows[g].status = "pending" /\ denials' \subseteq denials \cup {g}
        /\ Goto(r, "auditDenied") /\ approvals' = approvals
    BY <1>2, <1>8 DEF Deny, MarkDeviceGrantDenied
  <2>2. \A h \in Grants : h # g => rows'[h] = rows[h]
    BY <1>1, <1>8 DEF MarkDeviceGrantDenied
  <2>3. rows'[g].status = "denied"
    BY <1>1, <1>8 DEF MarkDeviceGrantDenied, Row
  <2>4. (\A a \in approvals : a.grant \in Grants) /\ denials \subseteq Grants
    BY TypedParts DEF DeviceInv
  <2>5. Decided'
    BY <1>6, <2>1, <2>2, <2>3, <2>4 DEF DeviceInv, Decided, Approval
  <2> QED BY <1>5, <2>1, <2>2, <2>5
<1>9. CASE Approve(r)
  BY <1>2, <1>4, <1>7, <1>9 DEF Approve, Approval
<1>10. CASE Deny(r)
  BY <1>2, <1>4, <1>8, <1>10 DEF Deny
<1> QED BY <1>9, <1>10

\* The audit events.
LEMMA AuditInv ==
  ASSUME DeviceInv, DeviceTyped', NEW r \in Requests,
         AuditCreated(r) \/ AuditDecision(r) \/ AuditRedeemed(r)
  PROVE  DeviceInv'
<1>1. rows' = rows /\ approvals' = approvals /\ denials' = denials /\ minted' = minted /\ Finish(r)
  BY DEF AuditCreated, AuditDecision, AuditRedeemed, history
<1>2. Carried' /\ Claimed' /\ \A q \in Requests : EventOK(req[q])'
  BY <1>1, SameRows, FinishKeeps
<1>3. Decided' /\ Opened'
  BY <1>1, SameRows, DecidedKeeps, OpenedKeeps
<1>4. Journalled'
  <2>1. CASE AuditCreated(r) \/ AuditDecision(r)
    <3>1. PICK e \in {"created", "approved", "denied"} :
            journal' \in {journal, journal \cup {<<e, req[r].grant>>}}
      BY <2>1 DEF AuditCreated, AuditDecision, Recorded, Unrecorded
    <3>2. \A g \in Grants : <<"redeemed", g>> # <<e, req[r].grant>>
      BY <3>1
    <3>3. \A g \in Grants : <<"redeemed", g>> \in journal' => <<"redeemed", g>> \in journal
      BY <3>1, <3>2
    <3>4. delivered' = delivered /\ journal \subseteq journal'
      BY <2>1, <3>1 DEF AuditCreated, AuditDecision, history
    <3> QED BY <1>1, <1>2, <3>3, <3>4, JournalKeeps
  <2>2. CASE AuditRedeemed(r)
    <3>1. PICK g : g = req[r].grant
      OBVIOUS
    <3>2. \E m \in minted : m.grant = g
      BY <2>2, <3>1 DEF AuditRedeemed, DeviceInv, Journalled, EventOK
    <3>3. /\ journal' \in {journal, journal \cup {<<"redeemed", g>>}}
          /\ delivered' = delivered
               \/ (delivered' = delivered \cup {g} /\ <<"redeemed", g>> \in journal')
      BY <2>2, <3>1 DEF AuditRedeemed, Recorded, Unrecorded
    <3>4. \A h : <<"redeemed", h>> = <<"redeemed", g>> => h = g
      OBVIOUS
    <3>5. DeliveredWasJournalled'
      BY <1>1, <3>2, <3>3, <3>4 DEF DeviceInv, Journalled, DeliveredWasJournalled
    <3> QED BY <1>2, <3>5 DEF Journalled
  <2> QED BY <2>1, <2>2
<1> QED BY <1>2, <1>3, <1>4 DEF DeviceInv

\* A poll is recorded, gives up or dies.
LEMMA PollInv ==
  ASSUME DeviceInv, DeviceTyped', NEW r \in Requests, RecordPoll(r) \/ Abort(r)
  PROVE  DeviceInv'
<1>1. UNCHANGED <<journal, history>> /\ Finish(r)
  BY DEF RecordPoll, Abort
<1>2. \A g \in Grants : /\ rows'[g].status = rows[g].status /\ rows'[g].user = rows[g].user
                        /\ rows'[g].mfa = rows[g].mfa
  BY TypedParts DEF RecordPoll, Abort, DeviceInv, Row
<1>3. RowsKeep /\ SpentKeeps
  BY <1>2 DEF RowsKeep, RowKeeps, SpentKeeps
<1>4. Carried' /\ Claimed' /\ \A q \in Requests : EventOK(req[q])'
  BY <1>1, <1>3, FinishKeeps DEF history
<1> QED BY <1>1, <1>3, <1>4, MoveKeeps

\* The claim: one poll finds the grant approved, and it is spent from then on.
LEMMA RedeemInv ==
  ASSUME DeviceInv, DeviceTyped', NEW r \in Requests, Redeem(r)
  PROVE  DeviceInv'
<1>1. /\ rows \in [Grants -> Row] /\ req \in [Requests -> Local] /\ req[r] \in Local
      /\ LocalOK(req[r]) /\ UNCHANGED <<journal, history>>
  BY TypedParts DEF DeviceInv, Redeem
<1>2. PICK g \in Grants : g = req[r].grant
  BY <1>1 DEF Redeem, LocalOK
<1>3. CASE rows' = rows /\ Finish(r)
  <2>1. Carried' /\ Claimed' /\ \A q \in Requests : EventOK(req[q])'
    BY <1>1, <1>3, SameRows, FinishKeeps DEF history
  <2> QED BY <1>1, <1>3, <2>1, SameRows, MoveKeeps
<1>4. CASE MarkDeviceGrantRedeemed(g) /\ Goto(r, "loadApprover")
  <2>1. /\ rows[g].status = "approved" /\ rows'[g].status = "redeemed"
        /\ \A h \in Grants : h # g => rows'[h] = rows[h]
    BY <1>1, <1>4 DEF MarkDeviceGrantRedeemed, Row
  <2>2. RowsKeep
    BY <2>1 DEF RowsKeep, RowKeeps
  <2>3. PICK v : v = [req[r] EXCEPT !.pc = "loadApprover"]
    OBVIOUS
  <2>4. \A q \in Requests : req'[q] = IF q = r THEN v ELSE req[q]
    BY <1>1, <1>4, <2>3 DEF Goto
  <2>5. v.pc = "loadApprover" /\ v.grant = g /\ v.user = req[r].user /\ v.mfa = req[r].mfa
    BY <1>1, <1>2, <2>3 DEF Local
  <2>6. \A q \in Requests : Claims(req[q]) => req[q].grant \in Grants /\ req[q].grant # g
    BY <2>1, TypedParts DEF DeviceInv, Claimed, ClaimOK, Claims, LocalOK
  <2>7. \A m \in minted : m.grant # g
    BY <2>1 DEF DeviceInv, Opened
  <2>8. v.user # None => Approval(v.grant, v.user, v.mfa) \in approvals
    BY <1>2, <2>5 DEF Redeem, DeviceInv, Carried, CarriedOK
  <2>9. Carried'
    BY <1>1, <2>4, <2>8 DEF DeviceInv, Carried, CarriedOK, Approval, history
  <2>10. \A q \in Requests : ClaimOK(req[q])'
    BY <1>1, <2>1, <2>4, <2>5, <2>6, <2>7 DEF DeviceInv, Claimed, ClaimOK, Claims, history
  <2>11. \A p, q \in Requests :
           Claims(req'[p]) /\ Claims(req'[q]) /\ req'[p].grant = req'[q].grant => p = q
    BY <2>4, <2>5, <2>6 DEF DeviceInv, Claimed
  <2>12. Claimed'
    BY <2>10, <2>11 DEF Claimed, Claims
  <2>13. \A q \in Requests : EventOK(req[q])'
    BY <1>1, <2>4, <2>5 DEF DeviceInv, Journalled, EventOK, history
  <2> QED BY <1>1, <2>2, <2>9, <2>12, <2>13, MoveKeeps
<1> QED BY <1>2, <1>3, <1>4 DEF Redeem

\* The approver is still there, or the grant is spent for nothing.
LEMMA LoadInv ==
  ASSUME DeviceInv, DeviceTyped', NEW r \in Requests, LoadApprover(r)
  PROVE  DeviceInv'
<1>1. rows' = rows /\ UNCHANGED <<journal, history>>
  BY DEF LoadApprover
<1>2. Carried' /\ Claimed' /\ \A q \in Requests : EventOK(req[q])'
  <2>1. CASE Finish(r)
    BY <1>1, <2>1, SameRows, FinishKeeps DEF history
  <2>2. CASE Goto(r, "mint")
    <3>1. PICK v : v = [req[r] EXCEPT !.pc = "mint"]
      OBVIOUS
    <3>2. /\ req' = [req EXCEPT ![r] = v] /\ v.pc = "mint" /\ v.grant = req[r].grant
          /\ v.user = req[r].user /\ v.mfa = req[r].mfa
      BY <2>2, <3>1, TypedParts DEF Goto, DeviceInv, Local
    <3>3. Claims(req[r]) /\ CarriedOK(req[r])
      BY DEF LoadApprover, DeviceInv, Carried, Claims
    <3>4. CarriedOK(v)' /\ EventOK(v)'
      BY <1>1, <3>2, <3>3 DEF CarriedOK, EventOK, Claims, history, Approval
    <3> QED BY <1>1, <3>2, <3>3, <3>4, SameRows, ReqKeeps DEF history
  <2> QED BY <2>1, <2>2 DEF LoadApprover
<1> QED BY <1>1, <1>2, SameRows, MoveKeeps

\* The session: it is the grant's first, and it is the approver's.
LEMMA MintInv ==
  ASSUME DeviceInv, DeviceTyped', NEW r \in Requests, Mint(r)
  PROVE  DeviceInv'
<1>1. /\ req \in [Requests -> Local] /\ req[r] \in Local /\ LocalOK(req[r]) /\ rows' = rows
      /\ UNCHANGED <<journal, approvals, denials, delivered>> /\ req[r].pc = "mint"
  BY TypedParts DEF DeviceInv, Mint
<1>2. Decided'
  BY <1>1, SameRows, DecidedKeeps
<1>3. CASE Finish(r) /\ minted' = minted
  <2>1. Carried' /\ Claimed' /\ \A q \in Requests : EventOK(req[q])'
    BY <1>1, <1>3, SameRows, FinishKeeps
  <2> QED BY <1>1, <1>3, <2>1, SameRows, MoveKeeps DEF history
<1>4. CASE /\ Goto(r, "auditRedeemed")
           /\ minted' = minted \cup
                {[grant |-> req[r].grant, user |-> req[r].user, mfa |-> req[r].mfa,
                  n |-> Cardinality(minted)]}
  <2>1. PICK m : m = [grant |-> req[r].grant, user |-> req[r].user, mfa |-> req[r].mfa,
                      n |-> Cardinality(minted)]
    OBVIOUS
  <2>2. m.grant = req[r].grant /\ m.user = req[r].user /\ m.mfa = req[r].mfa
    BY <2>1
  <2>3. minted' = minted \cup {m}
    BY <1>4, <2>1
  <2>4. PICK v : v = [req[r] EXCEPT !.pc = "auditRedeemed"]
    OBVIOUS
  <2>5. v.pc = "auditRedeemed" /\ v.grant = req[r].grant
    BY <1>1, <2>4 DEF Local
  <2>6. \A q \in Requests : req'[q] = IF q = r THEN v ELSE req[q]
    BY <1>1, <1>4, <2>4 DEF Goto
  <2>7. Claims(req[r]) /\ req[r].user # None
    BY <1>1, DeviceAssumption DEF Claims, LocalOK
  <2>8. /\ Approval(req[r].grant, req[r].user, req[r].mfa) \in approvals
        /\ rows[req[r].grant].status \in {"redeemed", "gone"}
        /\ \A n \in minted : n.grant # req[r].grant
    BY <1>1, <2>7 DEF DeviceInv, Carried, CarriedOK, Claimed, ClaimOK
  <2>9. Opened'
    BY <1>1, <2>2, <2>3, <2>8 DEF DeviceInv, Opened, DeviceSingleUse, Approval
  <2>10. Carried'
    BY <1>1, <2>5, <2>6 DEF DeviceInv, Carried, CarriedOK, Approval
  <2>11. \A q \in Requests : Claims(req'[q]) => q # r /\ req'[q] = req[q]
    BY <2>5, <2>6 DEF Claims
  <2>12. \A q \in Requests : q # r /\ Claims(req[q]) => req[q].grant # m.grant
    BY <2>2, <2>7 DEF DeviceInv, Claimed
  <2>13. Claimed'
    <3>1. \A q \in Requests : ClaimOK(req[q])'
      BY <1>1, <2>3, <2>11, <2>12 DEF DeviceInv, Claimed, ClaimOK, Claims
    <3>2. \A p, q \in Requests :
            Claims(req'[p]) /\ Claims(req'[q]) /\ req'[p].grant = req'[q].grant => p = q
      BY <2>11 DEF DeviceInv, Claimed
    <3> QED BY <3>1, <3>2 DEF Claimed, Claims
  <2>14. \A q \in Requests : EventOK(req[q])'
    BY <2>2, <2>3, <2>5, <2>6 DEF DeviceInv, Journalled, EventOK
  <2>15. Journalled'
    BY <1>1, <2>3, <2>14, JournalKeeps
  <2> QED BY <1>2, <2>9, <2>10, <2>13, <2>15 DEF DeviceInv
<1> QED BY <1>3, <1>4 DEF Mint

\* The rest of the system.
LEMMA WorldInv ==
  ASSUME DeviceInv, DeviceTyped',
         \/ \E u \in Users, g \in Grants : EnterCode(u, g)
         \/ \E u \in Users : DeleteUser(u) \/ SetActive(u)
         \/ Reap \/ Tick
  PROVE  DeviceInv'
<1>1. req' = req /\ UNCHANGED <<journal, history>>
  BY DEF EnterCode, DeleteUser, SetActive, Reap, Tick
<1>2. rows \in [Grants -> Row]
  BY TypedParts DEF DeviceInv
<1>3. RowsKeep
  <2>1. ASSUME NEW u \in Users, DeleteUser(u) PROVE RowsKeep
    <3>1. \A g \in Grants : /\ rows'[g].status = rows[g].status /\ rows'[g].mfa = rows[g].mfa
                            /\ rows'[g].user \in {rows[g].user, None}
      BY <1>2, <2>1 DEF DeleteUser, Row
    <3> QED BY <3>1 DEF RowsKeep, RowKeeps
  <2>2. CASE Reap
    <3>1. \A g \in Grants : rows'[g] = rows[g] \/ rows'[g].status = "gone"
      BY <2>2 DEF Reap, GoneRow, NoRow
    <3> QED BY <3>1 DEF RowsKeep, RowKeeps
  <2>3. CASE rows' = rows
    BY <2>3, SameRows
  <2> QED BY <2>1, <2>2, <2>3 DEF EnterCode, SetActive, Tick
<1>4. SpentKeeps
  BY <1>3 DEF RowsKeep, RowKeeps, SpentKeeps
<1>5. Carried' /\ Claimed' /\ \A q \in Requests : EventOK(req[q])'
  BY <1>1, <1>4, NobodyKeeps DEF history
<1> QED BY <1>1, <1>3, <1>5, MoveKeeps

-----------------------------------------------------------------------------
(* The theorems.                                                           *)

\* The first state.
LEMMA DeviceInitial == Init => DeviceInv
<1> SUFFICES ASSUME Init PROVE DeviceInv
  OBVIOUS
<1>1. \A r \in Requests : req[r] = Idle
  BY DEF Init
<1>2. \A g \in Grants : rows[g].status = "none" /\ rows[g].user = None
  BY DEF Init, NoRow
<1>3. DeviceTyped
  <2>1. req \in [Requests -> Local] /\ rows \in [Grants -> Row]
    BY Empties DEF Init
  <2>2. DeviceTypeOK
    BY <1>2, <2>1 DEF Init, DeviceTypeOK
  <2> QED BY <1>1, <2>2, Empties, FS_EmptySet DEF DeviceTyped, Init
<1>4. Decided /\ Opened
  BY <1>2 DEF Init, Decided, Opened, DeviceSingleUse
<1>5. Carried /\ Claimed /\ \A r \in Requests : EventOK(req[r])
  BY <1>1 DEF Carried, CarriedOK, Claimed, ClaimOK, Claims, EventOK, Idle
<1>6. DeliveredWasJournalled
  BY DEF Init, DeliveredWasJournalled
<1> QED BY <1>3, <1>4, <1>5, <1>6 DEF DeviceInv, Journalled

\* Every step keeps the invariant.
LEMMA DeviceStep == DeviceInv /\ [Next]_vars => DeviceInv'
<1> SUFFICES ASSUME DeviceInv, [Next]_vars PROVE DeviceInv'
  OBVIOUS
<1>1. DeviceTyped
  BY DEF DeviceInv
<1>2. ASSUME NEW r \in Requests, NEW g \in Grants, Authorize(r, g) \/ PollBegin(r, g)
      PROVE  DeviceInv'
  BY <1>1, <1>2, AuthorizeTyped, PollTyped, BeginInv
<1>3. ASSUME NEW r \in Requests, NEW u \in Users, NEW g \in Grants, NEW a \in {"approve", "deny"},
             NEW mfa \in BOOLEAN, Confirm(r, u, g, a, mfa)
      PROVE  DeviceInv'
  BY <1>1, <1>3, WorldTyped, BeginInv
<1>4. ASSUME NEW r \in Requests, Approve(r) \/ Deny(r)
      PROVE  DeviceInv'
  BY <1>1, <1>4, DecideTyped, DecideInv
<1>5. ASSUME NEW r \in Requests, AuditCreated(r) \/ AuditDecision(r) \/ AuditRedeemed(r)
      PROVE  DeviceInv'
  BY <1>1, <1>5, AuditTyped, AuditInv
<1>6. ASSUME NEW r \in Requests,
             RecordPoll(r) \/ Abort(r) \/ Redeem(r) \/ LoadApprover(r) \/ Mint(r)
      PROVE  DeviceInv'
  BY <1>1, <1>6, RedeemTyped, PollInv, RedeemInv, LoadInv, MintInv
<1>7. CASE \/ \E u \in Users, g \in Grants : EnterCode(u, g)
           \/ \E u \in Users : DeleteUser(u) \/ SetActive(u)
           \/ Reap \/ Tick
  BY <1>1, <1>7, WorldTyped, WorldInv
<1>8. CASE UNCHANGED vars
  BY <1>8 DEF vars, DeviceInv, DeviceTyped, DeviceTypeOK, Decided, Carried, CarriedOK, Claimed,
              ClaimOK, Claims, Opened, DeviceSingleUse, Journalled, DeliveredWasJournalled, EventOK
<1> QED BY <1>2, <1>3, <1>4, <1>5, <1>6, <1>7, <1>8 DEF Next

\* The invariant, for every number of users, grants and requests.
THEOREM DeviceInvariant == Spec => []DeviceInv
<1> QED BY DeviceInitial, DeviceStep, PTL DEF Spec

\* Every variable keeps its type and no grant names an account that is gone,
\* whatever is deleted while a page is open or a poll is under way.
THEOREM DeviceGrantsTyped == Spec => []DeviceTypeOK
<1>1. DeviceInv => DeviceTypeOK
  BY DEF DeviceInv, DeviceTyped
<1> QED BY <1>1, DeviceInvariant, PTL

\* However many polls race for an approved grant, it opens at most one session
\* (handleTokenDeviceCode, MarkDeviceGrantRedeemed).
THEOREM DeviceGrantsAreSingleUse == Spec => []DeviceSingleUse
<1>1. DeviceInv => DeviceSingleUse
  BY DEF DeviceInv, Opened
<1> QED BY <1>1, DeviceInvariant, PTL

\* A session from a device grant speaks for the one user who approved it, with
\* that browser session's MFA state (MarkDeviceGrantApproved, handleDeviceConfirm).
THEOREM ApproversAreBound == Spec => []ApproverBound
<1>1. ASSUME DeviceInv PROVE ApproverBound
  <2>1. ASSUME NEW m \in minted
        PROVE  {a \in approvals : a.grant = m.grant} =
                 {[grant |-> m.grant, user |-> m.user, mfa |-> m.mfa]}
    <3>1. PICK b : b = Approval(m.grant, m.user, m.mfa)
      OBVIOUS
    <3>2. b \in approvals /\ b.grant = m.grant
      BY <1>1, <3>1 DEF DeviceInv, Opened, Approval
    <3>3. \A a \in approvals : a.grant = m.grant => a = b
      BY <1>1, <3>2 DEF DeviceInv, Decided
    <3>4. {a \in approvals : a.grant = m.grant} = {b}
      BY <3>2, <3>3
    <3> QED BY <3>1, <3>4 DEF Approval
  <2> QED BY <2>1 DEF ApproverBound
<1> QED BY <1>1, DeviceInvariant, PTL

\* Nothing is issued on a grant that was denied (handleDeviceConfirm against a
\* poll in flight).
THEOREM DeniedGrantsIssueNothing == Spec => []DeniedIssuesNothing
<1>1. ASSUME DeviceInv PROVE DeniedIssuesNothing
  <2>1. \A m \in minted : Approval(m.grant, m.user, m.mfa).grant = m.grant
    BY DEF Approval
  <2> QED BY <1>1, <2>1 DEF DeniedIssuesNothing, DeviceInv, Decided, Opened
<1> QED BY <1>1, DeviceInvariant, PTL

\* Tokens reach the device only with the event that records them, and that event
\* implies a session (logAudit before writeJSON).
THEOREM DeliveriesAreJournalled == Spec => []DeliveredWasJournalled
<1>1. DeviceInv => DeliveredWasJournalled
  BY DEF DeviceInv, Journalled
<1> QED BY <1>1, DeviceInvariant, PTL

\* A decision is final: an approved grant is never denied, a denied one never
\* approved, a spent one never revived (the guards of the three UPDATEs).
THEOREM DecisionsAreFinal == Spec => DecisionIsFinal
<1> DEFINE Final(g) ==
      /\ rows[g].status = "approved" => rows'[g].status \in {"approved", "redeemed", "gone"}
      /\ rows[g].status \in {"denied", "redeemed", "gone"} =>
           rows'[g].status \in {rows[g].status, "gone"}
<1>1. ASSUME DeviceInv, [Next]_vars, NEW g \in Grants PROVE Final(g)
  <2>1. rows \in [Grants -> Row] /\ \A r \in Requests : LocalOK(req[r])
    BY <1>1, TypedParts DEF DeviceInv
  <2>2. CASE rows'[g].status = rows[g].status \/ rows'[g].status = "gone"
    BY <2>2
  <2>3. ASSUME NEW r \in Requests, NEW h \in Grants, Authorize(r, h) PROVE Final(g)
    BY <2>1, <2>3 DEF Authorize
  <2>4. ASSUME NEW r \in Requests, Approve(r) \/ Deny(r) \/ Redeem(r) PROVE Final(g)
    <3>1. PICK h \in Grants : h = req[r].grant
      BY <2>1, <2>4 DEF Approve, Deny, Redeem, LocalOK
    <3>2. rows' = rows \/ \E st \in {"approved", "denied", "redeemed"} :
             /\ rows[h].status = (IF st = "redeemed" THEN "approved" ELSE "pending")
             /\ rows'[h].status = st
             /\ \A k \in Grants : k # h => rows'[k] = rows[k]
      <4>0. rows[h] \in Row
        BY <2>1
      <4>2. CASE Approve(r)
        <5>1. CASE MarkDeviceGrantApproved(h, req[r].user, req[r].mfa)
          <6>1. rows'[h].status = "approved" /\ \A k \in Grants : k # h => rows'[k] = rows[k]
            BY <2>1, <4>0, <5>1 DEF MarkDeviceGrantApproved, Row
          <6> QED BY <5>1, <6>1 DEF MarkDeviceGrantApproved
        <5> QED BY <3>1, <4>2, <5>1 DEF Approve
      <4>3. CASE Deny(r)
        <5>1. CASE MarkDeviceGrantDenied(h)
          <6>1. rows'[h].status = "denied" /\ \A k \in Grants : k # h => rows'[k] = rows[k]
            BY <2>1, <4>0, <5>1 DEF MarkDeviceGrantDenied, Row
          <6> QED BY <5>1, <6>1 DEF MarkDeviceGrantDenied
        <5> QED BY <3>1, <4>3, <5>1 DEF Deny
      <4>4. CASE Redeem(r)
        <5>1. CASE MarkDeviceGrantRedeemed(h)
          <6>1. rows'[h].status = "redeemed" /\ \A k \in Grants : k # h => rows'[k] = rows[k]
            BY <2>1, <4>0, <5>1 DEF MarkDeviceGrantRedeemed, Row
          <6> QED BY <5>1, <6>1 DEF MarkDeviceGrantRedeemed
        <5> QED BY <3>1, <4>4, <5>1 DEF Redeem
      <4> QED BY <2>4, <4>2, <4>3, <4>4
    <3> QED BY <3>2
  <2>5. ASSUME NEW r \in Requests, RecordPoll(r) PROVE rows'[g].status = rows[g].status
    BY <2>1, <2>5 DEF RecordPoll, Row
  <2>6. ASSUME NEW u \in Users, DeleteUser(u) PROVE rows'[g].status = rows[g].status
    BY <2>1, <2>6 DEF DeleteUser, Row
  <2>7. CASE Reap
    <3>1. rows'[g] = rows[g] \/ rows'[g].status = "gone"
      BY <2>7 DEF Reap, GoneRow, NoRow
    <3> QED BY <2>2, <3>1
  <2>8. CASE rows' = rows
    BY <2>8
  <2> QED
    BY <1>1, <2>2, <2>3, <2>4, <2>5, <2>6, <2>7, <2>8 DEF Next, vars, PollBegin, EnterCode, Confirm,
       AuditCreated, AuditDecision, LoadApprover, Mint, AuditRedeemed, Abort, SetActive, Tick
<1>2. DeviceInv /\ [Next]_vars =>
        \A g \in Grants :
          /\ rows[g].status = "approved" => rows'[g].status \in {"approved", "redeemed", "gone"}
          /\ rows[g].status \in {"denied", "redeemed", "gone"} =>
               rows'[g].status \in {rows[g].status, "gone"}
  BY <1>1
<1> QED BY <1>2, DeviceInvariant, PTL DEF Spec, DecisionIsFinal

=============================================================================
