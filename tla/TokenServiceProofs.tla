------------------------- MODULE TokenServiceProofs -------------------------
(***************************************************************************)
(* Proofs about TokenService, for any number of users, clients, codes,     *)
(* requests and token pairs, and any lifetimes that respect                *)
(* TTLAssumption.                                                          *)
(***************************************************************************)
EXTENDS TokenImplements, TLAPS

-----------------------------------------------------------------------------
(* Types.                                                                  *)

\* What a request's local variables hold at each of its labels.
LocalsOf(v) ==
  /\ v.pc \in {"markUsed", "mint"} => v.code \in Codes
  /\ v.pc \in {"rotate", "reuse"} => v.tok \in Pairs
  /\ v.pc \in {"rotate", "revokeReuse", "auditReuse", "auditRevoke",
               "deleteRevoked"} => v.sid \in Pairs
  /\ v.pc \in {"auditIssued", "auditRefreshed"} => v.new \in Pairs

Locals == \A r \in Requests : LocalsOf(req[r])

Typed == TypeOK /\ Locals

\* The empty values are well typed.
LEMMA Empties == /\ Idle \in Request /\ LocalsOf(Idle)
                 /\ NoSession \in Session
                 /\ NoGrant \in Grant /\ GoneGrant \in Grant
BY BoundAssumption DEF Idle, Request, LocalsOf, NoSession, Session, NoGrant,
   GoneGrant, Grant, Times

\* A request steps to a well-typed local state.
LEMMA StepRequest ==
  ASSUME Typed, NEW r \in Requests, NEW v \in Request, LocalsOf(v),
         req' = [req EXCEPT ![r] = v]
  PROVE  req' \in [Requests -> Request] /\ Locals'
BY DEF Typed, TypeOK, Locals, LocalsOf

\* A request finishes.
LEMMA StepFinish ==
  ASSUME Typed, NEW r \in Requests, Finish(r)
  PROVE  req' \in [Requests -> Request] /\ Locals'
BY Empties, StepRequest DEF Finish

\* Deleting rows keeps the tables typed.
LEMMA StepDelete ==
  ASSUME Typed, NEW S, DeleteSessions(S)
  PROVE  sessions' \in [Pairs -> Session] /\ retired' \in [Pairs -> 0 .. MaxPairs]
BY BoundAssumption, Empties DEF Typed, TypeOK, DeleteSessions

\* Inserting a session keeps the tables typed.
LEMMA StepCreate ==
  ASSUME Typed, NEW u \in Users \cup {None}, NEW cl \in Clients \cup {None},
         next \in Pairs, CreateSession(u, cl)
  PROVE  /\ sessions' \in [Pairs -> Session]
         /\ next' \in 1 .. MaxPairs + 1
         /\ family' \in [Pairs -> 0 .. MaxPairs]
<1> DEFINE row == [live |-> TRUE, user |-> u, client |-> cl, tok |-> next,
                   aexp |-> now + AccessTTL, rexp |-> now + RefreshTTL, created |-> now]
<1>1. row \in Session
  BY BoundAssumption, TTLAssumption, SMTT(40) DEF Typed, TypeOK, Session, Times, Pairs
<1>2. sessions' \in [Pairs -> Session]
  BY <1>1 DEF CreateSession, Typed, TypeOK
<1>3. next' \in 1 .. MaxPairs + 1
  BY BoundAssumption DEF CreateSession, Pairs
<1>4. family' \in [Pairs -> 0 .. MaxPairs]
  BY BoundAssumption DEF CreateSession, Typed, TypeOK, Pairs
<1> QED BY <1>2, <1>3, <1>4

\* A deadline that was capped is a time, and within the ceiling.
LEMMA Capped ==
  ASSUME NEW d \in Nat, NEW c \in Nat
  PROVE  /\ capByAbsolute(d, c) \in Nat
         /\ capByAbsolute(d, c) <= c + AbsoluteTTL
BY TTLAssumption DEF capByAbsolute

\* The row a rotation leaves is well typed, and within the ceiling.
LEMMA RotatedRow ==
  ASSUME Typed, NEW s \in Pairs, next \in Pairs, NEW at \in Times
  PROVE  /\ Rotated(s, at) \in Session
         /\ Rotated(s, at).live = sessions[s].live
         /\ Rotated(s, at).tok = next
         /\ Rotated(s, at).client = sessions[s].client
         /\ Rotated(s, at).created = sessions[s].created
         /\ Rotated(s, at).aexp <= sessions[s].created + AbsoluteTTL
         /\ Rotated(s, at).rexp <= sessions[s].created + AbsoluteTTL
<1> DEFINE a == capByAbsolute(at + AccessTTL, sessions[s].created)
           b == capByAbsolute(at + RefreshTTL, sessions[s].created)
<1>1. sessions[s] \in Session
  BY DEF Typed, TypeOK
<1>2. sessions[s].created \in Nat /\ at + AccessTTL \in Nat /\ at + RefreshTTL \in Nat
  BY <1>1, TTLAssumption DEF Session, Times
<1>3. /\ a \in Nat /\ b \in Nat
      /\ a <= sessions[s].created + AbsoluteTTL
      /\ b <= sessions[s].created + AbsoluteTTL
  BY <1>2, Capped
<1>4. Rotated(s, at) = [sessions[s] EXCEPT !.tok = next, !.aexp = a, !.rexp = b]
  BY DEF Rotated
<1> HIDE DEF a, b
<1>5. next \in 0 .. MaxPairs
  BY BoundAssumption DEF Pairs
<1>6. [sessions[s] EXCEPT !.tok = next, !.aexp = a, !.rexp = b] \in Session
  BY <1>1, <1>3, <1>5 DEF Session, Times
<1>7. /\ Rotated(s, at).live = sessions[s].live
      /\ Rotated(s, at).tok = next
      /\ Rotated(s, at).client = sessions[s].client
      /\ Rotated(s, at).created = sessions[s].created
      /\ Rotated(s, at).aexp = a
      /\ Rotated(s, at).rexp = b
  BY <1>1, <1>4 DEF Session
<1> QED BY <1>3, <1>4, <1>6, <1>7

\* Rotating keeps the tables typed.
LEMMA StepRotate ==
  ASSUME Typed, NEW s \in Pairs, NEW old \in Pairs, NEW at \in Times,
         next \in Pairs, RotateRefreshToken(s, old, at)
  PROVE  /\ sessions' \in [Pairs -> Session]
         /\ retired' \in [Pairs -> 0 .. MaxPairs]
         /\ next' \in 1 .. MaxPairs + 1
         /\ family' \in [Pairs -> 0 .. MaxPairs]
<1>1. sessions' \in [Pairs -> Session]
  BY RotatedRow DEF RotateRefreshToken, Typed, TypeOK
<1>2. /\ retired' \in [Pairs -> 0 .. MaxPairs]
      /\ next' \in 1 .. MaxPairs + 1
      /\ family' \in [Pairs -> 0 .. MaxPairs]
  BY BoundAssumption, SMTT(40) DEF RotateRefreshToken, Typed, TypeOK, Pairs
<1> QED BY <1>1, <1>2

\* TypeOK and Locals hold at the start.
LEMMA TypedInit == Init => Typed
<1> SUFFICES ASSUME Init PROVE Typed
  OBVIOUS
<1>1. TypeOK
  BY BoundAssumption, Empties DEF Init, TypeOK, Pairs, Times
<1>2. Locals
  BY Empties DEF Init, Locals
<1> QED BY <1>1, <1>2 DEF Typed

\* ... and every step keeps them.
LEMMA TypedNext == Typed /\ [Next]_vars => Typed'
<1> SUFFICES ASSUME Typed, [Next]_vars PROVE Typed'
  OBVIOUS
<1>0. /\ now \in Nat
      /\ \A c \in Codes : /\ grants[c] \in Grant
                          /\ grants[c].user \in Users \cup {None}
      /\ \A r \in Requests : /\ req[r] \in Request
                             /\ req[r].at \in Times
                             /\ req[r].user \in Users \cup {None}
                             /\ req[r].client \in Clients \cup {None}
                             /\ LocalsOf(req[r])
      /\ next <= MaxPairs => next \in Pairs
  <2>1. now \in Nat /\ next \in 1 .. MaxPairs + 1
    BY DEF Typed, TypeOK, Times
  <2>2. \A c \in Codes : grants[c] \in Grant
    BY DEF Typed, TypeOK
  <2>3. \A c \in Codes : grants[c].user \in Users \cup {None}
    BY <2>2 DEF Grant
  <2>4. \A r \in Requests : req[r] \in Request
    BY DEF Typed, TypeOK
  <2>5. \A r \in Requests : /\ req[r].at \in Times
                            /\ req[r].user \in Users \cup {None}
                            /\ req[r].client \in Clients \cup {None}
    BY <2>4 DEF Request
  <2>6. \A r \in Requests : LocalsOf(req[r])
    BY DEF Typed, Locals
  <2>7. next <= MaxPairs => next \in Pairs
    BY <2>1, BoundAssumption DEF Pairs
  <2> QED BY <2>1, <2>2, <2>3, <2>4, <2>5, <2>6, <2>7
<1>p. \A p \in Pairs : p \in 0 .. MaxPairs
  BY BoundAssumption DEF Pairs
<1>1. ASSUME NEW c \in Codes, NEW u \in Users, NEW cl \in Clients, IssueCode(c, u, cl)
      PROVE Typed'
  <2>1. [state |-> "open", user |-> u, client |-> cl, exp |-> now + CodeTTL] \in Grant
    BY <1>0, TTLAssumption DEF Grant, Times
  <2> QED BY <1>1, <2>1 DEF IssueCode, Typed, TypeOK, Locals
<1>2. ASSUME NEW r \in Requests, NEW c \in Codes, NEW cl \in Clients, ExchangeBegin(r, c, cl)
      PROVE Typed'
  <2> DEFINE v == [Idle EXCEPT !.pc = "markUsed", !.code = c,
                     !.user = grants[c].user, !.client = cl]
  <2>1. v \in Request /\ LocalsOf(v)
    BY <1>0, Empties DEF Request, LocalsOf
  <2>2. req' \in [Requests -> Request] /\ Locals'
    BY <1>2, <2>1, StepRequest DEF ExchangeBegin
  <2> QED BY <1>2, <2>2 DEF ExchangeBegin, Typed, TypeOK
<1>3. ASSUME NEW r \in Requests, ExchangeMark(r)
      PROVE Typed'
  <2>1. grants' \in [Codes -> Grant]
    <3>1. req[r].code \in Codes /\ grants \in [Codes -> Grant]
      BY <1>0, <1>3 DEF ExchangeMark, LocalsOf, Typed, TypeOK
    <3>2. [grants[req[r].code] EXCEPT !.state = "used"] \in Grant
      BY <3>1 DEF Grant
    <3>3. CASE UNCHANGED grants
      BY <3>1, <3>3
    <3>4. CASE grants' = [grants EXCEPT ![req[r].code].state = "used"]
      BY <3>1, <3>2, <3>4
    <3> QED BY <1>3, <3>3, <3>4 DEF ExchangeMark, MarkGrantUsed
  <2>2. req' \in [Requests -> Request] /\ Locals'
    <3>1. CASE Goto(r, "mint")
      <4>1. [req[r] EXCEPT !.pc = "mint"] \in Request /\ LocalsOf([req[r] EXCEPT !.pc = "mint"])
        BY <1>0, <1>3 DEF ExchangeMark, Request, LocalsOf
      <4> QED BY <3>1, <4>1, StepRequest DEF Goto
    <3> QED BY <1>3, <3>1, StepFinish DEF ExchangeMark
  <2> QED BY <1>3, <2>1, <2>2 DEF ExchangeMark, Typed, TypeOK
<1>4. ASSUME NEW r \in Requests, ExchangeMint(r)
      PROVE Typed'
  <2>1. CASE req[r].user \notin users /\ Finish(r) /\ UNCHANGED <<sessions, next, family, minted>>
    BY <1>4, <2>1, StepFinish DEF ExchangeMint, Typed, TypeOK
  <2>2. CASE /\ next <= MaxPairs
             /\ CreateSession(req[r].user, req[r].client)
             /\ minted' = minted \cup {<<req[r].code, next>>}
             /\ req' = [req EXCEPT ![r] = [Idle EXCEPT !.pc = "auditIssued",
                                             !.user = req[r].user, !.new = next]]
    <3>1. next \in Pairs /\ req[r].code \in Codes
      BY <1>0, <1>4, <2>2 DEF ExchangeMint, LocalsOf
    <3>2. /\ sessions' \in [Pairs -> Session]
          /\ next' \in 1 .. MaxPairs + 1
          /\ family' \in [Pairs -> 0 .. MaxPairs]
      BY <1>0, <2>2, <3>1, StepCreate
    <3>3. minted' \subseteq Codes \X Pairs
      BY <2>2, <3>1 DEF Typed, TypeOK
    <3> DEFINE v == [Idle EXCEPT !.pc = "auditIssued", !.user = req[r].user, !.new = next]
    <3>4. v \in Request /\ LocalsOf(v)
      BY <1>0, <1>p, <3>1, Empties DEF Request, LocalsOf
    <3>5. req' \in [Requests -> Request] /\ Locals'
      BY <2>2, <3>4, StepRequest
    <3> QED BY <1>4, <3>2, <3>3, <3>5 DEF ExchangeMint, Typed, TypeOK
  <2> QED BY <1>4, <2>1, <2>2 DEF ExchangeMint
<1>5. ASSUME NEW r \in Requests, NEW cl \in Clients, ClientCredentials(r, cl)
      PROVE Typed'
  <2>1. next \in Pairs
    BY <1>0, <1>5 DEF ClientCredentials
  <2>2. /\ sessions' \in [Pairs -> Session]
        /\ next' \in 1 .. MaxPairs + 1
        /\ family' \in [Pairs -> 0 .. MaxPairs]
    BY <1>5, <2>1, StepCreate DEF ClientCredentials
  <2> DEFINE v == [Idle EXCEPT !.pc = "auditIssued", !.new = next]
  <2>3. v \in Request /\ LocalsOf(v)
    BY <1>p, <2>1, Empties DEF Request, LocalsOf
  <2>4. req' \in [Requests -> Request] /\ Locals'
    BY <1>5, <2>3, StepRequest DEF ClientCredentials
  <2> QED BY <1>5, <2>2, <2>4 DEF ClientCredentials, Typed, TypeOK
<1>6. ASSUME NEW r \in Requests, AuditIssued(r)
      PROVE Typed'
  <2>1. req[r].new \in Pairs
    BY <1>0, <1>6 DEF AuditIssued, LocalsOf
  <2>2. journal' \subseteq Events \X Pairs
    BY <1>6, <2>1 DEF AuditIssued, Recorded, Unrecorded, Typed, TypeOK, Events
  <2>3. handed' \subseteq Pairs \X Halves
    BY <1>6, <2>1 DEF AuditIssued, Typed, TypeOK, Halves
  <2>4. req' \in [Requests -> Request] /\ Locals'
    BY <1>6, StepFinish DEF AuditIssued
  <2> QED BY <1>6, <2>2, <2>3, <2>4 DEF AuditIssued, Typed, TypeOK
<1>7. ASSUME NEW r \in Requests, NEW p \in Pairs, NEW cl \in Clients, RefreshBegin(r, p, cl)
      PROVE Typed'
  <2> DEFINE v(s) == [Idle EXCEPT !.pc = "rotate", !.client = cl, !.tok = p,
                                 !.sid = s, !.at = now]
             w == [Idle EXCEPT !.pc = "reuse", !.client = cl, !.tok = p]
  <2>1. \A s \in Pairs : v(s) \in Request /\ LocalsOf(v(s))
    BY <1>0, <1>p, Empties DEF Request, LocalsOf, Times
  <2>2. w \in Request /\ LocalsOf(w)
    BY <1>p, Empties DEF Request, LocalsOf
  <2>3. req' = [req EXCEPT ![r] = w] \/ \E s \in Pairs : req' = [req EXCEPT ![r] = v(s)]
    BY <1>7 DEF RefreshBegin, SessionOf
  <2> HIDE DEF v, w
  <2>4. req' \in [Requests -> Request] /\ Locals'
    BY <2>1, <2>2, <2>3, StepRequest
  <2> QED BY <1>7, <2>4 DEF RefreshBegin, Typed, TypeOK
<1>8. ASSUME NEW r \in Requests, RefreshRotate(r)
      PROVE Typed'
  <2>0. req[r].sid \in Pairs /\ req[r].tok \in Pairs /\ req[r].at \in Times
    BY <1>0, <1>8 DEF RefreshRotate, LocalsOf
  <2>1. CASE /\ next <= MaxPairs
             /\ RotateRefreshToken(req[r].sid, req[r].tok, req[r].at)
             /\ rotated' = rotated \cup {<<req[r].tok, next>>}
             /\ req' = [req EXCEPT ![r].pc = "auditRefreshed", ![r].new = next]
    <3>1. next \in Pairs
      BY <1>0, <2>1
    <3>2. /\ sessions' \in [Pairs -> Session]
          /\ retired' \in [Pairs -> 0 .. MaxPairs]
          /\ next' \in 1 .. MaxPairs + 1
          /\ family' \in [Pairs -> 0 .. MaxPairs]
      BY <2>0, <2>1, <3>1, StepRotate
    <3>3. rotated' \subseteq Pairs \X Pairs
      BY <2>0, <2>1, <3>1 DEF Typed, TypeOK
    <3> DEFINE v == [req[r] EXCEPT !.pc = "auditRefreshed", !.new = next]
    <3>4. v \in Request /\ LocalsOf(v)
      BY <1>0, <1>p, <3>1 DEF Request, LocalsOf
    <3>5. req' = [req EXCEPT ![r] = v]
      BY <2>1
    <3>6. req' \in [Requests -> Request] /\ Locals'
      BY <3>4, <3>5, StepRequest
    <3> QED BY <1>8, <3>2, <3>3, <3>6 DEF RefreshRotate, Typed, TypeOK
  <2>2. CASE Goto(r, "reuse") /\ UNCHANGED <<sessions, retired, next, rotated, family>>
    <3>1. [req[r] EXCEPT !.pc = "reuse"] \in Request /\ LocalsOf([req[r] EXCEPT !.pc = "reuse"])
      BY <1>0, <2>0 DEF Request, LocalsOf
    <3>2. req' \in [Requests -> Request] /\ Locals'
      BY <2>2, <3>1, StepRequest DEF Goto
    <3> QED BY <1>8, <2>2, <3>2 DEF RefreshRotate, Typed, TypeOK
  <2> QED BY <1>8, <2>1, <2>2 DEF RefreshRotate
<1>9. ASSUME NEW r \in Requests, AuditRefreshed(r)
      PROVE Typed'
  <2>1. req[r].new \in Pairs
    BY <1>0, <1>9 DEF AuditRefreshed, LocalsOf
  <2>2. journal' \subseteq Events \X Pairs
    BY <1>9, <2>1 DEF AuditRefreshed, Recorded, Unrecorded, Typed, TypeOK, Events
  <2>3. handed' \subseteq Pairs \X Halves
    BY <1>9, <2>1 DEF AuditRefreshed, Typed, TypeOK
  <2>4. req' \in [Requests -> Request] /\ Locals'
    BY <1>9, StepFinish DEF AuditRefreshed
  <2> QED BY <1>9, <2>2, <2>3, <2>4 DEF AuditRefreshed, Typed, TypeOK
<1>10. ASSUME NEW r \in Requests, ReuseLookup(r)
      PROVE Typed'
  <2>1. ASSUME NEW s \in Pairs, req' = [req EXCEPT ![r].pc = "revokeReuse", ![r].sid = s]
        PROVE req' \in [Requests -> Request] /\ Locals'
    <3> DEFINE v == [req[r] EXCEPT !.pc = "revokeReuse", !.sid = s]
    <3>1. v \in Request /\ LocalsOf(v)
      BY <1>0, <1>p DEF Request, LocalsOf
    <3>2. req' = [req EXCEPT ![r] = v]
      BY <2>1
    <3> QED BY <3>1, <3>2, StepRequest
  <2>2. req' \in [Requests -> Request] /\ Locals'
    BY <1>10, <2>1, StepFinish DEF ReuseLookup, SessionRetiring
  <2> QED BY <1>10, <2>2 DEF ReuseLookup, Typed, TypeOK
<1>11. ASSUME NEW r \in Requests, ReuseRevoke(r)
      PROVE Typed'
  <2>1. [req[r] EXCEPT !.pc = "auditReuse"] \in Request /\ LocalsOf([req[r] EXCEPT !.pc = "auditReuse"])
    BY <1>0, <1>11 DEF ReuseRevoke, Request, LocalsOf
  <2>2. req' \in [Requests -> Request] /\ Locals'
    BY <1>11, <2>1, StepRequest DEF ReuseRevoke, Goto
  <2> QED BY <1>11, <2>2, StepDelete DEF ReuseRevoke, Typed, TypeOK
<1>12. ASSUME NEW r \in Requests, ReuseAudit(r)
      PROVE Typed'
  <2>1. req[r].sid \in Pairs
    BY <1>0, <1>12 DEF ReuseAudit, LocalsOf
  <2>2. journal' \subseteq Events \X Pairs
    BY <1>12, <2>1 DEF ReuseAudit, Recorded, Unrecorded, Typed, TypeOK, Events
  <2> QED BY <1>12, <2>2, StepFinish DEF ReuseAudit, Typed, TypeOK
<1>13. ASSUME NEW r \in Requests, NEW p \in Pairs, RevokeBegin(r, p)
      PROVE Typed'
  <2> DEFINE v(s) == [Idle EXCEPT !.pc = "auditRevoke", !.tok = p, !.sid = s]
  <2>1. \A s \in Pairs : v(s) \in Request /\ LocalsOf(v(s))
    BY <1>p, Empties DEF Request, LocalsOf
  <2>2. \E s \in Pairs : req' = [req EXCEPT ![r] = v(s)]
    BY <1>13 DEF RevokeBegin, SessionOf
  <2> HIDE DEF v
  <2>3. req' \in [Requests -> Request] /\ Locals'
    BY <2>1, <2>2, StepRequest
  <2> QED BY <1>13, <2>3 DEF RevokeBegin, Typed, TypeOK
<1>14. ASSUME NEW r \in Requests, RevokeAudit(r)
      PROVE Typed'
  <2>1. req[r].sid \in Pairs
    BY <1>0, <1>14 DEF RevokeAudit, LocalsOf
  <2>2. journal' \subseteq Events \X Pairs
    BY <1>14, <2>1 DEF RevokeAudit, Recorded, Unrecorded, Typed, TypeOK, Events
  <2>3. /\ [req[r] EXCEPT !.pc = "deleteRevoked"] \in Request
        /\ LocalsOf([req[r] EXCEPT !.pc = "deleteRevoked"])
    BY <1>0, <2>1 DEF Request, LocalsOf
  <2>4. req' \in [Requests -> Request] /\ Locals'
    BY <1>14, <2>3, StepRequest, StepFinish DEF RevokeAudit, Goto
  <2> QED BY <1>14, <2>2, <2>4 DEF RevokeAudit, Typed, TypeOK
<1>15. ASSUME NEW r \in Requests, RevokeDelete(r)
      PROVE Typed'
  BY <1>15, StepDelete, StepFinish DEF RevokeDelete, Typed, TypeOK
<1>16. ASSUME NEW r \in Requests, Abort(r)
      PROVE Typed'
  BY <1>16, StepFinish DEF Abort, Typed, TypeOK
<1>17. ASSUME NEW u \in Users, SignOut(u)
      PROVE Typed'
  BY <1>17, StepDelete DEF SignOut, Typed, TypeOK, Locals
<1>18. ASSUME NEW u \in Users, DeleteUser(u)
      PROVE Typed'
  <2>1. grants' \in [Codes -> Grant]
    BY <1>0, <1>18, Empties DEF DeleteUser
  <2> QED BY <1>18, <2>1, StepDelete DEF DeleteUser, Typed, TypeOK, Locals
<1>19. CASE Tick
  BY <1>19 DEF Tick, Typed, TypeOK, Locals, Times
<1>20. CASE UNCHANGED vars
  BY <1>20 DEF vars, Typed, TypeOK, Locals
<1> QED
  BY <1>1, <1>2, <1>3, <1>4, <1>5, <1>6, <1>7, <1>8, <1>9, <1>10, <1>11, <1>12,
     <1>13, <1>14, <1>15, <1>16, <1>17, <1>18, <1>19, <1>20 DEF Next, Run, Proceed

\* The specification's variables keep their types (database columns,
\* handler locals, journal events).
THEOREM TypeCorrect == Spec => []TypeOK
<1>1. Spec => []Typed
  BY TypedInit, TypedNext, PTL DEF Spec
<1>2. Typed => TypeOK
  BY DEF Typed
<1> QED BY <1>1, <1>2, PTL

-----------------------------------------------------------------------------
(* The inductive invariant.                                                *)

\* Nothing in the database or in the history refers to a pair that has not
\* been generated yet.
FreshPairs ==
  /\ \A p \in Pairs : /\ family[p] < next
                      /\ p >= next => /\ family[p] = 0
                                      /\ retired[p] = 0
                                      /\ ~sessions[p].live
  /\ \A m \in rotated : m[1] < next /\ m[2] < next

\* The pairs of a live session are its current one and the retired ones.
Lineage ==
  /\ \A s \in Pairs : sessions[s].live =>
       sessions[s].tok \in Pairs /\ family[sessions[s].tok] = s
  /\ \A p \in Pairs : retired[p] # 0 =>
       /\ sessions[retired[p]].live
       /\ family[p] = retired[p]
       /\ sessions[retired[p]].tok # p
  /\ \A p \in Pairs : family[p] # 0 /\ sessions[family[p]].live =>
       sessions[family[p]].tok = p \/ retired[p] = family[p]

\* A pair that was rotated away from is nobody's current pair.
PairsSpent ==
  \A m \in rotated, s \in Pairs : sessions[s].live => sessions[s].tok # m[1]

\* A code that opened a session, or is about to, cannot be redeemed; and only
\* one request is about to.
CodesSpent ==
  /\ \A m \in minted : grants[m[1]].state \in {"used", "gone"}
  /\ \A r \in Requests : req[r].pc = "mint" =>
       /\ grants[req[r].code].state \in {"used", "gone"}
       /\ \A m \in minted : m[1] # req[r].code
  /\ \A q, r \in Requests :
       req[q].pc = "mint" /\ req[r].pc = "mint" /\ req[q].code = req[r].code
         => q = r

TokenInv ==
  /\ Typed /\ FreshPairs /\ Lineage /\ PairsSpent /\ RefreshSingleUse
  /\ ExpiryWithinCap /\ CodesSpent /\ CodeSingleUse /\ HandedWasJournalled

\* How a step may change the sessions and the tokens they have retired: not
\* at all, by an insert, by a rotation, or by a delete.
LEMMA StoreSteps ==
  ASSUME Typed, [Next]_vars
  PROVE  \/ UNCHANGED <<sessions, retired, next, family, rotated>>
         \/ \E u \in Users \cup {None}, cl \in Clients \cup {None} :
              /\ next \in Pairs
              /\ CreateSession(u, cl)
              /\ UNCHANGED <<retired, rotated>>
         \/ \E s, old \in Pairs, at \in Times :
              /\ next \in Pairs
              /\ RotateRefreshToken(s, old, at)
              /\ rotated' = rotated \cup {<<old, next>>}
         \/ \E S \in SUBSET Pairs :
              /\ DeleteSessions(S)
              /\ UNCHANGED <<next, family, rotated>>
<1>0. /\ \A r \in Requests : /\ req[r].at \in Times
                             /\ req[r].user \in Users \cup {None}
                             /\ req[r].client \in Clients \cup {None}
                             /\ LocalsOf(req[r])
      /\ next <= MaxPairs => next \in Pairs
  <2>1. \A r \in Requests : req[r] \in Request
    BY DEF Typed, TypeOK
  <2>2. \A r \in Requests : /\ req[r].at \in Times
                            /\ req[r].user \in Users \cup {None}
                            /\ req[r].client \in Clients \cup {None}
    BY <2>1 DEF Request
  <2>3. next <= MaxPairs => next \in Pairs
    BY BoundAssumption DEF Typed, TypeOK, Pairs
  <2> QED BY <2>2, <2>3 DEF Typed, Locals
<1>1. ASSUME NEW r \in Requests, ExchangeMint(r), ~UNCHANGED sessions
      PROVE  \E u \in Users \cup {None}, cl \in Clients \cup {None} :
              /\ next \in Pairs
              /\ CreateSession(u, cl)
              /\ UNCHANGED <<retired, rotated>>
  <2>1. /\ next \in Pairs
        /\ CreateSession(req[r].user, req[r].client)
        /\ UNCHANGED <<retired, rotated>>
    BY <1>0, <1>1 DEF ExchangeMint
  <2> QED BY <1>0, <2>1
<1>2. ASSUME NEW r \in Requests, ExchangeMint(r), UNCHANGED sessions
      PROVE  \/ UNCHANGED <<sessions, retired, next, family, rotated>>
             \/ \E u \in Users \cup {None}, cl \in Clients \cup {None} :
                  /\ next \in Pairs
                  /\ CreateSession(u, cl)
                  /\ UNCHANGED <<retired, rotated>>
  BY <1>0, <1>2 DEF ExchangeMint
<1>3. ASSUME NEW r \in Requests, NEW cl \in Clients, ClientCredentials(r, cl)
      PROVE  \E u \in Users \cup {None}, k \in Clients \cup {None} :
              /\ next \in Pairs
              /\ CreateSession(u, k)
              /\ UNCHANGED <<retired, rotated>>
  <2>1. /\ next \in Pairs
        /\ CreateSession(None, cl)
        /\ UNCHANGED <<retired, rotated>>
    BY <1>0, <1>3 DEF ClientCredentials
  <2> QED BY <2>1
<1>4. ASSUME NEW r \in Requests, RefreshRotate(r)
      PROVE  \/ UNCHANGED <<sessions, retired, next, family, rotated>>
             \/ \E s, old \in Pairs, at \in Times :
                  /\ next \in Pairs
                  /\ RotateRefreshToken(s, old, at)
                  /\ rotated' = rotated \cup {<<old, next>>}
  <2>1. req[r].sid \in Pairs /\ req[r].tok \in Pairs /\ req[r].at \in Times
    BY <1>0, <1>4 DEF RefreshRotate, LocalsOf
  <2> QED BY <1>0, <1>4, <2>1 DEF RefreshRotate
<1>5. ASSUME NEW r \in Requests, ReuseRevoke(r) \/ RevokeDelete(r)
      PROVE  \E S \in SUBSET Pairs :
              /\ DeleteSessions(S)
              /\ UNCHANGED <<next, family, rotated>>
  <2>1. req[r].sid \in Pairs
    BY <1>0, <1>5 DEF ReuseRevoke, RevokeDelete, LocalsOf
  <2>2. /\ DeleteSessions({req[r].sid})
        /\ UNCHANGED <<next, family, rotated>>
    BY <1>5 DEF ReuseRevoke, RevokeDelete
  <2> QED BY <2>1, <2>2
<1>6. ASSUME NEW u \in Users, SignOut(u) \/ DeleteUser(u)
      PROVE  \E S \in SUBSET Pairs :
              /\ DeleteSessions(S)
              /\ UNCHANGED <<next, family, rotated>>
  <2>1. /\ DeleteSessions(SessionsOfUser(u))
        /\ UNCHANGED <<next, family, rotated>>
    BY <1>6 DEF SignOut, DeleteUser
  <2> QED BY <2>1 DEF SessionsOfUser
<1>7. ASSUME NEW r \in Requests,
             \/ \E c \in Codes, cl \in Clients : ExchangeBegin(r, c, cl)
             \/ \E p \in Pairs, cl \in Clients : RefreshBegin(r, p, cl)
             \/ \E p \in Pairs : RevokeBegin(r, p)
             \/ ExchangeMark(r) \/ AuditIssued(r) \/ AuditRefreshed(r)
             \/ ReuseLookup(r) \/ ReuseAudit(r) \/ RevokeAudit(r) \/ Abort(r)
      PROVE  UNCHANGED <<sessions, retired, next, family, rotated>>
  BY <1>7 DEF ExchangeBegin, RefreshBegin, RevokeBegin, ExchangeMark,
     AuditIssued, AuditRefreshed, ReuseLookup, ReuseAudit, RevokeAudit, Abort
<1>8. ASSUME \/ \E c \in Codes, u \in Users, cl \in Clients : IssueCode(c, u, cl)
             \/ Tick
             \/ UNCHANGED vars
      PROVE  UNCHANGED <<sessions, retired, next, family, rotated>>
  BY <1>8 DEF IssueCode, Tick, vars
<1> QED
  BY <1>1, <1>2, <1>3, <1>4, <1>5, <1>6, <1>7, <1>8 DEF Next, Run, Proceed

\* Arithmetic facts the types give.
LEMMA Numbers ==
  ASSUME Typed
  PROVE  /\ now \in Nat /\ next \in Nat /\ next # 0
         /\ \A p \in Pairs : p \in Nat /\ p # 0
         /\ \A p \in 0 .. MaxPairs : p # 0 => p \in Pairs
         /\ \A p \in Pairs : family[p] \in Nat /\ retired[p] \in Nat
         /\ \A p \in Pairs : family[p] # 0 => family[p] \in Pairs
         /\ \A p \in Pairs : retired[p] # 0 => retired[p] \in Pairs
         /\ \A m \in rotated : /\ m[1] \in Pairs /\ m[2] \in Pairs
                               /\ m[1] \in Nat /\ m[2] \in Nat
<1>1. now \in Nat /\ next \in Nat /\ next # 0
  BY BoundAssumption DEF Typed, TypeOK, Times
<1>2. /\ \A p \in Pairs : p \in Nat /\ p # 0
      /\ \A p \in 0 .. MaxPairs : p \in Nat /\ (p # 0 => p \in Pairs)
  BY BoundAssumption DEF Pairs
<1>3. \A p \in Pairs : family[p] \in 0 .. MaxPairs /\ retired[p] \in 0 .. MaxPairs
  BY DEF Typed, TypeOK
<1>4. \A m \in rotated : m[1] \in Pairs /\ m[2] \in Pairs
  BY DEF Typed, TypeOK
<1> QED BY <1>1, <1>2, <1>3, <1>4

\* What the database says about pairs: the part of TokenInv that the four
\* kinds of step above decide.
StoreInv ==
  FreshPairs /\ Lineage /\ PairsSpent /\ RefreshSingleUse /\ ExpiryWithinCap

\* The store's invariant holds initially.
LEMMA StoreInit == Init => StoreInv
BY BoundAssumption DEF Init, StoreInv, FreshPairs, Lineage, PairsSpent,
   RefreshSingleUse, ExpiryWithinCap, NoSession, Pairs

\* An insert keeps the store's invariant.
LEMMA CreateKeeps ==
  ASSUME Typed, StoreInv, next \in Pairs, NEW u, NEW cl, CreateSession(u, cl),
         UNCHANGED <<retired, rotated>>
  PROVE  StoreInv'
<1> DEFINE row == [live |-> TRUE, user |-> u, client |-> cl, tok |-> next,
                   aexp |-> now + AccessTTL, rexp |-> now + RefreshTTL, created |-> now]
<1>0. next' = next + 1
  BY DEF CreateSession
<1>1. \A s \in Pairs : sessions'[s] = IF s = next THEN row ELSE sessions[s]
  BY DEF CreateSession, Typed, TypeOK
<1>2. \A p \in Pairs : family'[p] = IF p = next THEN next ELSE family[p]
  BY DEF CreateSession, Typed, TypeOK
<1>3. /\ row.live = TRUE /\ row.tok = next /\ row.created = now
      /\ row.aexp = now + AccessTTL /\ row.rexp = now + RefreshTTL
  OBVIOUS
<1> HIDE DEF row
<1>4. FreshPairs'
  BY <1>0, Numbers, <1>1, <1>2 DEF StoreInv, FreshPairs
<1>5. Lineage'
  BY <1>0, Numbers, <1>1, <1>2, <1>3 DEF StoreInv, FreshPairs, Lineage
<1>6. PairsSpent' /\ RefreshSingleUse'
  BY <1>0, Numbers, <1>1, <1>3 DEF StoreInv, FreshPairs, PairsSpent, RefreshSingleUse
<1>7. ExpiryWithinCap'
  BY <1>0, Numbers, <1>1, <1>3, TTLAssumption DEF StoreInv, ExpiryWithinCap
<1> QED BY <1>4, <1>5, <1>6, <1>7 DEF StoreInv

\* A rotation keeps the store's invariant: the pair it leaves behind is the
\* current one, so it was not on record as retired before.
LEMMA RotateKeeps ==
  ASSUME Typed, StoreInv, next \in Pairs,
         NEW s \in Pairs, NEW old \in Pairs, NEW at \in Times,
         RotateRefreshToken(s, old, at), rotated' = rotated \cup {<<old, next>>}
  PROVE  StoreInv' /\ retired[old] = 0
<1>0. next' = next + 1
  BY DEF RotateRefreshToken
<1>1. sessions[s].live /\ sessions[s].tok = old
  BY DEF RotateRefreshToken
<1>2. family[old] = s /\ retired[old] = 0 /\ old < next
  BY <1>0, Numbers, <1>1 DEF StoreInv, Lineage, FreshPairs
<1>3. /\ \A t \in Pairs : sessions'[t] = IF t = s THEN Rotated(s, at) ELSE sessions[t]
      /\ \A p \in Pairs : family'[p] = IF p = next THEN s ELSE family[p]
  BY DEF RotateRefreshToken, Typed, TypeOK
<1>4. \A p \in Pairs : retired'[p] = IF p = old THEN s ELSE retired[p]
  BY <1>2 DEF RotateRefreshToken, Typed, TypeOK
<1>5. /\ Rotated(s, at).live /\ Rotated(s, at).tok = next
      /\ Rotated(s, at).created = sessions[s].created
      /\ Rotated(s, at).aexp <= sessions[s].created + AbsoluteTTL
      /\ Rotated(s, at).rexp <= sessions[s].created + AbsoluteTTL
  BY <1>1, RotatedRow
<1>6. s < next
  BY <1>0, Numbers, <1>1 DEF StoreInv, FreshPairs
<1>7. FreshPairs'
  BY <1>0, Numbers, <1>2, <1>3, <1>4, <1>6 DEF StoreInv, FreshPairs
<1>8. Lineage'
  <2>1. \A t \in Pairs : sessions'[t].live =>
          sessions'[t].tok \in Pairs /\ family'[sessions'[t].tok] = t
    BY <1>0, Numbers, <1>3, <1>5 DEF StoreInv, FreshPairs, Lineage
  <2>2. \A p \in Pairs : retired'[p] # 0 =>
          /\ sessions'[retired'[p]].live
          /\ family'[p] = retired'[p]
          /\ sessions'[retired'[p]].tok # p
    <3> SUFFICES ASSUME NEW p \in Pairs, retired'[p] # 0
                 PROVE  /\ sessions'[retired'[p]].live
                        /\ family'[p] = retired'[p]
                        /\ sessions'[retired'[p]].tok # p
      OBVIOUS
    <3>1. CASE p = old
      BY <1>0, Numbers, <1>2, <1>3, <1>4, <1>5, <3>1
    <3>2. CASE p # old
      <4>1. /\ retired'[p] = retired[p] /\ retired[p] \in Pairs
            /\ p # next
        BY <1>0, Numbers, <1>4, <3>2, BoundAssumption DEF StoreInv, FreshPairs, Pairs
      <4>2. /\ sessions[retired[p]].live
            /\ family[p] = retired[p]
            /\ sessions[retired[p]].tok # p
        BY <4>1 DEF StoreInv, Lineage
      <4> QED BY <1>3, <1>5, <4>1, <4>2
    <3> QED BY <3>1, <3>2
  <2>3. \A p \in Pairs : family'[p] # 0 /\ sessions'[family'[p]].live =>
          sessions'[family'[p]].tok = p \/ retired'[p] = family'[p]
    <3> SUFFICES ASSUME NEW p \in Pairs, family'[p] # 0, sessions'[family'[p]].live
                 PROVE  sessions'[family'[p]].tok = p \/ retired'[p] = family'[p]
      OBVIOUS
    <3>1. CASE p = next
      BY <1>3, <1>5, <3>1
    <3>2. CASE p # next
      <4>1. family'[p] = family[p] /\ family[p] \in Pairs
        BY <1>0, Numbers, <1>3, <3>2, BoundAssumption DEF Pairs
      <4>2. CASE family[p] = s
        BY <1>1, <1>2, <1>4, <4>1, <4>2, Numbers DEF StoreInv, Lineage
      <4>3. CASE family[p] # s
        <5>1. sessions[family[p]].live /\ sessions'[family'[p]] = sessions[family[p]]
          BY <1>3, <4>1, <4>3
        <5>2. sessions[family[p]].tok = p \/ retired[p] = family[p]
          BY <1>0, Numbers, <4>1, <5>1 DEF StoreInv, Lineage
        <5> QED BY <1>2, <1>4, <4>1, <4>3, <5>1, <5>2
      <4> QED BY <4>2, <4>3
    <3> QED BY <3>1, <3>2
  <2> QED BY <2>1, <2>2, <2>3 DEF Lineage
<1>9. PairsSpent'
  <2> SUFFICES ASSUME NEW m \in rotated', NEW t \in Pairs, sessions'[t].live
               PROVE  sessions'[t].tok # m[1]
    BY DEF PairsSpent
  <2>1. m[1] < next /\ m[1] \in Nat
    BY <1>0, Numbers, <1>2 DEF StoreInv, FreshPairs
  <2>2. CASE t = s
    BY <1>0, Numbers, <1>3, <1>5, <2>1, <2>2
  <2>3. CASE t # s /\ m \in rotated
    BY <1>3, <2>3 DEF StoreInv, PairsSpent
  <2>4. CASE t # s /\ m = <<old, next>>
    <3>1. sessions[t].live /\ sessions'[t].tok = sessions[t].tok
      BY <1>3, <2>4
    <3>2. sessions[t].tok # old
      BY <1>2, <2>4, <3>1 DEF StoreInv, Lineage
    <3> QED BY <2>4, <3>1, <3>2
  <2> QED BY <2>2, <2>3, <2>4
<1>10. RefreshSingleUse'
  BY <1>1 DEF StoreInv, PairsSpent, RefreshSingleUse
<1>11. ExpiryWithinCap'
  BY <1>3, <1>5 DEF StoreInv, ExpiryWithinCap
<1> QED BY <1>2, <1>7, <1>8, <1>9, <1>10, <1>11 DEF StoreInv

\* A delete keeps the store's invariant: the cascade takes the record of the
\* retired pairs with the session.
LEMMA DeleteKeeps ==
  ASSUME Typed, StoreInv, NEW S \in SUBSET Pairs, DeleteSessions(S),
         UNCHANGED <<next, family, rotated>>
  PROVE  StoreInv'
<1>0. /\ next \in Nat
      /\ retired \in [Pairs -> 0 .. MaxPairs]
      /\ family \in [Pairs -> 0 .. MaxPairs]
      /\ \A p \in Pairs : p \in Nat /\ p # 0
      /\ \A p \in 0 .. MaxPairs : p # 0 => p \in Pairs
  BY BoundAssumption DEF Typed, TypeOK, Times, Pairs
<1>1. /\ \A s \in Pairs : /\ sessions'[s].live <=> s \notin S /\ sessions[s].live
                          /\ s \notin S => sessions'[s] = sessions[s]
      /\ \A p \in Pairs : retired'[p] = IF retired[p] \in S THEN 0 ELSE retired[p]
  BY DEF DeleteSessions, NoSession
<1>2. FreshPairs'
  BY <1>0, <1>1 DEF StoreInv, FreshPairs
<1>3. Lineage'
  BY <1>0, <1>1 DEF StoreInv, Lineage
<1>4. PairsSpent' /\ RefreshSingleUse' /\ ExpiryWithinCap'
  BY <1>1 DEF StoreInv, PairsSpent, RefreshSingleUse, ExpiryWithinCap
<1> QED BY <1>2, <1>3, <1>4 DEF StoreInv

\* Every step keeps the store's invariant.
LEMMA StoreNext == Typed /\ StoreInv /\ [Next]_vars => StoreInv'
<1> SUFFICES ASSUME Typed, StoreInv, [Next]_vars PROVE StoreInv'
  OBVIOUS
<1>1. CASE UNCHANGED <<sessions, retired, next, family, rotated>>
  BY <1>1 DEF StoreInv, FreshPairs, Lineage, PairsSpent, RefreshSingleUse,
     ExpiryWithinCap
<1> QED BY <1>1, StoreSteps, CreateKeeps, RotateKeeps, DeleteKeeps

\* The invariant of the authorization codes.
CodeInv == CodesSpent /\ CodeSingleUse

\* A step that leaves codes and sessions minted from them alone, and lets no
\* request reach the point where it is about to open a session.
Quiet ==
  /\ UNCHANGED <<grants, minted>>
  /\ \A q \in Requests : req'[q].pc = "mint" =>
       req[q].pc = "mint" /\ req'[q].code = req[q].code

\* A quiet step keeps the invariant of the codes.
LEMMA QuietKeeps == CodeInv /\ Quiet => CodeInv'
BY DEF CodeInv, Quiet, CodesSpent, CodeSingleUse

\* Ending a request is quiet.
LEMMA FinishQuiet ==
  ASSUME Typed, NEW r \in Requests, Finish(r), UNCHANGED <<grants, minted>>
  PROVE  Quiet
BY DEF Finish, Idle, Quiet, Typed, TypeOK

\* So is a jump to any label but mint.
LEMMA GotoQuiet ==
  ASSUME Typed, NEW r \in Requests, NEW v \in Request, v.pc # "mint",
         req' = [req EXCEPT ![r] = v], UNCHANGED <<grants, minted>>
  PROVE  Quiet
BY DEF Quiet, Typed, TypeOK

\* Init satisfies the invariant of the codes.
LEMMA CodeInit == Init => CodeInv
BY DEF Init, Idle, CodeInv, CodesSpent, CodeSingleUse

\* Every step keeps it: the UPDATE in MarkGrantUsed lets one request through.
LEMMA CodeNext == Typed /\ CodeInv /\ [Next]_vars => CodeInv'
<1> SUFFICES ASSUME Typed, CodeInv, [Next]_vars PROVE CodeInv'
  OBVIOUS
<1>0. /\ \A r \in Requests : req[r] \in Request /\ LocalsOf(req[r])
      /\ \A m \in minted : m[1] \in Codes
      /\ Idle \in Request
  BY Empties DEF Typed, TypeOK, Locals
<1>1. ASSUME NEW c \in Codes, NEW u \in Users, NEW cl \in Clients, IssueCode(c, u, cl)
      PROVE CodeInv'
  <2>1. \A d \in Codes : grants[d].state \in {"used", "gone"} => grants'[d] = grants[d]
    BY <1>1 DEF IssueCode, Typed, TypeOK
  <2> QED BY <1>0, <1>1, <2>1 DEF IssueCode, LocalsOf, CodeInv, CodesSpent, CodeSingleUse
<1>2. ASSUME NEW r \in Requests, NEW c \in Codes, NEW cl \in Clients, ExchangeBegin(r, c, cl)
      PROVE Quiet
  BY <1>2 DEF ExchangeBegin, Idle, Quiet, Typed, TypeOK
<1>3. ASSUME NEW r \in Requests, ExchangeMark(r)
      PROVE CodeInv'
  <2>1. CASE MarkGrantUsed(req[r].code) /\ Goto(r, "mint")
    <3> DEFINE c == req[r].code
    <3>1. c \in Codes /\ grants[c].state = "open"
      BY <1>0, <1>3, <2>1 DEF ExchangeMark, MarkGrantUsed, LocalsOf
    <3>2. \A d \in Codes : grants'[d].state = IF d = c THEN "used" ELSE grants[d].state
      BY <2>1, <3>1 DEF MarkGrantUsed, Typed, TypeOK, Grant
    <3>3. \A q \in Requests : /\ req'[q].code = req[q].code
                              /\ req'[q].pc = IF q = r THEN "mint" ELSE req[q].pc
      BY <1>0, <2>1 DEF Goto, Typed, TypeOK, Request
    <3>4. minted' = minted
      BY <1>3 DEF ExchangeMark
    <3>5. /\ \A m \in minted : m[1] # c
          /\ \A q \in Requests : req[q].pc = "mint" => req[q].code # c
      BY <3>1 DEF CodeInv, CodesSpent
    <3> HIDE DEF c
    <3>6. \A m \in minted' : grants'[m[1]].state \in {"used", "gone"}
      BY <1>0, <3>2, <3>4 DEF CodeInv, CodesSpent
    <3>7. req[r].code = c /\ \A q \in Requests : req[q].pc = "mint" => req[q].code \in Codes
      BY <1>0 DEF c, LocalsOf
    <3>8. \A q \in Requests : req'[q].pc = "mint" =>
            /\ grants'[req'[q].code].state \in {"used", "gone"}
            /\ \A m \in minted' : m[1] # req'[q].code
      BY <3>1, <3>2, <3>3, <3>4, <3>5, <3>7 DEF CodeInv, CodesSpent
    <3>9. \A q, t \in Requests :
            req'[q].pc = "mint" /\ req'[t].pc = "mint" /\ req'[q].code = req'[t].code
              => q = t
      BY <3>3, <3>5, <3>7 DEF CodeInv, CodesSpent
    <3> QED BY <3>4, <3>6, <3>8, <3>9 DEF CodeInv, CodesSpent, CodeSingleUse
  <2>2. CASE Finish(r) /\ UNCHANGED grants
    BY <1>3, <2>2, FinishQuiet, QuietKeeps DEF ExchangeMark
  <2> QED BY <1>3, <2>1, <2>2 DEF ExchangeMark
<1>4. ASSUME NEW r \in Requests, ExchangeMint(r)
      PROVE CodeInv'
  <2>1. CASE Finish(r) /\ UNCHANGED minted
    BY <1>4, <2>1, FinishQuiet, QuietKeeps DEF ExchangeMint
  <2>2. CASE /\ minted' = minted \cup {<<req[r].code, next>>}
             /\ req' = [req EXCEPT ![r] = [Idle EXCEPT !.pc = "auditIssued",
                                             !.user = req[r].user, !.new = next]]
    <3>1. /\ req[r].pc = "mint" /\ grants' = grants
      BY <1>4 DEF ExchangeMint
    <3>2. /\ req'[r].pc = "auditIssued"
          /\ \A q \in Requests : q # r => req'[q] = req[q]
      <4>1. [Idle EXCEPT !.pc = "auditIssued", !.user = req[r].user, !.new = next].pc = "auditIssued"
        BY <1>0 DEF Idle
      <4> QED BY <2>2, <4>1 DEF Typed, TypeOK
    <3>3. CodeSingleUse'
      BY <2>2, <3>1 DEF CodeInv, CodesSpent, CodeSingleUse
    <3>4. \A m \in minted' : grants'[m[1]].state \in {"used", "gone"}
      BY <2>2, <3>1 DEF CodeInv, CodesSpent
    <3>5. \A q \in Requests : req'[q].pc = "mint" => q # r /\ req[q].pc = "mint" /\ req'[q] = req[q]
      BY <3>2
    <3>6. \A q \in Requests : req'[q].pc = "mint" =>
            /\ grants'[req'[q].code].state \in {"used", "gone"}
            /\ \A m \in minted' : m[1] # req'[q].code
      BY <2>2, <3>1, <3>5 DEF CodeInv, CodesSpent
    <3>7. \A q, t \in Requests :
            req'[q].pc = "mint" /\ req'[t].pc = "mint" /\ req'[q].code = req'[t].code
              => q = t
      BY <3>5 DEF CodeInv, CodesSpent
    <3> QED BY <3>3, <3>4, <3>6, <3>7 DEF CodeInv, CodesSpent
  <2> QED BY <1>4, <2>1, <2>2 DEF ExchangeMint
<1>5. ASSUME NEW r \in Requests, NEW cl \in Clients, ClientCredentials(r, cl)
      PROVE Quiet
  BY <1>5 DEF ClientCredentials, Idle, Quiet, Typed, TypeOK
<1>6. ASSUME NEW r \in Requests,
             AuditIssued(r) \/ AuditRefreshed(r) \/ ReuseAudit(r) \/ RevokeDelete(r) \/ Abort(r)
      PROVE Quiet
  BY <1>6, FinishQuiet DEF AuditIssued, AuditRefreshed, ReuseAudit, RevokeDelete, Abort
<1>7. ASSUME NEW r \in Requests, NEW p \in Pairs, NEW cl \in Clients, RefreshBegin(r, p, cl)
      PROVE Quiet
  BY <1>7, ZenonT(60) DEF RefreshBegin, Idle, Quiet, Typed, TypeOK
<1>8. ASSUME NEW r \in Requests, RefreshRotate(r)
      PROVE Quiet
  BY <1>0, <1>8 DEF RefreshRotate, Goto, Quiet, Typed, TypeOK, Request
<1>9. ASSUME NEW r \in Requests, ReuseLookup(r)
      PROVE Quiet
  BY <1>0, <1>9, FinishQuiet DEF ReuseLookup, Quiet, Typed, TypeOK, Request
<1>10. ASSUME NEW r \in Requests, ReuseRevoke(r)
      PROVE Quiet
  BY <1>0, <1>10 DEF ReuseRevoke, Goto, Quiet, Typed, TypeOK, Request
<1>11. ASSUME NEW r \in Requests, NEW p \in Pairs, RevokeBegin(r, p)
      PROVE Quiet
  BY <1>11 DEF RevokeBegin, Idle, Quiet, Typed, TypeOK
<1>12. ASSUME NEW r \in Requests, RevokeAudit(r)
      PROVE Quiet
  BY <1>0, <1>12, FinishQuiet DEF RevokeAudit, Goto, Quiet, Typed, TypeOK, Request
<1>13. ASSUME NEW u \in Users, SignOut(u)
      PROVE Quiet
  BY <1>13 DEF SignOut, Quiet
<1>14. ASSUME NEW u \in Users, DeleteUser(u)
      PROVE CodeInv'
  <2>1. \A c \in Codes : grants[c].state \in {"used", "gone"} => grants'[c].state \in {"used", "gone"}
    BY <1>14 DEF DeleteUser, GoneGrant, NoGrant
  <2>2. UNCHANGED <<req, minted>>
    BY <1>14 DEF DeleteUser
  <2> QED BY <1>0, <2>1, <2>2 DEF LocalsOf, CodeInv, CodesSpent, CodeSingleUse
<1>15. CASE Tick \/ UNCHANGED vars
  BY <1>15, QuietKeeps DEF Tick, vars, Quiet
<1> QED
  BY <1>1, <1>2, <1>3, <1>4, <1>5, <1>6, <1>7, <1>8, <1>9, <1>10, <1>11, <1>12,
     <1>13, <1>14, <1>15, QuietKeeps DEF Next, Run, Proceed

\* Tokens leave only with their journal event, and events are never lost.
LEMMA HandedNext == HandedWasJournalled /\ [Next]_vars => HandedWasJournalled'
<1> SUFFICES ASSUME HandedWasJournalled, [Next]_vars PROVE HandedWasJournalled'
  OBVIOUS
<1>1. ASSUME NEW r \in Requests, AuditIssued(r) \/ AuditRefreshed(r)
      PROVE HandedWasJournalled'
  <2>1. journal \subseteq journal'
    BY <1>1 DEF AuditIssued, AuditRefreshed, Recorded, Unrecorded
  <2>2. \A h \in handed' \ handed : h[1] = req[r].new
    BY <1>1 DEF AuditIssued, AuditRefreshed
  <2>3. handed' # handed => \/ <<"token.issued", req[r].new>> \in journal'
                            \/ <<"token.refreshed", req[r].new>> \in journal'
    BY <1>1 DEF AuditIssued, AuditRefreshed, Recorded
  <2> QED BY <2>1, <2>2, <2>3 DEF HandedWasJournalled
<1>2. ASSUME NEW r \in Requests, ReuseAudit(r) \/ RevokeAudit(r)
      PROVE HandedWasJournalled'
  BY <1>2 DEF ReuseAudit, RevokeAudit, Recorded, Unrecorded, HandedWasJournalled
<1>3. CASE UNCHANGED <<handed, journal>>
  BY <1>3 DEF HandedWasJournalled
<1>4. ASSUME NEW r \in Requests,
             \/ \E c \in Codes, cl \in Clients : ExchangeBegin(r, c, cl)
             \/ \E cl \in Clients : ClientCredentials(r, cl)
             \/ \E p \in Pairs, cl \in Clients : RefreshBegin(r, p, cl)
             \/ \E p \in Pairs : RevokeBegin(r, p)
             \/ ExchangeMark(r) \/ ExchangeMint(r) \/ RefreshRotate(r)
             \/ ReuseLookup(r) \/ ReuseRevoke(r) \/ RevokeDelete(r) \/ Abort(r)
      PROVE UNCHANGED <<handed, journal>>
  BY <1>4 DEF ExchangeBegin, ClientCredentials, RefreshBegin, RevokeBegin,
     ExchangeMark, ExchangeMint, RefreshRotate, ReuseLookup, ReuseRevoke,
     RevokeDelete, Abort
<1>5. ASSUME \/ \E c \in Codes, u \in Users, cl \in Clients : IssueCode(c, u, cl)
             \/ \E u \in Users : SignOut(u) \/ DeleteUser(u)
             \/ Tick \/ UNCHANGED vars
      PROVE UNCHANGED <<handed, journal>>
  BY <1>5 DEF IssueCode, SignOut, DeleteUser, Tick, vars
<1> QED BY <1>1, <1>2, <1>3, <1>4, <1>5 DEF Next, Run, Proceed

\* The inductive invariant holds in every reachable state.
LEMMA TokenInvariant == Spec => []TokenInv
<1>1. Init => TokenInv
  BY TypedInit, StoreInit, CodeInit
     DEF Init, TokenInv, StoreInv, CodeInv, HandedWasJournalled
<1>2. TokenInv /\ [Next]_vars => TokenInv'
  BY TypedNext, StoreNext, CodeNext, HandedNext DEF TokenInv, StoreInv, CodeInv
<1> QED BY <1>1, <1>2, PTL DEF Spec

-----------------------------------------------------------------------------
(* The theorems.                                                           *)

\* However many redemptions of an authorization code are in flight, the
\* conditional UPDATE in MarkGrantUsed lets at most one open a session.
THEOREM CodesAreSingleUse == Spec => []CodeSingleUse
<1>1. TokenInv => CodeSingleUse
  BY DEF TokenInv
<1> QED BY <1>1, TokenInvariant, PTL

\* However many requests present a refresh token, RotateRefreshToken gives it
\* at most one successor.
THEOREM RefreshTokensAreSingleUse == Spec => []RefreshSingleUse
<1>1. TokenInv => RefreshSingleUse
  BY DEF TokenInv
<1> QED BY <1>1, TokenInvariant, PTL

\* Every refresh token of a live session is its current one or recorded as
\* retired, never both, so revokeOnRefreshReuse recognises every replay and
\* nothing but replays.
THEOREM EveryReplayIsRecognised == Spec => []LineageComplete
<1>1. TokenInv => LineageComplete
  <2> SUFFICES ASSUME TokenInv, NEW p \in Pairs, family[p] # 0, sessions[family[p]].live
               PROVE  (sessions[family[p]].tok = p) # (retired[p] = family[p])
    BY DEF LineageComplete
  <2>1. sessions[family[p]].tok = p \/ retired[p] = family[p]
    BY DEF TokenInv, Lineage
  <2>2. ~(sessions[family[p]].tok = p /\ retired[p] = family[p])
    BY DEF TokenInv, Lineage
  <2> QED BY <2>1, <2>2
<1> QED BY <1>1, TokenInvariant, PTL

\* bearerAuth never again accepts an access token that a refresh replaced.
THEOREM ReplacedTokensAreRefused == Spec => []ReplacedPairRefused
<1>1. TokenInv => ReplacedPairRefused
  BY DEF TokenInv, PairsSpent, ReplacedPairRefused, Accepted, SessionOf
<1> QED BY <1>1, TokenInvariant, PTL

\* capByAbsolute keeps every deadline below the ceiling set at sign-in, for
\* any lifetimes with AccessTTL and RefreshTTL at most AbsoluteTTL.
THEOREM DeadlinesAreCapped == Spec => []ExpiryWithinCap
<1>1. TokenInv => ExpiryWithinCap
  BY DEF TokenInv
<1> QED BY <1>1, TokenInvariant, PTL

\* Token responses are written only after logAudit succeeded.
THEOREM TokensAreJournalled == Spec => []HandedWasJournalled
<1>1. TokenInv => HandedWasJournalled
  BY DEF TokenInv
<1> QED BY <1>1, TokenInvariant, PTL

\* No step revives a session row that was deleted: inserts take a fresh id
\* and RotateRefreshToken updates a row only while it exists.
THEOREM DeletedSessionsStayDeleted == Spec => DeadStaysDead
<1>1. TokenInv /\ [Next]_vars =>
        [\A s \in Pairs : s < next /\ ~sessions[s].live => ~sessions'[s].live]_vars
  <2> SUFFICES ASSUME TokenInv, [Next]_vars,
                      NEW s \in Pairs, s < next, ~sessions[s].live
               PROVE  ~sessions'[s].live
    OBVIOUS
  <2>0. Typed /\ sessions \in [Pairs -> Session]
    BY DEF TokenInv, Typed, TypeOK
  <2>1. CASE UNCHANGED <<sessions, retired, next, family, rotated>>
    BY <2>1
  <2>2. ASSUME NEW u, NEW cl, CreateSession(u, cl)
        PROVE ~sessions'[s].live
    BY <2>0, <2>2, Numbers DEF CreateSession
  <2>3. ASSUME NEW t \in Pairs, NEW old, NEW at, RotateRefreshToken(t, old, at)
        PROVE ~sessions'[s].live
    BY <2>0, <2>3 DEF RotateRefreshToken
  <2>4. ASSUME NEW S, DeleteSessions(S)
        PROVE ~sessions'[s].live
    BY <2>4 DEF DeleteSessions, NoSession
  <2> QED BY <2>0, <2>1, <2>2, <2>3, <2>4, StoreSteps
<1> QED BY <1>1, TokenInvariant, PTL DEF Spec, DeadStaysDead

-----------------------------------------------------------------------------
(* TokenService implements TokenContract: how the abstract variables       *)
(* follow the concrete ones.                                               *)

StoreBar == <<currentBar, pastBar, knownBar>>

\* Nothing changes in the abstract store when nothing does in the tables.
LEMMA StoreSame ==
  UNCHANGED <<sessions, retired, next>> => UNCHANGED StoreBar
BY DEF StoreBar, currentBar, pastBar, knownBar

\* The abstract codes only depend on the table grants.
LEMMA CodeSame == UNCHANGED grants => UNCHANGED codeBar
BY DEF codeBar

\* A step that lets nobody in or out of the point between MarkGrantUsed and
\* CreateSession leaves the set of owed codes alone.
LEMMA OwedSame ==
  ASSUME \A q \in Requests : /\ req'[q].pc = "mint" <=> req[q].pc = "mint"
                             /\ req[q].pc = "mint" => req'[q].code = req[q].code
  PROVE  UNCHANGED owedBar
BY DEF owedBar

\* One request moves, from and to a label other than mint.
LEMMA OwedMove ==
  ASSUME Typed, NEW r \in Requests, NEW v, req' = [req EXCEPT ![r] = v],
         req[r].pc # "mint", v.pc # "mint"
  PROVE  UNCHANGED owedBar
<1>1. \A q \in Requests : req'[q] = IF q = r THEN v ELSE req[q]
  BY DEF Typed, TypeOK
<1> QED BY <1>1, OwedSame

\* When a request leaves mint its code is no longer owed: no other request
\* was about to open a session for it.
LEMMA OwedLess ==
  ASSUME TokenInv, NEW r \in Requests, NEW v, req' = [req EXCEPT ![r] = v],
         req[r].pc = "mint", v.pc # "mint"
  PROVE  /\ req[r].code \in Codes
         /\ req[r].code \in owedBar
         /\ owedBar' = owedBar \ {req[r].code}
<1>1. \A q \in Requests : req'[q] = IF q = r THEN v ELSE req[q]
  BY DEF TokenInv, Typed, TypeOK
<1>2. req[r].code \in Codes
  BY DEF TokenInv, Typed, Locals, LocalsOf
<1>3. \A q \in Requests : req[q].pc = "mint" /\ req[q].code = req[r].code => q = r
  BY DEF TokenInv, CodesSpent
<1>4. \A c \in Codes : c \in owedBar' <=> c \in owedBar /\ c # req[r].code
  BY <1>1, <1>3 DEF owedBar
<1> QED BY <1>2, <1>4 DEF owedBar

\* Inserting a session opens an abstract one, on a pair never seen before.
LEMMA CreateOpens ==
  ASSUME TokenInv, next \in Pairs, NEW u, NEW cl, CreateSession(u, cl),
         UNCHANGED retired
  PROVE  Contract!OpenSession(next)
<1>0. next \in Nat /\ next # 0 /\ sessions \in [Pairs -> Session]
  BY Numbers DEF TokenInv, Typed, TypeOK
<1>1. next \notin knownBar /\ knownBar' = knownBar \cup {next}
  BY <1>0 DEF knownBar, CreateSession
<1>2. currentBar[next] = 0
  BY <1>0 DEF currentBar, TokenInv, FreshPairs
<1>3. \A s \in Pairs : currentBar'[s] = IF s = next THEN next ELSE currentBar[s]
  BY <1>0 DEF CreateSession, currentBar
<1>4. currentBar' = [currentBar EXCEPT ![next] = next]
  BY <1>3 DEF currentBar
<1>5. pastBar' = pastBar
  BY DEF pastBar
<1> QED BY <1>1, <1>2, <1>4, <1>5 DEF Contract!OpenSession

\* A rotation of the store is a rotation of the contract.
LEMMA RotateRotates ==
  ASSUME TokenInv, next \in Pairs, NEW s \in Pairs, NEW old \in Pairs,
         NEW at \in Times, RotateRefreshToken(s, old, at),
         rotated' = rotated \cup {<<old, next>>}, UNCHANGED <<codeBar, owedBar>>
  PROVE  Contract!Rotate(s, next)
<1>0. /\ next \in Nat /\ next # 0 /\ s # 0 /\ old # 0
      /\ sessions \in [Pairs -> Session]
      /\ retired \in [Pairs -> 0 .. MaxPairs]
  BY Numbers DEF TokenInv, Typed, TypeOK
<1>1. next \notin knownBar /\ knownBar' = knownBar \cup {next}
  BY <1>0 DEF knownBar, RotateRefreshToken
<1>2. currentBar[s] = old
  BY DEF RotateRefreshToken, currentBar
<1>3. Rotated(s, at).live /\ Rotated(s, at).tok = next
  BY RotatedRow DEF RotateRefreshToken, TokenInv
<1>4. \A t \in Pairs : currentBar'[t] = IF t = s THEN next ELSE currentBar[t]
  BY <1>0, <1>3 DEF RotateRefreshToken, currentBar
<1>5. currentBar' = [currentBar EXCEPT ![s] = next]
  BY <1>4 DEF currentBar
<1>6. retired[old] = 0
  BY RotateKeeps DEF TokenInv, StoreInv
<1>7. \A p \in Pairs : retired'[p] = IF p = old THEN s ELSE retired[p]
  BY <1>0, <1>6 DEF RotateRefreshToken
<1>8. \A t \in Pairs : pastBar'[t] = IF t = s THEN pastBar[t] \cup {old} ELSE pastBar[t]
  <2>1. \A t \in Pairs, p \in Pairs :
          retired'[p] = t <=> retired[p] = t \/ (t = s /\ p = old)
    BY <1>0, <1>6, <1>7, Numbers DEF TokenInv
  <2>2. \A t \in Pairs : /\ pastBar'[t] = {p \in Pairs : retired'[p] = t}
                         /\ pastBar[t] = {p \in Pairs : retired[p] = t}
    BY DEF pastBar
  <2>3. ASSUME NEW t \in Pairs, t # s
        PROVE  pastBar'[t] = pastBar[t]
    <3>1. \A p \in Pairs : retired'[p] = t <=> retired[p] = t
      BY <2>1, <2>3
    <3>2. {p \in Pairs : retired'[p] = t} = {p \in Pairs : retired[p] = t}
      BY <3>1
    <3> QED BY <2>2, <3>2
  <2>4. pastBar'[s] \subseteq pastBar[s] \cup {old}
    BY <2>1, <2>2
  <2>5. pastBar[s] \cup {old} \subseteq pastBar'[s]
    BY <2>1, <2>2
  <2> QED BY <2>3, <2>4, <2>5
<1>9. pastBar' = [pastBar EXCEPT ![s] = @ \cup {currentBar[s]}]
  BY <1>2, <1>8 DEF pastBar
<1> QED BY <1>0, <1>1, <1>2, <1>5, <1>9 DEF Contract!Rotate

\* A delete closes sessions, and forgets their past.
LEMMA DeleteCloses ==
  ASSUME TokenInv, NEW S \in SUBSET Pairs, DeleteSessions(S), UNCHANGED <<next, owedBar>>,
         NEW C \in SUBSET Codes,
         codeBar' = [c \in Codes |-> IF c \in C THEN "spent" ELSE codeBar[c]]
  PROVE  Contract!Close(S, C)
<1>0. \A p \in Pairs : p # 0
  BY Numbers DEF TokenInv
<1>1. /\ \A s \in Pairs : sessions'[s] = IF s \in S THEN NoSession ELSE sessions[s]
      /\ \A p \in Pairs : retired'[p] = IF retired[p] \in S THEN 0 ELSE retired[p]
  BY DEF DeleteSessions
<1>2. currentBar' = [s \in Pairs |-> IF s \in S THEN 0 ELSE currentBar[s]]
  BY <1>1 DEF currentBar, NoSession
<1>3. \A s \in Pairs : pastBar'[s] = IF s \in S THEN {} ELSE pastBar[s]
  BY <1>0, <1>1 DEF pastBar
<1>4. pastBar' = [s \in Pairs |-> IF s \in S THEN {} ELSE pastBar[s]]
  BY <1>3 DEF pastBar
<1>5. UNCHANGED knownBar
  BY DEF knownBar
<1> QED BY <1>2, <1>4, <1>5 DEF Contract!Close

\* Sessions alone are closed when no code is touched.
LEMMA DeleteClosesSessions ==
  ASSUME TokenInv, NEW S \in SUBSET Pairs, DeleteSessions(S),
         UNCHANGED <<next, owedBar, codeBar>>
  PROVE  Contract!Close(S, {})
<1>1. codeBar' = [c \in Codes |-> IF c \in {} THEN "spent" ELSE codeBar[c]]
  BY DEF codeBar
<1> QED BY <1>1, DeleteCloses

-----------------------------------------------------------------------------

\* The initial states map to initial states of the contract.
LEMMA ContractInit == Init => Contract!Init
BY DEF Init, Contract!Init, codeBar, owedBar, currentBar, pastBar, knownBar,
   NoGrant, NoSession, Idle, Pairs

\* Every step maps to a step of the contract or to a stutter.
LEMMA ContractNext == TokenInv /\ [Next]_vars => [Contract!Next]_(Contract!vars)
<1> SUFFICES ASSUME TokenInv, [Next]_vars PROVE Contract!Next \/ UNCHANGED Contract!vars
  OBVIOUS
<1> DEFINE Stutter == UNCHANGED <<codeBar, owedBar, currentBar, pastBar, knownBar>>
<1>0. /\ Typed /\ Idle \in Request /\ Idle.pc = "idle"
      /\ \A r \in Requests : req[r] \in Request /\ LocalsOf(req[r])
      /\ next <= MaxPairs => next \in Pairs
  <2>1. Typed /\ Idle \in Request /\ Idle.pc = "idle"
    BY Empties DEF TokenInv, Idle
  <2>2. \A r \in Requests : req[r] \in Request /\ LocalsOf(req[r])
    BY <2>1 DEF Typed, TypeOK, Locals
  <2>3. next <= MaxPairs => next \in Pairs
    BY <2>1, BoundAssumption DEF Typed, TypeOK, Pairs
  <2> QED BY <2>1, <2>2, <2>3
<1>s. Stutter => UNCHANGED Contract!vars
  BY DEF Contract!vars
<1>q. UNCHANGED <<grants, sessions, retired, next, owedBar>> => Stutter
  BY StoreSame, CodeSame DEF StoreBar
<1>f. ASSUME NEW r \in Requests, Finish(r), req[r].pc # "mint"
      PROVE  UNCHANGED owedBar
  BY <1>0, <1>f, OwedMove DEF Finish
<1>1. ASSUME NEW c \in Codes, NEW u \in Users, NEW cl \in Clients, IssueCode(c, u, cl)
      PROVE Contract!Issue(c)
  <2>1. \A d \in Codes : codeBar'[d] = IF d = c THEN "redeemable" ELSE codeBar[d]
    BY <1>0, <1>1 DEF IssueCode, codeBar, Typed, TypeOK
  <2>2. codeBar[c] = "unissued" /\ codeBar' = [codeBar EXCEPT ![c] = "redeemable"]
    BY <1>1, <2>1 DEF IssueCode, codeBar
  <2>3. UNCHANGED <<owedBar, currentBar, pastBar, knownBar>>
    BY <1>1, OwedSame, StoreSame DEF IssueCode, StoreBar
  <2> QED BY <2>2, <2>3 DEF Contract!Issue
<1>2. ASSUME NEW r \in Requests, NEW c \in Codes, NEW cl \in Clients, ExchangeBegin(r, c, cl)
      PROVE Stutter
  <2>1. [Idle EXCEPT !.pc = "markUsed", !.code = c, !.user = grants[c].user, !.client = cl].pc # "mint"
    BY <1>0 DEF Request
  <2> QED BY <1>0, <1>2, <1>q, <2>1, OwedMove DEF ExchangeBegin
<1>3. ASSUME NEW r \in Requests, ExchangeMark(r)
      PROVE Contract!Redeem(req[r].code) \/ Stutter
  <2>1. CASE MarkGrantUsed(req[r].code) /\ Goto(r, "mint")
    <3>1. req[r].code \in Codes /\ req[r].pc = "markUsed"
      BY <1>0, <1>3 DEF ExchangeMark, LocalsOf
    <3>2. codeBar[req[r].code] = "redeemable"
      BY <2>1, <3>1 DEF MarkGrantUsed, codeBar
    <3>3. \A d \in Codes : codeBar'[d] = IF d = req[r].code THEN "spent" ELSE codeBar[d]
      BY <1>0, <2>1, <3>1 DEF MarkGrantUsed, codeBar, Typed, TypeOK, Grant
    <3>4. codeBar' = [codeBar EXCEPT ![req[r].code] = "spent"]
      BY <3>3 DEF codeBar
    <3>5. \A q \in Requests : /\ req'[q].code = req[q].code
                              /\ req'[q].pc = IF q = r THEN "mint" ELSE req[q].pc
      BY <1>0, <2>1 DEF Goto, Typed, TypeOK, Request
    <3>6. owedBar' = owedBar \cup {req[r].code}
      BY <3>1, <3>5 DEF owedBar
    <3>7. UNCHANGED <<currentBar, pastBar, knownBar>>
      BY <1>3, StoreSame DEF ExchangeMark, StoreBar
    <3> QED BY <3>2, <3>4, <3>6, <3>7 DEF Contract!Redeem
  <2>2. CASE Finish(r) /\ UNCHANGED grants
    BY <1>3, <2>2, <1>q, <1>f DEF ExchangeMark
  <2> QED BY <1>3, <2>1, <2>2 DEF ExchangeMark
<1>4. ASSUME NEW r \in Requests, ExchangeMint(r)
      PROVE \/ req[r].code \in Codes /\ Contract!Forfeit(req[r].code)
            \/ req[r].code \in Codes /\ next \in Pairs /\ Contract!Open(req[r].code, next)
  <2>1. CASE Finish(r) /\ UNCHANGED <<sessions, next, family, minted>>
    <3>1. /\ req[r].code \in Codes /\ req[r].code \in owedBar
          /\ owedBar' = owedBar \ {req[r].code}
      BY <1>0, <1>4, <2>1, OwedLess DEF ExchangeMint, Finish
    <3>2. UNCHANGED <<codeBar, currentBar, pastBar, knownBar>>
      BY <1>4, <2>1, CodeSame, StoreSame DEF ExchangeMint, StoreBar
    <3> QED BY <3>1, <3>2 DEF Contract!Forfeit
  <2>2. CASE /\ next <= MaxPairs
             /\ CreateSession(req[r].user, req[r].client)
             /\ req' = [req EXCEPT ![r] = [Idle EXCEPT !.pc = "auditIssued",
                                             !.user = req[r].user, !.new = next]]
    <3>1. [Idle EXCEPT !.pc = "auditIssued", !.user = req[r].user, !.new = next].pc # "mint"
      BY <1>0 DEF Request
    <3>2. /\ req[r].code \in Codes /\ req[r].code \in owedBar
          /\ owedBar' = owedBar \ {req[r].code}
      BY <1>4, <2>2, <3>1, OwedLess DEF ExchangeMint
    <3>3. next \in Pairs /\ Contract!OpenSession(next)
      BY <1>0, <1>4, <2>2, CreateOpens DEF ExchangeMint
    <3>4. UNCHANGED codeBar
      BY <1>4, CodeSame DEF ExchangeMint
    <3> QED BY <3>2, <3>3, <3>4 DEF Contract!Open
  <2> QED BY <1>4, <2>1, <2>2 DEF ExchangeMint
<1>5. ASSUME NEW r \in Requests, NEW cl \in Clients, ClientCredentials(r, cl)
      PROVE next \in Pairs /\ Contract!OpenMachine(next)
  <2>1. [Idle EXCEPT !.pc = "auditIssued", !.new = next].pc # "mint"
    BY <1>0 DEF Request
  <2>2. UNCHANGED <<codeBar, owedBar>>
    BY <1>0, <1>5, <2>1, OwedMove, CodeSame DEF ClientCredentials
  <2>3. next \in Pairs /\ Contract!OpenSession(next)
    BY <1>0, <1>5, CreateOpens DEF ClientCredentials
  <2> QED BY <2>2, <2>3 DEF Contract!OpenMachine
<1>6. ASSUME NEW r \in Requests, AuditIssued(r) \/ AuditRefreshed(r) \/ ReuseAudit(r)
      PROVE Stutter
  BY <1>6, <1>f, <1>q DEF AuditIssued, AuditRefreshed, ReuseAudit
<1>7. ASSUME NEW r \in Requests, NEW p \in Pairs, NEW cl \in Clients, RefreshBegin(r, p, cl)
      PROVE Stutter
  <2>1. \A s \in Pairs : [Idle EXCEPT !.pc = "rotate", !.client = cl, !.tok = p, !.sid = s, !.at = now].pc # "mint"
    BY <1>0 DEF Request
  <2>2. [Idle EXCEPT !.pc = "reuse", !.client = cl, !.tok = p].pc # "mint"
    BY <1>0 DEF Request
  <2>3. UNCHANGED owedBar
    BY <1>0, <1>7, <2>1, <2>2, OwedMove DEF RefreshBegin, SessionOf
  <2> QED BY <1>7, <1>q, <2>3 DEF RefreshBegin
<1>8. ASSUME NEW r \in Requests, RefreshRotate(r)
      PROVE \/ Stutter
            \/ req[r].sid \in Pairs /\ next \in Pairs /\ Contract!Rotate(req[r].sid, next)
  <2>1. UNCHANGED owedBar
    <3>1. \A q \in Requests : /\ req'[q].pc = "mint" <=> req[q].pc = "mint"
                              /\ req[q].pc = "mint" => req'[q].code = req[q].code
      BY <1>0, <1>8 DEF RefreshRotate, Goto, Typed, TypeOK, Request
    <3> QED BY <3>1, OwedSame
  <2>2. UNCHANGED codeBar
    BY <1>8, CodeSame DEF RefreshRotate
  <2>3. CASE UNCHANGED <<sessions, retired, next, rotated, family>>
    BY <1>8, <2>1, <2>3, <1>q DEF RefreshRotate
  <2>4. CASE /\ next <= MaxPairs
             /\ RotateRefreshToken(req[r].sid, req[r].tok, req[r].at)
             /\ rotated' = rotated \cup {<<req[r].tok, next>>}
    <3>1. req[r].sid \in Pairs /\ req[r].tok \in Pairs /\ req[r].at \in Times /\ next \in Pairs
      BY <1>0, <1>8, <2>4 DEF RefreshRotate, LocalsOf, Request
    <3> QED BY <2>1, <2>2, <2>4, <3>1, RotateRotates
  <2> QED BY <1>8, <2>3, <2>4 DEF RefreshRotate
<1>9. ASSUME NEW r \in Requests, ReuseLookup(r)
      PROVE Stutter
  <2>1. \A q \in Requests : /\ req'[q].pc = "mint" <=> req[q].pc = "mint"
                            /\ req[q].pc = "mint" => req'[q].code = req[q].code
    BY <1>0, <1>9, SMTT(40) DEF ReuseLookup, Finish, Typed, TypeOK, Request
  <2> QED BY <1>9, <1>q, <2>1, OwedSame DEF ReuseLookup
<1>10. ASSUME NEW r \in Requests, ReuseRevoke(r) \/ RevokeDelete(r)
      PROVE \E S \in SUBSET Pairs : Contract!Close(S, {})
  <2>1. req[r].sid \in Pairs
    BY <1>0, <1>10 DEF ReuseRevoke, RevokeDelete, LocalsOf
  <2>2. \A q \in Requests : /\ req'[q].pc = "mint" <=> req[q].pc = "mint"
                            /\ req[q].pc = "mint" => req'[q].code = req[q].code
    BY <1>0, <1>10 DEF ReuseRevoke, RevokeDelete, Goto, Finish, Typed, TypeOK, Request
  <2>3. UNCHANGED <<next, owedBar, codeBar>> /\ DeleteSessions({req[r].sid})
    BY <1>10, <2>2, OwedSame, CodeSame DEF ReuseRevoke, RevokeDelete
  <2>4. Contract!Close({req[r].sid}, {})
    BY <2>1, <2>3, DeleteClosesSessions
  <2> QED BY <2>1, <2>4
<1>11. ASSUME NEW r \in Requests, NEW p \in Pairs, RevokeBegin(r, p)
      PROVE Stutter
  <2>1. \A s \in Pairs : [Idle EXCEPT !.pc = "auditRevoke", !.tok = p, !.sid = s].pc # "mint"
    BY <1>0 DEF Request
  <2>2. UNCHANGED owedBar
    BY <1>0, <1>11, <2>1, OwedMove DEF RevokeBegin, SessionOf
  <2> QED BY <1>11, <1>q, <2>2 DEF RevokeBegin
<1>12. ASSUME NEW r \in Requests, RevokeAudit(r)
      PROVE Stutter
  <2>1. \A q \in Requests : /\ req'[q].pc = "mint" <=> req[q].pc = "mint"
                            /\ req[q].pc = "mint" => req'[q].code = req[q].code
    BY <1>0, <1>12 DEF RevokeAudit, Goto, Finish, Typed, TypeOK, Request
  <2> QED BY <1>12, <1>q, <2>1, OwedSame DEF RevokeAudit
<1>13. ASSUME NEW r \in Requests, Abort(r)
      PROVE Stutter \/ (req[r].code \in Codes /\ Contract!Forfeit(req[r].code))
  <2>1. CASE req[r].pc # "mint"
    BY <1>13, <2>1, <1>f, <1>q DEF Abort
  <2>2. CASE req[r].pc = "mint"
    <3>1. /\ req[r].code \in Codes /\ req[r].code \in owedBar
          /\ owedBar' = owedBar \ {req[r].code}
      BY <1>0, <1>13, <2>2, OwedLess DEF Abort, Finish
    <3>2. UNCHANGED <<codeBar, currentBar, pastBar, knownBar>>
      BY <1>13, CodeSame, StoreSame DEF Abort, StoreBar
    <3> QED BY <3>1, <3>2 DEF Contract!Forfeit
  <2> QED BY <2>1, <2>2
<1>14. ASSUME NEW u \in Users, SignOut(u)
      PROVE \E S \in SUBSET Pairs : Contract!Close(S, {})
  <2>1. UNCHANGED <<next, owedBar, codeBar>> /\ DeleteSessions(SessionsOfUser(u))
    BY <1>14, OwedSame, CodeSame DEF SignOut
  <2>2. SessionsOfUser(u) \in SUBSET Pairs
    BY DEF SessionsOfUser
  <2> QED BY <2>1, <2>2, DeleteClosesSessions
<1>15. ASSUME NEW u \in Users, DeleteUser(u)
      PROVE \E S \in SUBSET Pairs, C \in SUBSET Codes : Contract!Close(S, C)
  <2> DEFINE C == {c \in Codes : grants[c].state # "none" /\ grants[c].user = u}
  <2>1. codeBar' = [c \in Codes |-> IF c \in C THEN "spent" ELSE codeBar[c]]
    BY <1>15 DEF DeleteUser, codeBar, GoneGrant, NoGrant
  <2>2. UNCHANGED <<next, owedBar>> /\ DeleteSessions(SessionsOfUser(u))
    BY <1>15, OwedSame DEF DeleteUser
  <2>3. SessionsOfUser(u) \in SUBSET Pairs /\ C \in SUBSET Codes
    BY DEF SessionsOfUser
  <2> HIDE DEF C
  <2>4. Contract!Close(SessionsOfUser(u), C)
    BY <2>1, <2>2, <2>3, DeleteCloses
  <2> QED BY <2>3, <2>4
<1>16. ASSUME Tick \/ UNCHANGED vars
       PROVE  Stutter
  BY <1>16, <1>q, OwedSame DEF Tick, vars
<1>17. ASSUME NEW r \in Requests, ExchangeMark(r)
       PROVE  Stutter \/ (req[r].code \in Codes /\ Contract!Redeem(req[r].code))
  BY <1>0, <1>3, <1>17 DEF ExchangeMark, LocalsOf
<1> HIDE DEF Stutter
<1>18. {} \in SUBSET Codes
  OBVIOUS
<1>19. ASSUME NEW r \in Requests, Proceed(r)
       PROVE  Stutter \/ Contract!Next
  BY <1>4, <1>6, <1>8, <1>9, <1>10, <1>12, <1>17, <1>18, <1>19
     DEF Proceed, Contract!Next
<1>20. Stutter \/ Contract!Next
  <2>1. ASSUME NEW c \in Codes, NEW u \in Users, NEW cl \in Clients, IssueCode(c, u, cl)
        PROVE Contract!Next
    BY <1>1, <2>1 DEF Contract!Next
  <2>2. ASSUME NEW r \in Requests, NEW cl \in Clients, ClientCredentials(r, cl)
        PROVE Contract!Next
    BY <1>5, <2>2 DEF Contract!Next
  <2>3. ASSUME NEW r \in Requests, Abort(r)
        PROVE Stutter \/ Contract!Next
    BY <1>13, <2>3 DEF Contract!Next
  <2>4. ASSUME NEW u \in Users, SignOut(u) \/ DeleteUser(u)
        PROVE Contract!Next
    BY <1>14, <1>15, <1>18, <2>4 DEF Contract!Next
  <2> QED BY <1>2, <1>7, <1>11, <1>16, <1>19, <2>1, <2>2, <2>3, <2>4 DEF Next, Run
<1> QED BY <1>20, <1>s

\* Every behaviour of the token endpoint, with any number of requests in
\* flight and dying anywhere, is one of the contract's.
THEOREM EndpointImplementsContract == Spec => ImplementsContract
<1> QED BY TokenInvariant, ContractInit, ContractNext, PTL
     DEF Spec, ImplementsContract, Contract!Spec

=============================================================================
