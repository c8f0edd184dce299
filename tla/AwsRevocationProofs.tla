------------------------- MODULE AwsRevocationProofs -------------------------
(***************************************************************************)
(* The properties of AwsRevocation, for any number of users, roles and     *)
(* revocations, every session duration, every overlap and every pattern of *)
(* failures.  What a worker has read may be out of date; the argument is   *)
(* that it is out of date at most by the users it remembers as revoked     *)
(* behind its back, so that what it undoes is known to the history.        *)
(***************************************************************************)
EXTENDS AwsRevocation, TLAPS

-----------------------------------------------------------------------------
(* The inductive invariant.                                                *)

\* What the loops' local variables hold at each label.
RevocationTyped(v) ==
  /\ v.pc = "idle" <=> v.left = {}
  /\ v.role = NoOne \/ v.role \in v.left
  /\ v.pc # "idle" => v.user \in People
  /\ v.pc \in {"collect", "put"} => v.role \in Roles
ReaperTyped(v) ==
  /\ v.pc = "idle" <=> v.left = {}
  /\ v.role = NoOne \/ v.role \in v.left
  /\ v.pc \in {"delete", "push"} => v.role \in Roles

AwsTyped ==
  /\ clock \in Nat
  /\ table \in [Roles -> [People -> Nat \cup {-1}]]
  /\ policy \in [Roles -> SUBSET People]
  /\ sts \subseteq STS
  /\ revocation \in [Revocations -> Revocation]
  /\ \A j \in Revocations : RevocationTyped(revocation[j])
  /\ reaper \in Reaper /\ ReaperTyped(reaper)
  /\ promised \in [Roles -> [People -> Nat \cup {-1}]]
  /\ overtaken \subseteq Roles \X People

\* Nothing is dated later than now, and no session outlives its duration.
Clocked ==
  /\ reaper.at <= clock
  /\ \A j \in Revocations : revocation[j].at <= clock
  /\ \A ro \in Roles, u \in People : table[ro][u] <= clock /\ promised[ro][u] <= clock
  /\ \A s \in sts : Lasts(s, clock)

\* A session that was running at time t may still be.
Live(ro, t) == clock <= t + MaxSession[ro]

\* The row of u is gone, or it is as young as t.
Gone(ro, u) == table[ro][u] = -1
Young(ro, u, t) == Gone(ro, u) \/ t <= table[ro][u]

\* A promise is kept: a row that is there is as young as it, and as long as a
\* session may be running, the row is there and AWS denies the user, unless the
\* user was overtaken.
KeptAt(ro, u) ==
  /\ Young(ro, u, promised[ro][u])
  /\ promised[ro][u] # -1 /\ Live(ro, promised[ro][u]) /\ <<ro, u>> \notin overtaken =>
       ~Gone(ro, u) /\ u \in policy[ro]
Kept == \A ro \in Roles, u \in People : KeptAt(ro, u)

\* A list lacks only users revoked since it was read.
Listed(w) == RevokedSubs(w.role) \subseteq w.subs \cup w.behind

\* So it is with the row of a revocation that has not pushed yet.
RevocationOK(w) ==
  /\ w.pc \in {"collect", "put"} =>
       /\ Young(w.role, w.user, w.at)
       /\ Live(w.role, w.at) /\ <<w.role, w.user>> \notin overtaken => ~Gone(w.role, w.user)
  /\ w.pc = "put" => Listed(w)

\* The row of u, in a role the reaper sweeps, was past the cutoff and still is.
Old(ro, u, at) == Gone(ro, u) \/ table[ro][u] + MaxSession[ro] < at

\* The reaper deletes rows past the cutoff and rows renewed behind its back.
ReaperOK(w) ==
  /\ w.pc = "delete" => \A u \in w.todo \ w.behind : Old(w.role, u, w.at)
  /\ w.pc = "push" => Listed(w)

AwsInv == /\ AwsTyped /\ Clocked /\ Kept /\ ReaperOK(reaper)
          /\ \A j \in Revocations : RevocationOK(revocation[j])

-----------------------------------------------------------------------------
(* Types.                                                                  *)

\* The empty values are well typed.
LEMMA Empties ==
  /\ NoRevocation \in Revocation /\ RevocationTyped(NoRevocation)
  /\ NoReaper \in Reaper /\ ReaperTyped(NoReaper)
BY DEF NoRevocation, Revocation, RevocationTyped, NoReaper, Reaper, ReaperTyped

\* The history of what a worker has missed keeps the types, and touches nothing
\* but itself.
LEMMA OutdatedRevocation ==
  ASSUME NEW w \in Revocation, NEW ro, NEW u \in People
  PROVE  /\ Outdated(w, ro, u) \in Revocation
         /\ RevocationTyped(w) => RevocationTyped(Outdated(w, ro, u))
         /\ \A v : v = Outdated(w, ro, u) =>
              /\ v.pc = w.pc /\ v.role = w.role /\ v.user = w.user /\ v.at = w.at
              /\ v.subs = w.subs /\ w.behind \subseteq v.behind
              /\ w.role = ro => u \in v.behind
BY DEF Outdated, Revocation, RevocationTyped

\* The same of the reaper.
LEMMA OutdatedReaper ==
  ASSUME NEW w \in Reaper, NEW ro, NEW u \in People
  PROVE  /\ Outdated(w, ro, u) \in Reaper
         /\ ReaperTyped(w) => ReaperTyped(Outdated(w, ro, u))
         /\ \A v : v = Outdated(w, ro, u) =>
              /\ v.pc = w.pc /\ v.role = w.role /\ v.todo = w.todo /\ v.at = w.at
              /\ v.subs = w.subs /\ w.behind \subseteq v.behind
              /\ w.role = ro => u \in v.behind
BY DEF Outdated, Reaper, ReaperTyped

\* A revocation starts its next round, with the roles that are left.
LEMMA RoundTyped ==
  ASSUME NEW u \in People, NEW left \in SUBSET Roles, left # {}
  PROVE  Round(u, left) \in Revocation /\ RevocationTyped(Round(u, left))
         /\ Round(u, left).pc = "add" /\ Round(u, left).at = 0
BY DEF Round, NoRevocation, Revocation, RevocationTyped

\* A revocation is done with a role.
LEMMA NextRoleTyped ==
  ASSUME AwsTyped, NEW j \in Revocations, NEW ro \in Roles, revocation[j].pc # "idle",
         NextRole(j, ro)
  PROVE  \E v \in Revocation : /\ RevocationTyped(v) /\ v.pc \in {"idle", "add"} /\ v.at = 0
                               /\ revocation' = [revocation EXCEPT ![j] = v]
<1>1. revocation[j] \in Revocation /\ RevocationTyped(revocation[j])
  BY DEF AwsTyped
<1>2. PICK left : left = revocation[j].left \ {ro}
  OBVIOUS
<1>3. left \in SUBSET Roles /\ revocation[j].user \in People
  BY <1>1, <1>2 DEF Revocation, RevocationTyped
<1>4. CASE left = {}
  BY <1>2, <1>4, Empties DEF NextRole, NoRevocation
<1>5. CASE left # {}
  BY <1>2, <1>3, <1>5, RoundTyped DEF NextRole
<1> QED BY <1>4, <1>5

\* The reaper is done with a role.
LEMMA ReapNextTyped ==
  ASSUME AwsTyped, NEW ro \in Roles, ReapNext(ro)
  PROVE  reaper' \in Reaper /\ ReaperTyped(reaper') /\ reaper'.pc \in {"idle", "list"}
         /\ reaper'.at \in {0, reaper.at}
<1>1. PICK left : left = reaper.left \ {ro}
  OBVIOUS
<1>2. left \subseteq Roles /\ reaper.at \in Nat /\ reaper.quiet \in BOOLEAN
  BY <1>1 DEF AwsTyped, Reaper
<1>3. CASE left = {}
  BY <1>1, <1>3, Empties DEF ReapNext, NoReaper
<1>4. CASE left # {}
  <2>1. PICK v : v = [NoReaper EXCEPT !.pc = "list", !.left = left, !.at = reaper.at,
                                      !.quiet = reaper.quiet]
    OBVIOUS
  <2>2. v \in Reaper /\ ReaperTyped(v) /\ v.pc = "list" /\ v.at = reaper.at
    BY <1>2, <1>4, <2>1 DEF NoReaper, Reaper, ReaperTyped
  <2>3. reaper' = v
    BY <1>1, <1>4, <2>1 DEF ReapNext
  <2> QED BY <2>2, <2>3
<1> QED BY <1>3, <1>4

\* A row of the table, or of the promises, gets another date.
LEMMA CellTyped ==
  ASSUME NEW f \in [Roles -> [People -> Nat \cup {-1}]], NEW ro \in Roles, NEW u \in People,
         NEW t \in Nat \cup {-1}
  PROVE  /\ [f EXCEPT ![ro][u] = t] \in [Roles -> [People -> Nat \cup {-1}]]
         /\ [f EXCEPT ![ro][u] = t][ro][u] = t
         /\ \A p \in Roles, w \in People :
              p # ro \/ w # u => [f EXCEPT ![ro][u] = t][p][w] = f[p][w]
OBVIOUS

\* What AWS takes is a list of users for a role.
LEMMA PushTyped ==
  ASSUME AwsTyped, NEW w, w.role \in Roles, w.subs \in SUBSET People, w.behind \in SUBSET People,
         Pushes(w)
  PROVE  policy' \in [Roles -> SUBSET People] /\ overtaken' \subseteq Roles \X People
BY DEF AwsTyped, Pushes

\* The upsert goes on to read the list, or fails and goes on with the next role.
LEMMA AddTyped ==
  ASSUME AwsTyped, NEW j \in Revocations, NEW ro \in Roles, RevokeAdd(j, ro)
  PROVE  AwsTyped'
<1>1. /\ revocation[j] \in Revocation /\ RevocationTyped(revocation[j])
      /\ revocation[j].pc = "add" /\ ro \in revocation[j].left
      /\ clock \in Nat /\ UNCHANGED <<clock, policy, sts, promised, overtaken>>
  BY DEF AwsTyped, RevokeAdd
<1>2. PICK u \in People : u = revocation[j].user
  BY <1>1 DEF RevocationTyped
<1>3. CASE NextRole(j, ro) /\ UNCHANGED <<table, reaper>>
  <2>1. PICK v \in Revocation : RevocationTyped(v) /\ revocation' = [revocation EXCEPT ![j] = v]
    BY <1>1, <1>3, NextRoleTyped
  <2> QED BY <1>1, <1>3, <2>1 DEF AwsTyped
<1>4. CASE /\ table' = [table EXCEPT ![ro][u] = clock]
           /\ revocation' = [i \in Revocations |->
                IF i = j THEN [revocation[j] EXCEPT !.pc = "collect", !.role = ro, !.at = clock]
                ELSE Outdated(revocation[i], ro, u)]
           /\ reaper' = Outdated(reaper, ro, u)
  <2>1. PICK v : v = [revocation[j] EXCEPT !.pc = "collect", !.role = ro, !.at = clock]
    OBVIOUS
  <2>2. v \in Revocation /\ RevocationTyped(v)
    BY <1>1, <2>1 DEF Revocation, RevocationTyped
  <2>3. \A i \in Revocations : revocation'[i] = IF i = j THEN v ELSE Outdated(revocation[i], ro, u)
    BY <1>4, <2>1
  <2>4. \A i \in Revocations : revocation'[i] \in Revocation /\ RevocationTyped(revocation'[i])
    BY <2>2, <2>3, OutdatedRevocation DEF AwsTyped
  <2>5. revocation' \in [Revocations -> Revocation]
    BY <1>4, <2>4
  <2>6. reaper' \in Reaper /\ ReaperTyped(reaper')
    BY <1>4, OutdatedReaper DEF AwsTyped
  <2>7. table' \in [Roles -> [People -> Nat \cup {-1}]]
    BY <1>1, <1>4, CellTyped DEF AwsTyped
  <2> QED BY <1>1, <2>4, <2>5, <2>6, <2>7 DEF AwsTyped
<1> QED BY <1>2, <1>3, <1>4 DEF RevokeAdd

\* The list of a role, or the end of the round.
LEMMA CollectTyped ==
  ASSUME AwsTyped, NEW j \in Revocations, RevokeCollect(j)
  PROVE  \E v \in Revocation :
           /\ RevocationTyped(v) /\ revocation' = [revocation EXCEPT ![j] = v]
           /\ \/ v.pc \in {"idle", "add"} /\ v.at = 0
              \/ /\ v.pc = "put" /\ v.role = revocation[j].role /\ v.user = revocation[j].user
                 /\ v.at = revocation[j].at /\ v.subs = RevokedSubs(v.role) /\ v.behind = {}
<1>1. /\ revocation \in [Revocations -> Revocation] /\ revocation[j] \in Revocation
      /\ RevocationTyped(revocation[j]) /\ revocation[j].pc = "collect"
      /\ revocation[j].role \in Roles
  BY DEF AwsTyped, RevokeCollect, RevocationTyped
<1>2. CASE NextRole(j, revocation[j].role)
  BY <1>1, <1>2, NextRoleTyped
<1>3. CASE revocation' = [revocation EXCEPT ![j].pc = "put",
                            ![j].subs = RevokedSubs(revocation[j].role), ![j].behind = {}]
  <2>1. PICK subs \in SUBSET People : subs = RevokedSubs(revocation[j].role)
    BY DEF RevokedSubs
  <2>2. PICK v : v = [revocation[j] EXCEPT !.pc = "put", !.subs = subs, !.behind = {}]
    OBVIOUS
  <2>3. v \in Revocation /\ RevocationTyped(v)
    BY <1>1, <2>2 DEF Revocation, RevocationTyped
  <2>4. /\ v.pc = "put" /\ v.role = revocation[j].role /\ v.user = revocation[j].user
        /\ v.at = revocation[j].at /\ v.subs = subs /\ v.behind = {}
    BY <1>1, <2>2 DEF Revocation
  <2>5. revocation' = [revocation EXCEPT ![j] = v]
    BY <1>1, <1>3, <2>1, <2>2
  <2> QED BY <2>1, <2>3, <2>4, <2>5
<1> QED BY <1>2, <1>3 DEF RevokeCollect

\* A revocation keeps the types.
LEMMA RevokeTyped ==
  ASSUME AwsTyped, NEW j \in Revocations,
         \/ \E u \in People : RevokeBegin(j, u)
         \/ \E ro \in Roles : RevokeAdd(j, ro)
         \/ RevokeCollect(j) \/ RevokePut(j)
  PROVE  AwsTyped'
<1>1. revocation[j] \in Revocation /\ RevocationTyped(revocation[j])
  BY DEF AwsTyped
<1>2. ASSUME NEW u \in People, RevokeBegin(j, u) PROVE AwsTyped'
  <2>1. Round(u, Roles) \in Revocation /\ RevocationTyped(Round(u, Roles))
    BY <1>2, RoundTyped DEF RevokeBegin
  <2>2. revocation' \in [Revocations -> Revocation] /\ \A i \in Revocations : RevocationTyped(revocation'[i])
    BY <1>2, <2>1 DEF AwsTyped, RevokeBegin
  <2>3. reaper' \in Reaper /\ ReaperTyped(reaper')
    BY <1>2 DEF AwsTyped, RevokeBegin, Reaper, ReaperTyped
  <2> QED BY <1>2, <2>2, <2>3 DEF AwsTyped, RevokeBegin
<1>3. ASSUME RevokeCollect(j) PROVE AwsTyped'
  <2>1. PICK v \in Revocation : RevocationTyped(v) /\ revocation' = [revocation EXCEPT ![j] = v]
    BY <1>3, CollectTyped
  <2> QED BY <1>3, <2>1 DEF AwsTyped, RevokeCollect
<1>4. ASSUME RevokePut(j) PROVE AwsTyped'
  <2>1. /\ revocation[j].role \in Roles /\ revocation[j].user \in People /\ revocation[j].at \in Nat
        /\ revocation[j].subs \in SUBSET People /\ revocation[j].behind \in SUBSET People
    BY <1>1, <1>4 DEF RevokePut, Revocation, RevocationTyped
  <2>2. NextRole(j, revocation[j].role) /\ revocation[j].pc # "idle"
    BY <1>4 DEF RevokePut
  <2>3. PICK v \in Revocation : RevocationTyped(v) /\ revocation' = [revocation EXCEPT ![j] = v]
    BY <2>1, <2>2, NextRoleTyped
  <2>4. policy' \in [Roles -> SUBSET People] /\ overtaken' \subseteq Roles \X People
    BY <1>4, <2>1, PushTyped DEF RevokePut, AwsTyped
  <2>5. promised' \in [Roles -> [People -> Nat \cup {-1}]]
    <3>1. CASE promised' = [promised EXCEPT ![revocation[j].role][revocation[j].user] = revocation[j].at]
      BY <2>1, <3>1, CellTyped DEF AwsTyped
    <3> QED BY <1>4, <3>1 DEF RevokePut, AwsTyped
  <2> QED BY <1>4, <2>3, <2>4, <2>5 DEF AwsTyped, RevokePut
<1> QED BY <1>2, <1>3, <1>4, AddTyped

\* So does a sweep.
LEMMA ReapTyped ==
  ASSUME AwsTyped,
         \/ ReapBegin \/ (\E ro \in Roles : ReapList(ro)) \/ (\E u \in People : ReapDelete(u))
         \/ ReapCollect \/ ReapPush
  PROVE  AwsTyped'
<1>1. reaper \in Reaper /\ ReaperTyped(reaper) /\ clock \in Nat
  BY DEF AwsTyped
<1>2. UNCHANGED <<clock, sts, revocation, promised>>
  BY DEF ReapBegin, ReapList, ReapDelete, ReapCollect, ReapPush
<1>3. table' \in [Roles -> [People -> Nat \cup {-1}]]
  <2>1. table' = table \/ \E ro \in Roles, u \in People : table' = [table EXCEPT ![ro][u] = -1]
    BY <1>1 DEF ReapBegin, ReapList, ReapDelete, ReapCollect, ReapPush, ReaperTyped
  <2>2. ASSUME NEW ro \in Roles, NEW u \in People, table' = [table EXCEPT ![ro][u] = -1]
        PROVE  table' \in [Roles -> [People -> Nat \cup {-1}]]
    BY <2>2, CellTyped DEF AwsTyped
  <2> QED BY <2>1, <2>2 DEF AwsTyped
<1>4. policy' \in [Roles -> SUBSET People] /\ overtaken' \subseteq Roles \X People
  <2>1. CASE ReapPush
    BY <1>1, <2>1, PushTyped DEF ReapPush, AwsTyped, ReaperTyped, Reaper
  <2>2. ASSUME NEW u \in People, ReapDelete(u)
        PROVE  policy' \in [Roles -> SUBSET People] /\ overtaken' \subseteq Roles \X People
    BY <1>1, <2>2 DEF ReapDelete, AwsTyped, ReaperTyped
  <2> QED BY <2>1, <2>2 DEF ReapBegin, ReapList, ReapCollect, AwsTyped
<1>5. reaper' \in Reaper /\ ReaperTyped(reaper')
  <2>1. CASE ReapBegin
    <3>1. PICK q \in BOOLEAN : q = (\A j \in Revocations : revocation[j].pc = "idle")
      BY Zenon
    <3>2. reaper' = [NoReaper EXCEPT !.pc = "list", !.left = Roles, !.at = clock, !.quiet = q]
      BY <2>1, <3>1 DEF ReapBegin
    <3> QED BY <1>1, <2>1, <3>2 DEF ReapBegin, NoReaper, Reaper, ReaperTyped
  <2>2. ASSUME NEW ro \in Roles, ReapNext(ro) PROVE reaper' \in Reaper /\ ReaperTyped(reaper')
    BY <2>2, ReapNextTyped
  <2>3. ASSUME NEW ro \in Roles, ReapList(ro) PROVE reaper' \in Reaper /\ ReaperTyped(reaper')
    <3>1. CASE reaper' = [reaper EXCEPT !.pc = "delete", !.role = ro,
                                        !.todo = {u \in People : PastCutoff(ro, u)}]
      BY <1>1, <2>3, <3>1 DEF ReapList, Reaper, ReaperTyped
    <3> QED BY <2>2, <2>3, <3>1 DEF ReapList
  <2>4. ASSUME NEW u \in People, ReapDelete(u) PROVE reaper' \in Reaper /\ ReaperTyped(reaper')
    BY <1>1, <2>4 DEF ReapDelete, Reaper, ReaperTyped
  <2>5. ASSUME ReapCollect PROVE reaper' \in Reaper /\ ReaperTyped(reaper')
    <3>1. CASE reaper' = [reaper EXCEPT !.pc = "push", !.subs = RevokedSubs(reaper.role),
                                        !.behind = {}]
      BY <1>1, <2>5, <3>1 DEF ReapCollect, Reaper, ReaperTyped, RevokedSubs
    <3> QED BY <1>1, <2>2, <2>5, <3>1 DEF ReapCollect, ReaperTyped
  <2>6. ASSUME ReapPush PROVE reaper' \in Reaper /\ ReaperTyped(reaper')
    BY <1>1, <2>2, <2>6 DEF ReapPush, ReaperTyped
  <2> QED BY <2>1, <2>3, <2>4, <2>5, <2>6
<1> QED BY <1>2, <1>3, <1>4, <1>5 DEF AwsTyped, RevocationTyped

\* And the rest.
LEMMA WorldTyped ==
  ASSUME AwsTyped, (\E u \in People, ro \in Roles : Federate(u, ro)) \/ Cancel \/ AwsTick
  PROVE  AwsTyped'
<1>1. clock' \in Nat /\ UNCHANGED <<table, policy, promised, overtaken>>
  BY DEF Federate, Cancel, AwsTick, AwsTyped
<1>2. sts' \subseteq STS
  BY DEF Federate, Cancel, AwsTick, AwsTyped, STS
<1>3. revocation' \in [Revocations -> Revocation] /\ \A k \in Revocations : RevocationTyped(revocation'[k])
  BY Empties DEF Federate, Cancel, AwsTick, AwsTyped
<1>4. reaper' \in Reaper /\ ReaperTyped(reaper')
  BY Empties DEF Federate, Cancel, AwsTick, AwsTyped
<1> QED BY <1>1, <1>2, <1>3, <1>4 DEF AwsTyped

-----------------------------------------------------------------------------
(* What the steps keep.                                                    *)

\* A row that is on record now is not gone, and gone rows are not listed.
LEMMA ListedRows ==
  ASSUME NEW ro \in Roles, NEW u \in People
  PROVE  u \in RevokedSubs(ro) <=> ~Gone(ro, u)
BY DEF RevokedSubs, Gone

\* A revocation that is idle, or about to add its next row, has nothing to keep.
LEMMA EarlyOK ==
  ASSUME NEW v, v.pc \in {"idle", "add"}
  PROVE  RevocationOK(v) /\ RevocationOK(v)'
BY DEF RevocationOK

\* A step that changes neither the table, the policies, the promises nor the
\* clock, only one revocation, keeps everything when the revocation does.
LEMMA RevocationReads ==
  ASSUME AwsInv, AwsTyped', NEW j \in Revocations, NEW v, RevocationOK(v),
         v.at <= clock, revocation' = [revocation EXCEPT ![j] = v],
         reaper' \in {reaper, [reaper EXCEPT !.quiet = FALSE]},
         UNCHANGED <<clock, table, policy, sts, promised, overtaken>>
  PROVE  AwsInv'
<1>1. \A k \in Revocations : revocation'[k] = IF k = j THEN v ELSE revocation[k]
  BY DEF AwsInv, AwsTyped
<1>2. /\ reaper'.pc = reaper.pc /\ reaper'.todo = reaper.todo /\ reaper'.behind = reaper.behind
      /\ reaper'.role = reaper.role /\ reaper'.at = reaper.at /\ reaper'.subs = reaper.subs
  BY DEF AwsInv, AwsTyped, Reaper
<1>3. Clocked'
  BY <1>1, <1>2 DEF AwsInv, Clocked
<1>4. Kept'
  BY DEF AwsInv, Kept, KeptAt, Young, Gone, Live
<1>5. \A w : Listed(w)' <=> Listed(w)
  BY DEF Listed, RevokedSubs
<1>6. \A w : RevocationOK(w)' <=> RevocationOK(w)
  BY <1>5 DEF RevocationOK, Young, Gone, Live
<1>7. \A k \in Revocations : RevocationOK(revocation[k])'
  BY <1>1, <1>6 DEF AwsInv
<1>8. ReaperOK(reaper)'
  BY <1>2 DEF AwsInv, ReaperOK, Old, Gone, Listed, RevokedSubs
<1> QED BY <1>3, <1>4, <1>7, <1>8 DEF AwsInv

\* The start of a revocation, and the read of a list.
LEMMA RevokeReadInv ==
  ASSUME AwsInv, AwsTyped', NEW j \in Revocations,
         RevokeCollect(j) \/ \E u \in People : RevokeBegin(j, u)
  PROVE  AwsInv'
<1>1. ASSUME NEW u \in People, RevokeBegin(j, u) PROVE AwsInv'
  <2>1. RevocationOK(Round(u, Roles)) /\ Round(u, Roles).at <= clock
    BY <1>1, RoundTyped, EarlyOK DEF RevokeBegin, AwsInv, AwsTyped
  <2> QED BY <1>1, <2>1, RevocationReads DEF RevokeBegin
<1>2. ASSUME RevokeCollect(j) PROVE AwsInv'
  <2>1. PICK v \in Revocation :
          /\ revocation' = [revocation EXCEPT ![j] = v]
          /\ \/ v.pc \in {"idle", "add"} /\ v.at = 0
             \/ /\ v.pc = "put" /\ v.role = revocation[j].role /\ v.user = revocation[j].user
                /\ v.at = revocation[j].at /\ v.subs = RevokedSubs(v.role) /\ v.behind = {}
    BY <1>2, CollectTyped DEF AwsInv
  <2>2. /\ RevocationOK(revocation[j]) /\ revocation[j].pc = "collect"
        /\ revocation[j].at <= clock /\ 0 <= clock
    BY <1>2 DEF AwsInv, AwsTyped, Clocked, RevokeCollect
  <2>3. RevocationOK(v) /\ v.at <= clock
    BY <2>1, <2>2, EarlyOK DEF RevocationOK, Listed
  <2> QED BY <1>2, <2>1, <2>3, RevocationReads DEF RevokeCollect
<1> QED BY <1>1, <1>2

\* The upsert: the row gets the latest date there is, and everybody who has read
\* the role remembers it.
LEMMA RevokeAddInv ==
  ASSUME AwsInv, AwsTyped', NEW j \in Revocations, NEW ro \in Roles, RevokeAdd(j, ro)
  PROVE  AwsInv'
<1>1. /\ revocation \in [Revocations -> Revocation] /\ revocation[j] \in Revocation
      /\ RevocationTyped(revocation[j]) /\ revocation[j].pc = "add" /\ clock \in Nat
      /\ table \in [Roles -> [People -> Nat \cup {-1}]] /\ reaper \in Reaper
      /\ promised \in [Roles -> [People -> Nat \cup {-1}]]
      /\ UNCHANGED <<clock, policy, sts, promised, overtaken>>
  BY DEF AwsInv, AwsTyped, RevokeAdd
<1>2. PICK u \in People : u = revocation[j].user
  BY <1>1 DEF RevocationTyped
<1>3. CASE NextRole(j, ro) /\ UNCHANGED <<table, reaper>>
  <2>1. PICK v \in Revocation : /\ v.pc \in {"idle", "add"} /\ v.at = 0
                                /\ revocation' = [revocation EXCEPT ![j] = v]
    BY <1>1, <1>3, NextRoleTyped DEF AwsInv
  <2>2. RevocationOK(v) /\ v.at <= clock
    BY <1>1, <2>1, EarlyOK
  <2> QED BY <1>1, <1>3, <2>1, <2>2, RevocationReads
<1>4. CASE /\ table' = [table EXCEPT ![ro][u] = clock]
           /\ revocation' = [i \in Revocations |->
                IF i = j THEN [revocation[j] EXCEPT !.pc = "collect", !.role = ro, !.at = clock]
                ELSE Outdated(revocation[i], ro, u)]
           /\ reaper' = Outdated(reaper, ro, u)
  <2>1. /\ table'[ro][u] = clock
        /\ \A p \in Roles, w \in People : p # ro \/ w # u => table'[p][w] = table[p][w]
    BY <1>1, <1>4, CellTyped
  <2>2. \A p \in Roles, w \in People : ~Gone(p, w) => ~Gone(p, w)'
    BY <1>1, <2>1 DEF AwsInv, Clocked, Gone
  <2>3. \A p \in Roles, w \in People, t \in Nat \cup {-1} :
          t <= clock /\ Young(p, w, t) => Young(p, w, t)'
    BY <1>1, <2>1 DEF Young, Gone
  <2>4. \A p \in Roles : RevokedSubs(p)' \subseteq RevokedSubs(p) \cup (IF p = ro THEN {u} ELSE {})
    BY <2>1 DEF RevokedSubs
  <2>5. Clocked'
    <3>1. reaper'.at = reaper.at
      BY <1>1, <1>4, OutdatedReaper
    <3>2. ASSUME NEW i \in Revocations PROVE revocation'[i].at <= clock
      <4>1. revocation[i] \in Revocation /\ revocation[i].at <= clock
        BY DEF AwsInv, AwsTyped, Clocked
      <4>2. CASE i = j
        <5>1. PICK v : v = [revocation[j] EXCEPT !.pc = "collect", !.role = ro, !.at = clock]
          OBVIOUS
        <5>2. revocation'[i] = v /\ v.at = clock
          BY <1>1, <1>4, <4>2, <5>1 DEF Revocation
        <5> QED BY <1>1, <5>2
      <4>3. CASE i # j
        <5>1. revocation'[i] = Outdated(revocation[i], ro, u)
          BY <1>4, <4>3
        <5> QED BY <4>1, <5>1, OutdatedRevocation
      <4> QED BY <4>2, <4>3
    <3> QED BY <1>1, <2>1, <3>1, <3>2 DEF AwsInv, Clocked
  <2>6. Kept'
    <3>1. ASSUME NEW p \in Roles, NEW w \in People PROVE KeptAt(p, w)'
      <4>1. KeptAt(p, w) /\ promised[p][w] \in Nat \cup {-1}
        BY <1>1 DEF AwsInv, Kept
      <4>2. promised[p][w] <= clock /\ promised' = promised
        BY <1>1 DEF AwsInv, Clocked
      <4>3. PICK t \in Nat \cup {-1} : t = promised[p][w]
        BY <4>1
      <4>4. Young(p, w, t)'
        BY <2>3, <4>1, <4>2, <4>3 DEF KeptAt
      <4> QED BY <1>1, <2>2, <4>1, <4>2, <4>3, <4>4 DEF KeptAt, Young, Live, Gone
    <3> QED BY <3>1 DEF Kept
  <2>7. ASSUME NEW i \in Revocations PROVE RevocationOK(revocation[i])'
    <3>1. CASE i = j
      <4>1. PICK v : v = [revocation[j] EXCEPT !.pc = "collect", !.role = ro, !.at = clock]
        OBVIOUS
      <4>2. v.pc = "collect" /\ v.role = ro /\ v.user = u /\ v.at = clock
        BY <1>1, <1>2, <4>1 DEF Revocation
      <4>3. revocation'[i] = v
        BY <1>4, <3>1, <4>1
      <4> QED BY <1>1, <2>1, <4>2, <4>3 DEF RevocationOK, Young, Gone
    <3>2. CASE i # j
      <4>1. PICK w \in Revocation : /\ w = revocation[i] /\ RevocationTyped(w) /\ RevocationOK(w)
        BY DEF AwsInv, AwsTyped
      <4>2. PICK v : v = Outdated(w, ro, u)
        OBVIOUS
      <4>3. /\ v.pc = w.pc /\ v.role = w.role /\ v.user = w.user /\ v.at = w.at
            /\ v.subs = w.subs /\ w.behind \subseteq v.behind
            /\ w.role = ro => u \in v.behind
        BY <4>2, OutdatedRevocation
      <4>4. revocation'[i] = v
        BY <1>4, <3>2, <4>1, <4>2
      <4>5. w.pc \in {"collect", "put"} => w.role \in Roles /\ w.user \in People
        BY <4>1 DEF RevocationTyped
      <4>6. w.pc \in {"collect", "put"} =>
              /\ Young(w.role, w.user, w.at)'
              /\ Live(w.role, w.at)' /\ <<w.role, w.user>> \notin overtaken' => ~Gone(w.role, w.user)'
        <5> SUFFICES ASSUME w.pc \in {"collect", "put"}
                     PROVE  /\ Young(w.role, w.user, w.at)'
                            /\ Live(w.role, w.at)' /\ <<w.role, w.user>> \notin overtaken' =>
                                 ~Gone(w.role, w.user)'
          OBVIOUS
        <5>1. PICK p \in Roles, x \in People : p = w.role /\ x = w.user
          BY <4>5
        <5>2. Young(p, x, w.at) /\ w.at \in Nat /\ w.at <= clock
          BY <4>1, <5>1 DEF RevocationOK, Revocation, AwsInv, Clocked
        <5>3. Young(p, x, w.at)'
          BY <2>3, <5>2
        <5>4. Live(p, w.at)' /\ <<p, x>> \notin overtaken' => ~Gone(p, x)'
          BY <1>1, <2>2, <4>1, <5>1 DEF RevocationOK, Live
        <5> QED BY <5>1, <5>3, <5>4
      <4>7. w.pc = "put" => Listed(v)'
        BY <2>4, <4>1, <4>3, <4>5 DEF RevocationOK, Listed
      <4> QED BY <4>3, <4>4, <4>6, <4>7 DEF RevocationOK
    <3> QED BY <3>1, <3>2
  <2>8. ReaperOK(reaper)'
    <3>1. PICK v : v = Outdated(reaper, ro, u)
      OBVIOUS
    <3>2. /\ v.pc = reaper.pc /\ v.role = reaper.role /\ v.todo = reaper.todo /\ v.at = reaper.at
          /\ v.subs = reaper.subs /\ reaper.behind \subseteq v.behind
          /\ reaper.role = ro => u \in v.behind
      BY <1>1, <3>1, OutdatedReaper
    <3>3. reaper' = v
      BY <1>4, <3>1
    <3>4. reaper.pc \in {"delete", "push"} => reaper.role \in Roles /\ reaper.todo \subseteq People
      BY <1>1 DEF AwsInv, AwsTyped, ReaperTyped, Reaper
    <3>5. ASSUME reaper.pc = "delete", NEW w \in v.todo \ v.behind
          PROVE  Old(v.role, w, v.at)'
      <4>1. Old(v.role, w, v.at) /\ v.role \in Roles /\ w \in People
        BY <3>2, <3>4, <3>5 DEF AwsInv, ReaperOK
      <4>2. v.role # ro \/ w # u
        BY <3>2, <3>5
      <4>3. table'[v.role][w] = table[v.role][w]
        BY <2>1, <4>1, <4>2
      <4> QED BY <4>1, <4>3 DEF Old, Gone
    <3>6. reaper.pc = "push" => Listed(v)'
      BY <2>4, <3>2, <3>4 DEF AwsInv, ReaperOK, Listed
    <3> QED BY <3>2, <3>3, <3>5, <3>6 DEF ReaperOK
  <2> QED BY <2>5, <2>6, <2>7, <2>8 DEF AwsInv
<1> QED BY <1>2, <1>3, <1>4 DEF RevokeAdd

\* AWS takes a list that lacks only users revoked since it was read: whoever is
\* not overtaken and has a row is denied by it.
LEMMA PushKeeps ==
  ASSUME AwsTyped, NEW w, w.role \in Roles, w.subs \in SUBSET People, w.behind \in SUBSET People,
         Listed(w), Pushes(w)
  PROVE  /\ \A p \in Roles, x \in People : p # w.role =>
              /\ x \in policy'[p] <=> x \in policy[p]
              /\ <<p, x>> \in overtaken' <=> <<p, x>> \in overtaken
         /\ \A x \in People : <<w.role, x>> \notin overtaken' /\ ~Gone(w.role, x) => x \in policy'[w.role]
         /\ \A p \in Roles, x \in People :
              <<p, x>> \notin overtaken' => <<p, x>> \notin overtaken \/ ~Gone(p, x)
<1>1. policy' = [policy EXCEPT ![w.role] = w.subs] /\ policy \in [Roles -> SUBSET People]
  BY DEF AwsTyped, Pushes
<1>2. \A p \in Roles, x \in People : <<p, x>> \in overtaken' <=>
        \/ <<p, x>> \in overtaken /\ ~(p = w.role /\ x \in w.subs /\ x \in RevokedSubs(w.role))
        \/ p = w.role /\ x \in w.behind /\ x \notin w.subs
  BY DEF Pushes
<1>3. \A x \in People : ~Gone(w.role, x) => x \in w.subs \cup w.behind
  BY ListedRows DEF Listed
<1> QED BY <1>1, <1>2, <1>3, ListedRows

\* A push, then, keeps what is promised to everybody and what is owed to every
\* revocation.
LEMMA PushInv ==
  ASSUME AwsInv, NEW w, w.role \in Roles, w.subs \in SUBSET People, w.behind \in SUBSET People,
         Listed(w), Pushes(w), UNCHANGED <<clock, table, sts>>
  PROVE  /\ \A p \in Roles, x \in People : promised'[p][x] = promised[p][x] => KeptAt(p, x)'
         /\ \A j \in Revocations : RevocationOK(revocation[j])' \/ revocation'[j] # revocation[j]
         /\ ReaperOK(reaper)' \/ reaper' # reaper
<1>1. \A p \in Roles, x \in People : p # w.role =>
        /\ x \in policy'[p] <=> x \in policy[p]
        /\ <<p, x>> \in overtaken' <=> <<p, x>> \in overtaken
  BY PushKeeps DEF AwsInv
<1>2. \A x \in People : <<w.role, x>> \notin overtaken' /\ ~Gone(w.role, x) => x \in policy'[w.role]
  BY PushKeeps DEF AwsInv
<1>3. \A p \in Roles, x \in People :
        <<p, x>> \notin overtaken' => <<p, x>> \notin overtaken \/ ~Gone(p, x)
  BY PushKeeps DEF AwsInv
<1>4. \A p \in Roles, x \in People : Gone(p, x)' <=> Gone(p, x)
  BY DEF Gone
<1>5. \A p, t : Live(p, t)' <=> Live(p, t)
  BY DEF Live
<1>6. \A p, x, t : Young(p, x, t)' <=> Young(p, x, t)
  BY DEF Young, Gone
<1>7. ASSUME NEW p \in Roles, NEW x \in People, promised'[p][x] = promised[p][x]
      PROVE  KeptAt(p, x)'
  <2>1. KeptAt(p, x)
    BY DEF AwsInv, Kept
  <2>2. Young(p, x, promised[p][x])'
    BY <1>7, <2>1 DEF KeptAt, Young, Gone
  <2>3. ASSUME promised[p][x] # -1, Live(p, promised[p][x]), <<p, x>> \notin overtaken'
        PROVE  ~Gone(p, x) /\ x \in policy'[p]
    BY <1>1, <1>2, <1>3, <2>1, <2>3 DEF KeptAt
  <2> QED BY <1>4, <1>5, <1>7, <2>2, <2>3 DEF KeptAt
<1>8. ASSUME NEW j \in Revocations, revocation'[j] = revocation[j] PROVE RevocationOK(revocation[j])'
  <2>1. PICK v \in Revocation : v = revocation[j] /\ RevocationTyped(v) /\ RevocationOK(v)
    BY DEF AwsInv, AwsTyped
  <2>2. CASE v.pc \in {"collect", "put"}
    <3>1. PICK p \in Roles, x \in People : p = v.role /\ x = v.user
      BY <2>1, <2>2 DEF RevocationTyped
    <3>2. Young(p, x, v.at)' /\ (Live(p, v.at)' /\ <<p, x>> \notin overtaken' => ~Gone(p, x)')
      BY <1>3, <1>4, <1>5, <1>6, <2>1, <2>2, <3>1 DEF RevocationOK
    <3>3. v.pc = "put" => Listed(v)'
      BY <2>1 DEF RevocationOK, Listed, RevokedSubs
    <3> QED BY <1>8, <2>1, <3>1, <3>2, <3>3 DEF RevocationOK
  <2>3. CASE v.pc \notin {"collect", "put"}
    BY <1>8, <2>1, <2>3 DEF RevocationOK
  <2> QED BY <2>2, <2>3
<1>9. ASSUME reaper' = reaper PROVE ReaperOK(reaper)'
  BY <1>9 DEF AwsInv, ReaperOK, Old, Gone, Listed, RevokedSubs
<1> QED BY <1>7, <1>8, <1>9

\* The push of a revocation.
LEMMA RevokePutInv ==
  ASSUME AwsInv, AwsTyped', NEW j \in Revocations, RevokePut(j)
  PROVE  AwsInv'
<1>1. PICK w \in Revocation : w = revocation[j] /\ RevocationTyped(w) /\ RevocationOK(w)
  BY DEF AwsInv, AwsTyped
<1>2. /\ w.pc = "put" /\ UNCHANGED <<clock, table, sts, reaper>> /\ NextRole(j, w.role)
      /\ w.role \in Roles /\ w.user \in People /\ w.at \in Nat
      /\ w.subs \in SUBSET People /\ w.behind \in SUBSET People
  BY <1>1 DEF RevokePut, RevocationTyped, Revocation
<1>3. PICK v \in Revocation : /\ v.pc \in {"idle", "add"} /\ v.at = 0
                              /\ revocation' = [revocation EXCEPT ![j] = v]
  BY <1>1, <1>2, NextRoleTyped DEF AwsInv
<1>4. \A k \in Revocations : revocation'[k] = IF k = j THEN v ELSE revocation[k]
  BY <1>3 DEF AwsInv, AwsTyped
<1>5. RevocationOK(v)' /\ RevocationOK(v) /\ v.at <= clock /\ w.at <= clock
  BY <1>1, <1>3, EarlyOK DEF AwsInv, AwsTyped, Clocked
<1>6. (\A p \in Roles, x \in People : promised'[p][x] <= clock) => Clocked'
  BY <1>2, <1>4, <1>5 DEF AwsInv, Clocked
<1>7. CASE UNCHANGED <<policy, overtaken, promised>>
  BY <1>2, <1>3, <1>5, <1>7, RevocationReads
<1>8. CASE Pushes(w)
  <2>1. Listed(w)
    BY <1>1, <1>2 DEF RevocationOK
  <2>2. /\ \A p \in Roles, x \in People : promised'[p][x] = promised[p][x] => KeptAt(p, x)'
        /\ \A k \in Revocations : RevocationOK(revocation[k])' \/ revocation'[k] # revocation[k]
        /\ ReaperOK(reaper)'
    BY <1>2, <1>8, <2>1, PushInv
  <2>3. \A k \in Revocations : RevocationOK(revocation[k])'
    <3>1. ASSUME NEW k \in Revocations PROVE RevocationOK(revocation[k])'
      <4>1. CASE k = j
        BY <1>4, <1>5, <4>1 DEF RevocationOK
      <4>2. CASE k # j
        BY <1>4, <2>2, <4>2
      <4> QED BY <4>1, <4>2
    <3> QED BY <3>1
  <2>4. CASE UNCHANGED promised
    <3>1. Clocked'
      BY <1>6, <2>4 DEF AwsInv, Clocked
    <3> QED BY <2>2, <2>3, <2>4, <3>1 DEF AwsInv, Kept
  <2>5. CASE promised' = [promised EXCEPT ![w.role][w.user] = w.at]
    <3>1. /\ promised'[w.role][w.user] = w.at
          /\ \A p \in Roles, x \in People : p # w.role \/ x # w.user => promised'[p][x] = promised[p][x]
      BY <1>2, <2>5, CellTyped DEF AwsInv, AwsTyped
    <3>2. /\ Young(w.role, w.user, w.at)
          /\ Live(w.role, w.at) /\ <<w.role, w.user>> \notin overtaken => ~Gone(w.role, w.user)
      BY <1>1, <1>2 DEF RevocationOK
    <3>3. /\ <<w.role, w.user>> \notin overtaken' /\ ~Gone(w.role, w.user) => w.user \in policy'[w.role]
          /\ <<w.role, w.user>> \notin overtaken' =>
               <<w.role, w.user>> \notin overtaken \/ ~Gone(w.role, w.user)
      BY <1>2, <1>8, <2>1, PushKeeps DEF AwsInv
    <3>4. KeptAt(w.role, w.user)'
      BY <1>2, <3>1, <3>2, <3>3 DEF KeptAt, Young, Live, Gone
    <3>5. Kept'
      BY <2>2, <3>1, <3>4 DEF Kept
    <3>6. Clocked'
      BY <1>5, <1>6, <3>1 DEF AwsInv, Clocked
    <3> QED BY <2>2, <2>3, <3>5, <3>6 DEF AwsInv
  <2> QED BY <1>1, <2>4, <2>5 DEF RevokePut
<1> QED BY <1>1, <1>7, <1>8 DEF RevokePut

\* The reaper moves on without touching what the rest relies on.
LEMMA ReaperReads ==
  ASSUME AwsInv, AwsTyped', ReaperOK(reaper'), reaper'.at <= clock,
         UNCHANGED <<clock, table, policy, sts, revocation, promised, overtaken>>
  PROVE  AwsInv'
<1>1. Clocked'
  BY DEF AwsInv, Clocked
<1>2. Kept'
  BY DEF AwsInv, Kept, KeptAt, Young, Gone, Live
<1>3. \A j \in Revocations : RevocationOK(revocation[j])'
  BY DEF AwsInv, RevocationOK, Young, Gone, Live, Listed, RevokedSubs
<1>4. ReaperOK(reaper)'
  BY DEF ReaperOK, Old, Gone, Listed, RevokedSubs
<1> QED BY <1>1, <1>2, <1>3, <1>4 DEF AwsInv

\* Between roles the reaper has nothing to keep.
LEMMA ReapNextOK ==
  ASSUME AwsInv, NEW ro \in Roles, ReapNext(ro)
  PROVE  ReaperOK(reaper') /\ reaper'.at <= clock
<1>1. reaper'.pc \in {"idle", "list"} /\ reaper'.at \in {0, reaper.at} /\ clock \in Nat
  BY ReapNextTyped DEF AwsInv, AwsTyped
<1> QED BY <1>1 DEF ReaperOK, AwsInv, Clocked

\* The reaper begins a sweep, reads what is past the cutoff, and reads what is
\* left.
LEMMA ReapReadInv ==
  ASSUME AwsInv, AwsTyped', ReapBegin \/ ReapCollect \/ \E ro \in Roles : ReapList(ro)
  PROVE  AwsInv'
<1>1. /\ reaper \in Reaper /\ ReaperTyped(reaper) /\ clock \in Nat /\ reaper.at \in Nat
      /\ reaper.at <= clock
  BY DEF AwsInv, AwsTyped, Clocked, Reaper
<1>2. UNCHANGED <<clock, table, policy, sts, revocation, promised, overtaken>>
  BY DEF ReapBegin, ReapCollect, ReapList
<1>3. CASE ReapBegin
  <2>1. reaper'.pc = "list" /\ reaper'.at = clock
    BY <1>1, <1>3 DEF ReapBegin, NoReaper
  <2> QED BY <1>1, <1>2, <2>1, ReaperReads DEF ReaperOK
<1>4. ASSUME NEW ro \in Roles, ReapList(ro) PROVE AwsInv'
  <2>1. CASE ReapNext(ro)
    BY <1>2, <2>1, ReapNextOK, ReaperReads
  <2>2. CASE reaper' = [reaper EXCEPT !.pc = "delete", !.role = ro,
                                      !.todo = {u \in People : PastCutoff(ro, u)}]
    <3>1. /\ reaper'.pc = "delete" /\ reaper'.role = ro /\ reaper'.at = reaper.at
          /\ reaper'.todo = {u \in People : PastCutoff(ro, u)}
      BY <1>1, <2>2 DEF Reaper
    <3>2. ASSUME NEW u \in reaper'.todo PROVE Old(ro, u, reaper.at)
      <4>1. u \in People /\ table[ro][u] < reaper.at - MaxSession[ro]
        BY <3>1 DEF PastCutoff
      <4>2. table[ro][u] \in Int /\ MaxSession[ro] \in Int
        BY <4>1, AwsAssumption DEF AwsInv, AwsTyped
      <4> QED BY <1>1, <4>1, <4>2 DEF Old
    <3>3. ReaperOK(reaper')
      BY <3>1, <3>2 DEF ReaperOK
    <3> QED BY <1>1, <1>2, <3>1, <3>3, ReaperReads
  <2> QED BY <1>4, <2>1, <2>2 DEF ReapList
<1>5. CASE ReapCollect
  <2>1. reaper.role \in Roles
    BY <1>1, <1>5 DEF ReapCollect, ReaperTyped
  <2>2. CASE ReapNext(reaper.role)
    BY <1>2, <2>1, <2>2, ReapNextOK, ReaperReads
  <2>3. CASE reaper' = [reaper EXCEPT !.pc = "push", !.subs = RevokedSubs(reaper.role),
                                      !.behind = {}]
    <3>1. /\ reaper'.pc = "push" /\ reaper'.role = reaper.role /\ reaper'.at = reaper.at
          /\ reaper'.subs = RevokedSubs(reaper.role)
      BY <1>1, <2>3 DEF Reaper
    <3>2. ReaperOK(reaper')
      BY <3>1 DEF ReaperOK, Listed
    <3> QED BY <1>1, <1>2, <3>1, <3>2, ReaperReads
  <2> QED BY <1>5, <2>2, <2>3 DEF ReapCollect
<1> QED BY <1>3, <1>4, <1>5

\* A row is deleted, or not: it was past the cutoff, so that nothing is owed for
\* it, or it was renewed behind the reaper's back, and its user is overtaken.
LEMMA ReapDeleteInv ==
  ASSUME AwsInv, AwsTyped', NEW u \in People, ReapDelete(u)
  PROVE  AwsInv'
<1>1. /\ reaper \in Reaper /\ ReaperTyped(reaper) /\ clock \in Nat /\ reaper.at \in Nat
      /\ reaper.at <= clock /\ reaper.role \in Roles /\ reaper.pc = "delete" /\ u \in reaper.todo
      /\ table \in [Roles -> [People -> Nat \cup {-1}]]
      /\ promised \in [Roles -> [People -> Nat \cup {-1}]]
      /\ UNCHANGED <<clock, policy, sts, revocation, promised>>
  BY DEF AwsInv, AwsTyped, Clocked, Reaper, ReaperTyped, ReapDelete
<1>2. PICK ro \in Roles : ro = reaper.role
  BY <1>1
<1>3. /\ reaper'.pc = "delete" /\ reaper'.role = ro /\ reaper'.todo \subseteq reaper.todo
      /\ reaper'.at = reaper.at /\ reaper'.behind = reaper.behind
  BY <1>1, <1>2 DEF ReapDelete, Reaper
<1>4. \A x \in reaper.todo \ reaper.behind : Old(ro, x, reaper.at)
  BY <1>1, <1>2 DEF AwsInv, ReaperOK
<1>5. CASE UNCHANGED <<table, overtaken>>
  <2>1. ReaperOK(reaper')
    BY <1>3, <1>4 DEF ReaperOK
  <2> QED BY <1>1, <1>3, <1>5, <2>1, ReaperReads
<1>6. CASE /\ table' = [table EXCEPT ![ro][u] = -1]
           /\ overtaken' = overtaken \cup ({ro} \X ({u} \cap reaper.behind))
  <2>1. /\ table'[ro][u] = -1
        /\ \A p \in Roles, x \in People : p # ro \/ x # u => table'[p][x] = table[p][x]
    BY <1>1, <1>6, CellTyped
  <2>2. /\ \A p, x : <<p, x>> \in overtaken => <<p, x>> \in overtaken'
        /\ <<ro, u>> \notin overtaken' => Old(ro, u, reaper.at)
    BY <1>1, <1>4, <1>6
  <2>3. ASSUME NEW t \in Nat \cup {-1}, t # -1, Young(ro, u, t), ~Gone(ro, u), Old(ro, u, reaper.at)
        PROVE  ~Live(ro, t)
    <3>1. t <= table[ro][u] /\ table[ro][u] + MaxSession[ro] < clock
      BY <1>1, <2>3, AwsAssumption DEF Young, Old
    <3> QED BY <1>1, <2>3, <3>1, AwsAssumption DEF Live
  <2>4. Clocked'
    BY <1>1, <1>3, <2>1 DEF AwsInv, Clocked
  <2>5. ASSUME NEW p \in Roles, NEW x \in People PROVE KeptAt(p, x)'
    <3>1. KeptAt(p, x) /\ promised[p][x] \in Nat \cup {-1}
      BY <1>1 DEF AwsInv, Kept
    <3>2. CASE p # ro \/ x # u
      BY <1>1, <2>1, <2>2, <3>1, <3>2 DEF KeptAt, Young, Gone, Live
    <3>3. CASE p = ro /\ x = u
      <4>1. Young(p, x, promised[p][x])'
        BY <2>1, <3>3 DEF Young, Gone
      <4>2. promised[p][x] # -1 /\ Live(p, promised[p][x]) => <<p, x>> \in overtaken'
        BY <2>2, <2>3, <3>1, <3>3 DEF KeptAt
      <4> QED BY <1>1, <4>1, <4>2 DEF KeptAt, Live
    <3> QED BY <3>2, <3>3
  <2>6. ASSUME NEW j \in Revocations PROVE RevocationOK(revocation[j])'
    <3>1. PICK w \in Revocation : w = revocation[j] /\ RevocationTyped(w) /\ RevocationOK(w)
      BY DEF AwsInv, AwsTyped
    <3>2. \A p \in Roles : RevokedSubs(p)' \subseteq RevokedSubs(p)
      BY <2>1 DEF RevokedSubs
    <3>3. w.pc = "put" => Listed(w)'
      BY <3>1, <3>2 DEF RevocationOK, Listed, RevocationTyped
    <3>4. CASE w.pc \in {"collect", "put"}
      <4>1. PICK p \in Roles, x \in People : p = w.role /\ x = w.user
        BY <3>1, <3>4 DEF RevocationTyped
      <4>2. /\ w.at \in Nat /\ Young(p, x, w.at)
            /\ Live(p, w.at) /\ <<p, x>> \notin overtaken => ~Gone(p, x)
        BY <3>1, <3>4, <4>1 DEF RevocationOK, Revocation
      <4>3. Young(p, x, w.at)'
        BY <2>1, <4>2 DEF Young, Gone
      <4>4. Live(p, w.at)' /\ <<p, x>> \notin overtaken' => ~Gone(p, x)'
        <5>1. CASE p # ro \/ x # u
          BY <1>1, <2>1, <2>2, <4>2, <5>1 DEF Gone, Live
        <5>2. CASE p = ro /\ x = u
          <6>1. w.at \in Nat \cup {-1} /\ w.at # -1
            BY <4>2
          <6>2. Live(p, w.at) => <<p, x>> \in overtaken'
            BY <2>2, <2>3, <4>2, <5>2, <6>1
          <6> QED BY <1>1, <6>2 DEF Live
        <5> QED BY <5>1, <5>2
      <4> QED BY <1>1, <3>1, <3>3, <4>1, <4>3, <4>4 DEF RevocationOK
    <3>5. CASE w.pc \notin {"collect", "put"}
      BY <1>1, <3>1, <3>5 DEF RevocationOK
    <3> QED BY <3>4, <3>5
  <2>7. ReaperOK(reaper)'
    <3>1. \A x \in reaper'.todo \ reaper'.behind : Old(ro, x, reaper.at)'
      <4>1. ASSUME NEW x \in reaper'.todo \ reaper'.behind PROVE Old(ro, x, reaper.at)'
        <5>1. x \in People /\ Old(ro, x, reaper.at)
          BY <1>1, <1>3, <1>4 DEF Reaper
        <5> QED BY <1>3, <2>1, <5>1 DEF Old, Gone
      <4> QED BY <4>1
    <3> QED BY <1>3, <3>1 DEF ReaperOK
  <2> QED BY <2>4, <2>5, <2>6, <2>7 DEF AwsInv, Kept
<1> QED BY <1>2, <1>5, <1>6 DEF ReapDelete

\* The push of a sweep.
LEMMA ReapPushInv ==
  ASSUME AwsInv, AwsTyped', ReapPush
  PROVE  AwsInv'
<1>1. /\ reaper \in Reaper /\ ReaperTyped(reaper) /\ reaper.pc = "push" /\ reaper.role \in Roles
      /\ reaper.subs \in SUBSET People /\ reaper.behind \in SUBSET People
      /\ ReapNext(reaper.role) /\ UNCHANGED <<clock, table, sts, revocation, promised>>
  BY DEF AwsInv, AwsTyped, ReapPush, Reaper, ReaperTyped
<1>2. ReaperOK(reaper') /\ reaper'.at <= clock /\ reaper'.pc \in {"idle", "list"}
  BY <1>1, ReapNextOK, ReapNextTyped DEF AwsInv
<1>3. CASE UNCHANGED <<policy, overtaken>>
  BY <1>1, <1>2, <1>3, ReaperReads
<1>4. CASE Pushes(reaper)
  <2>1. Listed(reaper)
    BY <1>1 DEF AwsInv, ReaperOK
  <2>2. /\ \A p \in Roles, x \in People : promised'[p][x] = promised[p][x] => KeptAt(p, x)'
        /\ \A j \in Revocations : RevocationOK(revocation[j])' \/ revocation'[j] # revocation[j]
    BY <1>1, <1>4, <2>1, PushInv
  <2>3. Kept' /\ \A j \in Revocations : RevocationOK(revocation[j])'
    BY <1>1, <2>2 DEF Kept
  <2>4. Clocked' /\ ReaperOK(reaper)'
    BY <1>1, <1>2 DEF AwsInv, Clocked, ReaperOK
  <2> QED BY <2>3, <2>4 DEF AwsInv
<1> QED BY <1>3, <1>4 DEF ReapPush

\* A console session opens, a worker dies, time passes.
LEMMA WorldInv ==
  ASSUME AwsInv, AwsTyped', (\E u \in People, ro \in Roles : Federate(u, ro)) \/ Cancel \/ AwsTick
  PROVE  AwsInv'
<1>1. /\ clock \in Nat /\ clock' \in Nat /\ clock <= clock' /\ reaper \in Reaper /\ reaper.at \in Nat
      /\ table \in [Roles -> [People -> Nat \cup {-1}]]
      /\ promised \in [Roles -> [People -> Nat \cup {-1}]]
  BY DEF AwsInv, AwsTyped, Reaper, Federate, Cancel, AwsTick
<1>2. UNCHANGED <<table, policy, promised, overtaken>>
  BY DEF Federate, Cancel, AwsTick
<1>3. /\ \A j \in Revocations : revocation'[j] = revocation[j] \/ revocation'[j] = NoRevocation
      /\ reaper' = reaper \/ reaper' = NoReaper
  BY DEF AwsInv, AwsTyped, Federate, Cancel, AwsTick
<1>4. \A p \in Roles, t \in Nat : Live(p, t)' => Live(p, t)
  BY <1>1, AwsAssumption DEF Live
<1>5. Kept'
  <2>1. ASSUME NEW p \in Roles, NEW x \in People PROVE KeptAt(p, x)'
    <3>1. KeptAt(p, x) /\ (promised[p][x] # -1 => promised[p][x] \in Nat)
      BY <1>1 DEF AwsInv, Kept
    <3> QED BY <1>2, <1>4, <3>1 DEF KeptAt, Young, Gone, Live
  <2> QED BY <2>1 DEF Kept
<1>6. ASSUME NEW j \in Revocations PROVE RevocationOK(revocation[j])'
  <2>1. CASE revocation'[j] = NoRevocation
    BY <2>1 DEF RevocationOK, NoRevocation
  <2>2. CASE revocation'[j] = revocation[j]
    <3>1. PICK w \in Revocation : w = revocation[j] /\ RevocationTyped(w) /\ RevocationOK(w)
      BY DEF AwsInv, AwsTyped
    <3>2. w.pc = "put" => Listed(w)'
      BY <1>2, <3>1 DEF RevocationOK, Listed, RevokedSubs
    <3>3. CASE w.pc \in {"collect", "put"}
      <4>1. PICK p \in Roles, x \in People : p = w.role /\ x = w.user
        BY <3>1, <3>3 DEF RevocationTyped
      <4>2. /\ w.at \in Nat /\ Young(p, x, w.at)
            /\ Live(p, w.at) /\ <<p, x>> \notin overtaken => ~Gone(p, x)
        BY <3>1, <3>3, <4>1 DEF RevocationOK, Revocation
      <4>3. Young(p, x, w.at)' /\ (Live(p, w.at)' /\ <<p, x>> \notin overtaken' => ~Gone(p, x)')
        BY <1>2, <1>4, <4>2 DEF Young, Gone
      <4> QED BY <2>2, <3>1, <3>2, <4>1, <4>3 DEF RevocationOK
    <3>4. CASE w.pc \notin {"collect", "put"}
      BY <2>2, <3>1, <3>4 DEF RevocationOK
    <3> QED BY <3>3, <3>4
  <2> QED BY <1>3, <2>1, <2>2
<1>7. ReaperOK(reaper)'
  <2>1. CASE reaper' = NoReaper
    BY <2>1 DEF ReaperOK, NoReaper
  <2>2. CASE reaper' = reaper
    BY <1>2, <2>2 DEF AwsInv, ReaperOK, Old, Gone, Listed, RevokedSubs
  <2> QED BY <1>3, <2>1, <2>2
<1>8. Clocked'
  <2>1. reaper'.at <= clock'
    BY <1>1, <1>3 DEF AwsInv, Clocked, NoReaper
  <2>2. \A ro \in Roles, u \in People : table'[ro][u] <= clock' /\ promised'[ro][u] <= clock'
    BY <1>1, <1>2 DEF AwsInv, Clocked
  <2>4. \A j \in Revocations : revocation'[j].at <= clock'
    <3>1. \A j \in Revocations : revocation[j].at \in Nat /\ NoRevocation.at = 0
      BY DEF AwsInv, AwsTyped, Revocation, NoRevocation
    <3> QED BY <1>1, <1>3, <3>1 DEF AwsInv, Clocked
  <2>3. \A s \in sts' : Lasts(s, clock')
    <3>1. ASSUME NEW u \in People, NEW ro \in Roles, Federate(u, ro)
          PROVE  \A s \in sts' : Lasts(s, clock')
      <4>1. clock <= clock + MaxSession[ro]
        BY <1>1, AwsAssumption
      <4> QED BY <3>1, <4>1 DEF Federate, Lasts, AwsInv, Clocked
    <3> QED BY <3>1 DEF Cancel, AwsTick, AwsInv, Clocked
  <2> QED BY <2>1, <2>2, <2>3, <2>4 DEF Clocked
<1> QED BY <1>5, <1>6, <1>7, <1>8 DEF AwsInv

-----------------------------------------------------------------------------
(* The theorems.                                                           *)

\* The types, whoever overlaps with whom.
LEMMA TypedInvariant == AwsSpec => []AwsTyped
<1>1. AwsInit => AwsTyped
  BY Empties DEF AwsInit, AwsTyped
<1>2. AwsTyped /\ [AwsNext]_awsVars => AwsTyped'
  <2> SUFFICES ASSUME AwsTyped, [AwsNext]_awsVars PROVE AwsTyped'
    OBVIOUS
  <2>1. CASE UNCHANGED awsVars
    BY <2>1 DEF awsVars, AwsTyped
  <2> QED BY <2>1, RevokeTyped, ReapTyped, WorldTyped DEF AwsNext
<1> QED BY <1>1, <1>2, PTL DEF AwsSpec

\* Every variable keeps its type, and a loop that is not over has roles left, the
\* one it is at among them (revokeAcrossAllRoles, ReapExpired).
THEOREM LoopsAreTyped == AwsSpec => []AwsTypeOK
<1>1. AwsTyped => AwsTypeOK
  BY DEF AwsTyped, AwsTypeOK, RevocationTyped, ReaperTyped
<1> QED BY <1>1, TypedInvariant, PTL

\* The invariant.
LEMMA AwsInvariant == AwsSpec => []AwsInv
<1>1. AwsInit => AwsInv
  <2> SUFFICES ASSUME AwsInit PROVE AwsInv
    OBVIOUS
  <2>1. AwsTyped
    BY Empties DEF AwsInit, AwsTyped
  <2>2. ReaperOK(reaper) /\ \A j \in Revocations : RevocationOK(revocation[j])
    BY DEF AwsInit, RevocationOK, ReaperOK, NoRevocation, NoReaper
  <2>3. Clocked
    BY DEF AwsInit, Clocked, NoReaper, NoRevocation
  <2>4. Kept
    BY DEF AwsInit, Kept, KeptAt, Young, Gone
  <2> QED BY <2>1, <2>2, <2>3, <2>4 DEF AwsInv
<1>2. AwsInv /\ [AwsNext]_awsVars => AwsInv'
  <2> SUFFICES ASSUME AwsInv, [AwsNext]_awsVars PROVE AwsInv'
    OBVIOUS
  <2>1. AwsTyped
    BY DEF AwsInv
  <2>2. ASSUME NEW j \in Revocations,
               \/ \E u \in People : RevokeBegin(j, u)
               \/ \E ro \in Roles : RevokeAdd(j, ro)
               \/ RevokeCollect(j) \/ RevokePut(j)
        PROVE  AwsInv'
    BY <2>1, <2>2, RevokeTyped, RevokeReadInv, RevokeAddInv, RevokePutInv
  <2>3. CASE \/ ReapBegin \/ (\E ro \in Roles : ReapList(ro)) \/ (\E u \in People : ReapDelete(u))
             \/ ReapCollect \/ ReapPush
    BY <2>1, <2>3, ReapTyped, ReapReadInv, ReapDeleteInv, ReapPushInv
  <2>4. CASE (\E u \in People, ro \in Roles : Federate(u, ro)) \/ Cancel \/ AwsTick
    BY <2>1, <2>4, WorldTyped, WorldInv
  <2>5. CASE UNCHANGED awsVars
    <3>1. AwsTyped' /\ Clocked'
      BY <2>5 DEF awsVars, AwsInv, AwsTyped, Clocked
    <3>2. Kept'
      BY <2>5 DEF awsVars, AwsInv, Kept, KeptAt, Young, Gone, Live
    <3>3. ReaperOK(reaper)' /\ \A j \in Revocations : RevocationOK(revocation[j])'
      BY <2>5 DEF awsVars, AwsInv, RevocationOK, ReaperOK, Young, Old, Gone, Live, Listed, RevokedSubs
    <3> QED BY <3>1, <3>2, <3>3 DEF AwsInv
  <2> QED BY <2>2, <2>3, <2>4, <2>5 DEF AwsNext
<1> QED BY <1>1, <1>2, PTL DEF AwsSpec

\* A session that was running when its user was successfully revoked is denied
\* until it expires, whatever overlaps, fails or dies on the way, unless a worker
\* with an older read has overtaken the user (revokeOneRole, ReapExpired).
THEOREM RevocationsHold == AwsSpec => []RevocationHolds
<1>1. ASSUME AwsInv PROVE RevocationHolds
  <2>1. ASSUME NEW s \in sts, s.start <= promised[s.role][s.user],
               <<s.role, s.user>> \notin overtaken
        PROVE  Denied(s)
    <3>1. s.role \in Roles /\ s.user \in People /\ s.start \in Nat
      BY <1>1 DEF AwsInv, AwsTyped, STS
    <3>2. clock <= s.start + MaxSession[s.role]
      BY <1>1 DEF AwsInv, Clocked, Lasts
    <3>3. /\ promised[s.role][s.user] \in Nat \cup {-1} /\ MaxSession[s.role] \in Nat /\ clock \in Nat
      BY <1>1, <3>1, AwsAssumption DEF AwsInv, AwsTyped
    <3>4. promised[s.role][s.user] # -1 /\ Live(s.role, promised[s.role][s.user])
      BY <2>1, <3>1, <3>2, <3>3 DEF Live
    <3>5. KeptAt(s.role, s.user)
      BY <1>1, <3>1 DEF AwsInv, Kept
    <3> QED BY <2>1, <3>4, <3>5 DEF KeptAt, Denied
  <2> QED BY <2>1 DEF RevocationHolds
<1> QED BY <1>1, AwsInvariant, PTL

=============================================================================
