------------------------- MODULE ProvisioningProofs -------------------------
(***************************************************************************)
(* The tables of Provisioning against the journal, the first               *)
(* administrator, and the target against the tables, for any users,        *)
(* groups, forms and jobs in flight, and for every value of the bounds.    *)
(***************************************************************************)
EXTENDS Provisioning, FiniteSetTheorems, TLAPS

-----------------------------------------------------------------------------
(* The inductive invariant.                                                *)

\* The jobs about one user, about one group, and those that fill in a form.
OfUser == {"create", "register", "new", "cli", "update", "edit", "delete"}
OfGroup == {"gnew", "gedit", "gdelete"}
OfForm == {"new", "cli", "update", "edit"}
Creators == {"create", "register", "new"}

\* The jobs that push users for their own sake, and those that push groups.
ToUsers == {"create", "register", "new", "update", "edit", "delete", "sync"}
ToGroups == {"new", "edit", "gnew", "gedit", "sync"}

\* The SCIM client at work for a user, and for a group.
UserCalls == {"find", "remember", "forget", "patch", "post", "setoff", "remove"}
GroupCalls == {"putg", "postg"}

\* What a job is about, it knows.
Fit(v) ==
  /\ v.kind \in OfUser => v.user \in Users
  /\ v.kind \in OfGroup => v.group \in Groups
  /\ v.kind \in OfForm => v.form \in Forms

\* Which jobs come to which label, and what they hold there.
Place(v) ==
  /\ v.pc = "idle" <=> v.kind = None
  /\ v.pc \in {"count", "promote"} => v.kind = "register"
  /\ v.pc \in {"flags", "isadmin"} => v.kind = "new"
  /\ v.pc = "audit" => v.kind \notin {"cli", "sync"}
  /\ v.pc = "undo" => v.kind \in Creators \cup {"gnew"}
  /\ v.pc = "write" => v.kind \in {"update", "edit"}
  /\ v.pc = "admin" => v.kind \in {"cli", "edit"}
  /\ v.pc = "glist" => v.kind \in {"new", "edit", "sync"}
  /\ v.pc \in {"gwrite", "gread"} => v.kind \in {"new", "edit"}
  /\ v.pc = "gread" => v.group \in Groups
  /\ v.pc = "reread" => v.kind \in {"new", "update", "edit"}
  /\ v.pc = "erase" => v.kind = "delete"
  /\ v.pc = "gcreate" => v.kind = "gnew"
  /\ v.pc = "gupdate" => v.kind = "gedit"
  /\ v.pc = "gmembers" => v.kind \in {"gnew", "gedit"}
  /\ v.pc \in {"gerase", "deleteg"} => v.kind = "gdelete"
  /\ v.pc \in UserCalls => v.who \in Users
  /\ v.pc \in {"push"} \cup UserCalls =>
       IF v.op = "member" THEN v.kind \in ToGroups /\ v.group \in Groups
       ELSE v.kind \in ToUsers
  /\ v.pc \in GroupCalls => v.kind \in ToGroups /\ v.group \in Groups /\ v.who = None
  /\ v.kind = "gdelete" => v.who = None

ProvTyped ==
  /\ ProvTypeOK
  /\ \A j \in Jobs : Fit(job[j]) /\ Place(job[j])

\* Creator v of user u, of group g, has not got past the audit event: on no way
\* does it end before it has journalled the row, or taken it back, or given up
\* on it.  A new user's groups are pushed meanwhile.
Unsettled(v) ==
  \/ v.pc \in {"count", "promote", "flags", "isadmin", "glist", "gwrite", "gread", "audit", "undo"}
                 \cup GroupCalls
  \/ v.pc \in {"push"} \cup UserCalls /\ v.op = "member"
OwesUser(v, u) == v.kind \in Creators /\ v.user = u /\ Unsettled(v)
OwesGroup(v, g) == v.kind = "gnew" /\ v.group = g /\ v.pc \in {"gmembers", "audit", "undo"}

\* A row without an event is owed one.
UserCovered(u) ==
  row[u].st = "in" /\ u \notin excused /\ <<"created", u>> \notin journal =>
    \E j \in Jobs : OwesUser(job[j], u)
GroupCovered(g) ==
  group[g].st = "in" /\ g \notin excused /\ <<"created", g>> \notin journal =>
    \E j \in Jobs : OwesGroup(job[j], g)

\* A row that is gone was refused, or its deletion is on record, as it is before
\* the statement that deletes it.
Removed(x) == <<"deleted", x>> \in journal \/ x \in refused
Erasing(v) ==
  /\ v.pc = "erase" => <<"deleted", v.user>> \in journal
  /\ v.pc = "gerase" => <<"deleted", v.group>> \in journal

Covered ==
  /\ \A u \in Users : UserCovered(u) /\ (row[u].st = "gone" => Removed(u))
  /\ \A g \in Groups : GroupCovered(g) /\ (group[g].st = "gone" => Removed(g))
  /\ \A j \in Jobs : Erasing(job[j])

\* A user who was counted alone: administrator for it, or about to be.  Nobody
\* else in the table was.
Counted(u) == u \in boot \/ \E j \in Jobs : job[j].pc = "promote" /\ job[j].user = u
First ==
  /\ IsFiniteSet(In)
  /\ \A u \in Users : Counted(u) => row[u].st # "new"
  /\ \A j \in Jobs : job[j].pc = "count" => row[job[j].user].st # "new"
  /\ \A u, w \in In : Counted(u) /\ Counted(w) => u = w

ProvInv == ProvTyped /\ Covered /\ First

-----------------------------------------------------------------------------
(* What a job does next is well typed.                                     *)

\* A job that is not at work.
LEMMA IdleOK == NoJob \in Job /\ Fit(NoJob) /\ Place(NoJob)
<1>1. NoJob \in Job
  BY DEF NoJob, Job, Pcs, Ops, Snapshot, Nobody
<1>2. NoJob.kind = None /\ NoJob.pc = "idle" /\ NoJob.who = None
  BY DEF NoJob
<1> QED
  BY <1>1, <1>2, ProvAssumption
  DEF Fit, Place, AllKinds, OfUser, OfGroup, OfForm, UserCalls, GroupCalls

\* A job goes to another label, and keeps the rest.
LEMMA AtLabel ==
  ASSUME NEW r \in Job, NEW l \in Pcs
  PROVE  /\ [r EXCEPT !.pc = l] \in Job
         /\ [r EXCEPT !.pc = l].pc = l
         /\ [r EXCEPT !.pc = l].kind = r.kind /\ [r EXCEPT !.pc = l].user = r.user
         /\ [r EXCEPT !.pc = l].group = r.group /\ [r EXCEPT !.pc = l].form = r.form
         /\ [r EXCEPT !.pc = l].op = r.op /\ [r EXCEPT !.pc = l].who = r.who
         /\ [r EXCEPT !.pc = l].todo = r.todo /\ [r EXCEPT !.pc = l].groups = r.groups
         /\ [r EXCEPT !.pc = l].vid = r.vid /\ [r EXCEPT !.pc = l].act = r.act
BY DEF Job

\* The group a job pushes: PushGroup.
LEMMA PushGroupOK ==
  ASSUME NEW r \in Job, Fit(r), r.kind \in ToGroups,
         NEW g \in Groups, r.kind \in OfGroup => g = r.group,
         NEW members \in SUBSET Users
  PROVE  LET v == PushGroup(r, g, members)
         IN  /\ v \in Job /\ Fit(v) /\ Place(v)
             /\ v.kind = r.kind /\ v.user = r.user /\ v.group = g
             /\ v.pc \in {"push", "putg"} /\ v.op = "member"
<1> DEFINE known == {u \in members : r.list[u] # "none"}
           l == IF known = {} THEN "putg" ELSE "push"
<1>1. PICK v : v = PushGroup(r, g, members)
  OBVIOUS
<1>2. v = [r EXCEPT !.group = g, !.groups = @ \ {g}, !.want = members,
                    !.todo = known, !.op = "member", !.who = None, !.vid = 0,
                    !.refs = [u \in Users |-> 0], !.pc = l]
  BY <1>1 DEF PushGroup
<1>3. known \in SUBSET Users /\ l \in Pcs /\ l \in {"push", "putg"}
  BY DEF Pcs
<1>4. [u \in Users |-> 0] \in [Users -> Nat] /\ "member" \in Ops /\ 0 \in Nat
  BY DEF Ops
<1> HIDE DEF known, l
<1>5. v \in Job
  BY <1>2, <1>3, <1>4 DEF Job
<1>6. /\ v.kind = r.kind /\ v.user = r.user /\ v.group = g /\ v.form = r.form
      /\ v.pc = l /\ v.op = "member" /\ v.who = None
  BY <1>2 DEF Job
<1>7. Fit(v)
  BY <1>6 DEF Fit
<1>8. Place(v)
  BY <1>3, <1>6, ProvAssumption DEF Place, UserCalls, GroupCalls, ToGroups, AllKinds
<1> QED BY <1>1, <1>3, <1>5, <1>6, <1>7, <1>8

\* The user a job pushes: PushUser.
LEMMA PushUserOK ==
  ASSUME NEW r \in Job, Fit(r), r.kind \in ToUsers, r.user \in Users,
         NEW op \in Ops \ {"member"}, NEW active \in BOOLEAN
  PROVE  LET v == PushUser(r, op, active)
         IN  /\ v \in Job /\ Fit(v) /\ Place(v)
             /\ v.kind = r.kind /\ v.user = r.user /\ v.group = r.group
             /\ v.pc = "push" /\ v.op = op
<1>1. PICK v : v = PushUser(r, op, active)
  OBVIOUS
<1>2. v \in Job
  BY <1>1, ZenonT(60) DEF PushUser, Job, Pcs
<1>3. /\ v.kind = r.kind /\ v.user = r.user /\ v.group = r.group /\ v.form = r.form
      /\ v.pc = "push" /\ v.op = op
  BY <1>1 DEF PushUser, Job
<1>4. Fit(v)
  BY <1>3 DEF Fit
<1>5. Place(v)
  BY <1>3, ProvAssumption DEF Place, UserCalls, GroupCalls, ToUsers, AllKinds
<1> QED BY <1>1, <1>2, <1>3, <1>4, <1>5

\* Between two groups of a user form, and after the last: Regrouped.
LEMMA RegroupedOK ==
  ASSUME NEW r \in Job, Fit(r), r.kind \in {"new", "edit"}
  PROVE  LET v == Regrouped(r)
         IN  /\ v \in Job /\ Fit(v) /\ Place(v)
             /\ v.kind = r.kind /\ v.user = r.user
             /\ v.pc \in {"gwrite", "audit", "reread"} /\ (r.kind = "new" => v.pc # "reread")
<1>1. PICK v : v = Regrouped(r)
  OBVIOUS
<1>2. PICK l \in {"gwrite", "audit", "reread"} :
        v = [r EXCEPT !.pc = l] /\ (r.kind = "new" => l # "reread")
  BY <1>1 DEF Regrouped
<1>3. /\ v \in Job /\ v.pc = l
      /\ v.kind = r.kind /\ v.user = r.user /\ v.group = r.group /\ v.form = r.form
  <2>1. l \in Pcs
    BY DEF Pcs
  <2> QED BY <1>2, <2>1, AtLabel
<1>4. Fit(v)
  BY <1>3 DEF Fit
<1>5. Place(v)
  BY <1>3, ProvAssumption DEF Place, UserCalls, GroupCalls, AllKinds
<1> QED BY <1>1, <1>2, <1>3, <1>4, <1>5

\* v is still the creation that r was, and owes its event if r did.
Follows(v, r) ==
  /\ \A u \in Users : OwesUser(r, u) => OwesUser(v, u)
  /\ \A g \in Groups : OwesGroup(r, g) => OwesGroup(v, g)
  /\ v.pc \notin {"erase", "gerase", "count", "promote"}

\* After a group: AfterGroup.
LEMMA AfterGroupOK ==
  ASSUME NEW r \in Job, Fit(r), r.kind \in ToGroups \cup {"gdelete"},
         r.pc \notin {"gmembers", "audit", "undo"}
  PROVE  LET v == AfterGroup(r)
         IN  v \in Job /\ Fit(v) /\ Place(v) /\ Follows(v, r)
<1>1. PICK v : v = AfterGroup(r)
  OBVIOUS
<1>2. CASE r.kind \in {"new", "edit"}
  <2>1. v = Regrouped(r)
    BY <1>1, <1>2 DEF AfterGroup
  <2>2. /\ v \in Job /\ Fit(v) /\ Place(v) /\ v.kind = r.kind /\ v.user = r.user
        /\ v.pc \in {"gwrite", "audit", "reread"} /\ (r.kind = "new" => v.pc # "reread")
    BY <2>1, <1>2, RegroupedOK
  <2>3. Follows(v, r)
    BY <2>2, <1>2 DEF Follows, OwesUser, OwesGroup, Unsettled, Creators
  <2> QED BY <1>1, <2>2, <2>3
<1>3. CASE r.kind = "sync" /\ r.groups # {}
  <2>1. PICK g \in r.groups : v = PushGroup(r, g, r.glist[g])
    BY <1>1, <1>3 DEF AfterGroup
  <2>2. g \in Groups /\ r.glist[g] \in SUBSET Users
    BY DEF Job
  <2>3. v \in Job /\ Fit(v) /\ Place(v) /\ v.kind = "sync" /\ v.pc \in {"push", "putg"}
    BY <2>1, <2>2, <1>3, PushGroupOK DEF ToGroups, OfGroup
  <2>4. Follows(v, r)
    BY <2>3, <1>3 DEF Follows, OwesUser, OwesGroup, Creators
  <2> QED BY <1>1, <2>3, <2>4
<1>4. CASE ~(r.kind \in {"new", "edit"}) /\ ~(r.kind = "sync" /\ r.groups # {})
  <2>1. v = NoJob
    BY <1>1, <1>4 DEF AfterGroup
  <2>2. NoJob.pc = "idle"
    BY DEF NoJob
  <2>3. Follows(v, r)
    BY <2>1, <2>2, <1>4 DEF Follows, OwesUser, OwesGroup, Creators, ToGroups
  <2> QED BY <1>1, <2>1, <2>3, IdleOK
<1> QED BY <1>2, <1>3, <1>4

\* After a user: After.
LEMMA AfterOK ==
  ASSUME NEW r \in Job, Fit(r),
         IF r.op = "member" THEN r.kind \in ToGroups /\ r.group \in Groups ELSE r.kind \in ToUsers,
         r.pc \in {"push"} \cup UserCalls
  PROVE  LET v == After(r)
         IN  v \in Job /\ Fit(v) /\ Place(v) /\ Follows(v, r)
<1>1. PICK v : v = After(r)
  OBVIOUS
<1>2. PICK s : s = [r EXCEPT !.who = None, !.vid = 0]
  OBVIOUS
<1>3. s \in Job
  BY <1>2 DEF Job
<1>4. /\ s.kind = r.kind /\ s.user = r.user /\ s.group = r.group /\ s.form = r.form
      /\ s.op = r.op /\ s.who = None
  BY <1>2 DEF Job
<1>5. CASE v = NoJob /\ r.op # "member"
  <2>1. v.pc = "idle"
    BY <1>5 DEF NoJob
  <2>2. Follows(v, r)
    BY <1>5, <2>1
    DEF Follows, OwesUser, OwesGroup, Unsettled, UserCalls, GroupCalls
  <2> QED BY <1>1, <1>5, <2>2, IdleOK
<1>6. ASSUME NEW l \in Pcs, v = [s EXCEPT !.pc = l],
             \/ l = "push"
             \/ l = "putg" /\ r.op = "member"
             \/ l = "glist" /\ r.op # "member" /\ r.kind = "sync"
      PROVE  v \in Job /\ Fit(v) /\ Place(v) /\ Follows(v, r)
  <2>1. /\ v \in Job /\ v.pc = l
        /\ v.kind = r.kind /\ v.user = r.user /\ v.group = r.group /\ v.form = r.form
        /\ v.op = r.op /\ v.who = None
    BY <1>3, <1>4, <1>6, AtLabel
  <2>2. Fit(v)
    BY <2>1 DEF Fit
  <2>3. Place(v)
    BY <2>1, <1>6, ProvAssumption
    DEF Place, UserCalls, GroupCalls, AllKinds, ToUsers, ToGroups
  <2>4. Follows(v, r)
    BY <2>1, <1>6
    DEF Follows, OwesUser, OwesGroup, Unsettled, UserCalls, GroupCalls, Creators
  <2> QED BY <2>1, <2>2, <2>3, <2>4
<1>7. \/ v = [s EXCEPT !.pc = "push"]
      \/ v = [s EXCEPT !.pc = "putg"] /\ r.op = "member"
      \/ v = [s EXCEPT !.pc = "glist"] /\ r.op # "member" /\ r.kind = "sync"
      \/ v = NoJob /\ r.op # "member"
  BY <1>1, <1>2, <1>4 DEF After
<1>8. {"push", "putg", "glist"} \subseteq Pcs
  BY DEF Pcs
<1> QED BY <1>1, <1>5, <1>6, <1>7, <1>8

-----------------------------------------------------------------------------
(* What a step leaves of the invariant.                                    *)

\* What the types say of the variables, one by one.
LEMMA TypedParts ==
  ASSUME ProvTyped
  PROVE  /\ row \in [Users -> Row] /\ group \in [Groups -> Group] /\ ext \in [Users -> Nat]
         /\ vault \in [Users -> Record] /\ vgroup \in [Groups -> TargetGroup]
         /\ job \in [Jobs -> Job] /\ journal \subseteq Events
         /\ starts \in Nat /\ faults \in Nat
         /\ boot \subseteq Users /\ excused \subseteq Items /\ refused \subseteq Items
         /\ dirty \subseteq Items
         /\ \A j \in Jobs : job[j] \in Job /\ Fit(job[j]) /\ Place(job[j])
BY DEF ProvTyped, ProvTypeOK

\* Two states of a job that differ at most in what it has read or shares.
Alike(v, w) ==
  /\ v.pc = w.pc /\ v.kind = w.kind /\ v.user = w.user /\ v.group = w.group
  /\ v.form = w.form /\ v.op = w.op /\ v.who = w.who

\* One job takes a step.
OneMoves(j) == job' \in [Jobs -> Job] /\ \A i \in Jobs \ {j} : Alike(job[i], job'[i])

\* A job is given its next state.
LEMMA SetMoves ==
  ASSUME ProvTyped, NEW j \in Jobs, NEW v \in Job, Fit(v), Place(v), Set(j, v)
  PROVE  /\ OneMoves(j) /\ job'[j] = v
         /\ \A i \in Jobs : Fit(job'[i]) /\ Place(job'[i])
<1>1. job \in [Jobs -> Job] /\ \A i \in Jobs : Fit(job[i]) /\ Place(job[i])
  BY TypedParts
<1> QED BY <1>1 DEF Set, OneMoves, Alike

\* A job touches users and groups.
LEMMA TouchesTyped ==
  ASSUME NEW r \in Job, Fit(r)
  PROVE  Touches(r) \subseteq Items
BY DEF Touches, Fit, Items, OfUser, OfGroup

\* A job begins; the others see that they share something.
LEMMA StartMoves ==
  ASSUME ProvTyped, NEW j \in Jobs, NEW r \in Job, Fit(r), Place(r), NEW S, S \subseteq Items,
         Start(j, r, S)
  PROVE  /\ OneMoves(j) /\ Alike(r, job'[j]) /\ job[j].pc = "idle"
         /\ \A i \in Jobs : Fit(job'[i]) /\ Place(job'[i])
         /\ starts' \in Nat /\ faults' \in Nat /\ dirty' \subseteq Items
<1> DEFINE both(i) == Touches(r) \cap Touches(job[i])
           over == UNION {both(i) : i \in Busy}
<1>0. /\ job \in [Jobs -> Job] /\ (\A i \in Jobs : Fit(job[i]) /\ Place(job[i]))
      /\ starts \in Nat /\ faults \in Nat /\ dirty \subseteq Items
  BY TypedParts
<1>1. over \subseteq Items /\ \A i \in Busy : i \in Jobs /\ both(i) \subseteq Items
  BY TouchesTyped DEF Busy
<1>2. /\ job[j].pc = "idle" /\ starts' = starts + 1 /\ faults' = faults
      /\ job' = [i \in Jobs |->
                   IF i = j THEN [r EXCEPT !.shared = over]
                   ELSE IF i \in Busy THEN [job[i] EXCEPT !.shared = @ \cup both(i)]
                   ELSE job[i]]
      /\ dirty' = dirty \cup over \cup S
  BY DEF Start, Dirty
<1> HIDE DEF both, over
<1>3. [r EXCEPT !.shared = over] \in Job /\ Alike(r, [r EXCEPT !.shared = over])
  BY <1>1 DEF Job, Alike
<1>4. ASSUME NEW i \in Jobs
      PROVE  /\ [job[i] EXCEPT !.shared = @ \cup both(i)] \in Job \/ i \notin Busy
             /\ Alike(job[i], [job[i] EXCEPT !.shared = @ \cup both(i)])
  BY <1>0, <1>1 DEF Job, Alike
<1>5. ASSUME NEW i \in Jobs
      PROVE  job'[i] \in Job /\ Alike(IF i = j THEN r ELSE job[i], job'[i])
  <2>1. CASE i = j
    BY <1>2, <1>3, <2>1
  <2>2. CASE i # j /\ i \in Busy
    BY <1>2, <1>4, <2>2
  <2>3. CASE i # j /\ i \notin Busy
    BY <1>0, <1>2, <2>3 DEF Alike
  <2> QED BY <2>1, <2>2, <2>3
<1>6. \A i \in Jobs : Fit(job'[i]) /\ Place(job'[i])
  <2> SUFFICES ASSUME NEW i \in Jobs PROVE Fit(job'[i]) /\ Place(job'[i])
    OBVIOUS
  <2>1. PICK w : w = IF i = j THEN r ELSE job[i]
    OBVIOUS
  <2>2. Fit(w) /\ Place(w) /\ Alike(w, job'[i])
    BY <2>1, <1>0, <1>5
  <2>3. PICK v : v = job'[i]
    OBVIOUS
  <2>4. Alike(w, v)
    BY <2>2, <2>3
  <2>5. Fit(v)
    BY <2>2, <2>4 DEF Alike, Fit
  <2>6. Place(v)
    BY <2>2, <2>4 DEF Alike, Place
  <2> QED BY <2>3, <2>5, <2>6
<1>7. job' \in [Jobs -> Job]
  BY <1>2, <1>5
<1>8. OneMoves(j) /\ Alike(r, job'[j])
  BY <1>5, <1>7 DEF OneMoves
<1>9. starts' \in Nat /\ faults' \in Nat /\ dirty' \subseteq Items
  BY <1>0, <1>1, <1>2
<1> QED BY <1>2, <1>6, <1>8, <1>9

\* Rows stay accounted for when j steps: an event it owed is still owed, or is
\* journalled, or the row is excused or gone; a row that comes is owed by j or
\* excused; a row that goes was refused or is on record as deleted.
LEMMA StillCovered ==
  ASSUME ProvTyped, Covered, NEW j \in Jobs, OneMoves(j),
         journal \subseteq journal', excused \subseteq excused', refused \subseteq refused',
         \A u \in Users : OwesUser(job[j], u) =>
           \/ OwesUser(job[j], u)' \/ <<"created", u>> \in journal'
           \/ u \in excused' \/ row'[u].st # "in",
         \A g \in Groups : OwesGroup(job[j], g) =>
           \/ OwesGroup(job[j], g)' \/ <<"created", g>> \in journal'
           \/ g \in excused' \/ group'[g].st # "in",
         \A u \in Users :
           \/ row'[u].st = row[u].st
           \/ row'[u].st = "in" /\ (OwesUser(job[j], u)' \/ u \in excused')
           \/ row'[u].st = "gone" /\ Removed(u)',
         \A g \in Groups :
           \/ group'[g].st = group[g].st
           \/ group'[g].st = "in" /\ OwesGroup(job[j], g)'
           \/ group'[g].st = "gone" /\ Removed(g)',
         Erasing(job[j])'
  PROVE  Covered'
<1>1. ASSUME NEW i \in Jobs, i # j
      PROVE  /\ \A u \in Users : OwesUser(job[i], u) => OwesUser(job[i], u)'
             /\ \A g \in Groups : OwesGroup(job[i], g) => OwesGroup(job[i], g)'
             /\ Erasing(job[i]) => Erasing(job[i])'
  <2>1. Alike(job[i], job'[i])
    BY <1>1 DEF OneMoves
  <2> QED
    BY <2>1 DEF Alike, OwesUser, OwesGroup, Unsettled, Erasing
<1>2. \A i \in Jobs : Erasing(job[i])'
  BY <1>1 DEF Covered
<1>3. ASSUME NEW u \in Users
      PROVE  UserCovered(u)' /\ (row'[u].st = "gone" => Removed(u)')
  <2>1. Removed(u) => Removed(u)'
    BY DEF Removed
  <2>2. row'[u].st = "gone" => Removed(u)'
    BY <2>1 DEF Covered
  <2>3. UserCovered(u)'
    <3> SUFFICES ASSUME row'[u].st = "in", u \notin excused', <<"created", u>> \notin journal'
                 PROVE  \E i \in Jobs : OwesUser(job[i], u)'
      BY DEF UserCovered
    <3>1. CASE row[u].st = "in"
      <4>1. PICK i \in Jobs : OwesUser(job[i], u)
        BY <3>1 DEF Covered, UserCovered
      <4> QED BY <4>1, <1>1
    <3>2. CASE row[u].st # "in"
      BY <3>2
    <3> QED BY <3>1, <3>2
  <2> QED BY <2>2, <2>3
<1>4. ASSUME NEW g \in Groups
      PROVE  GroupCovered(g)' /\ (group'[g].st = "gone" => Removed(g)')
  <2>1. Removed(g) => Removed(g)'
    BY DEF Removed
  <2>2. group'[g].st = "gone" => Removed(g)'
    BY <2>1 DEF Covered
  <2>3. GroupCovered(g)'
    <3> SUFFICES ASSUME group'[g].st = "in", g \notin excused', <<"created", g>> \notin journal'
                 PROVE  \E i \in Jobs : OwesGroup(job[i], g)'
      BY DEF GroupCovered
    <3>1. CASE group[g].st = "in"
      <4>1. PICK i \in Jobs : OwesGroup(job[i], g)
        BY <3>1 DEF Covered, GroupCovered
      <4> QED BY <4>1, <1>1
    <3>2. CASE group[g].st # "in"
      BY <3>2
    <3> QED BY <3>1, <3>2
  <2> QED BY <2>2, <2>3
<1> QED BY <1>2, <1>3, <1>4 DEF Covered

\* Nobody else becomes the first when rows at most go, and j does not count.
LEMMA StillFirst ==
  ASSUME ProvTyped, First, NEW j \in Jobs, OneMoves(j), boot' = boot,
         job'[j].pc \notin {"count", "promote"},
         \A u \in Users : row'[u].st = row[u].st \/ row'[u].st = "gone"
  PROVE  First'
<1>1. In' \subseteq In
  BY DEF In
<1>2. IsFiniteSet(In')
  BY <1>1, FS_Subset DEF First
<1>3. ASSUME NEW u \in Users, Counted(u)'
      PROVE  Counted(u)
  <2>1. CASE u \in boot
    BY <2>1 DEF Counted
  <2>2. CASE \E i \in Jobs : job'[i].pc = "promote" /\ job'[i].user = u
    BY <2>2 DEF Counted, OneMoves, Alike
  <2> QED BY <1>3, <2>1, <2>2 DEF Counted
<1>4. \A u \in Users : Counted(u)' => row'[u].st # "new"
  BY <1>3 DEF First
<1>5. ASSUME NEW i \in Jobs, job'[i].pc = "count"
      PROVE  row'[job'[i].user].st # "new"
  <2>1. i # j /\ job[i].pc = "count" /\ job'[i].user = job[i].user
    BY <1>5 DEF OneMoves, Alike
  <2>2. job[i].user \in Users
    BY <2>1, TypedParts DEF Place, Fit, OfUser
  <2> QED BY <2>1, <2>2 DEF First
<1>6. \A u, w \in In' : Counted(u)' /\ Counted(w)' => u = w
  <2>1. In \subseteq Users
    BY DEF In
  <2> QED BY <2>1, <1>1, <1>3 DEF First
<1> QED BY <1>2, <1>4, <1>5, <1>6 DEF First

\* A step that neither journals, nor creates or removes a row.
LEMMA QuietStep ==
  ASSUME ProvTyped, Covered, First, NEW j \in Jobs, OneMoves(j), Follows(job'[j], job[j]),
         journal \subseteq journal', excused' = excused, refused' = refused, boot' = boot,
         \A u \in Users : row'[u].st = row[u].st,
         \A g \in Groups : group'[g].st = group[g].st
  PROVE  Covered' /\ First'
<1>1. /\ \A u \in Users : OwesUser(job[j], u) => OwesUser(job[j], u)'
      /\ \A g \in Groups : OwesGroup(job[j], g) => OwesGroup(job[j], g)'
      /\ Erasing(job[j])' /\ job'[j].pc \notin {"count", "promote"}
  BY DEF Follows, OwesUser, OwesGroup, Unsettled, Erasing
<1>2. Covered'
  BY <1>1, StillCovered
<1>3. First'
  BY <1>1, StillFirst
<1> QED BY <1>2, <1>3

-----------------------------------------------------------------------------
(* The statements on the tables, and the calls of the target.              *)

\* Update changes flags only.
LEMMA UpdateTyped ==
  ASSUME ProvTyped, NEW u, NEW a \in BOOLEAN, NEW b \in BOOLEAN, Update(u, a, b)
  PROVE  row' \in [Users -> Row] /\ \A w \in Users : row'[w].st = row[w].st
<1>1. row \in [Users -> Row]
  BY TypedParts
<1>2. CASE u \in In
  <2>1. u \in Users /\ row[u] \in Row
    BY <1>1, <1>2 DEF In
  <2>2. PICK x : x = [row[u] EXCEPT !.active = a, !.admin = b]
    OBVIOUS
  <2>3. x \in Row /\ x.st = row[u].st
    BY <2>1, <2>2 DEF Row
  <2>4. row' = [row EXCEPT ![u] = x]
    BY <1>1, <1>2, <2>1, <2>2 DEF Update, Row
  <2> QED BY <1>1, <2>1, <2>3, <2>4
<1>3. CASE u \notin In
  BY <1>1, <1>3 DEF Update
<1> QED BY <1>2, <1>3

\* DeleteUser removes at most one row, and memberships.
LEMMA DeleteUserTyped ==
  ASSUME ProvTyped, NEW u \in Users, DeleteUser(u)
  PROVE  /\ row' \in [Users -> Row] /\ ext' \in [Users -> Nat] /\ group' \in [Groups -> Group]
         /\ \A w \in Users : row'[w].st = row[w].st \/ (w = u /\ row'[w].st = "gone")
         /\ row'[u].st # "in"
         /\ \A g \in Groups : group'[g].st = group[g].st
<1>1. row \in [Users -> Row] /\ ext \in [Users -> Nat] /\ group \in [Groups -> Group]
  BY TypedParts
<1>2. ext' \in [Users -> Nat]
  BY <1>1 DEF DeleteUser
<1>3. \A g \in Groups : /\ [group[g] EXCEPT !.members = @ \ {u}] \in Group
                        /\ [group[g] EXCEPT !.members = @ \ {u}].st = group[g].st
  BY <1>1 DEF Group
<1>4. group' \in [Groups -> Group] /\ \A g \in Groups : group'[g].st = group[g].st
  BY <1>1, <1>3 DEF DeleteUser
<1>5. CASE u \in In
  <2>1. PICK x : x = [row[u] EXCEPT !.st = "gone"]
    OBVIOUS
  <2>2. x \in Row /\ x.st = "gone"
    BY <1>1, <2>1 DEF Row
  <2>3. row' = [row EXCEPT ![u] = x]
    BY <1>5, <2>1 DEF DeleteUser
  <2> QED BY <1>1, <1>2, <1>4, <2>2, <2>3
<1>6. CASE u \notin In
  <2>1. row' = row /\ row[u].st # "in"
    BY <1>6 DEF DeleteUser, In
  <2> QED BY <1>1, <1>2, <1>4, <2>1
<1> QED BY <1>5, <1>6

\* A change of members.
LEMMA MembersTyped ==
  ASSUME ProvTyped, NEW g \in Groups, NEW S \in SUBSET Users,
         group' = [group EXCEPT ![g].members = S]
  PROVE  group' \in [Groups -> Group] /\ \A h \in Groups : group'[h].st = group[h].st
<1>1. group \in [Groups -> Group]
  BY TypedParts
<1>2. PICK x : x = [group[g] EXCEPT !.members = S]
  OBVIOUS
<1>3. x \in Group /\ x.st = group[g].st
  BY <1>1, <1>2 DEF Group
<1>4. group' = [group EXCEPT ![g] = x]
  BY <1>2
<1> QED BY <1>1, <1>3, <1>4

\* DeleteGroup removes at most one group.
LEMMA DeleteGroupTyped ==
  ASSUME ProvTyped, NEW g \in Groups, DeleteGroup(g)
  PROVE  /\ group' \in [Groups -> Group] /\ group'[g].st # "in"
         /\ \A h \in Groups : group'[h].st = group[h].st \/ (h = g /\ group'[h].st = "gone")
<1>1. group \in [Groups -> Group] /\ [st |-> "gone", members |-> {}] \in Group
  BY TypedParts DEF Group
<1> QED BY <1>1 DEF DeleteGroup

\* The external ids.
LEMMA ExtTyped ==
  ASSUME ProvTyped, NEW u, NEW n \in Nat, SetExternalID(u, n) \/ DeleteExternalID(u)
  PROVE  ext' \in [Users -> Nat]
<1>1. ext \in [Users -> Nat]
  BY TypedParts
<1> QED BY <1>1 DEF SetExternalID, DeleteExternalID

\* Active says yes or no.
LEMMA ActiveTyped ==
  ASSUME NEW r \in Job
  PROVE  Active(r) \in BOOLEAN
BY DEF Active, Job

\* A call leaves users and groups at the target.
LEMMA ApplyTyped ==
  ASSUME ProvTyped, NEW r \in Job,
         r.pc \in {"patch", "setoff", "remove", "post"} => r.who \in Users,
         r.pc \in {"putg", "postg", "deleteg"} => r.group \in Groups
  PROVE  Applied(r)[1] \in [Users -> Record] /\ Applied(r)[2] \in [Groups -> TargetGroup]
<1> DEFINE w == r.who
           v == vault[w]
           hit == v.on /\ v.n = r.vid
           members == {u \in Users : r.refs[u] # 0 /\ vault[u].on /\ vault[u].n = r.refs[u]}
<1>0. vault \in [Users -> Record] /\ vgroup \in [Groups -> TargetGroup]
  BY TypedParts
<1>1. PICK a \in BOOLEAN : a = Active(r)
  BY ActiveTyped
<1>2. CASE r.pc = "patch" /\ hit
  <2>1. Applied(r) = <<[vault EXCEPT ![w].linked = TRUE, ![w].active = a], vgroup>>
    BY <1>1, <1>2 DEF Applied
  <2>2. PICK x : x = [vault[w] EXCEPT !.linked = TRUE, !.active = a]
    OBVIOUS
  <2>3. w \in Users /\ x \in Record
    BY <1>0, <1>2, <2>2 DEF Record
  <2>4. [vault EXCEPT ![w].linked = TRUE, ![w].active = a] = [vault EXCEPT ![w] = x]
    BY <1>0, <2>2, <2>3 DEF Record
  <2> QED BY <1>0, <2>1, <2>3, <2>4
<1>3. CASE r.pc = "setoff" /\ hit
  <2>1. Applied(r) = <<[vault EXCEPT ![w].active = FALSE], vgroup>>
    BY <1>3 DEF Applied
  <2>2. w \in Users /\ [vault[w] EXCEPT !.active = FALSE] \in Record
    BY <1>0, <1>3 DEF Record
  <2> QED BY <1>0, <2>1, <2>2
<1>4. CASE r.pc = "remove" /\ hit
  <2>1. Applied(r) = <<[vault EXCEPT ![w].on = FALSE],
                       [g \in Groups |-> [vgroup[g] EXCEPT !.members = @ \ {w}]]>>
    BY <1>4 DEF Applied
  <2>2. w \in Users /\ [vault[w] EXCEPT !.on = FALSE] \in Record
    BY <1>0, <1>4 DEF Record
  <2>3. \A g \in Groups : [vgroup[g] EXCEPT !.members = @ \ {w}] \in TargetGroup
    BY <1>0 DEF TargetGroup
  <2> QED BY <1>0, <2>1, <2>2, <2>3
<1>5. CASE r.pc = "post" /\ ~v.on
  <2>1. Applied(r) = <<[vault EXCEPT ![w] = [n |-> v.n + 1, on |-> TRUE, linked |-> TRUE,
                                             active |-> a]], vgroup>>
    BY <1>1, <1>5 DEF Applied
  <2>2. w \in Users /\ v.n + 1 \in Nat
    BY <1>0, <1>5 DEF Record
  <2>3. [n |-> v.n + 1, on |-> TRUE, linked |-> TRUE, active |-> a] \in Record
    BY <2>2 DEF Record
  <2> QED BY <1>0, <2>1, <2>2, <2>3
<1>6. CASE (r.pc = "putg" /\ vgroup[r.group].on) \/ r.pc = "postg"
  <2>1. Applied(r) = <<vault, [vgroup EXCEPT ![r.group] = [on |-> TRUE, members |-> members]]>>
    BY <1>6 DEF Applied
  <2>2. r.group \in Groups /\ [on |-> TRUE, members |-> members] \in TargetGroup
    BY <1>6 DEF TargetGroup
  <2> QED BY <1>0, <2>1, <2>2
<1>7. CASE r.pc = "deleteg"
  <2>1. Applied(r) = <<vault, [vgroup EXCEPT ![r.group] = [on |-> FALSE, members |-> {}]]>>
    BY <1>7 DEF Applied
  <2>2. r.group \in Groups /\ [on |-> FALSE, members |-> {}] \in TargetGroup
    BY <1>7 DEF TargetGroup
  <2> QED BY <1>0, <2>1, <2>2
<1>8. CASE /\ ~(r.pc = "patch" /\ hit) /\ ~(r.pc = "setoff" /\ hit) /\ ~(r.pc = "remove" /\ hit)
           /\ ~(r.pc = "post" /\ ~v.on) /\ r.pc # "deleteg"
           /\ ~((r.pc = "putg" /\ vgroup[r.group].on) \/ r.pc = "postg")
  <2>1. Applied(r) = <<vault, vgroup>>
    BY <1>8 DEF Applied
  <2> QED BY <1>0, <2>1
<1> QED BY <1>2, <1>3, <1>4, <1>5, <1>6, <1>7, <1>8

-----------------------------------------------------------------------------
(* The steps.                                                              *)

\* Whether a call fails or not, the counters are numbers.
LEMMA BoundsTyped ==
  ASSUME ProvTyped, Fault \/ NoFault
  PROVE  starts' \in Nat /\ faults' \in Nat
<1>1. starts \in Nat /\ faults \in Nat
  BY TypedParts
<1> QED BY <1>1 DEF Fault, NoFault, bounds

\* A push that is done takes something off dirty, or nothing.
LEMMA PushedTyped ==
  ASSUME ProvTyped, NEW j, NEW x, Pushed(j, x)
  PROVE  dirty' \subseteq Items
BY TypedParts DEF Pushed

\* j goes on to v, and rows neither come nor go.
LEMMA Quiet ==
  ASSUME ProvInv, NEW j \in Jobs, NEW v \in Job, Fit(v), Place(v), Follows(v, job[j]), Set(j, v),
         Fault \/ NoFault, dirty' \subseteq Items,
         row' \in [Users -> Row], \A u \in Users : row'[u].st = row[u].st,
         group' \in [Groups -> Group], \A g \in Groups : group'[g].st = group[g].st,
         ext' \in [Users -> Nat], vault' \in [Users -> Record], vgroup' \in [Groups -> TargetGroup],
         journal \subseteq journal', journal' \subseteq Events, UNCHANGED marks
  PROVE  ProvInv'
<1>1. ProvTyped /\ Covered /\ First
  BY DEF ProvInv
<1>2. OneMoves(j) /\ job'[j] = v /\ \A i \in Jobs : Fit(job'[i]) /\ Place(job'[i])
  BY <1>1, SetMoves
<1>3. boot' = boot /\ excused' = excused /\ refused' = refused
  BY DEF marks
<1>4. boot \subseteq Users /\ excused \subseteq Items /\ refused \subseteq Items
  BY <1>1, TypedParts
<1>5. starts' \in Nat /\ faults' \in Nat
  BY <1>1, BoundsTyped
<1>6. ProvTyped'
  BY <1>2, <1>3, <1>4, <1>5 DEF ProvTyped, ProvTypeOK, OneMoves
<1>7. Follows(job'[j], job[j])
  BY <1>2
<1>8. Covered' /\ First'
  BY <1>1, <1>2, <1>3, <1>7, QuietStep
<1> QED BY <1>6, <1>8 DEF ProvInv

\* The same, when only the job, dirty and the counters change.
LEMMA QuietJob ==
  ASSUME ProvInv, NEW j \in Jobs, NEW v \in Job, Fit(v), Place(v), Follows(v, job[j]), Set(j, v),
         Fault \/ NoFault, dirty' \subseteq Items,
         UNCHANGED <<tables, target, journal, marks>>
  PROVE  ProvInv'
<1>1. /\ row' = row /\ group' = group /\ ext' = ext /\ vault' = vault /\ vgroup' = vgroup
      /\ journal' = journal /\ UNCHANGED marks
  BY DEF tables, target
<1>2. /\ row \in [Users -> Row] /\ group \in [Groups -> Group] /\ ext \in [Users -> Nat]
      /\ vault \in [Users -> Record] /\ vgroup \in [Groups -> TargetGroup] /\ journal \subseteq Events
  BY TypedParts DEF ProvInv
<1> QED BY <1>1, <1>2, Quiet

\* A job at a new label.
LEMMA GoSets ==
  ASSUME ProvInv, NEW j \in Jobs, NEW l \in Pcs, Go(j, l)
  PROVE  \E v \in Job :
           /\ Set(j, v) /\ Fit(v) /\ v.pc = l
           /\ v.kind = job[j].kind /\ v.user = job[j].user /\ v.group = job[j].group
           /\ v.form = job[j].form /\ v.op = job[j].op /\ v.who = job[j].who
<1>1. job \in [Jobs -> Job] /\ job[j] \in Job /\ Fit(job[j])
  BY TypedParts DEF ProvInv
<1>2. PICK v : v = [job[j] EXCEPT !.pc = l]
  OBVIOUS
<1>3. /\ v \in Job /\ v.pc = l
      /\ v.kind = job[j].kind /\ v.user = job[j].user /\ v.group = job[j].group
      /\ v.form = job[j].form /\ v.op = job[j].op /\ v.who = job[j].who
  BY <1>1, <1>2, AtLabel
<1>4. Set(j, v)
  BY <1>2 DEF Go, Set
<1>5. Fit(v)
  BY <1>1, <1>3 DEF Fit
<1> QED BY <1>3, <1>4, <1>5

\* A job that owes nothing may end.
LEMMA EndFollows ==
  ASSUME NEW r, \/ r.kind \notin Creators \cup {"gnew"}
                \/ r.pc \in {"gcreate", "reread"}
  PROVE  Follows(NoJob, r)
<1>1. NoJob.pc = "idle"
  BY DEF NoJob
<1> QED BY <1>1 DEF Follows, OwesUser, OwesGroup, Unsettled, GroupCalls, UserCalls

\* What every step of a job starts from.
LEMMA AtWork ==
  ASSUME ProvInv, NEW j \in Jobs
  PROVE  /\ ProvTyped /\ job[j] \in Job /\ Fit(job[j]) /\ Place(job[j])
         /\ dirty \subseteq Items
BY TypedParts DEF ProvInv

\* A user form sets active and is_admin of the user it created.
SetFlags(j) == SetActive(j) \/ SetNewAdmin(j)

\* SetActive and SetNewAdmin.
LEMMA SetFlagsKeeps ==
  ASSUME ProvInv, NEW j \in Jobs, SetFlags(j)
  PROVE  ProvInv'
<1> DEFINE r == job[j]
<1>1. ProvTyped /\ r \in Job /\ Fit(r) /\ Place(r) /\ dirty \subseteq Items
  BY AtWork
<1>2. r.kind = "new" /\ r.form \in Forms /\ r.pc \in {"flags", "isadmin"}
  BY <1>1 DEF SetFlags, SetActive, SetNewAdmin, Place, Fit, OfForm
<1>3. r.form.active \in BOOLEAN /\ r.form.admin \in BOOLEAN
  BY <1>2, ProvAssumption
<1>4. /\ row' \in [Users -> Row] /\ \A u \in Users : row'[u].st = row[u].st
      /\ Fault \/ NoFault
  <2>1. row \in [Users -> Row] /\ (Fault \/ NoFault)
    BY <1>1, TypedParts DEF SetFlags, SetActive, SetNewAdmin
  <2>2. CASE UNCHANGED row
    BY <2>1, <2>2
  <2>3. CASE ~UNCHANGED row
    <3>1. PICK a, b : Update(r.user, a, b) /\ (row[r.user] \in Row => a \in BOOLEAN /\ b \in BOOLEAN)
      BY <1>3, <2>3 DEF SetFlags, SetActive, SetNewAdmin, Row
    <3>2. r.user \in Users
      BY <2>3, <3>1 DEF Update, In
    <3> QED BY <1>1, <2>1, <3>1, <3>2, UpdateTyped
  <2> QED BY <2>1, <2>2, <2>3
<1>5. PICK v \in Job : /\ Set(j, v) /\ Fit(v) /\ v.pc \in {"isadmin", "glist"}
                       /\ v.kind = r.kind /\ v.user = r.user
  <2>1. PICK l \in {"isadmin", "glist"} : Go(j, l)
    BY DEF SetFlags, SetActive, SetNewAdmin
  <2>2. l \in Pcs
    BY <2>1 DEF Pcs
  <2> QED BY <2>1, <2>2, GoSets
<1>6. Place(v)
  BY <1>2, <1>5, ProvAssumption DEF Place, UserCalls, GroupCalls, AllKinds
<1>7. Follows(v, r)
  BY <1>2, <1>5 DEF Follows, OwesUser, OwesGroup, Unsettled
<1>8. /\ group' = group /\ ext' = ext /\ vault' = vault /\ vgroup' = vgroup
      /\ journal' = journal /\ dirty' = dirty /\ UNCHANGED marks
  BY DEF SetFlags, SetActive, SetNewAdmin, target
<1>9. /\ group \in [Groups -> Group] /\ ext \in [Users -> Nat]
      /\ vault \in [Users -> Record] /\ vgroup \in [Groups -> TargetGroup] /\ journal \subseteq Events
  BY <1>1, TypedParts
<1> QED BY <1>1, <1>4, <1>5, <1>6, <1>7, <1>8, <1>9, Quiet

\* DeleteUnread.
LEMMA DeleteUnreadKeeps ==
  ASSUME ProvInv, NEW j \in Jobs, DeleteUnread(j)
  PROVE  ProvInv'
<1> DEFINE r == job[j]
<1>1. ProvTyped /\ r \in Job /\ Fit(r) /\ Place(r) /\ dirty \subseteq Items
  BY AtWork
<1>2. r.kind = "delete" /\ r.pc = "audit" /\ r.user \in Users
  BY <1>1 DEF DeleteUnread, Fit, OfUser
<1>3. PICK v : v = [r EXCEPT !.todo = {}]
  OBVIOUS
<1>4. v \in Job /\ Alike(r, v)
  BY <1>1, <1>3 DEF Job, Alike
<1>5. Fit(v) /\ Place(v)
  BY <1>1, <1>4 DEF Alike, Fit, Place
<1>6. Follows(v, r)
  BY <1>2, <1>4 DEF Alike, Follows, OwesUser, OwesGroup, Creators
<1>7. Set(j, v) /\ Fault /\ UNCHANGED <<tables, target, journal, marks>>
  BY <1>3 DEF DeleteUnread, Set
<1>8. dirty' \subseteq Items
  BY <1>1, <1>2 DEF DeleteUnread, Dirty, Items
<1> QED BY <1>4, <1>5, <1>6, <1>7, <1>8, QuietJob

\* UpdateGroup.
LEMMA UpdateGroupKeeps ==
  ASSUME ProvInv, NEW j \in Jobs, UpdateGroup(j)
  PROVE  ProvInv'
<1> DEFINE r == job[j]
<1>1. ProvTyped /\ r \in Job /\ Fit(r) /\ Place(r) /\ dirty \subseteq Items
  BY AtWork
<1>2. r.kind = "gedit" /\ UNCHANGED <<tables, target, journal, marks>> /\ dirty' = dirty
  BY <1>1 DEF UpdateGroup, Place
<1>3. CASE Go(j, "gmembers") /\ NoFault
  <2>1. "gmembers" \in Pcs
    BY DEF Pcs
  <2>2. PICK v \in Job : Set(j, v) /\ Fit(v) /\ v.pc = "gmembers" /\ v.kind = r.kind
    BY <1>3, <2>1, GoSets
  <2>3. Place(v)
    BY <1>2, <2>2, ProvAssumption DEF Place, UserCalls, GroupCalls, AllKinds
  <2>4. Follows(v, r)
    BY <1>2, <2>2 DEF Follows, OwesUser, OwesGroup, Creators
  <2> QED BY <1>1, <1>2, <1>3, <2>2, <2>3, <2>4, QuietJob
<1>4. CASE End(j) /\ Fault
  <2>1. Follows(NoJob, r)
    BY <1>2, EndFollows DEF Creators
  <2> QED BY <1>1, <1>2, <1>4, <2>1, IdleOK, QuietJob DEF End
<1> QED BY <1>3, <1>4 DEF UpdateGroup

\* StoreMembers.
LEMMA StoreMembersKeeps ==
  ASSUME ProvInv, NEW j \in Jobs, StoreMembers(j)
  PROVE  ProvInv'
<1> DEFINE r == job[j]
<1>1. ProvTyped /\ r \in Job /\ Fit(r) /\ Place(r) /\ dirty \subseteq Items
  BY AtWork
<1>2. r.pc = "gmembers" /\ r.kind \in {"gnew", "gedit"} /\ r.group \in Groups /\ r.want \in SUBSET Users
  BY <1>1 DEF StoreMembers, Place, Fit, OfGroup, Job
<1>3. /\ row' = row /\ ext' = ext /\ vault' = vault /\ vgroup' = vgroup
      /\ journal' = journal /\ UNCHANGED marks
  BY DEF StoreMembers, target
<1>4. /\ row \in [Users -> Row] /\ group \in [Groups -> Group] /\ ext \in [Users -> Nat]
      /\ vault \in [Users -> Record] /\ vgroup \in [Groups -> TargetGroup] /\ journal \subseteq Events
  BY <1>1, TypedParts
<1>5. ASSUME NEW v \in Job, v.pc = "audit", v.kind = r.kind, v.group = r.group, Fit(v)
      PROVE  Place(v) /\ Follows(v, r)
  <2>1. Place(v)
    BY <1>2, <1>5, ProvAssumption DEF Place, UserCalls, GroupCalls, AllKinds
  <2>2. Follows(v, r)
    BY <1>2, <1>5 DEF Follows, OwesUser, OwesGroup, Creators
  <2> QED BY <2>1, <2>2
<1>6. CASE ReplaceGroupMembers(r.group, r.want) /\ NoFault /\ UNCHANGED dirty /\ Go(j, "audit")
  <2>1. "audit" \in Pcs
    BY DEF Pcs
  <2>2. PICK v \in Job : Set(j, v) /\ Fit(v) /\ v.pc = "audit" /\ v.kind = r.kind /\ v.group = r.group
    BY <1>6, <2>1, GoSets
  <2>3. group' \in [Groups -> Group] /\ \A h \in Groups : group'[h].st = group[h].st
    BY <1>1, <1>2, <1>6, MembersTyped DEF ReplaceGroupMembers
  <2>4. Place(v) /\ Follows(v, r)
    BY <1>5, <2>2
  <2> QED BY <1>1, <1>3, <1>4, <1>6, <2>2, <2>3, <2>4, Quiet
<1>7. CASE /\ UNCHANGED group /\ Dirty({r.group})
           /\ IF Replaceable(r.group, r.want) THEN Fault ELSE NoFault
           /\ Set(j, [r EXCEPT !.pc = "audit", !.shared = @ \cup {r.group}])
  <2>1. PICK v : v = [r EXCEPT !.pc = "audit", !.shared = @ \cup {r.group}]
    OBVIOUS
  <2>2. v \in Job /\ v.pc = "audit" /\ v.kind = r.kind /\ v.group = r.group /\ v.user = r.user
        /\ v.form = r.form
    BY <1>1, <1>2, <2>1, ZenonT(60) DEF Job, Pcs, Items
  <2>3. Fit(v)
    BY <1>1, <2>2 DEF Fit
  <2>4. Place(v) /\ Follows(v, r)
    BY <1>5, <2>2, <2>3
  <2>5. dirty' \subseteq Items
    BY <1>1, <1>2, <1>7 DEF Dirty, Items
  <2>6. Set(j, v) /\ (Fault \/ NoFault)
    BY <1>7, <2>1
  <2> QED BY <1>3, <1>4, <1>7, <2>2, <2>3, <2>4, <2>5, <2>6, Quiet
<1> QED BY <1>6, <1>7 DEF StoreMembers

\* Follows looks at a few fields only.
LEMMA FollowsFrom ==
  ASSUME NEW v, NEW x, NEW r, Follows(v, x),
         x.pc = r.pc, x.kind = r.kind, x.user = r.user, x.group = r.group, x.op = r.op
  PROVE  Follows(v, r)
BY DEF Follows, OwesUser, OwesGroup, Unsettled

\* A user form stays with its user.
LEMMA RegroupedFollows ==
  ASSUME NEW r \in Job, Fit(r), r.kind \in {"new", "edit"}
  PROVE  Follows(Regrouped(r), r)
<1>1. PICK v : v = Regrouped(r)
  OBVIOUS
<1>2. /\ v.kind = r.kind /\ v.user = r.user
      /\ v.pc \in {"gwrite", "audit", "reread"} /\ (r.kind = "new" => v.pc # "reread")
  BY <1>1, RegroupedOK
<1>3. Follows(v, r)
  BY <1>2 DEF Follows, OwesUser, OwesGroup, Unsettled, Creators
<1> QED BY <1>1, <1>3

\* An event is about the user or the group of the job.
LEMMA EventTyped ==
  ASSUME NEW r \in Job, Fit(r), Place(r), r.pc = "audit"
  PROVE  Event(r) \in Events
<1>1. r.kind \in (OfUser \ {"cli"}) \cup OfGroup
  BY ProvAssumption DEF Place, Job, AllKinds, OfUser, OfGroup
<1>2. CASE r.kind \in OfUser \ {"cli"}
  BY <1>2 DEF Event, Events, Items, Fit, OfUser
<1>3. CASE r.kind \in OfGroup
  BY <1>3 DEF Event, Events, Items, Fit, OfGroup
<1> QED BY <1>1, <1>2, <1>3

\* AuditFails.
LEMMA AuditFailsKeeps ==
  ASSUME ProvInv, NEW j \in Jobs, AuditFails(j)
  PROVE  ProvInv'
<1> DEFINE r == job[j]
<1>1. ProvTyped /\ r \in Job /\ Fit(r) /\ Place(r) /\ dirty \subseteq Items
  BY AtWork
<1>2. r.pc = "audit" /\ Fault /\ UNCHANGED <<tables, target, marks>>
  BY DEF AuditFails
<1>3. /\ row' = row /\ group' = group /\ ext' = ext /\ vault' = vault /\ vgroup' = vgroup
      /\ UNCHANGED marks
  BY <1>2 DEF tables, target
<1>4. /\ row \in [Users -> Row] /\ group \in [Groups -> Group] /\ ext \in [Users -> Nat]
      /\ vault \in [Users -> Record] /\ vgroup \in [Groups -> TargetGroup] /\ journal \subseteq Events
  BY <1>1, TypedParts
<1>5. journal \subseteq journal' /\ journal' \subseteq Events
  BY <1>1, <1>2, <1>4, EventTyped DEF AuditFails
<1>6. dirty' \subseteq Items
  BY <1>1 DEF AuditFails, Dirty, Fit, OfGroup, Items
<1>7. CASE r.kind \in {"create", "register", "new", "gnew"}
  <2>1. "undo" \in Pcs /\ Go(j, "undo")
    BY <1>7 DEF Pcs, AuditFails
  <2>2. PICK v \in Job : /\ Set(j, v) /\ Fit(v) /\ v.pc = "undo"
                         /\ v.kind = r.kind /\ v.user = r.user /\ v.group = r.group
    BY <2>1, GoSets
  <2>3. Place(v)
    BY <1>7, <2>2, ProvAssumption DEF Place, UserCalls, GroupCalls, AllKinds, Creators
  <2>4. Follows(v, r)
    BY <2>2 DEF Follows, OwesUser, OwesGroup, Unsettled
  <2> QED BY <1>2, <1>3, <1>4, <1>5, <1>6, <2>2, <2>3, <2>4, Quiet
<1>8. CASE r.kind \notin {"create", "register", "new", "gnew"}
  <2>1. Follows(NoJob, r) /\ Set(j, NoJob)
    BY <1>8, EndFollows DEF Creators, AuditFails, End
  <2> QED BY <1>2, <1>3, <1>4, <1>5, <1>6, <2>1, IdleOK, Quiet
<1> QED BY <1>7, <1>8

\* Write.
LEMMA WriteKeeps ==
  ASSUME ProvInv, NEW j \in Jobs, Write(j)
  PROVE  ProvInv'
<1> DEFINE r == job[j]
<1>1. ProvTyped /\ r \in Job /\ Fit(r) /\ Place(r) /\ dirty \subseteq Items
  BY AtWork
<1>2. r.kind \in {"update", "edit"} /\ r.form \in Forms /\ r.user \in Users
  BY <1>1 DEF Write, Place, Fit, OfForm, OfUser
<1>3. /\ group' = group /\ ext' = ext /\ vault' = vault /\ vgroup' = vgroup
      /\ journal' = journal /\ dirty' = dirty /\ UNCHANGED marks
  BY DEF Write, target
<1>4. /\ row \in [Users -> Row] /\ group \in [Groups -> Group] /\ ext \in [Users -> Nat]
      /\ vault \in [Users -> Record] /\ vgroup \in [Groups -> TargetGroup] /\ journal \subseteq Events
  BY <1>1, TypedParts
<1>5. ASSUME Update(r.user, r.form.active, row[r.user].admin),
             Go(j, IF r.kind = "edit" THEN "admin" ELSE "reread"), NoFault
      PROVE  ProvInv'
  <2>1. r.form.active \in BOOLEAN /\ row[r.user].admin \in BOOLEAN
    BY <1>2, <1>4, ProvAssumption DEF Row
  <2>2. row' \in [Users -> Row] /\ \A u \in Users : row'[u].st = row[u].st
    BY <1>1, <1>5, <2>1, UpdateTyped
  <2>3. PICK l : l = IF r.kind = "edit" THEN "admin" ELSE "reread"
    OBVIOUS
  <2>4. l \in Pcs /\ Go(j, l)
    BY <1>5, <2>3 DEF Pcs
  <2>5. PICK v \in Job : Set(j, v) /\ Fit(v) /\ v.pc = l /\ v.kind = r.kind
    BY <2>4, GoSets
  <2>6. Place(v)
    BY <1>2, <2>3, <2>5, ProvAssumption DEF Place, UserCalls, GroupCalls, AllKinds
  <2>7. Follows(v, r)
    BY <1>2, <2>3, <2>5 DEF Follows, OwesUser, OwesGroup, Creators
  <2> QED BY <1>1, <1>3, <1>4, <1>5, <2>2, <2>5, <2>6, <2>7, Quiet
<1>6. ASSUME UNCHANGED row, End(j), Fault
      PROVE  ProvInv'
  <2>1. Follows(NoJob, r) /\ Set(j, NoJob)
    BY <1>2, <1>6, EndFollows DEF Creators, End
  <2> QED BY <1>1, <1>3, <1>4, <1>6, <2>1, IdleOK, Quiet
<1> QED BY <1>5, <1>6 DEF Write

\* SetAdmin.
LEMMA SetAdminKeeps ==
  ASSUME ProvInv, NEW j \in Jobs, SetAdmin(j)
  PROVE  ProvInv'
<1> DEFINE r == job[j]
<1>1. ProvTyped /\ r \in Job /\ Fit(r) /\ Place(r) /\ dirty \subseteq Items
  BY AtWork
<1>2. r.kind \in {"cli", "edit"} /\ r.form \in Forms /\ r.user \in Users
  BY <1>1 DEF SetAdmin, Place, Fit, OfForm, OfUser
<1>3. /\ group' = group /\ ext' = ext /\ vault' = vault /\ vgroup' = vgroup
      /\ journal' = journal /\ UNCHANGED marks
  BY DEF SetAdmin, target
<1>4. /\ row \in [Users -> Row] /\ group \in [Groups -> Group] /\ ext \in [Users -> Nat]
      /\ vault \in [Users -> Record] /\ vgroup \in [Groups -> TargetGroup] /\ journal \subseteq Events
  BY <1>1, TypedParts
<1>5. Follows(NoJob, r)
  BY <1>2, EndFollows DEF Creators
<1>6. PICK b : b = IF r.kind = "cli" THEN r.form.admin \/ row[r.user].admin ELSE r.form.admin
  OBVIOUS
<1>7. row[r.user].active \in BOOLEAN /\ b \in BOOLEAN
  BY <1>2, <1>4, <1>6, ProvAssumption DEF Row
<1>8. ASSUME Update(r.user, row[r.user].active, b),
             IF r.kind = "cli" THEN End(j) ELSE Go(j, "glist"), NoFault, UNCHANGED dirty
      PROVE  ProvInv'
  <2>1. row' \in [Users -> Row] /\ \A u \in Users : row'[u].st = row[u].st
    BY <1>1, <1>7, <1>8, UpdateTyped
  <2>2. CASE r.kind = "cli"
    BY <1>1, <1>3, <1>4, <1>5, <1>8, <2>1, <2>2, IdleOK, Quiet DEF End
  <2>3. CASE r.kind = "edit"
    <3>1. "glist" \in Pcs /\ Go(j, "glist")
      BY <1>8, <2>3 DEF Pcs
    <3>2. PICK v \in Job : Set(j, v) /\ Fit(v) /\ v.pc = "glist" /\ v.kind = r.kind
      BY <3>1, GoSets
    <3>3. Place(v)
      BY <2>3, <3>2, ProvAssumption DEF Place, UserCalls, GroupCalls, AllKinds
    <3>4. Follows(v, r)
      BY <2>3, <3>2 DEF Follows, OwesUser, OwesGroup, Creators
    <3> QED BY <1>1, <1>3, <1>4, <1>8, <2>1, <3>2, <3>3, <3>4, Quiet
  <2> QED BY <1>2, <2>2, <2>3
<1>9. ASSUME UNCHANGED row, End(j), Fault, Dirty({r.user})
      PROVE  ProvInv'
  <2>1. dirty' \subseteq Items
    BY <1>1, <1>2, <1>9 DEF Dirty, Items
  <2> QED BY <1>3, <1>4, <1>5, <1>9, <2>1, IdleOK, Quiet DEF End
<1> QED BY <1>6, <1>8, <1>9 DEF SetAdmin

\* ListGroups.
LEMMA ListGroupsKeeps ==
  ASSUME ProvInv, NEW j \in Jobs, ListGroups(j)
  PROVE  ProvInv'
<1> DEFINE r == job[j]
           in == {g \in Groups : group[g].st = "in"}
           read == [r EXCEPT !.glist = [g \in Groups |-> group[g].members]]
           changed == {g \in in : (r.user \in group[g].members) # (g \in r.form.groups)}
           listed == [read EXCEPT !.groups = changed, !.list = ListUsers]
<1>1. ProvTyped /\ r \in Job /\ Fit(r) /\ Place(r) /\ dirty \subseteq Items
  BY AtWork
<1>2. r.pc = "glist" /\ r.kind \in {"new", "edit", "sync"}
  BY <1>1 DEF ListGroups, Place
<1>3. UNCHANGED <<tables, target, journal, marks>> /\ dirty' = dirty
  BY DEF ListGroups
<1>4. [g \in Groups |-> group[g].members] \in [Groups -> SUBSET Users]
  BY <1>1, TypedParts DEF Group
<1>5. ListUsers \in Snapshot /\ Nobody \in Snapshot
  BY DEF ListUsers, Nobody, Snapshot
<1>6. in \in SUBSET Groups /\ changed \in SUBSET Groups
  OBVIOUS
<1> HIDE DEF in, changed
<1>7. read \in Job /\ Alike(r, read)
  BY <1>1, <1>4 DEF Job, Alike
<1> HIDE DEF read
<1>8. [read EXCEPT !.groups = in] \in Job /\ Alike(r, [read EXCEPT !.groups = in])
  BY <1>6, <1>7 DEF Job, Alike
<1>9. listed \in Job /\ Alike(r, listed)
  BY <1>5, <1>6, <1>7 DEF Job, Alike
<1> HIDE DEF listed
<1>10. [listed EXCEPT !.list = Nobody] \in Job /\ Alike(r, [listed EXCEPT !.list = Nobody])
  BY <1>5, <1>9 DEF Job, Alike
<1>11. ASSUME NEW x \in Job, Alike(r, x), r.kind = "sync", Set(j, AfterGroup(x)), NoFault
       PROVE  ProvInv'
  <2>1. Fit(x) /\ x.kind = "sync" /\ x.pc = "glist"
    BY <1>1, <1>2, <1>11 DEF Alike, Fit
  <2>2. PICK v : v = AfterGroup(x)
    OBVIOUS
  <2>3. v \in Job /\ Fit(v) /\ Place(v) /\ Follows(v, x)
    BY <2>1, <2>2, AfterGroupOK DEF ToGroups
  <2>4. Follows(v, r)
    BY <1>11, <2>3, FollowsFrom DEF Alike
  <2> QED BY <1>1, <1>3, <1>11, <2>2, <2>3, <2>4, QuietJob
<1>12. ASSUME NEW x \in Job, Alike(r, x), r.kind # "sync", Set(j, Regrouped(x)), Fault \/ NoFault
       PROVE  ProvInv'
  <2>1. Fit(x) /\ x.kind \in {"new", "edit"}
    BY <1>1, <1>2, <1>12 DEF Alike, Fit
  <2>2. PICK v : v = Regrouped(x)
    OBVIOUS
  <2>3. v \in Job /\ Fit(v) /\ Place(v) /\ Follows(v, x)
    BY <2>1, <2>2, RegroupedOK, RegroupedFollows
  <2>4. Follows(v, r)
    BY <1>12, <2>3, FollowsFrom DEF Alike
  <2> QED BY <1>1, <1>3, <1>12, <2>2, <2>3, <2>4, QuietJob
<1>13. ASSUME r.kind = "sync", End(j), Fault
       PROVE  ProvInv'
  <2>1. Follows(NoJob, r)
    BY <1>13, EndFollows DEF Creators
  <2> QED BY <1>1, <1>3, <1>13, <2>1, IdleOK, QuietJob DEF End
<1>14. Alike(r, r)
  BY DEF Alike
<1>15. IF r.kind = "sync"
       THEN \/ Set(j, AfterGroup([read EXCEPT !.groups = in])) /\ NoFault
            \/ End(j) /\ Fault
       ELSE \/ Set(j, Regrouped(listed)) /\ NoFault
            \/ Set(j, Regrouped([listed EXCEPT !.list = Nobody])) /\ Fault
            \/ Set(j, Regrouped(r)) /\ Fault
  BY DEF ListGroups, in, changed, read, listed
<1> QED BY <1>1, <1>8, <1>9, <1>10, <1>11, <1>12, <1>13, <1>14, <1>15

\* ChangeMember.
LEMMA ChangeMemberKeeps ==
  ASSUME ProvInv, NEW j \in Jobs, ChangeMember(j)
  PROVE  ProvInv'
<1> DEFINE r == job[j]
           add(g) == g \in r.form.groups
           able(g) == add(g) => r.user \in In /\ group[g].st = "in"
<1>1. ProvTyped /\ r \in Job /\ Fit(r) /\ Place(r) /\ dirty \subseteq Items
  BY AtWork
<1>2. r.pc = "gwrite" /\ r.kind \in {"new", "edit"} /\ r.user \in Users /\ r.groups \subseteq Groups
  BY <1>1 DEF ChangeMember, Place, Fit, OfUser, Job
<1>3. /\ row' = row /\ ext' = ext /\ vault' = vault /\ vgroup' = vgroup
      /\ journal' = journal /\ dirty' = dirty /\ UNCHANGED marks
  BY DEF ChangeMember, target
<1>4. /\ row \in [Users -> Row] /\ group \in [Groups -> Group] /\ ext \in [Users -> Nat]
      /\ vault \in [Users -> Record] /\ vgroup \in [Groups -> TargetGroup] /\ journal \subseteq Events
  BY <1>1, TypedParts
<1>5. PICK g \in r.groups :
        \/ /\ group' = [group EXCEPT ![g].members =
                          IF add(g) THEN @ \cup {r.user} ELSE @ \ {r.user}]
           /\ Set(j, [r EXCEPT !.pc = "gread", !.group = g]) /\ NoFault
        \/ /\ UNCHANGED group
           /\ Set(j, Regrouped([r EXCEPT !.groups = @ \ {g}]))
           /\ IF able(g) THEN Fault ELSE NoFault
  BY DEF ChangeMember
<1>6. g \in Groups
  BY <1>2
<1> HIDE DEF able
<1>7. ASSUME group' = [group EXCEPT ![g].members =
                         IF add(g) THEN @ \cup {r.user} ELSE @ \ {r.user}],
             Set(j, [r EXCEPT !.pc = "gread", !.group = g]), NoFault
      PROVE  ProvInv'
  <2>1. PICK S : S = IF add(g) THEN group[g].members \cup {r.user} ELSE group[g].members \ {r.user}
    OBVIOUS
  <2>2. S \in SUBSET Users /\ group' = [group EXCEPT ![g].members = S]
    BY <1>2, <1>4, <1>6, <1>7, <2>1 DEF Group
  <2>3. group' \in [Groups -> Group] /\ \A h \in Groups : group'[h].st = group[h].st
    BY <1>1, <1>6, <2>2, MembersTyped
  <2>4. PICK v : v = [r EXCEPT !.pc = "gread", !.group = g]
    OBVIOUS
  <2>5. /\ v \in Job /\ v.pc = "gread" /\ v.group = g
        /\ v.kind = r.kind /\ v.user = r.user /\ v.form = r.form
    BY <1>1, <1>6, <2>4, ZenonT(60) DEF Job, Pcs
  <2>6. Fit(v)
    BY <1>1, <1>2, <2>5 DEF Fit, OfGroup
  <2>7. Place(v)
    BY <1>2, <1>6, <2>5, ProvAssumption DEF Place, UserCalls, GroupCalls, AllKinds
  <2>8. Follows(v, r)
    BY <1>2, <2>5 DEF Follows, OwesUser, OwesGroup, Unsettled
  <2> QED BY <1>1, <1>3, <1>4, <1>7, <2>3, <2>4, <2>5, <2>6, <2>7, <2>8, Quiet
<1>8. ASSUME UNCHANGED group, Set(j, Regrouped([r EXCEPT !.groups = @ \ {g}])), Fault \/ NoFault
      PROVE  ProvInv'
  <2>1. PICK x : x = [r EXCEPT !.groups = @ \ {g}]
    OBVIOUS
  <2>2. x \in Job /\ Alike(r, x)
    BY <1>1, <2>1 DEF Job, Alike
  <2>3. Fit(x) /\ x.kind \in {"new", "edit"}
    BY <1>1, <1>2, <2>2 DEF Alike, Fit
  <2>4. PICK v : v = Regrouped(x)
    OBVIOUS
  <2>5. v \in Job /\ Fit(v) /\ Place(v) /\ Follows(v, x)
    BY <2>2, <2>3, <2>4, RegroupedOK, RegroupedFollows
  <2>6. Follows(v, r)
    BY <2>2, <2>5, FollowsFrom DEF Alike
  <2> QED BY <1>1, <1>3, <1>4, <1>8, <2>1, <2>4, <2>5, <2>6, Quiet
<1> QED BY <1>5, <1>7, <1>8

\* ReadGroup.
LEMMA ReadGroupKeeps ==
  ASSUME ProvInv, NEW j \in Jobs, ReadGroup(j)
  PROVE  ProvInv'
<1> DEFINE r == job[j]
<1>1. ProvTyped /\ r \in Job /\ Fit(r) /\ Place(r) /\ dirty \subseteq Items
  BY AtWork
<1>2. r.pc = "gread" /\ r.kind \in {"new", "edit"} /\ r.group \in Groups
  BY <1>1 DEF ReadGroup, Place
<1>3. UNCHANGED <<tables, target, journal, marks>>
  BY DEF ReadGroup
<1>4. dirty' \subseteq Items
  BY <1>1, <1>2 DEF ReadGroup, Dirty, Items
<1>5. Fault \/ NoFault
  BY DEF ReadGroup
<1>6. ASSUME Set(j, PushGroup(r, r.group, group[r.group].members))
      PROVE  ProvInv'
  <2>1. group[r.group].members \in SUBSET Users
    BY <1>1, <1>2, TypedParts DEF Group
  <2>2. PICK v : v = PushGroup(r, r.group, group[r.group].members)
    OBVIOUS
  <2>3. /\ v \in Job /\ Fit(v) /\ Place(v) /\ v.kind = r.kind /\ v.user = r.user
        /\ v.pc \in {"push", "putg"} /\ v.op = "member"
    BY <1>1, <1>2, <2>1, <2>2, PushGroupOK DEF ToGroups
  <2>4. Follows(v, r)
    BY <1>2, <2>3 DEF Follows, OwesUser, OwesGroup, Unsettled, GroupCalls
  <2> QED BY <1>3, <1>4, <1>5, <1>6, <2>2, <2>3, <2>4, QuietJob
<1>7. ASSUME Set(j, Regrouped([r EXCEPT !.groups = @ \ {r.group}]))
      PROVE  ProvInv'
  <2>1. PICK x : x = [r EXCEPT !.groups = @ \ {r.group}]
    OBVIOUS
  <2>2. x \in Job /\ Alike(r, x)
    BY <1>1, <2>1 DEF Job, Alike
  <2>3. Fit(x) /\ x.kind \in {"new", "edit"}
    BY <1>1, <1>2, <2>2 DEF Alike, Fit
  <2>4. PICK v : v = Regrouped(x)
    OBVIOUS
  <2>5. v \in Job /\ Fit(v) /\ Place(v) /\ Follows(v, x)
    BY <2>2, <2>3, <2>4, RegroupedOK, RegroupedFollows
  <2>6. Follows(v, r)
    BY <2>2, <2>5, FollowsFrom DEF Alike
  <2> QED BY <1>3, <1>4, <1>5, <1>7, <2>1, <2>4, <2>5, <2>6, QuietJob
<1> QED BY <1>6, <1>7 DEF ReadGroup

\* Reread.
LEMMA RereadKeeps ==
  ASSUME ProvInv, NEW j \in Jobs, Reread(j)
  PROVE  ProvInv'
<1> DEFINE r == job[j]
<1>1. ProvTyped /\ r \in Job /\ Fit(r) /\ Place(r) /\ dirty \subseteq Items
  BY AtWork
<1>2. r.pc = "reread" /\ r.kind \in {"new", "update", "edit"} /\ r.user \in Users
  BY <1>1 DEF Reread, Place, Fit, OfUser
<1>3. UNCHANGED <<tables, target, journal, marks>> /\ (Fault \/ NoFault)
  BY DEF Reread
<1>4. dirty' \subseteq Items
  BY <1>1, <1>2 DEF Reread, Dirty, Items
<1>5. PICK op \in Ops \ {"member"} : op = IF r.kind # "new" /\ ~r.form.active THEN "deactivate" ELSE "upsert"
  BY DEF Ops
<1>6. ASSUME Set(j, PushUser(r, op, row[r.user].active))
      PROVE  ProvInv'
  <2>1. row[r.user].active \in BOOLEAN
    BY <1>1, <1>2, TypedParts DEF Row
  <2>2. PICK v : v = PushUser(r, op, row[r.user].active)
    OBVIOUS
  <2>3. v \in Job /\ Fit(v) /\ Place(v) /\ v.kind = r.kind /\ v.pc = "push"
    BY <1>1, <1>2, <2>1, <2>2, PushUserOK DEF ToUsers
  <2>4. Follows(v, r)
    BY <1>2, <2>3 DEF Follows, OwesUser, OwesGroup, Unsettled, GroupCalls, UserCalls
  <2> QED BY <1>3, <1>4, <1>6, <2>2, <2>3, <2>4, QuietJob
<1>7. ASSUME End(j)
      PROVE  ProvInv'
  <2>1. Follows(NoJob, r)
    BY <1>2, EndFollows
  <2> QED BY <1>3, <1>4, <1>7, <2>1, IdleOK, QuietJob DEF End
<1> QED BY <1>5, <1>6, <1>7 DEF Reread

-----------------------------------------------------------------------------
(* The SCIM client's steps.                                                *)

\* A job at work for a user goes on to another call for one.
LEMMA CallOK ==
  ASSUME NEW r \in Job, Fit(r), Place(r), r.pc \in {"push"} \cup UserCalls,
         NEW v \in Job, v.pc \in UserCalls, v.who \in Users,
         v.kind = r.kind, v.user = r.user, v.group = r.group, v.form = r.form, v.op = r.op
  PROVE  Fit(v) /\ Place(v) /\ Follows(v, r)
<1>1. Fit(v)
  BY DEF Fit
<1>2. IF r.op = "member" THEN r.kind \in ToGroups /\ r.group \in Groups ELSE r.kind \in ToUsers
  BY DEF Place
<1>3. Place(v)
  BY <1>2, ProvAssumption DEF Place, UserCalls, GroupCalls, ToUsers, ToGroups, AllKinds
<1>4. Follows(v, r)
  BY DEF Follows, OwesUser, OwesGroup, Unsettled, UserCalls, GroupCalls
<1> QED BY <1>1, <1>3, <1>4

\* A job at work for a user is done with it; x is what it remembers of that.
LEMMA DoneOK ==
  ASSUME NEW r \in Job, Fit(r), Place(r), r.pc \in {"push"} \cup UserCalls,
         NEW x \in Job,
         x.pc = r.pc, x.kind = r.kind, x.user = r.user, x.group = r.group, x.form = r.form,
         x.op = r.op
  PROVE  LET v == After(x) IN v \in Job /\ Fit(v) /\ Place(v) /\ Follows(v, r)
<1>1. IF x.op = "member" THEN x.kind \in ToGroups /\ x.group \in Groups ELSE x.kind \in ToUsers
  BY DEF Place
<1>2. Fit(x)
  BY DEF Fit
<1>3. PICK v : v = After(x)
  OBVIOUS
<1>4. v \in Job /\ Fit(v) /\ Place(v) /\ Follows(v, x)
  BY <1>1, <1>2, <1>3, AfterOK
<1>5. Follows(v, r)
  BY <1>4, FollowsFrom
<1> QED BY <1>3, <1>4, <1>5

\* LookUp.
LEMMA LookUpKeeps ==
  ASSUME ProvInv, NEW j \in Jobs, LookUp(j)
  PROVE  ProvInv'
<1> DEFINE r == job[j]
<1>1. ProvTyped /\ r \in Job /\ Fit(r) /\ Place(r) /\ dirty \subseteq Items
  BY AtWork
<1>2. r.pc = "push" /\ UNCHANGED <<tables, target, journal, marks>>
  BY DEF LookUp
<1>3. PICK w \in r.todo :
        LET id == ext[w]
            s == [r EXCEPT !.todo = @ \ {w}, !.who = w, !.vid = id]
        IN  \/ /\ Set(j, IF r.op = "member" /\ id # 0 THEN After([s EXCEPT !.refs[w] = id])
                         ELSE [s EXCEPT !.pc =
                           IF id = 0 THEN (IF r.op = "upsert" THEN "post" ELSE "find")
                           ELSE CASE r.op = "upsert" -> "patch"
                                  [] r.op = "deactivate" -> "setoff"
                                  [] r.op = "delete" -> "remove"])
               /\ NoFault /\ UNCHANGED dirty
            \/ Set(j, After(s)) /\ Fault /\ Dirty({w} \cup ({r.group} \ {None}))
  BY DEF LookUp
<1>4. w \in Users /\ ext[w] \in Nat /\ r.group \in Groups \cup {None} /\ r.op \in Ops
  BY <1>1, TypedParts DEF Job
<1>5. PICK s : s = [r EXCEPT !.todo = @ \ {w}, !.who = w, !.vid = ext[w]]
  OBVIOUS
<1>6. /\ s \in Job /\ s.pc = r.pc /\ s.who = w
      /\ s.kind = r.kind /\ s.user = r.user /\ s.group = r.group /\ s.form = r.form /\ s.op = r.op
  BY <1>1, <1>4, <1>5 DEF Job
<1>7. ASSUME r.op = "member", ext[w] # 0, Set(j, After([s EXCEPT !.refs[w] = ext[w]])),
             NoFault, UNCHANGED dirty
      PROVE  ProvInv'
  <2>1. PICK x : x = [s EXCEPT !.refs[w] = ext[w]]
    OBVIOUS
  <2>2. /\ x \in Job /\ x.pc = s.pc
        /\ x.kind = s.kind /\ x.user = s.user /\ x.group = s.group /\ x.form = s.form /\ x.op = s.op
    BY <1>4, <1>6, <2>1 DEF Job
  <2>3. PICK v : v = After(x)
    OBVIOUS
  <2>4. v \in Job /\ Fit(v) /\ Place(v) /\ Follows(v, r)
    BY <1>1, <1>2, <1>6, <2>2, <2>3, DoneOK
  <2> QED BY <1>1, <1>2, <1>7, <2>1, <2>3, <2>4, QuietJob
<1>8. ASSUME NEW l \in UserCalls, Set(j, [s EXCEPT !.pc = l]), NoFault, UNCHANGED dirty
      PROVE  ProvInv'
  <2>1. PICK v : v = [s EXCEPT !.pc = l]
    OBVIOUS
  <2>2. l \in Pcs
    BY DEF Pcs, UserCalls
  <2>3. /\ v \in Job /\ v.pc = l /\ v.who = w
        /\ v.kind = r.kind /\ v.user = r.user /\ v.group = r.group /\ v.form = r.form /\ v.op = r.op
    BY <1>6, <2>1, <2>2, AtLabel
  <2>4. Fit(v) /\ Place(v) /\ Follows(v, r)
    BY <1>1, <1>2, <1>4, <2>3, CallOK
  <2> QED BY <1>1, <1>2, <1>8, <2>1, <2>3, <2>4, QuietJob
<1>9. ASSUME Set(j, After(s)), Fault, Dirty({w} \cup ({r.group} \ {None}))
      PROVE  ProvInv'
  <2>1. dirty' \subseteq Items
    BY <1>1, <1>4, <1>9 DEF Dirty, Items
  <2>2. PICK v : v = After(s)
    OBVIOUS
  <2>3. v \in Job /\ Fit(v) /\ Place(v) /\ Follows(v, r)
    BY <1>1, <1>2, <1>6, <2>2, DoneOK
  <2> QED BY <1>2, <1>9, <2>1, <2>2, <2>3, QuietJob
<1>10. ASSUME ~(r.op = "member" /\ ext[w] # 0)
       PROVE  (IF ext[w] = 0 THEN (IF r.op = "upsert" THEN "post" ELSE "find")
               ELSE CASE r.op = "upsert" -> "patch"
                      [] r.op = "deactivate" -> "setoff"
                      [] r.op = "delete" -> "remove") \in UserCalls
  BY <1>4, <1>10 DEF UserCalls, Ops
<1>11. \/ /\ Set(j, IF r.op = "member" /\ ext[w] # 0 THEN After([s EXCEPT !.refs[w] = ext[w]])
                    ELSE [s EXCEPT !.pc =
                      IF ext[w] = 0 THEN (IF r.op = "upsert" THEN "post" ELSE "find")
                      ELSE CASE r.op = "upsert" -> "patch"
                             [] r.op = "deactivate" -> "setoff"
                             [] r.op = "delete" -> "remove"])
          /\ NoFault /\ UNCHANGED dirty
       \/ Set(j, After(s)) /\ Fault /\ Dirty({w} \cup ({r.group} \ {None}))
  BY <1>3, <1>5
<1> QED
  <2>1. CASE Set(j, After(s)) /\ Fault /\ Dirty({w} \cup ({r.group} \ {None}))
    BY <2>1, <1>9
  <2>2. CASE r.op = "member" /\ ext[w] # 0
    BY <2>2, <1>7, <1>9, <1>11
  <2>3. CASE ~(r.op = "member" /\ ext[w] # 0)
    BY <2>3, <1>8, <1>9, <1>10, <1>11
  <2> QED BY <2>2, <2>3

\* Find.
LEMMA FindKeeps ==
  ASSUME ProvInv, NEW j \in Jobs, Find(j)
  PROVE  ProvInv'
<1> DEFINE r == job[j]
<1>1. ProvTyped /\ r \in Job /\ Fit(r) /\ Place(r) /\ dirty \subseteq Items
  BY AtWork
<1>2. r.pc = "find" /\ r.pc \in UserCalls /\ r.who \in Users
  BY <1>1 DEF Find, Place, UserCalls
<1>3. UNCHANGED <<tables, target, journal, marks>> /\ NoFault /\ dirty' = dirty
  BY DEF Find
<1>4. vault[r.who].n \in Nat
  BY <1>1, <1>2, TypedParts DEF Record
<1>5. ASSUME NEW v \in Job, Set(j, v), Fit(v), Place(v), Follows(v, r)
      PROVE  ProvInv'
  BY <1>1, <1>3, <1>5, QuietJob
<1>6. ASSUME NEW v, v = [r EXCEPT !.vid = vault[r.who].n, !.pc = "remember"] \/ v = [r EXCEPT !.pc = "post"]
      PROVE  v \in Job /\ Fit(v) /\ Place(v) /\ Follows(v, r)
  <2>1. /\ v \in Job /\ v.pc \in UserCalls /\ v.who = r.who
        /\ v.kind = r.kind /\ v.user = r.user /\ v.group = r.group /\ v.form = r.form /\ v.op = r.op
    <3>1. CASE v = [r EXCEPT !.vid = vault[r.who].n, !.pc = "remember"]
      BY <1>1, <1>4, <3>1, ZenonT(60) DEF Job, Pcs, UserCalls
    <3>2. CASE v = [r EXCEPT !.pc = "post"]
      <4>1. "post" \in Pcs /\ "post" \in UserCalls
        BY DEF Pcs, UserCalls
      <4> QED BY <1>1, <3>2, <4>1, AtLabel
    <3> QED BY <1>6, <3>1, <3>2
  <2> QED BY <1>1, <1>2, <2>1, CallOK
<1>7. LET v == After(r) IN v \in Job /\ Fit(v) /\ Place(v) /\ Follows(v, r)
  BY <1>1, <1>2, DoneOK
<1>8. \E v : /\ Set(j, v)
             /\ \/ v = [r EXCEPT !.vid = vault[r.who].n, !.pc = "remember"]
                \/ v = [r EXCEPT !.pc = "post"]
                \/ v = After(r)
  BY DEF Find
<1> QED BY <1>5, <1>6, <1>7, <1>8

\* CallUser.
LEMMA CallUserKeeps ==
  ASSUME ProvInv, NEW j \in Jobs, CallUser(j)
  PROVE  ProvInv'
<1> DEFINE r == job[j]
<1>1. ProvTyped /\ r \in Job /\ Fit(r) /\ Place(r) /\ dirty \subseteq Items
  BY AtWork
<1>2. r.pc \in {"patch", "setoff", "remove"} /\ r.pc \in UserCalls /\ r.who \in Users
  BY <1>1 DEF CallUser, Place, UserCalls
<1>3. vault' \in [Users -> Record] /\ vgroup' \in [Groups -> TargetGroup]
  BY <1>1, <1>2, ApplyTyped DEF CallUser, Apply
<1>4. dirty' \subseteq Items
  BY <1>1, PushedTyped DEF CallUser
<1>5. /\ row' = row /\ group' = group /\ ext' = ext /\ journal' = journal /\ UNCHANGED marks
      /\ NoFault
  BY DEF CallUser, tables
<1>6. row \in [Users -> Row] /\ group \in [Groups -> Group] /\ ext \in [Users -> Nat] /\ journal \subseteq Events
  BY <1>1, TypedParts
<1>7. CASE Set(j, After(r))
  <2>1. PICK v : v = After(r)
    OBVIOUS
  <2>2. v \in Job /\ Fit(v) /\ Place(v) /\ Follows(v, r)
    BY <1>1, <1>2, <2>1, DoneOK
  <2> QED BY <1>3, <1>4, <1>5, <1>6, <1>7, <2>1, <2>2, Quiet
<1>8. CASE Go(j, "forget")
  <2>1. "forget" \in Pcs /\ "forget" \in UserCalls
    BY DEF Pcs, UserCalls
  <2>2. PICK v \in Job : /\ Set(j, v) /\ Fit(v) /\ v.pc = "forget"
           /\ v.kind = r.kind /\ v.user = r.user /\ v.group = r.group
           /\ v.form = r.form /\ v.op = r.op /\ v.who = r.who
    BY <1>8, <2>1, GoSets
  <2>3. Place(v) /\ Follows(v, r)
    BY <1>1, <1>2, <2>1, <2>2, CallOK
  <2> QED BY <1>3, <1>4, <1>5, <1>6, <2>2, <2>3, Quiet
<1> QED BY <1>7, <1>8 DEF CallUser

\* Forget.
LEMMA ForgetKeeps ==
  ASSUME ProvInv, NEW j \in Jobs, Forget(j)
  PROVE  ProvInv'
<1> DEFINE r == job[j]
<1>1. ProvTyped /\ r \in Job /\ Fit(r) /\ Place(r) /\ dirty \subseteq Items
  BY AtWork
<1>2. r.pc = "forget" /\ r.pc \in UserCalls /\ r.who \in Users
  BY <1>1 DEF Forget, Place, UserCalls
<1>3. ext' \in [Users -> Nat] /\ dirty' \subseteq Items /\ (Fault \/ NoFault)
  <2>1. ext \in [Users -> Nat] /\ 0 \in Nat
    BY <1>1, TypedParts
  <2> QED BY <1>1, <1>2, <2>1, ExtTyped DEF Forget, Dirty, Items
<1>4. /\ row' = row /\ group' = group /\ vault' = vault /\ vgroup' = vgroup
      /\ journal' = journal /\ UNCHANGED marks
  BY DEF Forget, target
<1>5. /\ row \in [Users -> Row] /\ group \in [Groups -> Group]
      /\ vault \in [Users -> Record] /\ vgroup \in [Groups -> TargetGroup] /\ journal \subseteq Events
  BY <1>1, TypedParts
<1>6. CASE Set(j, After(r))
  <2>1. PICK v : v = After(r)
    OBVIOUS
  <2>2. v \in Job /\ Fit(v) /\ Place(v) /\ Follows(v, r)
    BY <1>1, <1>2, <2>1, DoneOK
  <2> QED BY <1>3, <1>4, <1>5, <1>6, <2>1, <2>2, Quiet
<1>7. CASE Go(j, "post")
  <2>1. "post" \in Pcs /\ "post" \in UserCalls
    BY DEF Pcs, UserCalls
  <2>2. PICK v \in Job : /\ Set(j, v) /\ Fit(v) /\ v.pc = "post"
           /\ v.kind = r.kind /\ v.user = r.user /\ v.group = r.group
           /\ v.form = r.form /\ v.op = r.op /\ v.who = r.who
    BY <1>7, <2>1, GoSets
  <2>3. Place(v) /\ Follows(v, r)
    BY <1>1, <1>2, <2>1, <2>2, CallOK
  <2> QED BY <1>3, <1>4, <1>5, <2>2, <2>3, Quiet
<1> QED BY <1>6, <1>7 DEF Forget

\* Post.
LEMMA PostKeeps ==
  ASSUME ProvInv, NEW j \in Jobs, Post(j)
  PROVE  ProvInv'
<1> DEFINE r == job[j]
<1>1. ProvTyped /\ r \in Job /\ Fit(r) /\ Place(r) /\ dirty \subseteq Items
  BY AtWork
<1>2. r.pc = "post" /\ r.pc \in UserCalls /\ r.who \in Users
  BY <1>1 DEF Post, Place, UserCalls
<1>3. Applied(r)[1] \in [Users -> Record] /\ Applied(r)[2] \in [Groups -> TargetGroup]
  BY <1>1, <1>2, ApplyTyped
<1>4. vault' \in [Users -> Record] /\ vgroup' \in [Groups -> TargetGroup]
  BY <1>3 DEF Post, Apply
<1>5. dirty' \subseteq Items
  BY <1>1, PushedTyped DEF Post
<1>6. /\ row' = row /\ group' = group /\ ext' = ext /\ journal' = journal /\ UNCHANGED marks
      /\ NoFault
  BY DEF Post, tables
<1>7. row \in [Users -> Row] /\ group \in [Groups -> Group] /\ ext \in [Users -> Nat] /\ journal \subseteq Events
  BY <1>1, TypedParts
<1>8. PICK n \in Nat : n = Applied(r)[1][r.who].n
  BY <1>2, <1>3 DEF Record
<1>9. PICK v : v = [r EXCEPT !.pc = "remember", !.vid = n]
  OBVIOUS
<1>10. /\ v \in Job /\ v.pc = "remember" /\ v.who = r.who
       /\ v.kind = r.kind /\ v.user = r.user /\ v.group = r.group /\ v.form = r.form /\ v.op = r.op
  BY <1>1, <1>9 DEF Job, Pcs
<1>11. Set(j, v)
  <2>1. job \in [Jobs -> Job] /\ job' = [job EXCEPT ![j].pc = "remember", ![j].vid = n]
    BY <1>1, <1>8, TypedParts DEF Post
  <2> QED BY <1>9, <2>1 DEF Set, Job
<1>12. Fit(v) /\ Place(v) /\ Follows(v, r)
  <2>1. v.pc \in UserCalls
    BY <1>10 DEF UserCalls
  <2> QED BY <1>1, <1>2, <1>10, <2>1, CallOK
<1> QED BY <1>4, <1>5, <1>6, <1>7, <1>10, <1>11, <1>12, Quiet

\* Remember.
LEMMA RememberKeeps ==
  ASSUME ProvInv, NEW j \in Jobs, Remember(j)
  PROVE  ProvInv'
<1> DEFINE r == job[j]
           found(s) == CASE s.op = "deactivate" -> [s EXCEPT !.pc = "setoff"]
                         [] s.op = "delete" -> [s EXCEPT !.pc = "remove"]
                         [] s.op = "upsert" -> After(s)
                         [] s.op = "member" -> After([s EXCEPT !.refs[s.who] = s.vid])
<1>1. ProvTyped /\ r \in Job /\ Fit(r) /\ Place(r) /\ dirty \subseteq Items
  BY AtWork
<1>2. r.pc = "remember" /\ r.pc \in UserCalls /\ r.who \in Users /\ r.vid \in Nat
  BY <1>1 DEF Remember, Place, UserCalls, Job
<1>3. /\ row' = row /\ group' = group /\ vault' = vault /\ vgroup' = vgroup
      /\ journal' = journal /\ UNCHANGED marks
  BY DEF Remember, target
<1>4. /\ row \in [Users -> Row] /\ group \in [Groups -> Group] /\ ext \in [Users -> Nat]
      /\ vault \in [Users -> Record] /\ vgroup \in [Groups -> TargetGroup] /\ journal \subseteq Events
  BY <1>1, TypedParts
<1>5. \E s : /\ s = r \/ s = [r EXCEPT !.shared = @ \cup {r.who}]
             /\ Set(j, found(s)) /\ (Fault \/ NoFault)
             /\ \/ SetExternalID(r.who, r.vid) /\ UNCHANGED dirty
                \/ UNCHANGED ext /\ Dirty({r.who})
  BY DEF Remember
<1>6. PICK s : /\ s = r \/ s = [r EXCEPT !.shared = @ \cup {r.who}]
               /\ Set(j, found(s)) /\ (Fault \/ NoFault)
               /\ \/ SetExternalID(r.who, r.vid) /\ UNCHANGED dirty
                  \/ UNCHANGED ext /\ Dirty({r.who})
  BY <1>5
<1>7. ext' \in [Users -> Nat] /\ dirty' \subseteq Items
  BY <1>1, <1>2, <1>4, <1>6, ExtTyped DEF Dirty, Items
<1>8. /\ s \in Job /\ s.pc = r.pc /\ s.who = r.who /\ s.vid = r.vid
      /\ s.kind = r.kind /\ s.user = r.user /\ s.group = r.group /\ s.form = r.form /\ s.op = r.op
  <2>1. CASE s = r
    BY <1>1, <2>1
  <2>2. CASE s = [r EXCEPT !.shared = @ \cup {r.who}]
    BY <1>1, <1>2, <2>2 DEF Job, Items
  <2> QED BY <1>6, <2>1, <2>2
<1>9. PICK v : v = found(s)
  OBVIOUS
<1>10. v \in Job /\ Fit(v) /\ Place(v) /\ Follows(v, r)
  <2>1. ASSUME NEW l \in {"setoff", "remove"}, v = [s EXCEPT !.pc = l]
        PROVE  v \in Job /\ Fit(v) /\ Place(v) /\ Follows(v, r)
    <3>1. l \in Pcs /\ l \in UserCalls
      BY DEF Pcs, UserCalls
    <3>2. /\ v \in Job /\ v.pc = l /\ v.who = r.who
          /\ v.kind = r.kind /\ v.user = r.user /\ v.group = r.group /\ v.form = r.form /\ v.op = r.op
      BY <1>8, <2>1, <3>1, AtLabel
    <3> QED BY <1>1, <1>2, <3>1, <3>2, CallOK
  <2>2. CASE v = After(s)
    BY <1>1, <1>2, <1>8, <2>2, DoneOK
  <2>3. CASE v = After([s EXCEPT !.refs[s.who] = s.vid])
    <3>1. PICK x : x = [s EXCEPT !.refs[s.who] = s.vid]
      OBVIOUS
    <3>2. /\ x \in Job /\ x.pc = r.pc
          /\ x.kind = r.kind /\ x.user = r.user /\ x.group = r.group /\ x.form = r.form /\ x.op = r.op
      BY <1>2, <1>8, <3>1 DEF Job
    <3> QED BY <1>1, <1>2, <2>3, <3>1, <3>2, DoneOK
  <2>4. s.op \in {"deactivate", "delete", "upsert", "member"}
    BY <1>8 DEF Job, Ops
  <2>5. \/ v = [s EXCEPT !.pc = "setoff"] \/ v = [s EXCEPT !.pc = "remove"]
        \/ v = After(s) \/ v = After([s EXCEPT !.refs[s.who] = s.vid])
    BY <1>9, <2>4
  <2> QED BY <2>1, <2>2, <2>3, <2>5
<1>11. Set(j, v) /\ (Fault \/ NoFault)
  BY <1>6, <1>9
<1> QED BY <1>3, <1>4, <1>7, <1>10, <1>11, Quiet

\* A job that is done with a group.
LEMMA GroupDoneOK ==
  ASSUME NEW r \in Job, Fit(r), Place(r), r.pc \in GroupCalls \cup {"deleteg"}
  PROVE  LET v == AfterGroup(r) IN v \in Job /\ Fit(v) /\ Place(v) /\ Follows(v, r)
<1>1. r.kind \in ToGroups \cup {"gdelete"}
  BY DEF Place
<1>2. r.pc \notin {"gmembers", "audit", "undo"}
  BY DEF GroupCalls
<1> QED BY <1>1, <1>2, AfterGroupOK

\* CallGroup.
LEMMA CallGroupKeeps ==
  ASSUME ProvInv, NEW j \in Jobs, CallGroup(j)
  PROVE  ProvInv'
<1> DEFINE r == job[j]
<1>1. ProvTyped /\ r \in Job /\ Fit(r) /\ Place(r) /\ dirty \subseteq Items
  BY AtWork
<1>2. r.pc \in GroupCalls \cup {"deleteg"} /\ r.group \in Groups
  BY <1>1 DEF CallGroup, Place, GroupCalls, Fit, OfGroup
<1>3. vault' \in [Users -> Record] /\ vgroup' \in [Groups -> TargetGroup]
  BY <1>1, <1>2, ApplyTyped DEF CallGroup, Apply, GroupCalls
<1>4. dirty' \subseteq Items
  BY <1>1, <1>2, PushedTyped DEF CallGroup, Dirty, Items
<1>5. /\ row' = row /\ group' = group /\ ext' = ext /\ journal' = journal /\ UNCHANGED marks
      /\ NoFault
  BY DEF CallGroup, tables
<1>6. row \in [Users -> Row] /\ group \in [Groups -> Group] /\ ext \in [Users -> Nat] /\ journal \subseteq Events
  BY <1>1, TypedParts
<1>7. CASE Set(j, AfterGroup(r))
  <2>1. PICK v : v = AfterGroup(r)
    OBVIOUS
  <2>2. v \in Job /\ Fit(v) /\ Place(v) /\ Follows(v, r)
    BY <1>1, <1>2, <2>1, GroupDoneOK
  <2> QED BY <1>3, <1>4, <1>5, <1>6, <1>7, <2>1, <2>2, Quiet
<1>8. CASE r.pc = "putg" /\ Go(j, "postg")
  <2>1. "postg" \in Pcs /\ r.kind \in ToGroups /\ r.who = None
    BY <1>1, <1>8 DEF Pcs, Place, GroupCalls
  <2>2. PICK v \in Job : /\ Set(j, v) /\ Fit(v) /\ v.pc = "postg"
           /\ v.kind = r.kind /\ v.user = r.user /\ v.group = r.group /\ v.who = r.who
    BY <1>8, <2>1, GoSets
  <2>3. Place(v)
    BY <1>2, <2>1, <2>2, ProvAssumption DEF Place, UserCalls, GroupCalls, ToGroups, AllKinds
  <2>4. Follows(v, r)
    BY <1>8, <2>2 DEF Follows, OwesUser, OwesGroup, Unsettled, GroupCalls
  <2> QED BY <1>3, <1>4, <1>5, <1>6, <2>2, <2>3, <2>4, Quiet
<1> QED BY <1>7, <1>8 DEF CallGroup

\* CallFails.
LEMMA CallFailsKeeps ==
  ASSUME ProvInv, NEW j \in Jobs, CallFails(j)
  PROVE  ProvInv'
<1> DEFINE r == job[j]
<1>1. ProvTyped /\ r \in Job /\ Fit(r) /\ Place(r) /\ dirty \subseteq Items
  BY AtWork
<1>2. /\ r.pc \in {"find", "patch", "setoff", "remove", "post"} => r.pc \in UserCalls /\ r.who \in Users
      /\ r.pc \in {"putg", "postg", "deleteg"} =>
           r.pc \in GroupCalls \cup {"deleteg"} /\ r.group \in Groups /\ r.who = None
  BY <1>1 DEF Place, UserCalls, GroupCalls, Fit, OfGroup
<1>3. r.pc \in {"find", "patch", "setoff", "remove", "post", "putg", "postg", "deleteg"}
  BY DEF CallFails
<1>4. Applied(r)[1] \in [Users -> Record] /\ Applied(r)[2] \in [Groups -> TargetGroup]
  BY <1>1, <1>2, ApplyTyped
<1>5. /\ row \in [Users -> Row] /\ group \in [Groups -> Group] /\ ext \in [Users -> Nat]
      /\ vault \in [Users -> Record] /\ vgroup \in [Groups -> TargetGroup] /\ journal \subseteq Events
  BY <1>1, TypedParts
<1>6. vault' \in [Users -> Record] /\ vgroup' \in [Groups -> TargetGroup]
  BY <1>4, <1>5 DEF CallFails, Apply, target
<1>7. dirty' \subseteq Items
  <2>1. r.who \in Users \cup {None} /\ r.group \in Groups \cup {None}
    BY <1>1 DEF Job
  <2> QED BY <1>1, <2>1 DEF CallFails, Dirty, Items
<1>8. /\ row' = row /\ group' = group /\ ext' = ext /\ journal' = journal /\ UNCHANGED marks
      /\ Fault
  BY DEF CallFails, tables
<1>9. PICK v : v = IF r.who = None THEN AfterGroup(r) ELSE After(r)
  OBVIOUS
<1>10. Set(j, v)
  BY <1>9 DEF CallFails
<1>11. v \in Job /\ Fit(v) /\ Place(v) /\ Follows(v, r)
  <2>1. CASE r.who = None
    <3>1. r.pc \in GroupCalls \cup {"deleteg"}
      BY <1>2, <1>3, <2>1, ProvAssumption
    <3> QED BY <1>1, <1>9, <2>1, <3>1, GroupDoneOK
  <2>2. CASE r.who # None
    <3>1. r.pc \in UserCalls
      BY <1>2, <1>3, <2>2
    <3> QED BY <1>1, <1>9, <2>2, <3>1, DoneOK
  <2> QED BY <2>1, <2>2
<1> QED BY <1>5, <1>6, <1>7, <1>8, <1>10, <1>11, Quiet

-----------------------------------------------------------------------------
(* Jobs begin.                                                             *)

\* A job that is not at work owes nothing.
LEMMA IdleOwesNothing ==
  ASSUME NEW r, r.pc = "idle"
  PROVE  /\ \A u \in Users : ~OwesUser(r, u)
         /\ \A g \in Groups : ~OwesGroup(r, g)
BY DEF OwesUser, OwesGroup, Unsettled, UserCalls, GroupCalls

\* A job begins that creates no row.
LEMMA QuietStart ==
  ASSUME ProvInv, NEW j \in Jobs, NEW r \in Job, Fit(r), Place(r),
         r.pc \notin {"erase", "gerase", "count", "promote"},
         Start(j, r, {}), UNCHANGED <<tables, target, journal, marks>>
  PROVE  ProvInv'
<1>1. ProvTyped /\ Covered /\ First
  BY DEF ProvInv
<1>2. /\ OneMoves(j) /\ Alike(r, job'[j]) /\ job[j].pc = "idle"
      /\ \A i \in Jobs : Fit(job'[i]) /\ Place(job'[i])
      /\ starts' \in Nat /\ faults' \in Nat /\ dirty' \subseteq Items
  BY <1>1, StartMoves
<1>3. /\ row' = row /\ group' = group /\ ext' = ext /\ vault' = vault /\ vgroup' = vgroup
      /\ journal' = journal /\ boot' = boot /\ excused' = excused /\ refused' = refused
  BY DEF tables, target, marks
<1>4. ProvTyped'
  BY <1>1, <1>2, <1>3, TypedParts DEF ProvTyped, ProvTypeOK, OneMoves
<1>5. Follows(job'[j], job[j])
  BY <1>2, IdleOwesNothing DEF Follows, Alike
<1>6. Covered' /\ First'
  BY <1>1, <1>2, <1>3, <1>5, QuietStep
<1> QED BY <1>4, <1>6 DEF ProvInv

\* UpdateBegin, EditBegin, DeleteBegin.
LEMMA UserJobKeeps ==
  ASSUME ProvInv, NEW j \in Jobs, NEW u \in Users,
         DeleteBegin(j, u) \/ \E f \in Forms : UpdateBegin(j, u, f) \/ EditBegin(j, u, f)
  PROVE  ProvInv'
<1>1. UNCHANGED <<tables, target, journal, marks>>
  BY DEF DeleteBegin, UpdateBegin, EditBegin
<1>2. \E r : /\ Start(j, r, {})
             /\ \/ r = [NoJob EXCEPT !.kind = "delete", !.user = u, !.todo = {u}, !.pc = "audit"]
                \/ \E f \in Forms, k \in {"update", "edit"} :
                     r = [NoJob EXCEPT !.kind = k, !.user = u, !.form = f, !.pc = "audit"]
  BY DEF DeleteBegin, UpdateBegin, EditBegin
<1>3. PICK r : /\ Start(j, r, {})
               /\ \/ r = [NoJob EXCEPT !.kind = "delete", !.user = u, !.todo = {u}, !.pc = "audit"]
                  \/ \E f \in Forms, k \in {"update", "edit"} :
                       r = [NoJob EXCEPT !.kind = k, !.user = u, !.form = f, !.pc = "audit"]
  BY <1>2
<1>4. /\ r \in Job /\ r.pc = "audit" /\ r.user = u /\ r.who = None
      /\ r.kind \in {"delete", "update", "edit"} /\ (r.kind # "delete" => r.form \in Forms)
  <2>1. CASE r = [NoJob EXCEPT !.kind = "delete", !.user = u, !.todo = {u}, !.pc = "audit"]
    BY <2>1, IdleOK, ZenonT(60) DEF Job, NoJob, Pcs, AllKinds
  <2>2. ASSUME NEW f \in Forms, NEW k \in {"update", "edit"},
               r = [NoJob EXCEPT !.kind = k, !.user = u, !.form = f, !.pc = "audit"]
        PROVE  r \in Job /\ r.pc = "audit" /\ r.user = u /\ r.who = None /\ r.kind = k /\ r.form = f
    BY <2>2, IdleOK, ZenonT(60) DEF Job, NoJob, Pcs, AllKinds
  <2> QED BY <1>3, <2>1, <2>2
<1>5. Fit(r)
  BY <1>4 DEF Fit, OfGroup, OfForm
<1>6. Place(r)
  BY <1>4, ProvAssumption DEF Place, UserCalls, GroupCalls, AllKinds
<1> QED BY <1>1, <1>3, <1>4, <1>5, <1>6, QuietStart

\* GroupNew, GroupEdit, GroupDelete.
LEMMA GroupJobKeeps ==
  ASSUME ProvInv, NEW j \in Jobs, NEW g \in Groups,
         GroupDelete(j, g) \/ \E S \in SUBSET Users : GroupNew(j, g, S) \/ GroupEdit(j, g, S)
  PROVE  ProvInv'
<1>1. PICK k \in OfGroup, S \in SUBSET Users, l \in Pcs :
        /\ GroupBegin(j, k, g, S, l)
        /\ \/ k = "gnew" /\ l = "gcreate"
           \/ k = "gedit" /\ l = "gupdate"
           \/ k = "gdelete" /\ l = "audit"
  BY DEF GroupDelete, GroupNew, GroupEdit, OfGroup, Pcs
<1>2. PICK r : r = [NoJob EXCEPT !.kind = k, !.group = g, !.list = ListUsers, !.want = S, !.pc = l]
  OBVIOUS
<1>3. ListUsers \in Snapshot
  BY DEF ListUsers, Snapshot
<1>4. r \in Job /\ r.pc = l /\ r.kind = k /\ r.group = g /\ r.who = None
  BY <1>2, <1>3, IdleOK DEF Job, NoJob, AllKinds, OfGroup
<1>5. Fit(r)
  BY <1>4 DEF Fit, OfUser, OfGroup, OfForm
<1>6. Place(r)
  BY <1>1, <1>4, ProvAssumption DEF Place, UserCalls, GroupCalls, AllKinds
<1>7. Start(j, r, {}) /\ UNCHANGED <<tables, target, journal, marks>>
  BY <1>1, <1>2 DEF GroupBegin
<1>8. r.pc \notin {"erase", "gerase", "count", "promote"}
  BY <1>1, <1>4
<1> QED BY <1>4, <1>5, <1>6, <1>7, <1>8, QuietStart

\* SyncBegin.
LEMMA SyncBeginKeeps ==
  ASSUME ProvInv, NEW j \in Jobs, SyncBegin(j)
  PROVE  ProvInv'
<1>1. PICK l \in {"glist", "push"} : l = IF In = {} THEN "glist" ELSE "push"
  OBVIOUS
<1>2. PICK r : r = [NoJob EXCEPT !.kind = "sync", !.list = ListUsers, !.todo = In, !.pc = l]
  OBVIOUS
<1>3. ListUsers \in Snapshot /\ In \in SUBSET Users /\ l \in Pcs
  BY DEF ListUsers, Snapshot, In, Pcs
<1>4. r \in Job /\ r.pc = l /\ r.kind = "sync" /\ r.op = "upsert"
  BY <1>2, <1>3, IdleOK DEF Job, NoJob, AllKinds
<1>5. Fit(r)
  BY <1>4 DEF Fit, OfUser, OfGroup, OfForm
<1>6. Place(r)
  BY <1>4, ProvAssumption DEF Place, UserCalls, GroupCalls, AllKinds, ToUsers
<1>7. Start(j, r, {}) /\ UNCHANGED <<tables, target, journal, marks>>
  BY <1>1, <1>2 DEF SyncBegin
<1> QED BY <1>4, <1>5, <1>6, <1>7, QuietStart

\* A row comes, and its creator has not counted yet.
LEMMA FirstCreate ==
  ASSUME ProvTyped, First, NEW j \in Jobs, OneMoves(j), boot' = boot,
         NEW u \in Users, NEW x \in Row, row[u].st = "new", x.st = "in",
         row' = [row EXCEPT ![u] = x],
         job'[j].pc # "promote", job'[j].pc = "count" => job'[j].user = u
  PROVE  First'
<1>0. row \in [Users -> Row]
  BY TypedParts
<1>1. In' = In \cup {u}
  BY <1>0 DEF In
<1>2. IsFiniteSet(In')
  BY <1>1, FS_AddElement DEF First
<1>3. ASSUME NEW w \in Users, Counted(w)'
      PROVE  Counted(w)
  <2>1. CASE w \in boot
    BY <2>1 DEF Counted
  <2>2. CASE \E i \in Jobs : job'[i].pc = "promote" /\ job'[i].user = w
    BY <2>2 DEF Counted, OneMoves, Alike
  <2> QED BY <1>3, <2>1, <2>2 DEF Counted
<1>4. \A w \in Users : Counted(w)' => row'[w].st # "new" /\ w # u
  BY <1>0, <1>3 DEF First
<1>5. ASSUME NEW i \in Jobs, job'[i].pc = "count"
      PROVE  row'[job'[i].user].st # "new"
  <2>1. CASE i = j
    BY <1>0, <1>5, <2>1
  <2>2. CASE i # j
    <3>1. job[i].pc = "count" /\ job'[i].user = job[i].user
      BY <1>5, <2>2 DEF OneMoves, Alike
    <3>2. job[i].user \in Users
      BY <3>1, TypedParts DEF Place, Fit, OfUser
    <3> QED BY <1>0, <3>1, <3>2 DEF First
  <2> QED BY <2>1, <2>2
<1>6. \A v, w \in In' : Counted(v)' /\ Counted(w)' => v = w
  <2>1. In \subseteq Users
    BY DEF In
  <2> QED BY <2>1, <1>1, <1>3, <1>4 DEF First
<1> QED BY <1>2, <1>4, <1>5, <1>6 DEF First

\* CreateUser, by each of the handlers.
LEMMA CreateUserKeeps ==
  ASSUME ProvInv, NEW j \in Jobs, NEW u \in Users, NEW k, NEW f, NEW l, NEW S,
         CreateUser(j, k, u, f, l, S),
         \/ k = "create" /\ f = None /\ l = "audit" /\ S = {}
         \/ k = "register" /\ f = None /\ l = "count" /\ S = {}
         \/ k = "new" /\ f \in Forms /\ l = "flags" /\ S = {}
         \/ k = "cli" /\ f \in Forms /\ l = "admin" /\ S = {u}
  PROVE  ProvInv'
<1>1. ProvTyped /\ Covered /\ First
  BY DEF ProvInv
<1>2. PICK r : r = [NoJob EXCEPT !.kind = k, !.user = u, !.act = TRUE, !.form = f, !.pc = l]
  OBVIOUS
<1>3. k \in AllKinds /\ f \in Forms \cup {None} /\ l \in Pcs
  BY DEF AllKinds, Pcs
<1>4. r \in Job /\ r.pc = l /\ r.kind = k /\ r.user = u /\ r.form = f /\ r.who = None
  BY <1>2, <1>3, IdleOK DEF Job, NoJob
<1>5. Fit(r)
  BY <1>4 DEF Fit, OfUser, OfGroup, OfForm
<1>6. Place(r)
  BY <1>4, ProvAssumption DEF Place, UserCalls, GroupCalls, AllKinds
<1>7. S \subseteq Items
  BY DEF Items
<1>8. /\ row[u].st = "new" /\ Start(j, r, S)
      /\ row' = [row EXCEPT ![u] = [st |-> "in", active |-> TRUE, admin |-> FALSE]]
      /\ excused' = excused \cup S
      /\ group' = group /\ ext' = ext /\ vault' = vault /\ vgroup' = vgroup
      /\ journal' = journal /\ boot' = boot /\ refused' = refused
  BY <1>2 DEF CreateUser, target
<1>9. /\ OneMoves(j) /\ Alike(r, job'[j]) /\ job[j].pc = "idle"
      /\ \A i \in Jobs : Fit(job'[i]) /\ Place(job'[i])
      /\ starts' \in Nat /\ faults' \in Nat /\ dirty' \subseteq Items
  BY <1>1, <1>4, <1>5, <1>6, <1>7, <1>8, StartMoves
<1>10. PICK x \in Row : x.st = "in" /\ row' = [row EXCEPT ![u] = x]
  BY <1>8 DEF Row
<1>11. row \in [Users -> Row]
  BY <1>1, TypedParts
<1>12. ProvTyped'
  <2>1. row' \in [Users -> Row]
    BY <1>10, <1>11
  <2>2. excused' \subseteq Items
    BY <1>1, <1>7, <1>8, TypedParts
  <2> QED
    BY <1>1, <1>8, <1>9, <2>1, <2>2, TypedParts DEF ProvTyped, ProvTypeOK, OneMoves
<1>13. job'[j].pc = l /\ job'[j].kind = k /\ job'[j].user = u
  BY <1>4, <1>9 DEF Alike
<1>14. First'
  <2>1. job'[j].pc # "promote" /\ (job'[j].pc = "count" => job'[j].user = u) /\ row[u].st = "new"
    BY <1>7, <1>8, <1>13
  <2> QED BY <1>1, <1>8, <1>9, <1>10, <2>1, FirstCreate
<1>15. Covered'
  <2>1. OwesUser(job[j], u)' \/ u \in excused'
    BY <1>8, <1>13 DEF OwesUser, Unsettled, Creators
  <2>2. \A w \in Users : w # u => row'[w] = row[w]
    BY <1>10, <1>11
  <2>3. row'[u].st = "in"
    BY <1>10, <1>11
  <2>4. \A w \in Users : \/ row'[w].st = row[w].st
                         \/ row'[w].st = "in" /\ (OwesUser(job[j], w)' \/ w \in excused')
    BY <2>1, <2>2, <2>3
  <2>5. Erasing(job[j])'
    BY <1>13 DEF Erasing
  <2>6. /\ \A w \in Users : ~OwesUser(job[j], w)
        /\ \A g \in Groups : ~OwesGroup(job[j], g)
    BY <1>9, IdleOwesNothing
  <2>7. excused \subseteq excused'
    BY <1>8
  <2> QED BY <1>1, <1>8, <1>9, <2>4, <2>5, <2>6, <2>7, StillCovered
<1> QED BY <1>12, <1>14, <1>15 DEF ProvInv

-----------------------------------------------------------------------------
(* Rows, events and the first administrator.                               *)

\* Nobody else is counted alone, and rows at most go.
LEMMA FirstMoves ==
  ASSUME ProvTyped, First, NEW j \in Jobs, OneMoves(j), job'[j].pc # "count",
         \A u \in Users : Counted(u)' => Counted(u),
         \A u \in Users : row'[u].st = row[u].st
  PROVE  First'
<1>1. In' = In /\ In \subseteq Users
  BY DEF In
<1>2. \A u \in Users : Counted(u)' => row'[u].st # "new"
  BY DEF First
<1>3. ASSUME NEW i \in Jobs, job'[i].pc = "count"
      PROVE  row'[job'[i].user].st # "new"
  <2>1. job[i].pc = "count" /\ job'[i].user = job[i].user
    BY <1>3 DEF OneMoves, Alike
  <2>2. job[i].user \in Users
    BY <2>1, TypedParts DEF Place, Fit, OfUser
  <2> QED BY <2>1, <2>2 DEF First
<1>4. \A u, w \in In' : Counted(u)' /\ Counted(w)' => u = w
  BY <1>1 DEF First
<1>5. IsFiniteSet(In')
  BY <1>1 DEF First
<1> QED BY <1>2, <1>3, <1>4, <1>5 DEF First

\* CountUsers: a user who is counted alone is alone, or already gone.
LEMMA CountUsersKeeps ==
  ASSUME ProvInv, NEW j \in Jobs, CountUsers(j)
  PROVE  ProvInv'
<1> DEFINE r == job[j]
<1>1. ProvTyped /\ r \in Job /\ Fit(r) /\ Place(r) /\ dirty \subseteq Items
  BY AtWork
<1>2. r.pc = "count" /\ r.kind = "register" /\ r.user \in Users
  BY <1>1 DEF CountUsers, Place, Fit, OfUser
<1>3. UNCHANGED <<tables, target, journal, marks>> /\ dirty' = dirty /\ (Fault \/ NoFault)
  BY DEF CountUsers
<1>4. PICK l \in {"promote", "audit"} : Go(j, l) /\ (l = "promote" => Cardinality(In) = 1)
  BY DEF CountUsers
<1>5. l \in Pcs
  BY DEF Pcs
<1>6. PICK v \in Job : /\ Set(j, v) /\ Fit(v) /\ v.pc = l
                       /\ v.kind = r.kind /\ v.user = r.user /\ v.group = r.group
  BY <1>4, <1>5, GoSets
<1>7. Place(v)
  BY <1>2, <1>6, ProvAssumption DEF Place, UserCalls, GroupCalls, AllKinds
<1>8. CASE l = "audit"
  <2>1. Follows(v, r)
    BY <1>2, <1>6, <1>8 DEF Follows, OwesUser, OwesGroup, Unsettled
  <2> QED BY <1>1, <1>3, <1>6, <1>7, <2>1, QuietJob
<1>9. CASE l = "promote"
  <2>1. ProvTyped /\ Covered /\ First
    BY DEF ProvInv
  <2>2. OneMoves(j) /\ job'[j] = v /\ \A i \in Jobs : Fit(job'[i]) /\ Place(job'[i])
    BY <1>6, <1>7, <2>1, SetMoves
  <2>3. /\ row' = row /\ group' = group /\ ext' = ext /\ vault' = vault /\ vgroup' = vgroup
        /\ journal' = journal /\ boot' = boot /\ excused' = excused /\ refused' = refused
    BY <1>3 DEF tables, target, marks
  <2>4. starts' \in Nat /\ faults' \in Nat
    BY <1>3, <2>1, BoundsTyped
  <2>5. ProvTyped'
    BY <1>1, <1>3, <2>1, <2>2, <2>3, <2>4, TypedParts DEF ProvTyped, ProvTypeOK, OneMoves
  <2>6. Covered'
    <3>1. /\ \A u \in Users : OwesUser(job[j], u) => OwesUser(job[j], u)'
          /\ \A g \in Groups : OwesGroup(job[j], g) => OwesGroup(job[j], g)'
      BY <1>2, <1>6, <1>9, <2>2 DEF OwesUser, OwesGroup, Unsettled
    <3>2. Erasing(job[j])'
      BY <1>6, <1>9, <2>2 DEF Erasing
    <3> QED BY <2>1, <2>2, <2>3, <3>1, <3>2, StillCovered
  <2>7. First'
    <3>1. ASSUME NEW w \in Users, Counted(w)'
          PROVE  Counted(w) \/ w = r.user
      <4>1. CASE w \in boot
        BY <4>1 DEF Counted
      <4>2. CASE \E i \in Jobs : job'[i].pc = "promote" /\ job'[i].user = w
        BY <4>2, <1>6, <2>2 DEF Counted, OneMoves, Alike
      <4> QED BY <2>3, <3>1, <4>1, <4>2 DEF Counted
    <3>2. r.user \in In => In = {r.user}
      BY <1>4, <1>9, <2>1, FS_Singleton DEF First
    <3>3. In' = In /\ In \subseteq Users
      BY <2>3 DEF In
    <3>4. \A w \in Users : Counted(w)' => row'[w].st # "new"
      BY <1>2, <2>1, <2>3, <3>1 DEF First
    <3>5. \A u, w \in In' : Counted(u)' /\ Counted(w)' => u = w
      BY <2>1, <3>1, <3>2, <3>3 DEF First
    <3>6. ASSUME NEW i \in Jobs, job'[i].pc = "count"
          PROVE  row'[job'[i].user].st # "new"
      <4>1. i # j
        BY <1>6, <1>9, <2>2, <3>6
      <4>2. job[i].pc = "count" /\ job'[i].user = job[i].user
        BY <2>2, <3>6, <4>1 DEF OneMoves, Alike
      <4> QED BY <2>1, <2>3, <4>2 DEF First
    <3> QED BY <2>1, <3>3, <3>4, <3>5, <3>6 DEF First
  <2> QED BY <2>5, <2>6, <2>7 DEF ProvInv
<1> QED BY <1>8, <1>9

\* Promote.
LEMMA PromoteKeeps ==
  ASSUME ProvInv, NEW j \in Jobs, Promote(j)
  PROVE  ProvInv'
<1> DEFINE r == job[j]
<1>1. ProvTyped /\ r \in Job /\ Fit(r) /\ Place(r) /\ dirty \subseteq Items
  BY AtWork
<1>2. r.pc = "promote" /\ r.kind = "register" /\ r.user \in Users
  BY <1>1 DEF Promote, Place, Fit, OfUser
<1>3. "audit" \in Pcs /\ Go(j, "audit")
  BY DEF Pcs, Promote
<1>4. PICK v \in Job : /\ Set(j, v) /\ Fit(v) /\ v.pc = "audit"
                       /\ v.kind = r.kind /\ v.user = r.user /\ v.group = r.group
  BY <1>3, GoSets
<1>5. Place(v)
  BY <1>2, <1>4, ProvAssumption DEF Place, UserCalls, GroupCalls, AllKinds
<1>6. ProvTyped /\ Covered /\ First
  BY DEF ProvInv
<1>7. OneMoves(j) /\ job'[j] = v /\ \A i \in Jobs : Fit(job'[i]) /\ Place(job'[i])
  BY <1>4, <1>5, <1>6, SetMoves
<1>8. /\ group' = group /\ ext' = ext /\ vault' = vault /\ vgroup' = vgroup /\ dirty' = dirty
      /\ journal' = journal /\ excused' = excused /\ refused' = refused
  BY DEF Promote, target
<1>9. row' \in [Users -> Row] /\ \A u \in Users : row'[u].st = row[u].st
  <2>1. row \in [Users -> Row] /\ row[r.user].active \in BOOLEAN
    BY <1>2, <1>6, TypedParts DEF Row
  <2>2. Update(r.user, row[r.user].active, TRUE) \/ row' = row
    BY DEF Promote
  <2> QED BY <1>6, <2>1, <2>2, UpdateTyped
<1>10. boot' = boot \/ boot' = boot \cup {r.user}
  BY DEF Promote
<1>11. starts' \in Nat /\ faults' \in Nat
  <2>1. Fault \/ NoFault
    BY DEF Promote
  <2> QED BY <1>6, <2>1, BoundsTyped
<1>12. ProvTyped'
  <2>1. boot' \subseteq Users
    BY <1>2, <1>6, <1>10, TypedParts
  <2> QED
    BY <1>1, <1>6, <1>7, <1>8, <1>9, <1>11, <2>1, TypedParts DEF ProvTyped, ProvTypeOK, OneMoves
<1>13. Covered'
  <2>1. /\ \A u \in Users : OwesUser(job[j], u) => OwesUser(job[j], u)'
        /\ \A g \in Groups : OwesGroup(job[j], g) => OwesGroup(job[j], g)'
    BY <1>2, <1>4, <1>7 DEF OwesUser, OwesGroup, Unsettled
  <2>2. Erasing(job[j])'
    BY <1>4, <1>7 DEF Erasing
  <2> QED BY <1>6, <1>7, <1>8, <1>9, <2>1, <2>2, StillCovered
<1>14. First'
  <2>1. ASSUME NEW w \in Users, Counted(w)'
        PROVE  Counted(w)
    <3>1. CASE w \in boot'
      BY <1>2, <1>10, <3>1 DEF Counted
    <3>2. CASE \E i \in Jobs : job'[i].pc = "promote" /\ job'[i].user = w
      BY <3>2, <1>4, <1>7 DEF Counted, OneMoves, Alike
    <3> QED BY <2>1, <3>1, <3>2 DEF Counted
  <2>2. job'[j].pc # "count"
    BY <1>4, <1>7
  <2> QED BY <1>6, <1>7, <1>9, <2>1, <2>2, FirstMoves
<1> QED BY <1>12, <1>13, <1>14 DEF ProvInv

\* A step of j that creates, journals or removes: the types of the variables,
\* and what StillCovered and StillFirst ask for.
LEMMA LoudStep ==
  ASSUME ProvInv, NEW j \in Jobs, NEW v \in Job, Fit(v), Place(v), Set(j, v),
         Fault \/ NoFault, dirty' \subseteq Items,
         row' \in [Users -> Row], group' \in [Groups -> Group], ext' \in [Users -> Nat],
         vault' = vault, vgroup' = vgroup, boot' = boot,
         journal \subseteq journal', journal' \subseteq Events,
         excused \subseteq excused', excused' \subseteq Items,
         refused \subseteq refused', refused' \subseteq Items,
         \A u \in Users : OwesUser(job[j], u) =>
           \/ OwesUser(v, u) \/ <<"created", u>> \in journal'
           \/ u \in excused' \/ row'[u].st # "in",
         \A g \in Groups : OwesGroup(job[j], g) =>
           \/ OwesGroup(v, g) \/ <<"created", g>> \in journal'
           \/ g \in excused' \/ group'[g].st # "in",
         \A u \in Users : row'[u].st = row[u].st \/ (row'[u].st = "gone" /\ Removed(u)'),
         \A g \in Groups :
           \/ group'[g].st = group[g].st
           \/ group'[g].st = "in" /\ OwesGroup(v, g)
           \/ group'[g].st = "gone" /\ Removed(g)',
         v.pc = "erase" => <<"deleted", v.user>> \in journal',
         v.pc = "gerase" => <<"deleted", v.group>> \in journal',
         v.pc \notin {"count", "promote"}
  PROVE  ProvInv'
<1>1. ProvTyped /\ Covered /\ First
  BY DEF ProvInv
<1>2. OneMoves(j) /\ job'[j] = v /\ \A i \in Jobs : Fit(job'[i]) /\ Place(job'[i])
  BY <1>1, SetMoves
<1>3. starts' \in Nat /\ faults' \in Nat
  BY <1>1, BoundsTyped
<1>4. ProvTyped'
  BY <1>1, <1>2, <1>3, TypedParts DEF ProvTyped, ProvTypeOK, OneMoves
<1>5. Erasing(job[j])'
  BY <1>2 DEF Erasing
<1>6. /\ \A u \in Users : OwesUser(v, u) => OwesUser(job[j], u)'
      /\ \A g \in Groups : OwesGroup(v, g) => OwesGroup(job[j], g)'
  BY <1>2 DEF OwesUser, OwesGroup, Unsettled
<1>7. Covered'
  BY <1>1, <1>2, <1>5, <1>6, StillCovered
<1>8. First'
  BY <1>1, <1>2, StillFirst
<1> QED BY <1>4, <1>7, <1>8 DEF ProvInv

\* Crash.
LEMMA CrashKeeps ==
  ASSUME ProvInv, NEW j \in Jobs, Crash(j)
  PROVE  ProvInv'
<1> DEFINE r == job[j]
<1>1. ProvTyped /\ r \in Job /\ Fit(r) /\ Place(r) /\ dirty \subseteq Items
  BY AtWork
<1>2. /\ row' = row /\ group' = group /\ ext' = ext /\ vault' = vault /\ vgroup' = vgroup
      /\ journal' = journal /\ boot' = boot /\ refused' = refused /\ Fault /\ Set(j, NoJob)
      /\ excused' = excused \cup ({r.user, r.group} \ {None})
  BY DEF Crash, tables, target, End
<1>3. dirty' \subseteq Items
  BY <1>1, TouchesTyped DEF Crash, Dirty
<1>4. excused \subseteq Items /\ r.user \in Users \cup {None} /\ r.group \in Groups \cup {None}
  BY <1>1, TypedParts DEF Job
<1>5. excused \subseteq excused' /\ excused' \subseteq Items
  BY <1>2, <1>4 DEF Items
<1>6. /\ \A u \in Users : OwesUser(r, u) => u \in excused'
      /\ \A g \in Groups : OwesGroup(r, g) => g \in excused'
  BY <1>2, ProvAssumption DEF OwesUser, OwesGroup
<1>7. NoJob.pc = "idle"
  BY DEF NoJob
<1>8. /\ row \in [Users -> Row] /\ group \in [Groups -> Group] /\ ext \in [Users -> Nat]
      /\ journal \subseteq Events /\ refused \subseteq Items
  BY <1>1, TypedParts
<1> QED BY <1>2, <1>3, <1>5, <1>6, <1>7, <1>8, IdleOK, LoudStep

\* CreateGroup.
LEMMA CreateGroupKeeps ==
  ASSUME ProvInv, NEW j \in Jobs, CreateGroup(j)
  PROVE  ProvInv'
<1> DEFINE r == job[j]
<1>1. ProvTyped /\ r \in Job /\ Fit(r) /\ Place(r) /\ dirty \subseteq Items
  BY AtWork
<1>2. r.pc = "gcreate" /\ r.kind = "gnew" /\ r.group \in Groups
  BY <1>1 DEF CreateGroup, Place, Fit, OfGroup
<1>3. /\ row' = row /\ ext' = ext /\ vault' = vault /\ vgroup' = vgroup
      /\ journal' = journal /\ dirty' = dirty /\ UNCHANGED marks
      /\ boot' = boot /\ excused' = excused /\ refused' = refused
  BY DEF CreateGroup, target, marks
<1>4. /\ row \in [Users -> Row] /\ group \in [Groups -> Group] /\ ext \in [Users -> Nat]
      /\ vault \in [Users -> Record] /\ vgroup \in [Groups -> TargetGroup]
      /\ journal \subseteq Events /\ excused \subseteq Items /\ refused \subseteq Items
  BY <1>1, TypedParts
<1>5. ASSUME group' = [group EXCEPT ![r.group] = [st |-> "in", members |-> {}]],
             Go(j, IF r.want = {} THEN "audit" ELSE "gmembers"), NoFault
      PROVE  ProvInv'
  <2>1. PICK l \in {"audit", "gmembers"} : Go(j, l)
    BY <1>5
  <2>2. l \in Pcs
    BY DEF Pcs
  <2>3. PICK v \in Job : /\ Set(j, v) /\ Fit(v) /\ v.pc = l
                         /\ v.kind = r.kind /\ v.user = r.user /\ v.group = r.group
    BY <2>1, <2>2, GoSets
  <2>4. Place(v)
    BY <1>2, <2>3, ProvAssumption DEF Place, UserCalls, GroupCalls, AllKinds
  <2>5. [st |-> "in", members |-> {}] \in Group
    BY DEF Group
  <2>6. /\ group' \in [Groups -> Group] /\ group'[r.group].st = "in"
        /\ \A g \in Groups : g # r.group => group'[g] = group[g]
    BY <1>2, <1>4, <1>5, <2>5
  <2>7. OwesGroup(v, r.group)
    BY <1>2, <2>3 DEF OwesGroup
  <2>8. \A g \in Groups : group'[g].st = group[g].st \/ (group'[g].st = "in" /\ OwesGroup(v, g))
    BY <2>6, <2>7
  <2>9. /\ \A u \in Users : ~OwesUser(r, u)
        /\ \A g \in Groups : ~OwesGroup(r, g)
    BY <1>2 DEF OwesUser, OwesGroup, Creators
  <2> QED BY <1>1, <1>3, <1>4, <1>5, <2>3, <2>4, <2>6, <2>8, <2>9, LoudStep
<1>6. ASSUME UNCHANGED group, End(j), Fault
      PROVE  ProvInv'
  <2>1. Follows(NoJob, r)
    BY <1>2, EndFollows
  <2> QED BY <1>1, <1>3, <1>4, <1>6, <2>1, IdleOK, Quiet DEF End
<1> QED BY <1>5, <1>6 DEF CreateGroup

\* Undo.
LEMMA UndoKeeps ==
  ASSUME ProvInv, NEW j \in Jobs, Undo(j)
  PROVE  ProvInv'
<1> DEFINE r == job[j]
<1>0. PICK x : x = IF r.kind = "gnew" THEN r.group ELSE r.user
  OBVIOUS
<1>1. ProvTyped /\ r \in Job /\ Fit(r) /\ Place(r) /\ dirty \subseteq Items
  BY AtWork
<1>2. /\ r.pc = "undo" /\ r.kind \in Creators \cup {"gnew"} /\ x \in Items
      /\ r.kind = "gnew" => r.group \in Groups /\ x = r.group
      /\ r.kind # "gnew" => r.user \in Users /\ x = r.user
  BY <1>0, <1>1 DEF Undo, Place, Fit, OfUser, OfGroup, Creators, Items
<1>3. vault' = vault /\ vgroup' = vgroup /\ journal' = journal /\ boot' = boot /\ Set(j, NoJob)
  BY DEF Undo, target, End
<1>4. /\ row \in [Users -> Row] /\ group \in [Groups -> Group] /\ ext \in [Users -> Nat]
      /\ journal \subseteq Events /\ excused \subseteq Items /\ refused \subseteq Items
  BY <1>1, TypedParts
<1>5. dirty' \subseteq Items
  BY <1>0, <1>1, <1>2 DEF Undo, Dirty
<1>6. NoJob.pc = "idle"
  BY DEF NoJob
<1>7. /\ \A u \in Users : OwesUser(r, u) => r.kind # "gnew" /\ u = x
      /\ \A g \in Groups : OwesGroup(r, g) => r.kind = "gnew" /\ g = x
  BY <1>0 DEF OwesUser, OwesGroup, Creators
<1>8. ASSUME IF r.kind = "gnew" THEN DeleteGroup(x) /\ UNCHANGED <<row, ext>> ELSE DeleteUser(x),
             refused' = refused \cup {x}, UNCHANGED excused, NoFault
      PROVE  ProvInv'
  <2>1. Removed(x)' /\ refused \subseteq refused' /\ refused' \subseteq Items
    BY <1>2, <1>4, <1>8 DEF Removed
  <2>2. CASE r.kind = "gnew"
    <3>1. row' = row /\ ext' = ext /\ DeleteGroup(r.group)
      BY <1>2, <1>8, <2>2
    <3>2. /\ group' \in [Groups -> Group] /\ group'[r.group].st # "in"
          /\ \A g \in Groups : group'[g].st = group[g].st \/ (g = r.group /\ group'[g].st = "gone")
      BY <1>1, <1>2, <2>2, <3>1, DeleteGroupTyped
    <3>3. \A g \in Groups : group'[g].st = group[g].st \/ (group'[g].st = "gone" /\ Removed(g)')
      BY <1>2, <2>1, <2>2, <3>2
    <3>4. /\ \A u \in Users : ~OwesUser(r, u)
          /\ \A g \in Groups : OwesGroup(r, g) => group'[g].st # "in"
      BY <1>2, <1>7, <2>2, <3>2
    <3> QED BY <1>3, <1>4, <1>5, <1>6, <1>8, <2>1, <3>1, <3>2, <3>3, <3>4, IdleOK, LoudStep
  <2>3. CASE r.kind # "gnew"
    <3>1. DeleteUser(r.user)
      BY <1>2, <1>8, <2>3
    <3>2. /\ row' \in [Users -> Row] /\ ext' \in [Users -> Nat] /\ group' \in [Groups -> Group]
          /\ \A w \in Users : row'[w].st = row[w].st \/ (w = r.user /\ row'[w].st = "gone")
          /\ row'[r.user].st # "in"
          /\ \A g \in Groups : group'[g].st = group[g].st
      BY <1>1, <1>2, <2>3, <3>1, DeleteUserTyped
    <3>3. \A u \in Users : row'[u].st = row[u].st \/ (row'[u].st = "gone" /\ Removed(u)')
      BY <1>2, <2>1, <2>3, <3>2
    <3>4. /\ \A u \in Users : OwesUser(r, u) => row'[u].st # "in"
          /\ \A g \in Groups : ~OwesGroup(r, g)
      BY <1>2, <1>7, <2>3, <3>2
    <3> QED BY <1>3, <1>4, <1>5, <1>6, <1>8, <2>1, <3>2, <3>3, <3>4, IdleOK, LoudStep
  <2> QED BY <2>2, <2>3
<1>9. ASSUME excused' = excused \cup {x}, UNCHANGED <<tables, refused>>, Fault
      PROVE  ProvInv'
  <2>1. row' = row /\ group' = group /\ ext' = ext /\ refused' = refused
    BY <1>9 DEF tables
  <2>2. excused \subseteq excused' /\ excused' \subseteq Items
    BY <1>2, <1>4, <1>9
  <2>3. /\ \A u \in Users : OwesUser(r, u) => u \in excused'
        /\ \A g \in Groups : OwesGroup(r, g) => g \in excused'
    BY <1>7, <1>9
  <2> QED BY <1>3, <1>4, <1>5, <1>6, <1>9, <2>1, <2>2, <2>3, IdleOK, LoudStep
<1> QED BY <1>0, <1>8, <1>9 DEF Undo

\* EraseUser.
LEMMA EraseUserKeeps ==
  ASSUME ProvInv, NEW j \in Jobs, EraseUser(j)
  PROVE  ProvInv'
<1> DEFINE r == job[j]
<1>1. ProvTyped /\ r \in Job /\ Fit(r) /\ Place(r) /\ dirty \subseteq Items
  BY AtWork
<1>2. r.pc = "erase" /\ r.kind = "delete" /\ r.user \in Users /\ <<"deleted", r.user>> \in journal
  BY <1>1 DEF EraseUser, Place, Fit, OfUser, ProvInv, Covered, Erasing
<1>3. /\ vault' = vault /\ vgroup' = vgroup /\ journal' = journal /\ dirty' = dirty
      /\ UNCHANGED marks /\ boot' = boot /\ excused' = excused /\ refused' = refused
  BY DEF EraseUser, target, marks
<1>4. /\ row \in [Users -> Row] /\ group \in [Groups -> Group] /\ ext \in [Users -> Nat]
      /\ vault \in [Users -> Record] /\ vgroup \in [Groups -> TargetGroup]
      /\ journal \subseteq Events /\ excused \subseteq Items /\ refused \subseteq Items
  BY <1>1, TypedParts
<1>5. ASSUME DeleteUser(r.user), NoFault,
             IF r.todo = {} THEN End(j) ELSE Set(j, PushUser(r, "delete", FALSE))
      PROVE  ProvInv'
  <2>1. /\ row' \in [Users -> Row] /\ ext' \in [Users -> Nat] /\ group' \in [Groups -> Group]
        /\ \A w \in Users : row'[w].st = row[w].st \/ (w = r.user /\ row'[w].st = "gone")
        /\ \A g \in Groups : group'[g].st = group[g].st
    BY <1>1, <1>2, <1>5, DeleteUserTyped
  <2>2. \A u \in Users : row'[u].st = row[u].st \/ (row'[u].st = "gone" /\ Removed(u)')
    BY <1>2, <1>3, <2>1 DEF Removed
  <2>3. /\ \A u \in Users : ~OwesUser(r, u)
        /\ \A g \in Groups : ~OwesGroup(r, g)
    BY <1>2 DEF OwesUser, OwesGroup, Creators
  <2>4. PICK v \in {NoJob, PushUser(r, "delete", FALSE)} : Set(j, v)
    BY <1>5 DEF End
  <2>5. "delete" \in Ops \ {"member"} /\ r.kind \in ToUsers /\ NoJob.pc = "idle"
    BY <1>2 DEF Ops, ToUsers, NoJob
  <2>6. v \in Job /\ Fit(v) /\ Place(v) /\ v.pc \in {"idle", "push"}
    <3>1. CASE v = NoJob
      BY <2>5, <3>1, IdleOK
    <3>2. CASE v = PushUser(r, "delete", FALSE)
      <4>1. FALSE \in BOOLEAN
        OBVIOUS
      <4>2. /\ PushUser(r, "delete", FALSE) \in Job /\ Fit(PushUser(r, "delete", FALSE))
            /\ Place(PushUser(r, "delete", FALSE)) /\ PushUser(r, "delete", FALSE).pc = "push"
        BY <1>1, <1>2, <2>5, <4>1, PushUserOK
      <4> QED BY <3>2, <4>2
    <3> QED BY <2>4, <3>1, <3>2
  <2> QED BY <1>1, <1>3, <1>4, <1>5, <2>1, <2>2, <2>3, <2>4, <2>6, LoudStep
<1>6. ASSUME UNCHANGED tables, End(j), Fault
      PROVE  ProvInv'
  <2>1. Follows(NoJob, r)
    BY <1>2, EndFollows DEF Creators
  <2>2. UNCHANGED <<tables, target, journal, marks>>
    BY <1>3, <1>6 DEF target
  <2> QED BY <1>1, <1>3, <1>6, <2>1, <2>2, IdleOK, QuietJob DEF End
<1> QED BY <1>5, <1>6 DEF EraseUser

\* EraseGroup.
LEMMA EraseGroupKeeps ==
  ASSUME ProvInv, NEW j \in Jobs, EraseGroup(j)
  PROVE  ProvInv'
<1> DEFINE r == job[j]
<1>1. ProvTyped /\ r \in Job /\ Fit(r) /\ Place(r) /\ dirty \subseteq Items
  BY AtWork
<1>2. /\ r.pc = "gerase" /\ r.kind = "gdelete" /\ r.group \in Groups /\ r.who = None
      /\ <<"deleted", r.group>> \in journal
  BY <1>1 DEF EraseGroup, Place, Fit, OfGroup, ProvInv, Covered, Erasing
<1>3. /\ row' = row /\ ext' = ext /\ vault' = vault /\ vgroup' = vgroup /\ journal' = journal
      /\ dirty' = dirty /\ UNCHANGED marks
      /\ boot' = boot /\ excused' = excused /\ refused' = refused
  BY DEF EraseGroup, target, marks
<1>4. /\ row \in [Users -> Row] /\ group \in [Groups -> Group] /\ ext \in [Users -> Nat]
      /\ vault \in [Users -> Record] /\ vgroup \in [Groups -> TargetGroup]
      /\ journal \subseteq Events /\ excused \subseteq Items /\ refused \subseteq Items
  BY <1>1, TypedParts
<1>5. ASSUME DeleteGroup(r.group), Go(j, "deleteg"), NoFault
      PROVE  ProvInv'
  <2>1. /\ group' \in [Groups -> Group]
        /\ \A h \in Groups : group'[h].st = group[h].st \/ (h = r.group /\ group'[h].st = "gone")
    BY <1>1, <1>2, <1>5, DeleteGroupTyped
  <2>2. \A g \in Groups : group'[g].st = group[g].st \/ (group'[g].st = "gone" /\ Removed(g)')
    BY <1>2, <1>3, <2>1 DEF Removed
  <2>3. /\ \A u \in Users : ~OwesUser(r, u)
        /\ \A g \in Groups : ~OwesGroup(r, g)
    BY <1>2 DEF OwesUser, OwesGroup, Creators
  <2>4. "deleteg" \in Pcs
    BY DEF Pcs
  <2>5. PICK v \in Job : /\ Set(j, v) /\ Fit(v) /\ v.pc = "deleteg"
                         /\ v.kind = r.kind /\ v.who = r.who
    BY <1>5, <2>4, GoSets
  <2>6. Place(v)
    BY <1>2, <2>5, ProvAssumption DEF Place, UserCalls, GroupCalls, AllKinds
  <2> QED BY <1>1, <1>3, <1>4, <1>5, <2>1, <2>2, <2>3, <2>5, <2>6, LoudStep
<1>6. ASSUME UNCHANGED group, End(j), Fault
      PROVE  ProvInv'
  <2>1. Follows(NoJob, r)
    BY <1>2, EndFollows DEF Creators
  <2> QED BY <1>1, <1>3, <1>4, <1>6, <2>1, IdleOK, Quiet DEF End
<1> QED BY <1>5, <1>6 DEF EraseGroup

\* Audit: what the job owed is on record.
LEMMA AuditKeeps ==
  ASSUME ProvInv, NEW j \in Jobs, Audit(j)
  PROVE  ProvInv'
<1> DEFINE r == job[j]
<1>1. ProvTyped /\ r \in Job /\ Fit(r) /\ Place(r) /\ dirty \subseteq Items
  BY AtWork
<1>2. /\ r.pc = "audit" /\ NoFault /\ Set(j, Audited(r)) /\ dirty' = dirty
      /\ journal' = journal \cup {Event(r)}
  BY DEF Audit
<1>3. /\ row' = row /\ group' = group /\ ext' = ext /\ vault' = vault /\ vgroup' = vgroup
      /\ boot' = boot /\ excused' = excused /\ refused' = refused
  BY DEF Audit, tables, target, marks
<1>4. /\ row \in [Users -> Row] /\ group \in [Groups -> Group] /\ ext \in [Users -> Nat]
      /\ journal \subseteq Events /\ excused \subseteq Items /\ refused \subseteq Items
  BY <1>1, TypedParts
<1>5. journal \subseteq journal' /\ journal' \subseteq Events /\ Event(r) \in journal'
  BY <1>1, <1>2, <1>4, EventTyped
<1>6. /\ \A u \in Users : OwesUser(r, u) => <<"created", u>> \in journal'
      /\ \A g \in Groups : OwesGroup(r, g) => <<"created", g>> \in journal'
  BY <1>5 DEF OwesUser, OwesGroup, Creators, Event
<1>7. PICK v : v = Audited(r)
  OBVIOUS
<1>8. ASSUME v \in Job, Fit(v), Place(v),
             v.pc = "erase" => <<"deleted", v.user>> \in journal',
             v.pc = "gerase" => <<"deleted", v.group>> \in journal',
             v.pc \notin {"count", "promote"}
      PROVE  ProvInv'
  BY <1>1, <1>2, <1>3, <1>4, <1>5, <1>6, <1>7, <1>8, LoudStep
<1>9. CASE r.kind \in {"create", "register"}
  <2>1. "upsert" \in Ops \ {"member"} /\ r.act \in BOOLEAN /\ r.kind \in ToUsers /\ r.user \in Users
    BY <1>1, <1>9 DEF Ops, Job, ToUsers, Fit, OfUser
  <2>2. v = PushUser(r, "upsert", r.act)
    BY <1>7, <1>9 DEF Audited
  <2>3. v \in Job /\ Fit(v) /\ Place(v) /\ v.pc = "push"
    BY <1>1, <2>1, <2>2, PushUserOK
  <2> QED BY <1>8, <2>3
<1>10. CASE r.kind \in {"gnew", "gedit"}
  <2>1. r.kind \in ToGroups /\ r.group \in Groups /\ r.want \in SUBSET Users
    BY <1>1, <1>10 DEF ToGroups, Fit, OfGroup, Job
  <2>2. v = PushGroup(r, r.group, r.want)
    BY <1>7, <1>10 DEF Audited
  <2>3. v \in Job /\ Fit(v) /\ Place(v) /\ v.pc \in {"push", "putg"}
    BY <1>1, <2>1, <2>2, PushGroupOK
  <2> QED BY <1>8, <2>3
<1>11. ASSUME NEW l \in {"reread", "write", "erase", "gerase"}, v = [r EXCEPT !.pc = l],
              \/ l = "reread" /\ r.kind = "new"
              \/ l = "write" /\ r.kind \in {"update", "edit"}
              \/ l = "erase" /\ r.kind = "delete"
              \/ l = "gerase" /\ r.kind = "gdelete"
       PROVE  ProvInv'
  <2>1. l \in Pcs
    BY DEF Pcs
  <2>2. /\ v \in Job /\ v.pc = l /\ v.kind = r.kind /\ v.user = r.user /\ v.group = r.group
        /\ v.form = r.form /\ v.who = r.who
    BY <1>1, <1>11, <2>1, AtLabel
  <2>3. Fit(v)
    BY <1>1, <2>2 DEF Fit
  <2>4. r.kind = "gdelete" => r.who = None
    BY <1>1 DEF Place
  <2>5. Place(v)
    BY <1>11, <2>2, <2>4, ProvAssumption DEF Place, UserCalls, GroupCalls, AllKinds
  <2>6. /\ l = "erase" => <<"deleted", v.user>> \in journal'
        /\ l = "gerase" => <<"deleted", v.group>> \in journal'
    BY <1>5, <1>11, <2>2 DEF Event
  <2> QED BY <1>8, <2>2, <2>3, <2>5, <2>6
<1>12. r.kind \in (OfUser \ {"cli"}) \cup OfGroup
  BY <1>1, <1>2, ProvAssumption DEF Place, Job, AllKinds, OfUser, OfGroup
<1>13. CASE r.kind = "new"
  BY <1>7, <1>11, <1>13 DEF Audited
<1>14. CASE r.kind \in {"update", "edit"}
  BY <1>7, <1>11, <1>14 DEF Audited
<1>15. CASE r.kind = "delete"
  BY <1>7, <1>11, <1>15 DEF Audited
<1>16. CASE r.kind = "gdelete"
  BY <1>7, <1>11, <1>16 DEF Audited
<1> QED BY <1>9, <1>10, <1>12, <1>13, <1>14, <1>15, <1>16 DEF OfUser, OfGroup

\* TargetCreates, TargetLoses: the tables and jobs know nothing of it.
LEMMA TargetKeeps ==
  ASSUME ProvInv, NEW u \in Users, TargetCreates(u) \/ TargetLoses(u)
  PROVE  ProvInv'
<1>1. ProvTyped /\ Covered /\ First
  BY DEF ProvInv
<1>2. /\ row' = row /\ group' = group /\ ext' = ext /\ job' = job /\ journal' = journal
      /\ boot' = boot /\ excused' = excused /\ refused' = refused /\ Fault
  BY DEF TargetCreates, TargetLoses, tables, marks
<1>3. vault \in [Users -> Record] /\ vgroup \in [Groups -> TargetGroup] /\ dirty \subseteq Items
  BY <1>1, TypedParts
<1>4. vault' \in [Users -> Record] /\ vgroup' \in [Groups -> TargetGroup]
  <2>1. CASE TargetCreates(u)
    <3>1. vault[u].n + 1 \in Nat
      BY <1>3 DEF Record
    <3>2. [n |-> vault[u].n + 1, on |-> TRUE, linked |-> FALSE, active |-> TRUE] \in Record
      BY <3>1 DEF Record
    <3> QED BY <1>3, <2>1, <3>2 DEF TargetCreates
  <2>2. CASE TargetLoses(u)
    <3>1. [vault[u] EXCEPT !.on = FALSE] \in Record
      BY <1>3 DEF Record
    <3>2. \A g \in Groups : [vgroup[g] EXCEPT !.members = @ \ {u}] \in TargetGroup
      BY <1>3 DEF TargetGroup
    <3> QED BY <1>3, <2>2, <3>1, <3>2 DEF TargetLoses
  <2> QED BY <2>1, <2>2
<1>5. dirty' \subseteq Items
  BY <1>3 DEF TargetCreates, TargetLoses, Dirty, Items
<1>6. starts' \in Nat /\ faults' \in Nat
  BY <1>1, <1>2, BoundsTyped
<1>7. ProvTyped'
  BY <1>1, <1>2, <1>4, <1>5, <1>6, TypedParts DEF ProvTyped, ProvTypeOK
<1>8. Covered'
  BY <1>1, <1>2
  DEF Covered, UserCovered, GroupCovered, Removed, Erasing, OwesUser, OwesGroup, Unsettled
<1>9. First'
  BY <1>1, <1>2 DEF First, Counted, In
<1> QED BY <1>7, <1>8, <1>9 DEF ProvInv

-----------------------------------------------------------------------------
(* The theorems.                                                           *)

\* It holds at the beginning.
LEMMA InitInv == Init => ProvInv
<1> SUFFICES ASSUME Init PROVE ProvInv
  OBVIOUS
<1>1. \A j \in Jobs : job[j] = NoJob
  BY DEF Init
<1>2. ProvTyped
  <2>1. row \in [Users -> Row]
    BY DEF Init, Row
  <2>2. group \in [Groups -> Group]
    BY DEF Init, Group
  <2>3. vault \in [Users -> Record]
    BY DEF Init, Record
  <2>4. vgroup \in [Groups -> TargetGroup]
    BY DEF Init, TargetGroup
  <2>5. job \in [Jobs -> Job] /\ \A j \in Jobs : Fit(job[j]) /\ Place(job[j])
    BY <1>1, IdleOK DEF Init
  <2> QED BY <2>1, <2>2, <2>3, <2>4, <2>5 DEF Init, ProvTyped, ProvTypeOK
<1>3. NoJob.pc = "idle"
  BY DEF NoJob
<1>4. Covered
  BY <1>1, <1>3 DEF Init, Covered, UserCovered, GroupCovered, Erasing
<1>5. First
  <2>1. In = {}
    BY DEF Init, In
  <2> QED BY <1>1, <1>3, <2>1, FS_EmptySet DEF Init, First, Counted
<1> QED BY <1>2, <1>4, <1>5 DEF ProvInv

\* Every step keeps it.
LEMMA NextInv == ProvInv /\ [Next]_vars => ProvInv'
<1> SUFFICES ASSUME ProvInv, [Next]_vars PROVE ProvInv'
  OBVIOUS
<1>1. ASSUME NEW j \in Jobs, Begin(j)
      PROVE  ProvInv'
  <2>1. ASSUME NEW u \in Users, AdminCreate(j, u) \/ Register(j, u)
        PROVE  ProvInv'
    BY <2>1, CreateUserKeeps DEF AdminCreate, Register
  <2>2. ASSUME NEW u \in Users, NEW f \in Forms, PortalNew(j, u, f) \/ CommandCreate(j, u, f)
        PROVE  ProvInv'
    BY <2>2, CreateUserKeeps DEF PortalNew, CommandCreate
  <2> QED BY <1>1, <2>1, <2>2, UserJobKeeps, GroupJobKeeps, SyncBeginKeeps DEF Begin
<1>2. ASSUME NEW j \in Jobs, Handle(j)
      PROVE  ProvInv'
  BY <1>2, CountUsersKeeps, PromoteKeeps, SetFlagsKeeps, DeleteUnreadKeeps, CreateGroupKeeps,
     UpdateGroupKeeps, StoreMembersKeeps, AuditKeeps, AuditFailsKeeps, UndoKeeps, WriteKeeps,
     SetAdminKeeps, ListGroupsKeeps, ChangeMemberKeeps, ReadGroupKeeps, RereadKeeps,
     EraseUserKeeps, EraseGroupKeeps
  DEF Handle, SetFlags
<1>3. ASSUME NEW j \in Jobs, Provision(j)
      PROVE  ProvInv'
  BY <1>3, LookUpKeeps, FindKeeps, CallUserKeeps, ForgetKeeps, PostKeeps, RememberKeeps,
     CallGroupKeeps, CallFailsKeeps
  DEF Provision
<1>4. CASE UNCHANGED vars
  BY <1>4
  DEF vars, ProvInv, ProvTyped, ProvTypeOK, Covered, UserCovered, GroupCovered, Removed, Erasing,
      OwesUser, OwesGroup, Unsettled, First, Counted, In
<1> QED BY <1>1, <1>2, <1>3, <1>4, CrashKeeps, TargetKeeps DEF Next

\* Every reachable state satisfies the invariant.
THEOREM ProvInvariant == Spec => []ProvInv
BY InitInv, NextInv, PTL DEF Spec

\* The tables, the target and what the jobs carry are well typed.
THEOREM ProvisioningTyped == Spec => []ProvTypeOK
<1>1. ProvInv => ProvTypeOK
  BY DEF ProvInv, ProvTyped
<1> QED BY <1>1, ProvInvariant, PTL

\* undoOnAuditFailure and the order of statements and events: however jobs
\* interleave and wherever they fail, the journal accounts for the rows that are
\* there, and for the rows that are gone.
THEOREM JournalCoversTables == Spec => []JournalCovers
<1>1. ProvInv => JournalCovers
  <2> SUFFICES ASSUME ProvInv, NEW x \in Items
               PROVE  LET st == IF x \in Users THEN row[x].st ELSE group[x].st
                      IN  /\ st = "in" /\ x \notin excused /\ ~Creating(x) => <<"created", x>> \in journal
                          /\ st = "gone" => <<"deleted", x>> \in journal \/ x \in refused
    BY DEF JournalCovers
  <2>1. ASSUME NEW j \in Jobs, OwesUser(job[j], x) \/ OwesGroup(job[j], x)
        PROVE  Creating(x)
    <3>1. j \in Busy
      BY <2>1, IdleOwesNothing DEF Busy, OwesUser, OwesGroup, Unsettled, UserCalls, GroupCalls
    <3> QED BY <2>1, <3>1 DEF Creating, OwesUser, OwesGroup, Creators
  <2>2. CASE x \in Users
    BY <2>1, <2>2 DEF ProvInv, Covered, UserCovered, Removed
  <2>3. CASE x \notin Users
    BY <2>1, <2>3 DEF ProvInv, Covered, GroupCovered, Removed, Items
  <2> QED BY <2>2, <2>3
<1> QED BY <1>1, ProvInvariant, PTL

\* promoteIfFirstUser counts in one statement and promotes in another: still at
\* most one user of the table is administrator for being the first.
THEOREM BootstrapAdminIsUnique == Spec => []OneBootstrapAdmin
<1>1. ProvInv => OneBootstrapAdmin
  <2> SUFFICES ASSUME ProvInv PROVE Cardinality(boot \cap In) <= 1
    BY DEF OneBootstrapAdmin
  <2>1. \A u, w \in boot \cap In : u = w
    BY DEF ProvInv, First, Counted
  <2>2. CASE boot \cap In = {}
    BY <2>2, FS_EmptySet
  <2>3. ASSUME NEW u \in boot \cap In
        PROVE  Cardinality(boot \cap In) <= 1
    <3>1. boot \cap In = {u}
      BY <2>1
    <3>2. Cardinality({u}) = 1
      BY FS_Singleton
    <3> QED BY <3>1, <3>2
  <2> QED BY <2>2, <2>3
<1> QED BY <1>1, ProvInvariant, PTL

-----------------------------------------------------------------------------
(* The target against the tables.                                          *)
(*                                                                         *)
(* What nobody has in hand and nothing failed for agrees.  What a job has  *)
(* for itself either agrees or is on the job's way: the invariant says,    *)
(* for each label, what the job has read that still holds, and what it is  *)
(* about to tell the target.                                               *)

\* The target's record of a user against the row: it is what UsersAgree asks
\* for; there is none; it is linked and cached; it is linked and active alike.
Agrees(u) ==
  IF u \in In
  THEN vault[u].on /\ vault[u].linked /\ vault[u].active = row[u].active /\ ext[u] = vault[u].n
  ELSE ~vault[u].on
Off(u) == ~vault[u].on
Known(u) == u \in In /\ vault[u].on /\ vault[u].linked /\ ext[u] = vault[u].n
Current(u) == u \in In /\ vault[u].on /\ vault[u].linked /\ vault[u].active = row[u].active
Is(u, a) == u \in In /\ row[u].active = a

\* What each job carries.
Works == {job[j] : j \in Jobs}

\* A job has x for itself.
Owns(v, x) == v.pc # "idle" /\ x \in Touches(v) /\ x \notin v.shared

\* A job pushes users: as members of a group, or for their own sake.
AtUsers(v) == v.pc \in {"push"} \cup UserCalls
ForMember(v) == AtUsers(v) /\ v.op = "member"
ForUser(v) == AtUsers(v) /\ v.op # "member"

\* What two jobs touch, both share; what is shared is dirty.
Sharing ==
  /\ \A j \in Busy : job[j].shared \subseteq Touches(job[j]) \cap dirty
  /\ \A i, j \in Busy : i # j => Touches(job[i]) \cap Touches(job[j]) \subseteq job[i].shared

\* Which push leads to which call, for whom, and what was read before it.
CallShape(v) ==
  /\ v.pc = "patch" => v.op = "upsert"
  /\ v.pc = "setoff" => v.op = "deactivate"
  /\ v.pc = "remove" => v.op = "delete"
  /\ v.pc = "post" => v.op \in {"upsert", "member"}
  /\ v.pc = "forget" => v.op # "member"
  /\ v.pc = "find" => v.op # "upsert"
  /\ v.pc \notin UserCalls => v.who = None
PushShape(v) ==
  ForUser(v) =>
    /\ v.op = "delete" <=> v.kind = "delete"
    /\ v.op = "deactivate" => v.kind \in {"update", "edit"} /\ ~v.form.active
    /\ v.kind # "sync" => IF v.pc = "push" THEN v.todo = {v.user} ELSE v.todo = {} /\ v.who = v.user
ListShape(v) ==
  /\ AtUsers(v) /\ (v.op = "member" \/ v.kind = "sync") =>
       /\ \A w \in v.todo : v.list[w] # "none"
       /\ v.pc # "push" => v.list[v.who] # "none"
  /\ (\/ v.kind \in {"create", "register", "cli", "update", "delete"}
      \/ v.pc \in {"flags", "isadmin", "write"}
      \/ v.kind = "edit" /\ v.pc = "audit")
     => v.list = Nobody
OwnShape(v) ==
  /\ v.kind \notin OfUser => v.user = None
  /\ v.kind = "delete" /\ v.pc \in {"audit", "erase"} => v.todo \subseteq {v.user}
Shape(v) == CallShape(v) /\ PushShape(v) /\ ListShape(v) /\ OwnShape(v)

\* A deletion: the row was there, and is gone once it has been deleted.
Lost(v) ==
  v.kind = "delete" => /\ row[v.user].st # "new"
                       /\ v.pc \notin {"audit", "erase"} => row[v.user].st = "gone"

\* What always holds of the tables and of the target.
UserAt(u) ==
  /\ u \notin In => ext[u] = 0
  /\ vault[u].on => vault[u].n # 0
  /\ vault[u].on /\ ~vault[u].linked => u \in dirty
GroupAt(g) ==
  /\ group[g].members \subseteq In
  /\ group[g].st # "in" => group[g].members = {}
  /\ \A u \in vgroup[g].members : vault[u].on
  /\ ~vgroup[g].on => vgroup[g].members = {}

\* An update or an edit has changed the row.
Written(v) ==
  \/ v.pc \in {"admin", "glist", "gwrite", "gread", "reread"} \cup GroupCalls
  \/ AtUsers(v)

\* A new user without groups: there is nothing to push before the user.
Alone(v, u) ==
  /\ v.groups = {} /\ v.pc \notin {"gwrite", "gread"} \cup GroupCalls /\ ~ForMember(v)
  /\ v.pc \in {"flags", "isadmin", "glist"} => \A g \in Groups : u \notin group[g].members

\* What job v, which has user u for itself, has read of u still holds.
OwnRead(v, u) ==
  /\ v.kind \in {"create", "register"} => Is(u, v.act)
  /\ v.kind \in {"new", "update", "edit"} => u \in In
  /\ v.kind \in {"update", "edit"} /\ Written(v) => Is(u, v.form.active)
  /\ v.kind \in {"new", "update", "edit"} /\ ForUser(v) => Is(u, v.act)
  /\ v.kind = "delete" => (u \in In <=> v.pc \in {"audit", "erase"})
  /\ v.kind = "new" /\ v.form.groups = {} => Alone(v, u)
Read(v, u) ==
  /\ v.list[u] \in {"none", ListUsers[u]}
  /\ v.who = u /\ v.pc \in {"patch", "setoff"} => ext[u] = v.vid
  /\ v.user = u => OwnRead(v, u)

\* Why the target may differ: the id is about to be stored; a new user has not
\* been pushed; nor has the change of a row; nor has the deletion of one.
Made(v) == v.pc = "remember" /\ v.op \in {"upsert", "member"}
Unborn(v) ==
  /\ v.kind \in Creators
  /\ \/ Unsettled(v) \/ v.pc = "reread"
     \/ v.op = "upsert" /\ v.pc \in {"push", "patch", "forget", "post"}
Outdated(v) ==
  /\ v.kind \in {"update", "edit"} /\ Written(v)
  /\ ForUser(v) => v.pc \in {"push", "patch", "setoff"}
Doomed(v) == v.kind = "delete" /\ v.pc \in {"push", "find", "remember", "remove"}
Due(v, u) ==
  \/ v.who = u /\ Made(v) /\ Current(u)
  \/ v.user = u /\ Unborn(v) /\ Off(u)
  \/ v.user = u /\ Outdated(v) /\ Known(u)
  \/ v.user = u /\ Doomed(v) /\ u \notin In

\* The target has not heard of the user yet, not even as a member.
Untold(v) ==
  /\ v.kind \in Creators /\ Unsettled(v)
  /\ v.kind = "new" => v.form.groups = {} \/ v.pc \in {"flags", "isadmin"}

\* The target's record of user u, for which nothing failed.
OwnClean(v, u) ==
  /\ v.kind # "cli"
  /\ v.kind = "delete" /\ v.pc \in {"audit", "erase"} => v.todo # {}
  /\ Untold(v) => Off(u)
CallClean(v, u) ==
  /\ v.pc \in {"remember", "remove"} => vault[u].n = v.vid
  /\ v.pc = "forget" => Off(u)
Clean(v, u) ==
  /\ Agrees(u) \/ Due(v, u)
  /\ v.user = u => OwnClean(v, u)
  /\ v.who = u => CallClean(v, u)

UserOK(v, u) == Read(v, u) /\ (u \in dirty \/ Clean(v, u))
UsersOK ==
  /\ \A v \in Works, u \in Users : Owns(v, u) => UserOK(v, u)
  /\ \A u \in Users \ dirty : Agrees(u) \/ \E v \in Works : Owns(v, u)

\* Groups: the members of a group at the target, of the table, and those read
\* by a job may differ in users that are gone.
Gone == {u \in Users : row[u].st = "gone"}
Close(S, T) == S \ T \subseteq Gone /\ T \ S \subseteq Gone
AgreesG(g) == vgroup[g].on = (group[g].st = "in") /\ Close(vgroup[g].members, group[g].members)

\* Job v is on its way to push group g; or to read it again; or has stored it.
Sends(v, g) == v.group = g /\ (v.pc \in GroupCalls \/ ForMember(v))
Rereads(v, g) == v.group = g /\ v.pc = "gread"
Stored(v, g) == v.group = g /\ v.kind \in {"gnew", "gedit"} /\ v.pc = "audit"

\* What job v, which has group g for itself, has read of g still holds.
OwnReadG(v, g) ==
  /\ v.kind = "gnew" => group[g].st = (IF v.pc = "gcreate" THEN "new" ELSE "in")
  /\ v.kind = "gedit" => group[g].st = "in"
  /\ v.kind = "gdelete" => group[g].st = (IF v.pc = "deleteg" THEN "gone" ELSE "in") /\ v.want = {}
ReadG(v, g) ==
  /\ Sends(v, g) \/ Stored(v, g) => group[g].st = "in" /\ Close(v.want, group[g].members)
  /\ v.kind = "sync" /\ g \in v.groups => group[g].st = "in" /\ Close(v.glist[g], group[g].members)
  /\ v.kind \in {"new", "edit"} /\ (g \in v.groups \/ Rereads(v, g)) => group[g].st = "in"
  /\ v.group = g => OwnReadG(v, g)

\* The target's record of group g, for which nothing failed.
DueG(v, g) ==
  \/ Sends(v, g) \/ Rereads(v, g)
  \/ v.group = g /\ v.kind \in {"gnew", "gedit"} /\ v.pc \in {"gmembers", "audit", "undo"}
  \/ v.group = g /\ v.pc = "deleteg"
CleanG(v, g) ==
  /\ AgreesG(g) \/ DueG(v, g)
  /\ v.group = g /\ v.kind = "gnew" /\ v.pc \in {"gcreate", "gmembers", "audit", "undo"} => ~vgroup[g].on
  /\ v.group = g /\ v.kind = "gedit" /\ v.pc \in {"gupdate", "gmembers"} => AgreesG(g)
GroupOK(v, g) == ReadG(v, g) /\ (g \in dirty \/ CleanG(v, g))
GroupsOK ==
  /\ \A v \in Works, g \in Groups : Owns(v, g) => GroupOK(v, g)
  /\ \A g \in Groups \ dirty : AgreesG(g) \/ \E v \in Works : Owns(v, g)

AgreeInv ==
  /\ Sharing
  /\ \A v \in Works : Shape(v) /\ Lost(v)
  /\ (\A u \in Users : UserAt(u)) /\ (\A g \in Groups : GroupAt(g))
  /\ UsersOK /\ GroupsOK

-----------------------------------------------------------------------------
(* What a step leaves of the agreement.                                    *)

\* Two states of a job that differ at most in what it shares.
Twin(v, w) ==
  /\ Alike(v, w)
  /\ v.list = w.list /\ v.glist = w.glist /\ v.groups = w.groups /\ v.want = w.want
  /\ v.todo = w.todo /\ v.act = w.act /\ v.vid = w.vid

\* The row and the cached id of u stay, and memberships do not come.
SameRow(u) ==
  /\ row'[u].st = row[u].st /\ row'[u].active = row[u].active /\ ext'[u] = ext[u]
  /\ \A g \in Groups : u \in group'[g].members => u \in group[g].members

\* The target's record of u stays, or u is dirty from now on.
SameRecord(u) == u \in dirty' \/ (u \notin dirty /\ vault'[u] = vault[u])

\* What is said of a user's row.
LEMMA SameIn ==
  ASSUME NEW u \in Users, SameRow(u)
  PROVE  (u \in In)' <=> u \in In
BY DEF In, SameRow

\* ListUsers lists the user as before.
LEMMA SameList ==
  ASSUME NEW u \in Users, SameRow(u)
  PROVE  (ListUsers[u])' = ListUsers[u]
<1>1. u \in In' <=> u \in In
  BY SameIn
<1>2. ListUsers[u] = IF u \notin In THEN "none" ELSE IF row[u].active THEN "on" ELSE "off"
  BY DEF ListUsers
<1>3. (ListUsers[u])' = IF u \notin In' THEN "none" ELSE IF row'[u].active THEN "on" ELSE "off"
  BY DEF ListUsers
<1> QED BY <1>1, <1>2, <1>3 DEF SameRow

\* It has a row, and is active, as before.
LEMMA SameIs ==
  ASSUME NEW u \in Users, SameRow(u), NEW a, Is(u, a)
  PROVE  Is(u, a)'
<1>1. u \in In' <=> u \in In
  BY SameIn
<1> QED BY <1>1 DEF Is, SameRow

\* What is said of its record at the target.
LEMMA SameTold ==
  ASSUME NEW u \in Users, SameRow(u), vault'[u] = vault[u]
  PROVE  /\ Agrees(u) => Agrees(u)'
         /\ Off(u) => Off(u)'
         /\ Known(u) => Known(u)'
         /\ Current(u) => Current(u)'
<1>1. u \in In' <=> u \in In
  BY SameIn
<1>2. Agrees(u) => Agrees(u)'
  BY <1>1 DEF Agrees, SameRow
<1>3. Off(u) => Off(u)'
  BY DEF Off
<1>4. Known(u) => Known(u)'
  BY <1>1 DEF Known, SameRow
<1>5. Current(u) => Current(u)'
  BY <1>1 DEF Current, SameRow
<1> QED BY <1>2, <1>3, <1>4, <1>5

\* The labels of a job say the same of its twin.
LEMMA TwinLabels ==
  ASSUME NEW v, NEW w, Twin(v, w)
  PROVE  /\ (AtUsers(v) <=> AtUsers(w))
         /\ (ForUser(v) <=> ForUser(w)) /\ (ForMember(v) <=> ForMember(w))
         /\ (Written(v) <=> Written(w)) /\ (Unsettled(v) <=> Unsettled(w))
         /\ (Made(v) <=> Made(w)) /\ (Unborn(v) <=> Unborn(w)) /\ (Outdated(v) <=> Outdated(w))
         /\ (Doomed(v) <=> Doomed(w)) /\ (Untold(v) <=> Untold(w))
<1>1. v.pc = w.pc /\ v.kind = w.kind /\ v.op = w.op /\ v.form = w.form
  BY DEF Twin, Alike
<1>2. (AtUsers(v) <=> AtUsers(w))
  BY <1>1 DEF AtUsers
<1>3. (ForUser(v) <=> ForUser(w)) /\ (ForMember(v) <=> ForMember(w))
  BY <1>1, <1>2 DEF ForUser, ForMember
<1>4. (Written(v) <=> Written(w)) /\ (Unsettled(v) <=> Unsettled(w))
  BY <1>1, <1>2 DEF Written, Unsettled
<1>5. (Made(v) <=> Made(w)) /\ (Unborn(v) <=> Unborn(w)) /\ (Outdated(v) <=> Outdated(w))
  BY <1>1, <1>3, <1>4 DEF Made, Unborn, Outdated
<1>6. (Doomed(v) <=> Doomed(w)) /\ (Untold(v) <=> Untold(w))
  BY <1>1, <1>4 DEF Doomed, Untold
<1> QED BY <1>2, <1>3, <1>4, <1>5, <1>6

\* A job's view of a user stays while the row does.
LEMMA TwinRead ==
  ASSUME NEW v, NEW w, Twin(v, w), NEW u \in Users, SameRow(u), Read(v, u)
  PROVE  Read(w, u)'
<1>0. /\ v.pc = w.pc /\ v.kind = w.kind /\ v.user = w.user /\ v.form = w.form /\ v.who = w.who
      /\ v.list = w.list /\ v.act = w.act /\ v.vid = w.vid /\ v.groups = w.groups
  BY DEF Twin, Alike
<1>1. (u \in In)' <=> u \in In
  BY SameIn
<1>2. w.list[u] \in {"none", (ListUsers[u])'}
  BY <1>0, SameList DEF Read
<1>3. w.who = u /\ w.pc \in {"patch", "setoff"} => ext'[u] = w.vid
  BY <1>0 DEF Read, SameRow
<1>4. ASSUME w.user = u PROVE OwnRead(w, u)'
  <2>1. OwnRead(v, u)
    BY <1>0, <1>4 DEF Read
  <2>2. ASSUME NEW a, Is(u, a) PROVE Is(u, a)'
    BY <2>2, SameIs
  <2>3. Alone(v, u) => Alone(w, u)'
    BY <1>0, TwinLabels DEF Alone, SameRow
  <2> QED BY <1>0, <1>1, <2>1, <2>2, <2>3, TwinLabels DEF OwnRead
<1> QED BY <1>2, <1>3, <1>4 DEF Read

\* A record that agrees, or is due, stays so while row and record do.
LEMMA TwinClean ==
  ASSUME NEW v, NEW w, Twin(v, w), NEW u \in Users, SameRow(u), vault'[u] = vault[u], Clean(v, u)
  PROVE  Clean(w, u)'
<1>0. /\ v.pc = w.pc /\ v.kind = w.kind /\ v.user = w.user /\ v.who = w.who
      /\ v.todo = w.todo /\ v.vid = w.vid
  BY DEF Twin, Alike
<1>1. (u \in In)' <=> u \in In
  BY SameIn
<1>2. (Agrees(u) \/ Due(v, u)) => (Agrees(u) \/ Due(w, u))'
  BY <1>0, <1>1, SameTold, TwinLabels DEF Due
<1>3. OwnClean(v, u) => OwnClean(w, u)'
  BY <1>0, SameTold, TwinLabels DEF OwnClean
<1>4. CallClean(v, u) => CallClean(w, u)'
  BY <1>0, SameTold DEF CallClean
<1> QED BY <1>0, <1>2, <1>3, <1>4 DEF Clean

\* Both together: what one job knows of a user, another's step leaves alone.
LEMMA TwinUser ==
  ASSUME NEW v, NEW w, Twin(v, w), NEW u \in Users, SameRow(u), SameRecord(u), UserOK(v, u)
  PROVE  UserOK(w, u)'
<1>1. Read(w, u)'
  BY TwinRead DEF UserOK
<1>2. u \in dirty' \/ Clean(w, u)'
  BY TwinClean DEF UserOK, SameRecord
<1> QED BY <1>1, <1>2 DEF UserOK

\* The members of g at most lose users that are gone.
SameGroup(g) ==
  /\ group'[g].st = group[g].st /\ group'[g].members \subseteq group[g].members
  /\ group[g].members \ group'[g].members \subseteq Gone'
SameTarget(g) == g \in dirty' \/ (g \notin dirty /\ vgroup'[g] = vgroup[g])

\* Members that differ in users that are gone go on doing so.
LEMMA SameClose ==
  ASSUME NEW g \in Groups, SameGroup(g), Gone \subseteq Gone', NEW S, Close(S, group[g].members)
  PROVE  Close(S, group[g].members)'
BY DEF Close, SameGroup

\* The target's record of a group that the step leaves alone still agrees.
LEMMA SameAgreesG ==
  ASSUME NEW g \in Groups, SameGroup(g), Gone \subseteq Gone', vgroup'[g] = vgroup[g], AgreesG(g)
  PROVE  AgreesG(g)'
<1>1. Close(vgroup[g].members, group[g].members)'
  BY DEF AgreesG, Close, SameGroup
<1> QED BY <1>1 DEF AgreesG, SameGroup

\* A job's view of a group stays while the group does.
LEMMA TwinGroup ==
  ASSUME NEW v, NEW w, Twin(v, w), NEW g \in Groups, SameGroup(g), SameTarget(g),
         Gone \subseteq Gone', GroupOK(v, g)
  PROVE  GroupOK(w, g)'
<1>0. /\ v.pc = w.pc /\ v.kind = w.kind /\ v.group = w.group
      /\ v.glist = w.glist /\ v.groups = w.groups /\ v.want = w.want
      /\ (ForMember(v) <=> ForMember(w))
  BY TwinLabels DEF Twin, Alike
<1>1. /\ Sends(v, g) <=> Sends(w, g)
      /\ Rereads(v, g) <=> Rereads(w, g)
      /\ Stored(v, g) <=> Stored(w, g)
      /\ DueG(v, g) <=> DueG(w, g)
  BY <1>0 DEF Sends, Rereads, Stored, DueG
<1>2. group'[g].st = group[g].st
  BY DEF SameGroup
<1>3. ReadG(w, g)'
  <2>1. OwnReadG(v, g) => OwnReadG(w, g)'
    BY <1>0, <1>2 DEF OwnReadG
  <2> QED BY <1>0, <1>1, <1>2, <2>1, SameClose DEF GroupOK, ReadG
<1>4. ASSUME g \notin dirty' PROVE CleanG(w, g)'
  <2>1. CleanG(v, g) /\ vgroup'[g] = vgroup[g]
    BY <1>4 DEF SameTarget, GroupOK
  <2> QED BY <1>0, <1>1, <2>1, SameAgreesG DEF CleanG
<1> QED BY <1>3, <1>4 DEF GroupOK

\* Job j, at work, goes on to v.  What it touches stays; it comes to share only
\* what is dirty; what it takes off dirty it has for itself.
Step(j, v) ==
  /\ job[j].pc # "idle" /\ Set(j, v)
  /\ \/ v.pc = "idle"
     \/ /\ Touches(v) = Touches(job[j])
        /\ job[j].shared \subseteq v.shared
        /\ v.shared \subseteq job[j].shared \cup (Touches(job[j]) \cap dirty')
  /\ \A x \in dirty \ dirty' : Owns(job[j], x)

\* What j does not touch, the step leaves alone.
Local(j) ==
  /\ \A u \in Users \ Touches(job[j]) : SameRow(u) /\ vault'[u] = vault[u]
  /\ \A g \in Groups \ Touches(job[j]) : SameGroup(g) /\ vgroup'[g] = vgroup[g]
  /\ Gone \subseteq Gone'

\* The jobs after a step of j: v in place of j's, and the others.
LEMMA StepJobs ==
  ASSUME ProvTyped, NEW j \in Jobs, NEW v, Step(j, v)
  PROVE  /\ job'[j] = v /\ \A i \in Jobs \ {j} : job'[i] = job[i]
         /\ j \in Busy
         /\ \A w \in Works' : w = v \/ \E i \in Jobs \ {j} : w = job[i]
         /\ v \in Works' /\ \A i \in Jobs \ {j} : job[i] \in Works'
<1>1. job \in [Jobs -> Job] /\ job' = [job EXCEPT ![j] = v] /\ job[j].pc # "idle"
  BY TypedParts DEF Step, Set
<1>2. job'[j] = v /\ \A i \in Jobs \ {j} : job'[i] = job[i]
  BY <1>1
<1>3. j \in Busy
  BY <1>1 DEF Busy
<1>4. Works' = {job'[i] : i \in Jobs}
  BY DEF Works
<1> QED BY <1>2, <1>3, <1>4

\* What two jobs touch, both share, after a step of one of them as well.
LEMMA StepSharing ==
  ASSUME ProvTyped, Sharing, NEW j \in Jobs, NEW v, Step(j, v)
  PROVE  Sharing'
<1>1. /\ job'[j] = v /\ (\A i \in Jobs \ {j} : job'[i] = job[i]) /\ j \in Busy
  BY StepJobs
<1>2. Busy' \subseteq Busy /\ Busy \subseteq Jobs /\ \A i \in Busy' : job'[i].pc # "idle"
  BY <1>1 DEF Busy
<1>3. PICK T : T = Touches(job[j])
  OBVIOUS
<1>4. \A x \in dirty \ dirty' : x \in T /\ x \notin job[j].shared
  BY <1>3 DEF Step, Owns
<1>5. j \in Busy' => /\ Touches(job'[j]) = T /\ job[j].shared \subseteq job'[j].shared
                     /\ job'[j].shared \subseteq job[j].shared \cup (T \cap dirty')
  BY <1>1, <1>2, <1>3 DEF Step
<1>6. ASSUME NEW i \in Busy' PROVE job'[i].shared \subseteq Touches(job'[i]) \cap dirty'
  <2>1. CASE i = j
    <3>1. job[j].shared \subseteq T \cap dirty
      BY <1>1, <1>3 DEF Sharing
    <3> QED BY <1>4, <1>5, <2>1, <3>1
  <2>2. CASE i # j
    <3>1. i \in Busy /\ job'[i] = job[i]
      BY <1>1, <1>2, <2>2
    <3>2. /\ job[i].shared \subseteq Touches(job[i]) \cap dirty
          /\ Touches(job[j]) \cap Touches(job[i]) \subseteq job[j].shared
      BY <1>1, <2>2, <3>1 DEF Sharing
    <3> QED BY <1>3, <1>4, <3>1, <3>2
  <2> QED BY <2>1, <2>2
<1>7. ASSUME NEW i \in Busy', NEW k \in Busy', i # k
      PROVE  Touches(job'[i]) \cap Touches(job'[k]) \subseteq job'[i].shared
  <2>1. i \in Busy /\ k \in Busy
    BY <1>2
  <2>2. Touches(job[i]) \cap Touches(job[k]) \subseteq job[i].shared
    BY <1>7, <2>1 DEF Sharing
  <2>3. CASE i = j
    <3>1. job'[k] = job[k]
      BY <1>1, <1>2, <1>7, <2>1, <2>3
    <3> QED BY <1>3, <1>5, <2>2, <2>3, <3>1
  <2>4. CASE k = j
    <3>1. job'[i] = job[i]
      BY <1>1, <1>2, <1>7, <2>1, <2>4
    <3> QED BY <1>3, <1>5, <2>2, <2>4, <3>1
  <2>5. CASE i # j /\ k # j
    <3>1. job'[i] = job[i] /\ job'[k] = job[k]
      BY <1>1, <1>2, <2>1, <2>5
    <3> QED BY <2>2, <3>1
  <2> QED BY <2>3, <2>4, <2>5
<1> QED BY <1>6, <1>7 DEF Sharing

\* Another job that has x for itself: j does not touch it.
LEMMA OwnsAlone ==
  ASSUME Sharing, NEW i \in Jobs, NEW j \in Jobs, i # j, job[j].pc # "idle",
         NEW x, Owns(job[i], x)
  PROVE  x \notin Touches(job[j])
<1>1. i \in Busy /\ j \in Busy
  BY DEF Owns, Busy
<1>2. Touches(job[i]) \cap Touches(job[j]) \subseteq job[i].shared
  BY <1>1 DEF Sharing
<1> QED BY <1>2 DEF Owns

\* What j takes off dirty, or touches and finds clean, it has for itself, and
\* goes on having unless it ends.
LEMMA StepOwns ==
  ASSUME Sharing, NEW j \in Jobs, NEW v, Step(j, v), NEW x, x \notin dirty',
         x \in dirty \/ x \in Touches(job[j])
  PROVE  Owns(job[j], x) /\ (v.pc # "idle" => Owns(v, x))
<1>1. Owns(job[j], x)
  <2>1. CASE x \in dirty
    BY <2>1 DEF Step
  <2>2. CASE x \notin dirty /\ x \in Touches(job[j])
    <3>1. j \in Busy
      BY DEF Step, Busy
    <3>2. job[j].shared \subseteq dirty
      BY <3>1 DEF Sharing
    <3> QED BY <2>2, <3>2 DEF Step, Owns
  <2> QED BY <2>1, <2>2
<1>2. v.pc # "idle" => Owns(v, x)
  BY <1>1 DEF Owns, Step
<1> QED BY <1>1, <1>2

\* Users after a step of j: j answers for those it had for itself.
LEMMA StepUsers ==
  ASSUME ProvTyped, Sharing, UsersOK, NEW j \in Jobs, NEW v, Step(j, v), Local(j),
         \A u \in Users : Owns(job[j], u) =>
           IF v.pc = "idle" THEN u \in dirty' \/ Agrees(u)' ELSE u \in v.shared \/ UserOK(v, u)'
  PROVE  UsersOK'
<1>1. /\ \A w \in Works' : w = v \/ \E i \in Jobs \ {j} : w = job[i]
      /\ v \in Works' /\ \A i \in Jobs \ {j} : job[i] \in Works'
  BY StepJobs
<1>2. job[j].pc # "idle"
  BY DEF Step
<1>3. ASSUME NEW u \in Users, u \notin Touches(job[j])
      PROVE  SameRow(u) /\ vault'[u] = vault[u] /\ (u \in dirty => u \in dirty') /\ SameRecord(u)
  BY <1>3 DEF Local, Step, Owns, SameRecord
<1>4. ASSUME NEW w \in Works', NEW u \in Users, Owns(w, u) PROVE UserOK(w, u)'
  <2>1. CASE w = v
    <3>1. Owns(job[j], u)
      BY <1>2, <1>4, <2>1 DEF Step, Owns
    <3>2. v.pc # "idle" /\ u \notin v.shared
      BY <1>4, <2>1 DEF Owns
    <3>3. UserOK(v, u)'
      BY <3>1, <3>2
    <3> QED BY <2>1, <3>3
  <2>2. CASE w # v
    <3>1. PICK i \in Jobs \ {j} : w = job[i]
      BY <1>1, <2>2
    <3>2. w \in Works
      BY <3>1 DEF Works
    <3>3. UserOK(w, u)
      BY <1>4, <3>2 DEF UsersOK
    <3>4. u \notin Touches(job[j])
      BY <1>2, <1>4, <3>1, OwnsAlone
    <3>5. Twin(w, w)
      BY DEF Twin, Alike
    <3> QED BY <1>3, <3>3, <3>4, <3>5, TwinUser
  <2> QED BY <2>1, <2>2
<1>5. ASSUME NEW u \in Users, u \notin dirty'
      PROVE  Agrees(u)' \/ \E w \in Works' : Owns(w, u)
  <2>1. CASE u \in dirty \/ u \in Touches(job[j])
    <3>1. Owns(job[j], u) /\ (v.pc # "idle" => Owns(v, u))
      BY <1>5, <2>1, StepOwns
    <3> QED BY <1>1, <1>5, <3>1
  <2>2. CASE u \notin dirty /\ u \notin Touches(job[j])
    <3>1. Agrees(u) \/ \E w \in Works : Owns(w, u)
      BY <2>2 DEF UsersOK
    <3>2. Agrees(u) => Agrees(u)'
      BY <1>3, <2>2, SameTold
    <3>3. ASSUME NEW w \in Works, Owns(w, u) PROVE w \in Works'
      <4>1. PICK i \in Jobs : w = job[i]
        BY DEF Works
      <4>2. i # j
        BY <2>2, <3>3, <4>1 DEF Owns
      <4> QED BY <1>1, <4>1, <4>2
    <3> QED BY <3>1, <3>2, <3>3
  <2> QED BY <2>1, <2>2
<1> QED BY <1>4, <1>5 DEF UsersOK

\* Groups after a step of j, in the same way.
LEMMA StepGroups ==
  ASSUME ProvTyped, Sharing, GroupsOK, NEW j \in Jobs, NEW v, Step(j, v), Local(j),
         \A g \in Groups : Owns(job[j], g) =>
           IF v.pc = "idle" THEN g \in dirty' \/ AgreesG(g)' ELSE g \in v.shared \/ GroupOK(v, g)'
  PROVE  GroupsOK'
<1>1. /\ \A w \in Works' : w = v \/ \E i \in Jobs \ {j} : w = job[i]
      /\ v \in Works' /\ \A i \in Jobs \ {j} : job[i] \in Works'
  BY StepJobs
<1>2. job[j].pc # "idle" /\ Gone \subseteq Gone'
  BY DEF Step, Local
<1>3. ASSUME NEW g \in Groups, g \notin Touches(job[j])
      PROVE  SameGroup(g) /\ vgroup'[g] = vgroup[g] /\ (g \in dirty => g \in dirty') /\ SameTarget(g)
  BY <1>3 DEF Local, Step, Owns, SameTarget
<1>4. ASSUME NEW w \in Works', NEW g \in Groups, Owns(w, g) PROVE GroupOK(w, g)'
  <2>1. CASE w = v
    <3>1. Owns(job[j], g)
      BY <1>2, <1>4, <2>1 DEF Step, Owns
    <3>2. v.pc # "idle" /\ g \notin v.shared
      BY <1>4, <2>1 DEF Owns
    <3>3. GroupOK(v, g)'
      BY <3>1, <3>2
    <3> QED BY <2>1, <3>3
  <2>2. CASE w # v
    <3>1. PICK i \in Jobs \ {j} : w = job[i]
      BY <1>1, <2>2
    <3>2. w \in Works
      BY <3>1 DEF Works
    <3>3. GroupOK(w, g)
      BY <1>4, <3>2 DEF GroupsOK
    <3>4. g \notin Touches(job[j])
      BY <1>2, <1>4, <3>1, OwnsAlone
    <3>5. Twin(w, w)
      BY DEF Twin, Alike
    <3> QED BY <1>2, <1>3, <3>3, <3>4, <3>5, TwinGroup
  <2> QED BY <2>1, <2>2
<1>5. ASSUME NEW g \in Groups, g \notin dirty'
      PROVE  AgreesG(g)' \/ \E w \in Works' : Owns(w, g)
  <2>1. CASE g \in dirty \/ g \in Touches(job[j])
    <3>1. Owns(job[j], g) /\ (v.pc # "idle" => Owns(v, g))
      BY <1>5, <2>1, StepOwns
    <3> QED BY <1>1, <1>5, <3>1
  <2>2. CASE g \notin dirty /\ g \notin Touches(job[j])
    <3>1. AgreesG(g) \/ \E w \in Works : Owns(w, g)
      BY <2>2 DEF GroupsOK
    <3>2. AgreesG(g) => AgreesG(g)'
      BY <1>2, <1>3, <2>2, SameAgreesG
    <3>3. ASSUME NEW w \in Works, Owns(w, g) PROVE w \in Works'
      <4>1. PICK i \in Jobs : w = job[i]
        BY DEF Works
      <4>2. i # j
        BY <2>2, <3>3, <4>1 DEF Owns
      <4> QED BY <1>1, <4>1, <4>2
    <3> QED BY <3>1, <3>2, <3>3
  <2> QED BY <2>1, <2>2
<1> QED BY <1>4, <1>5 DEF GroupsOK

\* The new state of j is well typed.
LEMMA NextTyped ==
  ASSUME ProvInv, ProvInv', NEW j \in Jobs, NEW v, Step(j, v)
  PROVE  v \in Job /\ Fit(v) /\ Place(v)
<1>1. job'[j] = v
  BY StepJobs DEF ProvInv
<1>2. job'[j] \in Job /\ Fit(job'[j]) /\ Place(job'[j])
  BY DEF ProvInv, ProvTyped, ProvTypeOK
<1> QED BY <1>1, <1>2

\* Rows do not come back.
Forward == \A u \in Users : row[u].st # "new" => row'[u].st # "new"

\* The invariant after a step of j, from what j has to answer for.
LEMMA StepAgree ==
  ASSUME ProvInv, AgreeInv, NEW j \in Jobs, NEW v, Step(j, v), Local(j), Forward,
         Shape(v), Lost(v)', \A u \in Users : UserAt(u)', \A g \in Groups : GroupAt(g)',
         \A u \in Users : Owns(job[j], u) =>
           IF v.pc = "idle" THEN u \in dirty' \/ Agrees(u)' ELSE u \in v.shared \/ UserOK(v, u)',
         \A g \in Groups : Owns(job[j], g) =>
           IF v.pc = "idle" THEN g \in dirty' \/ AgreesG(g)' ELSE g \in v.shared \/ GroupOK(v, g)'
  PROVE  AgreeInv'
<1>1. ProvTyped /\ Sharing /\ UsersOK /\ GroupsOK
  BY DEF ProvInv, AgreeInv
<1>2. Sharing' /\ UsersOK' /\ GroupsOK'
  BY <1>1, StepSharing, StepUsers, StepGroups
<1>3. ASSUME NEW w \in Works' PROVE Shape(w) /\ Lost(w)'
  <2>1. CASE w = v
    BY <2>1
  <2>2. CASE w # v
    <3>1. PICK i \in Jobs : w = job[i]
      BY <1>1, <2>2, StepJobs
    <3>2. w \in Works /\ Fit(w)
      BY <1>1, <3>1, TypedParts DEF Works
    <3>3. Shape(w) /\ Lost(w)
      BY <3>2 DEF AgreeInv
    <3>4. Lost(w)'
      BY <3>2, <3>3 DEF Lost, Fit, OfUser, Local, Forward, Gone
    <3> QED BY <3>3, <3>4
  <2> QED BY <2>1, <2>2
<1> QED BY <1>2, <1>3 DEF AgreeInv

\* The tables, but for is_admin, and the target are left alone.
Calm == (\A u \in Users : SameRow(u)) /\ group' = group /\ vault' = vault /\ vgroup' = vgroup

\* A step that changes neither the tables nor the target is calm.
LEMMA CalmWhen ==
  ASSUME UNCHANGED <<tables, target>>
  PROVE  Calm
BY DEF Calm, SameRow, tables, target

\* The same for a step that changes neither the tables nor the target.
LEMMA SilentAgree ==
  ASSUME ProvInv, ProvInv', AgreeInv, NEW j \in Jobs, NEW v, Step(j, v), Calm, dirty \subseteq dirty',
         Shape(v), Lost(v),
         \A u \in Users : Owns(job[j], u) =>
           IF v.pc = "idle" THEN u \in dirty' \/ Agrees(u)
           ELSE u \in v.shared \/ (Read(v, u) /\ (u \in dirty' \/ Clean(v, u))),
         \A g \in Groups : Owns(job[j], g) =>
           IF v.pc = "idle" THEN g \in dirty' \/ AgreesG(g)
           ELSE g \in v.shared \/ (ReadG(v, g) /\ (g \in dirty' \/ CleanG(v, g)))
  PROVE  AgreeInv'
<1>0. Fit(v)
  BY NextTyped
<1>1. /\ group' = group /\ vault' = vault /\ vgroup' = vgroup
      /\ \A u \in Users : row'[u].st = row[u].st /\ ext'[u] = ext[u]
  BY DEF Calm, SameRow
<1>2. In' = In /\ Gone' = Gone
  BY <1>1 DEF In, Gone
<1>3. \A u \in Users : SameRow(u)
  BY DEF Calm
<1>4. \A g \in Groups : SameGroup(g)
  BY <1>1 DEF SameGroup
<1>5. Local(j) /\ Forward
  BY <1>1, <1>2, <1>3, <1>4 DEF Local, Forward
<1>6. Lost(v)'
  BY <1>0, <1>1 DEF Lost, Fit, OfUser
<1>7. ASSUME NEW u \in Users PROVE UserAt(u)'
  <2>1. UserAt(u)
    BY DEF AgreeInv
  <2> QED BY <1>1, <1>2, <2>1 DEF UserAt
<1>8. ASSUME NEW g \in Groups PROVE GroupAt(g)'
  <2>1. GroupAt(g)
    BY DEF AgreeInv
  <2> QED BY <1>1, <1>2, <2>1 DEF GroupAt
<1>9. Twin(v, v)
  BY DEF Twin, Alike
<1>10. ASSUME NEW u \in Users, Owns(job[j], u)
       PROVE  IF v.pc = "idle" THEN u \in dirty' \/ Agrees(u)' ELSE u \in v.shared \/ UserOK(v, u)'
  <2>1. CASE v.pc = "idle"
    <3>1. u \in dirty' \/ Agrees(u)
      BY <1>10, <2>1
    <3>2. Agrees(u) => Agrees(u)'
      BY <1>1, <1>3, SameTold
    <3> QED BY <2>1, <3>1, <3>2
  <2>2. CASE v.pc # "idle"
    <3>1. u \in v.shared \/ (Read(v, u) /\ (u \in dirty' \/ Clean(v, u)))
      BY <1>10, <2>2
    <3>2. Read(v, u) => Read(v, u)'
      BY <1>3, <1>9, TwinRead
    <3>3. Clean(v, u) => Clean(v, u)'
      BY <1>1, <1>3, <1>9, TwinClean
    <3> QED BY <2>2, <3>1, <3>2, <3>3 DEF UserOK
  <2> QED BY <2>1, <2>2
<1>11. ASSUME NEW g \in Groups, Owns(job[j], g)
       PROVE  IF v.pc = "idle" THEN g \in dirty' \/ AgreesG(g)' ELSE g \in v.shared \/ GroupOK(v, g)'
  <2>1. AgreesG(g) => AgreesG(g)'
    BY <1>1, <1>2, <1>4, SameAgreesG
  <2>2. ReadG(v, g) => ReadG(v, g)'
    BY <1>1, <1>2 DEF ReadG, OwnReadG, Close
  <2>3. CleanG(v, g) => CleanG(v, g)'
    BY <1>1, <1>2 DEF CleanG, AgreesG, Close
  <2> QED BY <1>11, <2>1, <2>2, <2>3 DEF GroupOK
<1> QED BY <1>5, <1>6, <1>7, <1>8, <1>10, <1>11, StepAgree

\* The same job, further on.
Heir(v, r) ==
  /\ v.kind = r.kind /\ v.user = r.user /\ v.form = r.form
  /\ v.kind \in OfGroup => v.group = r.group

\* The same job touches the same users and groups all along.
LEMMA HeirTouches ==
  ASSUME NEW v, NEW r, Heir(v, r)
  PROVE  Touches(v) = Touches(r)
BY DEF Heir, Touches, OfGroup

\* j goes on, and adds to dirty; or ends.
LEMMA HeirStep ==
  ASSUME NEW j \in Jobs, job[j].pc # "idle", NEW v, Set(j, v), dirty \subseteq dirty',
         v.pc = "idle" \/ (Heir(v, job[j]) /\ v.shared = job[j].shared)
  PROVE  Step(j, v)
BY HeirTouches DEF Step

\* What a job that has u, or g, for itself knows of it.
LEMMA OwnedUser ==
  ASSUME AgreeInv, NEW j \in Jobs, NEW u \in Users, Owns(job[j], u)
  PROVE  Read(job[j], u) /\ (u \in dirty \/ Clean(job[j], u))
<1>1. PICK w : w = job[j]
  OBVIOUS
<1>2. w \in Works
  BY <1>1 DEF Works
<1>3. UserOK(w, u)
  BY <1>1, <1>2 DEF AgreeInv, UsersOK
<1> QED BY <1>1, <1>3 DEF UserOK

\* The same for a group.
LEMMA OwnedGroup ==
  ASSUME AgreeInv, NEW j \in Jobs, NEW g \in Groups, Owns(job[j], g)
  PROVE  ReadG(job[j], g) /\ (g \in dirty \/ CleanG(job[j], g))
<1>1. PICK w : w = job[j]
  OBVIOUS
<1>2. w \in Works
  BY <1>1 DEF Works
<1>3. GroupOK(w, g)
  BY <1>1, <1>2 DEF AgreeInv, GroupsOK
<1> QED BY <1>1, <1>3 DEF GroupOK

\* What every step of a job starts from.
LEMMA AgreeParts ==
  ASSUME ProvInv, AgreeInv, NEW j \in Jobs
  PROVE  /\ ProvTyped /\ job[j] \in Job /\ Fit(job[j]) /\ Place(job[j])
         /\ Shape(job[j]) /\ Lost(job[j])
         /\ (\A u \in Users : UserAt(u)) /\ (\A g \in Groups : GroupAt(g))
<1>1. PICK w : w = job[j]
  OBVIOUS
<1>2. w \in Works
  BY <1>1 DEF Works
<1>3. Shape(w) /\ Lost(w)
  BY <1>2 DEF AgreeInv
<1> QED BY <1>1, <1>3, AtWork DEF AgreeInv

-----------------------------------------------------------------------------
(* What a job carries to its next label.                                   *)

\* What stays from the lists on to the end, and all but the label.
Kept(v, r) ==
  /\ v.kind = r.kind /\ v.user = r.user /\ v.form = r.form /\ v.shared = r.shared
  /\ v.list = r.list /\ v.glist = r.glist
Still(v, r) ==
  /\ Kept(v, r)
  /\ v.group = r.group /\ v.groups = r.groups /\ v.want = r.want /\ v.todo = r.todo
  /\ v.op = r.op /\ v.who = r.who /\ v.act = r.act /\ v.vid = r.vid

\* A new label changes nothing else.
LEMMA LabelFields ==
  ASSUME NEW r \in Job, NEW l
  PROVE  LET v == [r EXCEPT !.pc = l] IN v.pc = l /\ Still(v, r)
BY DEF Job, Still, Kept

\* A job at another label is the same job.
LEMMA StillHeir ==
  ASSUME NEW v, NEW r, Still(v, r)
  PROVE  Heir(v, r) /\ v.shared = r.shared
BY DEF Still, Kept, Heir

\* A job at a new label, when dirty grows at most.
LEMMA GoStep ==
  ASSUME ProvInv, NEW j \in Jobs, NEW r, r = job[j], r.pc # "idle", NEW l, Go(j, l),
         dirty \subseteq dirty'
  PROVE  \E v : Step(j, v) /\ v.pc = l /\ Still(v, r)
<1>1. job \in [Jobs -> Job] /\ r \in Job
  BY TypedParts DEF ProvInv
<1>2. PICK v : v = [r EXCEPT !.pc = l]
  OBVIOUS
<1>3. Set(j, v)
  BY <1>2 DEF Go, Set
<1>4. v.pc = l /\ Still(v, r)
  BY <1>1, <1>2, LabelFields
<1>5. Heir(v, job[j]) /\ v.shared = job[j].shared
  BY <1>4, StillHeir
<1> QED BY <1>3, <1>4, <1>5, HeirStep

\* A job that ends.
LEMMA EndStep ==
  ASSUME NEW j \in Jobs, NEW r, r = job[j], r.pc # "idle", End(j), dirty \subseteq dirty'
  PROVE  Step(j, NoJob) /\ NoJob.pc = "idle"
<1>1. NoJob.pc = "idle" /\ Set(j, NoJob)
  BY DEF NoJob, End
<1> QED BY <1>1, HeirStep

\* A job that is not at work promises nothing.
LEMMA IdleShape == NoJob.pc = "idle" /\ Shape(NoJob) /\ Lost(NoJob)
<1>1. /\ NoJob.pc = "idle" /\ NoJob.kind = None /\ NoJob.user = None /\ NoJob.who = None
      /\ NoJob.list = Nobody
  BY DEF NoJob
<1>2. NoJob.kind # "delete" /\ ~AtUsers(NoJob)
  BY <1>1, ProvAssumption DEF AtUsers, UserCalls, AllKinds
<1> QED BY <1>1, <1>2
  DEF Shape, CallShape, PushShape, ListShape, OwnShape, Lost, ForUser

\* A user that is neither the job's own nor in hand.
LEMMA Bystander ==
  ASSUME NEW r, NEW v, NEW u \in Users, r.user # u, r.who # u, v.user # u, v.who # u,
         v.list[u] = r.list[u] \/ v.list[u] = "none" \/ v.list[u] = ListUsers[u]
  PROVE  (Read(r, u) => Read(v, u)) /\ (Clean(r, u) => Clean(v, u) /\ Agrees(u))
<1>1. Read(r, u) => Read(v, u)
  BY DEF Read
<1>2. Clean(r, u) => Agrees(u)
  BY DEF Clean, Due
<1>3. Agrees(u) => Clean(v, u)
  BY DEF Clean
<1> QED BY <1>1, <1>2, <1>3

\* A job that is not about groups, and not on its way to push one.
Ungrouped(v) ==
  v.kind \notin OfGroup /\ v.pc \notin {"gread", "deleteg"} \cup GroupCalls /\ ~ForMember(v)

\* The target's record of a group is not on the way of such a job.
LEMMA UngroupedAgrees ==
  ASSUME NEW v, Ungrouped(v), NEW g
  PROVE  CleanG(v, g) <=> AgreesG(g)
BY DEF Ungrouped, CleanG, DueG, Sends, Rereads, OfGroup

\* What it has read of the groups to come stays.
LEMMA UngroupedRead ==
  ASSUME NEW r, NEW v, Ungrouped(v), NEW g, ReadG(r, g),
         v.kind = r.kind, v.groups \subseteq r.groups, v.glist = r.glist
  PROVE  ReadG(v, g)
BY DEF Ungrouped, ReadG, Sends, Rereads, Stored, OwnReadG, OfGroup

\* Groups do not matter to a step of such a job.
LEMMA UngroupedStep ==
  ASSUME AgreeInv, NEW j \in Jobs, NEW r, r = job[j], Ungrouped(r),
         NEW v, v.pc = "idle" \/ (Ungrouped(v) /\ Kept(v, r) /\ v.groups \subseteq r.groups),
         dirty \subseteq dirty', NEW g \in Groups, Owns(job[j], g)
  PROVE  IF v.pc = "idle" THEN g \in dirty' \/ AgreesG(g)
         ELSE g \in v.shared \/ (ReadG(v, g) /\ (g \in dirty' \/ CleanG(v, g)))
<1>1. ReadG(r, g) /\ (g \in dirty \/ CleanG(r, g))
  BY OwnedGroup
<1>2. CleanG(r, g) => AgreesG(g)
  BY UngroupedAgrees
<1>3. CASE v.pc = "idle"
  BY <1>1, <1>2, <1>3
<1>4. CASE v.pc # "idle"
  <2>1. ReadG(v, g)
    BY <1>1, <1>4, UngroupedRead DEF Kept
  <2>2. AgreesG(g) => CleanG(v, g)
    BY <1>4, UngroupedAgrees
  <2> QED BY <1>1, <1>2, <1>4, <2>1, <2>2
<1> QED BY <1>3, <1>4

-----------------------------------------------------------------------------
(* The handlers.                                                           *)

\* promoteIfFirstUser counts the users.
LEMMA CountUsersAgrees ==
  ASSUME ProvInv, ProvInv', AgreeInv, NEW j \in Jobs, CountUsers(j)
  PROVE  AgreeInv'
<1>0. PICK r : r = job[j]
  OBVIOUS
<1>1. r \in Job /\ Place(r) /\ Shape(r) /\ Lost(r)
  BY <1>0, AgreeParts
<1>2. r.pc = "count" /\ r.kind = "register"
  BY <1>0, <1>1 DEF CountUsers, Place
<1>3. PICK l \in {"promote", "audit"} : Go(j, l)
  BY DEF CountUsers
<1>4. Calm /\ dirty' = dirty
  BY CalmWhen DEF CountUsers
<1>5. PICK v : Step(j, v) /\ v.pc = l /\ Still(v, r)
  BY <1>0, <1>2, <1>3, <1>4, GoStep
<1>6. Shape(v) /\ Lost(v)
  BY <1>1, <1>2, <1>5
  DEF Still, Kept, Shape, CallShape, PushShape, ListShape, OwnShape, Lost, AtUsers, ForUser, UserCalls
<1>7. ASSUME NEW u \in Users, Owns(job[j], u)
      PROVE  Read(v, u) /\ (u \in dirty' \/ Clean(v, u))
  <2>1. Read(r, u) /\ (u \in dirty \/ Clean(r, u))
    BY <1>0, <1>7, OwnedUser
  <2>2. Read(v, u)
    BY <1>2, <1>5, <2>1 DEF Still, Kept, Read, OwnRead
  <2>3. Clean(r, u) => Clean(v, u)
    BY <1>2, <1>5
    DEF Still, Kept, Clean, Due, Made, Unborn, Outdated, Doomed, OwnClean, CallClean, Untold,
        Unsettled, Creators, UserCalls, GroupCalls
  <2> QED BY <1>4, <2>1, <2>2, <2>3
<1>8. Ungrouped(r) /\ Ungrouped(v)
  BY <1>2, <1>5 DEF Ungrouped, Still, Kept, OfGroup, ForMember, AtUsers, UserCalls, GroupCalls
<1>9. Kept(v, r) /\ v.groups = r.groups
  BY <1>5 DEF Still
<1> QED BY <1>0, <1>4, <1>5, <1>6, <1>7, <1>8, <1>9, UngroupedStep, SilentAgree

\* UPDATE users: the row of x changes its flags, and j touches x.
LEMMA FlagsAgree ==
  ASSUME ProvInv, ProvInv', AgreeInv, NEW j \in Jobs, NEW v, Step(j, v),
         NEW x \in Touches(job[j]), \A u \in Users : row'[u].st = row[u].st,
         \A u \in Users \ {x} : row'[u].active = row[u].active,
         UNCHANGED <<group, ext, target>>, dirty \subseteq dirty',
         Shape(v), Lost(v),
         Owns(job[j], x) =>
           IF v.pc = "idle" THEN x \in dirty' \/ Agrees(x)' ELSE x \in v.shared \/ UserOK(v, x)',
         \A u \in Users \ {x} : Owns(job[j], u) =>
           IF v.pc = "idle" THEN u \in dirty' \/ Agrees(u)
           ELSE u \in v.shared \/ (Read(v, u) /\ (u \in dirty' \/ Clean(v, u))),
         \A g \in Groups : Owns(job[j], g) =>
           IF v.pc = "idle" THEN g \in dirty' \/ AgreesG(g)
           ELSE g \in v.shared \/ (ReadG(v, g) /\ (g \in dirty' \/ CleanG(v, g)))
  PROVE  AgreeInv'
<1>0. Fit(v)
  BY NextTyped
<1>1. group' = group /\ ext' = ext /\ vault' = vault /\ vgroup' = vgroup
  BY DEF target
<1>2. In' = In /\ Gone' = Gone
  BY DEF In, Gone
<1>3. \A u \in Users \ {x} : SameRow(u)
  BY <1>1 DEF SameRow
<1>4. \A g \in Groups : SameGroup(g)
  BY <1>1 DEF SameGroup
<1>5. Local(j) /\ Forward
  BY <1>1, <1>2, <1>3, <1>4 DEF Local, Forward
<1>6. Lost(v)'
  BY <1>0, <1>1 DEF Lost, Fit, OfUser
<1>7. ASSUME NEW u \in Users PROVE UserAt(u)'
  <2>1. UserAt(u)
    BY DEF AgreeInv
  <2> QED BY <1>1, <1>2, <2>1 DEF UserAt
<1>8. ASSUME NEW g \in Groups PROVE GroupAt(g)'
  <2>1. GroupAt(g)
    BY DEF AgreeInv
  <2> QED BY <1>1, <1>2, <2>1 DEF GroupAt
<1>9. Twin(v, v)
  BY DEF Twin, Alike
<1>10. ASSUME NEW u \in Users, Owns(job[j], u)
       PROVE  IF v.pc = "idle" THEN u \in dirty' \/ Agrees(u)' ELSE u \in v.shared \/ UserOK(v, u)'
  <2>0. CASE u = x
    BY <1>10, <2>0
  <2>1. CASE u # x /\ v.pc = "idle"
    <3>1. u \in dirty' \/ Agrees(u)
      BY <1>10, <2>1
    <3>2. Agrees(u) => Agrees(u)'
      BY <1>1, <1>3, <2>1, SameTold
    <3> QED BY <2>1, <3>1, <3>2
  <2>2. CASE u # x /\ v.pc # "idle"
    <3>1. u \in v.shared \/ (Read(v, u) /\ (u \in dirty' \/ Clean(v, u)))
      BY <1>10, <2>2
    <3>2. Read(v, u) => Read(v, u)'
      BY <1>3, <1>9, <2>2, TwinRead
    <3>3. Clean(v, u) => Clean(v, u)'
      BY <1>1, <1>3, <1>9, <2>2, TwinClean
    <3> QED BY <2>2, <3>1, <3>2, <3>3 DEF UserOK
  <2> QED BY <2>0, <2>1, <2>2
<1>11. ASSUME NEW g \in Groups, Owns(job[j], g)
       PROVE  IF v.pc = "idle" THEN g \in dirty' \/ AgreesG(g)' ELSE g \in v.shared \/ GroupOK(v, g)'
  <2>1. AgreesG(g) => AgreesG(g)'
    BY <1>1, <1>2, <1>4, SameAgreesG
  <2>2. ReadG(v, g) => ReadG(v, g)'
    BY <1>1, <1>2 DEF ReadG, OwnReadG, Close
  <2>3. CleanG(v, g) => CleanG(v, g)'
    BY <1>1, <1>2 DEF CleanG, AgreesG, Close
  <2> QED BY <1>11, <2>1, <2>2, <2>3 DEF GroupOK
<1> QED BY <1>5, <1>6, <1>7, <1>8, <1>10, <1>11, StepAgree

\* What UPDATE users does.
LEMMA UpdateDoes ==
  ASSUME ProvTyped, NEW u, NEW a, NEW b, Update(u, a, b)
  PROVE  /\ \A w \in Users : row'[w].st = row[w].st
         /\ \A w \in Users \ {u} : row'[w].active = row[w].active
         /\ u \in In => row'[u].active = a
         /\ u \notin In => row' = row
<1>1. row \in [Users -> Row]
  BY TypedParts
<1>2. CASE u \in In
  <2>1. u \in Users /\ row[u] \in Row
    BY <1>1, <1>2 DEF In
  <2>2. PICK x : x = [row[u] EXCEPT !.active = a, !.admin = b]
    OBVIOUS
  <2>3. x.st = row[u].st /\ x.active = a
    BY <2>1, <2>2 DEF Row
  <2>4. row' = [row EXCEPT ![u] = x]
    BY <1>1, <1>2, <2>1, <2>2 DEF Update, Row
  <2> QED BY <1>1, <1>2, <2>1, <2>3, <2>4
<1>3. CASE u \notin In
  BY <1>3 DEF Update
<1> QED BY <1>2, <1>3

\* Where active stays, so does what the others read.
LEMMA UpdateCalm ==
  ASSUME ProvTyped, NEW u, NEW b, Update(u, row[u].active, b), UNCHANGED <<group, ext, target>>
  PROVE  Calm
<1>1. /\ \A w \in Users : row'[w].st = row[w].st
      /\ \A w \in Users \ {u} : row'[w].active = row[w].active
      /\ u \in In => row'[u].active = row[u].active
      /\ u \notin In => row' = row
  BY UpdateDoes
<1>2. \A w \in Users : SameRow(w)
  BY <1>1 DEF SameRow
<1> QED BY <1>2 DEF Calm, target

\* promoteIfFirstUser makes the first user administrator.
LEMMA PromoteAgrees ==
  ASSUME ProvInv, ProvInv', AgreeInv, NEW j \in Jobs, Promote(j)
  PROVE  AgreeInv'
<1>0. PICK r : r = job[j]
  OBVIOUS
<1>1. ProvTyped /\ r \in Job /\ Place(r) /\ Shape(r) /\ Lost(r)
  BY <1>0, AgreeParts
<1>2. r.pc = "promote" /\ r.kind = "register"
  BY <1>0, <1>1 DEF Promote, Place
<1>3. Go(j, "audit") /\ dirty' = dirty
  BY DEF Promote
<1>4. Calm
  <2>1. UNCHANGED <<group, ext, target>>
    BY DEF Promote
  <2>2. CASE UNCHANGED row
    BY <2>1, <2>2, CalmWhen DEF tables
  <2>3. CASE Update(job[j].user, row[job[j].user].active, TRUE)
    BY <1>1, <2>1, <2>3, UpdateCalm
  <2> QED BY <2>2, <2>3 DEF Promote
<1>5. PICK v : Step(j, v) /\ v.pc = "audit" /\ Still(v, r)
  BY <1>0, <1>2, <1>3, GoStep
<1>6. Shape(v) /\ Lost(v)
  BY <1>1, <1>2, <1>5
  DEF Still, Kept, Shape, CallShape, PushShape, ListShape, OwnShape, Lost, AtUsers, ForUser, UserCalls
<1>7. ASSUME NEW u \in Users, Owns(job[j], u)
      PROVE  Read(v, u) /\ (u \in dirty' \/ Clean(v, u))
  <2>1. Read(r, u) /\ (u \in dirty \/ Clean(r, u))
    BY <1>0, <1>7, OwnedUser
  <2>2. Read(v, u)
    BY <1>2, <1>5, <2>1 DEF Still, Kept, Read, OwnRead
  <2>3. Clean(r, u) => Clean(v, u)
    BY <1>2, <1>5
    DEF Still, Kept, Clean, Due, Made, Unborn, Outdated, Doomed, OwnClean, CallClean, Untold,
        Unsettled, Creators, UserCalls, GroupCalls
  <2> QED BY <1>3, <2>1, <2>2, <2>3
<1>8. Ungrouped(r) /\ Ungrouped(v)
  BY <1>2, <1>5 DEF Ungrouped, Still, Kept, OfGroup, ForMember, AtUsers, UserCalls, GroupCalls
<1>9. Kept(v, r) /\ v.groups = r.groups
  BY <1>5 DEF Still
<1> QED BY <1>0, <1>3, <1>4, <1>5, <1>6, <1>7, <1>8, <1>9, UngroupedStep, SilentAgree

\* Between calls nobody is in hand.
LEMMA NobodyInHand ==
  ASSUME NEW v, Shape(v), v.pc \notin UserCalls, NEW u \in Users
  PROVE  v.who # u
BY ProvAssumption DEF Shape, CallShape

\* Such a step does not matter to users other than the job's own.
LEMMA OthersStep ==
  ASSUME AgreeInv, NEW j \in Jobs, NEW r, r = job[j], Shape(r), r.pc \notin UserCalls,
         NEW v, v.pc = "idle" \/ (Shape(v) /\ v.pc \notin UserCalls /\ v.user = r.user),
         dirty \subseteq dirty', NEW u \in Users, u # r.user, Owns(job[j], u),
         v.list[u] = r.list[u] \/ v.list[u] = "none" \/ v.list[u] = ListUsers[u]
  PROVE  IF v.pc = "idle" THEN u \in dirty' \/ Agrees(u)
         ELSE u \in v.shared \/ (Read(v, u) /\ (u \in dirty' \/ Clean(v, u)))
<1>1. Read(r, u) /\ (u \in dirty \/ Clean(r, u))
  BY OwnedUser
<1>2. r.who # u
  BY NobodyInHand
<1>3. CASE v.pc = "idle"
  BY <1>1, <1>2, <1>3 DEF Clean, Due
<1>4. CASE v.pc # "idle"
  <2>1. v.who # u
    BY <1>4, NobodyInHand
  <2> QED BY <1>1, <1>2, <1>4, <2>1, Bystander
<1> QED BY <1>3, <1>4

\* SetActive and SetNewAdmin.
LEMMA SetFlagsAgrees ==
  ASSUME ProvInv, ProvInv', AgreeInv, NEW j \in Jobs, SetFlags(j)
  PROVE  AgreeInv'
<1>0. PICK r : r = job[j]
  OBVIOUS
<1>1. ProvTyped /\ r \in Job /\ Fit(r) /\ Place(r) /\ Shape(r) /\ Lost(r)
  BY <1>0, AgreeParts
<1>2. r.pc \in {"flags", "isadmin"} /\ r.kind = "new" /\ r.user \in Users /\ r.list = Nobody
  BY <1>0, <1>1 DEF SetFlags, SetActive, SetNewAdmin, Place, Fit, OfUser, Shape, ListShape
<1>3. /\ dirty' = dirty /\ UNCHANGED <<group, ext, target>>
      /\ \E l \in {"isadmin", "glist"} : Go(j, l)
  BY DEF SetFlags, SetActive, SetNewAdmin
<1>4. \/ UNCHANGED row
      \/ \E a, b : Update(r.user, a, b)
  BY <1>0 DEF SetFlags, SetActive, SetNewAdmin
<1>5. PICK v : Step(j, v) /\ v.pc \in {"isadmin", "glist"} /\ Still(v, r)
  BY <1>0, <1>2, <1>3, GoStep
<1>6. Shape(v) /\ Lost(v)
  BY <1>1, <1>2, <1>5
  DEF Still, Kept, Shape, CallShape, PushShape, ListShape, OwnShape, Lost, AtUsers, ForUser, UserCalls
<1>7. PICK x : x = r.user
  OBVIOUS
<1>8. /\ \A w \in Users : row'[w].st = row[w].st
      /\ \A w \in Users \ {x} : row'[w].active = row[w].active
  <2>1. CASE UNCHANGED row
    BY <2>1
  <2>2. ASSUME NEW a, NEW b, Update(r.user, a, b)
        PROVE  /\ \A w \in Users : row'[w].st = row[w].st
               /\ \A w \in Users \ {x} : row'[w].active = row[w].active
    BY <1>1, <1>7, <2>2, UpdateDoes
  <2> QED BY <1>4, <2>1, <2>2
<1>9. ASSUME Owns(job[j], x)
      PROVE  UserOK(v, x)'
  <2>1. Read(r, x) /\ (x \in dirty \/ Clean(r, x))
    BY <1>0, <1>2, <1>7, <1>9, OwnedUser
  <2>2. x \in Users /\ (x \in In)' /\ row'[x].st = row[x].st /\ group' = group /\ vault' = vault
    BY <1>2, <1>3, <1>7, <1>8, <2>1 DEF In, Read, OwnRead, target
  <2>3. v.list[x] = "none" /\ v.who # x
    BY <1>2, <1>5, <1>6, <2>2, NobodyInHand DEF Still, Kept, Nobody, UserCalls
  <2>4. Read(v, x)'
    BY <1>2, <1>5, <1>7, <2>1, <2>2, <2>3
    DEF Still, Kept, Read, OwnRead, Alone, ForUser, ForMember, AtUsers, UserCalls, GroupCalls
  <2>5. ASSUME Clean(r, x) PROVE Clean(v, x)'
    <3>1. Off(x)
      BY <1>2, <1>7, <2>5 DEF Clean, OwnClean, Untold, Unsettled, Creators
    <3>2. Off(x)'
      BY <2>2, <3>1 DEF Off
    <3>3. Due(v, x)' /\ OwnClean(v, x)'
      BY <1>2, <1>5, <1>7, <3>2
      DEF Still, Kept, Due, Unborn, OwnClean, Unsettled, Creators
    <3> QED BY <2>3, <3>3 DEF Clean
  <2> QED BY <1>3, <2>1, <2>4, <2>5 DEF UserOK
<1>10. ASSUME NEW u \in Users \ {x}, Owns(job[j], u)
      PROVE  u \in v.shared \/ (Read(v, u) /\ (u \in dirty' \/ Clean(v, u)))
  BY <1>0, <1>1, <1>2, <1>3, <1>5, <1>6, <1>7, <1>10, OthersStep DEF Still, Kept, UserCalls
<1>11. Ungrouped(r) /\ Ungrouped(v) /\ Kept(v, r) /\ v.groups = r.groups
  BY <1>2, <1>5 DEF Ungrouped, Still, Kept, OfGroup, ForMember, AtUsers, UserCalls, GroupCalls
<1>12. x \in Touches(job[j])
  BY <1>0, <1>2, <1>7 DEF Touches, Items
<1> QED
  BY <1>0, <1>3, <1>5, <1>6, <1>8, <1>9, <1>10, <1>11, <1>12, UngroupedStep, FlagsAgree

\* A job that has nothing on its way to the target may end.
LEMMA EndAgree ==
  ASSUME ProvInv, ProvInv', AgreeInv, NEW j \in Jobs, NEW r, r = job[j], r.pc # "idle",
         End(j), Calm, dirty \subseteq dirty',
         \A u \in Users : Owns(job[j], u) /\ Read(r, u) /\ Clean(r, u) => u \in dirty' \/ Agrees(u),
         \A g \in Groups : Owns(job[j], g) /\ ReadG(r, g) /\ CleanG(r, g) => g \in dirty' \/ AgreesG(g)
  PROVE  AgreeInv'
<1>1. Step(j, NoJob) /\ NoJob.pc = "idle" /\ Shape(NoJob) /\ Lost(NoJob)
  BY EndStep, IdleShape
<1>2. \A u \in Users : Owns(job[j], u) => u \in dirty' \/ Agrees(u)
  BY OwnedUser
<1>3. \A g \in Groups : Owns(job[j], g) => g \in dirty' \/ AgreesG(g)
  BY OwnedGroup
<1> QED BY <1>1, <1>2, <1>3, SilentAgree

\* UPDATE users of an update or of an edit: active is due at the target.
LEMMA WriteAgrees ==
  ASSUME ProvInv, ProvInv', AgreeInv, NEW j \in Jobs, Write(j)
  PROVE  AgreeInv'
<1>0. PICK r : r = job[j]
  OBVIOUS
<1>1. ProvTyped /\ r \in Job /\ Fit(r) /\ Place(r) /\ Shape(r) /\ Lost(r)
  BY <1>0, AgreeParts
<1>2. /\ r.pc = "write" /\ r.kind \in {"update", "edit"} /\ r.user \in Users /\ r.list = Nobody
      /\ \A u \in Users : r.who # u
  BY <1>0, <1>1, NobodyInHand DEF Write, Place, Fit, OfUser, Shape, ListShape, UserCalls
<1>3. dirty' = dirty /\ UNCHANGED <<group, ext, target>>
  BY DEF Write
<1>4. ASSUME NEW u \in Users, Clean(r, u) PROVE Agrees(u)
  BY <1>2, <1>4
  DEF Clean, Due, Made, Unborn, Outdated, Doomed, Written, AtUsers, UserCalls, GroupCalls, Creators
<1>5. Ungrouped(r)
  BY <1>2 DEF Ungrouped, OfGroup, ForMember, AtUsers, UserCalls, GroupCalls
<1>6. CASE UNCHANGED row /\ End(j)
  <2>1. Calm
    BY <1>3, <1>6, CalmWhen DEF tables
  <2>2. \A g \in Groups : CleanG(r, g) => AgreesG(g)
    BY <1>5, UngroupedAgrees
  <2> QED BY <1>0, <1>2, <1>3, <1>4, <1>6, <2>1, <2>2, EndAgree
<1>7. ASSUME Update(r.user, r.form.active, row[r.user].admin),
             NEW l \in {"admin", "reread"}, Go(j, l)
      PROVE  AgreeInv'
  <2>1. PICK v : Step(j, v) /\ v.pc = l /\ Still(v, r)
    BY <1>0, <1>2, <1>3, <1>7, GoStep
  <2>2. Shape(v) /\ Lost(v)
    BY <1>1, <1>2, <1>7, <2>1
    DEF Still, Kept, Shape, CallShape, PushShape, ListShape, OwnShape, Lost, AtUsers, ForUser, UserCalls
  <2>3. PICK x : x = r.user
    OBVIOUS
  <2>4. /\ \A w \in Users : row'[w].st = row[w].st
        /\ \A w \in Users \ {x} : row'[w].active = row[w].active
        /\ x \in In => row'[x].active = r.form.active
    BY <1>1, <1>7, <2>3, UpdateDoes
  <2>5. ASSUME Owns(job[j], x)
        PROVE  UserOK(v, x)'
    <3>1. Read(r, x) /\ (x \in dirty \/ Clean(r, x))
      BY <1>0, <1>2, <2>3, <2>5, OwnedUser
    <3>2. x \in Users /\ x \in In /\ (x \in In)' /\ ext' = ext /\ vault' = vault
      BY <1>2, <1>3, <2>3, <2>4, <3>1 DEF In, Read, OwnRead, target
    <3>3. v.list[x] = "none" /\ v.who # x
      BY <1>2, <2>1, <3>2 DEF Still, Kept, Nobody
    <3>4. Is(x, r.form.active)'
      BY <2>4, <3>2 DEF Is
    <3>5. Read(v, x)'
      BY <1>2, <1>7, <2>1, <2>3, <3>2, <3>3, <3>4
      DEF Still, Kept, Read, OwnRead, ForUser, AtUsers, UserCalls
    <3>6. ASSUME Clean(r, x) PROVE Clean(v, x)'
      <4>1. Known(x)
        BY <1>4, <3>2, <3>6 DEF Agrees, Known
      <4>2. Known(x)'
        BY <3>2, <4>1 DEF Known
      <4>3. Due(v, x)' /\ OwnClean(v, x)'
        BY <1>2, <1>7, <2>1, <2>3, <4>2
        DEF Still, Kept, Due, Outdated, Written, OwnClean, Untold, Creators, ForUser, AtUsers, UserCalls
      <4> QED BY <3>3, <4>3 DEF Clean
    <3> QED BY <1>3, <3>1, <3>5, <3>6 DEF UserOK
  <2>6. ASSUME NEW u \in Users \ {x}, Owns(job[j], u)
        PROVE  u \in v.shared \/ (Read(v, u) /\ (u \in dirty' \/ Clean(v, u)))
    BY <1>0, <1>1, <1>2, <1>3, <1>7, <2>1, <2>2, <2>3, <2>6, OthersStep DEF Still, Kept, UserCalls
  <2>7. Ungrouped(v) /\ Kept(v, r) /\ v.groups = r.groups
    BY <1>2, <1>7, <2>1 DEF Ungrouped, Still, Kept, OfGroup, ForMember, AtUsers, UserCalls, GroupCalls
  <2>8. x \in Touches(job[j])
    BY <1>0, <1>2, <2>3 DEF Touches, Items
  <2> QED
    BY <1>0, <1>3, <1>5, <1>7, <2>1, <2>2, <2>4, <2>5, <2>6, <2>7, <2>8, UngroupedStep, FlagsAgree
<1>8. \/ UNCHANGED row /\ End(j)
      \/ /\ Update(r.user, r.form.active, row[r.user].admin)
         /\ \E l \in {"admin", "reread"} : Go(j, l)
  BY <1>0 DEF Write
<1> QED BY <1>6, <1>7, <1>8

\* SetUserAdmin, of the command line and of an edit.
LEMMA SetAdminAgrees ==
  ASSUME ProvInv, ProvInv', AgreeInv, NEW j \in Jobs, SetAdmin(j)
  PROVE  AgreeInv'
<1>0. PICK r : r = job[j]
  OBVIOUS
<1>1. ProvTyped /\ r \in Job /\ Fit(r) /\ Place(r) /\ Shape(r) /\ Lost(r)
  BY <1>0, AgreeParts
<1>2. /\ r.pc = "admin" /\ r.kind \in {"cli", "edit"} /\ r.user \in Users
      /\ \A u \in Users : r.who # u
  BY <1>0, <1>1, NobodyInHand DEF SetAdmin, Place, Fit, OfUser, UserCalls
<1>3. Calm
  <2>1. UNCHANGED <<group, ext, target>>
    BY DEF SetAdmin
  <2>2. CASE UNCHANGED row
    BY <2>1, <2>2, CalmWhen DEF tables
  <2>3. ASSUME NEW b, Update(r.user, row[r.user].active, b)
        PROVE  Calm
    BY <1>1, <2>1, <2>3, UpdateCalm
  <2>4. UNCHANGED row \/ \E b : Update(r.user, row[r.user].active, b)
    BY <1>0 DEF SetAdmin
  <2> QED BY <2>2, <2>3, <2>4
<1>4. Ungrouped(r)
  BY <1>2 DEF Ungrouped, OfGroup, ForMember, AtUsers, UserCalls, GroupCalls
<1>5. \A g \in Groups : CleanG(r, g) => AgreesG(g)
  BY <1>4, UngroupedAgrees
<1>6. ASSUME NEW u \in Users, u # r.user, Clean(r, u) PROVE Agrees(u)
  BY <1>2, <1>6 DEF Clean, Due
<1>7. CASE End(j) /\ Dirty({r.user})
  <2>1. dirty \subseteq dirty' /\ r.user \in dirty'
    BY <1>7 DEF Dirty
  <2> QED BY <1>0, <1>2, <1>3, <1>5, <1>6, <1>7, <2>1, EndAgree
<1>8. CASE End(j) /\ UNCHANGED dirty /\ r.kind = "cli"
  <2>1. ~Clean(r, r.user)
    BY <1>8 DEF Clean, OwnClean
  <2> QED BY <1>0, <1>2, <1>3, <1>5, <1>6, <1>8, <2>1, EndAgree
<1>9. CASE Go(j, "glist") /\ UNCHANGED dirty /\ r.kind = "edit"
  <2>1. PICK v : Step(j, v) /\ v.pc = "glist" /\ Still(v, r)
    BY <1>0, <1>2, <1>9, GoStep
  <2>2. Shape(v) /\ Lost(v)
    BY <1>1, <1>2, <1>9, <2>1
    DEF Still, Kept, Shape, CallShape, PushShape, ListShape, OwnShape, Lost, AtUsers, ForUser, UserCalls
  <2>3. ASSUME NEW u \in Users, Owns(job[j], u)
        PROVE  Read(v, u) /\ (u \in dirty' \/ Clean(v, u))
    <3>1. Read(r, u) /\ (u \in dirty \/ Clean(r, u))
      BY <1>0, <2>3, OwnedUser
    <3>2. Read(v, u)
      BY <1>2, <1>9, <2>1, <3>1
      DEF Still, Kept, Read, OwnRead, Written, ForUser, AtUsers, UserCalls
    <3>3. Clean(r, u) => Clean(v, u)
      BY <1>2, <1>9, <2>1
      DEF Still, Kept, Clean, Due, Made, Unborn, Outdated, Doomed, OwnClean, CallClean, Untold,
          Written, ForUser, AtUsers, Creators, UserCalls, GroupCalls
    <3> QED BY <1>9, <3>1, <3>2, <3>3
  <2>4. Ungrouped(v) /\ Kept(v, r) /\ v.groups = r.groups
    BY <1>9, <2>1 DEF Ungrouped, Still, Kept, OfGroup, ForMember, AtUsers, UserCalls, GroupCalls
  <2> QED BY <1>0, <1>3, <1>4, <1>9, <2>1, <2>2, <2>3, <2>4, UngroupedStep, SilentAgree
<1>10. \/ End(j) /\ Dirty({r.user})
       \/ End(j) /\ UNCHANGED dirty /\ r.kind = "cli"
       \/ Go(j, "glist") /\ UNCHANGED dirty /\ r.kind # "cli"
  BY <1>0 DEF SetAdmin
<1> QED BY <1>2, <1>7, <1>8, <1>9, <1>10

\* A deletion that could not read the user first: it goes on without a user to
\* push, and the user stays dirty.
LEMMA DeleteUnreadAgrees ==
  ASSUME ProvInv, ProvInv', AgreeInv, NEW j \in Jobs, DeleteUnread(j)
  PROVE  AgreeInv'
<1>0. PICK r : r = job[j]
  OBVIOUS
<1>1. ProvTyped /\ r \in Job /\ Fit(r) /\ Place(r) /\ Shape(r) /\ Lost(r)
  BY <1>0, AgreeParts
<1>2. r.pc = "audit" /\ r.kind = "delete" /\ r.user \in Users
  BY <1>0, <1>1 DEF DeleteUnread, Fit, OfUser
<1>3. Calm /\ dirty \subseteq dirty' /\ r.user \in dirty'
  BY <1>0, CalmWhen DEF DeleteUnread, Dirty
<1>4. PICK v : v = [r EXCEPT !.todo = {}]
  OBVIOUS
<1>5. /\ v.pc = "audit" /\ Kept(v, r) /\ v.group = r.group /\ v.groups = r.groups /\ v.want = r.want
      /\ v.todo = {} /\ v.op = r.op /\ v.who = r.who /\ v.act = r.act /\ v.vid = r.vid
  BY <1>1, <1>2, <1>4 DEF Job, Kept
<1>6. Step(j, v)
  <2>1. Set(j, v)
    BY <1>0, <1>4 DEF DeleteUnread, Set
  <2>2. Heir(v, r) /\ v.shared = r.shared
    BY <1>5 DEF Kept, Heir
  <2> QED BY <1>0, <1>2, <1>3, <2>1, <2>2, HeirStep
<1>7. Shape(v) /\ Lost(v)
  BY <1>1, <1>2, <1>5
  DEF Kept, Shape, CallShape, PushShape, ListShape, OwnShape, Lost, AtUsers, ForUser, UserCalls
<1>8. ASSUME NEW u \in Users, Owns(job[j], u)
      PROVE  Read(v, u) /\ (u \in dirty' \/ Clean(v, u))
  <2>1. u = r.user
    BY <1>0, <1>2, <1>8, ProvAssumption DEF Owns, Touches
  <2>2. Read(r, u)
    BY <1>0, <1>8, OwnedUser
  <2>3. Read(v, u)
    BY <1>2, <1>5, <2>2 DEF Kept, Read, OwnRead
  <2> QED BY <1>3, <2>1, <2>3
<1>9. Ungrouped(r) /\ Ungrouped(v) /\ v.groups = r.groups
  BY <1>2, <1>5 DEF Ungrouped, Kept, OfGroup, ForMember, AtUsers, UserCalls, GroupCalls
<1> QED BY <1>0, <1>3, <1>5, <1>6, <1>7, <1>8, <1>9, UngroupedStep, SilentAgree

\* PushGroup and PushUser, field by field.
LEMMA PushGroupFields ==
  ASSUME NEW r \in Job, NEW g, NEW S
  PROVE  LET v == PushGroup(r, g, S)
         IN  /\ Kept(v, r) /\ v.group = g /\ v.groups = r.groups \ {g} /\ v.want = S
             /\ v.todo = {u \in S : r.list[u] # "none"} /\ v.op = "member" /\ v.who = None
             /\ v.act = r.act /\ v.pc \in {"push", "putg"}
<1> DEFINE known == {u \in S : r.list[u] # "none"}
           l == IF known = {} THEN "putg" ELSE "push"
<1>1. PICK v : v = PushGroup(r, g, S)
  OBVIOUS
<1>2. v = [r EXCEPT !.group = g, !.groups = @ \ {g}, !.want = S,
                    !.todo = known, !.op = "member", !.who = None, !.vid = 0,
                    !.refs = [u \in Users |-> 0], !.pc = l]
  BY <1>1 DEF PushGroup
<1>3. l \in {"push", "putg"} /\ known = {u \in S : r.list[u] # "none"}
  OBVIOUS
<1> HIDE DEF known, l
<1>4. /\ v.group = g /\ v.groups = r.groups \ {g} /\ v.want = S /\ v.todo = known
      /\ v.op = "member" /\ v.who = None /\ v.act = r.act /\ v.pc = l
  BY <1>2 DEF Job
<1>5. Kept(v, r)
  BY <1>2 DEF Job, Kept
<1> QED BY <1>1, <1>3, <1>4, <1>5

\* PushUser, field by field.
LEMMA PushUserFields ==
  ASSUME NEW r \in Job, NEW op, NEW a
  PROVE  LET v == PushUser(r, op, a)
         IN  /\ Kept(v, r) /\ v.group = r.group /\ v.groups = r.groups /\ v.want = r.want
             /\ v.todo = {r.user} /\ v.op = op /\ v.who = None /\ v.act = a /\ v.pc = "push"
<1>1. PICK v : v = PushUser(r, op, a)
  OBVIOUS
<1>2. /\ v.group = r.group /\ v.groups = r.groups /\ v.want = r.want
      /\ v.todo = {r.user} /\ v.op = op /\ v.who = None /\ v.act = a /\ v.pc = "push"
  BY <1>1 DEF PushUser, Job
<1>3. Kept(v, r)
  BY <1>1 DEF PushUser, Job, Kept
<1> QED BY <1>1, <1>2, <1>3

\* A job that goes on to push is the same job.
LEMMA KeptHeir ==
  ASSUME NEW v, NEW r, Kept(v, r), r.kind \in OfGroup => v.group = r.group
  PROVE  Heir(v, r) /\ v.shared = r.shared
BY DEF Kept, Heir

\* A job that goes on to push a group.
LEMMA PushGroupShape ==
  ASSUME NEW r \in Job, Shape(r), r.kind \in ToGroups, NEW g, NEW S
  PROVE  LET v == PushGroup(r, g, S) IN Shape(v) /\ Lost(v) /\ v.pc \notin {"idle"} \cup UserCalls
<1>1. PICK v : v = PushGroup(r, g, S)
  OBVIOUS
<1>2. /\ v.kind = r.kind /\ v.user = r.user /\ v.form = r.form /\ v.list = r.list
      /\ v.todo = {u \in S : r.list[u] # "none"} /\ v.op = "member" /\ v.who = None
      /\ v.pc \in {"push", "putg"}
  BY <1>1, PushGroupFields DEF Kept
<1>3. CallShape(v) /\ PushShape(v)
  BY <1>2 DEF CallShape, PushShape, ForUser, UserCalls
<1>4. ListShape(v)
  BY <1>2 DEF ListShape, ToGroups, AtUsers, UserCalls
<1>5. OwnShape(v) /\ Lost(v)
  BY <1>2 DEF Shape, OwnShape, ToGroups, Lost
<1> QED BY <1>1, <1>2, <1>3, <1>4, <1>5 DEF Shape, UserCalls

\* The group to push, as the job read it, and the others.
LEMMA PushGroupRead ==
  ASSUME NEW r \in Job, r.kind \in ToGroups, NEW g \in Groups, NEW S,
         NEW v, v = PushGroup(r, g, S), NEW h \in Groups, ReadG(r, h),
         h = g => group[g].st = "in" /\ Close(S, group[g].members)
  PROVE  ReadG(v, h)
<1>1. /\ v.kind = r.kind /\ v.glist = r.glist
      /\ v.group = g /\ v.groups = r.groups \ {g} /\ v.want = S /\ v.op = "member"
      /\ v.pc \in {"push", "putg"}
  BY PushGroupFields DEF Kept
<1>2. CASE h = g
  BY <1>1, <1>2 DEF ReadG, Sends, Stored, Rereads, OwnReadG, ToGroups
<1>3. CASE h # g
  BY <1>1, <1>3 DEF ReadG, Sends, Stored, Rereads
<1> QED BY <1>2, <1>3

\* The group to push is due, and the others agree.
LEMMA PushGroupClean ==
  ASSUME NEW r \in Job, r.kind \in ToGroups, NEW g \in Groups, NEW S,
         NEW v, v = PushGroup(r, g, S), NEW h \in Groups, h = g \/ AgreesG(h)
  PROVE  CleanG(v, h)
<1>1. v.kind = r.kind /\ v.group = g /\ v.op = "member" /\ v.pc \in {"push", "putg"}
  BY PushGroupFields DEF Kept
<1> QED BY <1>1 DEF CleanG, DueG, Sends, ForMember, AtUsers, UserCalls, GroupCalls

\* Its own user, of a user form.
LEMMA PushGroupOwn ==
  ASSUME NEW r \in Job, r.kind \in ToGroups, NEW g, NEW S, NEW v, v = PushGroup(r, g, S),
         NEW u \in Users, r.user = u, r.kind \in {"new", "edit"}, r.pc = "gread", r.who # u,
         Read(r, u)
  PROVE  Read(v, u) /\ (Clean(r, u) => Clean(v, u))
<1>1. /\ v.kind = r.kind /\ v.user = r.user /\ v.form = r.form /\ v.list = r.list
      /\ v.op = "member" /\ v.who = None /\ v.pc \in {"push", "putg"}
  BY PushGroupFields DEF Kept
<1>2. OwnRead(r, u) /\ v.who # u
  BY <1>1, ProvAssumption DEF Read
<1>3. ~(r.kind = "new" /\ r.form.groups = {})
  BY <1>2 DEF OwnRead, Alone
<1>4. OwnRead(v, u)
  BY <1>1, <1>2, <1>3 DEF OwnRead, Written, ForUser, AtUsers, GroupCalls, UserCalls
<1>5. Read(v, u)
  BY <1>1, <1>2, <1>4 DEF Read
<1>6. ASSUME Clean(r, u) PROVE Clean(v, u)
  <2>1. Agrees(u) \/ (Unborn(r) /\ Off(u)) \/ (Outdated(r) /\ Known(u))
    BY <1>6 DEF Clean, Due, Doomed
  <2>2. (Unborn(r) => Unborn(v)) /\ (Outdated(r) => Outdated(v))
    BY <1>1
    DEF Unborn, Outdated, Unsettled, Written, ForUser, AtUsers, Creators, GroupCalls, UserCalls
  <2>3. OwnClean(v, u)
    BY <1>1, <1>3 DEF OwnClean, Untold, Creators
  <2> QED BY <1>1, <1>2, <2>1, <2>2, <2>3 DEF Clean, Due
<1> QED BY <1>5, <1>6

\* A step between calls, from what it means to the job's own user and to groups.
LEMMA PlainAgree ==
  ASSUME ProvInv, ProvInv', AgreeInv, NEW j \in Jobs, NEW r, r = job[j], r.pc \notin UserCalls,
         NEW v, Step(j, v), v.pc \notin UserCalls, v.pc # "idle", Calm, dirty \subseteq dirty',
         Shape(v), Lost(v), v.user = r.user,
         \A u \in Users : v.list[u] \in {r.list[u], "none", ListUsers[u]},
         \A u \in Users : Owns(job[j], u) /\ r.user = u /\ Read(r, u) =>
           Read(v, u) /\ (Clean(r, u) => u \in dirty' \/ Clean(v, u)),
         \A g \in Groups : Owns(job[j], g) /\ ReadG(r, g) =>
           ReadG(v, g) /\ (CleanG(r, g) => g \in dirty' \/ CleanG(v, g))
  PROVE  AgreeInv'
<1>0. Shape(r)
  BY AgreeParts
<1>1. ASSUME NEW u \in Users, Owns(job[j], u)
      PROVE  u \in v.shared \/ (Read(v, u) /\ (u \in dirty' \/ Clean(v, u)))
  <2>1. Read(r, u) /\ (u \in dirty \/ Clean(r, u))
    BY <1>1, OwnedUser
  <2>2. CASE u = r.user
    BY <1>1, <2>1, <2>2
  <2>3. CASE u # r.user
    BY <1>0, <1>1, <2>3, OthersStep
  <2> QED BY <2>2, <2>3
<1>2. ASSUME NEW g \in Groups, Owns(job[j], g)
      PROVE  ReadG(v, g) /\ (g \in dirty' \/ CleanG(v, g))
  BY <1>2, OwnedGroup
<1> QED BY <1>1, <1>2, SilentAgree

\* The same, of a job that is not about groups, before and after.
LEMMA PlainUngrouped ==
  ASSUME ProvInv, ProvInv', AgreeInv, NEW j \in Jobs, NEW r, r = job[j], r.pc \notin UserCalls,
         NEW v, Step(j, v), v.pc \notin UserCalls, v.pc # "idle", Calm, dirty \subseteq dirty',
         Shape(v), Lost(v), Kept(v, r), v.groups \subseteq r.groups, Ungrouped(r), Ungrouped(v),
         \A u \in Users : Owns(job[j], u) /\ r.user = u /\ Read(r, u) =>
           Read(v, u) /\ (Clean(r, u) => u \in dirty' \/ Clean(v, u))
  PROVE  AgreeInv'
<1>1. \A g \in Groups : ReadG(r, g) => ReadG(v, g)
  BY UngroupedRead DEF Kept
<1>2. \A g \in Groups : CleanG(r, g) => CleanG(v, g)
  BY UngroupedAgrees
<1>3. v.user = r.user /\ \A u \in Users : v.list[u] \in {r.list[u], "none", ListUsers[u]}
  BY DEF Kept
<1> QED BY <1>1, <1>2, <1>3, PlainAgree

\* logAudit: the job goes on to what the event announced, or to the push.
LEMMA AuditAgrees ==
  ASSUME ProvInv, ProvInv', AgreeInv, NEW j \in Jobs, Audit(j)
  PROVE  AgreeInv'
<1>0. PICK r : r = job[j]
  OBVIOUS
<1>1. ProvTyped /\ r \in Job /\ Fit(r) /\ Place(r) /\ Shape(r) /\ Lost(r)
  BY <1>0, AgreeParts
<1>2. /\ r.pc = "audit" /\ r.pc \notin {"idle"} \cup UserCalls /\ r.kind \notin {"cli", "sync"}
      /\ \A u \in Users : r.who # u
  BY <1>0, <1>1, NobodyInHand DEF Audit, Place, UserCalls
<1>3. Calm /\ dirty' = dirty /\ Set(j, Audited(r))
  BY <1>0, CalmWhen DEF Audit
<1>4. CASE r.kind \in {"create", "register"}
  <2>1. PICK v : v = PushUser(r, "upsert", r.act)
    OBVIOUS
  <2>2. /\ Kept(v, r) /\ v.group = r.group /\ v.groups = r.groups
        /\ v.todo = {r.user} /\ v.op = "upsert" /\ v.who = None /\ v.act = r.act /\ v.pc = "push"
    BY <1>1, <2>1, PushUserFields
  <2>3. Set(j, v)
    BY <1>3, <1>4, <2>1 DEF Audited
  <2>4. Step(j, v)
    BY <1>0, <1>2, <1>3, <2>2, <2>3, KeptHeir, HeirStep
  <2>5. Shape(v) /\ Lost(v)
    BY <1>1, <1>4, <2>2
    DEF Kept, Shape, CallShape, PushShape, ListShape, OwnShape, Lost, UserCalls, OfUser
  <2>6. Ungrouped(r) /\ Ungrouped(v)
    BY <1>2, <1>4, <2>2 DEF Ungrouped, Kept, OfGroup, ForMember, AtUsers, UserCalls, GroupCalls
  <2>7. ASSUME NEW u \in Users, r.user = u, Read(r, u)
        PROVE  Read(v, u) /\ (Clean(r, u) => Clean(v, u))
    <3>1. v.who # u
      BY <2>2, ProvAssumption
    <3>2. Read(v, u)
      BY <1>4, <2>2, <2>7, <3>1 DEF Kept, Read, OwnRead
    <3>3. Clean(r, u) => Clean(v, u)
      BY <1>2, <1>4, <2>2, <2>7, <3>1
      DEF Kept, Clean, Due, Unborn, Outdated, Doomed, OwnClean, Untold, Unsettled, Creators,
          GroupCalls, UserCalls
    <3> QED BY <3>2, <3>3
  <2>8. v.pc \notin UserCalls /\ v.pc # "idle"
    BY <2>2 DEF UserCalls
  <2> QED BY <1>0, <1>2, <1>3, <2>2, <2>4, <2>5, <2>6, <2>7, <2>8, PlainUngrouped
<1>5. CASE r.kind \in {"new", "update", "edit", "delete"}
  <2>1. PICK l \in {"reread", "write", "erase"} :
          /\ Set(j, [r EXCEPT !.pc = l]) /\ (l = "reread" <=> r.kind = "new")
          /\ (l = "erase" <=> r.kind = "delete")
    BY <1>3, <1>5 DEF Audited
  <2>2. PICK v : v = [r EXCEPT !.pc = l]
    OBVIOUS
  <2>3. v.pc = l /\ Still(v, r) /\ Kept(v, r)
    BY <1>1, <2>2, LabelFields DEF Still
  <2>4. Step(j, v)
    BY <1>0, <1>2, <1>3, <2>1, <2>2, <2>3, StillHeir, HeirStep
  <2>5. Shape(v) /\ Lost(v)
    BY <1>1, <1>2, <1>5, <2>1, <2>3
    DEF Still, Kept, Shape, CallShape, PushShape, ListShape, OwnShape, Lost, AtUsers, ForUser, UserCalls
  <2>6. Ungrouped(r) /\ Ungrouped(v) /\ v.groups = r.groups
    BY <1>2, <1>5, <2>1, <2>3 DEF Ungrouped, Still, Kept, OfGroup, ForMember, AtUsers, UserCalls, GroupCalls
  <2>7. ASSUME NEW u \in Users, r.user = u, Read(r, u)
        PROVE  Read(v, u) /\ (Clean(r, u) => Clean(v, u))
    <3>1. v.who # u
      BY <1>2, <2>3 DEF Still
    <3>2. OwnRead(v, u)
      BY <1>2, <1>5, <2>1, <2>3, <2>7
      DEF Still, Kept, Read, OwnRead, Alone, Written, ForMember, ForUser, AtUsers, UserCalls, GroupCalls
    <3>3. Read(v, u)
      BY <2>3, <2>7, <3>1, <3>2 DEF Kept, Read
    <3>4. Clean(r, u) => Clean(v, u)
      BY <1>2, <1>5, <2>1, <2>3, <2>7, <3>1
      DEF Still, Kept, Clean, Due, Unborn, Outdated, Doomed, OwnClean, Untold, Unsettled, Creators,
          Written, AtUsers, GroupCalls, UserCalls
    <3> QED BY <3>3, <3>4
  <2>8. v.pc \notin UserCalls /\ v.pc # "idle"
    BY <2>1, <2>3 DEF UserCalls
  <2> QED BY <1>0, <1>2, <1>3, <2>3, <2>4, <2>5, <2>6, <2>7, <2>8, PlainUngrouped
<1>6. CASE r.kind \in OfGroup
  <2>0. \A u \in Users : r.user # u
    BY <1>1, <1>6, ProvAssumption DEF Shape, OwnShape, OfUser, OfGroup
  <2>1. CASE r.kind = "gdelete"
    <3>1. PICK v : v = [r EXCEPT !.pc = "gerase"]
      OBVIOUS
    <3>2. v.pc = "gerase" /\ Still(v, r)
      BY <1>1, <3>1, LabelFields
    <3>3. Set(j, v)
      BY <1>3, <2>1, <3>1 DEF Audited
    <3>4. Step(j, v)
      BY <1>0, <1>2, <1>3, <3>2, <3>3, StillHeir, HeirStep
    <3>5. Shape(v) /\ Lost(v)
      BY <1>1, <1>2, <2>1, <3>2
      DEF Still, Kept, Shape, CallShape, PushShape, ListShape, OwnShape, Lost, AtUsers, ForUser, UserCalls
    <3>6. ASSUME NEW g \in Groups PROVE (ReadG(r, g) => ReadG(v, g)) /\ (CleanG(r, g) => CleanG(v, g))
      <4>1. ReadG(r, g) => ReadG(v, g)
        BY <1>2, <2>1, <3>2
        DEF Still, Kept, ReadG, Sends, Stored, Rereads, OwnReadG, ForMember, AtUsers, GroupCalls, UserCalls
      <4>2. CleanG(r, g) => CleanG(v, g)
        BY <1>2, <2>1, <3>2
        DEF Still, Kept, CleanG, DueG, Sends, Rereads, ForMember, AtUsers, GroupCalls, UserCalls
      <4> QED BY <4>1, <4>2
    <3>7. v.pc \notin UserCalls /\ v.pc # "idle" /\ v.user = r.user /\ v.list = r.list
      BY <3>2 DEF UserCalls, Still, Kept
    <3> QED BY <1>0, <1>2, <1>3, <2>0, <3>4, <3>5, <3>6, <3>7, PlainAgree
  <2>2. CASE r.kind \in {"gnew", "gedit"}
    <3>1. PICK g \in Groups : g = r.group
      BY <1>1, <1>6 DEF Fit
    <3>2. PICK v : v = PushGroup(r, g, r.want)
      OBVIOUS
    <3>3. r.kind \in ToGroups /\ Set(j, v)
      BY <1>3, <2>2, <3>1, <3>2 DEF Audited, ToGroups
    <3>4. Kept(v, r) /\ v.group = r.group /\ Shape(v) /\ Lost(v) /\ v.pc \notin {"idle"} \cup UserCalls
      BY <1>1, <3>1, <3>2, <3>3, PushGroupFields, PushGroupShape
    <3>5. Step(j, v)
      BY <1>0, <1>2, <1>3, <3>3, <3>4, KeptHeir, HeirStep
    <3>6. ASSUME NEW h \in Groups PROVE (ReadG(r, h) => ReadG(v, h)) /\ (CleanG(r, h) => CleanG(v, h))
      <4>1. h = g /\ ReadG(r, h) => group[g].st = "in" /\ Close(r.want, group[g].members)
        BY <1>2, <2>2, <3>1 DEF ReadG, Stored
      <4>2. CleanG(r, h) => h = g \/ AgreesG(h)
        BY <3>1 DEF CleanG, DueG, Sends, Rereads
      <4> QED BY <1>1, <3>2, <3>3, <4>1, <4>2, PushGroupRead, PushGroupClean
    <3>7. v.user = r.user /\ v.list = r.list
      BY <3>4 DEF Kept
    <3> QED BY <1>0, <1>2, <1>3, <2>0, <3>4, <3>5, <3>6, <3>7, PlainAgree
  <2> QED BY <1>6, <2>1, <2>2 DEF OfGroup
<1>7. r.kind \in AllKinds
  BY <1>1, <1>2 DEF Job, Place
<1> QED BY <1>2, <1>4, <1>5, <1>6, <1>7 DEF AllKinds, OfGroup

\* The audit event fails: a creation is to be undone, any other job ends.
LEMMA AuditFailsAgrees ==
  ASSUME ProvInv, ProvInv', AgreeInv, NEW j \in Jobs, AuditFails(j)
  PROVE  AgreeInv'
<1>0. PICK r : r = job[j]
  OBVIOUS
<1>1. ProvTyped /\ r \in Job /\ Fit(r) /\ Place(r) /\ Shape(r) /\ Lost(r)
  BY <1>0, AgreeParts
<1>2. /\ r.pc = "audit" /\ r.pc \notin {"idle"} \cup UserCalls /\ r.kind \notin {"cli", "sync"}
      /\ \A u \in Users : r.who # u
  BY <1>0, <1>1, NobodyInHand DEF AuditFails, Place, UserCalls
<1>3. Calm /\ dirty \subseteq dirty' /\ (r.kind = "gedit" => r.group \in dirty')
  BY <1>0, CalmWhen DEF AuditFails, Dirty
<1>4. CASE r.kind \in Creators \cup {"gnew"}
  <2>1. Go(j, "undo")
    BY <1>0, <1>4 DEF AuditFails, Creators
  <2>2. PICK v : Step(j, v) /\ v.pc = "undo" /\ Still(v, r)
    BY <1>0, <1>2, <1>3, <2>1, GoStep
  <2>3. Shape(v) /\ Lost(v)
    BY <1>1, <1>2, <1>4, <2>2
    DEF Still, Kept, Shape, CallShape, PushShape, ListShape, OwnShape, Lost, AtUsers, ForUser, UserCalls,
        Creators
  <2>4. v.pc \notin UserCalls /\ v.pc # "idle" /\ v.user = r.user /\ v.list = r.list /\ v.groups = r.groups
        /\ Kept(v, r)
    BY <2>2 DEF UserCalls, Still, Kept
  <2>5. CASE r.kind \in Creators
    <3>1. Ungrouped(r) /\ Ungrouped(v)
      BY <1>2, <2>2, <2>5 DEF Ungrouped, Still, Kept, OfGroup, ForMember, AtUsers, UserCalls, GroupCalls, Creators
    <3>2. ASSUME NEW u \in Users, r.user = u, Read(r, u)
          PROVE  Read(v, u) /\ (Clean(r, u) => Clean(v, u))
      <4>1. v.who # u
        BY <1>2, <2>2 DEF Still
      <4>2. OwnRead(v, u)
        BY <1>2, <2>2, <2>5, <3>2
        DEF Still, Kept, Read, OwnRead, Alone, ForMember, ForUser, AtUsers, UserCalls, GroupCalls, Creators
      <4>3. Read(v, u)
        BY <2>4, <3>2, <4>1, <4>2 DEF Read
      <4>4. Clean(r, u) => Clean(v, u)
        BY <1>2, <2>2, <2>5, <3>2, <4>1
        DEF Still, Kept, Clean, Due, Unborn, Outdated, Doomed, OwnClean, Untold, Unsettled, Creators
      <4> QED BY <4>3, <4>4
    <3> QED BY <1>0, <1>2, <1>3, <2>2, <2>3, <2>4, <3>1, <3>2, PlainUngrouped
  <2>6. CASE r.kind = "gnew"
    <3>1. \A u \in Users : r.user # u
      BY <1>1, <2>6, ProvAssumption DEF Shape, OwnShape, OfUser
    <3>2. ASSUME NEW g \in Groups PROVE (ReadG(r, g) => ReadG(v, g)) /\ (CleanG(r, g) => CleanG(v, g))
      <4>1. ReadG(r, g) => ReadG(v, g)
        BY <1>2, <2>2, <2>6
        DEF Still, Kept, ReadG, Sends, Stored, Rereads, OwnReadG, ForMember, AtUsers, GroupCalls, UserCalls
      <4>2. CleanG(r, g) => CleanG(v, g)
        BY <1>2, <2>2, <2>6
        DEF Still, Kept, CleanG, DueG, Sends, Rereads, ForMember, AtUsers, GroupCalls, UserCalls
      <4> QED BY <4>1, <4>2
    <3> QED BY <1>0, <1>2, <1>3, <2>2, <2>3, <2>4, <3>1, <3>2, PlainAgree
  <2> QED BY <1>4, <2>5, <2>6
<1>5. CASE r.kind \notin Creators \cup {"gnew"}
  <2>1. End(j)
    BY <1>0, <1>5 DEF AuditFails, Creators
  <2>2. ASSUME NEW u \in Users, Clean(r, u) PROVE Agrees(u)
    BY <1>2, <1>5, <2>2
    DEF Clean, Due, Made, Unborn, Outdated, Doomed, Written, AtUsers, UserCalls, GroupCalls
  <2>3. ASSUME NEW g \in Groups, CleanG(r, g) PROVE g \in dirty' \/ AgreesG(g)
    BY <1>2, <1>3, <1>5, <2>3
    DEF CleanG, DueG, Sends, Rereads, ForMember, AtUsers, GroupCalls, UserCalls
  <2> QED BY <1>0, <1>2, <1>3, <2>1, <2>2, <2>3, EndAgree
<1> QED BY <1>4, <1>5

\* The name of a group is updated, before its members are.
LEMMA UpdateGroupAgrees ==
  ASSUME ProvInv, ProvInv', AgreeInv, NEW j \in Jobs, UpdateGroup(j)
  PROVE  AgreeInv'
<1>0. PICK r : r = job[j]
  OBVIOUS
<1>1. ProvTyped /\ r \in Job /\ Fit(r) /\ Place(r) /\ Shape(r) /\ Lost(r)
  BY <1>0, AgreeParts
<1>2. /\ r.pc = "gupdate" /\ r.pc \notin {"idle"} \cup UserCalls /\ r.kind = "gedit"
      /\ \A u \in Users : r.who # u
  BY <1>0, <1>1, NobodyInHand DEF UpdateGroup, Place, UserCalls
<1>3. Calm /\ dirty' = dirty
  BY <1>0, CalmWhen DEF UpdateGroup
<1>4. \A u \in Users : r.user # u
  BY <1>1, <1>2, ProvAssumption DEF Shape, OwnShape, OfUser
<1>5. ASSUME NEW g \in Groups, CleanG(r, g) PROVE AgreesG(g)
  BY <1>2, <1>5 DEF CleanG, DueG, Sends, Rereads, ForMember, AtUsers, GroupCalls, UserCalls
<1>6. CASE End(j)
  <2>1. \A u \in Users : Clean(r, u) => Agrees(u)
    BY <1>2, <1>4 DEF Clean, Due
  <2> QED BY <1>0, <1>2, <1>3, <1>5, <1>6, <2>1, EndAgree
<1>7. CASE Go(j, "gmembers")
  <2>1. PICK v : Step(j, v) /\ v.pc = "gmembers" /\ Still(v, r)
    BY <1>0, <1>2, <1>3, <1>7, GoStep
  <2>2. Shape(v) /\ Lost(v)
    BY <1>1, <1>2, <2>1
    DEF Still, Kept, Shape, CallShape, PushShape, ListShape, OwnShape, Lost, AtUsers, ForUser, UserCalls
  <2>3. v.pc \notin UserCalls /\ v.pc # "idle" /\ v.user = r.user /\ v.list = r.list
    BY <2>1 DEF UserCalls, Still, Kept
  <2>4. ASSUME NEW g \in Groups PROVE (ReadG(r, g) => ReadG(v, g)) /\ (CleanG(r, g) => CleanG(v, g))
    <3>1. ReadG(r, g) => ReadG(v, g)
      BY <1>2, <2>1
      DEF Still, Kept, ReadG, Sends, Stored, Rereads, OwnReadG, ForMember, AtUsers, GroupCalls, UserCalls
    <3>2. CleanG(r, g) => CleanG(v, g)
      BY <1>2, <1>5, <2>1 DEF Still, Kept, CleanG
    <3> QED BY <3>1, <3>2
  <2> QED BY <1>0, <1>2, <1>3, <1>4, <2>1, <2>2, <2>3, <2>4, PlainAgree
<1> QED BY <1>6, <1>7 DEF UpdateGroup

\* The user is read again and pushed; or is gone, or cannot be read.
LEMMA RereadAgrees ==
  ASSUME ProvInv, ProvInv', AgreeInv, NEW j \in Jobs, Reread(j)
  PROVE  AgreeInv'
<1>0. PICK r : r = job[j]
  OBVIOUS
<1>1. ProvTyped /\ r \in Job /\ Fit(r) /\ Place(r) /\ Shape(r) /\ Lost(r)
  BY <1>0, AgreeParts
<1>2. /\ r.pc = "reread" /\ r.pc \notin {"idle"} \cup UserCalls /\ r.kind \in {"new", "update", "edit"}
      /\ r.user \in Users /\ \A u \in Users : r.who # u
  BY <1>0, <1>1, NobodyInHand DEF Reread, Place, UserCalls, Fit, OfUser
<1>3. Calm
  BY CalmWhen DEF Reread
<1>4. Ungrouped(r)
  BY <1>2 DEF Ungrouped, OfGroup, ForMember, AtUsers, UserCalls, GroupCalls
<1>5. \A g \in Groups : CleanG(r, g) => AgreesG(g)
  BY <1>4, UngroupedAgrees
<1>6. ASSUME NEW u \in Users, u # r.user, Clean(r, u) PROVE Agrees(u)
  BY <1>2, <1>6 DEF Clean, Due
<1>7. CASE End(j) /\ Dirty({r.user})
  <2>1. dirty \subseteq dirty' /\ r.user \in dirty'
    BY <1>7 DEF Dirty
  <2> QED BY <1>0, <1>2, <1>3, <1>5, <1>6, <1>7, <2>1, EndAgree
<1>8. CASE End(j) /\ dirty' = dirty /\ r.user \notin In
  <2>1. ~Read(r, r.user)
    BY <1>2, <1>8 DEF Read, OwnRead
  <2> QED BY <1>0, <1>2, <1>3, <1>5, <1>6, <1>8, <2>1, EndAgree
<1>9. ASSUME NEW op, op = (IF r.kind # "new" /\ ~r.form.active THEN "deactivate" ELSE "upsert"),
             Set(j, PushUser(r, op, row[r.user].active)), dirty' = dirty, r.user \in In
      PROVE  AgreeInv'
  <2>1. PICK v : v = PushUser(r, op, row[r.user].active)
    OBVIOUS
  <2>2. /\ Kept(v, r) /\ v.group = r.group /\ v.groups = r.groups /\ v.todo = {r.user}
        /\ v.op = op /\ v.who = None /\ v.act = row[r.user].active /\ v.pc = "push"
    BY <1>1, <2>1, PushUserFields
  <2>3. Step(j, v)
    <3>1. Set(j, v) /\ dirty \subseteq dirty'
      BY <1>9, <2>1
    <3>2. Heir(v, r) /\ v.shared = r.shared
      BY <2>2, KeptHeir
    <3> QED BY <1>0, <1>2, <3>1, <3>2, HeirStep
  <2>4. /\ op \in {"deactivate", "upsert"}
        /\ op = "deactivate" => r.kind \in {"update", "edit"} /\ ~r.form.active
        /\ r.kind = "new" => op = "upsert"
    BY <1>2, <1>9
  <2>5. Shape(v) /\ Lost(v)
    BY <1>1, <1>2, <2>2, <2>4
    DEF Kept, Shape, CallShape, PushShape, ListShape, OwnShape, Lost, UserCalls, OfUser
  <2>6. Ungrouped(v)
    BY <1>2, <2>2, <2>4 DEF Ungrouped, Kept, OfGroup, ForMember, GroupCalls
  <2>7. ASSUME NEW u \in Users, r.user = u, Read(r, u)
        PROVE  Read(v, u) /\ (Clean(r, u) => Clean(v, u))
    <3>1. v.who # u
      BY <2>2, ProvAssumption
    <3>2. Is(u, v.act)
      BY <1>9, <2>2, <2>7 DEF Is
    <3>3. OwnRead(v, u)
      BY <1>2, <2>2, <2>4, <2>6, <2>7, <3>2
      DEF Kept, Read, OwnRead, Alone, Written, Ungrouped
    <3>4. Read(v, u)
      BY <2>2, <2>7, <3>1, <3>3 DEF Kept, Read
    <3>5. ASSUME Clean(r, u) PROVE Clean(v, u)
      <4>1. Agrees(u) \/ (Unborn(r) /\ Off(u)) \/ (Outdated(r) /\ Known(u))
        BY <1>2, <2>7, <3>5 DEF Clean, Due, Doomed
      <4>2. (Unborn(r) => Unborn(v)) /\ (Outdated(r) => Outdated(v)) /\ ~Unsettled(v)
        BY <1>2, <2>2, <2>4
        DEF Kept, Unborn, Outdated, Unsettled, Written, AtUsers, Creators, GroupCalls
      <4>3. OwnClean(v, u)
        BY <1>2, <2>2, <4>2 DEF Kept, OwnClean, Untold
      <4> QED BY <2>2, <2>7, <3>1, <4>1, <4>2, <4>3 DEF Kept, Clean, Due
    <3> QED BY <3>4, <3>5
  <2>8. v.pc \notin UserCalls /\ v.pc # "idle"
    BY <2>2 DEF UserCalls
  <2> QED BY <1>0, <1>2, <1>3, <1>4, <1>9, <2>2, <2>3, <2>5, <2>6, <2>7, <2>8, PlainUngrouped
<1>10. \/ End(j) /\ Dirty({r.user})
       \/ End(j) /\ dirty' = dirty /\ r.user \notin In
       \/ \E op : /\ op = (IF r.kind # "new" /\ ~r.form.active THEN "deactivate" ELSE "upsert")
                  /\ Set(j, PushUser(r, op, row[r.user].active)) /\ dirty' = dirty /\ r.user \in In
  BY <1>0 DEF Reread
<1> QED BY <1>7, <1>8, <1>9, <1>10

\* Regrouped, field by field.
LEMMA RegroupedFields ==
  ASSUME NEW r \in Job
  PROVE  LET v == Regrouped(r)
         IN  /\ Still(v, r)
             /\ v.pc = IF r.groups # {} THEN "gwrite" ELSE IF r.kind = "new" THEN "audit" ELSE "reread"
<1>1. PICK l : /\ l = (IF r.groups # {} THEN "gwrite" ELSE IF r.kind = "new" THEN "audit" ELSE "reread")
               /\ Regrouped(r) = [r EXCEPT !.pc = l]
  BY DEF Regrouped
<1> QED BY <1>1, LabelFields

\* A user form between two groups, and after the last: v is where r goes.
Onward(v, r) ==
  /\ v.kind = r.kind /\ v.user = r.user /\ v.form = r.form /\ v.shared = r.shared
  /\ v.who = r.who /\ v.todo = r.todo
  /\ v.pc = IF v.groups # {} THEN "gwrite" ELSE IF v.kind = "new" THEN "audit" ELSE "reread"

\* It is the same job, and not about one of its groups.
LEMMA OnwardStep ==
  ASSUME NEW j \in Jobs, NEW r, r = job[j], r.pc # "idle", r.kind \in {"new", "edit"},
         NEW v, Onward(v, r), Set(j, v), dirty \subseteq dirty'
  PROVE  Step(j, v) /\ Ungrouped(v) /\ v.pc \notin {"idle"} \cup UserCalls
<1>1. v.pc \in {"gwrite", "audit", "reread"}
  BY DEF Onward
<1>2. Heir(v, r) /\ v.shared = r.shared
  BY DEF Onward, Heir, OfGroup
<1>3. Ungrouped(v)
  BY <1>1 DEF Onward, Ungrouped, OfGroup, ForMember, AtUsers, UserCalls, GroupCalls
<1> QED BY <1>1, <1>2, <1>3, HeirStep DEF UserCalls

\* Nobody is in hand between two groups.
LEMMA OnwardShape ==
  ASSUME NEW r, Shape(r), r.pc \notin UserCalls, r.kind \in {"new", "edit"}, NEW v, Onward(v, r)
  PROVE  Shape(v) /\ Lost(v)
<1>1. v.pc \in {"gwrite", "audit", "reread"} /\ (v.kind = "edit" => v.pc # "audit")
  BY DEF Onward
<1> QED BY <1>1
  DEF Onward, Shape, CallShape, PushShape, ListShape, OwnShape, Lost, AtUsers, ForUser, UserCalls, OfUser

\* What the form knows of its own user stays.
LEMMA OnwardOwn ==
  ASSUME NEW r, r.pc \in {"glist", "gwrite", "gread"} \cup GroupCalls, r.kind \in {"new", "edit"},
         NEW v, Onward(v, r), NEW u \in Users, r.user = u, r.who # u, Read(r, u),
         v.list[u] \in {r.list[u], "none", ListUsers[u]},
         r.kind = "new" /\ r.form.groups = {} => v.groups = {}
  PROVE  Read(v, u) /\ (Clean(r, u) => Clean(v, u))
<1>1. v.pc \in {"gwrite", "audit", "reread"} /\ (v.kind = "new" => v.pc # "reread")
  BY DEF Onward
<1>2. v.kind = "new" /\ v.form.groups = {} => v.groups = {} /\ v.pc = "audit"
  BY DEF Onward
<1>3. /\ ~ForUser(v) /\ ~ForMember(v) /\ ~ForUser(r) /\ Written(r) /\ Unsettled(r)
  BY <1>1 DEF ForUser, ForMember, AtUsers, UserCalls, GroupCalls, Written, Unsettled
<1>4. OwnRead(v, u)
  BY <1>1, <1>2, <1>3 DEF Onward, Read, OwnRead, Alone, GroupCalls
<1>5. Read(v, u)
  BY <1>1, <1>4 DEF Onward, Read
<1>6. ASSUME Clean(r, u) PROVE Clean(v, u)
  <2>1. Agrees(u) \/ (r.kind = "new" /\ Off(u)) \/ (r.kind = "edit" /\ Known(u))
    BY <1>6 DEF Clean, Due, Unborn, Outdated, Doomed, Creators
  <2>2. /\ r.kind = "new" => Unborn(v)
        /\ r.kind = "edit" => Outdated(v) \/ v.pc = "audit"
    BY <1>1, <1>3 DEF Onward, Unborn, Unsettled, Outdated, Written, Creators
  <2>3. v.kind = "edit" => v.pc # "audit"
    BY DEF Onward
  <2>4. OwnClean(v, u)
    BY <1>1, <1>3, <1>6
    DEF Onward, Clean, OwnClean, Untold, Creators
  <2> QED BY <2>1, <2>2, <2>3, <2>4 DEF Onward, Clean, Due
<1> QED BY <1>5, <1>6

\* A group whose member was changed is read again and pushed, or skipped.
LEMMA ReadGroupAgrees ==
  ASSUME ProvInv, ProvInv', AgreeInv, NEW j \in Jobs, ReadGroup(j)
  PROVE  AgreeInv'
<1>0. PICK r : r = job[j]
  OBVIOUS
<1>1. ProvTyped /\ r \in Job /\ Fit(r) /\ Place(r) /\ Shape(r) /\ Lost(r)
  BY <1>0, AgreeParts
<1>2. /\ r.pc = "gread" /\ r.pc \notin {"idle"} \cup UserCalls /\ r.kind \in {"new", "edit"}
      /\ r.kind \in ToGroups /\ r.group \in Groups /\ \A u \in Users : r.who # u
  BY <1>0, <1>1, NobodyInHand DEF ReadGroup, Place, UserCalls, ToGroups
<1>3. Calm
  BY CalmWhen DEF ReadGroup
<1>4. PICK g \in Groups : g = r.group
  BY <1>2
<1>5. ASSUME NEW h \in Groups, CleanG(r, h) PROVE h = g \/ AgreesG(h)
  BY <1>2, <1>4, <1>5 DEF CleanG, DueG, Sends, Rereads
<1>6. ASSUME group[g].st = "in", Set(j, PushGroup(r, g, group[g].members)), dirty' = dirty
      PROVE  AgreeInv'
  <2>1. PICK v : v = PushGroup(r, g, group[g].members)
    OBVIOUS
  <2>2. Kept(v, r) /\ v.group = r.group /\ Shape(v) /\ Lost(v) /\ v.pc \notin {"idle"} \cup UserCalls
    BY <1>1, <1>2, <1>4, <2>1, PushGroupFields, PushGroupShape
  <2>3. Step(j, v)
    BY <1>0, <1>2, <1>6, <2>1, <2>2, KeptHeir, HeirStep
  <2>4. Close(group[g].members, group[g].members)
    BY DEF Close
  <2>5. \A h \in Groups : (ReadG(r, h) => ReadG(v, h)) /\ (CleanG(r, h) => CleanG(v, h))
    BY <1>1, <1>2, <1>5, <1>6, <2>1, <2>4, PushGroupRead, PushGroupClean
  <2>6. \A u \in Users : r.user = u /\ Read(r, u) => Read(v, u) /\ (Clean(r, u) => Clean(v, u))
    BY <1>1, <1>2, <2>1, PushGroupOwn
  <2>7. v.user = r.user /\ v.list = r.list
    BY <2>2 DEF Kept
  <2> QED BY <1>0, <1>2, <1>3, <1>6, <2>2, <2>3, <2>5, <2>6, <2>7, PlainAgree
<1>7. ASSUME Set(j, Regrouped([r EXCEPT !.groups = @ \ {r.group}])), dirty \subseteq dirty',
             g \in dirty' \/ group[g].st # "in"
      PROVE  AgreeInv'
  <2>1. PICK s : s = [r EXCEPT !.groups = @ \ {r.group}]
    OBVIOUS
  <2>2. /\ s \in Job /\ s.pc = r.pc /\ Kept(s, r) /\ s.groups = r.groups \ {g} /\ s.who = r.who
        /\ s.todo = r.todo
    BY <1>1, <1>4, <2>1 DEF Job, Kept
  <2>3. PICK v : v = Regrouped(s)
    OBVIOUS
  <2>4. Still(v, s) /\ v.pc = IF s.groups # {} THEN "gwrite" ELSE IF s.kind = "new" THEN "audit" ELSE "reread"
    BY <2>2, <2>3, RegroupedFields
  <2>5. Onward(v, r) /\ Kept(v, r) /\ v.groups \subseteq r.groups
    BY <2>2, <2>4 DEF Still, Kept, Onward
  <2>6. Step(j, v) /\ Ungrouped(v) /\ v.pc \notin {"idle"} \cup UserCalls
    BY <1>0, <1>2, <1>7, <2>1, <2>3, <2>5, OnwardStep
  <2>7. Shape(v) /\ Lost(v)
    BY <1>1, <1>2, <2>5, OnwardShape
  <2>8. ASSUME NEW u \in Users, r.user = u, Read(r, u)
        PROVE  Read(v, u) /\ (Clean(r, u) => Clean(v, u))
    <3>1. r.kind = "new" /\ r.form.groups = {} => v.groups = {}
      BY <2>5, <2>8 DEF Read, OwnRead, Alone
    <3> QED BY <1>2, <2>5, <2>8, <3>1, OnwardOwn DEF Kept
  <2>9. ASSUME NEW h \in Groups, ReadG(r, h)
        PROVE  ReadG(v, h) /\ (CleanG(r, h) => h \in dirty' \/ CleanG(v, h))
    <3>1. ReadG(v, h)
      BY <2>5, <2>6, <2>9, UngroupedRead DEF Kept
    <3>2. h = g => group[g].st = "in"
      BY <1>2, <1>4, <2>9 DEF ReadG, Rereads
    <3>3. CleanG(r, h) => h \in dirty' \/ AgreesG(h)
      BY <1>5, <1>7, <3>2
    <3> QED BY <2>6, <3>1, <3>3, UngroupedAgrees
  <2>10. v.user = r.user /\ v.list = r.list
    BY <2>5 DEF Kept
  <2> QED BY <1>0, <1>2, <1>3, <1>7, <2>6, <2>7, <2>8, <2>9, <2>10, PlainAgree
<1>8. \/ group[g].st = "in" /\ Set(j, PushGroup(r, g, group[g].members)) /\ dirty' = dirty
      \/ /\ Set(j, Regrouped([r EXCEPT !.groups = @ \ {r.group}])) /\ dirty \subseteq dirty'
         /\ g \in dirty' \/ group[g].st # "in"
  BY <1>0, <1>4 DEF ReadGroup, Dirty
<1> QED BY <1>6, <1>7, <1>8

\* A user form lists the groups, to find those whose membership changes.
LEMMA ListGroupsForm ==
  ASSUME ProvInv, ProvInv', AgreeInv, NEW j \in Jobs, ListGroups(j), job[j].kind # "sync"
  PROVE  AgreeInv'
<1>0. PICK r : r = job[j]
  OBVIOUS
<1>1. ProvTyped /\ r \in Job /\ Fit(r) /\ Place(r) /\ Shape(r) /\ Lost(r)
  BY <1>0, AgreeParts
<1>2. /\ r.pc = "glist" /\ r.pc \notin {"idle"} \cup UserCalls /\ r.kind \in {"new", "edit"}
      /\ \A u \in Users : r.who # u
  BY <1>0, <1>1, NobodyInHand DEF ListGroups, Place, UserCalls
<1>3. Calm /\ dirty' = dirty
  BY CalmWhen DEF ListGroups
<1>4. PICK in : in = {g \in Groups : group[g].st = "in"}
  OBVIOUS
<1>5. PICK changed : changed = {g \in in : (r.user \in group[g].members) # (g \in r.form.groups)}
  OBVIOUS
<1>6. PICK listed : listed = [[r EXCEPT !.glist = [g \in Groups |-> group[g].members]]
                               EXCEPT !.groups = changed, !.list = ListUsers]
  OBVIOUS
<1>7. PICK x : /\ Set(j, Regrouped(x))
               /\ x = r \/ x = listed \/ x = [listed EXCEPT !.list = Nobody]
  BY <1>0, <1>2, <1>4, <1>5, <1>6 DEF ListGroups
<1>8. /\ ListUsers \in Snapshot /\ Nobody \in Snapshot
      /\ [g \in Groups |-> group[g].members] \in [Groups -> SUBSET Users]
  BY <1>1, TypedParts DEF ListUsers, Nobody, Snapshot, Group
<1>9. changed \subseteq Groups
  BY <1>4, <1>5
<1>10. listed \in Job
  BY <1>1, <1>6, <1>8, <1>9 DEF Job
<1>11. /\ listed.kind = r.kind /\ listed.user = r.user /\ listed.form = r.form /\ listed.shared = r.shared
       /\ listed.who = r.who /\ listed.todo = r.todo /\ listed.groups = changed /\ listed.list = ListUsers
  BY <1>1, <1>6 DEF Job
<1>12. /\ x \in Job
       /\ x.kind = r.kind /\ x.user = r.user /\ x.form = r.form /\ x.shared = r.shared
       /\ x.who = r.who /\ x.todo = r.todo /\ x.groups \in {r.groups, changed}
       /\ x.list \in {r.list, ListUsers, Nobody}
  <2>1. CASE x = r
    BY <1>1, <2>1
  <2>2. CASE x = listed
    BY <1>10, <1>11, <2>2
  <2>3. CASE x = [listed EXCEPT !.list = Nobody]
    BY <1>8, <1>10, <1>11, <2>3 DEF Job
  <2> QED BY <1>7, <2>1, <2>2, <2>3
<1>13. PICK v : v = Regrouped(x)
  OBVIOUS
<1>14. Still(v, x) /\ v.pc = IF x.groups # {} THEN "gwrite" ELSE IF x.kind = "new" THEN "audit" ELSE "reread"
  BY <1>12, <1>13, RegroupedFields
<1>15. Onward(v, r) /\ v.groups \in {r.groups, changed} /\ v.list \in {r.list, ListUsers, Nobody}
  BY <1>12, <1>14 DEF Still, Kept, Onward
<1>16. Step(j, v) /\ Ungrouped(v) /\ v.pc \notin {"idle"} \cup UserCalls
  BY <1>0, <1>2, <1>3, <1>7, <1>13, <1>15, OnwardStep
<1>17. Shape(v) /\ Lost(v)
  BY <1>1, <1>2, <1>15, OnwardShape
<1>18. ASSUME NEW u \in Users PROVE v.list[u] \in {r.list[u], "none", ListUsers[u]}
  BY <1>15 DEF Nobody
<1>19. ASSUME NEW u \in Users, r.user = u, Read(r, u)
       PROVE  Read(v, u) /\ (Clean(r, u) => Clean(v, u))
  <2>1. r.kind = "new" /\ r.form.groups = {} => v.groups = {}
    <3>1. ASSUME r.kind = "new", r.form.groups = {} PROVE v.groups = {}
      <4>1. Alone(r, u)
        BY <1>19, <3>1 DEF Read, OwnRead
      <4>2. r.groups = {} /\ \A g \in Groups : u \notin group[g].members
        BY <1>2, <4>1 DEF Alone
      <4>3. changed = {}
        BY <1>4, <1>5, <1>19, <3>1, <4>2
      <4> QED BY <1>15, <4>2, <4>3
    <3> QED BY <3>1
  <2> QED BY <1>2, <1>15, <1>18, <1>19, <2>1, OnwardOwn
<1>20. ASSUME NEW g \in Groups, ReadG(r, g)
       PROVE  ReadG(v, g) /\ (CleanG(r, g) => CleanG(v, g))
  <2>1. v.kind \in {"new", "edit"} /\ (g \in v.groups => group[g].st = "in")
    BY <1>2, <1>4, <1>5, <1>15, <1>20 DEF Onward, ReadG
  <2>2. ReadG(v, g)
    BY <1>16, <2>1 DEF ReadG, Ungrouped, Sends, Rereads, Stored, OwnReadG
  <2>3. Ungrouped(r)
    BY <1>2 DEF Ungrouped, OfGroup, ForMember, AtUsers, UserCalls, GroupCalls
  <2> QED BY <1>16, <2>2, <2>3, UngroupedAgrees
<1>21. v.user = r.user
  BY <1>15 DEF Onward
<1> QED BY <1>0, <1>2, <1>3, <1>16, <1>17, <1>18, <1>19, <1>20, <1>21, PlainAgree

\* The synchronisation lists the groups, and pushes them one by one.
LEMMA ListGroupsSync ==
  ASSUME ProvInv, ProvInv', AgreeInv, NEW j \in Jobs, ListGroups(j), job[j].kind = "sync"
  PROVE  AgreeInv'
<1>0. PICK r : r = job[j]
  OBVIOUS
<1>1. ProvTyped /\ r \in Job /\ Fit(r) /\ Place(r) /\ Shape(r) /\ Lost(r)
  BY <1>0, AgreeParts
<1>2. /\ r.pc = "glist" /\ r.pc \notin {"idle"} \cup UserCalls /\ r.kind = "sync" /\ r.kind \in ToGroups
      /\ \A u \in Users : r.who # u
  BY <1>0, <1>1, NobodyInHand DEF ListGroups, UserCalls, ToGroups
<1>3. Calm /\ dirty' = dirty
  BY CalmWhen DEF ListGroups
<1>4. \A u \in Users : r.user # u
  BY <1>1, <1>2, ProvAssumption DEF Shape, OwnShape, OfUser
<1>5. \A g \in Groups : CleanG(r, g) => AgreesG(g)
  <2>1. Ungrouped(r)
    BY <1>2 DEF Ungrouped, OfGroup, ForMember, AtUsers, UserCalls, GroupCalls
  <2> QED BY <2>1, UngroupedAgrees
<1>6. CASE End(j)
  <2>1. \A u \in Users : Clean(r, u) => Agrees(u)
    BY <1>2, <1>4 DEF Clean, Due
  <2> QED BY <1>0, <1>2, <1>3, <1>5, <1>6, <2>1, EndAgree
<1>7. PICK in : in = {g \in Groups : group[g].st = "in"}
  OBVIOUS
<1>8. PICK s : s = [[r EXCEPT !.glist = [g \in Groups |-> group[g].members]] EXCEPT !.groups = in]
  OBVIOUS
<1>9. /\ s.kind = r.kind /\ s.user = r.user /\ s.form = r.form /\ s.shared = r.shared /\ s.list = r.list
      /\ s.group = r.group /\ s.who = r.who /\ s.op = r.op /\ s.pc = r.pc /\ s.groups = in /\ s.todo = r.todo
      /\ s.glist = [g \in Groups |-> group[g].members]
  BY <1>1, <1>8 DEF Job
<1>10. s \in Job
  <2>1. [g \in Groups |-> group[g].members] \in [Groups -> SUBSET Users] /\ in \subseteq Groups
    BY <1>1, <1>7, TypedParts DEF Group
  <2> QED BY <1>1, <1>8, <2>1 DEF Job
<1>11. Shape(s)
  BY <1>1, <1>2, <1>9
  DEF Shape, CallShape, PushShape, ListShape, OwnShape, AtUsers, ForUser, UserCalls
<1>12. ASSUME NEW g \in in, Set(j, PushGroup(s, g, s.glist[g]))
       PROVE  AgreeInv'
  <2>1. PICK v : v = PushGroup(s, g, s.glist[g])
    OBVIOUS
  <2>2. Kept(v, s) /\ Shape(v) /\ Lost(v) /\ v.pc \notin {"idle"} \cup UserCalls
    BY <1>2, <1>9, <1>10, <1>11, <2>1, PushGroupFields, PushGroupShape
  <2>3. Heir(v, r) /\ v.shared = r.shared /\ v.user = r.user /\ v.list = r.list
    BY <1>2, <1>9, <2>2 DEF Kept, Heir, OfGroup
  <2>4. Step(j, v)
    BY <1>0, <1>2, <1>3, <1>12, <2>1, <2>3, HeirStep
  <2>5. g \in Groups /\ group[g].st = "in" /\ s.glist[g] = group[g].members
    BY <1>7, <1>9
  <2>6. ASSUME NEW h \in Groups
        PROVE  ReadG(v, h) /\ (CleanG(r, h) => CleanG(v, h))
    <3>1. Close(group[h].members, group[h].members)
      BY DEF Close
    <3>2. ReadG(s, h)
      BY <1>2, <1>7, <1>9, <3>1
      DEF ReadG, Sends, Stored, Rereads, OwnReadG, ForMember, AtUsers, UserCalls, GroupCalls
    <3>3. ReadG(v, h)
      BY <1>2, <1>9, <1>10, <2>1, <2>5, <3>1, <3>2, PushGroupRead
    <3>4. CleanG(r, h) => CleanG(v, h)
      BY <1>2, <1>5, <1>9, <1>10, <2>1, <2>5, PushGroupClean
    <3> QED BY <3>3, <3>4
  <2> QED BY <1>0, <1>2, <1>3, <1>4, <2>2, <2>3, <2>4, <2>6, PlainAgree
<1>13. \/ End(j)
       \/ Set(j, AfterGroup(s))
  BY <1>0, <1>2, <1>7, <1>8 DEF ListGroups
<1>14. AfterGroup(s) = NoJob \/ \E g \in in : AfterGroup(s) = PushGroup(s, g, s.glist[g])
  BY <1>2, <1>9 DEF AfterGroup
<1> QED BY <1>6, <1>12, <1>13, <1>14 DEF End

\* A statement on one group: j touches it, and the users it adds.
LEMMA GroupAgree ==
  ASSUME ProvInv, ProvInv', AgreeInv, NEW j \in Jobs, NEW v, Step(j, v),
         NEW g \in Groups, g \in Touches(job[j]), UNCHANGED <<row, ext, target>>,
         \A h \in Groups \ {g} : group'[h] = group[h],
         group'[g].members \subseteq group[g].members \cup Touches(job[j]),
         dirty \subseteq dirty', Shape(v), Lost(v), GroupAt(g)', v.pc \notin {"flags", "isadmin", "glist"},
         \A u \in Users : Owns(job[j], u) =>
           IF v.pc = "idle" THEN u \in dirty' \/ Agrees(u)
           ELSE u \in v.shared \/ (Read(v, u) /\ (u \in dirty' \/ Clean(v, u))),
         Owns(job[j], g) =>
           IF v.pc = "idle" THEN g \in dirty' \/ AgreesG(g)' ELSE g \in v.shared \/ GroupOK(v, g)',
         \A h \in Groups \ {g} : Owns(job[j], h) =>
           IF v.pc = "idle" THEN h \in dirty' \/ AgreesG(h)
           ELSE h \in v.shared \/ (ReadG(v, h) /\ (h \in dirty' \/ CleanG(v, h)))
  PROVE  AgreeInv'
<1>1. row' = row /\ ext' = ext /\ vault' = vault /\ vgroup' = vgroup
  BY DEF target
<1>2. In' = In /\ Gone' = Gone /\ ListUsers' = ListUsers
  BY <1>1 DEF In, Gone, ListUsers
<1>3. \A u \in Users \ Touches(job[j]) : SameRow(u)
  BY <1>1 DEF SameRow
<1>4. \A h \in Groups \ {g} : SameGroup(h)
  BY <1>1 DEF SameGroup
<1>5. Local(j) /\ Forward
  BY <1>1, <1>2, <1>3, <1>4 DEF Local, Forward
<1>6. Lost(v)'
  BY <1>1 DEF Lost
<1>7. ASSUME NEW u \in Users PROVE UserAt(u)'
  <2>1. UserAt(u)
    BY DEF AgreeInv
  <2> QED BY <1>1, <1>2, <2>1 DEF UserAt
<1>8. ASSUME NEW h \in Groups PROVE GroupAt(h)'
  <2>1. GroupAt(h)
    BY DEF AgreeInv
  <2> QED BY <1>1, <1>2, <2>1 DEF GroupAt
<1>9. ASSUME NEW u \in Users, Owns(job[j], u)
      PROVE  IF v.pc = "idle" THEN u \in dirty' \/ Agrees(u)' ELSE u \in v.shared \/ UserOK(v, u)'
  <2>1. Agrees(u) => Agrees(u)'
    BY <1>1, <1>2 DEF Agrees
  <2>2. Read(v, u) => Read(v, u)'
    BY <1>1, <1>2 DEF Read, OwnRead, Alone, Is
  <2>3. Clean(v, u) => Clean(v, u)'
    <3>1. Due(v, u) => Due(v, u)'
      BY <1>1, <1>2 DEF Due, Current, Off, Known
    <3> QED BY <1>1, <2>1, <3>1 DEF Clean, OwnClean, CallClean, Off
  <2> QED BY <1>9, <2>1, <2>2, <2>3 DEF UserOK
<1>10. ASSUME NEW h \in Groups, Owns(job[j], h)
       PROVE  IF v.pc = "idle" THEN h \in dirty' \/ AgreesG(h)' ELSE h \in v.shared \/ GroupOK(v, h)'
  <2>1. CASE h = g
    BY <1>10, <2>1
  <2>2. CASE h # g
    <3>0. group'[h] = group[h] /\ vgroup'[h] = vgroup[h]
      BY <1>1, <2>2
    <3>1. AgreesG(h) => AgreesG(h)'
      BY <1>2, <3>0 DEF AgreesG, Close
    <3>2. ReadG(v, h) => ReadG(v, h)'
      BY <1>2, <3>0 DEF ReadG, OwnReadG, Close
    <3>3. CleanG(v, h) => CleanG(v, h)'
      BY <1>2, <3>0, <3>1 DEF CleanG
    <3> QED BY <1>10, <2>2, <3>1, <3>2, <3>3 DEF GroupOK
  <2> QED BY <2>1, <2>2
<1> QED BY <1>5, <1>6, <1>7, <1>8, <1>9, <1>10, StepAgree

\* The jobs about one group: their users are bystanders, and so are the other
\* groups.
LEMMA GroupJobAgree ==
  ASSUME ProvInv, ProvInv', AgreeInv, NEW j \in Jobs, NEW r, r = job[j], r.kind \in OfGroup,
         r.pc \notin {"idle"} \cup UserCalls,
         NEW v, Step(j, v), v.pc = "idle" \/ (v.user = r.user /\ v.list = r.list),
         NEW g \in Groups, g = r.group, UNCHANGED <<row, ext, target>>,
         \A h \in Groups \ {g} : group'[h] = group[h], GroupAt(g)',
         group'[g].members \subseteq Users,
         dirty \subseteq dirty', Shape(v), Lost(v), v.pc \notin {"flags", "isadmin", "glist"} \cup UserCalls,
         Owns(job[j], g) =>
           IF v.pc = "idle" THEN g \in dirty' \/ AgreesG(g)' ELSE g \in v.shared \/ GroupOK(v, g)'
  PROVE  AgreeInv'
<1>0. Shape(r)
  BY AgreeParts
<1>1. Touches(job[j]) = Users \cup {g}
  BY DEF Touches, OfGroup
<1>2. \A u \in Users : r.user # u
  BY <1>0, ProvAssumption DEF Shape, OwnShape, OfUser, OfGroup
<1>3. ASSUME NEW u \in Users, Owns(job[j], u)
      PROVE  IF v.pc = "idle" THEN u \in dirty' \/ Agrees(u)
             ELSE u \in v.shared \/ (Read(v, u) /\ (u \in dirty' \/ Clean(v, u)))
  <2>1. Read(r, u) /\ (u \in dirty \/ Clean(r, u)) /\ r.who # u
    BY <1>0, <1>3, OwnedUser, NobodyInHand
  <2>2. CASE v.pc = "idle"
    BY <1>2, <2>1, <2>2 DEF Clean, Due
  <2>3. CASE v.pc # "idle"
    <3>1. v.who # u /\ v.user # u /\ v.list[u] = r.list[u]
      BY <1>2, <2>3, NobodyInHand
    <3> QED BY <1>2, <2>1, <2>3, <3>1, Bystander
  <2> QED BY <2>2, <2>3
<1>4. \A h \in Groups \ {g} : ~Owns(job[j], h)
  BY <1>1, ProvAssumption DEF Owns
<1> QED BY <1>1, <1>3, <1>4, GroupAgree

\* INSERT of a group: it is due at the target until it is pushed.
LEMMA CreateGroupAgrees ==
  ASSUME ProvInv, ProvInv', AgreeInv, NEW j \in Jobs, CreateGroup(j)
  PROVE  AgreeInv'
<1>0. PICK r : r = job[j]
  OBVIOUS
<1>1. ProvTyped /\ r \in Job /\ Fit(r) /\ Place(r) /\ Shape(r) /\ Lost(r) /\ \A g \in Groups : GroupAt(g)
  BY <1>0, AgreeParts
<1>2. /\ r.pc = "gcreate" /\ r.pc \notin {"idle"} \cup UserCalls /\ r.kind = "gnew" /\ r.kind \in OfGroup
      /\ \A u \in Users : r.who # u
  BY <1>0, <1>1, NobodyInHand DEF CreateGroup, Place, UserCalls, OfGroup
<1>3. UNCHANGED <<row, ext, target>> /\ dirty' = dirty
  BY DEF CreateGroup
<1>4. PICK g \in Groups : g = r.group
  BY <1>1, <1>2 DEF Fit
<1>5. CASE UNCHANGED group /\ End(j)
  <2>1. Calm
    BY <1>3, <1>5, CalmWhen DEF tables
  <2>2. \A u \in Users : Clean(r, u) => Agrees(u)
    BY <1>1, <1>2, ProvAssumption DEF Clean, Due, Shape, OwnShape, OfUser
  <2>3. \A h \in Groups : CleanG(r, h) => AgreesG(h)
    BY <1>2 DEF CleanG, DueG, Sends, Rereads, ForMember, AtUsers, UserCalls, GroupCalls
  <2> QED BY <1>0, <1>2, <1>3, <1>5, <2>1, <2>2, <2>3, EndAgree
<1>6. ASSUME group' = [group EXCEPT ![g] = [st |-> "in", members |-> {}]],
             NEW l \in {"audit", "gmembers"}, l = "audit" => r.want = {}, Go(j, l)
      PROVE  AgreeInv'
  <2>1. PICK v : Step(j, v) /\ v.pc = l /\ Still(v, r)
    BY <1>0, <1>2, <1>3, <1>6, GoStep
  <2>2. Shape(v) /\ Lost(v) /\ v.user = r.user /\ v.list = r.list
    BY <1>1, <1>2, <1>6, <2>1
    DEF Still, Kept, Shape, CallShape, PushShape, ListShape, OwnShape, Lost, AtUsers, ForUser, UserCalls
  <2>3. /\ group'[g].st = "in" /\ group'[g].members = {}
        /\ \A h \in Groups \ {g} : group'[h] = group[h]
        /\ vgroup' = vgroup /\ vault' = vault
    BY <1>1, <1>3, <1>6, TypedParts DEF target
  <2>4. GroupAt(g)'
    BY <1>1, <2>3 DEF GroupAt
  <2>5. ASSUME Owns(job[j], g) PROVE GroupOK(v, g)'
    <3>1. ReadG(r, g) /\ (g \in dirty \/ CleanG(r, g))
      BY <1>0, <2>5, OwnedGroup
    <3>2. v.group = g /\ v.kind = "gnew" /\ v.pc = l /\ v.want = r.want /\ v.groups = r.groups
      BY <1>2, <1>4, <2>1 DEF Still, Kept
    <3>3. v.want = {} => Close(v.want, group[g].members)'
      BY <2>3 DEF Close
    <3>4. ~Sends(v, g) /\ ~Rereads(v, g) /\ (Stored(v, g) => v.want = {})
      BY <1>6, <3>2 DEF Sends, Rereads, Stored, ForMember, AtUsers, UserCalls, GroupCalls
    <3>5. ReadG(v, g)'
      BY <1>6, <2>3, <3>2, <3>3, <3>4 DEF ReadG, OwnReadG
    <3>6. CleanG(r, g) => CleanG(v, g)'
      BY <1>2, <1>4, <1>6, <2>3, <3>2 DEF CleanG, DueG
    <3> QED BY <1>3, <3>1, <3>5, <3>6 DEF GroupOK
  <2>6. v.pc \notin {"idle", "flags", "isadmin", "glist"} \cup UserCalls
    BY <1>6, <2>1 DEF UserCalls
  <2> QED BY <1>0, <1>2, <1>3, <1>4, <2>1, <2>2, <2>3, <2>4, <2>5, <2>6, GroupJobAgree
<1>7. \/ UNCHANGED group /\ End(j)
      \/ /\ group' = [group EXCEPT ![g] = [st |-> "in", members |-> {}]]
         /\ \E l \in {"audit", "gmembers"} : (l = "audit" => r.want = {}) /\ Go(j, l)
  BY <1>0, <1>4 DEF CreateGroup
<1> QED BY <1>5, <1>6, <1>7

\* The members of a group are stored; or that fails, and the group is dirty.
LEMMA StoreMembersAgrees ==
  ASSUME ProvInv, ProvInv', AgreeInv, NEW j \in Jobs, StoreMembers(j)
  PROVE  AgreeInv'
<1>0. PICK r : r = job[j]
  OBVIOUS
<1>1. ProvTyped /\ r \in Job /\ Fit(r) /\ Place(r) /\ Shape(r) /\ Lost(r) /\ \A g \in Groups : GroupAt(g)
  BY <1>0, AgreeParts
<1>2. /\ r.pc = "gmembers" /\ r.pc \notin {"idle"} \cup UserCalls /\ r.kind \in {"gnew", "gedit"}
      /\ r.kind \in OfGroup /\ \A u \in Users : r.who # u
  BY <1>0, <1>1, NobodyInHand DEF StoreMembers, Place, UserCalls, OfGroup
<1>3. UNCHANGED <<row, ext, target>> /\ r.want \subseteq Users
  BY <1>1 DEF StoreMembers, Job
<1>4. PICK g \in Groups : g = r.group
  BY <1>1, <1>2 DEF Fit
<1>5. row' = row /\ vgroup' = vgroup /\ vault' = vault /\ In' = In
  BY <1>3 DEF target, In
<1>6. ASSUME ReplaceGroupMembers(g, r.want), dirty' = dirty, Go(j, "audit")
      PROVE  AgreeInv'
  <2>1. PICK v : Step(j, v) /\ v.pc = "audit" /\ Still(v, r)
    BY <1>0, <1>2, <1>6, GoStep
  <2>2. Shape(v) /\ Lost(v) /\ v.user = r.user /\ v.list = r.list
    BY <1>1, <1>2, <2>1
    DEF Still, Kept, Shape, CallShape, PushShape, ListShape, OwnShape, Lost, AtUsers, ForUser, UserCalls
  <2>3. /\ group[g].st = "in" /\ r.want \subseteq In /\ group'[g].st = "in" /\ group'[g].members = r.want
        /\ \A h \in Groups \ {g} : group'[h] = group[h]
    <3>1. group \in [Groups -> Group] /\ group[g] \in Group
      BY <1>1, TypedParts
    <3>2. PICK x : x = [group[g] EXCEPT !.members = r.want]
      OBVIOUS
    <3>3. x.st = group[g].st /\ x.members = r.want /\ group' = [group EXCEPT ![g] = x]
      BY <1>6, <3>1, <3>2 DEF ReplaceGroupMembers, Group
    <3> QED BY <1>6, <3>1, <3>3 DEF ReplaceGroupMembers, Replaceable
  <2>4. GroupAt(g)'
    BY <1>1, <1>5, <2>3 DEF GroupAt
  <2>5. ASSUME Owns(job[j], g) PROVE GroupOK(v, g)'
    <3>1. ReadG(r, g) /\ (g \in dirty \/ CleanG(r, g))
      BY <1>0, <2>5, OwnedGroup
    <3>2. v.group = g /\ v.kind = r.kind /\ v.want = r.want
      BY <1>4, <2>1 DEF Still, Kept
    <3>3. Close(v.want, group[g].members)'
      BY <2>3, <3>2 DEF Close
    <3>4. ReadG(v, g)'
      BY <1>2, <2>1, <2>3, <3>2, <3>3 DEF ReadG, OwnReadG
    <3>5. CleanG(r, g) => CleanG(v, g)'
      BY <1>2, <1>4, <1>5, <2>1, <3>2 DEF CleanG, DueG
    <3> QED BY <1>6, <3>1, <3>4, <3>5 DEF GroupOK
  <2>6. v.pc \notin {"idle", "flags", "isadmin", "glist"} \cup UserCalls
    BY <2>1 DEF UserCalls
  <2> QED BY <1>0, <1>2, <1>3, <1>4, <1>6, <2>1, <2>2, <2>3, <2>4, <2>5, <2>6, GroupJobAgree
<1>7. ASSUME group' = group, Dirty({g}), Set(j, [r EXCEPT !.pc = "audit", !.shared = @ \cup {g}])
      PROVE  AgreeInv'
  <2>1. PICK v : v = [r EXCEPT !.pc = "audit", !.shared = @ \cup {g}]
    OBVIOUS
  <2>2. /\ v.pc = "audit" /\ v.shared = r.shared \cup {g} /\ v.kind = r.kind /\ v.user = r.user
        /\ v.form = r.form /\ v.list = r.list /\ v.group = r.group /\ v.who = r.who /\ v.todo = r.todo
        /\ v.op = r.op
    BY <1>1, <2>1 DEF Job
  <2>3. dirty \subseteq dirty' /\ g \in dirty' /\ g \in Touches(job[j])
    BY <1>0, <1>2, <1>4, <1>7 DEF Dirty, Touches
  <2>4. Step(j, v)
    <3>1. Touches(v) = Touches(r)
      BY <2>2, HeirTouches DEF Heir
    <3> QED BY <1>0, <1>2, <1>7, <2>1, <2>2, <2>3, <3>1 DEF Step
  <2>5. Shape(v) /\ Lost(v)
    BY <1>1, <1>2, <2>2
    DEF Shape, CallShape, PushShape, ListShape, OwnShape, Lost, AtUsers, ForUser, UserCalls
  <2>6. GroupAt(g)'
    BY <1>1, <1>5, <1>7 DEF GroupAt
  <2>7. v.pc \notin {"idle", "flags", "isadmin", "glist"} \cup UserCalls /\ g \in v.shared
    BY <2>2 DEF UserCalls
  <2>8. group'[g].members \subseteq Users
    BY <1>1, <1>7, TypedParts DEF Group
  <2> QED BY <1>0, <1>2, <1>3, <1>4, <1>7, <2>2, <2>3, <2>4, <2>5, <2>6, <2>7, <2>8, GroupJobAgree
<1>8. \/ ReplaceGroupMembers(g, r.want) /\ dirty' = dirty /\ Go(j, "audit")
      \/ group' = group /\ Dirty({g}) /\ Set(j, [r EXCEPT !.pc = "audit", !.shared = @ \cup {g}])
  BY <1>0, <1>4 DEF StoreMembers
<1> QED BY <1>6, <1>7, <1>8

\* What DELETE of a group does.
LEMMA DeleteGroupDoes ==
  ASSUME ProvTyped, NEW g \in Groups, DeleteGroup(g), GroupAt(g)
  PROVE  /\ group'[g].st = (IF group[g].st = "in" THEN "gone" ELSE group[g].st)
         /\ group'[g].members = {}
         /\ \A h \in Groups \ {g} : group'[h] = group[h]
<1>1. group \in [Groups -> Group]
  BY TypedParts
<1> QED BY <1>1 DEF DeleteGroup, GroupAt

\* DELETE of a group: its record at the target is to be deleted.
LEMMA EraseGroupAgrees ==
  ASSUME ProvInv, ProvInv', AgreeInv, NEW j \in Jobs, EraseGroup(j)
  PROVE  AgreeInv'
<1>0. PICK r : r = job[j]
  OBVIOUS
<1>1. ProvTyped /\ r \in Job /\ Fit(r) /\ Place(r) /\ Shape(r) /\ Lost(r) /\ \A g \in Groups : GroupAt(g)
  BY <1>0, AgreeParts
<1>2. /\ r.pc = "gerase" /\ r.pc \notin {"idle"} \cup UserCalls /\ r.kind = "gdelete"
      /\ r.kind \in OfGroup /\ \A u \in Users : r.who # u
  BY <1>0, <1>1, NobodyInHand DEF EraseGroup, Place, UserCalls, OfGroup
<1>3. UNCHANGED <<row, ext, target>> /\ dirty' = dirty
  BY DEF EraseGroup
<1>4. PICK g \in Groups : g = r.group
  BY <1>1, <1>2 DEF Fit
<1>5. CASE UNCHANGED group /\ End(j)
  <2>1. Calm
    BY <1>3, <1>5, CalmWhen DEF tables
  <2>2. \A u \in Users : Clean(r, u) => Agrees(u)
    BY <1>1, <1>2, ProvAssumption DEF Clean, Due, Shape, OwnShape, OfUser
  <2>3. \A h \in Groups : CleanG(r, h) => AgreesG(h)
    BY <1>2 DEF CleanG, DueG, Sends, Rereads, ForMember, AtUsers, UserCalls, GroupCalls
  <2> QED BY <1>0, <1>2, <1>3, <1>5, <2>1, <2>2, <2>3, EndAgree
<1>6. CASE DeleteGroup(g) /\ Go(j, "deleteg")
  <2>1. PICK v : Step(j, v) /\ v.pc = "deleteg" /\ Still(v, r)
    BY <1>0, <1>2, <1>3, <1>6, GoStep
  <2>2. Shape(v) /\ Lost(v) /\ v.user = r.user /\ v.list = r.list
    BY <1>1, <1>2, <2>1
    DEF Still, Kept, Shape, CallShape, PushShape, ListShape, OwnShape, Lost, AtUsers, ForUser, UserCalls
  <2>3. /\ group'[g].st = (IF group[g].st = "in" THEN "gone" ELSE group[g].st)
        /\ group'[g].members = {}
        /\ \A h \in Groups \ {g} : group'[h] = group[h]
        /\ vgroup' = vgroup /\ vault' = vault
    BY <1>1, <1>3, <1>6, DeleteGroupDoes DEF target
  <2>4. GroupAt(g)'
    BY <1>1, <2>3 DEF GroupAt
  <2>5. ASSUME Owns(job[j], g) PROVE GroupOK(v, g)'
    <3>1. ReadG(r, g)
      BY <1>0, <2>5, OwnedGroup
    <3>2. v.group = g /\ v.kind = "gdelete" /\ v.want = r.want
      BY <1>2, <1>4, <2>1 DEF Still, Kept
    <3>3. group'[g].st = "gone" /\ v.want = {}
      BY <1>2, <1>4, <2>3, <3>1, <3>2 DEF ReadG, OwnReadG
    <3>4. ReadG(v, g)'
      BY <2>1, <3>2, <3>3
      DEF ReadG, OwnReadG, Sends, Stored, ForMember, AtUsers, UserCalls, GroupCalls
    <3>5. CleanG(v, g)'
      BY <2>1, <3>2 DEF CleanG, DueG
    <3> QED BY <3>4, <3>5 DEF GroupOK
  <2>6. v.pc \notin {"idle", "flags", "isadmin", "glist"} \cup UserCalls
    BY <2>1 DEF UserCalls
  <2> QED BY <1>0, <1>2, <1>3, <1>4, <2>1, <2>2, <2>3, <2>4, <2>5, <2>6, GroupJobAgree
<1>7. (UNCHANGED group /\ End(j)) \/ (DeleteGroup(g) /\ Go(j, "deleteg"))
  BY <1>0, <1>4 DEF EraseGroup
<1> QED BY <1>5, <1>6, <1>7

\* AddGroupMember, RemoveGroupMember: the group is read again and pushed next.
LEMMA ChangeMemberAgrees ==
  ASSUME ProvInv, ProvInv', AgreeInv, NEW j \in Jobs, ChangeMember(j)
  PROVE  AgreeInv'
<1>0. PICK r : r = job[j]
  OBVIOUS
<1>1. ProvTyped /\ r \in Job /\ Fit(r) /\ Place(r) /\ Shape(r) /\ Lost(r) /\ \A g \in Groups : GroupAt(g)
  BY <1>0, AgreeParts
<1>2. /\ r.pc = "gwrite" /\ r.pc \notin {"idle"} \cup UserCalls /\ r.kind \in {"new", "edit"}
      /\ r.user \in Users /\ \A u \in Users : r.who # u
  BY <1>0, <1>1, NobodyInHand DEF ChangeMember, Place, UserCalls, Fit, OfUser
<1>3. UNCHANGED <<row, ext, target>> /\ dirty' = dirty
  BY DEF ChangeMember
<1>4. Ungrouped(r)
  BY <1>2 DEF Ungrouped, OfGroup, ForMember, AtUsers, UserCalls, GroupCalls
<1>5. ASSUME NEW u \in Users, r.user = u, Read(r, u) PROVE ~(r.kind = "new" /\ r.form.groups = {})
  BY <1>2, <1>5 DEF Read, OwnRead, Alone
<1>6. ASSUME NEW g \in r.groups, group' = group, Set(j, Regrouped([r EXCEPT !.groups = @ \ {g}]))
      PROVE  AgreeInv'
  <2>0. Calm
    BY <1>3, <1>6, CalmWhen DEF tables
  <2>1. PICK s : s = [r EXCEPT !.groups = @ \ {g}]
    OBVIOUS
  <2>2. /\ s \in Job /\ s.pc = r.pc /\ Kept(s, r) /\ s.groups = r.groups \ {g} /\ s.who = r.who
        /\ s.todo = r.todo
    BY <1>1, <2>1 DEF Job, Kept
  <2>3. PICK v : v = Regrouped(s)
    OBVIOUS
  <2>4. Still(v, s) /\ v.pc = IF s.groups # {} THEN "gwrite" ELSE IF s.kind = "new" THEN "audit" ELSE "reread"
    BY <2>2, <2>3, RegroupedFields
  <2>5. Onward(v, r) /\ Kept(v, r) /\ v.groups \subseteq r.groups
    BY <2>2, <2>4 DEF Still, Kept, Onward
  <2>6. Step(j, v) /\ Ungrouped(v) /\ v.pc \notin {"idle"} \cup UserCalls
    BY <1>0, <1>2, <1>3, <1>6, <2>1, <2>3, <2>5, OnwardStep
  <2>7. Shape(v) /\ Lost(v)
    BY <1>1, <1>2, <2>5, OnwardShape
  <2>8. ASSUME NEW u \in Users, r.user = u, Read(r, u)
        PROVE  Read(v, u) /\ (Clean(r, u) => Clean(v, u))
    BY <1>2, <1>5, <2>5, <2>8, OnwardOwn DEF Kept
  <2> QED BY <1>0, <1>2, <1>3, <1>4, <2>0, <2>5, <2>6, <2>7, <2>8, PlainUngrouped
<1>7. ASSUME NEW g \in r.groups,
             g \in r.form.groups => r.user \in In /\ group[g].st = "in",
             group' = [group EXCEPT ![g].members = IF g \in r.form.groups THEN @ \cup {r.user} ELSE @ \ {r.user}],
             Set(j, [r EXCEPT !.pc = "gread", !.group = g])
      PROVE  AgreeInv'
  <2>1. PICK v : v = [r EXCEPT !.pc = "gread", !.group = g]
    OBVIOUS
  <2>2. /\ v.pc = "gread" /\ Kept(v, r) /\ v.group = g /\ v.groups = r.groups /\ v.want = r.want
        /\ v.todo = r.todo /\ v.op = r.op /\ v.who = r.who /\ v.act = r.act /\ v.vid = r.vid
    BY <1>1, <2>1 DEF Job, Kept
  <2>3. Step(j, v)
    <3>1. Heir(v, r) /\ v.shared = r.shared
      BY <1>2, <2>2 DEF Kept, Heir, OfGroup
    <3> QED BY <1>0, <1>2, <1>3, <1>7, <2>1, <3>1, HeirStep
  <2>4. Shape(v) /\ Lost(v)
    BY <1>1, <1>2, <2>2
    DEF Kept, Shape, CallShape, PushShape, ListShape, OwnShape, Lost, AtUsers, ForUser, UserCalls
  <2>5. g \in Groups /\ group \in [Groups -> Group] /\ group[g] \in Group
    BY <1>1, TypedParts DEF Job
  <2>6. PICK x : x = [group[g] EXCEPT !.members = IF g \in r.form.groups THEN @ \cup {r.user} ELSE @ \ {r.user}]
    OBVIOUS
  <2>7. /\ x.st = group[g].st
        /\ x.members = IF g \in r.form.groups THEN group[g].members \cup {r.user} ELSE group[g].members \ {r.user}
    BY <2>5, <2>6 DEF Group
  <2>8. group' = [group EXCEPT ![g] = x]
    BY <1>7, <2>5, <2>6
  <2>9. /\ group'[g].st = group[g].st /\ (\A h \in Groups \ {g} : group'[h] = group[h])
        /\ group'[g].members = IF g \in r.form.groups THEN group[g].members \cup {r.user} ELSE group[g].members \ {r.user}
    BY <2>5, <2>7, <2>8
  <2>10. GroupAt(g)'
    <3>1. GroupAt(g) /\ In' = In /\ vault' = vault /\ vgroup' = vgroup
      BY <1>1, <1>3, <2>5 DEF In, target
    <3> QED BY <1>7, <2>9, <3>1 DEF GroupAt
  <2>11. Touches(job[j]) = Items
    BY <1>0, <1>2 DEF Touches
  <2>12. ASSUME NEW u \in Users, Owns(job[j], u)
         PROVE  Read(v, u) /\ (u \in dirty' \/ Clean(v, u))
    <3>1. Read(r, u) /\ (u \in dirty \/ Clean(r, u)) /\ v.who # u
      BY <1>0, <1>2, <2>2, <2>12, OwnedUser
    <3>2. CASE u # r.user
      BY <1>2, <1>3, <2>2, <3>1, <3>2, Bystander DEF Kept
    <3>3. CASE u = r.user
      <4>1. OwnRead(v, u)
        BY <1>2, <1>5, <2>2, <3>1, <3>3
        DEF Kept, Read, OwnRead, Written, ForUser, AtUsers, UserCalls
      <4>2. Read(v, u)
        BY <2>2, <3>1, <4>1 DEF Kept, Read
      <4>3. Clean(r, u) => Clean(v, u)
        BY <1>2, <1>5, <2>2, <3>1, <3>3
        DEF Kept, Clean, Due, Unborn, Outdated, Doomed, OwnClean, Untold, Unsettled, Creators, Written,
            ForUser, AtUsers, UserCalls
      <4> QED BY <1>3, <3>1, <4>2, <4>3
    <3> QED BY <3>2, <3>3
  <2>13. ASSUME NEW h \in Groups, Owns(job[j], h)
         PROVE  /\ h = g => GroupOK(v, g)'
                /\ h # g => ReadG(v, h) /\ (h \in dirty' \/ CleanG(v, h))
    <3>1. ReadG(r, h) /\ (h \in dirty \/ CleanG(r, h))
      BY <1>0, <2>13, OwnedGroup
    <3>2. CleanG(r, h) => AgreesG(h)
      BY <1>4, UngroupedAgrees
    <3>3. v.kind = r.kind /\ v.kind \in {"new", "edit"}
      BY <1>2, <2>2 DEF Kept
    <3>4. CASE h = g
      <4>1. group'[g].st = "in"
        BY <1>2, <1>7, <2>9, <3>1, <3>4 DEF ReadG
      <4>2. ReadG(v, g)'
        BY <2>2, <3>3, <4>1
        DEF ReadG, OwnReadG, Sends, Stored, ForMember, AtUsers, UserCalls, GroupCalls
      <4>3. CleanG(v, g)'
        BY <2>2, <3>3 DEF CleanG, DueG, Rereads
      <4> QED BY <3>4, <4>2, <4>3 DEF GroupOK
    <3>5. CASE h # g
      <4>1. ReadG(v, h)
        BY <1>2, <2>2, <3>1, <3>3, <3>5 DEF ReadG, Sends, Stored, Rereads
      <4>2. AgreesG(h) => CleanG(v, h)
        BY <2>2, <3>5 DEF CleanG
      <4> QED BY <1>3, <3>1, <3>2, <3>5, <4>1, <4>2
    <3> QED BY <3>4, <3>5
  <2>14. group'[g].members \subseteq group[g].members \cup Touches(job[j]) /\ g \in Touches(job[j])
    BY <1>2, <2>5, <2>9, <2>11 DEF Items
  <2>15. v.pc \notin {"idle", "flags", "isadmin", "glist"}
    BY <2>2
  <2> QED BY <1>3, <2>3, <2>4, <2>5, <2>9, <2>10, <2>12, <2>13, <2>14, <2>15, GroupAgree
<1>8. PICK g \in r.groups :
        \/ group' = group /\ Set(j, Regrouped([r EXCEPT !.groups = @ \ {g}]))
        \/ /\ g \in r.form.groups => r.user \in In /\ group[g].st = "in"
           /\ group' = [group EXCEPT ![g].members =
                          IF g \in r.form.groups THEN @ \cup {r.user} ELSE @ \ {r.user}]
           /\ Set(j, [r EXCEPT !.pc = "gread", !.group = g])
  BY <1>0 DEF ChangeMember
<1> QED BY <1>6, <1>7, <1>8

\* What DELETE of a user does.
LEMMA DeleteUserDoes ==
  ASSUME ProvTyped, NEW x \in Users, DeleteUser(x)
  PROVE  /\ \A u \in Users \ {x} : row'[u] = row[u] /\ ext'[u] = ext[u]
         /\ row'[x].st = (IF x \in In THEN "gone" ELSE row[x].st) /\ ext'[x] = 0
         /\ \A g \in Groups : /\ group'[g].st = group[g].st
                              /\ group'[g].members = group[g].members \ {x}
<1>1. row \in [Users -> Row] /\ group \in [Groups -> Group] /\ ext \in [Users -> Nat]
  BY TypedParts
<1>2. /\ \A u \in Users \ {x} : row'[u] = row[u]
      /\ row'[x].st = (IF x \in In THEN "gone" ELSE row[x].st)
  <2>1. CASE x \in In
    BY <1>1, <2>1 DEF DeleteUser, Row
  <2>2. CASE x \notin In
    BY <2>2 DEF DeleteUser
  <2> QED BY <2>1, <2>2
<1>3. ext'[x] = 0 /\ \A u \in Users \ {x} : ext'[u] = ext[u]
  BY <1>1 DEF DeleteUser
<1>4. ASSUME NEW g \in Groups
      PROVE  group'[g].st = group[g].st /\ group'[g].members = group[g].members \ {x}
  <2>1. group'[g] = [group[g] EXCEPT !.members = @ \ {x}]
    BY DEF DeleteUser
  <2> QED BY <1>1, <2>1 DEF Group
<1> QED BY <1>2, <1>3, <1>4

\* Its memberships go with a user: those who pushed or will push a group with
\* this member are excused, because the user is gone.
LEMMA DeleteAgree ==
  ASSUME ProvInv, AgreeInv, NEW j \in Jobs, NEW v, Step(j, v), NEW x \in Users, x \in Touches(job[j]),
         DeleteUser(x), UNCHANGED target, dirty \subseteq dirty', Shape(v), Lost(v)',
         Owns(job[j], x) =>
           IF v.pc = "idle" THEN x \in dirty' \/ Agrees(x)' ELSE x \in v.shared \/ UserOK(v, x)',
         \A u \in Users \ {x} : Owns(job[j], u) =>
           IF v.pc = "idle" THEN u \in dirty' \/ Agrees(u)
           ELSE u \in v.shared \/ (Read(v, u) /\ (u \in dirty' \/ Clean(v, u))),
         \A g \in Groups : Owns(job[j], g) =>
           IF v.pc = "idle" THEN g \in dirty' \/ AgreesG(g)
           ELSE g \in v.shared \/ (ReadG(v, g) /\ (g \in dirty \/ CleanG(v, g)))
  PROVE  AgreeInv'
<1>0. ProvTyped /\ (\A u \in Users : UserAt(u)) /\ (\A g \in Groups : GroupAt(g))
  BY AgreeParts
<1>1. vault' = vault /\ vgroup' = vgroup
  BY DEF target
<1>2. /\ \A u \in Users \ {x} : row'[u] = row[u] /\ ext'[u] = ext[u]
      /\ row'[x].st = (IF x \in In THEN "gone" ELSE row[x].st) /\ ext'[x] = 0
      /\ \A g \in Groups : /\ group'[g].st = group[g].st
                           /\ group'[g].members = group[g].members \ {x}
  BY <1>0, DeleteUserDoes
<1>3. In' = In \ {x} /\ Gone \subseteq Gone' /\ (x \in In => x \in Gone')
  BY <1>2 DEF In, Gone
<1>4. \A u \in Users \ {x} : SameRow(u)
  BY <1>2 DEF SameRow
<1>5. ASSUME NEW g \in Groups PROVE SameGroup(g)
  <2>1. group[g].members \subseteq In
    BY <1>0 DEF GroupAt
  <2> QED BY <1>2, <1>3, <2>1 DEF SameGroup
<1>6. Local(j) /\ Forward
  <2>1. Forward
    BY <1>2 DEF Forward
  <2> QED BY <1>1, <1>3, <1>4, <1>5, <2>1 DEF Local
<1>7. ASSUME NEW u \in Users PROVE UserAt(u)'
  BY <1>0, <1>1, <1>2, <1>3 DEF UserAt
<1>8. ASSUME NEW g \in Groups PROVE GroupAt(g)'
  BY <1>0, <1>1, <1>2, <1>3 DEF GroupAt
<1>9. Twin(v, v)
  BY DEF Twin, Alike
<1>10. ASSUME NEW u \in Users, Owns(job[j], u)
       PROVE  IF v.pc = "idle" THEN u \in dirty' \/ Agrees(u)' ELSE u \in v.shared \/ UserOK(v, u)'
  <2>0. CASE u = x
    BY <1>10, <2>0
  <2>1. CASE u # x
    <3>0. SameRow(u) /\ vault'[u] = vault[u]
      BY <1>1, <1>4, <2>1
    <3>1. Agrees(u) => Agrees(u)'
      BY <3>0, SameTold
    <3>2. Read(v, u) => Read(v, u)'
      BY <1>9, <3>0, TwinRead
    <3>3. Clean(v, u) => Clean(v, u)'
      BY <1>9, <3>0, TwinClean
    <3> QED BY <1>10, <2>1, <3>1, <3>2, <3>3 DEF UserOK
  <2> QED BY <2>0, <2>1
<1>11. ASSUME NEW g \in Groups, Owns(job[j], g)
       PROVE  IF v.pc = "idle" THEN g \in dirty' \/ AgreesG(g)' ELSE g \in v.shared \/ GroupOK(v, g)'
  <2>1. SameGroup(g) /\ SameTarget(g)
    BY <1>1, <1>5 DEF SameTarget
  <2>2. AgreesG(g) => AgreesG(g)'
    BY <1>1, <1>3, <2>1, SameAgreesG
  <2>3. GroupOK(v, g) => GroupOK(v, g)'
    BY <1>3, <1>9, <2>1, TwinGroup
  <2> QED BY <1>11, <2>2, <2>3 DEF GroupOK
<1> QED BY <1>6, <1>7, <1>8, <1>10, <1>11, StepAgree

\* undoOnAuditFailure deletes the row, which the target had never heard of.
LEMMA UndoAgrees ==
  ASSUME ProvInv, ProvInv', AgreeInv, NEW j \in Jobs, Undo(j)
  PROVE  AgreeInv'
<1>0. PICK r : r = job[j]
  OBVIOUS
<1>1. ProvTyped /\ r \in Job /\ Fit(r) /\ Place(r) /\ Shape(r) /\ Lost(r) /\ \A g \in Groups : GroupAt(g)
  BY <1>0, AgreeParts
<1>2. /\ r.pc = "undo" /\ r.pc \notin {"idle"} \cup UserCalls /\ r.kind \in Creators \cup {"gnew"}
      /\ \A u \in Users : r.who # u
  BY <1>0, <1>1, NobodyInHand DEF Undo, Place, UserCalls, Creators
<1>3. End(j) /\ UNCHANGED target
  BY DEF Undo
<1>4. vault' = vault /\ vgroup' = vgroup
  BY <1>3 DEF target
<1>5. PICK x : x = IF r.kind = "gnew" THEN r.group ELSE r.user
  OBVIOUS
<1>6. ASSUME NEW u \in Users, u # x, Clean(r, u) PROVE Agrees(u)
  <2>1. r.user # u
    BY <1>1, <1>2, <1>5, <1>6, ProvAssumption DEF Shape, OwnShape, OfUser, Creators
  <2> QED BY <1>2, <1>6, <2>1 DEF Clean, Due
<1>7. ASSUME NEW g \in Groups, g # x, CleanG(r, g) PROVE AgreesG(g)
  BY <1>2, <1>5, <1>7
  DEF CleanG, DueG, Sends, Rereads, ForMember, AtUsers, UserCalls, GroupCalls, Creators
<1>8. CASE UNCHANGED tables /\ Dirty({x})
  <2>1. Calm /\ dirty \subseteq dirty' /\ x \in dirty'
    BY <1>3, <1>8, CalmWhen DEF Dirty
  <2> QED BY <1>0, <1>2, <1>3, <1>6, <1>7, <2>1, EndAgree
<1>9. ASSUME r.kind = "gnew", DeleteGroup(x), UNCHANGED <<row, ext>>, dirty' = dirty
      PROVE  AgreeInv'
  <2>1. PICK g \in Groups : g = r.group /\ g = x
    BY <1>1, <1>2, <1>5, <1>9 DEF Fit, OfGroup
  <2>2. Step(j, NoJob) /\ NoJob.pc = "idle" /\ Shape(NoJob) /\ Lost(NoJob)
    BY <1>0, <1>2, <1>3, <1>9, EndStep, IdleShape
  <2>3. /\ group'[g].st = (IF group[g].st = "in" THEN "gone" ELSE group[g].st)
        /\ group'[g].members = {}
        /\ \A h \in Groups \ {g} : group'[h] = group[h]
    BY <1>1, <1>9, <2>1, DeleteGroupDoes
  <2>4. GroupAt(g)'
    BY <1>1, <1>4, <2>3 DEF GroupAt
  <2>5. ASSUME Owns(job[j], g) PROVE g \in dirty' \/ AgreesG(g)'
    <3>1. g \in dirty \/ CleanG(r, g)
      BY <1>0, <2>5, OwnedGroup
    <3>2. CleanG(r, g) => ~vgroup[g].on
      BY <1>2, <1>9, <2>1 DEF CleanG
    <3>3. ~vgroup[g].on => vgroup[g].members = {} /\ vgroup[g].on = FALSE
      BY <1>1, TypedParts DEF GroupAt, TargetGroup
    <3>4. (group'[g].st = "in") = FALSE
      BY <2>3
    <3>5. ~vgroup[g].on => AgreesG(g)'
      BY <1>4, <2>3, <3>3, <3>4 DEF AgreesG, Close
    <3> QED BY <1>9, <3>1, <3>2, <3>5
  <2>6. r.kind \in OfGroup /\ NoJob.pc \notin {"flags", "isadmin", "glist"} \cup UserCalls
    BY <1>9, <2>2 DEF OfGroup, UserCalls
  <2> QED BY <1>0, <1>2, <1>3, <1>9, <2>1, <2>2, <2>3, <2>4, <2>5, <2>6, GroupJobAgree
<1>10. ASSUME r.kind \in Creators, DeleteUser(x),
              Dirty(IF r.kind = "new" /\ r.form.groups # {} THEN {x} ELSE {})
       PROVE  AgreeInv'
  <2>1. x \in Users /\ x = r.user /\ x \in Touches(job[j]) /\ dirty \subseteq dirty'
    BY <1>0, <1>1, <1>5, <1>10 DEF Fit, OfUser, Creators, Touches, Items, Dirty
  <2>2. Step(j, NoJob) /\ NoJob.pc = "idle" /\ Shape(NoJob) /\ Lost(NoJob)'
    <3>1. Lost(NoJob)'
      BY ProvAssumption DEF NoJob, Lost, AllKinds
    <3> QED BY <1>0, <1>2, <1>3, <2>1, <3>1, EndStep, IdleShape
  <2>3. ASSUME Owns(job[j], x) PROVE x \in dirty' \/ Agrees(x)'
    <3>1. x \in dirty \/ Clean(r, x)
      BY <1>0, <2>1, <2>3, OwnedUser
    <3>2. x \notin In'
      BY <1>1, <1>10, <2>1, DeleteUserDoes DEF In
    <3>3. CASE r.kind = "new" /\ r.form.groups # {}
      BY <1>10, <3>3 DEF Dirty
    <3>4. CASE ~(r.kind = "new" /\ r.form.groups # {})
      <4>1. Untold(r)
        BY <1>2, <1>10, <3>4 DEF Untold, Unsettled
      <4>2. Clean(r, x) => Off(x)
        BY <2>1, <4>1 DEF Clean, OwnClean
      <4>3. Off(x) => Agrees(x)'
        BY <1>4, <3>2 DEF Off, Agrees
      <4> QED BY <2>1, <3>1, <4>2, <4>3
    <3> QED BY <3>3, <3>4
  <2>4. \A u \in Users \ {x} : Owns(job[j], u) => u \in dirty' \/ Agrees(u)
    BY <1>0, <1>6, <2>1, OwnedUser
  <2>5. \A g \in Groups : Owns(job[j], g) => g \in dirty' \/ AgreesG(g)
    BY <1>0, <1>7, <2>1, OwnedGroup, ProvAssumption
  <2> QED BY <1>3, <1>10, <2>1, <2>2, <2>3, <2>4, <2>5, DeleteAgree
<1>11. \/ UNCHANGED tables /\ Dirty({x})
       \/ r.kind = "gnew" /\ DeleteGroup(x) /\ UNCHANGED <<row, ext>> /\ Dirty({})
       \/ /\ r.kind # "gnew" /\ DeleteUser(x)
          /\ Dirty(IF r.kind = "new" /\ r.form.groups # {} THEN {x} ELSE {})
  BY <1>0, <1>5 DEF Undo
<1>12. Dirty({}) => dirty' = dirty
  BY DEF Dirty
<1> QED BY <1>2, <1>8, <1>9, <1>10, <1>11, <1>12

\* DELETE of a user: its record at the target is to be deleted.
LEMMA EraseUserAgrees ==
  ASSUME ProvInv, ProvInv', AgreeInv, NEW j \in Jobs, EraseUser(j)
  PROVE  AgreeInv'
<1>0. PICK r : r = job[j]
  OBVIOUS
<1>1. ProvTyped /\ r \in Job /\ Fit(r) /\ Place(r) /\ Shape(r) /\ Lost(r)
  BY <1>0, AgreeParts
<1>2. /\ r.pc = "erase" /\ r.pc \notin {"idle"} \cup UserCalls /\ r.kind = "delete"
      /\ r.user \in Users /\ \A u \in Users : r.who # u
  BY <1>0, <1>1, NobodyInHand DEF EraseUser, Place, UserCalls, Fit, OfUser
<1>3. UNCHANGED target /\ dirty' = dirty
  BY DEF EraseUser
<1>4. Ungrouped(r)
  BY <1>2 DEF Ungrouped, OfGroup, ForMember, AtUsers, UserCalls, GroupCalls
<1>5. \A g \in Groups : CleanG(r, g) => AgreesG(g)
  BY <1>4, UngroupedAgrees
<1>6. \A u \in Users : Clean(r, u) => Agrees(u)
  BY <1>2 DEF Clean, Due, Made, Unborn, Outdated, Doomed, Creators
<1>7. CASE UNCHANGED tables /\ End(j)
  <2>1. Calm
    BY <1>3, <1>7, CalmWhen
  <2> QED BY <1>0, <1>2, <1>3, <1>5, <1>6, <1>7, <2>1, EndAgree
<1>8. PICK x : x = r.user
  OBVIOUS
<1>9. x \in Users /\ x \in Touches(job[j]) /\ \A u \in Users : Owns(job[j], u) => u = x
  BY <1>0, <1>2, <1>8, ProvAssumption DEF Touches, Owns
<1>10. CASE DeleteUser(x) /\ End(j) /\ r.todo = {}
  <2>1. Step(j, NoJob) /\ NoJob.pc = "idle" /\ Shape(NoJob) /\ Lost(NoJob)'
    <3>1. Lost(NoJob)'
      BY ProvAssumption DEF NoJob, Lost, AllKinds
    <3> QED BY <1>0, <1>2, <1>3, <1>10, <3>1, EndStep, IdleShape
  <2>2. ~Clean(r, x)
    BY <1>2, <1>8, <1>10 DEF Clean, OwnClean
  <2>3. Owns(job[j], x) => x \in dirty'
    BY <1>0, <1>3, <1>9, <2>2, OwnedUser
  <2>4. \A g \in Groups : Owns(job[j], g) => g \in dirty' \/ AgreesG(g)
    BY <1>0, <1>3, <1>5, OwnedGroup
  <2> QED BY <1>3, <1>9, <1>10, <2>1, <2>3, <2>4, DeleteAgree
<1>11. ASSUME NEW a, DeleteUser(x), Set(j, PushUser(r, "delete", a))
       PROVE  AgreeInv'
  <2>1. PICK v : v = PushUser(r, "delete", a)
    OBVIOUS
  <2>2. /\ Kept(v, r) /\ v.group = r.group /\ v.groups = r.groups /\ v.todo = {r.user}
        /\ v.op = "delete" /\ v.who = None /\ v.pc = "push"
    BY <1>1, <2>1, PushUserFields
  <2>3. Step(j, v)
    BY <1>0, <1>2, <1>3, <1>11, <2>1, <2>2, KeptHeir, HeirStep
  <2>4. Shape(v)
    BY <1>1, <1>2, <2>2
    DEF Kept, Shape, CallShape, PushShape, ListShape, OwnShape, UserCalls, OfUser
  <2>5. row'[x].st = "gone" /\ x \notin In'
    <3>1. row[x] \in Row /\ row[x].st # "new"
      BY <1>1, <1>2, <1>8, TypedParts DEF Lost
    <3>2. row'[x].st = IF x \in In THEN "gone" ELSE row[x].st
      BY <1>1, <1>9, <1>11, DeleteUserDoes
    <3> QED BY <1>9, <3>1, <3>2 DEF In, Row
  <2>6. Lost(v)'
    BY <1>8, <2>2, <2>5 DEF Kept, Lost
  <2>7. ASSUME Owns(job[j], x) PROVE UserOK(v, x)'
    <3>1. v.list[x] = "none" /\ v.who # x
      BY <1>1, <1>2, <1>9, <2>2, ProvAssumption DEF Kept, Shape, ListShape, Nobody
    <3>2. Read(v, x)'
      BY <1>2, <2>2, <2>5, <3>1 DEF Kept, Read, OwnRead
    <3>3. Clean(v, x)'
      BY <1>2, <1>8, <2>2, <2>5, <3>1 DEF Kept, Clean, Due, Doomed, OwnClean, Untold, Creators
    <3> QED BY <3>2, <3>3 DEF UserOK
  <2>8. Ungrouped(v) /\ v.groups \subseteq r.groups /\ v.pc # "idle"
    BY <1>2, <2>2 DEF Ungrouped, Kept, OfGroup, ForMember, GroupCalls
  <2>9. \A g \in Groups : Owns(job[j], g) => g \in v.shared \/ (ReadG(v, g) /\ (g \in dirty \/ CleanG(v, g)))
    BY <1>0, <1>3, <1>4, <2>2, <2>8, UngroupedStep
  <2> QED BY <1>3, <1>9, <1>11, <2>3, <2>4, <2>6, <2>7, <2>8, <2>9, DeleteAgree
<1>12. \/ UNCHANGED tables /\ End(j)
       \/ DeleteUser(x) /\ End(j) /\ r.todo = {}
       \/ DeleteUser(x) /\ \E a : Set(j, PushUser(r, "delete", a))
  BY <1>0, <1>8 DEF EraseUser
<1> QED BY <1>7, <1>10, <1>11, <1>12

-----------------------------------------------------------------------------
(* The SCIM client, for a user.                                            *)

\* The user in hand, or taken up next.
Takes(r, w) == IF r.pc = "push" THEN w \in r.todo ELSE w = r.who

\* What a job at a call carries on: all but the label, the user in hand and
\* the users left; and what the target answered.
Moved(v, r) ==
  /\ v.kind = r.kind /\ v.user = r.user /\ v.form = r.form /\ v.list = r.list /\ v.glist = r.glist
  /\ v.group = r.group /\ v.groups = r.groups /\ v.want = r.want /\ v.op = r.op /\ v.act = r.act
Left(v, r, w) == v.todo = IF r.pc = "push" THEN r.todo \ {w} ELSE r.todo

\* The next call for w; or w has been dealt with.
Call(v, r, w) ==
  Moved(v, r) /\ Left(v, r, w) /\ v.pc \in UserCalls /\ v.who = w /\ CallShape(v)
Done(v, r, w) ==
  \/ v.pc = "idle" /\ v = NoJob /\ r.op # "member" /\ r.kind # "sync"
  \/ /\ Moved(v, r) /\ Left(v, r, w) /\ v.who = None
     /\ \/ v.pc = "push" /\ v.todo # {}
        \/ v.pc = "putg" /\ r.op = "member"
        \/ v.pc = "glist" /\ r.op # "member" /\ r.kind = "sync"

\* After, field by field.
LEMMA AfterFields ==
  ASSUME NEW s \in Job, NEW v, v = After(s)
  PROVE  \/ v = NoJob /\ s.op # "member" /\ s.kind # "sync"
         \/ /\ Moved(v, s) /\ v.todo = s.todo /\ v.who = None /\ v.shared = s.shared
            /\ \/ v.pc = "push" /\ v.todo # {}
               \/ v.pc = "putg" /\ s.op = "member"
               \/ v.pc = "glist" /\ s.op # "member" /\ s.kind = "sync"
<1>1. PICK t : t = [s EXCEPT !.who = None, !.vid = 0]
  OBVIOUS
<1>2. /\ t.who = None /\ t.todo = s.todo /\ t.shared = s.shared /\ Moved(t, s)
  BY <1>1 DEF Job, Moved
<1>3. \/ \E l : /\ v = [t EXCEPT !.pc = l]
                /\ \/ l = "push" /\ t.todo # {}
                   \/ l = "putg" /\ t.op = "member"
                   \/ l = "glist" /\ t.op # "member" /\ t.kind = "sync"
      \/ v = NoJob /\ t.op # "member" /\ t.kind # "sync"
  BY <1>1 DEF After
<1>4. ASSUME NEW l, v = [t EXCEPT !.pc = l]
      PROVE  v.pc = l /\ v.who = t.who /\ v.todo = t.todo /\ v.shared = t.shared /\ Moved(v, t)
  BY <1>1, <1>4 DEF Job, Moved
<1> QED BY <1>2, <1>3, <1>4 DEF Moved

\* What the labels say of a job that takes up w.
LEMMA TakesFacts ==
  ASSUME NEW r \in Job, Fit(r), Place(r), Shape(r), Lost(r), AtUsers(r), NEW w, Takes(r, w)
  PROVE  /\ w \in Users /\ w \in Touches(r) /\ r.kind # "cli"
         /\ r.op # "member" /\ r.kind # "sync" => w = r.user /\ \A v : Left(v, r, w) => v.todo = {}
         /\ r.op = "member" \/ r.kind = "sync" => r.list[w] # "none"
         /\ r.op = "delete" => row[w].st = "gone" /\ Groups \subseteq Touches(r)
         /\ r.op = "member" => r.kind \in ToGroups
         /\ r.op # "member" => r.kind \in ToUsers
<1>1. r.pc \in {"push"} \cup UserCalls /\ r.pc # "idle"
  BY DEF AtUsers, UserCalls
<1>2. w \in Users
  BY <1>1 DEF Takes, Place, Job
<1>3. /\ r.op = "member" => r.kind \in ToGroups
      /\ r.op # "member" => r.kind \in ToUsers
  BY <1>1 DEF Place
<1>4. r.op # "member" /\ r.kind # "sync" => w = r.user /\ \A v : Left(v, r, w) => v.todo = {}
  BY DEF Shape, PushShape, ForUser, Takes, Left
<1>5. r.op = "member" \/ r.kind = "sync" => r.list[w] # "none"
  BY DEF Shape, ListShape, Takes
<1>6. r.kind # "cli"
  BY <1>3 DEF ToGroups, ToUsers
<1>7. w \in Touches(r)
  <2>1. CASE r.op = "member" \/ r.kind = "sync"
    <3>1. r.kind \in ToGroups
      BY <1>3, <2>1 DEF ToGroups
    <3> QED BY <1>2, <3>1 DEF Touches, ToGroups, Items
  <2>2. CASE r.op # "member" /\ r.kind # "sync"
    <3>1. w = r.user /\ r.kind \in ToUsers
      BY <1>3, <1>4, <2>2
    <3> QED BY <1>2, <2>2, <3>1 DEF Touches, ToUsers, Items
  <2> QED BY <2>1, <2>2
<1>8. r.op = "delete" => row[w].st = "gone" /\ Groups \subseteq Touches(r)
  <2>1. ASSUME r.op = "delete" PROVE r.kind = "delete"
    BY <2>1 DEF Shape, PushShape, ForUser
  <2>2. r.op = "delete" => row[w].st = "gone"
    BY <1>1, <1>4, <2>1 DEF Lost, UserCalls
  <2> QED BY <2>1, <2>2 DEF Touches
<1> QED BY <1>2, <1>3, <1>4, <1>5, <1>6, <1>7, <1>8

\* The next call, and the end of the calls, have the shape of the job.
LEMMA CallShapes ==
  ASSUME NEW r \in Job, Fit(r), Place(r), Shape(r), Lost(r), AtUsers(r), NEW w, Takes(r, w),
         NEW v, Call(v, r, w) \/ Done(v, r, w)
  PROVE  Shape(v) /\ Lost(v)
<1>0. CASE v = NoJob
  BY <1>0, IdleShape
<1>1. /\ r.op # "member" /\ r.kind # "sync" => w = r.user /\ (Left(v, r, w) => v.todo = {})
      /\ r.op = "member" \/ r.kind = "sync" => r.list[w] # "none"
      /\ w \in Users
  BY TakesFacts
<1>2. CASE Call(v, r, w) \/ (Done(v, r, w) /\ v # NoJob)
  <2>1. /\ Moved(v, r) /\ Left(v, r, w) /\ v.pc \in {"push", "putg", "glist"} \cup UserCalls
        /\ v.who = None \/ (v.who = w /\ v.pc \in UserCalls)
        /\ v.pc \in UserCalls => v.who = w
        /\ v.pc = "push" => v.todo # {}
    BY <1>2 DEF Call, Done, UserCalls
  <2>2. CallShape(v)
    <3>1. CASE Call(v, r, w)
      BY <3>1 DEF Call
    <3>2. CASE Done(v, r, w) /\ v # NoJob
      BY <3>2 DEF Done, CallShape, UserCalls
    <3> QED BY <1>2, <3>1, <3>2
  <2>3. PushShape(v)
    <3>1. ForUser(v) => ForUser(r)
      BY <2>1 DEF ForUser, Moved
    <3>2. /\ (ForUser(v) => (v.op = "delete" <=> v.kind = "delete"))
          /\ (ForUser(v) /\ v.op = "deactivate" => v.kind \in {"update", "edit"} /\ ~v.form.active)
      BY <2>1, <3>1 DEF Moved, Shape, PushShape
    <3>3. ASSUME ForUser(v), v.kind # "sync" PROVE v.pc # "push" /\ v.todo = {} /\ v.who = v.user
      <4>1. r.op # "member" /\ r.kind # "sync" /\ v.pc \in {"push"} \cup UserCalls
        BY <2>1, <3>3 DEF ForUser, AtUsers, Moved
      <4> QED BY <1>1, <2>1, <4>1 DEF Moved
    <3> QED BY <3>2, <3>3 DEF PushShape
  <2>4. ListShape(v)
    <3>1. v.todo \subseteq r.todo /\ v.list = r.list /\ v.kind = r.kind /\ v.op = r.op
      BY <2>1 DEF Left, Moved
    <3>2. r.op = "member" \/ r.kind = "sync" => \A x \in r.todo : r.list[x] # "none"
      BY DEF Shape, ListShape
    <3>3. AtUsers(v) /\ v.pc # "push" => v.who = w
      BY <2>1 DEF AtUsers
    <3>4. v.kind \in {"create", "register", "cli", "update", "delete"} => v.list = Nobody
      BY <3>1 DEF Shape, ListShape
    <3>5. v.pc \notin {"flags", "isadmin", "write", "audit"}
      BY <2>1 DEF UserCalls
    <3> QED BY <1>1, <3>1, <3>2, <3>3, <3>4, <3>5 DEF ListShape
  <2>5. v.pc \notin {"audit", "erase"} /\ r.pc \notin {"audit", "erase"}
    BY <2>1 DEF UserCalls, AtUsers
  <2>6. OwnShape(v) /\ Lost(v)
    BY <2>1, <2>5 DEF Moved, Shape, OwnShape, Lost
  <2> QED BY <2>2, <2>3, <2>4, <2>6 DEF Shape
<1> QED BY <1>0, <1>2

\* Such a step does not matter to groups.
LEMMA CallGroups ==
  ASSUME NEW r \in Job, Fit(r), Place(r), Shape(r), Lost(r), AtUsers(r), NEW w, Takes(r, w),
         NEW v, Call(v, r, w) \/ Done(v, r, w), NEW g \in Groups
  PROVE  IF v.pc = "idle" THEN CleanG(r, g) => AgreesG(g)
         ELSE (ReadG(r, g) => ReadG(v, g)) /\ (CleanG(r, g) => CleanG(v, g))
<1>1. /\ r.op = "member" => r.kind \in ToGroups
      /\ r.op # "member" => r.kind \in ToUsers
  BY TakesFacts
<1>2. r.pc \in {"push"} \cup UserCalls
  BY DEF AtUsers
<1>3. NoJob.pc = "idle"
  BY DEF NoJob
<1>4. CASE v.pc = "idle"
  <2>1. r.op # "member"
    BY <1>4 DEF Call, Done, UserCalls
  <2>2. Ungrouped(r)
    BY <1>1, <1>2, <2>1 DEF Ungrouped, ToUsers, OfGroup, UserCalls, GroupCalls, ForMember
  <2> QED BY <1>4, <2>2, UngroupedAgrees
<1>5. CASE v.pc # "idle" /\ r.op # "member"
  <2>1. Moved(v, r) /\ v.pc \in {"push", "glist"} \cup UserCalls
    BY <1>3, <1>5 DEF Call, Done
  <2>2. Ungrouped(r) /\ Ungrouped(v)
    BY <1>1, <1>2, <1>5, <2>1 DEF Moved, Ungrouped, ToUsers, OfGroup, UserCalls, GroupCalls, ForMember
  <2>3. v.kind = r.kind /\ v.groups = r.groups /\ v.glist = r.glist
    BY <2>1 DEF Moved
  <2> QED BY <1>5, <2>2, <2>3, UngroupedAgrees, UngroupedRead
<1>6. CASE v.pc # "idle" /\ r.op = "member"
  <2>1. Moved(v, r) /\ v.pc \in {"push", "putg"} \cup UserCalls /\ r.kind \in ToGroups
    BY <1>1, <1>3, <1>6 DEF Call, Done
  <2>2. /\ v.kind = r.kind /\ v.group = r.group /\ v.groups = r.groups /\ v.glist = r.glist
        /\ v.want = r.want /\ v.op = "member"
    BY <1>6, <2>1 DEF Moved
  <2>3. (Sends(v, g) <=> v.group = g) /\ (Sends(r, g) <=> v.group = g)
    BY <1>2, <1>6, <2>1, <2>2 DEF Sends, ForMember, AtUsers, GroupCalls
  <2>4. ReadG(r, g) => ReadG(v, g)
    BY <1>2, <2>1, <2>2, <2>3 DEF ReadG, Rereads, Stored, OwnReadG, UserCalls, ToGroups
  <2>5. CleanG(r, g) => CleanG(v, g)
    BY <1>2, <2>1, <2>2, <2>3 DEF CleanG, DueG, Rereads, UserCalls
  <2> QED BY <1>6, <2>4, <2>5
<1> QED BY <1>4, <1>5, <1>6

\* What is carried on about the job's own user, while it pushes a group.
LEMMA MemberOwn ==
  ASSUME NEW r, r.op = "member", AtUsers(r), NEW v, Moved(v, r), v.pc \in {"push", "putg"} \cup UserCalls,
         r.kind \in ToGroups, NEW u, r.user = u
  PROVE  /\ OwnRead(r, u) => OwnRead(v, u)
         /\ OwnRead(r, u) => OwnClean(v, u)
         /\ (Unborn(r) => Unborn(v)) /\ (Outdated(r) => Outdated(v))
<1>1. /\ v.kind = r.kind /\ v.user = r.user /\ v.form = r.form /\ v.groups = r.groups /\ v.op = "member"
      /\ v.act = r.act /\ r.pc \in {"push"} \cup UserCalls
  BY DEF Moved, AtUsers
<1>2. ~ForUser(v) /\ ~ForUser(r) /\ ForMember(r)
  BY <1>1 DEF ForUser, ForMember
<1>3. Written(v) /\ Written(r) /\ Unsettled(v)
  BY <1>1 DEF Written, Unsettled, AtUsers, GroupCalls
<1>4. v.pc \notin {"audit", "erase", "flags", "isadmin", "idle"} /\ r.pc \notin {"audit", "erase", "flags", "isadmin"}
  BY <1>1 DEF UserCalls
<1>5. OwnRead(r, u) => ~(r.kind = "new" /\ r.form.groups = {})
  BY <1>2 DEF OwnRead, Alone
<1>6. OwnRead(r, u) => OwnRead(v, u)
  BY <1>1, <1>2, <1>3, <1>4, <1>5 DEF OwnRead
<1>7. (Unborn(r) => Unborn(v)) /\ (Outdated(r) => Outdated(v))
  BY <1>1, <1>2, <1>3 DEF Unborn, Outdated
<1>8. OwnRead(r, u) => OwnClean(v, u)
  BY <1>1, <1>4, <1>5 DEF OwnClean, Untold, Creators, ToGroups
<1> QED BY <1>6, <1>7, <1>8

\* Users other than the one in hand: the call does not matter to them.
LEMMA CallOthers ==
  ASSUME NEW r \in Job, Fit(r), Place(r), Shape(r), Lost(r), AtUsers(r), NEW w, Takes(r, w),
         NEW v, Call(v, r, w) \/ Done(v, r, w), NEW u \in Users, u # w
  PROVE  IF v.pc = "idle" THEN Clean(r, u) => Agrees(u)
         ELSE Read(r, u) => Read(v, u) /\ (Clean(r, u) => Clean(v, u))
<1>1. /\ r.op # "member" /\ r.kind # "sync" => w = r.user
      /\ r.op = "member" => r.kind \in ToGroups
  BY TakesFacts
<1>2. r.who # u
  BY ProvAssumption DEF Takes, Shape, CallShape, AtUsers, UserCalls
<1>3. r.user = u => r.op = "member"
  BY <1>1, ProvAssumption DEF Shape, OwnShape, OfUser
<1>4. NoJob.pc = "idle"
  BY DEF NoJob
<1>5. CASE v.pc = "idle"
  <2>1. r.user # u
    BY <1>3, <1>5 DEF Call, Done, UserCalls
  <2> QED BY <1>2, <1>5, <2>1 DEF Clean, Due
<1>6. CASE v.pc # "idle"
  <2>1. Moved(v, r) /\ v.who \in {w, None} /\ v.pc \in {"push", "putg", "glist"} \cup UserCalls
    BY <1>4, <1>6 DEF Call, Done
  <2>2. v.who # u /\ v.user = r.user /\ v.list = r.list
    BY <2>1, ProvAssumption DEF Moved
  <2>3. CASE r.user # u
    BY <1>2, <1>6, <2>2, <2>3, Bystander
  <2>4. CASE r.user = u
    <3>1. r.op = "member" /\ r.kind \in ToGroups /\ v.pc \in {"push", "putg"} \cup UserCalls
      BY <1>1, <1>3, <1>4, <1>6, <2>4 DEF Call, Done
    <3>2. /\ OwnRead(r, u) => OwnRead(v, u)
          /\ OwnRead(r, u) => OwnClean(v, u)
          /\ (Unborn(r) => Unborn(v)) /\ (Outdated(r) => Outdated(v))
      BY <2>1, <2>4, <3>1, MemberOwn
    <3>3. Read(r, u) => Read(v, u)
      BY <2>2, <2>4, <3>2 DEF Read
    <3>4. ~Doomed(r)
      BY <3>1 DEF Doomed, ToGroups
    <3>5. Read(r, u) /\ Clean(r, u) => Clean(v, u)
      BY <1>2, <2>2, <2>4, <3>2, <3>4 DEF Read, Clean, Due
    <3> QED BY <1>6, <3>3, <3>5
  <2> QED BY <2>3, <2>4
<1> QED BY <1>5, <1>6

\* What the push of an owned user sends is what the row says.
LEMMA RowSent ==
  ASSUME NEW r \in Job, Fit(r), Place(r), Shape(r), Lost(r), AtUsers(r), NEW w, Takes(r, w), Read(r, w),
         r.op # "delete", ProvTyped
  PROVE  /\ w \in In
         /\ r.op \in {"upsert", "member"} /\ r.who = w => Active(r) = row[w].active
         /\ r.op = "deactivate" => row[w].active = FALSE
<1>1. /\ w \in Users /\ r.kind # "cli"
      /\ r.op # "member" /\ r.kind # "sync" => w = r.user
      /\ r.op = "member" \/ r.kind = "sync" => r.list[w] # "none"
      /\ r.op # "member" => r.kind \in ToUsers
  BY TakesFacts
<1>2. row[w].active \in BOOLEAN
  BY <1>1, TypedParts DEF Row
<1>3. CASE r.op = "member" \/ r.kind = "sync"
  <2>1. ListUsers[w] = IF w \notin In THEN "none" ELSE IF row[w].active THEN "on" ELSE "off"
    BY <1>1 DEF ListUsers
  <2>2. r.list[w] = ListUsers[w] /\ r.list[w] # "none"
    BY <1>1, <1>3 DEF Read
  <2>3. w \in In /\ (r.list[w] = "on") = row[w].active
    BY <1>2, <2>1, <2>2
  <2>4. r.op # "deactivate"
    BY <1>3 DEF Shape, PushShape, ForUser
  <2> QED BY <1>3, <2>3, <2>4 DEF Active
<1>4. CASE r.op # "member" /\ r.kind # "sync"
  <2>1. w = r.user /\ r.kind \in ToUsers /\ ForUser(r) /\ OwnRead(r, w) /\ r.kind # "delete"
    BY <1>1, <1>4 DEF ForUser, Read, Shape, PushShape
  <2>2. Is(w, r.act)
    BY <1>4, <2>1 DEF OwnRead, ToUsers
  <2>3. ASSUME r.op = "deactivate" PROVE row[w].active = FALSE
    <3>1. r.kind \in {"update", "edit"} /\ ~r.form.active
      BY <2>1, <2>3 DEF Shape, PushShape
    <3>2. Written(r)
      BY DEF Written
    <3>3. Is(w, r.form.active)
      BY <2>1, <3>1, <3>2 DEF OwnRead
    <3> QED BY <1>2, <3>1, <3>3 DEF Is
  <2> QED BY <1>4, <2>2, <2>3 DEF Is, Active
<1> QED BY <1>3, <1>4

\* A call for w changes at most the id of w, and the target's record of w; a
\* record that goes takes its memberships with it, and its user is gone.
UserFrame(j, w) ==
  /\ row' = row /\ group' = group
  /\ \A u \in Users \ {w} : ext'[u] = ext[u] /\ vault'[u] = vault[u]
  /\ \/ vgroup' = vgroup /\ (vault[w].on => vault'[w].on)
     \/ /\ Groups \subseteq Touches(job[j]) /\ w \in Gone
        /\ \A g \in Groups : /\ vgroup'[g].on = vgroup[g].on
                             /\ vgroup'[g].members = vgroup[g].members \ {w}
  /\ dirty \ dirty' \subseteq {w}

\* What holds of w when the next call is due, and when it has been dealt with.
CallTold(v, w) ==
  /\ v.pc \in {"patch", "setoff"} => ext[w] = v.vid
  /\ w \in dirty \/ ((Agrees(w) \/ Due(v, w)) /\ CallClean(v, w))
DoneTold(r, w) ==
  \/ w \in dirty \/ Agrees(w)
  \/ r.op = "member" /\ r.user = w /\ Unborn(r) /\ Off(w)
  \/ r.op = "member" /\ r.user = w /\ Outdated(r) /\ Known(w)

\* What the job knows of w, after a call for w or after the last of them.
LEMMA UserStepOwn ==
  ASSUME NEW r \in Job, Fit(r), Place(r), Shape(r), Lost(r), AtUsers(r), NEW w, Takes(r, w), Read(r, w),
         NEW v, row' = row, group' = group,
         \/ Call(v, r, w) /\ CallTold(v, w)'
         \/ Done(v, r, w) /\ DoneTold(r, w)'
  PROVE  IF v.pc = "idle" THEN w \in dirty' \/ Agrees(w)' ELSE UserOK(v, w)'
<1>0. NoJob.pc = "idle"
  BY DEF NoJob
<1>1. /\ r.op = "member" => r.kind \in ToGroups
      /\ r.op # "member" => r.kind \in ToUsers
      /\ w \in Users /\ r.kind # "cli"
      /\ r.op # "member" /\ r.kind # "sync" => w = r.user
  BY TakesFacts
<1>2. In' = In /\ ListUsers' = ListUsers
  BY DEF In, ListUsers
<1>3. \A x, u : OwnRead(x, u) => OwnRead(x, u)'
  BY <1>2 DEF OwnRead, Is, Alone
<1>4. CASE v.pc = "idle"
  BY <1>4 DEF Call, Done, DoneTold, UserCalls
<1>5. CASE v.pc # "idle" /\ Call(v, r, w)
  <2>0. ~Done(v, r, w)
    BY <1>1, <1>5, ProvAssumption DEF Call, Done, UserCalls
  <2>1. Moved(v, r) /\ v.pc \in UserCalls /\ v.who = w /\ CallTold(v, w)'
    BY <1>5, <2>0 DEF Call
  <2>2. ASSUME r.user = w PROVE OwnRead(v, w) /\ OwnClean(v, w)'
    <3>0. OwnRead(r, w)
      BY <2>2 DEF Read
    <3>1. CASE r.op = "member"
      <4>1. OwnRead(v, w) /\ OwnClean(v, w)
        BY <1>1, <2>1, <2>2, <3>0, <3>1, MemberOwn
      <4>2. ~Untold(v)
        BY <1>1, <2>1, <3>0, <3>1
        DEF Moved, Untold, Creators, ToGroups, UserCalls, OwnRead, Alone, ForMember, AtUsers
      <4> QED BY <4>1, <4>2 DEF OwnClean
    <3>2. CASE r.op # "member"
      <4>1. ForUser(r) /\ ForUser(v) /\ ~ForMember(v) /\ ~Unsettled(v) /\ Written(r)
        BY <2>1, <3>2 DEF Moved, ForUser, ForMember, AtUsers, Unsettled, Written, UserCalls, GroupCalls
      <4>2. v.pc \notin {"audit", "erase", "flags", "isadmin", "glist", "gwrite", "gread"} \cup GroupCalls
            /\ r.pc \notin {"audit", "erase"}
        BY <2>1 DEF UserCalls, GroupCalls, AtUsers
      <4>3. OwnRead(v, w)
        BY <2>1, <3>0, <4>1, <4>2 DEF Moved, OwnRead, Alone
      <4>4. OwnClean(v, w)'
        BY <1>1, <2>1, <4>1, <4>2 DEF Moved, OwnClean, Untold
      <4> QED BY <4>3, <4>4
    <3> QED BY <3>1, <3>2
  <2>3. Read(v, w)'
    BY <1>2, <1>3, <2>1, <2>2 DEF Moved, Read, CallTold
  <2>4. w \in dirty' \/ Clean(v, w)'
    BY <2>1, <2>2 DEF Moved, CallTold, Clean
  <2> QED BY <1>5, <2>3, <2>4 DEF UserOK
<1>6. CASE v.pc # "idle" /\ ~Call(v, r, w)
  <2>0. Done(v, r, w) /\ DoneTold(r, w)'
    BY <1>6
  <2>1. Moved(v, r) /\ v.who = None /\ v.pc \in {"push", "putg", "glist"} /\ (r.op = "member" => v.pc # "glist")
    BY <1>0, <1>6, <2>0 DEF Done
  <2>2. v.who # w
    BY <1>1, <2>1, ProvAssumption
  <2>3. v.user = r.user /\ v.list = r.list
    BY <2>1 DEF Moved
  <2>4. CASE r.user # w
    <3>1. Read(v, w)'
      BY <1>2, <2>2, <2>3, <2>4 DEF Read
    <3>2. w \in dirty' \/ Clean(v, w)'
      BY <2>0, <2>2, <2>3, <2>4 DEF DoneTold, Clean
    <3> QED BY <1>6, <3>1, <3>2 DEF UserOK
  <2>5. CASE r.user = w
    <3>1. r.op = "member" /\ r.kind \in ToGroups /\ v.pc \in {"push", "putg"} \cup UserCalls
      <4>1. r.kind # "sync"
        BY <1>1, <2>5, ProvAssumption DEF Shape, OwnShape, OfUser
      <4>2. r.op = "member"
        <5>1. SUFFICES ASSUME r.op # "member" PROVE FALSE
          OBVIOUS
        <5>2. v.todo = {} /\ v.pc = "push" /\ v.todo # {}
          BY <1>0, <1>6, <2>0, <4>1, <5>1, TakesFacts DEF Done
        <5> QED BY <5>2
      <4> QED BY <1>1, <2>1, <4>2
    <3>2. /\ OwnRead(r, w) /\ OwnRead(v, w) /\ OwnClean(v, w)
          /\ (Unborn(r) => Unborn(v)) /\ (Outdated(r) => Outdated(v))
      BY <2>1, <2>5, <3>1, MemberOwn DEF Read
    <3>3. ~Untold(v)
      BY <2>1, <3>1, <3>2 DEF Moved, Untold, Creators, ToGroups, UserCalls, OwnRead, Alone, ForMember
    <3>4. OwnClean(v, w)'
      BY <3>2, <3>3 DEF OwnClean
    <3>5. Read(v, w)'
      BY <1>2, <1>3, <2>2, <2>3, <3>2 DEF Read
    <3>6. w \in dirty' \/ Clean(v, w)'
      BY <2>0, <2>2, <2>3, <2>5, <3>2, <3>4 DEF DoneTold, Clean, Due
    <3> QED BY <1>6, <3>5, <3>6 DEF UserOK
  <2> QED BY <2>4, <2>5
<1> QED BY <1>4, <1>5, <1>6

\* A step of the SCIM client for w keeps the agreement.
LEMMA UserStep ==
  ASSUME ProvInv, ProvInv', AgreeInv, NEW j \in Jobs, NEW r, r = job[j], AtUsers(r),
         NEW w, Takes(r, w), NEW v, Step(j, v), UserFrame(j, w), UserAt(w)',
         Call(v, r, w) \/ Done(v, r, w),
         Owns(job[j], w) => \/ w \in v.shared /\ v.pc # "idle"
                            \/ Call(v, r, w) /\ CallTold(v, w)'
                            \/ Done(v, r, w) /\ DoneTold(r, w)'
  PROVE  AgreeInv'
<1>0. /\ ProvTyped /\ r \in Job /\ Fit(r) /\ Place(r) /\ Shape(r) /\ Lost(r)
      /\ (\A u \in Users : UserAt(u)) /\ (\A g \in Groups : GroupAt(g))
  BY AgreeParts
<1>1. w \in Users /\ w \in Touches(r)
  BY <1>0, TakesFacts
<1>2. In' = In /\ Gone' = Gone /\ row' = row /\ group' = group
  BY DEF UserFrame, In, Gone
<1>3. \A u \in Users \ {w} : SameRow(u) /\ vault'[u] = vault[u]
  BY <1>2 DEF UserFrame, SameRow
<1>4. \A g \in Groups : SameGroup(g) /\ vgroup'[g].on = vgroup[g].on
  BY <1>2 DEF UserFrame, SameGroup
<1>5. Local(j) /\ Forward
  <2>1. \A g \in Groups \ Touches(job[j]) : vgroup'[g] = vgroup[g]
    BY DEF UserFrame
  <2> QED BY <1>1, <1>2, <1>3, <1>4, <2>1 DEF Local, Forward
<1>6. Shape(v) /\ Lost(v)'
  <2>1. Shape(v) /\ Lost(v)
    BY <1>0, CallShapes
  <2> QED BY <1>2, <2>1 DEF Lost
<1>7. ASSUME NEW u \in Users PROVE UserAt(u)'
  <2>1. CASE u = w
    BY <2>1
  <2>2. CASE u # w
    BY <1>0, <1>2, <2>2 DEF UserAt, UserFrame
  <2> QED BY <2>1, <2>2
<1>8. ASSUME NEW g \in Groups PROVE GroupAt(g)' /\ (AgreesG(g) => AgreesG(g)')
  <2>1. \/ vgroup'[g] = vgroup[g] /\ (vault[w].on => vault'[w].on)
        \/ /\ w \in Gone
           /\ vgroup'[g].on = vgroup[g].on /\ vgroup'[g].members = vgroup[g].members \ {w}
    BY DEF UserFrame
  <2>2. \A u \in Users \ {w} : vault'[u] = vault[u]
    BY <1>3
  <2>3. vgroup[g].members \subseteq Users
    BY <1>0, TypedParts DEF TargetGroup
  <2>4. GroupAt(g)'
    BY <1>0, <1>2, <2>1, <2>2, <2>3 DEF GroupAt
  <2>5. AgreesG(g) => AgreesG(g)'
    BY <1>2, <2>1 DEF AgreesG, Close
  <2> QED BY <2>4, <2>5
<1>9. Twin(v, v)
  BY DEF Twin, Alike
<1>10. ASSUME NEW u \in Users, Owns(job[j], u)
       PROVE  IF v.pc = "idle" THEN u \in dirty' \/ Agrees(u)' ELSE u \in v.shared \/ UserOK(v, u)'
  <2>1. Read(r, u) /\ (u \in dirty \/ Clean(r, u))
    BY <1>10, OwnedUser
  <2>2. CASE u = w
    BY <1>0, <1>2, <1>10, <2>1, <2>2, UserStepOwn
  <2>3. CASE u # w
    <3>0. SameRow(u) /\ vault'[u] = vault[u] /\ (u \in dirty => u \in dirty')
      BY <1>3, <2>3 DEF UserFrame
    <3>1. Agrees(u) => Agrees(u)'
      BY <3>0, SameTold
    <3>2. Read(v, u) => Read(v, u)'
      BY <1>9, <3>0, TwinRead
    <3>3. Clean(v, u) => Clean(v, u)'
      BY <1>9, <3>0, TwinClean
    <3>4. IF v.pc = "idle" THEN Clean(r, u) => Agrees(u)
          ELSE Read(r, u) => Read(v, u) /\ (Clean(r, u) => Clean(v, u))
      BY <1>0, <2>3, CallOthers
    <3> QED BY <2>1, <3>0, <3>1, <3>2, <3>3, <3>4 DEF UserOK
  <2> QED BY <2>2, <2>3
<1>11. ASSUME NEW g \in Groups, Owns(job[j], g)
       PROVE  IF v.pc = "idle" THEN g \in dirty' \/ AgreesG(g)' ELSE g \in v.shared \/ GroupOK(v, g)'
  <2>1. ReadG(r, g) /\ (g \in dirty \/ CleanG(r, g))
    BY <1>11, OwnedGroup
  <2>2. g \in dirty => g \in dirty'
    BY <1>1, ProvAssumption DEF UserFrame
  <2>3. IF v.pc = "idle" THEN CleanG(r, g) => AgreesG(g)
        ELSE (ReadG(r, g) => ReadG(v, g)) /\ (CleanG(r, g) => CleanG(v, g))
    BY <1>0, CallGroups
  <2>4. AgreesG(g) => AgreesG(g)'
    BY <1>8
  <2>5. ReadG(v, g) => ReadG(v, g)'
    BY <1>2 DEF ReadG, OwnReadG, Close
  <2>6. CleanG(v, g) => CleanG(v, g)'
    BY <1>4, <2>4 DEF CleanG
  <2> QED BY <2>1, <2>2, <2>3, <2>4, <2>5, <2>6 DEF GroupOK
<1> QED BY <1>5, <1>6, <1>7, <1>8, <1>10, <1>11, StepAgree

\* A step of the SCIM client is a step of its job.
LEMMA CallStep ==
  ASSUME NEW j \in Jobs, NEW r, r = job[j], AtUsers(r), NEW w, w \in Touches(r),
         NEW v, Set(j, v), Call(v, r, w) \/ Done(v, r, w),
         v.pc = "idle" \/ v.shared = r.shared \/ (v.shared = r.shared \cup {w} /\ w \in dirty'),
         \A x \in dirty \ dirty' : x = w /\ w \notin r.shared
  PROVE  Step(j, v)
<1>1. r.pc # "idle"
  BY DEF AtUsers, UserCalls
<1>2. Owns(job[j], w) \/ w \in r.shared
  BY <1>1 DEF Owns
<1>3. v.pc = "idle" \/ Moved(v, r)
  BY DEF Call, Done
<1>4. Moved(v, r) => Touches(v) = Touches(r)
  BY HeirTouches DEF Moved, Heir
<1> QED BY <1>1, <1>2, <1>3, <1>4 DEF Step

\* The job goes on, or ends, after w.
LEMMA AfterDone ==
  ASSUME NEW s \in Job, NEW r, NEW w, Moved(s, r), Left(s, r, w), NEW v, v = After(s)
  PROVE  Done(v, r, w) /\ (v.pc = "idle" \/ v.shared = s.shared)
<1>1. NoJob.pc = "idle"
  BY DEF NoJob
<1>2. \/ v = NoJob /\ s.op # "member" /\ s.kind # "sync"
      \/ /\ Moved(v, s) /\ v.todo = s.todo /\ v.who = None /\ v.shared = s.shared
         /\ \/ v.pc = "push" /\ v.todo # {}
            \/ v.pc = "putg" /\ s.op = "member"
            \/ v.pc = "glist" /\ s.op # "member" /\ s.kind = "sync"
  BY AfterFields
<1>3. s.op = r.op /\ s.kind = r.kind
  BY DEF Moved
<1>4. Moved(v, s) => Moved(v, r)
  BY DEF Moved
<1>5. v.todo = s.todo => Left(v, r, w)
  BY DEF Left
<1> QED BY <1>1, <1>2, <1>3, <1>4, <1>5 DEF Done

\* A job at its next label; and with one more of the target's ids.
LEMMA NextLabel ==
  ASSUME NEW s \in Job, NEW l \in Pcs, NEW v, v = [s EXCEPT !.pc = l]
  PROVE  /\ v \in Job /\ Moved(v, s) /\ v.todo = s.todo /\ v.who = s.who /\ v.vid = s.vid
         /\ v.pc = l /\ v.shared = s.shared
BY DEF Job, Moved

\* A job with one more of the target's ids.
LEMMA RefFields ==
  ASSUME NEW s \in Job, NEW w \in Users, NEW n \in Nat, NEW v, v = [s EXCEPT !.refs[w] = n]
  PROVE  v \in Job /\ Moved(v, s) /\ v.todo = s.todo /\ v.shared = s.shared
<1>1. PICK f : f = [s.refs EXCEPT ![w] = n]
  OBVIOUS
<1>2. f \in [Users -> Nat] /\ v = [s EXCEPT !.refs = f]
  BY <1>1 DEF Job
<1> QED BY <1>2 DEF Job, Moved

\* The cached id of the user is looked up: a call follows, or none is needed.
LEMMA LookUpAgrees ==
  ASSUME ProvInv, ProvInv', AgreeInv, NEW j \in Jobs, LookUp(j)
  PROVE  AgreeInv'
<1>0. PICK r : r = job[j]
  OBVIOUS
<1>1. /\ ProvTyped /\ r \in Job /\ Fit(r) /\ Place(r) /\ Shape(r) /\ Lost(r)
      /\ (\A u \in Users : UserAt(u))
  BY <1>0, AgreeParts
<1>2. PICK w, s :
        /\ w \in r.todo
        /\ s = [r EXCEPT !.todo = @ \ {w}, !.who = w, !.vid = ext[w]]
        /\ \/ /\ dirty' = dirty
              /\ Set(j, IF r.op = "member" /\ ext[w] # 0 THEN After([s EXCEPT !.refs[w] = ext[w]])
                        ELSE [s EXCEPT !.pc =
                          IF ext[w] = 0 THEN (IF r.op = "upsert" THEN "post" ELSE "find")
                          ELSE CASE r.op = "upsert" -> "patch"
                                 [] r.op = "deactivate" -> "setoff"
                                 [] r.op = "delete" -> "remove"])
           \/ Set(j, After(s)) /\ Dirty({w} \cup ({r.group} \ {None}))
  BY <1>0 DEF LookUp
<1>3. r.pc = "push" /\ AtUsers(r) /\ Takes(r, w) /\ UNCHANGED <<tables, target>>
  BY <1>0, <1>2 DEF LookUp, AtUsers, Takes
<1>4. w \in Users /\ w \in Touches(r)
  BY <1>1, <1>3, TakesFacts
<1>5. ext \in [Users -> Nat]
  BY <1>1, TypedParts
<1>6. PICK n \in Nat : n = ext[w]
  BY <1>4, <1>5
<1>7. s \in Job /\ Moved(s, r) /\ Left(s, r, w) /\ s.who = w /\ s.vid = n /\ s.shared = r.shared
  <2>1. s = [r EXCEPT !.todo = @ \ {w}, !.who = w, !.vid = n]
    BY <1>2, <1>6
  <2>2. r \in Job /\ r.pc = "push" /\ w \in Users
    BY <1>1, <1>3, <1>4
  <2>3. /\ s \in Job /\ s.who = w /\ s.vid = n /\ s.shared = r.shared /\ Moved(s, r)
        /\ s.todo = r.todo \ {w}
    BY <2>1, <2>2 DEF Job, Moved
  <2> QED BY <2>2, <2>3 DEF Left
<1>8. dirty \subseteq dirty' /\ UserFrame(j, w) /\ UserAt(w)' /\ In' = In
  <2>1. dirty \subseteq dirty'
    BY <1>2 DEF Dirty
  <2> QED BY <1>1, <1>3, <1>4, <2>1 DEF UserFrame, tables, target, UserAt, In
<1>9. ASSUME Owns(job[j], w) PROVE Read(r, w) /\ (w \in dirty \/ Clean(r, w))
  BY <1>0, <1>4, <1>9, OwnedUser
<1>10. \A u \in Users : r.who # u
  BY <1>1, <1>3, NobodyInHand DEF UserCalls
<1>11. ASSUME Dirty({w} \cup ({r.group} \ {None})), Set(j, After(s))
       PROVE  AgreeInv'
  <2>1. PICK v : v = After(s)
    OBVIOUS
  <2>2. Done(v, r, w) /\ (v.pc = "idle" \/ v.shared = r.shared)
    BY <1>7, <2>1, AfterDone
  <2>3. Step(j, v)
    BY <1>0, <1>3, <1>4, <1>8, <1>11, <2>1, <2>2, CallStep
  <2>4. DoneTold(r, w)'
    BY <1>11 DEF DoneTold, Dirty
  <2> QED BY <1>0, <1>3, <1>8, <2>2, <2>3, <2>4, UserStep
<1>12. ASSUME dirty' = dirty, r.op = "member", Set(j, After([s EXCEPT !.refs[w] = n]))
       PROVE  AgreeInv'
  <2>1. PICK t, v : t = [s EXCEPT !.refs[w] = n] /\ v = After(t)
    OBVIOUS
  <2>2. Done(v, r, w) /\ (v.pc = "idle" \/ v.shared = r.shared)
    <3>1. t \in Job /\ Moved(t, s) /\ t.todo = s.todo /\ t.shared = s.shared
      BY <1>4, <1>7, <2>1, RefFields
    <3>2. Moved(t, r) /\ Left(t, r, w)
      BY <1>7, <3>1 DEF Moved, Left
    <3> QED BY <1>7, <2>1, <3>1, <3>2, AfterDone
  <2>3. Step(j, v)
    BY <1>0, <1>3, <1>4, <1>8, <1>12, <2>1, <2>2, CallStep
  <2>4. ASSUME Owns(job[j], w) PROVE DoneTold(r, w)
    <3>1. ~Doomed(r)
      BY <1>1, <1>3, <1>12, TakesFacts DEF Doomed, ToGroups
    <3>2. r.op = "member"
      BY <1>12
    <3>3. r.who # w /\ (w \in dirty \/ Clean(r, w))
      BY <1>4, <1>9, <1>10, <2>4
    <3> QED BY <3>1, <3>2, <3>3 DEF DoneTold, Clean, Due
  <2>5. DoneTold(r, w) => DoneTold(r, w)'
    BY <1>3, <1>8, <1>12 DEF DoneTold, tables, target, Agrees, Off, Known
  <2> QED BY <1>0, <1>3, <1>8, <2>2, <2>3, <2>4, <2>5, UserStep
<1>13. ASSUME dirty' = dirty, NEW l \in Pcs, Set(j, [s EXCEPT !.pc = l]),
              \/ n = 0 /\ r.op = "upsert" /\ l = "post"
              \/ n = 0 /\ r.op # "upsert" /\ l = "find"
              \/ n # 0 /\ r.op = "upsert" /\ l = "patch"
              \/ n # 0 /\ r.op = "deactivate" /\ l = "setoff"
              \/ n # 0 /\ r.op = "delete" /\ l = "remove"
       PROVE  AgreeInv'
  <2>1. PICK v : v = [s EXCEPT !.pc = l]
    OBVIOUS
  <2>2. Moved(v, r) /\ Left(v, r, w) /\ v.who = w /\ v.vid = n /\ v.pc = l /\ v.shared = r.shared
    <3>1. /\ Moved(v, s) /\ v.todo = s.todo /\ v.who = s.who /\ v.vid = s.vid
          /\ v.pc = l /\ v.shared = s.shared
      BY <1>7, <2>1, NextLabel
    <3> QED BY <1>7, <3>1 DEF Moved, Left
  <2>3. Call(v, r, w)
    BY <1>13, <2>2 DEF Call, CallShape, UserCalls, Moved
  <2>4. Step(j, v)
    BY <1>0, <1>3, <1>4, <1>8, <1>13, <2>1, <2>2, <2>3, CallStep
  <2>5. ASSUME Owns(job[j], w) PROVE CallTold(v, w)
    <3>1. Read(r, w) /\ (w \in dirty \/ Clean(r, w)) /\ UserAt(w) /\ r.who # w
      BY <1>1, <1>4, <1>9, <1>10, <2>5
    <3>2. Known(w) => n # 0
      BY <1>6, <3>1 DEF Known, UserAt
    <3>3. /\ (ForUser(r) => (r.op = "delete" <=> r.kind = "delete"))
          /\ (ForUser(r) /\ r.op = "deactivate" => r.kind \in {"update", "edit"})
          /\ (ForUser(r) <=> r.op # "member") /\ (ForUser(v) <=> r.op # "member")
      BY <1>1, <1>3, <1>13, <2>2 DEF Shape, PushShape, ForUser, AtUsers, Moved, UserCalls
    <3>4. l # "remove"
      <4>1. SUFFICES ASSUME l = "remove" PROVE FALSE
        OBVIOUS
      <4>2. r.op = "delete" /\ n # 0 /\ r.kind = "delete"
        BY <1>13, <3>3, <4>1
      <4>3. w \notin In
        BY <1>1, <1>3, <4>2, TakesFacts DEF In
      <4> QED BY <1>6, <3>1, <4>2, <4>3 DEF UserAt
    <3>5. CallClean(v, w)
      BY <1>13, <2>2, <3>4 DEF CallClean
    <3>6. (v.pc \in {"patch", "setoff"} => ext[w] = v.vid)
      BY <1>6, <2>2
    <3>7. r.op = "member" => r.kind \in ToGroups
      BY <1>1, <1>3, TakesFacts
    <3>8. (Unborn(r) => Unborn(v) \/ r.op = "deactivate") /\ (r.op = "deactivate" => ~Unborn(r))
      BY <1>3, <1>13, <2>2, <3>3, <3>7
      DEF Unborn, Unsettled, Moved, Creators, UserCalls, GroupCalls, ToGroups
    <3>9. Outdated(r) /\ Known(w) => Outdated(v)
      BY <1>13, <2>2, <3>2, <3>3 DEF Outdated, Moved, Written, AtUsers, UserCalls
    <3>10. Doomed(r) => Doomed(v)
      BY <1>13, <2>2, <3>3, <3>4, <3>7 DEF Doomed, Moved, ToGroups
    <3>11. v.user = r.user
      BY <2>2 DEF Moved
    <3>12. Clean(r, w) => Agrees(w) \/ Due(v, w)
      BY <3>1, <3>8, <3>9, <3>10, <3>11 DEF Clean, Due
    <3> QED BY <3>1, <3>5, <3>6, <3>12 DEF CallTold
  <2>6. CallTold(v, w) => CallTold(v, w)'
    BY <1>3, <1>8, <1>13 DEF CallTold, tables, target, Agrees, Due, CallClean, Current, Off, Known
  <2> QED BY <1>0, <1>3, <1>8, <2>3, <2>4, <2>5, <2>6, UserStep
<1>14. \/ Dirty({w} \cup ({r.group} \ {None})) /\ Set(j, After(s))
       \/ dirty' = dirty /\ r.op = "member" /\ Set(j, After([s EXCEPT !.refs[w] = n]))
       \/ dirty' = dirty /\ \E l \in Pcs : /\ Set(j, [s EXCEPT !.pc = l])
              /\ \/ n = 0 /\ r.op = "upsert" /\ l = "post"
                 \/ n = 0 /\ r.op # "upsert" /\ l = "find"
                 \/ n # 0 /\ r.op = "upsert" /\ l = "patch"
                 \/ n # 0 /\ r.op = "deactivate" /\ l = "setoff"
                 \/ n # 0 /\ r.op = "delete" /\ l = "remove"
  <2>1. r.op \in Ops
    BY <1>1 DEF Job
  <2>2. {"post", "find", "patch", "setoff", "remove"} \subseteq Pcs
    BY DEF Pcs
  <2>3. PICK l : /\ l = (IF n = 0 THEN (IF r.op = "upsert" THEN "post" ELSE "find")
                         ELSE CASE r.op = "upsert" -> "patch"
                                [] r.op = "deactivate" -> "setoff"
                                [] r.op = "delete" -> "remove")
    OBVIOUS
  <2>4. ASSUME ~(r.op = "member" /\ n # 0)
        PROVE  \/ n = 0 /\ r.op = "upsert" /\ l = "post"
               \/ n = 0 /\ r.op # "upsert" /\ l = "find"
               \/ n # 0 /\ r.op = "upsert" /\ l = "patch"
               \/ n # 0 /\ r.op = "deactivate" /\ l = "setoff"
               \/ n # 0 /\ r.op = "delete" /\ l = "remove"
    BY <2>1, <2>3, <2>4 DEF Ops
  <2>5. \/ Dirty({w} \cup ({r.group} \ {None})) /\ Set(j, After(s))
        \/ dirty' = dirty /\ r.op = "member" /\ n # 0 /\ Set(j, After([s EXCEPT !.refs[w] = n]))
        \/ dirty' = dirty /\ ~(r.op = "member" /\ n # 0) /\ Set(j, [s EXCEPT !.pc = l])
    BY <1>2, <1>6, <2>3
  <2> QED BY <2>2, <2>4, <2>5
<1> QED BY <1>11, <1>12, <1>13, <1>14

\* A job at a call for a user.
LEMMA AtCall ==
  ASSUME ProvInv, AgreeInv, NEW j \in Jobs, NEW r, r = job[j], r.pc \in UserCalls
  PROVE  /\ AtUsers(r) /\ Takes(r, r.who) /\ r.who \in Users /\ r.who \in Touches(r) /\ r.pc # "idle"
         /\ UserAt(r.who)
<1>1. r \in Job /\ Fit(r) /\ Place(r) /\ Shape(r) /\ Lost(r) /\ \A u \in Users : UserAt(u)
  BY AgreeParts
<1>2. r.pc \notin {"push", "idle"}
  BY DEF UserCalls
<1>3. AtUsers(r) /\ Takes(r, r.who)
  BY <1>2 DEF AtUsers, Takes
<1> QED BY <1>1, <1>2, <1>3, TakesFacts

\* Where neither the tables nor the target change.
LEMMA SilentCall ==
  ASSUME NEW j \in Jobs, UNCHANGED <<tables, target>>, dirty \subseteq dirty', NEW w \in Users, UserAt(w)
  PROVE  /\ UserFrame(j, w) /\ UserAt(w)'
         /\ \A v : CallTold(v, w) => CallTold(v, w)'
         /\ \A r : DoneTold(r, w) => DoneTold(r, w)'
<1>1. row' = row /\ group' = group /\ ext' = ext /\ vault' = vault /\ vgroup' = vgroup /\ In' = In
  BY DEF tables, target, In
<1>2. UserFrame(j, w) /\ UserAt(w)'
  BY <1>1 DEF UserFrame, UserAt
<1>3. \A v : CallTold(v, w) => CallTold(v, w)'
  BY <1>1 DEF CallTold, Agrees, Due, CallClean, Current, Off, Known
<1>4. \A r : DoneTold(r, w) => DoneTold(r, w)'
  BY <1>1 DEF DoneTold, Agrees, Off, Known
<1> QED BY <1>2, <1>3, <1>4

\* From one call to the next.
LEMMA NextCall ==
  ASSUME NEW r \in Job, r.pc \in UserCalls, NEW v, Moved(v, r), v.todo = r.todo, v.who = r.who,
         v.pc \in UserCalls, CallShape(v)
  PROVE  Call(v, r, r.who)
<1>1. r.pc # "push"
  BY DEF UserCalls
<1> QED BY <1>1 DEF Call, Left

\* The target is searched for the user by externalId.
LEMMA FindAgrees ==
  ASSUME ProvInv, ProvInv', AgreeInv, NEW j \in Jobs, Find(j)
  PROVE  AgreeInv'
<1>0. PICK r, w : r = job[j] /\ w = r.who
  OBVIOUS
<1>1. ProvTyped /\ r \in Job /\ Fit(r) /\ Place(r) /\ Shape(r) /\ Lost(r)
  BY <1>0, AgreeParts
<1>2. r.pc = "find" /\ r.pc \in UserCalls /\ dirty' = dirty /\ UNCHANGED <<tables, target>>
  BY <1>0 DEF Find, UserCalls
<1>3. AtUsers(r) /\ Takes(r, w) /\ w \in Users /\ w \in Touches(r) /\ UserAt(w)
  BY <1>0, <1>2, AtCall
<1>4. /\ UserFrame(j, w) /\ UserAt(w)'
      /\ \A v : CallTold(v, w) => CallTold(v, w)'
      /\ \A x : DoneTold(x, w) => DoneTold(x, w)'
  BY <1>2, <1>3, SilentCall
<1>5. vault \in [Users -> Record] /\ vault[w] \in Record /\ vault[w].n \in Nat
  BY <1>1, <1>3, TypedParts DEF Record
<1>6. ASSUME Owns(job[j], w) PROVE Read(r, w) /\ (w \in dirty \/ Clean(r, w))
  BY <1>0, <1>3, <1>6, OwnedUser
<1>7. /\ r.op # "upsert" /\ (r.op = "member" => r.kind \in ToGroups)
      /\ (r.op # "member" => (r.op = "delete" <=> r.kind = "delete"))
      /\ (r.op = "deactivate" => r.kind \in {"update", "edit"})
      /\ (r.op # "member" => ForUser(r))
  BY <1>1, <1>2, <1>3, TakesFacts DEF Shape, CallShape, PushShape, ForUser
<1>8. ASSUME Clean(r, w)
      PROVE  \/ Agrees(w)
             \/ r.op = "member" /\ r.user = w /\ Unborn(r) /\ Off(w)
             \/ r.op = "member" /\ r.user = w /\ Outdated(r) /\ Known(w)
             \/ r.op = "delete" /\ r.user = w /\ w \notin In
  <2>1. ~Made(r) /\ (r.op # "member" => ~Outdated(r)) /\ (r.op # "member" => ~Unborn(r))
        /\ (Doomed(r) => r.op = "delete")
    BY <1>2, <1>7 DEF Made, Outdated, Unborn, Unsettled, Doomed, ToGroups, UserCalls, GroupCalls
  <2> QED BY <1>8, <2>1 DEF Clean, Due
<1>9. ASSUME NEW l \in {"remember", "post"}, NEW n \in Nat, NEW v,
             v = [r EXCEPT !.vid = n, !.pc = l], Set(j, v),
             l = "remember" => n = vault[w].n,
             l = "post" => r.op = "member"
      PROVE  AgreeInv'
  <2>1. /\ Moved(v, r) /\ v.todo = r.todo /\ v.who = w /\ v.vid = n /\ v.pc = l /\ v.shared = r.shared
        /\ v.op = r.op
    BY <1>0, <1>1, <1>9 DEF Job, Moved
  <2>2. Call(v, r, w)
    <3>1. CallShape(v) /\ v.pc \in UserCalls
      BY <1>9, <2>1 DEF CallShape, UserCalls
    <3> QED BY <1>0, <1>1, <1>2, <2>1, <3>1, NextCall
  <2>3. Step(j, v)
    BY <1>0, <1>2, <1>3, <1>9, <2>1, <2>2, CallStep
  <2>4. ASSUME Owns(job[j], w) PROVE CallTold(v, w)
    <3>1. w \in dirty \/ Clean(r, w)
      BY <1>6, <2>4
    <3>2. CallClean(v, w) /\ v.pc \notin {"patch", "setoff"}
      BY <1>9, <2>1 DEF CallClean
    <3>3. /\ r.op = "member" /\ r.user = w /\ Unborn(r) => Unborn(v)
          /\ r.op = "member" /\ r.user = w /\ Outdated(r) => Outdated(v)
      <4>1. v.pc \in {"push", "putg"} \cup UserCalls
        BY <1>9, <2>1 DEF UserCalls
      <4> QED BY <1>3, <1>7, <2>1, <4>1, MemberOwn
    <3>4. r.op = "delete" => Doomed(v)
      BY <1>7, <1>9, <2>1 DEF Doomed, Moved
    <3>5. Clean(r, w) => Agrees(w) \/ Due(v, w)
      BY <1>8, <2>1, <3>3, <3>4 DEF Due, Moved
    <3> QED BY <3>1, <3>2, <3>5 DEF CallTold
  <2> QED BY <1>0, <1>3, <1>4, <2>2, <2>3, <2>4, UserStep
<1>10. ASSUME ~(vault[w].on /\ vault[w].linked), r.op # "member", NEW v, v = After(r), Set(j, v)
       PROVE  AgreeInv'
  <2>1. Moved(r, r) /\ Left(r, r, w)
    BY <1>2 DEF Moved, Left
  <2>2. Done(v, r, w) /\ (v.pc = "idle" \/ v.shared = r.shared)
    BY <1>1, <1>10, <2>1, AfterDone
  <2>3. Step(j, v)
    BY <1>0, <1>2, <1>3, <1>10, <2>2, CallStep
  <2>4. ASSUME Owns(job[j], w) PROVE DoneTold(r, w)
    <3>1. w \in dirty \/ Clean(r, w)
      BY <1>6, <2>4
    <3>2. vault[w].on => w \in dirty
      BY <1>3, <1>10 DEF UserAt
    <3>3. Clean(r, w) => Agrees(w) \/ w \notin In
      BY <1>8, <1>10
    <3>4. w \notin In /\ ~vault[w].on => Agrees(w)
      BY DEF Agrees
    <3> QED BY <3>1, <3>2, <3>3, <3>4 DEF DoneTold
  <2> QED BY <1>0, <1>3, <1>4, <2>2, <2>3, <2>4, UserStep
<1>11. [r EXCEPT !.pc = "post"] = [r EXCEPT !.vid = r.vid, !.pc = "post"] /\ r.vid \in Nat
  BY <1>1 DEF Job
<1>12. \/ Set(j, [r EXCEPT !.vid = vault[w].n, !.pc = "remember"])
       \/ r.op = "member" /\ Set(j, [r EXCEPT !.pc = "post"])
       \/ ~(vault[w].on /\ vault[w].linked) /\ r.op # "member" /\ Set(j, After(r))
  BY <1>0 DEF Find
<1> QED BY <1>5, <1>9, <1>10, <1>11, <1>12

\* What a call for w does at the target: nothing but for w; only a deletion
\* takes the record away, and the memberships with it.
Effect(r, w) ==
  /\ \A u \in Users \ {w} : vault'[u] = vault[u]
  /\ \/ /\ vault'[w] = vault[w] /\ vgroup' = vgroup
        /\ r.pc \in {"patch", "setoff", "remove"} => ~Hit(r)
        /\ r.pc = "post" => vault[w].on
     \/ /\ r.pc = "patch" /\ Hit(r) /\ vgroup' = vgroup
        /\ vault'[w].n = vault[w].n /\ vault'[w].on /\ vault'[w].linked
        /\ vault'[w].active = Active(r)
     \/ /\ r.pc = "setoff" /\ Hit(r) /\ vgroup' = vgroup
        /\ vault'[w].n = vault[w].n /\ vault'[w].on /\ vault'[w].linked = vault[w].linked
        /\ vault'[w].active = FALSE
     \/ /\ r.pc = "remove" /\ Hit(r) /\ ~vault'[w].on /\ vault'[w].n = vault[w].n
        /\ \A g \in Groups : /\ vgroup'[g].on = vgroup[g].on
                             /\ vgroup'[g].members = vgroup[g].members \ {w}
     \/ /\ r.pc = "post" /\ ~vault[w].on /\ vgroup' = vgroup
        /\ vault'[w].n = vault[w].n + 1 /\ vault'[w].on /\ vault'[w].linked
        /\ vault'[w].active = Active(r)

\* Whatever the target answers.
LEMMA ApplyUser ==
  ASSUME ProvTyped, NEW r \in Job, r.pc \in UserCalls, NEW w \in Users, w = r.who, Apply(r)
  PROVE  Effect(r, w)
<1> USE DEF Effect
<1>1. /\ vault \in [Users -> Record] /\ vgroup \in [Groups -> TargetGroup]
      /\ vault[w] \in Record
  BY TypedParts
<1>2. PICK x : x = Applied(r)
  OBVIOUS
<1>3. vault' = x[1] /\ vgroup' = x[2]
  BY <1>2 DEF Apply
<1>4. PICK a : a = Active(r)
  OBVIOUS
<1>5. r.pc \notin {"putg", "postg", "deleteg"}
  BY DEF UserCalls
<1>6. \/ r.pc = "patch" /\ Hit(r) /\ x = <<[vault EXCEPT ![w].linked = TRUE, ![w].active = a], vgroup>>
      \/ r.pc = "setoff" /\ Hit(r) /\ x = <<[vault EXCEPT ![w].active = FALSE], vgroup>>
      \/ /\ r.pc = "remove" /\ Hit(r)
         /\ x = <<[vault EXCEPT ![w].on = FALSE], [g \in Groups |-> [vgroup[g] EXCEPT !.members = @ \ {w}]]>>
      \/ /\ r.pc = "post" /\ ~vault[w].on
         /\ x = <<[vault EXCEPT ![w] = [n |-> vault[w].n + 1, on |-> TRUE, linked |-> TRUE, active |-> a]], vgroup>>
      \/ /\ x = <<vault, vgroup>>
         /\ r.pc \in {"patch", "setoff", "remove"} => ~Hit(r)
         /\ r.pc = "post" => vault[w].on
  BY <1>2, <1>4, <1>5 DEF Applied, Hit
<1>7. CASE r.pc = "patch" /\ Hit(r) /\ x = <<[vault EXCEPT ![w].linked = TRUE, ![w].active = a], vgroup>>
  <2>1. vault' = [vault EXCEPT ![w].linked = TRUE, ![w].active = a] /\ vgroup' = vgroup
    BY <1>3, <1>7
  <2>2. vault[w].on
    BY <1>7 DEF Hit
  <2> QED BY <1>1, <1>4, <1>7, <2>1, <2>2 DEF Record
<1>8. CASE r.pc = "setoff" /\ Hit(r) /\ x = <<[vault EXCEPT ![w].active = FALSE], vgroup>>
  <2>1. vault' = [vault EXCEPT ![w].active = FALSE] /\ vgroup' = vgroup
    BY <1>3, <1>8
  <2>2. vault[w].on
    BY <1>8 DEF Hit
  <2> QED BY <1>1, <1>8, <2>1, <2>2 DEF Record
<1>9. CASE /\ r.pc = "remove" /\ Hit(r)
           /\ x = <<[vault EXCEPT ![w].on = FALSE], [g \in Groups |-> [vgroup[g] EXCEPT !.members = @ \ {w}]]>>
  <2>1. vault' = [vault EXCEPT ![w].on = FALSE]
        /\ vgroup' = [g \in Groups |-> [vgroup[g] EXCEPT !.members = @ \ {w}]]
    BY <1>3, <1>9
  <2>2. \A u \in Users \ {w} : vault'[u] = vault[u]
    BY <1>1, <2>1
  <2>3. ~vault'[w].on /\ vault'[w].n = vault[w].n
    BY <1>1, <2>1 DEF Record
  <2>4. \A g \in Groups : /\ vgroup'[g].on = vgroup[g].on
                          /\ vgroup'[g].members = vgroup[g].members \ {w}
    BY <1>1, <2>1 DEF TargetGroup
  <2> QED BY <1>9, <2>2, <2>3, <2>4
<1>10. CASE /\ r.pc = "post" /\ ~vault[w].on
            /\ x = <<[vault EXCEPT ![w] = [n |-> vault[w].n + 1, on |-> TRUE, linked |-> TRUE, active |-> a]], vgroup>>
  <2>1. vault' = [vault EXCEPT ![w] = [n |-> vault[w].n + 1, on |-> TRUE, linked |-> TRUE, active |-> a]]
        /\ vgroup' = vgroup
    BY <1>3, <1>10
  <2> QED BY <1>1, <1>4, <1>10, <2>1
<1>11. CASE /\ x = <<vault, vgroup>>
            /\ r.pc \in {"patch", "setoff", "remove"} => ~Hit(r)
            /\ r.pc = "post" => vault[w].on
  BY <1>3, <1>11
<1> QED BY <1>6, <1>7, <1>8, <1>9, <1>10, <1>11

\* Where the tables stay, and a call for w was made.
LEMMA ApplyFrame ==
  ASSUME ProvInv, AgreeInv, NEW j \in Jobs, NEW r, r = job[j], r.pc \in UserCalls, NEW w, w = r.who,
         Apply(r), UNCHANGED tables, dirty \ dirty' \subseteq {w},
         w \in dirty \ dirty' => vault'[w].linked \/ ~vault'[w].on
  PROVE  UserFrame(j, w) /\ UserAt(w)'
<1>1. ProvTyped /\ r \in Job /\ Fit(r) /\ Place(r) /\ Shape(r) /\ Lost(r)
  BY AgreeParts
<1>2. AtUsers(r) /\ Takes(r, w) /\ w \in Users /\ w \in Touches(r) /\ UserAt(w)
  BY AtCall
<1>3. row' = row /\ group' = group /\ ext' = ext /\ In' = In
  BY DEF tables, In
<1>4. r.pc = "remove" => w \in Gone /\ Groups \subseteq Touches(r)
  <2>1. r.pc = "remove" => r.op = "delete"
    BY <1>1 DEF Shape, CallShape
  <2> QED BY <1>1, <1>2, <2>1, TakesFacts DEF Gone
<1>5. vault[w].n \in Nat
  BY <1>1, <1>2, TypedParts DEF Record
<1>6. /\ \A u \in Users \ {w} : vault'[u] = vault[u]
      /\ \/ /\ vgroup' = vgroup
            /\ \/ vault'[w] = vault[w]
               \/ /\ vault[w].on /\ vault'[w].on /\ vault'[w].n = vault[w].n
                  /\ vault'[w].linked \/ vault'[w].linked = vault[w].linked
               \/ /\ ~vault[w].on /\ vault'[w].on /\ vault'[w].n = vault[w].n + 1 /\ vault'[w].linked
         \/ /\ r.pc = "remove" /\ ~vault'[w].on
            /\ \A g \in Groups : /\ vgroup'[g].on = vgroup[g].on
                                 /\ vgroup'[g].members = vgroup[g].members \ {w}
  <2>0. Effect(r, w)
    BY <1>1, <1>2, ApplyUser
  <2>1. Hit(r) => vault[w].on
    BY <1>2 DEF Hit
  <2>2. \/ vault'[w] = vault[w] /\ vgroup' = vgroup
        \/ /\ Hit(r) /\ vgroup' = vgroup /\ vault'[w].n = vault[w].n /\ vault'[w].on
           /\ vault'[w].linked \/ vault'[w].linked = vault[w].linked
        \/ /\ r.pc = "remove" /\ ~vault'[w].on
           /\ \A g \in Groups : /\ vgroup'[g].on = vgroup[g].on
                                /\ vgroup'[g].members = vgroup[g].members \ {w}
        \/ /\ ~vault[w].on /\ vgroup' = vgroup
           /\ vault'[w].n = vault[w].n + 1 /\ vault'[w].on /\ vault'[w].linked
    BY <2>0 DEF Effect
  <2>3. \A u \in Users \ {w} : vault'[u] = vault[u]
    BY <2>0 DEF Effect
  <2> QED BY <2>1, <2>2, <2>3
<1>9. UserFrame(j, w)
  <2>1. \/ vgroup' = vgroup /\ (vault[w].on => vault'[w].on)
        \/ /\ Groups \subseteq Touches(job[j]) /\ w \in Gone
           /\ \A g \in Groups : /\ vgroup'[g].on = vgroup[g].on
                                /\ vgroup'[g].members = vgroup[g].members \ {w}
    BY <1>4, <1>6
  <2> QED BY <1>3, <1>6, <2>1 DEF UserFrame
<1>7. /\ vault'[w].on => vault'[w].n # 0
      /\ vault'[w].on /\ ~vault'[w].linked => vault[w].on /\ ~vault[w].linked
  <2>1. vault[w].on => vault[w].n # 0
    BY <1>2 DEF UserAt
  <2> QED BY <1>5, <1>6, <2>1
<1>8. UserAt(w)'
  BY <1>2, <1>3, <1>7 DEF UserAt
<1> QED BY <1>8, <1>9

\* What the label of a call says of the push.
LEMMA CallKinds ==
  ASSUME ProvInv, AgreeInv, NEW j \in Jobs, NEW r, r = job[j], r.pc \in UserCalls, NEW w, w = r.who
  PROVE  /\ r.op = "member" => r.kind \in ToGroups
         /\ r.op # "member" => ForUser(r) /\ (r.op = "delete" <=> r.kind = "delete")
         /\ r.op = "deactivate" => r.kind \in {"update", "edit"}
         /\ r.op = "delete" => w \notin In
         /\ CallShape(r)
<1>1. ProvTyped /\ r \in Job /\ Fit(r) /\ Place(r) /\ Shape(r) /\ Lost(r)
  BY AgreeParts
<1>2. AtUsers(r) /\ Takes(r, w) /\ w \in Users /\ w \in Touches(r) /\ UserAt(w)
  BY AtCall
<1>3. r.op = "delete" => w \notin In
  BY <1>1, <1>2, TakesFacts DEF In
<1>4. r.op = "member" => r.kind \in ToGroups
  BY <1>1, <1>2, TakesFacts
<1>5. r.op # "member" => ForUser(r)
  BY <1>2 DEF ForUser
<1> QED BY <1>1, <1>3, <1>4, <1>5 DEF Shape, PushShape

\* PATCH, the deactivation and DELETE of a user at the target, answered, or
\* answered that there is no such user.
LEMMA CallUserAgrees ==
  ASSUME ProvInv, ProvInv', AgreeInv, NEW j \in Jobs, CallUser(j)
  PROVE  AgreeInv'
<1>0. PICK r, w : r = job[j] /\ w = r.who
  OBVIOUS
<1>1. ProvTyped /\ r \in Job /\ Fit(r) /\ Place(r) /\ Shape(r) /\ Lost(r)
  BY <1>0, AgreeParts
<1>2. r.pc \in {"patch", "setoff", "remove"} /\ r.pc \in UserCalls /\ Apply(r) /\ UNCHANGED tables
  BY <1>0 DEF CallUser, UserCalls
<1>3. AtUsers(r) /\ Takes(r, w) /\ w \in Users /\ w \in Touches(r) /\ UserAt(w)
  BY <1>0, <1>2, AtCall
<1>4. /\ (r.op # "member" => ForUser(r) /\ (r.op = "delete" <=> r.kind = "delete"))
      /\ (r.op = "deactivate" => r.kind \in {"update", "edit"})
      /\ (r.op = "delete" => w \notin In)
      /\ (r.pc = "patch" => r.op = "upsert") /\ (r.pc = "setoff" => r.op = "deactivate")
      /\ (r.pc = "remove" => r.op = "delete") /\ r.op # "member"
  BY <1>0, <1>2, CallKinds DEF CallShape
<1>5. (Hit(r) <=> vault[w].on /\ vault[w].n = r.vid)
  BY <1>0 DEF Hit
<1>6. /\ \/ dirty' = dirty
         \/ dirty' = dirty \ {w} /\ w \notin r.shared /\ Hit(r) /\ (r.pc # "setoff" \/ vault[w].linked)
      /\ Hit(r) /\ r.pc = "setoff" /\ ~vault[w].linked => dirty' = dirty
  BY <1>0 DEF CallUser, Pushed
<1>7. /\ ~Hit(r) => vault'[w] = vault[w]
      /\ r.pc = "patch" /\ Hit(r) => /\ vault'[w].n = vault[w].n /\ vault'[w].on /\ vault'[w].linked
                                     /\ vault'[w].active = Active(r)
      /\ r.pc = "setoff" /\ Hit(r) => /\ vault'[w].n = vault[w].n /\ vault'[w].on
                                      /\ vault'[w].linked = vault[w].linked
                                      /\ vault'[w].active = FALSE
      /\ r.pc = "remove" /\ Hit(r) => ~vault'[w].on
  BY <1>0, <1>1, <1>2, <1>3, ApplyUser DEF Effect
<1>8. dirty \ dirty' \subseteq {w} /\ (w \in dirty \ dirty' => vault'[w].linked \/ ~vault'[w].on)
  BY <1>2, <1>6, <1>7
<1>9. UserFrame(j, w) /\ UserAt(w)'
  BY <1>0, <1>2, <1>8, ApplyFrame
<1>10. ASSUME Owns(job[j], w)
       PROVE  /\ Read(r, w) /\ (w \in dirty \/ Clean(r, w))
              /\ r.pc # "remove" => ext[w] = r.vid
              /\ r.op # "delete" => w \in In
              /\ r.op = "upsert" => Active(r) = row[w].active
              /\ r.op = "deactivate" => row[w].active = FALSE
  <2>1. Read(r, w) /\ (w \in dirty \/ Clean(r, w))
    BY <1>0, <1>3, <1>10, OwnedUser
  <2>2. r.pc # "remove" => ext[w] = r.vid
    BY <1>0, <1>2, <2>1 DEF Read
  <2> QED BY <1>0, <1>1, <1>3, <2>1, <2>2, RowSent
<1>11. row' = row /\ ext' = ext /\ In' = In
  BY <1>2 DEF tables, In
<1>12. ASSUME Hit(r), r.pc # "remove", NEW v, v = After(r), Set(j, v)
       PROVE  AgreeInv'
  <2>1. Moved(r, r) /\ Left(r, r, w)
    BY <1>2 DEF Moved, Left
  <2>2. Done(v, r, w) /\ (v.pc = "idle" \/ v.shared = r.shared)
    BY <1>1, <1>12, <2>1, AfterDone
  <2>3. Step(j, v)
    BY <1>0, <1>3, <1>6, <1>12, <2>2, CallStep
  <2>4. ASSUME Owns(job[j], w) PROVE DoneTold(r, w)'
    <3>1. r.pc = "setoff" /\ ~vault[w].linked => w \in dirty'
      BY <1>3, <1>5, <1>6, <1>12 DEF UserAt
    <3>2. r.pc = "patch" \/ vault[w].linked => Agrees(w)'
      BY <1>2, <1>4, <1>5, <1>7, <1>10, <1>11, <1>12, <2>4 DEF Agrees
    <3> QED BY <1>2, <1>12, <3>1, <3>2 DEF DoneTold
  <2> QED BY <1>0, <1>3, <1>9, <2>2, <2>3, <2>4, UserStep
<1>13. ASSUME ~(Hit(r) /\ r.pc # "remove"), NEW v, v = [r EXCEPT !.pc = "forget"], Set(j, v)
       PROVE  AgreeInv'
  <2>1. /\ Moved(v, r) /\ v.todo = r.todo /\ v.who = w /\ v.vid = r.vid /\ v.pc = "forget"
        /\ v.shared = r.shared
    <3>1. "forget" \in Pcs
      BY DEF Pcs
    <3> QED BY <1>0, <1>1, <1>13, <3>1, NextLabel
  <2>2. Call(v, r, w)
    <3>1. CallShape(v) /\ v.pc \in UserCalls
      BY <1>4, <2>1 DEF CallShape, UserCalls, Moved
    <3> QED BY <1>0, <1>1, <1>2, <2>1, <3>1, NextCall
  <2>3. Step(j, v)
    BY <1>0, <1>3, <1>6, <1>13, <2>1, <2>2, CallStep
  <2>4. ASSUME Owns(job[j], w) PROVE CallTold(v, w)'
    <3>1. CASE Hit(r)
      <4>1. r.pc = "remove" /\ r.op = "delete" /\ w \notin In' /\ ~vault'[w].on
        BY <1>4, <1>7, <1>11, <1>13, <3>1
      <4> QED BY <2>1, <4>1 DEF CallTold, Agrees, CallClean, Off
    <3>2. CASE ~Hit(r)
      <4>0. dirty' = dirty /\ vault'[w] = vault[w]
        BY <1>6, <1>7, <3>2
      <4>1. CASE w \in dirty
        BY <2>1, <4>0, <4>1 DEF CallTold
      <4>2. CASE w \notin dirty
        <5>1. Clean(r, w)
          BY <1>10, <2>4, <4>2
        <5>2. CASE r.pc = "remove"
          <6>1. w \notin In' /\ ~vault'[w].on
            BY <1>0, <1>4, <1>5, <1>11, <3>2, <4>0, <5>1, <5>2 DEF Clean, CallClean
          <6> QED BY <2>1, <6>1 DEF CallTold, Agrees, CallClean, Off
        <5>3. CASE r.pc # "remove"
          <6>1. ~Agrees(w) /\ ~Known(w)
            BY <1>2, <1>4, <1>5, <1>10, <2>4, <3>2, <5>3 DEF Agrees, Known
          <6>2. ~Made(r) /\ ~Doomed(r)
            BY <1>2, <1>4, <5>3 DEF Made, Doomed
          <6>3. r.user = w /\ Unborn(r) /\ Off(w)
            BY <5>1, <6>1, <6>2 DEF Clean, Due
          <6>4. Unborn(v) /\ v.user = w
            BY <1>2, <1>4, <2>1, <6>3 DEF Unborn, Moved, Creators
          <6>5. Off(w)'
            BY <4>0, <6>3 DEF Off
          <6>6. Due(v, w)' /\ CallClean(v, w)'
            BY <2>1, <6>4, <6>5 DEF Due, CallClean
          <6> QED BY <2>1, <6>6 DEF CallTold
        <5> QED BY <5>2, <5>3
      <4> QED BY <4>1, <4>2
    <3> QED BY <3>1, <3>2
  <2> QED BY <1>0, <1>3, <1>9, <2>2, <2>3, <2>4, UserStep
<1>14. \/ Hit(r) /\ r.pc # "remove" /\ Set(j, After(r))
       \/ ~(Hit(r) /\ r.pc # "remove") /\ Set(j, [r EXCEPT !.pc = "forget"])
  <2>1. Go(j, "forget") => Set(j, [r EXCEPT !.pc = "forget"])
    BY <1>0 DEF Go, Set
  <2> QED BY <1>0, <2>1 DEF CallUser
<1> QED BY <1>12, <1>13, <1>14

\* Why the target may differ where a call for its user is under way.
LEMMA CallDue ==
  ASSUME ProvInv, AgreeInv, NEW j \in Jobs, NEW r, r = job[j], r.pc \in UserCalls \ {"patch", "setoff"},
         NEW w, w = r.who, Clean(r, w)
  PROVE  \/ Agrees(w)
         \/ r.pc = "remember" /\ r.op \in {"upsert", "member"} /\ Current(w)
         \/ r.op = "upsert" /\ r.pc \in {"forget", "post"} /\ r.user = w /\ Unborn(r) /\ Off(w)
         \/ r.op = "member" /\ r.user = w /\ Unborn(r) /\ Off(w)
         \/ r.op = "member" /\ r.user = w /\ Outdated(r) /\ Known(w)
         \/ r.op = "delete" /\ r.user = w /\ Doomed(r) /\ w \notin In
<1>1. /\ (r.op = "member" => r.kind \in ToGroups)
      /\ (r.op # "member" => ForUser(r) /\ (r.op = "delete" <=> r.kind = "delete"))
  BY CallKinds
<1>2. Doomed(r) => r.op = "delete"
  BY <1>1 DEF Doomed, ToGroups
<1>3. Outdated(r) => r.op = "member"
  BY <1>1 DEF Outdated, UserCalls
<1>4. Unborn(r) => r.op = "member" \/ (r.op = "upsert" /\ r.pc \in {"forget", "post"})
  BY DEF Unborn, Unsettled, UserCalls, GroupCalls
<1> QED BY <1>2, <1>3, <1>4 DEF Clean, Due, Made

\* The cached id is dropped, because the target does not know it; or that fails.
LEMMA ForgetAgrees ==
  ASSUME ProvInv, ProvInv', AgreeInv, NEW j \in Jobs, Forget(j)
  PROVE  AgreeInv'
<1>0. PICK r, w : r = job[j] /\ w = r.who
  OBVIOUS
<1>1. ProvTyped /\ r \in Job /\ Fit(r) /\ Place(r) /\ Shape(r) /\ Lost(r)
  BY <1>0, AgreeParts
<1>2. /\ r.pc = "forget" /\ r.pc \in UserCalls
      /\ row' = row /\ group' = group /\ vault' = vault /\ vgroup' = vgroup
  BY <1>0 DEF Forget, UserCalls, target
<1>3. AtUsers(r) /\ Takes(r, w) /\ w \in Users /\ w \in Touches(r) /\ UserAt(w)
  BY <1>0, <1>2, AtCall
<1>4. /\ (r.op = "delete" => w \notin In) /\ r.op # "member" /\ CallShape(r)
  BY <1>0, <1>2, CallKinds DEF CallShape
<1>5. ext \in [Users -> Nat] /\ In' = In
  BY <1>1, <1>2, TypedParts DEF In
<1>6. \/ ext' = [ext EXCEPT ![w] = 0] /\ dirty' = dirty
      \/ ext' = ext /\ dirty' = dirty \cup {w}
  BY <1>0 DEF Forget, DeleteExternalID, Dirty
<1>7. UserFrame(j, w) /\ UserAt(w)' /\ dirty \subseteq dirty'
  BY <1>2, <1>3, <1>5, <1>6 DEF UserFrame, UserAt
<1>8. ASSUME Owns(job[j], w), w \notin dirty'
      PROVE  /\ Off(w) /\ Off(w)' /\ (Agrees(w) \/ (r.op = "upsert" /\ r.user = w /\ Unborn(r)))
             /\ r.op # "delete" => w \in In
  <2>1. Read(r, w) /\ Clean(r, w)
    BY <1>0, <1>3, <1>7, <1>8, OwnedUser
  <2>2. r.op # "delete" => w \in In
    BY <1>1, <1>3, <2>1, RowSent
  <2>3. Off(w)
    BY <1>0, <1>2, <2>1 DEF Clean, CallClean
  <2>4. w \notin In => Agrees(w)
    BY <2>3 DEF Agrees, Off
  <2>5. r.pc \in UserCalls \ {"patch", "setoff"}
    BY <1>2
  <2>6. \/ Agrees(w) \/ (r.op = "upsert" /\ r.user = w /\ Unborn(r))
        \/ r.op = "delete"
    BY <1>0, <1>2, <1>4, <2>1, <2>5, CallDue
  <2> QED BY <1>2, <1>4, <2>2, <2>3, <2>4, <2>6 DEF Off
<1>9. ASSUME r.op = "upsert", NEW v, v = [r EXCEPT !.pc = "post"], Set(j, v)
      PROVE  AgreeInv'
  <2>1. Moved(v, r) /\ v.todo = r.todo /\ v.who = w /\ v.vid = r.vid /\ v.pc = "post" /\ v.shared = r.shared
    <3>1. "post" \in Pcs
      BY DEF Pcs
    <3> QED BY <1>0, <1>1, <1>9, <3>1, NextLabel
  <2>2. Call(v, r, w)
    <3>1. CallShape(v) /\ v.pc \in UserCalls
      BY <1>9, <2>1 DEF CallShape, UserCalls, Moved
    <3> QED BY <1>0, <1>1, <1>2, <2>1, <3>1, NextCall
  <2>3. Step(j, v)
    BY <1>0, <1>3, <1>7, <1>9, <2>1, <2>2, CallStep
  <2>4. ASSUME Owns(job[j], w), w \notin dirty' PROVE Due(v, w)'
    <3>1. r.user = w /\ Unborn(r) /\ Off(w)'
      BY <1>8, <1>9, <2>4 DEF Agrees, Off
    <3>2. Unborn(v) /\ v.user = w
      BY <1>2, <1>9, <2>1, <3>1 DEF Unborn, Moved
    <3> QED BY <3>1, <3>2 DEF Due
  <2>5. ASSUME Owns(job[j], w) PROVE CallTold(v, w)'
    BY <2>1, <2>4, <2>5 DEF CallTold, CallClean
  <2> QED BY <1>0, <1>3, <1>7, <2>2, <2>3, <2>5, UserStep
<1>10. ASSUME r.op # "upsert", NEW v, v = After(r), Set(j, v)
       PROVE  AgreeInv'
  <2>1. Moved(r, r) /\ Left(r, r, w)
    BY <1>2 DEF Moved, Left
  <2>2. Done(v, r, w) /\ (v.pc = "idle" \/ v.shared = r.shared)
    BY <1>1, <1>10, <2>1, AfterDone
  <2>3. Step(j, v)
    BY <1>0, <1>3, <1>7, <1>10, <2>2, CallStep
  <2>4. ASSUME Owns(job[j], w) PROVE DoneTold(r, w)'
    <3>1. SUFFICES ASSUME w \notin dirty' PROVE Agrees(w)'
      BY DEF DoneTold
    <3>2. w \notin In' /\ Off(w)'
      BY <1>5, <1>8, <1>10, <2>4, <3>1 DEF Agrees, Off
    <3> QED BY <3>2 DEF Agrees, Off
  <2> QED BY <1>0, <1>3, <1>7, <2>2, <2>3, <2>4, UserStep
<1>11. \/ r.op = "upsert" /\ Set(j, [r EXCEPT !.pc = "post"])
       \/ r.op # "upsert" /\ Set(j, After(r))
  <2>1. Go(j, "post") => Set(j, [r EXCEPT !.pc = "post"])
    BY <1>0 DEF Go, Set
  <2> QED BY <1>0, <2>1 DEF Forget
<1> QED BY <1>9, <1>10, <1>11

\* POST of a user at the target, or its answer that there is one.
LEMMA PostAgrees ==
  ASSUME ProvInv, ProvInv', AgreeInv, NEW j \in Jobs, Post(j)
  PROVE  AgreeInv'
<1>0. PICK r, w : r = job[j] /\ w = r.who
  OBVIOUS
<1>1. ProvTyped /\ r \in Job /\ Fit(r) /\ Place(r) /\ Shape(r) /\ Lost(r)
  BY <1>0, AgreeParts
<1>2. r.pc = "post" /\ r.pc \in UserCalls /\ Apply(r) /\ UNCHANGED tables
  BY <1>0 DEF Post, UserCalls
<1>3. AtUsers(r) /\ Takes(r, w) /\ w \in Users /\ w \in Touches(r) /\ UserAt(w)
  BY <1>0, <1>2, AtCall
<1>4. /\ r.op \in {"upsert", "member"} /\ (r.op = "member" => r.kind \in ToGroups)
  BY <1>0, <1>2, CallKinds DEF CallShape
<1>5. /\ (vault[w].on => dirty' = dirty)
      /\ (~vault[w].on => dirty' = IF w \in r.shared THEN dirty ELSE dirty \ {w})
  BY <1>0 DEF Post, Pushed
<1>6. /\ vault[w].on => vault'[w] = vault[w]
      /\ ~vault[w].on => /\ vault'[w].on /\ vault'[w].linked /\ vault'[w].active = Active(r)
  BY <1>0, <1>1, <1>2, <1>3, ApplyUser DEF Effect
<1>7. UserFrame(j, w) /\ UserAt(w)'
  BY <1>0, <1>2, <1>5, <1>6, ApplyFrame
<1>8. row' = row /\ ext' = ext /\ In' = In
  BY <1>2 DEF tables, In
<1>9. vault' = Applied(r)[1]
  BY <1>2 DEF Apply
<1>10. PICK n : n = vault'[w].n
  OBVIOUS
<1>11. n \in Nat
  <2>1. vault' \in [Users -> Record]
    BY DEF ProvInv, ProvTyped, ProvTypeOK
  <2> QED BY <1>3, <1>10, <2>1 DEF Record
<1>12. PICK v : v = [r EXCEPT !.pc = "remember", !.vid = n]
  OBVIOUS
<1>13. Set(j, v)
  BY <1>0, <1>9, <1>10, <1>12 DEF Post, Set
<1>14. /\ Moved(v, r) /\ v.todo = r.todo /\ v.who = w /\ v.vid = n /\ v.pc = "remember" /\ v.shared = r.shared
       /\ v.op = r.op /\ v.user = r.user
  BY <1>0, <1>1, <1>11, <1>12 DEF Job, Moved
<1>15. Call(v, r, w)
  <2>1. CallShape(v) /\ v.pc \in UserCalls
    BY <1>14 DEF CallShape, UserCalls
  <2> QED BY <1>0, <1>1, <1>2, <1>14, <2>1, NextCall
<1>16. Step(j, v)
  BY <1>0, <1>3, <1>5, <1>13, <1>14, <1>15, CallStep
<1>17. ASSUME Owns(job[j], w) PROVE CallTold(v, w)'
  <2>1. CallClean(v, w)'
    BY <1>10, <1>14 DEF CallClean
  <2>2. SUFFICES ASSUME w \notin dirty' PROVE Agrees(w)' \/ Due(v, w)'
    BY <1>14, <2>1 DEF CallTold
  <2>3. Read(r, w) /\ (w \in dirty \/ Clean(r, w))
    BY <1>0, <1>3, <1>17, OwnedUser
  <2>4. w \in In /\ Active(r) = row[w].active
    BY <1>0, <1>1, <1>3, <1>4, <2>3, RowSent
  <2>5. CASE ~vault[w].on
    <3>1. Current(w)'
      BY <1>6, <1>8, <2>4, <2>5 DEF Current
    <3>2. Made(v)
      BY <1>4, <1>14 DEF Made
    <3> QED BY <1>14, <3>1, <3>2 DEF Due
  <2>6. CASE vault[w].on
    <3>1. vault'[w] = vault[w] /\ Clean(r, w) /\ ~Off(w)
      BY <1>5, <1>6, <2>2, <2>3, <2>6 DEF Off
    <3>2. r.pc \in UserCalls \ {"patch", "setoff"}
      BY <1>2
    <3>3. Agrees(w) \/ (r.op = "member" /\ r.user = w /\ Outdated(r) /\ Known(w))
      BY <1>0, <1>2, <1>4, <3>1, <3>2, CallDue
    <3>4. r.op = "member" /\ Outdated(r) => Outdated(v)
      <4>1. v.pc \in {"push", "putg"} \cup UserCalls
        BY <1>14 DEF UserCalls
      <4> QED BY <1>3, <1>4, <1>14, <4>1, MemberOwn
    <3>5. (Agrees(w) => Agrees(w)') /\ (Known(w) => Known(w)')
      BY <1>8, <3>1 DEF Agrees, Known
    <3> QED BY <1>14, <3>3, <3>4, <3>5 DEF Due
  <2> QED BY <2>5, <2>6
<1> QED BY <1>0, <1>3, <1>7, <1>15, <1>16, <1>17, UserStep

\* The target's id of the user is cached; or that fails.
LEMMA RememberAgrees ==
  ASSUME ProvInv, ProvInv', AgreeInv, NEW j \in Jobs, Remember(j)
  PROVE  AgreeInv'
<1>0. PICK r, w : r = job[j] /\ w = r.who
  OBVIOUS
<1>1. ProvTyped /\ r \in Job /\ Fit(r) /\ Place(r) /\ Shape(r) /\ Lost(r)
  BY <1>0, AgreeParts
<1>2. /\ r.pc = "remember" /\ r.pc \in UserCalls
      /\ row' = row /\ group' = group /\ vault' = vault /\ vgroup' = vgroup
  BY <1>0 DEF Remember, UserCalls, target
<1>3. AtUsers(r) /\ Takes(r, w) /\ w \in Users /\ w \in Touches(r) /\ UserAt(w)
  BY <1>0, <1>2, AtCall
<1>4. /\ (r.op = "delete" => w \notin In) /\ (r.op = "member" => r.kind \in ToGroups)
      /\ (r.op = "delete" => r.kind = "delete") /\ r.op \in Ops
  BY <1>0, <1>1, <1>2, CallKinds DEF Job
<1>5. ext \in [Users -> Nat] /\ In' = In /\ r.vid \in Nat
  BY <1>1, <1>2, TypedParts DEF In, Job
\* The row of the external id is written, or what follows is shared.
<1>6. PICK s : /\ \/ s = r /\ dirty' = dirty /\ ext' = IF w \in In THEN [ext EXCEPT ![w] = r.vid] ELSE ext
                  \/ s = [r EXCEPT !.shared = @ \cup {w}] /\ dirty' = dirty \cup {w} /\ ext' = ext
               /\ \/ s.op = "deactivate" /\ Set(j, [s EXCEPT !.pc = "setoff"])
                  \/ s.op = "delete" /\ Set(j, [s EXCEPT !.pc = "remove"])
                  \/ s.op = "upsert" /\ Set(j, After(s))
                  \/ s.op = "member" /\ Set(j, After([s EXCEPT !.refs[s.who] = s.vid]))
  <2>1. PICK s : /\ \/ s = r /\ dirty' = dirty /\ ext' = IF w \in In THEN [ext EXCEPT ![w] = r.vid] ELSE ext
                    \/ s = [r EXCEPT !.shared = @ \cup {w}] /\ dirty' = dirty \cup {w} /\ ext' = ext
                 /\ Set(j, CASE s.op = "deactivate" -> [s EXCEPT !.pc = "setoff"]
                             [] s.op = "delete" -> [s EXCEPT !.pc = "remove"]
                             [] s.op = "upsert" -> After(s)
                             [] s.op = "member" -> After([s EXCEPT !.refs[s.who] = s.vid]))
    BY <1>0 DEF Remember, SetExternalID, Dirty
  <2>2. s.op \in Ops
    BY <1>1, <2>1 DEF Job
  <2> QED BY <2>1, <2>2 DEF Ops
<1>7. /\ s \in Job /\ Moved(s, r) /\ s.todo = r.todo /\ s.who = w /\ s.vid = r.vid /\ s.op = r.op
      /\ \/ s.shared = r.shared /\ dirty' = dirty /\ ext' = IF w \in In THEN [ext EXCEPT ![w] = r.vid] ELSE ext
         \/ s.shared = r.shared \cup {w} /\ dirty' = dirty \cup {w} /\ ext' = ext
  <2>1. CASE s = r /\ dirty' = dirty /\ ext' = IF w \in In THEN [ext EXCEPT ![w] = r.vid] ELSE ext
    BY <1>0, <1>1, <2>1 DEF Moved
  <2>2. CASE s = [r EXCEPT !.shared = @ \cup {w}] /\ dirty' = dirty \cup {w} /\ ext' = ext
    <3>1. PICK T \in SUBSET Items : T = r.shared \cup {w}
      BY <1>1, <1>3 DEF Job, Items
    <3>2. s = [r EXCEPT !.shared = T]
      BY <2>2, <3>1
    <3>3. s \in Job /\ Moved(s, r) /\ s.todo = r.todo /\ s.who = w /\ s.vid = r.vid /\ s.op = r.op
          /\ s.shared = T
      BY <1>0, <1>1, <3>2 DEF Job, Moved
    <3> QED BY <2>2, <3>1, <3>3
  <2> QED BY <1>6, <2>1, <2>2
<1>8. UserFrame(j, w) /\ UserAt(w)' /\ dirty \subseteq dirty'
  <2>1. \A u \in Users \ {w} : ext'[u] = ext[u]
    BY <1>5, <1>7
  <2>2. w \notin In => ext'[w] = ext[w]
    BY <1>7
  <2>3. dirty \subseteq dirty'
    BY <1>7
  <2> QED BY <1>2, <1>3, <1>5, <2>1, <2>2, <2>3 DEF UserFrame, UserAt
\* What the target holds, where nothing failed.
<1>9. ASSUME Owns(job[j], w), w \notin dirty'
      PROVE  /\ vault[w].n = r.vid /\ vault'[w] = vault[w]
             /\ r.op # "delete" => w \in In /\ ext'[w] = r.vid
             /\ (Agrees(w) => Agrees(w)') /\ (Current(w) => Agrees(w)' \/ r.op = "delete")
             /\ (Off(w) => Off(w)') /\ (Known(w) => Known(w)')
             /\ \/ Agrees(w)
                \/ r.op \in {"upsert", "member"} /\ Current(w)
                \/ r.op = "member" /\ r.user = w /\ Unborn(r) /\ Off(w)
                \/ r.op = "member" /\ r.user = w /\ Outdated(r) /\ Known(w)
                \/ r.op = "delete" /\ r.user = w /\ Doomed(r) /\ w \notin In
  <2>1. Read(r, w) /\ Clean(r, w)
    BY <1>0, <1>3, <1>8, <1>9, OwnedUser
  <2>2. vault[w].n = r.vid /\ vault'[w] = vault[w]
    BY <1>0, <1>2, <2>1 DEF Clean, CallClean
  <2>3. r.op # "delete" => w \in In
    BY <1>1, <1>3, <2>1, RowSent
  <2>4. ext' = IF w \in In THEN [ext EXCEPT ![w] = r.vid] ELSE ext
    BY <1>7, <1>9
  <2>5. (w \in In => ext'[w] = r.vid) /\ (w \notin In => ext'[w] = ext[w])
    BY <1>3, <1>5, <2>4
  <2>6. r.pc \in UserCalls \ {"patch", "setoff"}
    BY <1>2
  <2>7. \/ Agrees(w)
        \/ r.op \in {"upsert", "member"} /\ Current(w)
        \/ r.op = "member" /\ r.user = w /\ Unborn(r) /\ Off(w)
        \/ r.op = "member" /\ r.user = w /\ Outdated(r) /\ Known(w)
        \/ r.op = "delete" /\ r.user = w /\ Doomed(r) /\ w \notin In
    BY <1>0, <1>2, <2>1, <2>6, CallDue
  <2>8. /\ (Agrees(w) => Agrees(w)') /\ (Current(w) => Agrees(w)' \/ r.op = "delete")
        /\ (Off(w) => Off(w)') /\ (Known(w) => Known(w)')
    BY <1>2, <1>5, <2>2, <2>3, <2>5 DEF Agrees, Current, Off, Known
  <2> QED BY <2>2, <2>3, <2>5, <2>7, <2>8
<1>10. ASSUME NEW l \in Pcs, NEW v, v = [s EXCEPT !.pc = l], Set(j, v),
              \/ l = "setoff" /\ r.op = "deactivate"
              \/ l = "remove" /\ r.op = "delete"
       PROVE  AgreeInv'
  <2>1. /\ Moved(v, r) /\ v.todo = r.todo /\ v.who = w /\ v.vid = r.vid /\ v.pc = l /\ v.shared = s.shared
    <3>1. Moved(v, s) /\ v.todo = s.todo /\ v.who = s.who /\ v.vid = s.vid /\ v.pc = l /\ v.shared = s.shared
      BY <1>7, <1>10, NextLabel
    <3> QED BY <1>7, <3>1 DEF Moved
  <2>2. Call(v, r, w)
    <3>1. CallShape(v) /\ v.pc \in UserCalls
      BY <1>10, <2>1 DEF CallShape, UserCalls, Moved
    <3> QED BY <1>0, <1>1, <1>2, <2>1, <3>1, NextCall
  <2>3. v.shared = r.shared \/ (v.shared = r.shared \cup {w} /\ w \in dirty')
    BY <1>7, <2>1
  <2>4. Step(j, v)
    BY <1>0, <1>3, <1>8, <1>10, <2>2, <2>3, CallStep
  <2>5. v.pc # "idle"
    BY <1>10, <2>1
  <2>6. ASSUME Owns(job[j], w), w \notin v.shared PROVE CallTold(v, w)'
    <3>0. dirty' = dirty /\ ext' = IF w \in In THEN [ext EXCEPT ![w] = r.vid] ELSE ext
      BY <1>7, <2>1, <2>6
    <3>1. CASE w \in dirty'
      <4>1. Read(r, w)
        BY <1>0, <1>3, <2>6, OwnedUser
      <4>2. l = "setoff" => w \in In
        BY <1>1, <1>3, <1>10, <4>1, RowSent
      <4>3. l = "setoff" => ext'[w] = r.vid
        BY <1>3, <1>5, <3>0, <4>2
      <4> QED BY <1>10, <2>1, <3>1, <4>3 DEF CallTold
    <3>2. CASE w \notin dirty'
      <4>1. l = "setoff" => Agrees(w)' /\ ext'[w] = r.vid
        BY <1>9, <1>10, <2>6, <3>2
      <4>2. l = "remove" => Agrees(w)' \/ (r.user = w /\ Doomed(r) /\ w \notin In')
        BY <1>5, <1>9, <1>10, <2>6, <3>2
      <4>3. l = "remove" /\ Doomed(r) => Doomed(v)
        BY <2>1 DEF Doomed, Moved
      <4>4. CallClean(v, w)'
        BY <1>9, <1>10, <2>1, <2>6, <3>2 DEF CallClean
      <4>5. Agrees(w)' \/ Due(v, w)'
        BY <1>10, <2>1, <4>1, <4>2, <4>3 DEF Due, Moved
      <4> QED BY <1>10, <2>1, <4>1, <4>4, <4>5 DEF CallTold
    <3> QED BY <3>1, <3>2
  <2> QED BY <1>0, <1>3, <1>8, <2>2, <2>4, <2>5, <2>6, UserStep
<1>11. ASSUME r.op \in {"upsert", "member"}, NEW t \in Job, Moved(t, s), t.todo = s.todo, t.shared = s.shared,
              NEW v, v = After(t), Set(j, v)
       PROVE  AgreeInv'
  <2>1. Moved(t, r) /\ Left(t, r, w)
    BY <1>2, <1>7, <1>11 DEF Moved, Left
  <2>2. Done(v, r, w) /\ (v.pc = "idle" \/ v.shared = s.shared)
    BY <1>11, <2>1, AfterDone
  <2>3. v.pc = "idle" \/ v.shared = r.shared \/ (v.shared = r.shared \cup {w} /\ w \in dirty')
    BY <1>7, <2>2
  <2>4. Step(j, v)
    BY <1>0, <1>3, <1>8, <1>11, <2>2, <2>3, CallStep
  <2>5. ASSUME Owns(job[j], w) PROVE DoneTold(r, w)'
    <3>1. SUFFICES ASSUME w \notin dirty' PROVE DoneTold(r, w)'
      BY DEF DoneTold
    <3> QED BY <1>9, <1>11, <2>5, <3>1 DEF DoneTold
  <2> QED BY <1>0, <1>3, <1>8, <2>2, <2>4, <2>5, UserStep
<1>12. ASSUME s.op = "member", Set(j, After([s EXCEPT !.refs[s.who] = s.vid])) PROVE AgreeInv'
  <2>1. PICK t : t = [s EXCEPT !.refs[w] = r.vid]
    OBVIOUS
  <2>2. t \in Job /\ Moved(t, s) /\ t.todo = s.todo /\ t.shared = s.shared
    BY <1>3, <1>5, <1>7, <2>1, RefFields
  <2>3. Set(j, After(t)) /\ r.op = "member"
    BY <1>7, <1>12, <2>1
  <2> QED BY <1>11, <2>2, <2>3
<1>13. ASSUME s.op = "upsert", Set(j, After(s)) PROVE AgreeInv'
  <2>1. Moved(s, s) /\ r.op = "upsert"
    BY <1>7, <1>13 DEF Moved
  <2> QED BY <1>7, <1>11, <1>13, <2>1
<1>14. "setoff" \in Pcs /\ "remove" \in Pcs
  BY DEF Pcs
<1>15. s.op = "deactivate" /\ Set(j, [s EXCEPT !.pc = "setoff"]) => AgreeInv'
  BY <1>7, <1>10, <1>14
<1>16. s.op = "delete" /\ Set(j, [s EXCEPT !.pc = "remove"]) => AgreeInv'
  BY <1>7, <1>10, <1>14
<1> QED BY <1>6, <1>12, <1>13, <1>15, <1>16

\* A call for a user that failed.
LEMMA CallFailsUser ==
  ASSUME ProvInv, ProvInv', AgreeInv, NEW j \in Jobs, CallFails(j), job[j].who # None
  PROVE  AgreeInv'
<1>0. PICK r, w : r = job[j] /\ w = r.who
  OBVIOUS
<1>1. ProvTyped /\ r \in Job /\ Fit(r) /\ Place(r) /\ Shape(r) /\ Lost(r)
  BY <1>0, AgreeParts
<1>2. r.pc \in UserCalls
  BY <1>0, <1>1 DEF Shape, CallShape
<1>3. AtUsers(r) /\ Takes(r, w) /\ w \in Users /\ w \in Touches(r) /\ UserAt(w)
  BY <1>0, <1>2, AtCall
<1>4. dirty \subseteq dirty' /\ w \in dirty' /\ UNCHANGED tables /\ (Apply(r) \/ UNCHANGED target)
  BY <1>0 DEF CallFails, Dirty
<1>5. UserFrame(j, w) /\ UserAt(w)'
  <2>1. CASE Apply(r)
    BY <1>0, <1>2, <1>4, <2>1, ApplyFrame
  <2>2. CASE UNCHANGED target
    <3>1. UNCHANGED <<tables, target>>
      BY <1>4, <2>2
    <3> QED BY <1>3, <1>4, <3>1, SilentCall
  <2> QED BY <1>4, <2>1, <2>2
<1>6. PICK v : v = After(r) /\ Set(j, v)
  BY <1>0 DEF CallFails
<1>7. Moved(r, r) /\ Left(r, r, w)
  BY <1>2 DEF Moved, Left, UserCalls
<1>8. Done(v, r, w) /\ (v.pc = "idle" \/ v.shared = r.shared)
  BY <1>1, <1>6, <1>7, AfterDone
<1>9. Step(j, v)
  BY <1>0, <1>3, <1>4, <1>6, <1>8, CallStep
<1>10. DoneTold(r, w)'
  BY <1>4 DEF DoneTold
<1> QED BY <1>0, <1>3, <1>5, <1>8, <1>9, <1>10, UserStep

-----------------------------------------------------------------------------
(* The SCIM client, for a group.                                           *)

\* What a call for group g does at the target: nothing but for g.
LEMMA ApplyGroup ==
  ASSUME ProvTyped, NEW r \in Job, r.pc \in {"putg", "postg", "deleteg"},
         NEW g \in Groups, g = r.group, Apply(r)
  PROVE  /\ vault' = vault /\ \A h \in Groups \ {g} : vgroup'[h] = vgroup[h]
         /\ vgroup' = Applied(r)[2]
         /\ \/ r.pc = "putg" /\ ~vgroup[g].on /\ vgroup' = vgroup
            \/ /\ r.pc \in GroupCalls /\ ~(r.pc = "putg" /\ ~vgroup[g].on) /\ vgroup'[g].on = TRUE
               /\ vgroup'[g].members \subseteq {u \in Users : vault[u].on}
            \/ r.pc = "deleteg" /\ vgroup'[g].on = FALSE /\ vgroup'[g].members = {}
<1>1. vgroup \in [Groups -> TargetGroup]
  BY TypedParts
<1>2. PICK x : x = Applied(r)
  OBVIOUS
<1>3. vault' = x[1] /\ vgroup' = x[2]
  BY <1>2 DEF Apply
<1>4. PICK S : S = {u \in Users : r.refs[u] # 0 /\ vault[u].on /\ vault[u].n = r.refs[u]}
  OBVIOUS
<1>5. \/ r.pc = "putg" /\ ~vgroup[g].on /\ x = <<vault, vgroup>>
      \/ /\ r.pc \in GroupCalls /\ ~(r.pc = "putg" /\ ~vgroup[g].on)
         /\ x = <<vault, [vgroup EXCEPT ![g] = [on |-> TRUE, members |-> S]]>>
      \/ r.pc = "deleteg" /\ x = <<vault, [vgroup EXCEPT ![g] = [on |-> FALSE, members |-> {}]]>>
  BY <1>2, <1>4 DEF Applied, GroupCalls
<1>6. CASE r.pc = "putg" /\ ~vgroup[g].on /\ x = <<vault, vgroup>>
  BY <1>2, <1>3, <1>6
<1>7. CASE /\ r.pc \in GroupCalls /\ ~(r.pc = "putg" /\ ~vgroup[g].on)
           /\ x = <<vault, [vgroup EXCEPT ![g] = [on |-> TRUE, members |-> S]]>>
  <2>1. vault' = vault /\ vgroup' = [vgroup EXCEPT ![g] = [on |-> TRUE, members |-> S]]
    BY <1>3, <1>7
  <2>2. vgroup'[g].on = TRUE /\ vgroup'[g].members = S /\ \A h \in Groups \ {g} : vgroup'[h] = vgroup[h]
    BY <1>1, <2>1
  <2> QED BY <1>2, <1>3, <1>4, <1>7, <2>1, <2>2
<1>8. CASE r.pc = "deleteg" /\ x = <<vault, [vgroup EXCEPT ![g] = [on |-> FALSE, members |-> {}]]>>
  <2>1. vault' = vault /\ vgroup' = [vgroup EXCEPT ![g] = [on |-> FALSE, members |-> {}]]
    BY <1>3, <1>8
  <2>2. vgroup'[g].on = FALSE /\ vgroup'[g].members = {} /\ \A h \in Groups \ {g} : vgroup'[h] = vgroup[h]
    BY <1>1, <2>1
  <2> QED BY <1>2, <1>3, <1>8, <2>1, <2>2
<1> QED BY <1>5, <1>6, <1>7, <1>8

\* Where a job is after a group: at the next group of a form, or past its last;
\* at the next group of a sync; or at its end.
LEMMA AfterGroupFields ==
  ASSUME NEW r \in Job, NEW v, v = AfterGroup(r)
  PROVE  \/ r.kind \in {"new", "edit"} /\ Onward(v, r) /\ Still(v, r)
         \/ r.kind = "sync" /\ \E h \in r.groups : v = PushGroup(r, h, r.glist[h])
         \/ r.kind \notin {"new", "edit"} /\ v = NoJob
<1>1. CASE r.kind \in {"new", "edit"}
  <2>1. v = Regrouped(r)
    BY <1>1 DEF AfterGroup
  <2>2. Still(v, r) /\ v.pc = IF r.groups # {} THEN "gwrite" ELSE IF r.kind = "new" THEN "audit" ELSE "reread"
    BY <2>1, RegroupedFields
  <2> QED BY <1>1, <2>2 DEF Still, Kept, Onward
<1>2. CASE r.kind = "sync" /\ r.groups # {}
  BY <1>2 DEF AfterGroup
<1>3. CASE r.kind \notin {"new", "edit"} /\ ~(r.kind = "sync" /\ r.groups # {})
  BY <1>3 DEF AfterGroup
<1> QED BY <1>1, <1>2, <1>3

\* The job leaves its group behind: what it knows of users and of groups, its
\* next label knows; and nothing but its group was due.
LEMMA GroupBehind ==
  ASSUME NEW r \in Job, Place(r), Shape(r), r.pc \in {"putg", "postg", "deleteg"}, NEW v, v = AfterGroup(r)
  PROVE  /\ Shape(v) /\ Lost(v)
         /\ v.pc = "idle" \/ (Heir(v, r) /\ v.shared = r.shared)
         /\ \A u \in Users : IF v.pc = "idle" THEN Clean(r, u) => Agrees(u)
                             ELSE Read(r, u) => Read(v, u) /\ (Clean(r, u) => Clean(v, u))
         /\ \A h \in Groups : /\ h # r.group /\ CleanG(r, h) => AgreesG(h)
                              /\ v.pc # "idle" /\ ReadG(r, h) => ReadG(v, h)
         /\ v.pc # "idle" => v.kind \notin OfGroup
<1>0. /\ r.pc \notin {"idle"} \cup UserCalls /\ NoJob.pc = "idle" /\ Shape(NoJob) /\ Lost(NoJob)
      /\ r.kind \in {"new", "edit", "gnew", "gedit", "sync", "gdelete"}
  BY IdleShape DEF UserCalls, Place, GroupCalls, ToGroups
<1>1. \A u \in Users : r.who # u
  BY <1>0, NobodyInHand
<1>2. ASSUME r.kind \notin {"new", "edit"}, NEW u \in Users PROVE r.user # u
  BY <1>0, <1>2, ProvAssumption DEF Shape, OwnShape, OfUser
<1>3. ASSUME NEW h \in Groups, h # r.group, CleanG(r, h) PROVE AgreesG(h)
  BY <1>3 DEF CleanG, DueG, Sends, Rereads
<1>4. CASE r.kind \in {"new", "edit"} /\ Onward(v, r) /\ Still(v, r)
  <2>1. v.pc \in {"gwrite", "audit", "reread"}
    BY <1>4 DEF Onward
  <2>2. Heir(v, r) /\ v.shared = r.shared /\ v.kind \notin OfGroup
    BY <1>4 DEF Onward, Heir, OfGroup
  <2>3. Shape(v) /\ Lost(v)
    BY <1>0, <1>4, OnwardShape
  <2>4. r.pc \in GroupCalls
    BY <1>4 DEF Place, GroupCalls
  <2>5. ASSUME NEW u \in Users PROVE Read(r, u) => Read(v, u) /\ (Clean(r, u) => Clean(v, u))
    <3>1. v.user = r.user /\ v.who = r.who /\ v.list = r.list
      BY <1>4 DEF Still, Kept
    <3>2. CASE r.user # u
      BY <1>1, <3>1, <3>2, Bystander
    <3>3. CASE r.user = u
      <4>1. Read(r, u) => ~(r.kind = "new" /\ r.form.groups = {})
        BY <2>4, <3>3 DEF Read, OwnRead, Alone
      <4> QED BY <1>1, <1>4, <2>4, <3>1, <3>3, <4>1, OnwardOwn
    <3> QED BY <3>2, <3>3
  <2>6. Ungrouped(v)
    BY <2>1, <2>2 DEF Ungrouped, ForMember, AtUsers, UserCalls, GroupCalls
  <2>7. \A h \in Groups : ReadG(r, h) => ReadG(v, h)
    BY <1>4, <2>6, UngroupedRead DEF Still, Kept
  <2> QED BY <1>3, <2>1, <2>2, <2>3, <2>5, <2>7
<1>5. CASE r.kind = "sync" /\ \E h \in r.groups : v = PushGroup(r, h, r.glist[h])
  <2>1. PICK h \in r.groups : v = PushGroup(r, h, r.glist[h])
    BY <1>5
  <2>2. h \in Groups /\ r.kind \in ToGroups
    BY <1>5 DEF Job, ToGroups
  <2>3. Shape(v) /\ Lost(v) /\ v.pc \notin {"idle"} \cup UserCalls
    BY <2>1, <2>2, PushGroupShape
  <2>4. Kept(v, r) /\ v.who = None
    BY <2>1, PushGroupFields
  <2>5. Heir(v, r) /\ v.shared = r.shared /\ v.kind \notin OfGroup
    BY <1>5, <2>4 DEF Kept, Heir, OfGroup
  <2>6. ASSUME NEW u \in Users PROVE Read(r, u) => Read(v, u) /\ (Clean(r, u) => Clean(v, u))
    <3>1. r.user # u /\ r.who # u /\ v.who # u /\ v.user # u /\ v.list = r.list
      BY <1>1, <1>2, <1>5, <2>4, ProvAssumption DEF Kept
    <3> QED BY <3>1, Bystander
  <2>7. ASSUME NEW x \in Groups, ReadG(r, x) PROVE ReadG(v, x)
    <3>1. x = h => group[h].st = "in" /\ Close(r.glist[h], group[h].members)
      BY <1>5, <2>1, <2>7 DEF ReadG
    <3> QED BY <2>1, <2>2, <2>7, <3>1, PushGroupRead
  <2> QED BY <1>3, <2>3, <2>5, <2>6, <2>7
<1>6. CASE r.kind \notin {"new", "edit"} /\ v = NoJob
  <2>1. \A u \in Users : Clean(r, u) => Agrees(u)
    BY <1>1, <1>2, <1>6 DEF Clean, Due
  <2> QED BY <1>0, <1>3, <1>6, <2>1
<1> QED BY <1>4, <1>5, <1>6, AfterGroupFields

\* A call for group g is over: at the target it changed nothing but g.
LEMMA GroupCallOver ==
  ASSUME ProvInv, ProvInv', AgreeInv, NEW j \in Jobs, NEW r, r = job[j], r.pc \in {"putg", "postg", "deleteg"},
         NEW g, g = r.group, NEW v, v = AfterGroup(r), Set(j, v),
         UNCHANGED tables, vault' = vault, \A h \in Groups \ {g} : vgroup'[h] = vgroup[h], GroupAt(g)',
         \A x \in dirty \ dirty' : x = g /\ g \notin r.shared,
         Owns(job[j], g) => g \in dirty' \/ AgreesG(g)'
  PROVE  AgreeInv'
<1>0. /\ ProvTyped /\ r \in Job /\ Fit(r) /\ Place(r) /\ Shape(r) /\ Lost(r)
      /\ (\A u \in Users : UserAt(u)) /\ (\A h \in Groups : GroupAt(h))
  BY AgreeParts
<1>1. g \in Groups /\ g \in Touches(r) /\ r.pc # "idle"
  BY <1>0 DEF Place, Fit, GroupCalls, ToGroups, OfGroup, Touches, Items
<1>2. row' = row /\ group' = group /\ ext' = ext /\ In' = In /\ Gone' = Gone
  BY DEF tables, In, Gone
<1>3. /\ Shape(v) /\ Lost(v)
      /\ v.pc = "idle" \/ (Heir(v, r) /\ v.shared = r.shared)
  BY <1>0, GroupBehind
<1>4. Step(j, v)
  <2>1. v.pc = "idle" \/ Touches(v) = Touches(r)
    BY <1>3, HeirTouches
  <2>2. \A x \in dirty \ dirty' : Owns(job[j], x)
    BY <1>1 DEF Owns
  <2> QED BY <1>1, <1>3, <2>1, <2>2 DEF Step
<1>5. \A u \in Users : SameRow(u) /\ vault'[u] = vault[u] /\ (u \in dirty => u \in dirty')
  BY <1>1, <1>2, ProvAssumption DEF SameRow
<1>6. Local(j) /\ Forward
  BY <1>1, <1>2, <1>5 DEF Local, Forward, SameGroup
<1>7. Lost(v)'
  BY <1>2, <1>3 DEF Lost
<1>8. \A u \in Users : UserAt(u)'
  BY <1>0, <1>2, <1>5 DEF UserAt
<1>9. ASSUME NEW h \in Groups PROVE GroupAt(h)'
  <2>1. CASE h = g
    BY <2>1
  <2>2. CASE h # g
    BY <1>0, <1>2, <2>2 DEF GroupAt
  <2> QED BY <2>1, <2>2
<1>10. Twin(v, v)
  BY DEF Twin, Alike
<1>11. ASSUME NEW u \in Users, Owns(job[j], u)
       PROVE  IF v.pc = "idle" THEN u \in dirty' \/ Agrees(u)' ELSE u \in v.shared \/ UserOK(v, u)'
  <2>1. Read(r, u) /\ (u \in dirty \/ Clean(r, u))
    BY <1>11, OwnedUser
  <2>2. IF v.pc = "idle" THEN Clean(r, u) => Agrees(u)
        ELSE Read(r, u) => Read(v, u) /\ (Clean(r, u) => Clean(v, u))
    BY <1>0, GroupBehind
  <2>3. Agrees(u) => Agrees(u)'
    BY <1>5, SameTold
  <2>4. Read(v, u) => Read(v, u)'
    BY <1>5, <1>10, TwinRead
  <2>5. Clean(v, u) => Clean(v, u)'
    BY <1>5, <1>10, TwinClean
  <2> QED BY <1>5, <2>1, <2>2, <2>3, <2>4, <2>5 DEF UserOK
<1>12. ASSUME NEW h \in Groups, Owns(job[j], h)
       PROVE  IF v.pc = "idle" THEN h \in dirty' \/ AgreesG(h)' ELSE h \in v.shared \/ GroupOK(v, h)'
  <2>1. ReadG(r, h) /\ (h \in dirty \/ CleanG(r, h))
    BY <1>12, OwnedGroup
  <2>2. h \in dirty' \/ AgreesG(h)'
    <3>1. CASE h = g
      BY <1>12, <3>1
    <3>2. CASE h # g
      <4>1. CleanG(r, h) => AgreesG(h)
        BY <1>0, <3>2, GroupBehind
      <4>2. AgreesG(h) => AgreesG(h)'
        BY <1>2, <3>2 DEF AgreesG, Close
      <4> QED BY <2>1, <3>2, <4>1, <4>2
    <3> QED BY <3>1, <3>2
  <2>3. ASSUME v.pc # "idle" PROVE GroupOK(v, h)'
    <3>1. ReadG(v, h) /\ v.kind \notin OfGroup
      BY <1>0, <2>1, <2>3, GroupBehind
    <3>2. ReadG(v, h)'
      BY <1>2, <3>1 DEF ReadG, OwnReadG, Close
    <3>3. AgreesG(h)' => CleanG(v, h)'
      BY <3>1 DEF CleanG, OfGroup
    <3> QED BY <2>2, <3>2, <3>3 DEF GroupOK
  <2> QED BY <2>2, <2>3
<1> QED BY <1>4, <1>6, <1>3, <1>7, <1>8, <1>9, <1>11, <1>12, StepAgree

\* The target does not know the group: it is created.
LEMMA PutMissed ==
  ASSUME ProvInv, ProvInv', AgreeInv, NEW j \in Jobs, job[j].pc = "putg", Go(j, "postg"),
         UNCHANGED <<tables, target>>, dirty' = dirty
  PROVE  AgreeInv'
<1>0. PICK r : r = job[j]
  OBVIOUS
<1>1. ProvTyped /\ r \in Job /\ Fit(r) /\ Place(r) /\ Shape(r) /\ Lost(r)
  BY <1>0, AgreeParts
<1>2. r.pc = "putg" /\ r.pc \notin {"idle"} \cup UserCalls
  BY <1>0 DEF UserCalls
<1>3. PICK v : Step(j, v) /\ v.pc = "postg" /\ Still(v, r)
  BY <1>0, <1>2, GoStep
<1>4. /\ v.kind = r.kind /\ v.user = r.user /\ v.form = r.form /\ v.list = r.list /\ v.glist = r.glist
      /\ v.group = r.group /\ v.groups = r.groups /\ v.want = r.want /\ v.todo = r.todo
      /\ v.op = r.op /\ v.who = r.who /\ v.act = r.act /\ v.vid = r.vid
  BY <1>3 DEF Still, Kept
<1>5. /\ ~AtUsers(v) /\ ~AtUsers(r) /\ v.pc \in GroupCalls /\ r.pc \in GroupCalls
      /\ Written(v) /\ Written(r) /\ Unsettled(v) /\ Unsettled(r)
  BY <1>2, <1>3 DEF AtUsers, UserCalls, GroupCalls, Written, Unsettled
<1>6. Shape(v) /\ Lost(v)
  <2>1. CallShape(v)
    BY <1>1, <1>2, <1>3, <1>4 DEF Shape, CallShape, UserCalls
  <2>2. PushShape(v) /\ ListShape(v) /\ OwnShape(v) /\ Lost(v)
    BY <1>1, <1>2, <1>3, <1>4, <1>5 DEF Shape, PushShape, ListShape, OwnShape, Lost, ForUser
  <2> QED BY <2>1, <2>2 DEF Shape
<1>7. ASSUME NEW u \in Users, r.user = u, Read(r, u)
      PROVE  Read(v, u) /\ (Clean(r, u) => Clean(v, u))
  <2>0. r.who # u
    BY <1>1, <1>2, NobodyInHand
  <2>1. OwnRead(r, u) => OwnRead(v, u)
    BY <1>2, <1>3, <1>4, <1>5 DEF OwnRead, Alone, ForUser, ForMember
  <2>2. Read(v, u)
    BY <1>4, <1>7, <2>0, <2>1 DEF Read
  <2>3. OwnClean(r, u) => OwnClean(v, u)
    BY <1>2, <1>3, <1>4, <1>5 DEF OwnClean, Untold
  <2>4. Due(r, u) => Due(v, u)
    BY <1>2, <1>3, <1>4, <1>5, <2>0 DEF Due, Unborn, Outdated, Doomed, ForUser
  <2> QED BY <1>4, <2>0, <2>2, <2>3, <2>4 DEF Clean
<1>8. ASSUME NEW g \in Groups
      PROVE  (ReadG(r, g) => ReadG(v, g)) /\ (CleanG(r, g) => CleanG(v, g))
  <2>1. (Sends(v, g) <=> Sends(r, g)) /\ ~Rereads(v, g) /\ ~Rereads(r, g) /\ ~Stored(v, g) /\ ~Stored(r, g)
    BY <1>2, <1>3, <1>4, <1>5 DEF Sends, ForMember, Rereads, Stored
  <2>2. ReadG(r, g) => ReadG(v, g)
    BY <1>2, <1>3, <1>4, <2>1 DEF ReadG, OwnReadG
  <2>3. CleanG(r, g) => CleanG(v, g)
    BY <1>2, <1>3, <1>4, <2>1 DEF CleanG, DueG
  <2> QED BY <2>2, <2>3
<1>9. Calm
  BY CalmWhen
<1>10. v.pc \notin UserCalls /\ v.pc # "idle"
  BY <1>3 DEF UserCalls
<1> QED BY <1>0, <1>2, <1>3, <1>4, <1>6, <1>7, <1>8, <1>9, <1>10, PlainAgree

\* PUT, POST and DELETE of a group at the target.
LEMMA CallGroupAgrees ==
  ASSUME ProvInv, ProvInv', AgreeInv, NEW j \in Jobs, CallGroup(j)
  PROVE  AgreeInv'
<1>0. PICK r, g : r = job[j] /\ g = r.group
  OBVIOUS
<1>1. /\ ProvTyped /\ r \in Job /\ Fit(r) /\ Place(r) /\ \A h \in Groups : GroupAt(h)
  BY <1>0, AgreeParts
<1>2. r.pc \in {"putg", "postg", "deleteg"} /\ Apply(r) /\ UNCHANGED tables
  BY <1>0 DEF CallGroup
<1>3. g \in Groups /\ (r.pc = "deleteg" => r.kind = "gdelete")
  BY <1>0, <1>1, <1>2 DEF Place, Fit, GroupCalls, ToGroups, OfGroup
<1>4. /\ vault' = vault /\ (\A h \in Groups \ {g} : vgroup'[h] = vgroup[h])
      /\ vgroup' = Applied(r)[2]
      /\ \/ r.pc = "putg" /\ ~vgroup[g].on /\ vgroup' = vgroup
         \/ /\ r.pc \in GroupCalls /\ ~(r.pc = "putg" /\ ~vgroup[g].on) /\ vgroup'[g].on = TRUE
            /\ vgroup'[g].members \subseteq {u \in Users : vault[u].on}
         \/ r.pc = "deleteg" /\ vgroup'[g].on = FALSE /\ vgroup'[g].members = {}
  BY <1>0, <1>1, <1>2, <1>3, ApplyGroup
<1>5. GroupAt(g)'
  <2>1. In' = In /\ group' = group
    BY <1>2 DEF tables, In
  <2> QED BY <1>1, <1>3, <1>4, <2>1 DEF GroupAt
<1>6. CASE r.pc = "putg" /\ ~vgroup[g].on
  <2>1. Go(j, "postg") /\ dirty' = dirty
    BY <1>0, <1>6 DEF CallGroup
  <2>2. UNCHANGED <<tables, target>>
    BY <1>2, <1>4, <1>6 DEF target, GroupCalls
  <2> QED BY <1>0, <1>6, <2>1, <2>2, PutMissed
<1>7. CASE ~(r.pc = "putg" /\ ~vgroup[g].on)
  <2>1. /\ Set(j, AfterGroup(r))
        /\ IF vgroup'[g].members = r.want THEN dirty' = IF g \in r.shared THEN dirty ELSE dirty \ {g}
           ELSE dirty' = dirty \cup {g}
    BY <1>0, <1>4, <1>7 DEF CallGroup, Pushed, Dirty
  <2>2. \A x \in dirty \ dirty' : x = g /\ g \notin r.shared
    BY <2>1
  <2>3. ASSUME Owns(job[j], g), g \notin dirty' PROVE AgreesG(g)'
    <3>1. vgroup'[g].members = r.want
      BY <2>1, <2>3
    <3>2. ReadG(r, g)
      BY <1>0, <1>3, <2>3, OwnedGroup
    <3>3. group' = group /\ Gone' = Gone
      BY <1>2 DEF tables, Gone
    <3>4. CASE r.pc \in GroupCalls
      <4>1. group[g].st = "in" /\ Close(r.want, group[g].members)
        BY <1>0, <3>2, <3>4 DEF ReadG, Sends
      <4>2. vgroup'[g].on = TRUE
        BY <1>4, <1>7, <3>4 DEF GroupCalls
      <4> QED BY <3>1, <3>3, <4>1, <4>2 DEF AgreesG, Close
    <3>5. CASE r.pc = "deleteg"
      <4>1. group[g].st = "gone" /\ group[g].members = {}
        BY <1>0, <1>1, <1>3, <3>2, <3>5 DEF ReadG, OwnReadG, GroupAt
      <4>2. vgroup'[g].on = FALSE /\ vgroup'[g].members = {}
        BY <1>4, <3>5 DEF GroupCalls
      <4> QED BY <3>3, <4>1, <4>2 DEF AgreesG, Close
    <3> QED BY <1>2, <3>4, <3>5 DEF GroupCalls
  <2> QED BY <1>0, <1>2, <1>4, <1>5, <2>1, <2>2, <2>3, GroupCallOver
<1> QED BY <1>6, <1>7

\* A call of the target fails: what it was for is dirty.
LEMMA CallFailsAgrees ==
  ASSUME ProvInv, ProvInv', AgreeInv, NEW j \in Jobs, CallFails(j)
  PROVE  AgreeInv'
<1>0. PICK r, g : r = job[j] /\ g = r.group
  OBVIOUS
<1>1. CASE r.who # None
  BY <1>0, <1>1, CallFailsUser
<1>2. CASE r.who = None
  <2>1. ProvTyped /\ r \in Job /\ Fit(r) /\ Place(r) /\ \A h \in Groups : GroupAt(h)
    BY <1>0, AgreeParts
  <2>2. r.pc \in {"putg", "postg", "deleteg"}
    BY <1>0, <1>2, <2>1, ProvAssumption DEF CallFails, Place, UserCalls
  <2>3. g \in Groups
    BY <1>0, <2>1, <2>2 DEF Place, Fit, GroupCalls, ToGroups, OfGroup
  <2>4. /\ UNCHANGED tables /\ (Apply(r) \/ UNCHANGED target) /\ Set(j, AfterGroup(r))
        /\ dirty \subseteq dirty' /\ g \in dirty'
    BY <1>0, <1>2, <2>3, ProvAssumption DEF CallFails, Dirty
  <2>5. In' = In /\ group' = group
    BY <2>4 DEF tables, In
  <2>6. vault' = vault /\ (\A h \in Groups \ {g} : vgroup'[h] = vgroup[h]) /\ GroupAt(g)'
    <3>1. CASE UNCHANGED target
      BY <2>1, <2>3, <2>5, <3>1 DEF target, GroupAt
    <3>2. CASE Apply(r)
      <4>1. /\ vault' = vault /\ (\A h \in Groups \ {g} : vgroup'[h] = vgroup[h])
            /\ \/ vgroup' = vgroup
               \/ vgroup'[g].on = TRUE /\ vgroup'[g].members \subseteq {u \in Users : vault[u].on}
               \/ vgroup'[g].on = FALSE /\ vgroup'[g].members = {}
        BY <1>0, <2>1, <2>2, <2>3, <3>2, ApplyGroup
      <4> QED BY <2>1, <2>3, <2>5, <4>1 DEF GroupAt
    <3> QED BY <2>4, <3>1, <3>2
  <2> QED BY <1>0, <2>2, <2>4, <2>6, GroupCallOver
<1> QED BY <1>1, <1>2

-----------------------------------------------------------------------------
(* Crashes, and what the target does by itself.                            *)

\* The process dies under a job: what the job touched is dirty from now on.
LEMMA CrashAgrees ==
  ASSUME ProvInv, ProvInv', AgreeInv, NEW j \in Jobs, Crash(j)
  PROVE  AgreeInv'
<1>0. PICK r : r = job[j]
  OBVIOUS
<1>1. r.pc # "idle" /\ End(j) /\ dirty' = dirty \cup Touches(r) /\ UNCHANGED <<tables, target>>
  BY <1>0 DEF Crash, Dirty
<1>2. Calm
  BY <1>1, CalmWhen
<1>3. \A x : Owns(job[j], x) => x \in dirty'
  BY <1>0, <1>1 DEF Owns
<1> QED BY <1>0, <1>1, <1>2, <1>3, EndAgree

\* A record comes or goes that no job has asked for.
LEMMA TargetAgree ==
  ASSUME ProvInv, AgreeInv, NEW u \in Users, UNCHANGED <<tables, job>>, dirty \subseteq dirty', u \in dirty',
         \A x \in Users \ {u} : vault'[x] = vault[x],
         \A g \in Groups : g \in dirty' \/ vgroup'[g] = vgroup[g],
         UserAt(u)', \A g \in Groups : GroupAt(g)'
  PROVE  AgreeInv'
<1>1. row' = row /\ group' = group /\ ext' = ext /\ In' = In /\ Gone' = Gone /\ job' = job
  BY DEF tables, In, Gone
<1>2. Works' = Works /\ Busy' = Busy
  BY <1>1 DEF Works, Busy
<1>3. Sharing'
  <2>1. Sharing
    BY DEF AgreeInv
  <2>2. \A i \in Busy : job[i].shared \subseteq Touches(job[i]) \cap dirty'
    BY <2>1 DEF Sharing
  <2>3. \A i, k \in Busy : i # k => Touches(job[i]) \cap Touches(job[k]) \subseteq job[i].shared
    BY <2>1 DEF Sharing
  <2> QED BY <1>1, <1>2, <2>2, <2>3 DEF Sharing
<1>4. \A v \in Works' : Shape(v) /\ Lost(v)'
  BY <1>1, <1>2 DEF AgreeInv, Lost
<1>5. \A x \in Users : SameRow(x) /\ SameRecord(x)
  BY <1>1 DEF SameRow, SameRecord
<1>6. \A g \in Groups : SameGroup(g) /\ SameTarget(g)
  BY <1>1 DEF SameGroup, SameTarget
<1>7. ASSUME NEW x \in Users PROVE UserAt(x)'
  <2>1. CASE x = u
    BY <2>1
  <2>2. CASE x # u
    <3>1. UserAt(x)
      BY DEF AgreeInv
    <3> QED BY <1>1, <2>2, <3>1 DEF UserAt
  <2> QED BY <2>1, <2>2
<1>8. \A v : Twin(v, v)
  BY DEF Twin, Alike
<1>9. UsersOK'
  <2>1. ASSUME NEW v \in Works, NEW x \in Users, Owns(v, x) PROVE UserOK(v, x)'
    <3>1. UserOK(v, x)
      BY <2>1 DEF AgreeInv, UsersOK
    <3> QED BY <1>5, <1>8, <3>1, TwinUser
  <2>2. ASSUME NEW x \in Users, x \notin dirty' PROVE Agrees(x)' \/ \E v \in Works : Owns(v, x)
    <3>1. Agrees(x) \/ \E v \in Works : Owns(v, x)
      BY <2>2 DEF AgreeInv, UsersOK
    <3>2. vault'[x] = vault[x]
      BY <2>2
    <3> QED BY <1>5, <3>1, <3>2, SameTold
  <2> QED BY <1>2, <2>1, <2>2 DEF UsersOK
<1>10. GroupsOK'
  <2>1. ASSUME NEW v \in Works, NEW g \in Groups, Owns(v, g) PROVE GroupOK(v, g)'
    <3>1. GroupOK(v, g)
      BY <2>1 DEF AgreeInv, GroupsOK
    <3> QED BY <1>1, <1>6, <1>8, <3>1, TwinGroup
  <2>2. ASSUME NEW g \in Groups, g \notin dirty' PROVE AgreesG(g)' \/ \E v \in Works : Owns(v, g)
    <3>1. AgreesG(g) \/ \E v \in Works : Owns(v, g)
      BY <2>2 DEF AgreeInv, GroupsOK
    <3>2. vgroup'[g] = vgroup[g]
      BY <2>2
    <3> QED BY <1>1, <1>6, <3>1, <3>2, SameAgreesG
  <2> QED BY <1>2, <2>1, <2>2 DEF GroupsOK
<1> QED BY <1>3, <1>4, <1>7, <1>9, <1>10 DEF AgreeInv

\* The target makes a record of its own at a user's first sign-in, or loses one.
LEMMA TargetAgrees ==
  ASSUME ProvInv, AgreeInv, NEW u \in Users, TargetCreates(u) \/ TargetLoses(u)
  PROVE  AgreeInv'
<1>0. /\ vault \in [Users -> Record] /\ vgroup \in [Groups -> TargetGroup] /\ vault[u] \in Record
      /\ UserAt(u) /\ \A g \in Groups : GroupAt(g)
  BY TypedParts DEF ProvInv, AgreeInv
<1>1. UNCHANGED <<tables, job>> /\ dirty \subseteq dirty' /\ u \in dirty'
  BY DEF TargetCreates, TargetLoses, Dirty
<1>2. row' = row /\ group' = group /\ ext' = ext /\ In' = In
  BY <1>1 DEF tables, In
<1>3. CASE TargetCreates(u)
  <2>1. /\ vault' = [vault EXCEPT ![u] = [n |-> vault[u].n + 1, on |-> TRUE, linked |-> FALSE, active |-> TRUE]]
        /\ vgroup' = vgroup
    BY <1>3 DEF TargetCreates
  <2>2. vault'[u].on /\ vault'[u].n # 0 /\ \A x \in Users \ {u} : vault'[x] = vault[x]
    <3>1. vault[u].n \in Nat
      BY <1>0 DEF Record
    <3> QED BY <1>0, <2>1, <3>1
  <2>3. UserAt(u)'
    BY <1>0, <1>1, <1>2, <2>2 DEF UserAt
  <2>4. \A g \in Groups : GroupAt(g)'
    <3>1. \A g \in Groups : vgroup[g].members \subseteq Users
      BY <1>0 DEF TargetGroup
    <3> QED BY <1>0, <1>2, <2>1, <2>2, <3>1 DEF GroupAt
  <2> QED BY <1>1, <2>1, <2>2, <2>3, <2>4, TargetAgree
<1>4. CASE TargetLoses(u)
  <2>1. /\ vault' = [vault EXCEPT ![u].on = FALSE]
        /\ vgroup' = [g \in Groups |-> [vgroup[g] EXCEPT !.members = @ \ {u}]]
        /\ dirty' = dirty \cup ({u} \cup {g \in Groups : u \in vgroup[g].members})
    BY <1>4 DEF TargetLoses, Dirty
  <2>2. ~vault'[u].on /\ \A x \in Users \ {u} : vault'[x] = vault[x]
    BY <1>0, <2>1 DEF Record
  <2>3. \A g \in Groups : vgroup'[g].on = vgroup[g].on /\ vgroup'[g].members = vgroup[g].members \ {u}
    BY <1>0, <2>1 DEF TargetGroup
  <2>4. ASSUME NEW g \in Groups PROVE g \in dirty' \/ vgroup'[g] = vgroup[g]
    <3>1. CASE u \in vgroup[g].members
      BY <2>1, <3>1
    <3>2. CASE u \notin vgroup[g].members
      <4>1. PICK t : t = vgroup[g]
        OBVIOUS
      <4>2. t \in TargetGroup /\ u \notin t.members
        BY <1>0, <3>2, <4>1
      <4>3. t.members \ {u} = t.members
        BY <4>2
      <4>4. [t EXCEPT !.members = @ \ {u}] = t
        BY <4>2, <4>3 DEF TargetGroup
      <4> QED BY <2>1, <4>1, <4>4
    <3> QED BY <3>1, <3>2
  <2>5. UserAt(u)'
    BY <1>0, <1>2, <2>2 DEF UserAt
  <2>6. \A g \in Groups : GroupAt(g)'
    <3>1. \A g \in Groups : vgroup[g].members \subseteq Users
      BY <1>0 DEF TargetGroup
    <3> QED BY <1>0, <1>2, <2>2, <2>3, <3>1 DEF GroupAt
  <2> QED BY <1>1, <2>2, <2>4, <2>5, <2>6, TargetAgree
<1> QED BY <1>3, <1>4

-----------------------------------------------------------------------------
(* A job begins.                                                           *)

\* What it touches and others have in hand, they share from now on.
LEMMA StartShares ==
  ASSUME ProvTyped, NEW j \in Jobs, NEW r \in Job, NEW S, Start(j, r, S)
  PROVE  \E over :
           /\ Twin(r, job'[j]) /\ job'[j].shared = over /\ job[j].pc = "idle"
           /\ dirty' = dirty \cup (over \cup S)
           /\ \A i \in Jobs \ {j} : Twin(job[i], job'[i])
           /\ \A i \in Busy : job'[i].shared = job[i].shared \cup (Touches(r) \cap Touches(job[i]))
           /\ over \subseteq Touches(r)
           /\ \A i \in Busy : Touches(r) \cap Touches(job[i]) \subseteq over
           /\ \A x \in over : \E i \in Busy : x \in Touches(job[i])
<1> DEFINE both(i) == Touches(r) \cap Touches(job[i])
           over == UNION {both(i) : i \in Busy}
<1>0. job \in [Jobs -> Job]
  BY TypedParts
<1>1. /\ over \subseteq Touches(r)
      /\ \A i \in Busy : both(i) \subseteq over
      /\ \A x \in over : \E i \in Busy : x \in Touches(job[i])
  OBVIOUS
<1>2. /\ job[j].pc = "idle"
      /\ job' = [i \in Jobs |->
                   IF i = j THEN [r EXCEPT !.shared = over]
                   ELSE IF i \in Busy THEN [job[i] EXCEPT !.shared = @ \cup both(i)]
                   ELSE job[i]]
      /\ dirty' = dirty \cup (over \cup S)
  BY DEF Start, Dirty
<1> HIDE DEF both, over
<1>4. job'[j].shared = over /\ Twin(r, job'[j])
  <2>1. job'[j] = [r EXCEPT !.shared = over]
    BY <1>2
  <2> QED BY <2>1 DEF Job, Twin, Alike
<1>5. ASSUME NEW i \in Jobs, i # j
      PROVE  Twin(job[i], job'[i]) /\ (i \in Busy => job'[i].shared = job[i].shared \cup both(i))
  <2>1. CASE i \in Busy
    <3>1. job'[i] = [job[i] EXCEPT !.shared = @ \cup both(i)] /\ job[i] \in Job
      BY <1>0, <1>2, <1>5, <2>1
    <3> QED BY <3>1 DEF Job, Twin, Alike
  <2>2. CASE i \notin Busy
    <3>1. job'[i] = job[i]
      BY <1>2, <1>5, <2>2
    <3> QED BY <2>2, <3>1 DEF Twin, Alike
  <2> QED BY <2>1, <2>2
<1>6. \A i \in Busy : i \in Jobs /\ i # j
  BY <1>2 DEF Busy
<1>7. /\ Twin(r, job'[j]) /\ job'[j].shared = over /\ job[j].pc = "idle"
      /\ dirty' = dirty \cup (over \cup S)
      /\ \A i \in Jobs \ {j} : Twin(job[i], job'[i])
      /\ \A i \in Busy : job'[i].shared = job[i].shared \cup both(i)
      /\ over \subseteq Touches(r)
      /\ \A i \in Busy : both(i) \subseteq over
      /\ \A x \in over : \E i \in Busy : x \in Touches(job[i])
  BY <1>1, <1>2, <1>4, <1>5, <1>6
<1> QED BY <1>7 DEF both

\* Twins touch the same.
LEMMA TwinTouches ==
  ASSUME NEW v, NEW w, Twin(v, w)
  PROVE  Touches(v) = Touches(w) /\ (Shape(v) => Shape(w)) /\ v.pc = w.pc
<1>1. /\ v.pc = w.pc /\ v.kind = w.kind /\ v.user = w.user /\ v.group = w.group /\ v.form = w.form
      /\ v.op = w.op /\ v.who = w.who /\ v.list = w.list /\ v.todo = w.todo
  BY DEF Twin, Alike
<1>2. Touches(v) = Touches(w)
  BY <1>1 DEF Touches
<1>3. (AtUsers(v) <=> AtUsers(w)) /\ (ForUser(v) <=> ForUser(w))
  BY TwinLabels
<1>4. Shape(v) => Shape(w)
  BY <1>1, <1>3 DEF Shape, CallShape, PushShape, ListShape, OwnShape
<1> QED BY <1>1, <1>2, <1>4

\* The jobs after one has begun: what another goes on having for itself, the
\* new job does not touch; what the new job has for itself, nobody had.
LEMMA StartOwns ==
  ASSUME ProvTyped, Sharing, NEW j \in Jobs, NEW r \in Job, r.pc # "idle", NEW S, Start(j, r, S),
         NEW v, v = job'[j]
  PROVE  /\ Sharing' /\ Twin(r, v) /\ v \in Works' /\ dirty \subseteq dirty' /\ S \subseteq dirty'
         /\ \A w \in Works' :
              \/ w = v
              \/ \E s \in Works : Twin(s, w) /\ \A x : Owns(w, x) => Owns(s, x) /\ x \notin Touches(r)
         /\ \A s \in Works : \A x : Owns(s, x) /\ x \notin Touches(r) => \E w \in Works' : Owns(w, x)
         /\ \A x : Owns(v, x) => x \in Touches(r)
         /\ \A x \in Touches(r) \ dirty' : Owns(v, x) /\ x \notin dirty /\ \A s \in Works : ~Owns(s, x)
<1>1. PICK over :
           /\ Twin(r, v) /\ v.shared = over /\ job[j].pc = "idle"
           /\ dirty' = dirty \cup (over \cup S)
           /\ \A i \in Jobs \ {j} : Twin(job[i], job'[i])
           /\ \A i \in Busy : job'[i].shared = job[i].shared \cup (Touches(r) \cap Touches(job[i]))
           /\ over \subseteq Touches(r)
           /\ \A i \in Busy : Touches(r) \cap Touches(job[i]) \subseteq over
           /\ \A x \in over : \E i \in Busy : x \in Touches(job[i])
  BY StartShares
<1>2. Touches(v) = Touches(r) /\ v.pc # "idle"
  BY <1>1, TwinTouches
<1>3. \A i \in Jobs \ {j} : Touches(job'[i]) = Touches(job[i]) /\ job'[i].pc = job[i].pc
  BY <1>1, TwinTouches
<1>4. Busy' = Busy \cup {j} /\ j \notin Busy /\ Busy \subseteq Jobs
  BY <1>1, <1>2, <1>3 DEF Busy
<1>5. Sharing'
  <2>1. ASSUME NEW i \in Busy' PROVE job'[i].shared \subseteq Touches(job'[i]) \cap dirty'
    <3>1. CASE i = j
      BY <1>1, <1>2, <3>1
    <3>2. CASE i # j
      <4>1. i \in Busy /\ i \in Jobs \ {j}
        BY <1>4, <3>2
      <4>2. job[i].shared \subseteq Touches(job[i]) \cap dirty
        BY <4>1 DEF Sharing
      <4>3. /\ job'[i].shared = job[i].shared \cup (Touches(r) \cap Touches(job[i]))
            /\ Touches(job'[i]) = Touches(job[i]) /\ Touches(r) \cap Touches(job[i]) \subseteq dirty'
        BY <1>1, <1>3, <4>1
      <4> QED BY <1>1, <4>2, <4>3
    <3> QED BY <3>1, <3>2
  <2>2. ASSUME NEW i \in Busy', NEW k \in Busy', i # k
        PROVE  Touches(job'[i]) \cap Touches(job'[k]) \subseteq job'[i].shared
    <3>1. CASE i = j
      <4>1. k \in Busy /\ Touches(job'[k]) = Touches(job[k])
        BY <1>3, <1>4, <2>2, <3>1
      <4> QED BY <1>1, <1>2, <3>1, <4>1
    <3>2. CASE k = j
      <4>1. i \in Busy /\ Touches(job'[i]) = Touches(job[i])
        BY <1>3, <1>4, <2>2, <3>2
      <4> QED BY <1>1, <1>2, <3>2, <4>1
    <3>3. CASE i # j /\ k # j
      <4>1. i \in Busy /\ k \in Busy /\ Touches(job'[i]) = Touches(job[i]) /\ Touches(job'[k]) = Touches(job[k])
        BY <1>3, <1>4, <3>3
      <4>2. Touches(job[i]) \cap Touches(job[k]) \subseteq job[i].shared
        BY <2>2, <4>1 DEF Sharing
      <4> QED BY <1>1, <4>1, <4>2
    <3> QED BY <3>1, <3>2, <3>3
  <2> QED BY <2>1, <2>2 DEF Sharing
<1>6. Works' = {job'[i] : i \in Jobs}
  BY DEF Works
<1>7. ASSUME NEW w \in Works', w # v
      PROVE  \E s \in Works : Twin(s, w) /\ \A x : Owns(w, x) => Owns(s, x) /\ x \notin Touches(r)
  <2>1. PICK i \in Jobs \ {j} : w = job'[i]
    BY <1>6, <1>7
  <2>2. PICK s : s = job[i]
    OBVIOUS
  <2>3. s \in Works /\ Twin(s, w) /\ Touches(w) = Touches(s) /\ w.pc = s.pc
    BY <1>1, <1>3, <2>1, <2>2 DEF Works
  <2>4. s.pc # "idle" => w.shared = s.shared \cup (Touches(r) \cap Touches(s))
    BY <1>1, <2>1, <2>2 DEF Busy
  <2>5. \A x : Owns(w, x) => Owns(s, x) /\ x \notin Touches(r)
    BY <2>3, <2>4 DEF Owns
  <2> QED BY <2>3, <2>5
<1>8. ASSUME NEW s \in Works, NEW x, Owns(s, x), x \notin Touches(r)
      PROVE  \E w \in Works' : Owns(w, x)
  <2>1. PICK i \in Jobs : s = job[i]
    BY DEF Works
  <2>2. i \in Jobs \ {j} /\ i \in Busy
    BY <1>1, <1>8, <2>1 DEF Owns, Busy
  <2>3. PICK w : w = job'[i]
    OBVIOUS
  <2>4. /\ w \in Works' /\ Touches(w) = Touches(s) /\ w.pc = s.pc
        /\ w.shared = s.shared \cup (Touches(r) \cap Touches(s))
    BY <1>1, <1>3, <1>6, <2>1, <2>2, <2>3
  <2>5. Owns(w, x)
    BY <1>8, <2>4 DEF Owns
  <2> QED BY <2>4, <2>5
<1>9. \A x : Owns(v, x) => x \in Touches(r)
  BY <1>2 DEF Owns
<1>10. ASSUME NEW x \in Touches(r) \ dirty'
       PROVE  Owns(v, x) /\ x \notin dirty /\ \A s \in Works : ~Owns(s, x)
  <2>1. x \notin over /\ x \notin dirty
    BY <1>1, <1>10
  <2>2. Owns(v, x)
    BY <1>1, <1>2, <2>1 DEF Owns
  <2>3. ASSUME NEW s \in Works PROVE ~Owns(s, x)
    <3>1. PICK i \in Jobs : s = job[i]
      BY DEF Works
    <3>2. i \in Busy => x \notin Touches(job[i])
      BY <1>1, <1>10, <2>1
    <3> QED BY <3>1, <3>2 DEF Owns, Busy
  <2> QED BY <2>1, <2>2, <2>3
<1>11. v \in Works' /\ dirty \subseteq dirty' /\ S \subseteq dirty'
  BY <1>1, <1>6
<1> QED BY <1>1, <1>5, <1>7, <1>8, <1>9, <1>10, <1>11

\* A job begins; only a user it touches comes to have a row.  It takes over what
\* is clean as the target has it.
LEMMA StartAgree ==
  ASSUME ProvInv, AgreeInv, NEW j \in Jobs, NEW r \in Job, r.pc # "idle", NEW S, Start(j, r, S),
         NEW v, v = job'[j], UNCHANGED <<group, ext, target>>,
         \A u \in Users : row[u].st # "new" \/ u \notin Touches(r) => row'[u] = row[u],
         \A u \in Users : row'[u].st \in {"in", row[u].st},
         Shape(r), Lost(r)', \A u \in Users : UserAt(u)',
         \A u \in Users : u \in Touches(r) /\ (u \in dirty' \/ Agrees(u)) => UserOK(v, u)',
         \A g \in Groups : g \in Touches(r) /\ (g \in dirty' \/ AgreesG(g)) => GroupOK(v, g)'
  PROVE  AgreeInv'
<1>0. /\ ProvTyped /\ Sharing /\ UsersOK /\ GroupsOK /\ (\A w \in Works : Shape(w) /\ Lost(w))
      /\ \A g \in Groups : GroupAt(g)
  BY DEF ProvInv, AgreeInv
<1>1. /\ Sharing' /\ Twin(r, v) /\ v \in Works' /\ dirty \subseteq dirty'
      /\ \A w \in Works' : w = v \/ \E s \in Works : /\ Twin(s, w)
                                                     /\ \A x : Owns(w, x) => Owns(s, x) /\ x \notin Touches(r)
      /\ \A s \in Works : \A x : Owns(s, x) /\ x \notin Touches(r) => \E w \in Works' : Owns(w, x)
      /\ \A x : Owns(v, x) => x \in Touches(r)
      /\ \A x \in Touches(r) \ dirty' : Owns(v, x) /\ x \notin dirty /\ \A s \in Works : ~Owns(s, x)
  BY <1>0, StartOwns
<1>2. /\ group' = group /\ ext' = ext /\ vault' = vault /\ vgroup' = vgroup
      /\ In \subseteq In' /\ Gone' = Gone
  <2>1. group' = group /\ ext' = ext /\ vault' = vault /\ vgroup' = vgroup
    BY DEF target
  <2>2. In \subseteq In'
    BY DEF In
  <2>3. ASSUME NEW u \in Users PROVE row'[u].st = "gone" <=> row[u].st = "gone"
    BY <2>3
  <2> QED BY <2>1, <2>2, <2>3 DEF Gone
<1>3. \A u \in Users \ Touches(r) : SameRow(u) /\ SameRecord(u) /\ vault'[u] = vault[u]
  BY <1>1, <1>2 DEF SameRow, SameRecord
<1>4. \A g \in Groups : SameGroup(g) /\ SameTarget(g) /\ vgroup'[g] = vgroup[g]
  BY <1>1, <1>2 DEF SameGroup, SameTarget
<1>5. ASSUME NEW w \in Works' PROVE Shape(w) /\ Lost(w)'
  <2>1. CASE w = v
    <3>1. Shape(v)
      BY <1>1, TwinTouches
    <3>2. v.kind = r.kind /\ v.user = r.user /\ v.pc = r.pc
      BY <1>1 DEF Twin, Alike
    <3>3. Lost(v)'
      BY <3>2 DEF Lost
    <3> QED BY <2>1, <3>1, <3>3
  <2>2. CASE w # v
    <3>1. PICK s \in Works : Twin(s, w)
      BY <1>1, <2>2
    <3>2. Shape(w)
      BY <1>0, <3>1, TwinTouches
    <3>3. w.kind = s.kind /\ w.user = s.user /\ w.pc = s.pc /\ Lost(s)
      BY <1>0, <3>1 DEF Twin, Alike
    <3>4. s.kind = "delete" => s.user \in Users
      <4>1. PICK i \in Jobs : s = job[i]
        BY DEF Works
      <4>2. Fit(s)
        BY <1>0, <4>1, TypedParts
      <4> QED BY <4>2 DEF Fit, OfUser
    <3>5. \A u \in Users : row[u].st # "new" => row'[u].st = row[u].st
      OBVIOUS
    <3>6. Lost(w)'
      BY <3>3, <3>4, <3>5 DEF Lost
    <3> QED BY <3>2, <3>6
  <2> QED BY <2>1, <2>2
<1>6. \A g \in Groups : GroupAt(g)'
  BY <1>0, <1>2 DEF GroupAt
<1>7. UsersOK'
  <2>1. ASSUME NEW w \in Works', NEW u \in Users, Owns(w, u) PROVE UserOK(w, u)'
    <3>1. CASE w = v
      <4>1. u \in Touches(r)
        BY <1>1, <2>1, <3>1
      <4>2. u \in dirty' \/ Agrees(u)
        BY <1>0, <1>1, <4>1 DEF UsersOK
      <4> QED BY <3>1, <4>1, <4>2
    <3>2. CASE w # v
      <4>1. PICK s \in Works : Twin(s, w) /\ \A x : Owns(w, x) => Owns(s, x) /\ x \notin Touches(r)
        BY <1>1, <3>2
      <4>2. UserOK(s, u) /\ u \notin Touches(r)
        BY <1>0, <2>1, <4>1 DEF UsersOK
      <4> QED BY <1>3, <4>1, <4>2, TwinUser
    <3> QED BY <3>1, <3>2
  <2>2. ASSUME NEW u \in Users, u \notin dirty' PROVE Agrees(u)' \/ \E w \in Works' : Owns(w, u)
    <3>1. CASE u \in Touches(r)
      BY <1>1, <2>2, <3>1
    <3>2. CASE u \notin Touches(r)
      <4>1. Agrees(u) \/ \E s \in Works : Owns(s, u)
        BY <1>0, <1>1, <2>2 DEF UsersOK
      <4>2. Agrees(u) => Agrees(u)'
        BY <1>3, <3>2, SameTold
      <4> QED BY <1>1, <3>2, <4>1, <4>2
    <3> QED BY <3>1, <3>2
  <2> QED BY <2>1, <2>2 DEF UsersOK
<1>8. GroupsOK'
  <2>1. ASSUME NEW w \in Works', NEW g \in Groups, Owns(w, g) PROVE GroupOK(w, g)'
    <3>1. CASE w = v
      <4>1. g \in Touches(r)
        BY <1>1, <2>1, <3>1
      <4>2. g \in dirty' \/ AgreesG(g)
        BY <1>0, <1>1, <4>1 DEF GroupsOK
      <4> QED BY <3>1, <4>1, <4>2
    <3>2. CASE w # v
      <4>1. PICK s \in Works : Twin(s, w) /\ \A x : Owns(w, x) => Owns(s, x) /\ x \notin Touches(r)
        BY <1>1, <3>2
      <4>2. GroupOK(s, g)
        BY <1>0, <2>1, <4>1 DEF GroupsOK
      <4> QED BY <1>2, <1>4, <4>1, <4>2, TwinGroup
    <3> QED BY <3>1, <3>2
  <2>2. ASSUME NEW g \in Groups, g \notin dirty' PROVE AgreesG(g)' \/ \E w \in Works' : Owns(w, g)
    <3>1. CASE g \in Touches(r)
      BY <1>1, <2>2, <3>1
    <3>2. CASE g \notin Touches(r)
      <4>1. AgreesG(g) \/ \E s \in Works : Owns(s, g)
        BY <1>0, <1>1, <2>2 DEF GroupsOK
      <4>2. AgreesG(g) => AgreesG(g)'
        BY <1>2, <1>4, SameAgreesG
      <4> QED BY <1>1, <3>2, <4>1, <4>2
    <3> QED BY <3>1, <3>2
  <2> QED BY <2>1, <2>2 DEF GroupsOK
<1> QED BY <1>1, <1>5, <1>6, <1>7, <1>8 DEF AgreeInv

\* What a job that has just begun knows of a user it is not about.
LEMMA FreshUser ==
  ASSUME NEW v, NEW u \in Users, v.user # u, v.who # u, v.list[u] \in {"none", (ListUsers[u])'},
         u \in dirty' \/ Agrees(u)'
  PROVE  UserOK(v, u)'
BY DEF UserOK, Read, Clean

\* What a job that has just begun knows of a group.
LEMMA FreshGroup ==
  ASSUME NEW v, Ungrouped(v), v.groups = {}, NEW g \in Groups, g \in dirty' \/ AgreesG(g)'
  PROVE  GroupOK(v, g)'
<1>1. ReadG(v, g)'
  BY DEF Ungrouped, ReadG, Sends, Rereads, Stored, OwnReadG, OfGroup
<1>2. AgreesG(g)' => CleanG(v, g)'
  BY DEF Ungrouped, CleanG, OfGroup
<1> QED BY <1>1, <1>2 DEF GroupOK

\* The shape of a job about a user, before it pushes anything.
LEMMA FreshShape ==
  ASSUME NEW r, r.kind \in OfUser, r.pc \in {"audit", "count", "flags", "isadmin", "admin"}, r.who = None,
         r.list = Nobody, r.kind = "delete" => r.todo = {r.user}
  PROVE  Shape(r)
<1>1. ~AtUsers(r) /\ r.pc \notin UserCalls
  BY DEF AtUsers, UserCalls
<1> QED BY <1>1 DEF Shape, CallShape, PushShape, ListShape, OwnShape, ForUser, UserCalls

\* A user is created.
LEMMA CreateUserAgrees ==
  ASSUME ProvInv, AgreeInv, NEW j \in Jobs, NEW x \in Users, NEW f \in Forms \cup {None},
         NEW k, NEW l, NEW S, CreateUser(j, k, x, f, l, S),
         \/ k = "create" /\ l = "audit"
         \/ k = "register" /\ l = "count"
         \/ k = "new" /\ l = "flags"
         \/ k = "cli" /\ l = "admin" /\ x \in S
  PROVE  AgreeInv'
<1>0. /\ row \in [Users -> Row] /\ (\A u \in Users : UserAt(u)) /\ (\A g \in Groups : GroupAt(g))
      /\ ProvTyped /\ Sharing
  BY TypedParts DEF ProvInv, AgreeInv
<1>1. PICK r : r = [NoJob EXCEPT !.kind = k, !.user = x, !.act = TRUE, !.form = f, !.pc = l]
  OBVIOUS
<1>2. /\ row[x].st = "new" /\ Start(j, r, S) /\ UNCHANGED <<group, ext, target>>
      /\ row' = [row EXCEPT ![x] = [st |-> "in", active |-> TRUE, admin |-> FALSE]]
  BY <1>1 DEF CreateUser
<1>3. /\ r \in Job /\ r.pc = l /\ r.kind = k /\ r.user = x /\ r.who = None /\ r.form = f
  BY <1>1, IdleOK, ZenonT(60) DEF Job, NoJob, Pcs, AllKinds
<1>4. /\ r.list = Nobody /\ r.groups = {} /\ (r.act = TRUE)
  BY <1>1, IdleOK, ZenonT(60) DEF Job, NoJob
<1>5. PICK v : v = job'[j]
  OBVIOUS
<1>6. Twin(r, v) /\ dirty \subseteq dirty' /\ S \subseteq dirty'
  BY <1>0, <1>2, <1>3, <1>5, StartOwns
<1>7. /\ v.pc = l /\ v.kind = k /\ v.user = x /\ v.who = None /\ v.form = f
      /\ v.list = Nobody /\ v.groups = {} /\ v.act = TRUE
  BY <1>3, <1>4, <1>6 DEF Twin, Alike
<1>8. /\ row'[x].st = "in" /\ row'[x].active = TRUE /\ \A u \in Users \ {x} : row'[u] = row[u]
  BY <1>0, <1>2
<1>9. In' = In \cup {x} /\ x \notin In /\ Gone' = Gone
  BY <1>2, <1>8 DEF In, Gone
<1>10. group' = group /\ ext' = ext /\ vault' = vault /\ vgroup' = vgroup
  BY <1>2 DEF target
<1>11. x \in Touches(r)
  BY <1>3 DEF Touches, Items
<1>12. Shape(r) /\ Lost(r)'
  BY <1>3, <1>4, FreshShape DEF Lost, OfUser
<1>13. \A u \in Users : UserAt(u)'
  BY <1>0, <1>6, <1>9, <1>10 DEF UserAt
<1>15. ASSUME NEW u \in Users, u \in Touches(r), u \in dirty' \/ Agrees(u) PROVE UserOK(v, u)'
  <2>1. CASE u # x
    <3>1. Agrees(u) => Agrees(u)'
      BY <1>8, <1>9, <1>10, <2>1 DEF Agrees
    <3>2. v.who # u /\ v.list[u] = "none"
      BY <1>7, ProvAssumption DEF Nobody
    <3> QED BY <1>7, <1>15, <2>1, <3>1, <3>2, FreshUser
  <2>2. CASE u = x
    <3>1. v.list[u] = "none" /\ v.who # u
      BY <1>7, ProvAssumption DEF Nobody
    <3>2. ~AtUsers(v) /\ v.pc \notin {"gwrite", "gread"} \cup GroupCalls
      BY <1>7 DEF AtUsers, UserCalls, GroupCalls
    <3>3. Alone(v, x)'
      <4>1. \A g \in Groups : x \notin group'[g].members
        BY <1>0, <1>9, <1>10 DEF GroupAt
      <4> QED BY <1>7, <3>2, <4>1 DEF Alone, ForMember
    <3>4. Is(x, TRUE)' /\ x \in In'
      <4>1. x \in In'
        BY <1>9
      <4> QED BY <1>8, <4>1 DEF Is
    <3>5. OwnRead(v, x)'
      <4>1. Is(x, v.act)'
        BY <1>7, <3>4
      <4>2. k \notin {"update", "edit", "delete"} /\ ~ForUser(v)
        BY <3>2 DEF ForUser
      <4> QED BY <1>7, <3>3, <3>4, <4>1, <4>2 DEF OwnRead
    <3>6. Read(v, u)'
      BY <2>2, <3>1, <3>5 DEF Read
    <3>7. ASSUME u \notin dirty' PROVE Clean(v, u)'
      <4>1. ~vault[x].on /\ k # "cli"
        BY <1>6, <1>9, <1>15, <2>2, <3>7 DEF Agrees
      <4>2. Off(x)'
        BY <1>10, <4>1 DEF Off
      <4>3. Unborn(v)
        BY <1>7, <4>1 DEF Unborn, Creators, Unsettled
      <4>4. OwnClean(v, x)'
        BY <1>7, <4>1, <4>2 DEF OwnClean
      <4> QED BY <1>7, <2>2, <3>1, <4>2, <4>3, <4>4 DEF Clean, Due
    <3> QED BY <3>6, <3>7 DEF UserOK
  <2> QED BY <2>1, <2>2
<1>16. ASSUME NEW g \in Groups, g \in Touches(r), g \in dirty' \/ AgreesG(g) PROVE GroupOK(v, g)'
  <2>1. Ungrouped(v)
    BY <1>7 DEF Ungrouped, OfGroup, ForMember, AtUsers, UserCalls, GroupCalls
  <2>2. AgreesG(g) => AgreesG(g)'
    BY <1>9, <1>10 DEF AgreesG, Close
  <2> QED BY <1>7, <1>16, <2>1, <2>2, FreshGroup
<1>17. /\ \A u \in Users : row[u].st # "new" \/ u \notin Touches(r) => row'[u] = row[u]
       /\ \A u \in Users : row'[u].st \in {"in", row[u].st}
  BY <1>2, <1>8, <1>11
<1>18. r.pc # "idle"
  BY <1>3
<1> QED BY <1>2, <1>3, <1>5, <1>12, <1>13, <1>15, <1>16, <1>17, <1>18, StartAgree

\* A job begins that has only read.
LEMMA ReadStartAgree ==
  ASSUME ProvInv, AgreeInv, NEW j \in Jobs, NEW r \in Job, r.pc # "idle", Start(j, r, {}),
         UNCHANGED <<tables, target>>, Shape(r), Lost(r),
         \A u \in Users : \A v : Twin(r, v) /\ u \in Touches(r) => Read(v, u) /\ (Agrees(u) => Clean(v, u)),
         \A g \in Groups : \A v : Twin(r, v) /\ g \in Touches(r) => ReadG(v, g) /\ (AgreesG(g) => CleanG(v, g))
  PROVE  AgreeInv'
<1>0. ProvTyped /\ Sharing /\ \A u \in Users : UserAt(u)
  BY DEF ProvInv, AgreeInv
<1>1. /\ row' = row /\ group' = group /\ ext' = ext /\ vault' = vault /\ vgroup' = vgroup
      /\ In' = In /\ Gone' = Gone /\ UNCHANGED <<group, ext, target>>
  BY DEF tables, target, In, Gone
<1>2. PICK v : v = job'[j]
  OBVIOUS
<1>3. Twin(r, v) /\ dirty \subseteq dirty' /\ Twin(v, v)
  BY <1>0, <1>2, StartOwns DEF Twin, Alike
<1>4. Lost(r)' /\ \A u \in Users : UserAt(u)'
  BY <1>0, <1>1, <1>3 DEF Lost, UserAt
<1>5. ASSUME NEW u \in Users, u \in Touches(r), u \in dirty' \/ Agrees(u) PROVE UserOK(v, u)'
  <2>1. Read(v, u) /\ (Agrees(u) => Clean(v, u))
    BY <1>3, <1>5
  <2>2. SameRow(u) /\ vault'[u] = vault[u]
    BY <1>1 DEF SameRow
  <2>3. Read(v, u)' /\ (Clean(v, u) => Clean(v, u)')
    BY <1>3, <2>1, <2>2, TwinRead, TwinClean
  <2> QED BY <1>5, <2>1, <2>3 DEF UserOK
<1>6. ASSUME NEW g \in Groups, g \in Touches(r), g \in dirty' \/ AgreesG(g) PROVE GroupOK(v, g)'
  <2>1. ReadG(v, g) /\ (AgreesG(g) => CleanG(v, g))
    BY <1>3, <1>6
  <2>2. ReadG(v, g)'
    BY <1>1, <2>1 DEF ReadG, OwnReadG, Close
  <2>3. CleanG(v, g) => CleanG(v, g)'
    BY <1>1 DEF CleanG, AgreesG, Close
  <2> QED BY <1>6, <2>1, <2>2, <2>3 DEF GroupOK
<1>7. /\ \A u \in Users : row[u].st # "new" \/ u \notin Touches(r) => row'[u] = row[u]
      /\ \A u \in Users : row'[u].st \in {"in", row[u].st}
  BY <1>1
<1> QED BY <1>1, <1>2, <1>4, <1>5, <1>6, <1>7, StartAgree

\* UpdateBegin, EditBegin, DeleteBegin.
LEMMA UserJobAgrees ==
  ASSUME ProvInv, AgreeInv, NEW j \in Jobs, NEW x \in Users,
         DeleteBegin(j, x) \/ \E f \in Forms : UpdateBegin(j, x, f) \/ EditBegin(j, x, f)
  PROVE  AgreeInv'
<1>1. UNCHANGED <<tables, target>> /\ x \in In
  BY DEF DeleteBegin, UpdateBegin, EditBegin
<1>2. PICK r : /\ Start(j, r, {})
               /\ \/ r = [NoJob EXCEPT !.kind = "delete", !.user = x, !.todo = {x}, !.pc = "audit"]
                  \/ \E f \in Forms, k \in {"update", "edit"} :
                       r = [NoJob EXCEPT !.kind = k, !.user = x, !.form = f, !.pc = "audit"]
  BY DEF DeleteBegin, UpdateBegin, EditBegin
<1>3. /\ r \in Job /\ r.pc = "audit" /\ r.user = x /\ r.who = None /\ r.list = Nobody /\ r.groups = {}
      /\ r.kind \in {"delete", "update", "edit"} /\ (r.kind = "delete" => r.todo = {x})
  <2>1. CASE r = [NoJob EXCEPT !.kind = "delete", !.user = x, !.todo = {x}, !.pc = "audit"]
    BY <2>1, IdleOK, ZenonT(60) DEF Job, NoJob, Pcs, AllKinds
  <2>2. ASSUME NEW f \in Forms, NEW k \in {"update", "edit"},
               r = [NoJob EXCEPT !.kind = k, !.user = x, !.form = f, !.pc = "audit"]
        PROVE  /\ r \in Job /\ r.pc = "audit" /\ r.user = x /\ r.who = None /\ r.list = Nobody /\ r.groups = {}
               /\ r.kind = k
    BY <2>2, IdleOK, ZenonT(60) DEF Job, NoJob, Pcs, AllKinds
  <2>3. ASSUME NEW k \in {"update", "edit"}, r.kind = k PROVE r.kind # "delete"
    BY <2>3
  <2> QED BY <1>2, <2>1, <2>2, <2>3
<1>4. Shape(r) /\ Lost(r)
  BY <1>1, <1>3, FreshShape DEF Lost, OfUser, In
<1>5. ASSUME NEW v, Twin(r, v)
      PROVE  /\ v.pc = "audit" /\ v.user = x /\ v.who = None /\ v.list = Nobody /\ v.groups = {}
             /\ v.kind \in {"delete", "update", "edit"} /\ (v.kind = "delete" => v.todo = {x})
             /\ ~AtUsers(v) /\ ~Written(v)
  <2>1. /\ v.pc = "audit" /\ v.user = x /\ v.who = None /\ v.list = Nobody /\ v.groups = {}
        /\ v.kind \in {"delete", "update", "edit"} /\ (v.kind = "delete" => v.todo = {x})
    BY <1>3, <1>5 DEF Twin, Alike
  <2> QED BY <2>1 DEF AtUsers, UserCalls, Written, GroupCalls
<1>6. ASSUME NEW v, NEW u \in Users, Twin(r, v) PROVE Read(v, u) /\ (Agrees(u) => Clean(v, u))
  <2>1. v.list[u] = "none" /\ v.who # u
    BY <1>5, <1>6, ProvAssumption DEF Nobody
  <2>2. v.user = u => OwnRead(v, u)
    BY <1>1, <1>5, <1>6 DEF OwnRead, ForUser
  <2>3. v.user = u => OwnClean(v, u)
    BY <1>5, <1>6 DEF OwnClean, Untold, Creators
  <2> QED BY <2>1, <2>2, <2>3 DEF Read, Clean
<1>7. ASSUME NEW v, NEW g \in Groups, Twin(r, v) PROVE ReadG(v, g) /\ (AgreesG(g) => CleanG(v, g))
  <2>1. Ungrouped(v) /\ v.groups = {}
    BY <1>5, <1>7 DEF Ungrouped, OfGroup, ForMember, GroupCalls
  <2>2. ReadG(v, g)
    BY <2>1 DEF Ungrouped, ReadG, Sends, Rereads, Stored, OwnReadG, OfGroup
  <2> QED BY <2>1, <2>2, UngroupedAgrees
<1>8. r.pc # "idle"
  BY <1>3
<1> QED BY <1>1, <1>2, <1>3, <1>4, <1>6, <1>7, <1>8, ReadStartAgree

\* GroupNew, GroupEdit, GroupDelete.
LEMMA GroupBeginAgrees ==
  ASSUME ProvInv, AgreeInv, NEW j \in Jobs, NEW g \in Groups, NEW S \in SUBSET Users,
         NEW k, NEW l, GroupBegin(j, k, g, S, l),
         \/ k = "gnew" /\ l = "gcreate" /\ group[g].st = "new"
         \/ k = "gedit" /\ l = "gupdate" /\ group[g].st = "in"
         \/ k = "gdelete" /\ l = "audit" /\ group[g].st = "in" /\ S = {}
  PROVE  AgreeInv'
<1>1. UNCHANGED <<tables, target>> /\ ListUsers \in Snapshot
  BY DEF GroupBegin, ListUsers, Snapshot
<1>2. PICK L : L = ListUsers
  OBVIOUS
<1>3. PICK r : r = [NoJob EXCEPT !.kind = k, !.group = g, !.list = L, !.want = S, !.pc = l]
  OBVIOUS
<1>4. Start(j, r, {})
  BY <1>2, <1>3 DEF GroupBegin
<1>5. /\ r \in Job /\ r.pc = l /\ r.kind = k /\ r.group = g /\ r.want = S /\ r.list = L
      /\ r.user = None /\ r.who = None /\ r.groups = {}
  <2>1. L \in Snapshot /\ S \in SUBSET Users
    BY <1>1, <1>2
  <2> QED BY <1>3, <2>1, IdleOK, ZenonT(60) DEF Job, NoJob, Pcs, AllKinds
<1>6. ~AtUsers(r) /\ r.pc \notin UserCalls
  BY <1>5 DEF AtUsers, UserCalls
<1>7. Shape(r) /\ Lost(r)
  BY <1>5, <1>6 DEF Shape, CallShape, PushShape, ListShape, OwnShape, Lost, ForUser, UserCalls, OfUser
<1>8. ASSUME NEW v, Twin(r, v)
      PROVE  /\ v.pc = l /\ v.kind = k /\ v.group = g /\ v.want = S /\ v.list = L
             /\ v.user = None /\ v.who = None /\ v.groups = {} /\ ~AtUsers(v)
  BY <1>5, <1>6, <1>8, TwinLabels DEF Twin, Alike
<1>9. ASSUME NEW v, NEW u \in Users, Twin(r, v) PROVE Read(v, u) /\ (Agrees(u) => Clean(v, u))
  <2>1. v.list[u] = ListUsers[u] /\ v.who # u /\ v.user # u
    BY <1>2, <1>8, <1>9, ProvAssumption
  <2> QED BY <2>1 DEF Read, Clean
<1>10. ASSUME NEW v, NEW h \in Groups, Twin(r, v), h \in Touches(r)
       PROVE  ReadG(v, h) /\ (AgreesG(h) => CleanG(v, h))
  <2>1. h = g
    BY <1>5, <1>10, ProvAssumption DEF Touches
  <2>2. ~Sends(v, h) /\ ~Rereads(v, h) /\ ~Stored(v, h)
    BY <1>8, <1>10 DEF Sends, Rereads, Stored, ForMember, GroupCalls
  <2>3. ReadG(v, h)
    BY <1>8, <1>10, <2>1, <2>2 DEF ReadG, OwnReadG
  <2>4. AgreesG(h) => CleanG(v, h)
    BY <1>8, <1>10, <2>1 DEF CleanG, AgreesG
  <2> QED BY <2>3, <2>4
<1>11. r.pc # "idle"
  BY <1>5
<1> QED BY <1>1, <1>4, <1>5, <1>7, <1>9, <1>10, <1>11, ReadStartAgree

\* The synchronisation begins: it lists the users.
LEMMA SyncBeginAgrees ==
  ASSUME ProvInv, AgreeInv, NEW j \in Jobs, SyncBegin(j)
  PROVE  AgreeInv'
<1>1. UNCHANGED <<tables, target>> /\ ListUsers \in Snapshot /\ In \in SUBSET Users
  BY DEF SyncBegin, ListUsers, Snapshot, In
<1>2. PICK L, T, l : L = ListUsers /\ T = In /\ l = IF In = {} THEN "glist" ELSE "push"
  OBVIOUS
<1>3. PICK r : r = [NoJob EXCEPT !.kind = "sync", !.list = L, !.todo = T, !.pc = l]
  OBVIOUS
<1>4. Start(j, r, {})
  BY <1>2, <1>3 DEF SyncBegin
<1>5. /\ r \in Job /\ r.pc = l /\ r.kind = "sync" /\ r.list = L /\ r.todo = T
      /\ r.user = None /\ r.who = None /\ r.groups = {} /\ r.group = None /\ r.op = "upsert"
  <2>1. L \in Snapshot /\ T \in SUBSET Users /\ l \in Pcs
    BY <1>1, <1>2 DEF Pcs
  <2>2. "sync" \in AllKinds
    BY DEF AllKinds
  <2> QED BY <1>3, <2>1, <2>2, IdleOK, ZenonT(60) DEF Job, NoJob
<1>6. r.pc \in {"glist", "push"} /\ r.pc \notin UserCalls
  BY <1>2, <1>5 DEF UserCalls
<1>7. Shape(r) /\ Lost(r)
  <2>1. \A w \in T : L[w] # "none"
    BY <1>2 DEF In, ListUsers
  <2> QED BY <1>5, <1>6, <2>1
      DEF Shape, CallShape, PushShape, ListShape, OwnShape, Lost, ForUser, AtUsers, UserCalls, OfUser
<1>8. ASSUME NEW v, Twin(r, v)
      PROVE  /\ v.pc \in {"glist", "push"} /\ v.kind = "sync" /\ v.list = L
             /\ v.user = None /\ v.who = None /\ v.groups = {} /\ v.op = "upsert"
  BY <1>5, <1>6, <1>8 DEF Twin, Alike
<1>9. ASSUME NEW v, NEW u \in Users, Twin(r, v) PROVE Read(v, u) /\ (Agrees(u) => Clean(v, u))
  <2>1. v.list[u] = ListUsers[u] /\ v.who # u /\ v.user # u
    BY <1>2, <1>8, <1>9, ProvAssumption
  <2> QED BY <2>1 DEF Read, Clean
<1>10. ASSUME NEW v, NEW g \in Groups, Twin(r, v) PROVE ReadG(v, g) /\ (AgreesG(g) => CleanG(v, g))
  <2>1. Ungrouped(v) /\ v.groups = {}
    BY <1>8, <1>10 DEF Ungrouped, OfGroup, ForMember, GroupCalls
  <2>2. ReadG(v, g)
    BY <2>1 DEF Ungrouped, ReadG, Sends, Rereads, Stored, OwnReadG, OfGroup
  <2> QED BY <2>1, <2>2, UngroupedAgrees
<1>11. r.pc # "idle"
  BY <1>6
<1> QED BY <1>1, <1>4, <1>5, <1>7, <1>9, <1>10, <1>11, ReadStartAgree

-----------------------------------------------------------------------------
(* The target against the tables: the theorems.                            *)

\* At the start there are no users and no groups, on either side.
LEMMA InitAgree == Init => AgreeInv
<1> SUFFICES ASSUME Init PROVE AgreeInv
  OBVIOUS
<1>1. \A v \in Works : v = NoJob
  BY DEF Init, Works
<1>2. \A v \in Works : v.pc = "idle" /\ Shape(v) /\ Lost(v)
  BY <1>1, IdleShape
<1>3. \A j \in Jobs : job[j].pc = "idle"
  BY <1>2 DEF Works
<1>4. Sharing
  BY <1>3 DEF Sharing, Busy
<1>5. \A u \in Users : u \notin In /\ ~vault[u].on /\ ext[u] = 0
  BY DEF Init, In
<1>6. \A u \in Users : UserAt(u) /\ Agrees(u)
  BY <1>5 DEF UserAt, Agrees
<1>7. \A g \in Groups : /\ group[g].st = "new" /\ group[g].members = {}
                        /\ ~vgroup[g].on /\ vgroup[g].members = {}
  BY DEF Init
<1>8. ASSUME NEW g \in Groups PROVE GroupAt(g) /\ AgreesG(g)
  <2>1. GroupAt(g) /\ Close(vgroup[g].members, group[g].members)
    BY <1>7 DEF GroupAt, Close
  <2>2. vgroup[g].on = FALSE
    BY ZenonT(30) DEF Init
  <2>3. (group[g].st = "in") = FALSE
    BY <1>7
  <2> QED BY <2>1, <2>2, <2>3 DEF AgreesG
<1>9. UsersOK /\ GroupsOK
  BY <1>2, <1>6, <1>8 DEF UsersOK, GroupsOK, Owns
<1> QED BY <1>2, <1>4, <1>6, <1>8, <1>9 DEF AgreeInv

\* Nothing happens.
LEMMA StutterAgrees ==
  ASSUME AgreeInv, UNCHANGED vars
  PROVE  AgreeInv'
<1>1. /\ row' = row /\ group' = group /\ ext' = ext /\ vault' = vault /\ vgroup' = vgroup
      /\ job' = job /\ dirty' = dirty
  BY DEF vars, tables, target, marks, bounds
<1>2. /\ Works' = Works /\ In' = In /\ Gone' = Gone /\ ListUsers' = ListUsers /\ Busy' = Busy
  BY <1>1 DEF Works, In, Gone, ListUsers, Busy
<1>3. Sharing'
  BY <1>1, <1>2 DEF AgreeInv, Sharing
<1>4. \A v \in Works : Shape(v)' /\ Lost(v)'
  BY <1>1 DEF AgreeInv, Lost
<1>5. \A u \in Users : UserAt(u)' /\ (Agrees(u)' <=> Agrees(u))
  BY <1>1, <1>2 DEF AgreeInv, UserAt, Agrees
<1>6. \A g \in Groups : GroupAt(g)' /\ (AgreesG(g)' <=> AgreesG(g))
  BY <1>1, <1>2 DEF AgreeInv, GroupAt, AgreesG, Close
<1>7. ASSUME NEW v, NEW u \in Users, UserOK(v, u) PROVE UserOK(v, u)'
  <2>1. OwnRead(v, u)' <=> OwnRead(v, u)
    BY <1>1, <1>2 DEF OwnRead, Is, Alone
  <2>2. Due(v, u)' <=> Due(v, u)
    BY <1>1, <1>2 DEF Due, Current, Off, Known
  <2>3. (OwnClean(v, u)' <=> OwnClean(v, u)) /\ (CallClean(v, u)' <=> CallClean(v, u))
    BY <1>1 DEF OwnClean, CallClean, Off
  <2> QED BY <1>1, <1>2, <1>5, <1>7, <2>1, <2>2, <2>3 DEF UserOK, Read, Clean
<1>8. ASSUME NEW v, NEW g \in Groups, GroupOK(v, g) PROVE GroupOK(v, g)'
  <2>1. ReadG(v, g)' <=> ReadG(v, g)
    BY <1>1, <1>2 DEF ReadG, OwnReadG, Close
  <2>2. CleanG(v, g)' <=> CleanG(v, g)
    BY <1>1, <1>6 DEF CleanG
  <2> QED BY <1>1, <1>8, <2>1, <2>2 DEF GroupOK
<1>9. UsersOK'
  BY <1>1, <1>2, <1>5, <1>7 DEF AgreeInv, UsersOK
<1>10. GroupsOK'
  BY <1>1, <1>2, <1>6, <1>8 DEF AgreeInv, GroupsOK
<1> QED BY <1>2, <1>3, <1>4, <1>5, <1>6, <1>9, <1>10 DEF AgreeInv

\* A request, a command or a synchronisation begins.
LEMMA BeginAgrees ==
  ASSUME ProvInv, AgreeInv, NEW j \in Jobs, Begin(j)
  PROVE  AgreeInv'
<1>1. ASSUME NEW u \in Users, AdminCreate(j, u) \/ Register(j, u) PROVE AgreeInv'
  <2>1. CASE AdminCreate(j, u)
    BY <2>1, CreateUserAgrees DEF AdminCreate
  <2>2. CASE Register(j, u)
    BY <2>2, CreateUserAgrees DEF Register
  <2> QED BY <1>1, <2>1, <2>2
<1>2. ASSUME NEW u \in Users, NEW f \in Forms, PortalNew(j, u, f) \/ CommandCreate(j, u, f)
      PROVE  AgreeInv'
  <2>1. CASE PortalNew(j, u, f)
    BY <2>1, CreateUserAgrees DEF PortalNew
  <2>2. CASE CommandCreate(j, u, f)
    BY <2>2, CreateUserAgrees DEF CommandCreate
  <2> QED BY <1>2, <2>1, <2>2
<1>3. ASSUME NEW g \in Groups, GroupDelete(j, g) PROVE AgreeInv'
  BY <1>3, GroupBeginAgrees DEF GroupDelete
<1>4. ASSUME NEW g \in Groups, NEW S \in SUBSET Users, GroupNew(j, g, S) \/ GroupEdit(j, g, S)
      PROVE  AgreeInv'
  BY <1>4, GroupBeginAgrees DEF GroupNew, GroupEdit
<1>5. ASSUME NEW u \in Users,
             DeleteBegin(j, u) \/ \E f \in Forms : UpdateBegin(j, u, f) \/ EditBegin(j, u, f)
      PROVE  AgreeInv'
  BY <1>5, UserJobAgrees
<1> QED BY <1>1, <1>2, <1>3, <1>4, <1>5, SyncBeginAgrees DEF Begin

\* Every step keeps the agreement.
LEMMA NextAgree == ProvInv /\ AgreeInv /\ [Next]_vars => AgreeInv'
<1> SUFFICES ASSUME ProvInv, AgreeInv, [Next]_vars PROVE AgreeInv'
  OBVIOUS
<1>1. ProvInv'
  BY NextInv
<1>2. ASSUME NEW j \in Jobs, Handle(j) PROVE AgreeInv'
  BY <1>1, <1>2, CountUsersAgrees, PromoteAgrees, SetFlagsAgrees, DeleteUnreadAgrees,
     CreateGroupAgrees, UpdateGroupAgrees, StoreMembersAgrees, AuditAgrees, AuditFailsAgrees,
     UndoAgrees, WriteAgrees, SetAdminAgrees, ListGroupsForm, ListGroupsSync, ChangeMemberAgrees,
     ReadGroupAgrees, RereadAgrees, EraseUserAgrees, EraseGroupAgrees
  DEF Handle, SetFlags
<1>3. ASSUME NEW j \in Jobs, Provision(j) PROVE AgreeInv'
  BY <1>1, <1>3, LookUpAgrees, FindAgrees, CallUserAgrees, ForgetAgrees, PostAgrees,
     RememberAgrees, CallGroupAgrees, CallFailsAgrees
  DEF Provision
<1> QED BY <1>1, <1>2, <1>3, BeginAgrees, CrashAgrees, TargetAgrees, StutterAgrees DEF Next

\* Every reachable state satisfies the invariant of the agreement.
THEOREM AgreeInvariant == Spec => []AgreeInv
BY InitAgree, NextAgree, ProvInvariant, PTL DEF Spec

\* What nobody has in hand nobody has for itself.
LEMMA NotInHand ==
  ASSUME NEW x, ~InHand(x), NEW v \in Works
  PROVE  ~Owns(v, x)
BY DEF InHand, Owns, Works, Busy

\* The fan-out to the target system: whatever jobs interleave, fail and die, a
\* user whom nobody has in hand and for whom no call failed since the last push
\* of its own is at the target as the table has it, and not there when deleted.
THEOREM UsersAgreeWithTarget == Spec => []UsersAgree
<1>1. AgreeInv => UsersAgree
  BY NotInHand DEF AgreeInv, UsersOK, UsersAgree, Agrees
<1> QED BY <1>1, AgreeInvariant, PTL

\* A user that is neither in the table nor dirty, and at the target still, is
\* being deleted.
LEMMA StillThere ==
  ASSUME AgreeInv, NEW u \in Users, u \notin dirty, u \notin In, vault[u].on
  PROVE  \E j \in Busy : job[j].kind = "delete"
<1>1. ~Agrees(u)
  BY DEF Agrees
<1>2. PICK v \in Works : Owns(v, u)
  BY <1>1 DEF AgreeInv, UsersOK
<1>3. Clean(v, u)
  BY <1>2 DEF AgreeInv, UsersOK, UserOK
<1>4. Due(v, u)
  BY <1>1, <1>3 DEF Clean
<1>5. v.kind = "delete"
  BY <1>4 DEF Due, Current, Off, Known, Doomed
<1> QED BY <1>2, <1>5 DEF Works, Owns, Busy

\* PushGroup and DeleteGroup in the fan-out: a group that nobody has in hand and
\* for which no call failed is at the target exactly if it is in the table, with
\* the table's members but for those with a failed call of their own.
THEOREM GroupsAgreeWithTarget == Spec => []GroupsAgree
<1>1. AgreeInv => GroupsAgree
  <2> SUFFICES ASSUME AgreeInv, NEW g \in Groups, g \notin dirty, ~InHand(g)
               PROVE  /\ vgroup[g].on = (group[g].st = "in")
                      /\ vgroup[g].members \ dirty = group[g].members \ dirty
    BY DEF GroupsAgree
  <2>1. AgreesG(g) /\ GroupAt(g)
    BY NotInHand DEF AgreeInv, GroupsOK
  <2>2. \A j \in Busy : job[j].kind # "delete"
    BY DEF InHand, Touches
  <2>3. ASSUME NEW u, u \in Gone \ dirty PROVE u \notin group[g].members /\ u \notin vgroup[g].members
    <3>1. u \in Users /\ u \notin In
      BY <2>3 DEF Gone, In
    <3>2. ~vault[u].on
      BY <2>2, <2>3, <3>1, StillThere
    <3> QED BY <2>1, <3>1, <3>2 DEF GroupAt
  <2> QED BY <2>1, <2>3 DEF AgreesG, Close
<1> QED BY <1>1, AgreeInvariant, PTL

=============================================================================
