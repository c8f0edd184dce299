-------------------------- MODULE AwsAccessProofs --------------------------
(***************************************************************************)
(* Proofs about AwsAccess.                                                 *)
(*                                                                         *)
(* A request is judged by what it read, the properties are about the       *)
(* instants at which it was under way.  The invariant ties the two: while  *)
(* a request is in flight its history holds what the tables say now, so    *)
(* what a statement reads is among what the history has recorded; what it  *)
(* has passed, it passed on such values.  Between the two statements that  *)
(* look for the team, whichever of members and assignments has not moved   *)
(* still vouches for the groups that were read.                            *)
(*                                                                         *)
(* The last part follows every row of the configuration from the handler   *)
(* that inserts it to the one that takes it, or an ancestor of it, away.   *)
(***************************************************************************)
EXTENDS AwsAccess, WellFoundedInduction, TLAPS

\* A set of numbers that is not empty has a least one: Min is its value.
LEMMA MinIsMember ==
  ASSUME NEW S, S \subseteq Nat, S # {}
  PROVE  Min(S) \in S
<1>1. PICK x \in S : \A y \in S : ~(<<y, x>> \in OpToRel(<, Nat))
  BY NatLessThanWellFounded, WFMin
<1>2. ASSUME NEW y \in S PROVE x =< y
  <2>1. x \in Nat /\ y \in Nat
    OBVIOUS
  <2>2. CASE y < x
    <3>1. <<y, x>> \in Nat \X Nat /\ <<y, x>>[1] < <<y, x>>[2]
      BY <2>1, <2>2
    <3> QED BY <1>1, <3>1 DEF OpToRel
  <2> QED BY <2>1, <2>2
<1> QED BY <1>2 DEF Min

-----------------------------------------------------------------------------
(* The tables and the administrators' handlers.                            *)

\* A handler at work knows what it is at: a creation journals or undoes, a
\* deletion and a change of regions journal and write.
JobOK(x) ==
  /\ x \in Job
  /\ x.pc # "idle" =>
       /\ x.kind \in {"new", "delete", "regions"}
       /\ x.pc = "undo" => x.kind = "new"
       /\ x.pc = "write" => x.kind # "new"
       /\ x.kind \in {"new", "delete"} =>
            \/ x.what = "account" /\ x.account \in Accounts
            \/ x.what = "role" /\ x.role \in Roles
            \/ x.what = "assignment" /\ x.row \in Assignment
       /\ x.kind = "regions" => x.role \in Roles

TablesTyped ==
  /\ now \in Nat
  /\ member \in [Groups -> SUBSET Users] /\ active \in [Users -> BOOLEAN]
  /\ mfa \in [Users -> Nat \cup {None}]
  /\ tab \in Table /\ book \in [made : SUBSET Row, ended : SUBSET Row]
  /\ allowed \in [Roles -> SUBSET Regions] /\ written \in [Roles -> SUBSET SUBSET Regions]
  /\ job \in [Jobs -> Job] /\ \A j \in Jobs : JobOK(job[j])
  /\ fresh \subseteq Accounts \cup Roles
  /\ left \subseteq Row /\ undone \subseteq Row /\ unread \subseteq Row
  /\ begun \in Nat /\ changes \in Nat /\ faults \in Nat

-----------------------------------------------------------------------------
(* The requests.                                                           *)

Listed == {"assignments", "groups", "sts", "signin", "audit", "done"}
Tagged == {"sts", "signin", "audit", "done"}

\* The fields of a request; the door depends on the settings, see Opened.
RequestOf(x) ==
  [pc : {"none", "mark", "user", "role", "list", "assignments", "groups", "sts", "signin",
         "audit", "done"},
   kind : {"console", "stepup", "api", None}, user : Users \cup {None},
   role : Roles \cup {None}, region : Doors, regions : SUBSET Regions,
   mfa : Nat \cup {None}, verified : BOOLEAN, door : {x.door}, authorizing : SUBSET Groups,
   team : Groups \cup {None}, at : Nat, live : BOOLEAN, was : SUBSET Groups,
   offered : SUBSET SUBSET Regions, moved : SUBSET {"member", "assigned"}]

ReqTyped(x) ==
  /\ x \in RequestOf(x)
  /\ x.pc # "none" => /\ x.user \in Users /\ x.role \in Roles
                      /\ x.kind \in {"console", "stepup", "api"} /\ x.at <= now
  /\ x.pc = "mark" => x.kind = "stepup"
  /\ x.pc = "user" => x.kind = "api"
  /\ x.pc = "role" => x.kind # "api"

\* The history of a request under way holds what is so at this instant.
Instant(x) ==
  x.pc \notin {"none", "done"} =>
    /\ Authorizing(x.user, x.role, member, tab.assigned) \subseteq x.was
    /\ allowed[x.role] \in x.offered
    /\ active[x.user] => x.live

\* What a request has got past.
Passed(x) ==
  /\ x.kind = "stepup" /\ x.pc \notin {"none", "mark"} => x.mfa \in Nat /\ x.at <= x.mfa
  /\ x.kind = "api" /\ x.pc \notin {"none", "user"} => x.live
  /\ x.pc \in Listed =>
       /\ x.was # {}
       /\ x.role \in Sensitive => IF x.kind = "api" THEN x.verified
                                  ELSE x.mfa \in Nat /\ x.at <= x.mfa + StepUpTTL

\* Between the two statements that look for the team, and after them.
Teamed(x) ==
  /\ x.pc = "groups" =>
       /\ "assigned" \notin x.moved =>
            \A g \in x.authorizing : \E a \in tab.assigned : a.group = g /\ a.role = x.role
       /\ "member" \notin x.moved =>
            \A g \in x.authorizing : x.user \in member[g] => g \in x.was
  /\ x.pc \notin Tagged => x.team = None
  /\ x.pc \in Tagged => x.team \in x.was \cup {None} \/ x.moved = {"member", "assigned"}

ReqOK(x) == ReqTyped(x) /\ Instant(x) /\ Passed(x) /\ Teamed(x)

RequestsOK == req = [q \in Requests |-> req[q]] /\ \A q \in Requests : ReqOK(req[q])

AccessInv == TablesTyped /\ RequestsOK

\* The regions a request read were offered, and so was the door it chose.
Opened(x) ==
  /\ x.pc = "list" /\ x.kind # "api" => x.regions \in x.offered
  /\ x.pc \in Listed /\ x.kind # "api" =>
       IF conf.regions = <<>> THEN x.door = Global
       ELSE \E rs \in x.offered : x.door \in awsRegionOptions(rs)

DoorsInv == \A q \in Requests : Opened(req[q])

-----------------------------------------------------------------------------
(* The tables keep their types.                                            *)

\* A deletion, with what goes by the foreign keys, leaves a table.
LEMMA GoneIsTable ==
  ASSUME NEW t \in Table, NEW x \in Job, JobOK(x), x.pc # "idle", x.kind \in {"new", "delete"}
  PROVE  Gone(t, x) \in Table /\ Lost(t, x) \subseteq Row
<1>1. CASE x.what = "account"
  <2>1. Gone(t, x) = WithoutAccount(t, x.account)
    BY <1>1 DEF Gone
  <2>2. Gone(t, x) \in Table
    BY <2>1 DEF WithoutAccount, Table
  <2> QED BY <2>2 DEF Lost, Rows, Row, Table
<1>2. CASE x.what = "role"
  <2>1. Gone(t, x) = WithoutRole(t, x.role)
    BY <1>2 DEF Gone
  <2>2. Gone(t, x) \in Table
    BY <2>1 DEF WithoutRole, Table
  <2> QED BY <2>2 DEF Lost, Rows, Row, Table
<1>3. CASE x.what = "assignment"
  <2>1. Gone(t, x) = WithoutAssignment(t, x.row)
    BY <1>3 DEF Gone
  <2>2. Gone(t, x) \in Table
    BY <2>1 DEF WithoutAssignment, Table
  <2> QED BY <2>2 DEF Lost, Rows, Row, Table
<1> QED BY <1>1, <1>2, <1>3 DEF JobOK

LEMMA NoJobOK == JobOK(NoJob)
BY DEF JobOK, NoJob, Job

\* A handler goes on.
LEMMA JobSetKeepsJobs ==
  ASSUME TablesTyped, NEW j \in Jobs, NEW x \in Job, JobOK(x), job' = [job EXCEPT ![j] = x]
  PROVE  job' \in [Jobs -> Job] /\ \A i \in Jobs : JobOK(job'[i])
<1>1. job \in [Jobs -> Job] /\ \A i \in Jobs : JobOK(job[i])
  BY DEF TablesTyped
<1> QED BY <1>1

\* A handler starts.
LEMMA JobBeginKeepsJobs ==
  ASSUME TablesTyped, NEW j \in Jobs, NEW new \in Job, JobOK(new), JobBegin(j, new)
  PROVE  /\ job' \in [Jobs -> Job] /\ \A i \in Jobs : JobOK(job'[i])
         /\ begun' \in Nat /\ changes' \in Nat /\ faults' \in Nat
<1>1. job' \in [Jobs -> Job] /\ \A i \in Jobs : JobOK(job'[i])
  BY JobSetKeepsJobs DEF JobBegin
<1> QED BY <1>1 DEF TablesTyped, JobBegin, Jobs

\* The record of a bound that a fault, or nothing, has moved.
LEMMA BoundsStayNumbers ==
  ASSUME TablesTyped, Sound \/ Fault
  PROVE  begun' \in Nat /\ changes' \in Nat /\ faults' \in Nat
BY DEF TablesTyped, Sound, Fault, bounds

\* What a request does to the tables: at most a stamp in its portal session.
LEMMA RequestsKeepTables ==
  ASSUME TablesTyped, NEW q \in Requests, Begin(q) \/ Serve(q)
  PROVE  /\ TablesTyped'
         /\ UNCHANGED <<now, conf, member, active, tab, allowed>>
<1>1. /\ UNCHANGED <<now, conf, people, config, job>>
      /\ UNCHANGED mfa \/ \E u : mfa' = [mfa EXCEPT ![u] = now]
      /\ (Sound \/ Fault) \/ (begun' = q /\ UNCHANGED <<changes, faults>>)
  <2>1. CASE Begin(q)
    BY <2>1 DEF Begin, Console, StepUp, AWSCredentials, RequestBegin
  <2>2. CASE MarkStepUp(q)
    BY <2>2 DEF MarkStepUp
  <2>3. CASE GetUser(q) \/ GetRole(q) \/ CheckRole(q) \/ ListAssignments(q) \/ ListGroups(q)
             \/ Assume(q) \/ AuditAssumed(q)
    BY <2>3 DEF GetUser, GetRole, CheckRole, ListAssignments, ListGroups, Assume, AuditAssumed
  <2> QED BY <2>1, <2>2, <2>3 DEF Serve
<1>2. begun' \in Nat /\ changes' \in Nat /\ faults' \in Nat
  BY <1>1, BoundsStayNumbers DEF TablesTyped, Requests
<1>3. mfa' \in [Users -> Nat \cup {None}]
  BY <1>1 DEF TablesTyped
<1>4. UNCHANGED <<now, conf, member, active, tab, book, allowed, written, fresh, lapses, job>>
  BY <1>1 DEF people, config
<1> QED BY <1>2, <1>3, <1>4 DEF TablesTyped, lapses

\* CreateAWSAccount, CreateAWSRole, CreateAWSRoleAssignment.
LEMMA CreationsKeepTables ==
  ASSUME TablesTyped, NEW j \in Jobs,
         \/ \E acc \in Accounts : CreateAccount(j, acc)
         \/ \E r \in Roles : CreateRole(j, r)
         \/ \E r \in Roles, g \in Groups : CreateAssignment(j, g, r)
  PROVE  TablesTyped'
<1>0. UNCHANGED <<now, member, active, mfa, book, allowed, written, left, undone, unread>>
  BY DEF CreateAccount, CreateRole, CreateAssignment, people, lapses
<1>1. CASE \E acc \in Accounts : CreateAccount(j, acc)
  <2>1. PICK acc \in Accounts : CreateAccount(j, acc)
    BY <1>1
  <2>2. PICK x : x = [NoJob EXCEPT !.pc = "audit", !.kind = "new", !.what = "account", !.account = acc]
    OBVIOUS
  <2>3. x \in Job /\ JobOK(x)
    BY <2>2 DEF NoJob, Job, JobOK
  <2>4. JobBegin(j, x) /\ tab' = [tab EXCEPT !.accounts = @ \cup {acc}] /\ fresh' = fresh \ {acc}
    BY <2>1, <2>2 DEF CreateAccount
  <2>5. tab' \in Table
    BY <2>4 DEF TablesTyped, Table
  <2> QED BY <1>0, <2>3, <2>4, <2>5, JobBeginKeepsJobs DEF TablesTyped
<1>2. CASE \E r \in Roles : CreateRole(j, r)
  <2>1. PICK r \in Roles : CreateRole(j, r)
    BY <1>2
  <2>2. PICK x : x = [NoJob EXCEPT !.pc = "audit", !.kind = "new", !.what = "role", !.role = r]
    OBVIOUS
  <2>3. x \in Job /\ JobOK(x)
    BY <2>2 DEF NoJob, Job, JobOK
  <2>4. JobBegin(j, x) /\ tab' = [tab EXCEPT !.roles = @ \cup {r}] /\ fresh' = fresh \ {r}
    BY <2>1, <2>2 DEF CreateRole
  <2>5. tab' \in Table
    BY <2>4 DEF TablesTyped, Table
  <2> QED BY <1>0, <2>3, <2>4, <2>5, JobBeginKeepsJobs DEF TablesTyped
<1>3. CASE \E r \in Roles, g \in Groups : CreateAssignment(j, g, r)
  <2>1. PICK r \in Roles, g \in Groups : CreateAssignment(j, g, r)
    BY <1>3
  <2>2. PICK a : a = [id |-> j, group |-> g, role |-> r]
    OBVIOUS
  <2>3. a \in Assignment
    BY <2>2 DEF Assignment
  <2>4. PICK x : x = [NoJob EXCEPT !.pc = "audit", !.kind = "new", !.what = "assignment", !.row = a]
    OBVIOUS
  <2>5. x \in Job /\ JobOK(x)
    BY <2>3, <2>4 DEF NoJob, Job, JobOK
  <2>6. JobBegin(j, x) /\ tab' = [tab EXCEPT !.assigned = @ \cup {a}] /\ fresh' = fresh
    BY <2>1, <2>2, <2>4 DEF CreateAssignment
  <2>7. tab' \in Table
    BY <2>3, <2>6 DEF TablesTyped, Table
  <2> QED BY <1>0, <2>5, <2>6, <2>7, JobBeginKeepsJobs DEF TablesTyped
<1> QED BY <1>1, <1>2, <1>3

LEMMA TargetsAreJobs ==
  ASSUME TablesTyped, NEW x \in Targets, NEW pc \in {"audit", "write"}
  PROVE  /\ [x EXCEPT !.pc = pc] \in Job /\ JobOK([x EXCEPT !.pc = pc])
         /\ Subject(x) \in Row
<1>1. CASE \E acc \in tab.accounts :
             x = [NoJob EXCEPT !.kind = "delete", !.what = "account", !.account = acc]
  <2>1. PICK acc \in tab.accounts :
             x = [NoJob EXCEPT !.kind = "delete", !.what = "account", !.account = acc]
    BY <1>1
  <2>2. acc \in Accounts
    BY DEF TablesTyped, Table
  <2>3. [x EXCEPT !.pc = pc] \in Job /\ JobOK([x EXCEPT !.pc = pc])
    BY <2>1, <2>2 DEF NoJob, Job, JobOK
  <2> QED BY <2>1, <2>2, <2>3 DEF NoJob, Subject, Row
<1>2. CASE \E r \in tab.roles :
             x = [NoJob EXCEPT !.kind = "delete", !.what = "role", !.role = r]
  <2>1. PICK r \in tab.roles :
             x = [NoJob EXCEPT !.kind = "delete", !.what = "role", !.role = r]
    BY <1>2
  <2>2. r \in Roles
    BY DEF TablesTyped, Table
  <2>3. [x EXCEPT !.pc = pc] \in Job /\ JobOK([x EXCEPT !.pc = pc])
    BY <2>1, <2>2 DEF NoJob, Job, JobOK
  <2> QED BY <2>1, <2>2, <2>3 DEF NoJob, Subject, Row
<1>3. CASE \E a \in tab.assigned :
             x = [NoJob EXCEPT !.kind = "delete", !.what = "assignment", !.row = a]
  <2>1. PICK a \in tab.assigned :
             x = [NoJob EXCEPT !.kind = "delete", !.what = "assignment", !.row = a]
    BY <1>3
  <2>2. a \in Assignment
    BY DEF TablesTyped, Table
  <2>3. [x EXCEPT !.pc = pc] \in Job /\ JobOK([x EXCEPT !.pc = pc])
    BY <2>1, <2>2 DEF NoJob, Job, JobOK
  <2> QED BY <2>1, <2>2, <2>3 DEF NoJob, Subject, Row
<1> QED BY <1>1, <1>2, <1>3 DEF Targets

\* DeleteAWSAccount, DeleteAWSRole, DeleteAWSRoleAssignment begin.
LEMMA DeleteBeginKeepsTables ==
  ASSUME TablesTyped, NEW j \in Jobs, NEW x \in Targets, DeleteBegin(j, x)
  PROVE  TablesTyped'
<1>0. UNCHANGED <<now, member, active, mfa, tab, book, allowed, written, fresh, left, undone>>
  BY DEF DeleteBegin, people
<1>1. CASE JobBegin(j, [x EXCEPT !.pc = "audit"]) /\ UNCHANGED unread
  <2>1. PICK y : y = [x EXCEPT !.pc = "audit"]
    OBVIOUS
  <2>2. y \in Job /\ JobOK(y)
    BY <2>1, TargetsAreJobs
  <2>3. JobBegin(j, y)
    BY <1>1, <2>1
  <2> QED BY <1>0, <1>1, <2>2, <2>3, JobBeginKeepsJobs DEF TablesTyped
<1>2. CASE /\ changes' = j /\ faults' = faults + 1 /\ UNCHANGED begun
           /\ job' = [job EXCEPT ![j] = [x EXCEPT !.pc = "write"]]
           /\ unread' = unread \cup {Subject(x)}
  <2>1. PICK y : y = [x EXCEPT !.pc = "write"]
    OBVIOUS
  <2>2. y \in Job /\ JobOK(y)
    BY <2>1, TargetsAreJobs
  <2>3. job' = [job EXCEPT ![j] = y]
    BY <1>2, <2>1
  <2>4. job' \in [Jobs -> Job] /\ \A i \in Jobs : JobOK(job'[i])
    BY <2>2, <2>3, JobSetKeepsJobs
  <2>5. unread' \subseteq Row
    BY <1>2, TargetsAreJobs DEF TablesTyped
  <2>6. begun' \in Nat /\ changes' \in Nat /\ faults' \in Nat
    BY <1>2 DEF TablesTyped, Jobs
  <2> QED BY <1>0, <2>4, <2>5, <2>6 DEF TablesTyped
<1> QED BY <1>1, <1>2 DEF DeleteBegin

\* handlePortalAdminAWSRoleRegions begins.
LEMMA RegionsBeginKeepsTables ==
  ASSUME TablesTyped, NEW j \in Jobs, NEW r \in Roles, NEW rs \in SUBSET Regions,
         RegionsBegin(j, r, rs)
  PROVE  TablesTyped'
<1>0. UNCHANGED <<now, member, active, mfa, tab, book, allowed, written, fresh, left, undone, unread>>
  BY DEF RegionsBegin, people, config, lapses
<1>1. PICK x : x = [NoJob EXCEPT !.pc = "audit", !.kind = "regions", !.role = r, !.regions = rs]
  OBVIOUS
<1>2. x \in Job /\ JobOK(x)
  BY <1>1 DEF NoJob, Job, JobOK
<1>3. JobBegin(j, x)
  BY <1>1 DEF RegionsBegin
<1> QED BY <1>0, <1>2, <1>3, JobBeginKeepsJobs DEF TablesTyped

\* logAudit of a handler.
LEMMA AuditConfigKeepsTables ==
  ASSUME TablesTyped, NEW j \in Jobs, AuditConfig(j)
  PROVE  TablesTyped'
<1>0. UNCHANGED <<now, member, active, mfa, tab, allowed, fresh, left, undone, unread>>
  BY DEF AuditConfig, people, lapses
<1>1. PICK x : x = job[j]
  OBVIOUS
<1>2. x \in Job /\ JobOK(x) /\ x.pc = "audit"
  BY <1>1 DEF TablesTyped, AuditConfig
<1>3. Sound \/ Fault
  BY DEF AuditConfig
<1>4. \E y : job' = [job EXCEPT ![j] = y] /\ y \in Job /\ JobOK(y)
  <2>1. CASE job' = [job EXCEPT ![j] = NoJob]
    <3>1. NoJob \in Job
      BY DEF NoJob, Job
    <3> QED BY <2>1, <3>1, NoJobOK
  <2>2. CASE x.kind # "new" /\ job' = [job EXCEPT ![j] = [x EXCEPT !.pc = "write"]]
    <3>1. [x EXCEPT !.pc = "write"] \in Job /\ JobOK([x EXCEPT !.pc = "write"])
      BY <1>2, <2>2 DEF Job, JobOK
    <3> QED BY <2>2, <3>1
  <2>3. CASE x.kind = "new" /\ job' = [job EXCEPT ![j] = [x EXCEPT !.pc = "undo"]]
    <3>1. [x EXCEPT !.pc = "undo"] \in Job /\ JobOK([x EXCEPT !.pc = "undo"])
      BY <1>2, <2>3 DEF Job, JobOK
    <3> QED BY <2>3, <3>1
  <2> QED BY <1>1, <2>1, <2>2, <2>3 DEF AuditConfig, AfterRefusal
<1>5. job' \in [Jobs -> Job] /\ \A i \in Jobs : JobOK(job'[i])
  BY <1>4, JobSetKeepsJobs
<1>6. /\ book' \in [made : SUBSET Row, ended : SUBSET Row]
      /\ written' \in [Roles -> SUBSET SUBSET Regions]
  <2>0. /\ book \in [made : SUBSET Row, ended : SUBSET Row]
        /\ written \in [Roles -> SUBSET SUBSET Regions]
    BY DEF TablesTyped
  <2>1. CASE UNCHANGED <<book, written>>
    BY <2>0, <2>1
  <2>2. CASE /\ x.kind = "regions" /\ book' = book
             /\ written' = [written EXCEPT ![x.role] = @ \cup {x.regions}]
    <3>1. x.regions \in SUBSET Regions /\ x.role \in Roles
      BY <1>2, <2>2 DEF Job, JobOK
    <3> QED BY <2>0, <2>2, <3>1
  <2>3. CASE /\ x.kind \in {"new", "delete"} /\ written' = written
             /\ \/ book' = [book EXCEPT !.made = @ \cup {Subject(x)}]
                \/ book' = [book EXCEPT !.ended = @ \cup {Subject(x)}]
    <3>1. Subject(x) \in Row
      BY <1>2, <2>3 DEF JobOK, Subject, Row
    <3> QED BY <2>0, <2>3, <3>1
  <2>4. x.kind \in {"new", "delete", "regions"}
    BY <1>2 DEF JobOK
  <2> QED BY <1>1, <2>1, <2>2, <2>3, <2>4 DEF AuditConfig, Stored
<1>7. begun' \in Nat /\ changes' \in Nat /\ faults' \in Nat
  BY <1>3, BoundsStayNumbers
<1> QED BY <1>0, <1>5, <1>6, <1>7 DEF TablesTyped

\* undoOnAuditFailure.
LEMMA UndoKeepsTables ==
  ASSUME TablesTyped, NEW j \in Jobs, Undo(j)
  PROVE  TablesTyped'
<1>0. UNCHANGED <<now, member, active, mfa, book, allowed, written, fresh>>
  BY DEF Undo, people
<1>1. PICK x : x = job[j]
  OBVIOUS
<1>2. x \in Job /\ JobOK(x) /\ x.pc = "undo"
  BY <1>1 DEF TablesTyped, Undo
<1>3. x.kind = "new"
  BY <1>2 DEF JobOK
<1>4. tab \in Table
  BY DEF TablesTyped
<1>5. Gone(tab, x) \in Table /\ Subject(x) \in Row
  BY <1>2, <1>3, <1>4, GoneIsTable DEF JobOK, Subject, Row
<1>6. /\ Sound \/ Fault
      /\ tab' \in {tab, Gone(tab, x)} /\ unread' = unread
      /\ left' \in {left, left \cup {Subject(x)}} /\ undone' \in {undone, undone \cup {Subject(x)}}
      /\ job' = [job EXCEPT ![j] = NoJob]
  BY <1>1 DEF Undo
<1>7. NoJob \in Job
  BY DEF NoJob, Job
<1>8. job' \in [Jobs -> Job] /\ \A i \in Jobs : JobOK(job'[i])
  BY <1>6, <1>7, NoJobOK, JobSetKeepsJobs
<1>9. begun' \in Nat /\ changes' \in Nat /\ faults' \in Nat
  BY <1>6, BoundsStayNumbers
<1> QED BY <1>0, <1>4, <1>5, <1>6, <1>8, <1>9 DEF TablesTyped

\* The write that the journal has let through.
LEMMA StoreKeepsTables ==
  ASSUME TablesTyped, NEW j \in Jobs, Store(j)
  PROVE  TablesTyped'
<1>0. UNCHANGED <<now, member, active, mfa, book, written, fresh, left, undone, unread>>
  BY DEF Store, people, lapses
<1>1. PICK x : x = job[j]
  OBVIOUS
<1>2. x \in Job /\ JobOK(x) /\ x.pc = "write"
  BY <1>1 DEF TablesTyped, Store
<1>3. tab \in Table /\ allowed \in [Roles -> SUBSET Regions]
  BY DEF TablesTyped
<1>4. /\ Sound \/ Fault
      /\ job' = [job EXCEPT ![j] = NoJob]
  BY DEF Store
<1>5. NoJob \in Job
  BY DEF NoJob, Job
<1>6. job' \in [Jobs -> Job] /\ \A i \in Jobs : JobOK(job'[i])
  BY <1>4, <1>5, NoJobOK, JobSetKeepsJobs
<1>7. begun' \in Nat /\ changes' \in Nat /\ faults' \in Nat
  BY <1>4, BoundsStayNumbers
<1>8. tab' \in Table /\ allowed' \in [Roles -> SUBSET Regions]
  <2>1. CASE x.kind = "delete"
    <3>1. Gone(tab, x) \in Table
      BY <1>2, <1>3, <2>1, GoneIsTable
    <3>2. tab' \in {tab, Gone(tab, x)} /\ allowed' = allowed
      BY <1>1, <2>1 DEF Store
    <3> QED BY <1>3, <3>1, <3>2
  <2>2. CASE x.kind = "regions"
    <3>1. x.role \in Roles /\ x.regions \in SUBSET Regions
      BY <1>2, <2>2 DEF JobOK, Job
    <3>2. tab' = tab /\ allowed' \in {allowed, [allowed EXCEPT ![x.role] = x.regions]}
      BY <1>1, <2>2 DEF Store
    <3> QED BY <1>3, <3>1, <3>2
  <2> QED BY <1>2, <2>1, <2>2 DEF JobOK
<1> QED BY <1>0, <1>6, <1>7, <1>8 DEF TablesTyped

\* The handler's process ends.
LEMMA DieKeepsTables ==
  ASSUME TablesTyped, NEW j \in Jobs, Die(j)
  PROVE  TablesTyped'
<1>0. UNCHANGED <<now, member, active, mfa, tab, book, allowed, written, fresh, undone, unread>>
  BY DEF Die, people
<1>1. PICK x : x = job[j]
  OBVIOUS
<1>2. JobOK(x) /\ x.pc # "idle"
  BY <1>1 DEF TablesTyped, Die
<1>3. /\ Fault /\ job' = [job EXCEPT ![j] = NoJob]
      /\ left' = IF x.kind = "new" THEN left \cup {Subject(x)} ELSE left
  BY <1>1 DEF Die
<1>4. left' \subseteq Row
  BY <1>2, <1>3 DEF TablesTyped, JobOK, Subject, Row
<1>5. NoJob \in Job
  BY DEF NoJob, Job
<1>6. job' \in [Jobs -> Job] /\ \A i \in Jobs : JobOK(job'[i])
  BY <1>3, <1>5, NoJobOK, JobSetKeepsJobs
<1>7. begun' \in Nat /\ changes' \in Nat /\ faults' \in Nat
  BY <1>3, BoundsStayNumbers
<1> QED BY <1>0, <1>4, <1>6, <1>7 DEF TablesTyped

LEMMA PeopleKeepTables ==
  ASSUME TablesTyped,
         \/ \E g \in Groups, u \in Users : ChangeMember(g, u)
         \/ \E u \in Users : Deactivate(u)
         \/ Tick
         \/ UNCHANGED vars
  PROVE  TablesTyped'
<1>1. CASE \E g \in Groups, u \in Users : ChangeMember(g, u)
  <2>1. PICK g \in Groups, u \in Users : ChangeMember(g, u)
    BY <1>1
  <2>2. member' = [member EXCEPT ![g] = (@ \cup {u}) \ (@ \cap {u})]
    BY <2>1 DEF ChangeMember
  <2>3. member' \in [Groups -> SUBSET Users]
    BY <2>2 DEF TablesTyped
  <2> QED BY <2>1, <2>3 DEF TablesTyped, ChangeMember, config, lapses
<1>2. CASE \E u \in Users : Deactivate(u)
  <2>1. PICK u \in Users : Deactivate(u)
    BY <1>2
  <2>2. active' = [active EXCEPT ![u] = FALSE]
    BY <2>1 DEF Deactivate
  <2>3. active' \in [Users -> BOOLEAN]
    BY <2>2 DEF TablesTyped
  <2> QED BY <2>1, <2>3 DEF TablesTyped, Deactivate, config, lapses
<1>3. CASE Tick
  BY <1>3 DEF TablesTyped, Tick, config, lapses, people, bounds
<1>4. CASE UNCHANGED vars
  BY <1>4 DEF TablesTyped, vars
<1> QED BY <1>1, <1>2, <1>3, <1>4

LEMMA TablesStayTyped ==
  ASSUME TablesTyped, [Next]_vars
  PROVE  TablesTyped'
<1>1. CASE \E q \in Requests : Begin(q) \/ Serve(q)
  BY <1>1, RequestsKeepTables
<1>2. CASE \E j \in Jobs : Change(j)
  BY <1>2, CreationsKeepTables, DeleteBeginKeepsTables, RegionsBeginKeepsTables DEF Change
<1>3. CASE \E j \in Jobs : Administer(j)
  BY <1>3, AuditConfigKeepsTables, UndoKeepsTables, StoreKeepsTables, DieKeepsTables DEF Administer
<1>4. CASE \/ \E g \in Groups, u \in Users : ChangeMember(g, u)
           \/ \E u \in Users : Deactivate(u)
           \/ Tick
           \/ UNCHANGED vars
  BY <1>4, PeopleKeepTables
<1> QED BY <1>1, <1>2, <1>3, <1>4 DEF Next

LEMMA TablesTypedAtFirst == Init => TablesTyped
<1> SUFFICES ASSUME Init PROVE TablesTyped
  OBVIOUS
<1>1. tab \in Table
  <2>1. {[id |-> 0, group |-> g, role |-> r] : g \in Assigned, r \in Roles \ Unused}
          \subseteq Assignment
    BY AccessAssumption DEF Assignment
  <2>2. /\ tab.accounts = Accounts \ Unused /\ tab.roles = Roles \ Unused
        /\ tab.assigned = {[id |-> 0, group |-> g, role |-> r] : g \in Assigned, r \in Roles \ Unused}
        /\ tab = [accounts |-> tab.accounts, roles |-> tab.roles, assigned |-> tab.assigned]
    BY DEF Init
  <2> QED BY <2>1, <2>2 DEF Table
<1>2. book \in [made : SUBSET Row, ended : SUBSET Row]
  <2>1. Rows(tab) \subseteq Row
    BY <1>1 DEF Rows, Row, Table
  <2>2. book = [made |-> Rows(tab), ended |-> {}]
    BY DEF Init
  <2> QED BY <2>1, <2>2
<1>3. allowed \in [Roles -> SUBSET Regions] /\ written = [r \in Roles |-> {allowed[r]}]
  BY AccessAssumption DEF Init
<1>4. job \in [Jobs -> Job] /\ \A j \in Jobs : JobOK(job[j])
  <2>1. NoJob \in Job
    BY DEF NoJob, Job
  <2> QED BY <2>1, NoJobOK DEF Init
<1>5. mfa \in [Users -> Nat \cup {None}]
  BY DEF Init
<1>6. fresh \subseteq Accounts \cup Roles
  BY AccessAssumption DEF Init
<1>7. /\ now \in Nat /\ member \in [Groups -> SUBSET Users] /\ active \in [Users -> BOOLEAN]
      /\ left \subseteq Row /\ undone \subseteq Row /\ unread \subseteq Row /\ begun \in Nat /\ changes \in Nat /\ faults \in Nat
  BY DEF Init
<1> QED BY <1>1, <1>2, <1>3, <1>4, <1>5, <1>6, <1>7 DEF TablesTyped

-----------------------------------------------------------------------------
(* A request takes a step.                                                 *)

LEMMA NoRequestOK == ReqOK(NoRequest)
<1>1. NoRequest \in RequestOf(NoRequest)
  BY DEF NoRequest, RequestOf, Doors
<1>2. NoRequest.pc = "none" /\ NoRequest.team = None
  BY DEF NoRequest
<1> QED BY <1>1, <1>2 DEF ReqOK, ReqTyped, Instant, Passed, Teamed, Listed, Tagged

\* A new request has recorded this instant.
LEMMA RequestBeginOK ==
  ASSUME AccessInv, NEW u \in Users, NEW r \in Roles, NEW region, NEW verified \in BOOLEAN,
         NEW v, NEW k, NEW pc,
         \/ k = "console" /\ pc = "role"
         \/ k = "stepup" /\ pc = "mark"
         \/ k = "api" /\ pc = "user",
         v = NewRequest(u, r, k, region, verified, pc)
  PROVE  ReqOK(v)
<1>0. \/ k = "console" /\ pc = "role"
      \/ k = "stepup" /\ pc = "mark"
      \/ k = "api" /\ pc = "user"
  OBVIOUS
<1>1. /\ v.pc = pc /\ v.kind = k /\ v.user = u /\ v.role = r
      /\ v.region = sanitizeAWSRegion(region) /\ v.regions = {}
      /\ v.mfa = mfa[u] /\ v.verified = verified /\ v.at = now /\ v.live = active[u]
      /\ v.was = Authorizing(u, r, member, tab.assigned) /\ v.offered = {allowed[r]}
      /\ v.team = None /\ v.authorizing = {} /\ v.moved = {} /\ v.door = Global
      /\ v = [pc |-> v.pc, kind |-> v.kind, user |-> v.user, role |-> v.role, region |-> v.region,
              regions |-> v.regions, mfa |-> v.mfa, verified |-> v.verified, door |-> v.door,
              authorizing |-> v.authorizing, team |-> v.team, at |-> v.at, live |-> v.live,
              was |-> v.was, offered |-> v.offered, moved |-> v.moved]
  BY DEF NewRequest, NoRequest
<1>2. /\ now \in Nat /\ mfa[u] \in Nat \cup {None} /\ active[u] \in BOOLEAN
      /\ allowed[r] \in SUBSET Regions
  BY DEF AccessInv, TablesTyped
<1>3. Authorizing(u, r, member, tab.assigned) \subseteq Groups
  BY DEF Authorizing
<1>4. sanitizeAWSRegion(region) \in Doors
  BY DEF sanitizeAWSRegion, Doors
<1>5. v \in RequestOf(v)
  <2>1. /\ v.pc \in {"mark", "user", "role"} /\ v.kind \in {"console", "stepup", "api"}
        /\ v.user \in Users /\ v.role \in Roles
        /\ v.region \in Doors /\ v.regions \in SUBSET Regions
        /\ v.mfa \in Nat \cup {None} /\ v.verified \in BOOLEAN
    BY <1>0, <1>1, <1>2, <1>4
  <2>2. /\ v.authorizing \in SUBSET Groups /\ v.team = None /\ v.at \in Nat
        /\ v.live \in BOOLEAN /\ v.was \in SUBSET Groups
        /\ v.moved \in SUBSET {"member", "assigned"}
    BY <1>1, <1>2, <1>3
  <2>3. v.offered \in SUBSET SUBSET Regions
    BY <1>1, <1>2
  <2>4. v = [pc |-> v.pc, kind |-> v.kind, user |-> v.user, role |-> v.role, region |-> v.region,
             regions |-> v.regions, mfa |-> v.mfa, verified |-> v.verified, door |-> v.door,
             authorizing |-> v.authorizing, team |-> v.team, at |-> v.at, live |-> v.live,
             was |-> v.was, offered |-> v.offered, moved |-> v.moved]
    BY <1>1
  <2> QED BY <2>1, <2>2, <2>3, <2>4 DEF RequestOf
<1>6. ReqTyped(v)
  BY <1>0, <1>1, <1>2, <1>5 DEF ReqTyped
<1>7. Instant(v)
  BY <1>1 DEF Instant
<1>8. Passed(v)
  BY <1>0, <1>1 DEF Passed, Listed
<1>9. Teamed(v)
  BY <1>0, <1>1 DEF Teamed, Tagged
<1> QED BY <1>6, <1>7, <1>8, <1>9 DEF ReqOK

LEMMA MarkStepUpOK ==
  ASSUME AccessInv, NEW x, ReqOK(x), x.pc = "mark", NEW v,
         v = [x EXCEPT !.pc = "role", !.mfa = now, !.verified = TRUE]
  PROVE  ReqOK(v)
<1>1. x \in RequestOf(x) /\ x.kind = "stepup" /\ x.at <= now /\ now \in Nat /\ x.at \in Nat
  BY DEF AccessInv, TablesTyped, ReqOK, ReqTyped, RequestOf
<1>2. v \in RequestOf(v)
  BY <1>1 DEF RequestOf
<1>3. /\ v.pc = "role" /\ v.mfa = now /\ v.kind = x.kind /\ v.user = x.user /\ v.role = x.role
      /\ v.at = x.at /\ v.was = x.was /\ v.offered = x.offered /\ v.live = x.live /\ v.team = x.team
  BY <1>1 DEF RequestOf
<1>4. ReqTyped(v)
  BY <1>1, <1>2, <1>3 DEF ReqOK, ReqTyped
<1>5. Instant(v)
  BY <1>3 DEF ReqOK, Instant
<1>6. Passed(v)
  BY <1>1, <1>3 DEF Passed, Listed
<1>7. Teamed(v)
  BY <1>3 DEF ReqOK, Teamed, Tagged
<1> QED BY <1>4, <1>5, <1>6, <1>7 DEF ReqOK

LEMMA GetUserOK ==
  ASSUME AccessInv, NEW x, ReqOK(x), x.pc = "user", active[x.user], NEW v,
         v = [x EXCEPT !.pc = "list"]
  PROVE  ReqOK(v)
<1>1. x \in RequestOf(x) /\ x.kind = "api" /\ x.live
  BY DEF ReqOK, ReqTyped, Instant
<1>2. v \in RequestOf(v)
  BY <1>1 DEF RequestOf
<1>3. /\ v.pc = "list" /\ v.mfa = x.mfa /\ v.kind = x.kind /\ v.user = x.user /\ v.role = x.role
      /\ v.at = x.at /\ v.was = x.was /\ v.offered = x.offered /\ v.live = x.live /\ v.team = x.team
  BY <1>1 DEF RequestOf
<1>4. ReqTyped(v)
  BY <1>1, <1>2, <1>3 DEF ReqOK, ReqTyped
<1>5. Instant(v)
  BY <1>3 DEF ReqOK, Instant
<1>6. Passed(v)
  BY <1>1, <1>3 DEF Passed, Listed
<1>7. Teamed(v)
  BY <1>3 DEF ReqOK, Teamed, Tagged
<1> QED BY <1>4, <1>5, <1>6, <1>7 DEF ReqOK

LEMMA GetRoleOK ==
  ASSUME AccessInv, NEW x, ReqOK(x), x.pc = "role", NEW v,
         v = [x EXCEPT !.pc = "list", !.regions = allowed[x.role]]
  PROVE  ReqOK(v)
<1>1. x \in RequestOf(x) /\ x.kind # "api" /\ x.role \in Roles
  BY DEF ReqOK, ReqTyped
<1>2. allowed[x.role] \in SUBSET Regions
  BY <1>1 DEF AccessInv, TablesTyped
<1>3. v \in RequestOf(v)
  BY <1>1, <1>2 DEF RequestOf
<1>4. /\ v.pc = "list" /\ v.mfa = x.mfa /\ v.kind = x.kind /\ v.user = x.user /\ v.role = x.role
      /\ v.at = x.at /\ v.was = x.was /\ v.offered = x.offered /\ v.live = x.live /\ v.team = x.team
  BY <1>1 DEF RequestOf
<1>5. ReqTyped(v)
  BY <1>1, <1>3, <1>4 DEF ReqOK, ReqTyped
<1>6. Instant(v)
  BY <1>4 DEF ReqOK, Instant
<1>7. Passed(v)
  BY <1>1, <1>4 DEF ReqOK, Passed, Listed
<1>8. Teamed(v)
  BY <1>4 DEF ReqOK, Teamed, Tagged
<1> QED BY <1>5, <1>6, <1>7, <1>8 DEF ReqOK

\* The role is one of the user's, the factor is fresh enough.
LEMMA CheckRoleOK ==
  ASSUME AccessInv, NEW x, ReqOK(x), x.pc = "list", x.role \in ListAWSRolesForUser(x.user),
         x.role \in Sensitive /\ x.kind = "console" => x.mfa # None /\ now - x.mfa <= StepUpTTL,
         x.role \in Sensitive /\ x.kind = "api" => x.verified,
         NEW door, NEW v,
         v = [x EXCEPT !.pc = "assignments", !.door = door, !.region = Global, !.regions = {}]
  PROVE  ReqOK(v)
<1>1. /\ x \in RequestOf(x) /\ x.kind \in {"console", "stepup", "api"} /\ now \in Nat
      /\ x.at \in Nat /\ x.at <= now /\ x.mfa \in Nat \cup {None} /\ StepUpTTL \in Nat
  BY AccessAssumption DEF AccessInv, TablesTyped, ReqOK, ReqTyped, RequestOf
<1>2. /\ v.pc = "assignments" /\ v.door = door /\ v.region = Global /\ v.regions = {}
      /\ v.mfa = x.mfa /\ v.kind = x.kind /\ v.user = x.user /\ v.role = x.role
      /\ v.at = x.at /\ v.was = x.was /\ v.offered = x.offered /\ v.live = x.live /\ v.team = x.team
      /\ v.verified = x.verified
  BY <1>1 DEF RequestOf
<1>3. v \in RequestOf(v)
  BY <1>1, <1>2 DEF RequestOf, Doors
<1>4. ReqTyped(v)
  BY <1>1, <1>2, <1>3 DEF ReqOK, ReqTyped
<1>5. Instant(v)
  BY <1>2 DEF ReqOK, Instant
<1>6. x.was # {}
  BY DEF ReqOK, Instant, ListAWSRolesForUser
<1>7. x.role \in Sensitive => IF x.kind = "api" THEN x.verified
                              ELSE x.mfa \in Nat /\ x.at <= x.mfa + StepUpTTL
  <2>1. CASE x.kind = "api"
    BY <2>1
  <2>2. CASE x.kind = "stepup"
    <3>1. x.mfa \in Nat /\ x.at <= x.mfa
      BY <2>2 DEF ReqOK, Passed
    <3> QED BY <1>1, <2>2, <3>1
  <2>3. CASE x.kind = "console" /\ x.role \in Sensitive
    <3>1. x.mfa \in Nat /\ now - x.mfa <= StepUpTTL
      BY <1>1, <2>3
    <3>2. x.at <= x.mfa + StepUpTTL
      BY <1>1, <3>1
    <3> QED BY <2>3, <3>1, <3>2
  <2> QED BY <1>1, <2>1, <2>2, <2>3
<1>8. Passed(v)
  BY <1>1, <1>2, <1>6, <1>7 DEF ReqOK, Passed, Listed
<1>9. Teamed(v)
  BY <1>2 DEF ReqOK, Teamed, Tagged
<1> QED BY <1>4, <1>5, <1>8, <1>9 DEF ReqOK

\* What the two statements that look for the team write.
LEMMA TeamFieldsTyped ==
  ASSUME NEW x, x \in RequestOf(x), NEW pc \in {"sts", "groups"}, NEW gs \in SUBSET Groups,
         NEW team \in Groups \cup {None}, NEW v,
         \/ v = [x EXCEPT !.pc = pc, !.authorizing = gs, !.moved = {}]
         \/ v = [x EXCEPT !.pc = pc, !.authorizing = gs, !.team = team]
  PROVE  v \in RequestOf(v)
<1>1. CASE v = [x EXCEPT !.pc = pc, !.authorizing = gs, !.moved = {}]
  BY <1>1 DEF RequestOf
<1>2. CASE v = [x EXCEPT !.pc = pc, !.authorizing = gs, !.team = team]
  BY <1>2 DEF RequestOf
<1> QED BY <1>1, <1>2

\* The first statement of authorizingGroupsForRole: of the groups it reads, those
\* the user is in entitle them at this instant.
LEMMA ListAssignmentsOK ==
  ASSUME AccessInv, NEW x, ReqOK(x), x.pc = "assignments", NEW gs,
         gs = {a.group : a \in {b \in tab.assigned : b.role = x.role}}, NEW v,
         v = [x EXCEPT !.pc = IF gs = {} THEN "sts" ELSE "groups", !.authorizing = gs, !.moved = {}]
  PROVE  ReqOK(v)
<1>0. PICK pc : pc = IF gs = {} THEN "sts" ELSE "groups"
  OBVIOUS
<1>1. x \in RequestOf(x) /\ x.kind \in {"console", "stepup", "api"} /\ pc \in {"sts", "groups"}
  BY <1>0 DEF ReqOK, ReqTyped
<1>2. gs \subseteq Groups
  BY DEF AccessInv, TablesTyped, Table, Assignment
<1>3. v = [x EXCEPT !.pc = pc, !.authorizing = gs, !.moved = {}]
  BY <1>0
<1>4. v \in RequestOf(v)
  <2>1. gs \in SUBSET Groups /\ None \in Groups \cup {None}
    BY <1>2
  <2> QED BY ONLY <1>1, <1>3, <2>1, TeamFieldsTyped
<1>5. /\ v.pc = pc /\ v.authorizing = gs /\ v.moved = {}
      /\ v.mfa = x.mfa /\ v.kind = x.kind /\ v.user = x.user /\ v.role = x.role
      /\ v.at = x.at /\ v.was = x.was /\ v.offered = x.offered /\ v.live = x.live /\ v.team = x.team
      /\ v.verified = x.verified
  BY <1>1, <1>3 DEF RequestOf
<1>6. ReqTyped(v)
  BY <1>1, <1>4, <1>5 DEF ReqOK, ReqTyped
<1>7. Instant(v)
  BY <1>5 DEF ReqOK, Instant
<1>8. Passed(v)
  BY <1>1, <1>5 DEF ReqOK, Passed, Listed
<1>9. Teamed(v)
  <2>1. \A g \in gs : \E a \in tab.assigned : a.group = g /\ a.role = x.role
    OBVIOUS
  <2>2. \A g \in gs : x.user \in member[g] => g \in x.was
    BY <1>2, <2>1 DEF ReqOK, Instant, Authorizing
  <2>3. x.team = None
    BY DEF ReqOK, Teamed, Tagged
  <2> QED BY <1>1, <1>5, <2>1, <2>2, <2>3 DEF Teamed, Tagged
<1> QED BY <1>6, <1>7, <1>8, <1>9 DEF ReqOK

\* The second statement: the user is in the group now; if the assignments have not
\* moved, it entitles them now, and if the members have not, it did then.
LEMMA ListGroupsOK ==
  ASSUME AccessInv, NEW x, ReqOK(x), x.pc = "groups", NEW tg,
         tg = {g \in x.authorizing : x.user \in member[g]}, NEW v,
         v = [x EXCEPT !.pc = "sts", !.authorizing = {},
                       !.team = IF tg = {} THEN None ELSE Min(tg)]
  PROVE  ReqOK(v)
<1>0. PICK team : team = IF tg = {} THEN None ELSE Min(tg)
  OBVIOUS
<1>1. x \in RequestOf(x) /\ x.kind \in {"console", "stepup", "api"} /\ x.authorizing \subseteq Groups
      /\ x.moved \subseteq {"member", "assigned"}
  BY DEF ReqOK, ReqTyped, RequestOf
<1>2. team \in tg \cup {None}
  <2>1. tg # {} => Min(tg) \in tg
    BY <1>1, MinIsMember, AccessAssumption
  <2> QED BY <1>0, <2>1
<1>3. v = [x EXCEPT !.pc = "sts", !.authorizing = {}, !.team = team]
  BY <1>0
<1>4. team \in Groups \cup {None}
  BY <1>1, <1>2
<1>5. v \in RequestOf(v)
  <2>1. {} \in SUBSET Groups /\ "sts" \in {"sts", "groups"}
    OBVIOUS
  <2> QED BY ONLY <1>1, <1>3, <1>4, <2>1, TeamFieldsTyped
<1>6. /\ v.pc = "sts" /\ v.team = team /\ v.moved = x.moved
      /\ v.mfa = x.mfa /\ v.kind = x.kind /\ v.user = x.user /\ v.role = x.role
      /\ v.at = x.at /\ v.was = x.was /\ v.offered = x.offered /\ v.live = x.live
      /\ v.verified = x.verified
  BY <1>1, <1>3 DEF RequestOf
<1>7. ReqTyped(v)
  BY <1>1, <1>5, <1>6 DEF ReqOK, ReqTyped
<1>8. Instant(v)
  BY <1>6 DEF ReqOK, Instant
<1>9. Passed(v)
  BY <1>1, <1>6 DEF ReqOK, Passed, Listed
<1>10. ASSUME team \in tg
       PROVE  team \in x.was \/ x.moved = {"member", "assigned"}
  <2>1. team \in x.authorizing /\ x.user \in member[team] /\ team \in Groups
    BY <1>1, <1>10
  <2>2. CASE "member" \notin x.moved
    BY <2>1, <2>2 DEF ReqOK, Teamed
  <2>3. CASE "assigned" \notin x.moved
    <3>1. \E a \in tab.assigned : a.group = team /\ a.role = x.role
      BY <2>1, <2>3 DEF ReqOK, Teamed
    <3> QED BY <2>1, <3>1 DEF ReqOK, Instant, Authorizing
  <2> QED BY <1>1, <2>2, <2>3
<1>11. Teamed(v)
  BY <1>2, <1>6, <1>10 DEF Teamed, Tagged
<1> QED BY <1>7, <1>8, <1>9, <1>11 DEF ReqOK

\* AWS and the journal.
LEMMA TaggedOK ==
  ASSUME AccessInv, NEW x, ReqOK(x), x.pc \in Tagged \ {"done"}, NEW pc \in Tagged, NEW v,
         v = [x EXCEPT !.pc = pc]
  PROVE  ReqOK(v)
<1>1. x \in RequestOf(x) /\ x.kind \in {"console", "stepup", "api"}
  BY DEF ReqOK, ReqTyped, Tagged
<1>2. v \in RequestOf(v)
  BY <1>1 DEF RequestOf, Tagged
<1>3. /\ v.pc = pc /\ v.moved = x.moved /\ v.team = x.team
      /\ v.mfa = x.mfa /\ v.kind = x.kind /\ v.user = x.user /\ v.role = x.role
      /\ v.at = x.at /\ v.was = x.was /\ v.offered = x.offered /\ v.live = x.live
      /\ v.verified = x.verified
  BY <1>1 DEF RequestOf
<1>4. ReqTyped(v)
  BY <1>1, <1>2, <1>3 DEF ReqOK, ReqTyped, Tagged
<1>5. Instant(v)
  BY <1>3 DEF ReqOK, Instant, Tagged
<1>6. Passed(v)
  BY <1>1, <1>3 DEF ReqOK, Passed, Listed, Tagged
<1>7. Teamed(v)
  BY <1>3 DEF ReqOK, Teamed, Tagged
<1> QED BY <1>4, <1>5, <1>6, <1>7 DEF ReqOK

-----------------------------------------------------------------------------
(* The requests, step by step.                                             *)

\* One request moves and the tables stand still.
LEMMA OneMoves ==
  ASSUME RequestsOK, NEW q \in Requests, NEW v, ReqOK(v), req' = [req EXCEPT ![q] = v],
         UNCHANGED <<now, member, active, tab, allowed>>
  PROVE  RequestsOK'
<1>1. ASSUME NEW x, ReqOK(x) PROVE ReqOK(x)'
  BY <1>1 DEF ReqOK, ReqTyped, Instant, Passed, Teamed, RequestOf
<1>2. req = [p \in Requests |-> req[p]]
  BY DEF RequestsOK
<1>3. req' = [p \in Requests |-> req'[p]]
  BY <1>2
<1>4. ASSUME NEW p \in Requests PROVE ReqOK(req[p])'
  <2>1. PICK y : y = req'[p]
    OBVIOUS
  <2>2. ReqOK(y)
    BY <1>2, <2>1 DEF RequestsOK
  <2>3. ReqOK(y)'
    BY <1>1, <2>2
  <2> QED BY <2>1, <2>3
<1> QED BY <1>3, <1>4 DEF RequestsOK

LEMMA BeginsKeepRequests ==
  ASSUME AccessInv, NEW q \in Requests, Begin(q)
  PROVE  RequestsOK'
<1>1. PICK u \in Users, r \in Roles :
        \/ \E region \in Doors \cup {Malformed} : Console(q, u, r, region) \/ StepUp(q, u, r, region)
        \/ \E verified \in BOOLEAN : AWSCredentials(q, u, r, verified)
  BY DEF Begin
<1>2. ASSUME NEW region, Console(q, u, r, region) PROVE RequestsOK'
  <2>1. PICK b : b = (mfa[u] # None)
    OBVIOUS
  <2>2. PICK v : v = NewRequest(u, r, "console", region, b, "role")
    OBVIOUS
  <2>3. b \in BOOLEAN
    BY <2>1
  <2>4. ReqOK(v)
    BY <2>2, <2>3, RequestBeginOK
  <2>5. /\ req' = [req EXCEPT ![q] = v]
        /\ UNCHANGED <<now, member, active, tab, allowed>>
    BY <1>2, <2>1, <2>2 DEF Console, RequestBegin, people, config
  <2> QED BY <2>4, <2>5, OneMoves DEF AccessInv
<1>3. ASSUME NEW region, StepUp(q, u, r, region) PROVE RequestsOK'
  <2>1. PICK b : b = (mfa[u] # None)
    OBVIOUS
  <2>2. PICK v : v = NewRequest(u, r, "stepup", region, b, "mark")
    OBVIOUS
  <2>3. b \in BOOLEAN
    BY <2>1
  <2>4. ReqOK(v)
    BY <2>2, <2>3, RequestBeginOK
  <2>5. /\ req' = [req EXCEPT ![q] = v]
        /\ UNCHANGED <<now, member, active, tab, allowed>>
    BY <1>3, <2>1, <2>2 DEF StepUp, RequestBegin, people, config
  <2> QED BY <2>4, <2>5, OneMoves DEF AccessInv
<1>4. ASSUME NEW b \in BOOLEAN, AWSCredentials(q, u, r, b) PROVE RequestsOK'
  <2>1. PICK v : v = NewRequest(u, r, "api", Global, b, "user")
    OBVIOUS
  <2>2. ReqOK(v)
    BY <2>1, RequestBeginOK
  <2>3. /\ req' = [req EXCEPT ![q] = v]
        /\ UNCHANGED <<now, member, active, tab, allowed>>
    BY <1>4, <2>1 DEF AWSCredentials, RequestBegin, people, config
  <2> QED BY <2>2, <2>3, OneMoves DEF AccessInv
<1> QED BY <1>1, <1>2, <1>3, <1>4

LEMMA ServesKeepRequests ==
  ASSUME AccessInv, NEW q \in Requests, Serve(q)
  PROVE  RequestsOK'
<1>0. PICK x : x = req[q]
  OBVIOUS
<1>1. ReqOK(x) /\ RequestsOK /\ req = [p \in Requests |-> req[p]]
  BY <1>0 DEF AccessInv, RequestsOK
<1>2. UNCHANGED <<now, member, active, tab, allowed>>
  BY RequestsKeepTables DEF AccessInv
<1>3. ASSUME NEW v, ReqOK(v), req' = [req EXCEPT ![q] = v] PROVE RequestsOK'
  BY <1>1, <1>2, <1>3, OneMoves
<1>4. CASE Refuse(q)
  BY <1>3, <1>4, NoRequestOK DEF Refuse
<1>5. CASE MarkStepUp(q) /\ ~Refuse(q)
  <2>1. PICK v : v = [x EXCEPT !.pc = "role", !.mfa = now, !.verified = TRUE]
    OBVIOUS
  <2>2. x.pc = "mark" /\ req' = [req EXCEPT ![q] = v]
    BY <1>0, <1>1, <1>5, <2>1 DEF MarkStepUp
  <2> QED BY <1>1, <1>3, <2>1, <2>2, MarkStepUpOK
<1>6. CASE GetUser(q) /\ ~Refuse(q)
  <2>1. PICK v : v = [x EXCEPT !.pc = "list"]
    OBVIOUS
  <2>2. x.pc = "user" /\ active[x.user] /\ req' = [req EXCEPT ![q] = v]
    BY <1>0, <1>1, <1>6, <2>1 DEF GetUser, Go
  <2> QED BY <1>1, <1>3, <2>1, <2>2, GetUserOK
<1>7. CASE GetRole(q) /\ ~Refuse(q)
  <2>1. PICK v : v = [x EXCEPT !.pc = "list", !.regions = allowed[x.role]]
    OBVIOUS
  <2>2. x.pc = "role" /\ req' = [req EXCEPT ![q] = v]
    BY <1>0, <1>1, <1>7, <2>1 DEF GetRole
  <2> QED BY <1>1, <1>3, <2>1, <2>2, GetRoleOK
<1>8. CASE CheckRole(q) /\ ~Refuse(q)
  <2>1. x.pc = "list" /\ x.role \in ListAWSRolesForUser(x.user)
    BY <1>0, <1>8 DEF CheckRole
  <2>2. /\ x.role \in Sensitive /\ x.kind = "console" => x.mfa # None /\ now - x.mfa <= StepUpTTL
        /\ x.role \in Sensitive /\ x.kind = "api" => x.verified
    BY <1>0, <1>8 DEF CheckRole, stepUpMFAFresh
  <2>3. PICK door : req' = [req EXCEPT ![q].pc = "assignments", ![q].door = door,
                                       ![q].region = Global, ![q].regions = {}]
    BY <1>8 DEF CheckRole
  <2>4. PICK v : v = [x EXCEPT !.pc = "assignments", !.door = door, !.region = Global,
                               !.regions = {}]
    OBVIOUS
  <2>5. req' = [req EXCEPT ![q] = v]
    BY <1>0, <1>1, <2>3, <2>4
  <2>6. ReqOK(v)
    BY <1>1, <2>1, <2>2, <2>4, CheckRoleOK
  <2> QED BY <1>3, <2>5, <2>6
<1>9. CASE ListAssignments(q)
  <2>1. PICK gs : gs = {a.group : a \in {b \in tab.assigned : b.role = x.role}}
    OBVIOUS
  <2>2. PICK v : v = [x EXCEPT !.pc = IF gs = {} THEN "sts" ELSE "groups", !.authorizing = gs,
                               !.moved = {}]
    OBVIOUS
  <2>3. x.pc = "assignments" /\ req' = [req EXCEPT ![q] = v]
    BY <1>0, <1>1, <1>9, <2>1, <2>2 DEF ListAssignments
  <2>4. ReqOK(v)
    BY <1>1, <2>1, <2>2, <2>3, ListAssignmentsOK
  <2> QED BY <1>3, <2>3, <2>4
<1>10. CASE ListGroups(q)
  <2>1. PICK tg : tg = {g \in x.authorizing : x.user \in member[g]}
    OBVIOUS
  <2>2. PICK v : v = [x EXCEPT !.pc = "sts", !.authorizing = {},
                               !.team = IF tg = {} THEN None ELSE Min(tg)]
    OBVIOUS
  <2>3. tg = TeamGroups(q)
    BY <1>0, <2>1 DEF TeamGroups
  <2>4. x.pc = "groups" /\ req' = [req EXCEPT ![q] = v]
    BY <1>0, <1>1, <1>10, <2>2, <2>3 DEF ListGroups
  <2>5. ReqOK(v)
    BY <1>1, <2>1, <2>2, <2>4, ListGroupsOK
  <2> QED BY <1>3, <2>4, <2>5
<1>11. CASE (Assume(q) \/ AuditAssumed(q)) /\ ~Refuse(q)
  <2>1. PICK pc \in Tagged : Go(q, pc) /\ x.pc \in Tagged \ {"done"}
    <3>1. CASE Assume(q) /\ ~Refuse(q)
      <4>1. PICK pc : pc = IF req[q].pc = "sts" /\ req[q].kind # "api" THEN "signin" ELSE "audit"
        OBVIOUS
      <4>2. Go(q, pc) /\ x.pc \in {"sts", "signin"}
        BY <1>0, <3>1, <4>1 DEF Assume
      <4>3. pc \in Tagged
        BY <4>1 DEF Tagged
      <4> QED BY <4>2, <4>3 DEF Tagged
    <3>2. CASE AuditAssumed(q) /\ ~Refuse(q)
      BY <1>0, <3>2 DEF AuditAssumed, Tagged
    <3> QED BY <1>11, <3>1, <3>2
  <2>2. PICK v : v = [x EXCEPT !.pc = pc]
    OBVIOUS
  <2>3. req' = [req EXCEPT ![q] = v]
    BY <1>0, <1>1, <2>1, <2>2 DEF Go
  <2> QED BY <1>1, <1>3, <2>1, <2>2, <2>3, TaggedOK
<1> QED BY <1>4, <1>5, <1>6, <1>7, <1>8, <1>9, <1>10, <1>11 DEF Serve

\* The tables change: the history of every request under way takes note.
LEMMA ObserveKeepsRequests ==
  ASSUME AccessInv, TablesTyped', NEW what \in SUBSET {"member", "assigned"},
         Observe(member', tab', allowed', what), UNCHANGED <<now, active>>,
         tab'.assigned = tab.assigned \/ "assigned" \in what,
         member' = member \/ "member" \in what
  PROVE  RequestsOK'
<1>0. req' = [q \in Requests |-> req'[q]]
  BY DEF Observe
<1>1. ASSUME NEW q \in Requests PROVE ReqOK(req[q])'
  <2>0. PICK x : x = req[q]
    OBVIOUS
  <2>1. ReqOK(x) /\ x \in RequestOf(x)
    BY <2>0 DEF AccessInv, RequestsOK, ReqOK, ReqTyped
  <2>2. CASE x.pc \in {"none", "done"}
    <3>1. req'[q] = x
      BY <2>0, <2>2 DEF Observe
    <3>2. ReqTyped(x)'
      BY <2>1 DEF ReqOK, ReqTyped, RequestOf
    <3>3. Instant(x)' /\ Passed(x)' /\ Teamed(x)'
      BY <2>1, <2>2 DEF ReqOK, Instant, Passed, Teamed, Tagged, Listed
    <3> QED BY <3>1, <3>2, <3>3 DEF ReqOK
  <2>3. CASE x.pc \notin {"none", "done"}
    <3>1. PICK gs : gs = Authorizing(x.user, x.role, member', tab'.assigned)
      OBVIOUS
    <3>2. PICK al : al = allowed'[x.role]
      OBVIOUS
    <3>3. PICK mv : mv = IF x.pc = "groups" THEN x.moved \cup what ELSE x.moved
      OBVIOUS
    <3>4. PICK v : v = [x EXCEPT !.was = x.was \cup gs, !.offered = x.offered \cup {al}, !.moved = mv]
      OBVIOUS
    <3>5. req'[q] = v
      BY <2>0, <2>3, <3>1, <3>2, <3>3, <3>4 DEF Observe
    <3>6. /\ x.user \in Users /\ x.role \in Roles /\ x.kind \in {"console", "stepup", "api"}
          /\ x.at <= now /\ x.moved \subseteq {"member", "assigned"}
      BY <2>1, <2>3 DEF ReqOK, ReqTyped, RequestOf
    <3>7. /\ gs \subseteq Groups /\ al \in SUBSET Regions /\ mv \subseteq {"member", "assigned"}
      <4>1. gs \subseteq Groups
        BY <3>1 DEF Authorizing
      <4>2. al \in SUBSET Regions
        BY <3>2, <3>6 DEF TablesTyped
      <4> QED BY <3>3, <3>6, <4>1, <4>2
    <3>8. /\ v.pc = x.pc /\ v.kind = x.kind /\ v.user = x.user /\ v.role = x.role /\ v.mfa = x.mfa
          /\ v.verified = x.verified /\ v.authorizing = x.authorizing /\ v.team = x.team
          /\ v.at = x.at /\ v.live = x.live /\ v.was = x.was \cup gs
          /\ v.offered = x.offered \cup {al} /\ v.moved = mv
      BY <2>1, <3>4 DEF RequestOf
    <3>9. v \in RequestOf(v)
      <4>1. v = [pc |-> x.pc, kind |-> x.kind, user |-> x.user, role |-> x.role, region |-> x.region,
                 regions |-> x.regions, mfa |-> x.mfa, verified |-> x.verified, door |-> x.door,
                 authorizing |-> x.authorizing, team |-> x.team, at |-> x.at, live |-> x.live,
                 was |-> x.was \cup gs, offered |-> x.offered \cup {al}, moved |-> mv]
        BY ONLY <2>1, <3>4 DEF RequestOf
      <4>2. /\ x.was \subseteq Groups /\ x.offered \subseteq SUBSET Regions
        BY ONLY <2>1 DEF RequestOf
      <4>3. /\ x.was \cup gs \in SUBSET Groups /\ x.offered \cup {al} \in SUBSET SUBSET Regions
            /\ mv \in SUBSET {"member", "assigned"}
        BY ONLY <3>7, <4>2
      <4> QED BY ONLY <2>1, <3>8, <4>1, <4>3 DEF RequestOf
    <3>10. ReqTyped(v)'
      <4>1. ReqTyped(v)
        BY <2>1, <3>8, <3>9 DEF ReqOK, ReqTyped
      <4> QED BY <4>1 DEF ReqTyped, RequestOf
    <3>11. Instant(v)'
      BY <2>1, <2>3, <3>1, <3>2, <3>8 DEF ReqOK, Instant
    <3>12. Passed(v)'
      BY <2>1, <2>3, <3>8 DEF ReqOK, Passed, Listed
    <3>13. Teamed(v)'
      <4>1. CASE x.pc = "groups"
        <5>1. mv = x.moved \cup what
          BY <3>3, <4>1
        <5>2. "assigned" \notin mv =>
                \A g \in x.authorizing : \E a \in tab'.assigned : a.group = g /\ a.role = x.role
          BY <2>1, <4>1, <5>1 DEF ReqOK, Teamed
        <5>3. "member" \notin mv =>
                \A g \in x.authorizing : x.user \in member'[g] => g \in x.was \cup gs
          BY <2>1, <4>1, <5>1 DEF ReqOK, Teamed
        <5> QED BY <2>1, <3>8, <4>1, <5>2, <5>3 DEF ReqOK, Teamed, Tagged
      <4>2. CASE x.pc # "groups"
        <5>1. mv = x.moved
          BY <3>3, <4>2
        <5> QED BY <2>1, <3>8, <4>2, <5>1 DEF ReqOK, Teamed, Tagged
      <4> QED BY <4>1, <4>2
    <3> QED BY <3>5, <3>10, <3>11, <3>12, <3>13 DEF ReqOK
  <2> QED BY <2>2, <2>3
<1> QED BY <1>0, <1>1 DEF RequestsOK

\* The requests are not concerned: at most time passes, or a user is deactivated.
LEMMA FrameKeepsRequests ==
  ASSUME AccessInv, TablesTyped', UNCHANGED <<req, member, allowed>>, tab'.assigned = tab.assigned,
         now <= now', \A u \in Users : active'[u] => active[u]
  PROVE  RequestsOK'
<1>1. ASSUME NEW q \in Requests PROVE ReqOK(req[q])'
  <2>0. PICK x : x = req[q]
    OBVIOUS
  <2>1. ReqOK(x)
    BY <2>0 DEF AccessInv, RequestsOK
  <2>2. ReqTyped(x)'
    <3>1. now \in Nat /\ now' \in Nat /\ x.at \in Nat
      BY <2>1 DEF AccessInv, TablesTyped, ReqOK, ReqTyped, RequestOf
    <3>2. x.at <= now => x.at <= now'
      BY <3>1
    <3> QED BY <2>1, <3>2 DEF ReqOK, ReqTyped, RequestOf
  <2>3. Instant(x)'
    BY <2>1 DEF ReqOK, ReqTyped, Instant
  <2>4. Passed(x)' /\ Teamed(x)'
    BY <2>1 DEF ReqOK, Passed, Teamed
  <2>5. req'[q] = x
    BY <2>0
  <2> QED BY <2>2, <2>3, <2>4, <2>5 DEF ReqOK
<1>2. req' = [q \in Requests |-> req'[q]]
  BY DEF AccessInv, RequestsOK
<1> QED BY <1>1, <1>2 DEF RequestsOK

LEMMA ChangesKeepRequests ==
  ASSUME AccessInv, TablesTyped', NEW j \in Jobs, Change(j) \/ Administer(j)
  PROVE  RequestsOK'
<1>0. tab \in Table /\ now \in Nat /\ job[j] \in Job /\ JobOK(job[j])
  BY DEF AccessInv, TablesTyped
<1>1. CASE \E acc \in Accounts : CreateAccount(j, acc)
  <2>1. /\ UNCHANGED <<req, member, allowed, now, active>>
        /\ \E acc : tab' = [tab EXCEPT !.accounts = @ \cup {acc}]
    BY <1>1 DEF CreateAccount, people
  <2>2. tab'.assigned = tab.assigned
    BY <1>0, <2>1 DEF Table
  <2> QED BY <1>0, <2>1, <2>2, FrameKeepsRequests
<1>2. CASE \E r \in Roles : CreateRole(j, r)
  <2>1. PICK r \in Roles : CreateRole(j, r)
    BY <1>2
  <2>2. UNCHANGED <<member, allowed, now, active>> /\ tab' = [tab EXCEPT !.roles = @ \cup {r}]
    BY <2>1 DEF CreateRole, people
  <2>3. tab'.assigned = tab.assigned
    BY <1>0, <2>2 DEF Table
  <2>4. Observe(member', tab', allowed', {})
    BY <2>1, <2>2 DEF CreateRole, Observe
  <2> QED BY <2>2, <2>3, <2>4, ObserveKeepsRequests
<1>3. CASE \E r \in Roles, g \in Groups : CreateAssignment(j, g, r)
  <2>1. UNCHANGED <<member, allowed, now, active>>
    BY <1>3 DEF CreateAssignment, people
  <2>2. Observe(member', tab', allowed', {"assigned"})
    BY <1>3, <2>1 DEF CreateAssignment, Observe
  <2> QED BY <2>1, <2>2, ObserveKeepsRequests
<1>4. CASE \/ \E x \in Targets : DeleteBegin(j, x)
           \/ \E r \in Roles, rs \in SUBSET Regions : RegionsBegin(j, r, rs)
           \/ AuditConfig(j) \/ Die(j)
  <2>1. UNCHANGED <<req, member, allowed, now, active, tab>>
    BY <1>4 DEF DeleteBegin, RegionsBegin, AuditConfig, Die, people, config
  <2> QED BY <1>0, <2>1, FrameKeepsRequests
<1>5. CASE Undo(j)
  <2>1. UNCHANGED <<member, allowed, now, active>>
    BY <1>5 DEF Undo, people
  <2>2. Observe(member', tab', allowed', {"assigned"})
    BY <1>5, <2>1 DEF Undo, Observe
  <2> QED BY <2>1, <2>2, ObserveKeepsRequests
<1>6. CASE Store(j)
  <2>1. UNCHANGED <<member, now, active>>
    BY <1>6 DEF Store, people
  <2>2. CASE job[j].kind = "delete"
    <3>1. Observe(member', tab', allowed', {"assigned"})
      BY <1>6, <2>1, <2>2 DEF Store, Observe
    <3> QED BY <2>1, <3>1, ObserveKeepsRequests
  <2>3. CASE job[j].kind # "delete"
    <3>1. Observe(member', tab', allowed', {}) /\ tab' = tab
      BY <1>6, <2>1, <2>3 DEF Store, Observe
    <3> QED BY <2>1, <3>1, ObserveKeepsRequests
  <2> QED BY <2>2, <2>3
<1> QED BY <1>1, <1>2, <1>3, <1>4, <1>5, <1>6 DEF Change, Administer

LEMMA PeopleKeepRequests ==
  ASSUME AccessInv, TablesTyped',
         \/ \E g \in Groups, u \in Users : ChangeMember(g, u)
         \/ \E u \in Users : Deactivate(u)
         \/ Tick
         \/ UNCHANGED vars
  PROVE  RequestsOK'
<1>0. now \in Nat /\ active \in [Users -> BOOLEAN]
  BY DEF AccessInv, TablesTyped
<1>1. CASE \E g \in Groups, u \in Users : ChangeMember(g, u)
  <2>1. UNCHANGED <<tab, allowed, now, active>>
    BY <1>1 DEF ChangeMember, config
  <2>2. Observe(member', tab', allowed', {"member"})
    BY <1>1, <2>1 DEF ChangeMember, Observe
  <2> QED BY <2>1, <2>2, ObserveKeepsRequests
<1>2. CASE \E u \in Users : Deactivate(u)
  <2>1. UNCHANGED <<req, member, allowed, now, tab>>
    BY <1>2 DEF Deactivate, config
  <2>2. \A u \in Users : active'[u] => active[u]
    BY <1>0, <1>2 DEF Deactivate
  <2> QED BY <1>0, <2>1, <2>2, FrameKeepsRequests
<1>3. CASE Tick
  <2>1. UNCHANGED <<req, member, allowed, active, tab>> /\ now <= now'
    BY <1>0, <1>3 DEF Tick, config, people
  <2> QED BY <2>1, FrameKeepsRequests
<1>4. CASE UNCHANGED vars
  <2>1. UNCHANGED <<req, member, allowed, active, tab, now>>
    BY <1>4 DEF vars
  <2> QED BY <1>0, <2>1, FrameKeepsRequests
<1> QED BY <1>1, <1>2, <1>3, <1>4

-----------------------------------------------------------------------------
(* Theorems.                                                               *)

LEMMA AccessInvStep ==
  ASSUME AccessInv, [Next]_vars
  PROVE  AccessInv'
<1>0. TablesTyped'
  BY TablesStayTyped DEF AccessInv
<1>1. CASE \E q \in Requests : Begin(q) \/ Serve(q)
  BY <1>0, <1>1, BeginsKeepRequests, ServesKeepRequests DEF AccessInv
<1>2. CASE \E j \in Jobs : Change(j) \/ Administer(j)
  BY <1>0, <1>2, ChangesKeepRequests DEF AccessInv
<1>3. CASE \/ \E g \in Groups, u \in Users : ChangeMember(g, u)
           \/ \E u \in Users : Deactivate(u)
           \/ Tick
           \/ UNCHANGED vars
  BY <1>0, <1>3, PeopleKeepRequests DEF AccessInv
<1> QED BY <1>1, <1>2, <1>3 DEF Next

\* The inductive invariant: the tables are typed, the history of every request
\* under way holds the present instant, and what a request has got past, it got
\* past on values of such instants.
THEOREM AccessInvariant == Spec => []AccessInv
<1>1. Init => AccessInv
  <2>1. Init => RequestsOK
    BY NoRequestOK DEF Init, RequestsOK
  <2> QED BY <2>1, TablesTypedAtFirst DEF AccessInv
<1>2. AccessInv /\ [Next]_vars => AccessInv'
  BY AccessInvStep
<1> QED BY <1>1, <1>2, PTL DEF Spec

\* Whoever the console tile, the step-up page or /aws/credentials hands credentials
\* to was a member of a group with that role at some instant of the request, and
\* active if they came through the API, whatever administrators did meanwhile.
THEOREM CredentialsAreEntitled == Spec => []EntitledInRequest
<1>1. AccessInv => EntitledInRequest
  BY DEF AccessInv, RequestsOK, ReqOK, Passed, EntitledInRequest, Handed, Listed
<1> QED BY <1>1, AccessInvariant, PTL

\* The team tag authorizingGroupsForRole settles on names a group that entitled the
\* user to the role at some instant of the request, unless both the members and the
\* assignments changed between its two statements.
THEOREM TeamsAreAuthorized == Spec => []TeamAuthorized
<1>1. AccessInv => TeamAuthorized
  BY DEF AccessInv, RequestsOK, ReqOK, Teamed, TeamAuthorized, Handed, Tagged
<1> QED BY <1>1, AccessInvariant, PTL

\* Credentials of a sensitive role are handed over only after a factor verified
\* during the request or at most StepUpTTL before it began; through the API, in a
\* session opened with one.
THEOREM StepUpsAreFresh == Spec => []StepUpFresh
<1>1. AccessInv => StepUpFresh
  BY AccessAssumption DEF AccessInv, RequestsOK, ReqOK, Passed, StepUpFresh, Handed, Listed
<1> QED BY <1>1, AccessInvariant, PTL

-----------------------------------------------------------------------------
(* Regions.  That ParseAWSRegions and SelectSeq return sequences is a fact  *)
(* about folds, which would take an induction over lists; it is a          *)
(* hypothesis here, and TLC evaluates it.                                  *)

ConfInv == conf \in {ParseAWSRegions(c) : c \in Settings}

LEMMA ConfStands == [Next]_vars => UNCHANGED conf
<1> SUFFICES ASSUME [Next]_vars PROVE UNCHANGED conf
  OBVIOUS
<1>1. ASSUME NEW q \in Requests, Begin(q) PROVE UNCHANGED conf
  BY <1>1 DEF Begin, Console, StepUp, AWSCredentials, RequestBegin
<1>2. ASSUME NEW q \in Requests, Serve(q) PROVE UNCHANGED conf
  BY <1>2 DEF Serve, MarkStepUp, GetUser, GetRole, CheckRole, ListAssignments, ListGroups, Assume,
              AuditAssumed
<1>3. ASSUME NEW j \in Jobs, Change(j) PROVE UNCHANGED conf
  BY <1>3 DEF Change, CreateAccount, CreateRole, CreateAssignment, DeleteBegin, RegionsBegin
<1>4. ASSUME NEW j \in Jobs, Administer(j) PROVE UNCHANGED conf
  BY <1>4 DEF Administer, AuditConfig, Undo, Store, Die
<1>5. CASE \/ \E g \in Groups, u \in Users : ChangeMember(g, u)
           \/ \E u \in Users : Deactivate(u)
           \/ Tick
           \/ UNCHANGED vars
  BY <1>5 DEF ChangeMember, Deactivate, Tick, vars
<1> QED BY <1>1, <1>2, <1>3, <1>4, <1>5 DEF Next

LEMMA OptionsStand ==
  ASSUME UNCHANGED conf, NEW rs
  PROVE  awsRegionOptions(rs)' = awsRegionOptions(rs)
<1>1. eligibleAWSRegions(rs)' = eligibleAWSRegions(rs)
  BY DEF eligibleAWSRegions
<1>2. IncludeGlobal(rs)' <=> IncludeGlobal(rs)
  BY DEF IncludeGlobal
<1> QED BY <1>1, <1>2 DEF awsRegionOptions

\* resolveAWSRegion returns nothing the tile does not offer.
LEMMA ResolvedIsOffered ==
  ASSUME ListsAreSequences, ConfInv, NEW rs \in SUBSET Regions, NEW requested,
         NEW door \in resolveAWSRegion(rs, requested)
  PROVE  IF conf.regions = <<>> THEN door = Global ELSE door \in awsRegionOptions(rs)
<1>1. PICK es : es = eligibleAWSRegions(rs)
  OBVIOUS
<1>2. es \in Seq(Regions)
  BY <1>1 DEF ListsAreSequences, ConfInv, eligibleAWSRegions
<1>3. CASE conf.regions = <<>>
  BY <1>3 DEF resolveAWSRegion
<1>4. CASE conf.regions # <<>> /\ requested # Global
  BY <1>4 DEF resolveAWSRegion
<1>5. CASE conf.regions # <<>> /\ requested = Global
  <2>1. door = Selected(rs) /\ awsRegionOptions(rs) # {}
    BY <1>5 DEF resolveAWSRegion
  <2>2. es # <<>> /\ awsRegionOptions(rs) = ToSet(es) \cup (IF IncludeGlobal(rs) THEN {Global} ELSE {})
    BY <1>1, <2>1 DEF awsRegionOptions
  <2>3. CASE Contains(es, conf.default)
    <3>1. door = conf.default
      BY <1>1, <2>1, <2>3 DEF Selected
    <3>2. conf.default \in ToSet(es)
      BY <1>2, <2>3 DEF Contains, ToSet
    <3> QED BY <1>5, <2>2, <3>1, <3>2
  <2>4. CASE ~Contains(es, conf.default) /\ IncludeGlobal(rs)
    BY <1>1, <1>5, <2>1, <2>2, <2>4 DEF Selected
  <2>5. CASE ~Contains(es, conf.default) /\ ~IncludeGlobal(rs)
    <3>1. door = es[1]
      BY <1>1, <2>1, <2>5 DEF Selected
    <3>2. es[1] \in ToSet(es)
      BY <1>2, <2>2 DEF ToSet
    <3> QED BY <1>5, <2>2, <3>1, <3>2
  <2> QED BY <2>3, <2>4, <2>5
<1> QED BY <1>3, <1>4, <1>5

LEMMA OpenedStands ==
  ASSUME UNCHANGED conf, NEW x, Opened(x)
  PROVE  Opened(x)'
BY OptionsStand DEF Opened

\* The same door, with the same or more behind it.
LEMMA OpenedGrows ==
  ASSUME NEW x, NEW v, Opened(x), v.kind = x.kind, x.offered \subseteq v.offered,
         \/ v.pc = x.pc /\ v.regions = x.regions /\ v.door = x.door
         \/ v.pc \in Listed /\ x.pc \in Listed /\ v.door = x.door
  PROVE  Opened(v)
BY DEF Opened, Listed

LEMMA ServesKeepDoors ==
  ASSUME AccessInv, ConfInv, DoorsInv, ListsAreSequences, NEW q \in Requests, Begin(q) \/ Serve(q)
  PROVE  \E v : req' = [req EXCEPT ![q] = v] /\ Opened(v)
<1>0. PICK x : x = req[q]
  OBVIOUS
<1>1. /\ ReqOK(x) /\ x \in RequestOf(x) /\ Opened(x) /\ req = [p \in Requests |-> req[p]]
  BY <1>0 DEF AccessInv, RequestsOK, ReqOK, ReqTyped, DoorsInv
<1>2. CASE Refuse(q)
  <2>1. Opened(NoRequest)
    BY DEF Opened, NoRequest, Listed
  <2> QED BY <1>2, <2>1 DEF Refuse
<1>3. CASE Begin(q)
  <2>1. PICK u \in Users, r \in Roles :
          \/ \E region \in Doors \cup {Malformed} : Console(q, u, r, region) \/ StepUp(q, u, r, region)
          \/ \E verified \in BOOLEAN : AWSCredentials(q, u, r, verified)
    BY <1>3 DEF Begin
  <2>2. req'[q].pc \in {"role", "mark", "user"} /\ req' = [req EXCEPT ![q] = req'[q]]
    <3>1. ASSUME NEW k, NEW region, NEW b, NEW pc \in {"role", "mark", "user"},
                 RequestBegin(q, u, r, k, region, b, pc)
          PROVE  req'[q].pc \in {"role", "mark", "user"} /\ req' = [req EXCEPT ![q] = req'[q]]
      BY <1>1, <3>1 DEF RequestBegin, NewRequest, NoRequest
    <3>2. CASE \E region \in Doors \cup {Malformed} : Console(q, u, r, region)
      BY <3>1, <3>2 DEF Console
    <3>3. CASE \E region \in Doors \cup {Malformed} : StepUp(q, u, r, region)
      BY <3>1, <3>3 DEF StepUp
    <3>4. CASE \E verified \in BOOLEAN : AWSCredentials(q, u, r, verified)
      BY <3>1, <3>4 DEF AWSCredentials
    <3> QED BY <2>1, <3>2, <3>3, <3>4
  <2>3. PICK v : v = req'[q]
    OBVIOUS
  <2>4. Opened(v)
    BY <2>2, <2>3 DEF Opened, Listed
  <2> QED BY <2>2, <2>3, <2>4
<1>4. CASE MarkStepUp(q) /\ ~Refuse(q)
  <2>1. PICK v : v = [x EXCEPT !.pc = "role", !.mfa = now, !.verified = TRUE]
    OBVIOUS
  <2>2. req' = [req EXCEPT ![q] = v]
    BY <1>0, <1>1, <1>4, <2>1 DEF MarkStepUp
  <2>3. v.pc = "role"
    BY <1>1, <2>1 DEF RequestOf
  <2> QED BY <2>2, <2>3 DEF Opened, Listed
<1>5. CASE GetUser(q) /\ ~Refuse(q)
  <2>1. PICK v : v = [x EXCEPT !.pc = "list"]
    OBVIOUS
  <2>2. x.pc = "user" /\ req' = [req EXCEPT ![q] = v]
    BY <1>0, <1>1, <1>5, <2>1 DEF GetUser, Go
  <2>3. v.pc = "list" /\ v.kind = x.kind /\ x.kind = "api"
    BY <1>1, <2>1, <2>2 DEF RequestOf, ReqOK, ReqTyped
  <2> QED BY <2>2, <2>3 DEF Opened, Listed
<1>6. CASE GetRole(q) /\ ~Refuse(q)
  <2>1. PICK v : v = [x EXCEPT !.pc = "list", !.regions = allowed[x.role]]
    OBVIOUS
  <2>2. x.pc = "role" /\ req' = [req EXCEPT ![q] = v]
    BY <1>0, <1>1, <1>6, <2>1 DEF GetRole
  <2>3. v.pc = "list" /\ v.regions = allowed[x.role] /\ v.offered = x.offered
    BY <1>1, <2>1 DEF RequestOf
  <2>4. allowed[x.role] \in x.offered
    BY <1>1, <2>2 DEF ReqOK, Instant
  <2> QED BY <2>2, <2>3, <2>4 DEF Opened, Listed
<1>7. CASE CheckRole(q) /\ ~Refuse(q)
  <2>1. PICK rs : rs = IF x.kind = "api" THEN {Global} ELSE resolveAWSRegion(x.regions, x.region)
    OBVIOUS
  <2>2. PICK door \in rs : req' = [req EXCEPT ![q].pc = "assignments", ![q].door = door,
                                       ![q].region = Global, ![q].regions = {}]
    BY <1>0, <1>7, <2>1 DEF CheckRole
  <2>3. PICK v : v = [x EXCEPT !.pc = "assignments", !.door = door, !.region = Global,
                               !.regions = {}]
    OBVIOUS
  <2>4. x.pc = "list" /\ req' = [req EXCEPT ![q] = v]
    BY <1>0, <1>1, <1>7, <2>2, <2>3 DEF CheckRole
  <2>5. v.pc = "assignments" /\ v.kind = x.kind /\ v.door = door /\ v.offered = x.offered
    BY <1>1, <2>3 DEF RequestOf
  <2>6. ASSUME x.kind # "api"
        PROVE  IF conf.regions = <<>> THEN door = Global
               ELSE \E os \in x.offered : door \in awsRegionOptions(os)
    <3>1. x.regions \in x.offered /\ x.regions \in SUBSET Regions
      BY <1>1, <2>4, <2>6 DEF Opened, RequestOf
    <3>2. door \in resolveAWSRegion(x.regions, x.region)
      BY <2>1, <2>2, <2>6
    <3>3. IF conf.regions = <<>> THEN door = Global ELSE door \in awsRegionOptions(x.regions)
      BY <3>1, <3>2, ResolvedIsOffered
    <3> QED BY <3>1, <3>3
  <2> QED BY <2>4, <2>5, <2>6 DEF Opened
<1>8. CASE ListAssignments(q)
  <2>1. PICK gs, pc : /\ pc \in {"sts", "groups"} /\ req[q].pc = "assignments"
                      /\ req' = [req EXCEPT ![q].pc = pc, ![q].authorizing = gs, ![q].moved = {}]
    BY <1>8 DEF ListAssignments
  <2>2. PICK v : v = [x EXCEPT !.pc = pc, !.authorizing = gs, !.moved = {}]
    OBVIOUS
  <2>3. req' = [req EXCEPT ![q] = v]
    BY <1>0, <1>1, <2>1, <2>2
  <2>4. v.pc = pc /\ v.kind = x.kind /\ v.door = x.door /\ v.offered = x.offered
    BY <1>1, <2>2 DEF RequestOf
  <2>5. Opened(v)
    BY <1>0, <1>1, <2>1, <2>4, OpenedGrows DEF Listed
  <2> QED BY <2>3, <2>5
<1>9. CASE ListGroups(q)
  <2>1. PICK team : /\ req[q].pc = "groups"
                    /\ req' = [req EXCEPT ![q].pc = "sts", ![q].authorizing = {}, ![q].team = team]
    BY <1>9 DEF ListGroups
  <2>2. PICK v : v = [x EXCEPT !.pc = "sts", !.authorizing = {}, !.team = team]
    OBVIOUS
  <2>3. req' = [req EXCEPT ![q] = v]
    BY <1>0, <1>1, <2>1, <2>2
  <2>4. v.pc = "sts" /\ v.kind = x.kind /\ v.door = x.door /\ v.offered = x.offered
    BY <1>1, <2>2 DEF RequestOf
  <2>5. Opened(v)
    BY <1>0, <1>1, <2>1, <2>4, OpenedGrows DEF Listed
  <2> QED BY <2>3, <2>5
<1>10. CASE (Assume(q) \/ AuditAssumed(q)) /\ ~Refuse(q)
  <2>1. PICK pc : Go(q, pc) /\ pc \in Listed /\ x.pc \in Listed
    BY <1>0, <1>10 DEF Assume, AuditAssumed, Listed
  <2>2. PICK v : v = [x EXCEPT !.pc = pc]
    OBVIOUS
  <2>3. req' = [req EXCEPT ![q] = v]
    BY <1>0, <1>1, <2>1, <2>2 DEF Go
  <2>4. v.pc = pc /\ v.kind = x.kind /\ v.door = x.door /\ v.offered = x.offered
    BY <1>1, <2>2 DEF RequestOf
  <2>5. Opened(v)
    BY <1>1, <2>1, <2>4, OpenedGrows
  <2> QED BY <2>3, <2>5
<1> QED BY <1>2, <1>3, <1>4, <1>5, <1>6, <1>7, <1>8, <1>9, <1>10 DEF Serve

LEMMA ObserveKeepsDoors ==
  ASSUME AccessInv, DoorsInv, NEW m, NEW t, NEW al, NEW what, Observe(m, t, al, what)
  PROVE  \A q \in Requests : Opened(req'[q])
<1> SUFFICES ASSUME NEW q \in Requests PROVE Opened(req'[q])
  OBVIOUS
<1>0. PICK x : x = req[q]
  OBVIOUS
<1>1. x \in RequestOf(x) /\ Opened(x)
  BY <1>0 DEF AccessInv, RequestsOK, ReqOK, ReqTyped, DoorsInv
<1>2. CASE x.pc \in {"none", "done"}
  BY <1>0, <1>1, <1>2 DEF Observe
<1>3. CASE x.pc \notin {"none", "done"}
  <2>0. PICK of : of = x.offered \cup {al[x.role]}
    OBVIOUS
  <2>1. req'[q] = [x EXCEPT !.was = @ \cup Authorizing(x.user, x.role, m, t.assigned),
                            !.offered = of,
                            !.moved = IF x.pc = "groups" THEN @ \cup what ELSE @]
    BY <1>0, <1>3, <2>0 DEF Observe
  <2>2. PICK v : v = [x EXCEPT !.was = @ \cup Authorizing(x.user, x.role, m, t.assigned),
                               !.offered = of,
                               !.moved = IF x.pc = "groups" THEN @ \cup what ELSE @]
    OBVIOUS
  <2>3. /\ v.pc = x.pc /\ v.kind = x.kind /\ v.regions = x.regions /\ v.door = x.door
        /\ v.offered = of
    BY <1>1, <2>2 DEF RequestOf
  <2>4. Opened(v)
    BY <1>1, <2>0, <2>3, OpenedGrows
  <2> QED BY <2>1, <2>2, <2>4
<1> QED BY <1>2, <1>3

LEMMA DoorsInvStep ==
  ASSUME AccessInv, ConfInv, DoorsInv, ListsAreSequences, [Next]_vars
  PROVE  DoorsInv'
<1>0. UNCHANGED conf
  BY ConfStands
<1>1. SUFFICES \A q \in Requests : Opened(req'[q])
  <2>1. ASSUME NEW q \in Requests PROVE Opened(req[q])'
    <3>1. PICK v : v = req'[q]
      OBVIOUS
    <3>2. Opened(v)'
      BY <1>0, <1>1, <3>1, OpenedStands
    <3> QED BY <3>1, <3>2
  <2> QED BY <2>1 DEF DoorsInv
<1>2. CASE UNCHANGED req
  BY <1>2 DEF DoorsInv
<1>3. CASE \E q \in Requests : Begin(q) \/ Serve(q)
  <2>0. PICK q \in Requests : \E v : req' = [req EXCEPT ![q] = v] /\ Opened(v)
    BY <1>3, ServesKeepDoors
  <2>1. PICK v : req' = [req EXCEPT ![q] = v] /\ Opened(v)
    BY <2>0
  <2>2. req = [p \in Requests |-> req[p]]
    BY DEF AccessInv, RequestsOK
  <2> QED BY <2>1, <2>2 DEF DoorsInv
<1>4. CASE \E m, t, al, what : Observe(m, t, al, what)
  BY <1>4, ObserveKeepsDoors
<1>5. ASSUME NEW j \in Jobs, Change(j) PROVE UNCHANGED req \/ \E m, t, al, what : Observe(m, t, al, what)
  BY <1>5 DEF Change, CreateAccount, CreateRole, CreateAssignment, DeleteBegin, RegionsBegin
<1>6. ASSUME NEW j \in Jobs, Administer(j) PROVE UNCHANGED req \/ \E m, t, al, what : Observe(m, t, al, what)
  BY <1>6 DEF Administer, AuditConfig, Undo, Store, Die
<1>7. CASE \E g \in Groups, u \in Users : ChangeMember(g, u)
  BY <1>4, <1>7 DEF ChangeMember
<1>8. CASE (\E u \in Users : Deactivate(u)) \/ Tick \/ UNCHANGED vars
  BY <1>2, <1>8 DEF Deactivate, Tick, vars
<1> QED BY <1>2, <1>3, <1>4, <1>5, <1>6, <1>7, <1>8 DEF Next

\* The door awsConsoleURL opens is one the tile offered for the role at some instant
\* of the request, whichever page the request came through, provided that parsing
\* and narrowing the configured regions gives lists of regions.
THEOREM DoorsAreOffered ==
  ASSUME ListsAreSequences
  PROVE  Spec => []RegionOffered
<1>1. Init => ConfInv /\ DoorsInv
  <2>1. NoRequest.pc = "none"
    BY DEF NoRequest
  <2> QED BY <2>1 DEF Init, ConfInv, DoorsInv, Opened, Listed
<1>2. AccessInv /\ ConfInv /\ DoorsInv /\ [Next]_vars => (ConfInv /\ DoorsInv)'
  BY ConfStands, DoorsInvStep DEF ConfInv
<1>3. DoorsInv => RegionOffered
  BY DEF DoorsInv, Opened, RegionOffered, Handed, Listed
<1> QED BY <1>1, <1>2, <1>3, AccessInvariant, PTL DEF Spec

-----------------------------------------------------------------------------
(* The journal and the tables.                                             *)
(*                                                                         *)
(* A row that left the tables while the journal had it, or a handler had   *)
(* it in hand, has itself or an ancestor ended in the journal, taken back, *)
(* or deleted without the journal; a handler about to delete has an entry  *)
(* of that kind.                                                           *)

Unbegun == \A j \in Jobs : j > changes => job[j] = NoJob

Present == \A x \in Rows(tab) : x \in book.made \cup left \/ InHand(x)

Vanished ==
  \A x \in Row \ Rows(tab) : x \in book.made \/ InHand(x) =>
    Chain(x) \cap (book.ended \cup undone \cup unread) # {}

Ended ==
  \A j \in Jobs : job[j].kind = "delete" /\ job[j].pc = "write" =>
    Subject(job[j]) \in book.ended \cup unread

RegionsKept ==
  /\ \A j \in Jobs : job[j].kind = "regions" /\ job[j].pc = "write" =>
       job[j].regions \in written[job[j].role]
  /\ \A r \in Roles : allowed[r] \in written[r]

JournalInv == Unbegun /\ Present /\ Vanished /\ Ended /\ RegionsKept

\* The record of a handler that has inserted s.
Creates(x, s) == x.pc # "idle" /\ x.kind = "new" /\ Subject(x) = s

LEMMA ChainsOf ==
  /\ \A x \in Accounts : Chain(x) = {x}
  /\ \A x \in Roles : AccountOf[x] \in Accounts /\ Chain(x) = {x, AccountOf[x]}
  /\ \A x \in Assignment :
       x.role \in Roles /\ AccountOf[x.role] \in Accounts /\ Chain(x) = {x, x.role, AccountOf[x.role]}
<1>1. AccountOf \in [Roles -> Accounts] /\ \A x \in Assignment : x.role \in Roles
  BY AccessAssumption DEF Assignment
<1> QED BY <1>1, RowsAssumption DEF Chain

\* What a handler that creates or deletes is about.
HasSubject(x) == \/ x.what = "account" /\ x.account \in Accounts
                 \/ x.what = "role" /\ x.role \in Roles
                 \/ x.what = "assignment" /\ x.row \in Assignment

\* A deletion takes away the row and every row that leads to it.
LEMMA GoneRows ==
  ASSUME NEW t \in Table, NEW x, HasSubject(x)
  PROVE  /\ Subject(x) \in Row
         /\ Rows(Gone(t, x)) = {y \in Rows(t) : Subject(x) \notin Chain(y)}
         /\ Lost(t, x) = {y \in Rows(t) : Subject(x) \in Chain(y)}
<1>0. t.accounts \subseteq Accounts /\ t.roles \subseteq Roles /\ t.assigned \subseteq Assignment
  BY DEF Table
<1>1. Subject(x) \in Row /\ Rows(Gone(t, x)) = {y \in Rows(t) : Subject(x) \notin Chain(y)}
  <2>1. CASE x.what = "account" /\ x.account \in Accounts
    <3>1. PICK acc : acc = x.account
      OBVIOUS
    <3>2. Subject(x) = acc /\ Gone(t, x) = WithoutAccount(t, acc) /\ acc \in Accounts
      BY <2>1, <3>1 DEF Subject, Gone
    <3>3. Rows(Gone(t, x)) = (t.accounts \ {acc}) \cup {r \in t.roles : AccountOf[r] # acc}
                             \cup {a \in t.assigned : AccountOf[a.role] # acc}
      BY <3>2 DEF WithoutAccount, Rows
    <3>4. /\ \A y \in t.accounts : acc \notin Chain(y) <=> y # acc
          /\ \A y \in t.roles : acc \notin Chain(y) <=> AccountOf[y] # acc
          /\ \A y \in t.assigned : acc \notin Chain(y) <=> AccountOf[y.role] # acc
      BY <1>0, <3>2, ChainsOf, RowsAssumption
    <3> QED BY <3>2, <3>3, <3>4 DEF Rows, Row
  <2>2. CASE x.what = "role" /\ x.role \in Roles
    <3>1. PICK r : r = x.role
      OBVIOUS
    <3>2. Subject(x) = r /\ Gone(t, x) = WithoutRole(t, r) /\ r \in Roles
      BY <2>2, <3>1 DEF Subject, Gone
    <3>3. Rows(Gone(t, x)) = t.accounts \cup (t.roles \ {r}) \cup {a \in t.assigned : a.role # r}
      BY <3>2 DEF WithoutRole, Rows, Table
    <3>4. /\ \A y \in t.accounts : r \notin Chain(y)
          /\ \A y \in t.roles : r \notin Chain(y) <=> y # r
          /\ \A y \in t.assigned : r \notin Chain(y) <=> y.role # r
      BY <1>0, <3>2, ChainsOf, RowsAssumption
    <3> QED BY <3>2, <3>3, <3>4 DEF Rows, Row
  <2>3. CASE x.what = "assignment" /\ x.row \in Assignment
    <3>1. PICK a : a = x.row
      OBVIOUS
    <3>2. Subject(x) = a /\ Gone(t, x) = WithoutAssignment(t, a) /\ a \in Assignment
      BY <2>3, <3>1 DEF Subject, Gone
    <3>3. Rows(Gone(t, x)) = t.accounts \cup t.roles \cup (t.assigned \ {a})
      BY <3>2 DEF WithoutAssignment, Rows, Table
    <3>4. /\ \A y \in t.accounts : a \notin Chain(y)
          /\ \A y \in t.roles : a \notin Chain(y)
          /\ \A y \in t.assigned : a \notin Chain(y) <=> y # a
      BY <1>0, <3>2, ChainsOf, RowsAssumption
    <3> QED BY <1>0, <3>2, <3>3, <3>4, RowsAssumption DEF Rows, Row
  <2> QED BY <2>1, <2>2, <2>3 DEF HasSubject
<1> QED BY <1>1 DEF Lost

LEMMA JobOKHasSubject ==
  ASSUME NEW x, JobOK(x), x.pc # "idle", x.kind \in {"new", "delete"}
  PROVE  HasSubject(x)
BY DEF JobOK, HasSubject

LEMMA SameSubject ==
  ASSUME NEW x, NEW y, HasSubject(x), y.what = x.what, y.account = x.account, y.role = x.role,
         y.row = x.row
  PROVE  Subject(y) = Subject(x) /\ HasSubject(y)
<1>1. CASE x.what = "account"
  BY <1>1 DEF Subject, HasSubject
<1>2. CASE x.what = "role"
  BY <1>2 DEF Subject, HasSubject
<1>3. CASE x.what = "assignment"
  BY <1>3 DEF Subject, HasSubject
<1> QED BY <1>1, <1>2, <1>3 DEF HasSubject

LEMMA RowsAreTyped == TablesTyped => Rows(tab) \subseteq Row
BY DEF TablesTyped, Table, Rows, Row

\* One handler moves from job[j] to y.  Rows come with the handler that inserts
\* them and go with a reason; a row leaves a handler's hands for the journal, or
\* is left.
LEMMA OneHandlerMoves ==
  ASSUME TablesTyped, JournalInv, NEW j \in Jobs, NEW y, job' = [job EXCEPT ![j] = y],
         changes' \in {changes, changes + 1}, j <= changes',
         book.made \subseteq book'.made, book.ended \subseteq book'.ended,
         left \subseteq left', undone \subseteq undone', unread \subseteq unread',
         \A x \in Rows(tab)' : x \in Rows(tab) \/ Creates(y, x),
         \A x \in Rows(tab)' : Creates(job[j], x) => Creates(y, x) \/ x \in book'.made \cup left',
         \A x \in Rows(tab) \ Rows(tab)' :
           Chain(x) \cap (book'.ended \cup undone' \cup unread') # {},
         \A x \in Row \ Rows(tab)' :
           x \in book'.made \ book.made \/ Creates(y, x) => Creates(job[j], x),
         y.kind = "delete" /\ y.pc = "write" => Subject(y) \in book'.ended \cup unread',
         \A r \in Roles : written[r] \subseteq written'[r],
         y.kind = "regions" /\ y.pc = "write" => y.regions \in written'[y.role],
         \A r \in Roles : allowed'[r] = allowed[r] \/ allowed'[r] \in written'[r]
  PROVE  JournalInv'
<1>1. job'[j] = y /\ \A i \in Jobs \ {j} : job'[i] = job[i]
  BY DEF TablesTyped
<1>2. Rows(tab) \subseteq Row
  BY RowsAreTyped
<1>3. \A x : InHand(x) <=> \E i \in Jobs : Creates(job[i], x)
  BY DEF InHand, Creates
<1>4. \A x : InHand(x)' <=> \E i \in Jobs : Creates(job'[i], x)
  BY DEF InHand, Creates
<1>5. \A x : InHand(x)' <=> Creates(y, x) \/ \E i \in Jobs \ {j} : Creates(job[i], x)
  BY <1>1, <1>4
<1>6. Unbegun'
  BY <1>1 DEF JournalInv, Unbegun, TablesTyped, Jobs
<1>7. Present'
  <2>1. ASSUME NEW x \in Rows(tab)'
        PROVE  x \in book'.made \cup left' \/ InHand(x)'
    <3>1. CASE Creates(y, x)
      BY <1>5, <3>1
    <3>2. CASE x \in Rows(tab) /\ x \in book.made \cup left
      BY <3>2
    <3>3. CASE x \in Rows(tab) /\ InHand(x)
      BY <1>3, <1>5, <2>1, <3>3
    <3> QED BY <2>1, <3>1, <3>2, <3>3 DEF JournalInv, Present
  <2> QED BY <2>1 DEF Present
<1>8. Vanished'
  <2>1. ASSUME NEW x \in Row, x \notin Rows(tab)', x \in book'.made \/ InHand(x)'
        PROVE  Chain(x) \cap (book'.ended \cup undone' \cup unread') # {}
    <3>1. CASE x \in Rows(tab)
      BY <2>1, <3>1
    <3>2. CASE x \notin Rows(tab)
      <4>1. x \in book.made \/ InHand(x)
        BY <1>3, <1>5, <2>1
      <4>2. Chain(x) \cap (book.ended \cup undone \cup unread) # {}
        BY <3>2, <4>1 DEF JournalInv, Vanished
      <4> QED BY <4>2
    <3> QED BY <3>1, <3>2
  <2>2. \A x : Chain(x)' = Chain(x)
    BY DEF Chain
  <2> QED BY <2>1, <2>2 DEF Vanished
<1>9. Ended'
  BY <1>1 DEF JournalInv, Ended
<1>10. RegionsKept'
  <2>1. ASSUME NEW i \in Jobs, job'[i].kind = "regions", job'[i].pc = "write"
        PROVE  job'[i].regions \in written'[job'[i].role]
    <3>1. CASE i = j
      BY <1>1, <2>1, <3>1
    <3>2. CASE i # j
      <4>1. job'[i] = job[i] /\ JobOK(job[i])
        BY <1>1, <3>2 DEF TablesTyped
      <4>2. job[i].role \in Roles /\ job[i].regions \in written[job[i].role]
        BY <2>1, <4>1 DEF JobOK, JournalInv, RegionsKept
      <4> QED BY <4>1, <4>2
    <3> QED BY <3>1, <3>2
  <2>2. \A r \in Roles : allowed'[r] \in written'[r]
    BY DEF JournalInv, RegionsKept
  <2> QED BY <2>1, <2>2 DEF RegionsKept
<1> QED BY <1>6, <1>7, <1>8, <1>9, <1>10 DEF JournalInv

\* A handler that has begun is among those counted.
LEMMA HandlersAreCounted ==
  ASSUME TablesTyped, JournalInv, NEW j \in Jobs, job[j].pc # "idle"
  PROVE  j <= changes
BY DEF JournalInv, Unbegun, NoJob, TablesTyped, Jobs

\* A creation begins: the row and its handler come together.
LEMMA InsertKeepsJournal ==
  ASSUME TablesTyped, JournalInv, NEW j \in Jobs, NEW x, JobBegin(j, x), x.pc = "audit", x.kind = "new",
         Rows(tab)' = Rows(tab) \cup {Subject(x)},
         UNCHANGED <<book, allowed, written, lapses>>
  PROVE  JournalInv'
<1>1. /\ job' = [job EXCEPT ![j] = x] /\ changes' = changes + 1 /\ j <= changes'
      /\ job[j].pc = "idle" /\ x.pc # "idle" /\ x.pc # "write"
  BY DEF JobBegin, JournalInv, Unbegun, NoJob, TablesTyped, Jobs
<1>2. UNCHANGED <<left, undone, unread, book, allowed, written>>
  BY DEF lapses
<1>3. \A s : /\ Creates(x, s) <=> s = Subject(x)
             /\ ~Creates(job[j], s)
  BY <1>1 DEF Creates
<1> QED BY <1>1, <1>2, <1>3, OneHandlerMoves

LEMMA CreationsKeepJournal ==
  ASSUME TablesTyped, JournalInv, NEW j \in Jobs,
         \/ \E acc \in Accounts : CreateAccount(j, acc)
         \/ \E r \in Roles : CreateRole(j, r)
         \/ \E r \in Roles, g \in Groups : CreateAssignment(j, g, r)
  PROVE  JournalInv'
<1>0. tab \in Table
  BY DEF TablesTyped
<1>1. CASE \E acc \in Accounts : CreateAccount(j, acc)
  <2>1. PICK acc \in Accounts : CreateAccount(j, acc)
    BY <1>1
  <2>2. PICK x : x = [NoJob EXCEPT !.pc = "audit", !.kind = "new", !.what = "account", !.account = acc]
    OBVIOUS
  <2>3. x.pc = "audit" /\ x.kind = "new" /\ Subject(x) = acc
    BY <2>2 DEF NoJob, Subject
  <2>4. /\ JobBegin(j, x) /\ tab' = [tab EXCEPT !.accounts = @ \cup {acc}]
        /\ UNCHANGED <<book, allowed, written, lapses>>
    BY <2>1, <2>2 DEF CreateAccount
  <2>5. Rows(tab)' = Rows(tab) \cup {acc}
    BY <1>0, <2>4 DEF Rows, Table
  <2> QED BY <2>3, <2>4, <2>5, InsertKeepsJournal
<1>2. CASE \E r \in Roles : CreateRole(j, r)
  <2>1. PICK r \in Roles : CreateRole(j, r)
    BY <1>2
  <2>2. PICK x : x = [NoJob EXCEPT !.pc = "audit", !.kind = "new", !.what = "role", !.role = r]
    OBVIOUS
  <2>3. x.pc = "audit" /\ x.kind = "new" /\ Subject(x) = r
    BY <2>2 DEF NoJob, Subject
  <2>4. /\ JobBegin(j, x) /\ tab' = [tab EXCEPT !.roles = @ \cup {r}]
        /\ UNCHANGED <<book, allowed, written, lapses>>
    BY <2>1, <2>2 DEF CreateRole
  <2>5. Rows(tab)' = Rows(tab) \cup {r}
    BY <1>0, <2>4 DEF Rows, Table
  <2> QED BY <2>3, <2>4, <2>5, InsertKeepsJournal
<1>3. CASE \E r \in Roles, g \in Groups : CreateAssignment(j, g, r)
  <2>1. PICK r \in Roles, g \in Groups : CreateAssignment(j, g, r)
    BY <1>3
  <2>2. PICK a : a = [id |-> j, group |-> g, role |-> r]
    OBVIOUS
  <2>3. PICK x : x = [NoJob EXCEPT !.pc = "audit", !.kind = "new", !.what = "assignment", !.row = a]
    OBVIOUS
  <2>4. x.pc = "audit" /\ x.kind = "new" /\ Subject(x) = a
    BY <2>3 DEF NoJob, Subject
  <2>5. /\ JobBegin(j, x) /\ tab' = [tab EXCEPT !.assigned = @ \cup {a}]
        /\ UNCHANGED <<book, allowed, written, lapses>>
    BY <2>1, <2>2, <2>3 DEF CreateAssignment
  <2>6. Rows(tab)' = Rows(tab) \cup {a}
    BY <1>0, <2>5 DEF Rows, Table
  <2> QED BY <2>4, <2>5, <2>6, InsertKeepsJournal
<1> QED BY <1>1, <1>2, <1>3

LEMMA TargetsHaveSubjects ==
  ASSUME TablesTyped, NEW x \in Targets
  PROVE  x \in Job /\ HasSubject(x) /\ x.kind = "delete" /\ Subject(x) \in Rows(tab)
<1>1. tab.accounts \subseteq Accounts /\ tab.roles \subseteq Roles /\ tab.assigned \subseteq Assignment
  BY DEF TablesTyped, Table
<1>2. CASE \E acc \in tab.accounts :
             x = [NoJob EXCEPT !.kind = "delete", !.what = "account", !.account = acc]
  BY <1>1, <1>2 DEF NoJob, Job, HasSubject, Subject, Rows
<1>3. CASE \E r \in tab.roles :
             x = [NoJob EXCEPT !.kind = "delete", !.what = "role", !.role = r]
  BY <1>1, <1>3 DEF NoJob, Job, HasSubject, Subject, Rows
<1>4. CASE \E a \in tab.assigned :
             x = [NoJob EXCEPT !.kind = "delete", !.what = "assignment", !.row = a]
  BY <1>1, <1>4 DEF NoJob, Job, HasSubject, Subject, Rows
<1> QED BY <1>2, <1>3, <1>4 DEF Targets

\* A deletion begins, with the journal or, its read having failed, without it; or
\* a change of regions.
LEMMA OthersBeginKeepJournal ==
  ASSUME TablesTyped, JournalInv, NEW j \in Jobs,
         \/ \E x \in Targets : DeleteBegin(j, x)
         \/ \E r \in Roles, rs \in SUBSET Regions : RegionsBegin(j, r, rs)
  PROVE  JournalInv'
<1>1. UNCHANGED <<tab, book, allowed, written, left, undone>> /\ unread \subseteq unread'
  BY DEF DeleteBegin, RegionsBegin, config, lapses
<1>2. PICK y : /\ j = changes + 1 /\ changes' = j /\ job' = [job EXCEPT ![j] = y]
               /\ y.kind # "new"
               /\ y.pc = "write" => y.kind = "delete" /\ Subject(y) \in unread'
  <2>1. ASSUME NEW x \in Targets, NEW pc
        PROVE  \E y : y = [x EXCEPT !.pc = pc] /\ y.pc = pc /\ y.kind = "delete"
                     /\ Subject(y) = Subject(x)
    <3>1. x \in Job /\ HasSubject(x) /\ x.kind = "delete"
      BY TargetsHaveSubjects
    <3>2. PICK y : y = [x EXCEPT !.pc = pc]
      OBVIOUS
    <3>3. /\ y.pc = pc /\ y.kind = x.kind /\ y.what = x.what /\ y.account = x.account
          /\ y.role = x.role /\ y.row = x.row
      BY <3>1, <3>2 DEF Job
    <3>4. Subject(y) = Subject(x)
      BY <3>1, <3>3, SameSubject
    <3> QED BY <3>1, <3>2, <3>3, <3>4
  <2>2. CASE \E x \in Targets : DeleteBegin(j, x)
    <3>1. PICK x \in Targets : DeleteBegin(j, x)
      BY <2>2
    <3>2. CASE JobBegin(j, [x EXCEPT !.pc = "audit"])
      <4>1. PICK y : /\ y = [x EXCEPT !.pc = "audit"] /\ y.pc = "audit" /\ y.kind = "delete"
                     /\ Subject(y) = Subject(x)
        BY <2>1
      <4> QED BY <3>2, <4>1 DEF JobBegin
    <3>3. CASE /\ j = changes + 1 /\ changes' = j /\ unread' = unread \cup {Subject(x)}
               /\ job' = [job EXCEPT ![j] = [x EXCEPT !.pc = "write"]]
      <4>1. PICK y : /\ y = [x EXCEPT !.pc = "write"] /\ y.pc = "write" /\ y.kind = "delete"
                     /\ Subject(y) = Subject(x)
        BY <2>1
      <4> QED BY <3>3, <4>1
    <3> QED BY <3>1, <3>2, <3>3 DEF DeleteBegin
  <2>3. CASE \E r \in Roles, rs \in SUBSET Regions : RegionsBegin(j, r, rs)
    <3>1. PICK r \in Roles, rs \in SUBSET Regions : RegionsBegin(j, r, rs)
      BY <2>3
    <3>2. PICK x : x = [NoJob EXCEPT !.pc = "audit", !.kind = "regions", !.role = r, !.regions = rs]
      OBVIOUS
    <3>3. x.pc = "audit" /\ x.kind = "regions"
      BY <3>2 DEF NoJob
    <3> QED BY <3>1, <3>2, <3>3 DEF RegionsBegin, JobBegin
  <2> QED BY <2>2, <2>3
<1>3. job[j].pc = "idle" /\ j <= changes' /\ changes' = changes + 1
  BY <1>2 DEF JournalInv, Unbegun, NoJob, TablesTyped, Jobs
<1>4. Rows(tab)' = Rows(tab)
  BY <1>1 DEF Rows
<1>5. \A s : ~Creates(y, s) /\ ~Creates(job[j], s)
  BY <1>2, <1>3 DEF Creates
<1>6. /\ y.kind = "delete" /\ y.pc = "write" => Subject(y) \in book'.ended \cup unread'
      /\ ~(y.kind = "regions" /\ y.pc = "write")
  BY <1>2
<1> QED BY <1>1, <1>2, <1>3, <1>4, <1>5, <1>6, OneHandlerMoves

\* The journal stores an event, or not, and answers, or not.
LEMMA AuditConfigKeepsJournal ==
  ASSUME TablesTyped, JournalInv, NEW j \in Jobs, AuditConfig(j)
  PROVE  JournalInv'
<1>1. PICK x : x = job[j]
  OBVIOUS
<1>2. x \in Job /\ JobOK(x) /\ x.pc = "audit" /\ x.kind \in {"new", "delete", "regions"}
  BY <1>1 DEF TablesTyped, AuditConfig, JobOK
<1>3. /\ UNCHANGED <<tab, allowed, left, undone, unread, changes>> /\ Rows(tab)' = Rows(tab)
      /\ book \in [made : SUBSET Row, ended : SUBSET Row]
      /\ written \in [Roles -> SUBSET SUBSET Regions]
  BY DEF AuditConfig, TablesTyped, Sound, Fault, bounds, lapses, Rows
<1>4. j <= changes
  BY <1>1, <1>2, HandlersAreCounted
<1>5. /\ book.made \subseteq book'.made /\ book.ended \subseteq book'.ended
      /\ \A s \in book'.made \ book.made : Creates(x, s)
      /\ \A r \in Roles : written[r] \subseteq written'[r]
  <2>1. CASE UNCHANGED <<book, written>>
    BY <2>1
  <2>2. CASE Stored(x)
    <3>1. CASE x.kind = "new"
      BY <1>2, <1>3, <2>2, <3>1 DEF Stored, Creates
    <3>2. CASE x.kind = "delete"
      BY <1>3, <2>2, <3>2 DEF Stored
    <3>3. CASE x.kind = "regions"
      BY <1>3, <2>2, <3>3 DEF Stored
    <3> QED BY <1>2, <3>1, <3>2, <3>3
  <2> QED BY <1>1, <2>1, <2>2 DEF AuditConfig
<1>6. PICK y : /\ job' = [job EXCEPT ![j] = y]
               /\ y = NoJob \/ \E pc : y = [x EXCEPT !.pc = pc]
               /\ x.kind = "new" => y = [x EXCEPT !.pc = "undo"] \/ Stored(x)
               /\ y.pc = "write" => Stored(x) /\ x.kind # "new"
  <2>1. NoJob.pc = "idle" /\ \A pc : [x EXCEPT !.pc = pc].pc = pc
    BY <1>2 DEF NoJob, Job
  <2>2. CASE /\ Stored(x)
             /\ job' = [job EXCEPT ![j] = IF x.kind = "new" THEN NoJob ELSE [x EXCEPT !.pc = "write"]]
    BY <2>1, <2>2
  <2>3. CASE job' = [job EXCEPT ![j] = IF AfterRefusal(x) = "idle" THEN NoJob
                                       ELSE [x EXCEPT !.pc = AfterRefusal(x)]]
    BY <2>1, <2>3 DEF AfterRefusal
  <2> QED BY <1>1, <2>2, <2>3 DEF AuditConfig
<1>7. y # NoJob => /\ y.kind = x.kind /\ y.role = x.role /\ y.regions = x.regions
                   /\ x.kind \in {"new", "delete"} => Subject(y) = Subject(x)
  <2>1. ASSUME y # NoJob
        PROVE  /\ y.kind = x.kind /\ y.what = x.what /\ y.account = x.account
               /\ y.role = x.role /\ y.row = x.row /\ y.regions = x.regions
    BY <1>2, <1>6, <2>1 DEF Job
  <2> QED BY <1>2, <2>1, JobOKHasSubject, SameSubject
<1>8. /\ \A s : Creates(y, s) => Creates(x, s)
      /\ \A s : Creates(x, s) => Creates(y, s) \/ s \in book'.made
  <2>1. \A s : ~Creates(NoJob, s)
    BY DEF NoJob, Creates
  <2>2. CASE x.kind = "new"
    <3>1. CASE Stored(x)
      <4>1. Subject(x) \in book'.made
        BY <1>3, <2>2, <3>1 DEF Stored
      <4> QED BY <1>2, <1>7, <2>1, <4>1 DEF Creates
    <3>2. CASE y = [x EXCEPT !.pc = "undo"]
      <4>1. y.pc = "undo" /\ NoJob.pc = "idle"
        BY <1>2, <3>2 DEF Job, NoJob
      <4> QED BY <1>2, <1>7, <2>2, <4>1 DEF Creates
    <3> QED BY <1>6, <2>2, <3>1, <3>2
  <2>3. CASE x.kind # "new"
    BY <1>7, <2>1, <2>3 DEF Creates
  <2> QED BY <2>2, <2>3
<1>9. /\ y.kind = "delete" /\ y.pc = "write" => Subject(y) \in book'.ended \cup unread'
      /\ y.kind = "regions" /\ y.pc = "write" => y.regions \in written'[y.role]
  <2>1. ASSUME y.pc = "write" PROVE y # NoJob /\ Stored(x)
    BY <1>6, <2>1 DEF NoJob
  <2>2. CASE x.kind = "delete"
    BY <1>3, <1>7, <2>1, <2>2 DEF Stored
  <2>3. CASE x.kind = "regions"
    <3>1. x.role \in Roles
      BY <1>2, <2>3 DEF JobOK
    <3> QED BY <1>3, <1>7, <2>1, <2>3, <3>1 DEF Stored
  <2>4. CASE x.kind = "new"
    BY <1>6, <1>7, <2>1, <2>4
  <2> QED BY <1>2, <2>2, <2>3, <2>4
<1> QED BY <1>1, <1>3, <1>4, <1>5, <1>6, <1>8, <1>9, OneHandlerMoves

\* undoOnAuditFailure takes the row back, or leaves it.
LEMMA UndoKeepsJournal ==
  ASSUME TablesTyped, JournalInv, NEW j \in Jobs, Undo(j)
  PROVE  JournalInv'
<1>1. PICK x : x = job[j]
  OBVIOUS
<1>2. x \in Job /\ JobOK(x) /\ x.pc = "undo" /\ x.kind = "new" /\ HasSubject(x) /\ tab \in Table
  BY <1>1, JobOKHasSubject DEF TablesTyped, Undo, JobOK
<1>3. /\ UNCHANGED <<book, allowed, written, unread, changes>> /\ job' = [job EXCEPT ![j] = NoJob]
      /\ left \subseteq left' /\ undone \subseteq undone' /\ j <= changes
  BY <1>1, <1>2, HandlersAreCounted DEF Undo, Sound, Fault, bounds
<1>4. PICK s : s = Subject(x)
  OBVIOUS
<1>5. /\ s \in Row /\ Rows(Gone(tab, x)) = {z \in Rows(tab) : s \notin Chain(z)}
      /\ s \in Chain(s)
  BY <1>2, <1>4, GoneRows DEF Chain
<1>6. /\ \A z : ~Creates(NoJob, z)
      /\ \A z : Creates(job[j], z) <=> z = s
      /\ ~(NoJob.pc = "write")
  BY <1>1, <1>2, <1>4 DEF Creates, NoJob
<1>7. Rows(tab)' = Rows(tab')
  BY DEF Rows
<1>8. CASE tab' = Gone(tab, x) /\ undone' = undone \cup {s}
  <2>1. Rows(tab)' = {z \in Rows(tab) : s \notin Chain(z)}
    BY <1>5, <1>7, <1>8
  <2>2. \A z \in Rows(tab) \ Rows(tab)' : Chain(z) \cap (book'.ended \cup undone' \cup unread') # {}
    BY <1>8, <2>1
  <2>3. s \notin Rows(tab)' /\ Rows(tab)' \subseteq Rows(tab)
    BY <1>5, <2>1
  <2> QED BY <1>3, <1>6, <2>2, <2>3, OneHandlerMoves
<1>9. CASE UNCHANGED tab /\ left' = left \cup {s}
  <2>1. Rows(tab)' = Rows(tab) /\ s \in left'
    BY <1>7, <1>9
  <2> QED BY <1>3, <1>6, <2>1, OneHandlerMoves
<1> QED BY <1>1, <1>4, <1>8, <1>9 DEF Undo

\* A deletion takes rows away with their end in the journal, or unread; a change
\* of regions writes what the journal has.
LEMMA StoreKeepsJournal ==
  ASSUME TablesTyped, JournalInv, NEW j \in Jobs, Store(j)
  PROVE  JournalInv'
<1>1. PICK x : x = job[j]
  OBVIOUS
<1>2. /\ x \in Job /\ JobOK(x) /\ x.pc = "write" /\ x.kind \in {"delete", "regions"}
      /\ tab \in Table /\ allowed \in [Roles -> SUBSET Regions]
  BY <1>1 DEF TablesTyped, Store, JobOK
<1>3. /\ UNCHANGED <<book, written, left, undone, unread, changes>> /\ job' = [job EXCEPT ![j] = NoJob]
      /\ j <= changes
  BY <1>1, <1>2, HandlersAreCounted DEF Store, Sound, Fault, bounds, lapses
<1>4. /\ \A z : ~Creates(NoJob, z) /\ ~Creates(job[j], z)
      /\ ~(NoJob.pc = "write")
  BY <1>1, <1>2 DEF Creates, NoJob
<1>5. Rows(tab)' = Rows(tab')
  BY DEF Rows
<1>6. CASE x.kind = "delete"
  <2>1. PICK s : s = Subject(x)
    OBVIOUS
  <2>2. Rows(Gone(tab, x)) = {z \in Rows(tab) : s \notin Chain(z)}
    BY <1>2, <1>6, <2>1, JobOKHasSubject, GoneRows
  <2>3. s \in book.ended \cup unread
    BY <1>1, <1>2, <1>6, <2>1 DEF JournalInv, Ended
  <2>4. tab' \in {tab, Gone(tab, x)} /\ allowed' = allowed
    BY <1>1, <1>6 DEF Store
  <2>5. /\ Rows(tab)' \subseteq Rows(tab)
        /\ \A z \in Rows(tab) \ Rows(tab)' : s \in Chain(z)
    BY <1>5, <2>2, <2>4
  <2>6. \A z \in Rows(tab) \ Rows(tab)' : Chain(z) \cap (book'.ended \cup undone' \cup unread') # {}
    BY <1>3, <2>3, <2>5
  <2> QED BY <1>3, <1>4, <2>4, <2>5, <2>6, OneHandlerMoves
<1>7. CASE x.kind = "regions"
  <2>1. x.role \in Roles /\ x.regions \in written[x.role]
    BY <1>1, <1>2, <1>7 DEF JobOK, JournalInv, RegionsKept
  <2>2. UNCHANGED tab /\ allowed' \in {allowed, [allowed EXCEPT ![x.role] = x.regions]}
    BY <1>1, <1>7 DEF Store
  <2>3. \A r \in Roles : allowed'[r] = allowed[r] \/ allowed'[r] \in written'[r]
    BY <1>2, <1>3, <2>1, <2>2
  <2>4. Rows(tab)' = Rows(tab)
    BY <1>5, <2>2
  <2> QED BY <1>3, <1>4, <2>3, <2>4, OneHandlerMoves
<1> QED BY <1>2, <1>6, <1>7

\* A handler that dies leaves what it inserted.
LEMMA DieKeepsJournal ==
  ASSUME TablesTyped, JournalInv, NEW j \in Jobs, Die(j)
  PROVE  JournalInv'
<1>1. PICK x : x = job[j]
  OBVIOUS
<1>2. /\ UNCHANGED <<tab, book, allowed, written, undone, unread, changes>>
      /\ job' = [job EXCEPT ![j] = NoJob] /\ j <= changes
      /\ left' = IF x.kind = "new" THEN left \cup {Subject(x)} ELSE left
  BY <1>1, HandlersAreCounted DEF Die, Fault
<1>3. /\ \A z : ~Creates(NoJob, z) /\ (Creates(job[j], z) => z \in left')
      /\ ~(NoJob.pc = "write")
  BY <1>1, <1>2 DEF Creates, NoJob
<1>4. Rows(tab)' = Rows(tab) /\ left \subseteq left'
  BY <1>2 DEF Rows
<1> QED BY <1>2, <1>3, <1>4, OneHandlerMoves

LEMMA JournalInvStep ==
  ASSUME TablesTyped, JournalInv, [Next]_vars
  PROVE  JournalInv'
<1>1. ASSUME UNCHANGED <<config, job>>, changes' \in {changes, changes + 1} PROVE JournalInv'
  <2>1. UNCHANGED <<tab, book, allowed, written, left, undone, unread, job>>
    BY <1>1 DEF config, lapses
  <2>2. Unbegun'
    BY <1>1, <2>1 DEF JournalInv, Unbegun, TablesTyped, Jobs
  <2>3. \A x : (InHand(x)' <=> InHand(x)) /\ Chain(x)' = Chain(x)
    BY <2>1 DEF InHand, Chain
  <2>4. Rows(tab)' = Rows(tab)
    BY <2>1 DEF Rows
  <2>5. Present' /\ Vanished'
    BY <2>1, <2>3, <2>4 DEF JournalInv, Present, Vanished
  <2>6. Ended' /\ RegionsKept'
    BY <2>1 DEF JournalInv, Ended, RegionsKept
  <2> QED BY <2>2, <2>5, <2>6 DEF JournalInv
<1>2. CASE \E q \in Requests : Begin(q) \/ Serve(q)
  <2>1. ASSUME NEW q \in Requests, Begin(q) PROVE UNCHANGED <<config, job, changes>>
    BY <2>1 DEF Begin, Console, StepUp, AWSCredentials, RequestBegin
  <2>2. ASSUME NEW q \in Requests, Serve(q) PROVE UNCHANGED <<config, job, changes>>
    BY <2>2 DEF Serve, MarkStepUp, GetUser, GetRole, CheckRole, ListAssignments, ListGroups, Assume,
                AuditAssumed, Sound, Fault, bounds
  <2> QED BY <1>1, <1>2, <2>1, <2>2
<1>3. CASE \E j \in Jobs : Change(j)
  BY <1>3, CreationsKeepJournal, OthersBeginKeepJournal DEF Change
<1>4. CASE \E j \in Jobs : Administer(j)
  BY <1>4, AuditConfigKeepsJournal, UndoKeepsJournal, StoreKeepsJournal, DieKeepsJournal DEF Administer
<1>5. CASE \/ \E g \in Groups, u \in Users : ChangeMember(g, u)
           \/ \E u \in Users : Deactivate(u)
           \/ Tick
           \/ UNCHANGED vars
  <2>1. UNCHANGED <<config, job>> /\ changes' \in {changes, changes + 1}
    BY <1>5 DEF ChangeMember, Deactivate, Tick, vars, config, lapses, bounds
  <2> QED BY <1>1, <2>1
<1> QED BY <1>2, <1>3, <1>4, <1>5 DEF Next

\* Accounts, roles and assignments of earlier days are in the journal.
LEMMA JournalInvAtFirst ==
  ASSUME Init
  PROVE  JournalInv
<1>1. /\ book.made = Rows(tab) /\ written = [r \in Roles |-> {allowed[r]}]
      /\ \A j \in Jobs : job[j] = NoJob
  BY DEF Init
<1>2. NoJob.pc = "idle"
  BY DEF NoJob
<1>3. \A x : ~InHand(x)
  BY <1>1, <1>2 DEF InHand
<1>4. Unbegun /\ Present /\ Vanished /\ Ended /\ RegionsKept
  BY <1>1, <1>2, <1>3 DEF Unbegun, Present, Vanished, Ended, RegionsKept
<1> QED BY <1>4 DEF JournalInv

\* However many administrators create, delete and set regions at once, whatever
\* the foreign keys take along, whether the journal answers or not and wherever a
\* handler dies, the tables and the journal account for each other.
THEOREM TablesAreJournalled == Spec => []ConfigJournalled
<1>1. Init => JournalInv
  BY JournalInvAtFirst
<1>2. AccessInv /\ JournalInv /\ [Next]_vars => JournalInv'
  BY JournalInvStep DEF AccessInv
<1>3. AccessInv /\ JournalInv => ConfigJournalled
  <2>1. ASSUME TablesTyped, JournalInv PROVE ConfigJournalled
    <3>1. book.made \subseteq Row /\ tab.roles \subseteq Roles
      BY <2>1 DEF TablesTyped, Table
    <3> QED BY <2>1, <3>1 DEF JournalInv, Present, Vanished, RegionsKept, ConfigJournalled
  <2> QED BY <2>1 DEF AccessInv
<1> QED BY <1>1, <1>2, <1>3, AccessInvariant, PTL DEF Spec

=============================================================================
