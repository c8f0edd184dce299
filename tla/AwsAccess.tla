------------------------------ MODULE AwsAccess ------------------------------
(***************************************************************************)
(* Who gets AWS credentials: the console tile, the step-up page that leads *)
(* back to it, the /aws/credentials API, and the administration of the     *)
(* accounts, roles and assignments they consult.                           *)
(*                                                                         *)
(* A request reads the role, the roles of the user, the assignments and    *)
(* the groups in statements of their own, calls STS, and journals before   *)
(* it hands anything over; administrators and the group pages change the   *)
(* tables in between, and may die half-way.  A user has one portal session *)
(* here.  What becomes of the STS session is in AwsRevocation, what        *)
(* happens to users and groups elsewhere is in Provisioning.               *)
(***************************************************************************)
EXTENDS Naturals, Sequences, SequencesExt

CONSTANTS
  Users, Accounts, Roles, None,
  Groups,          \* numbered in the order of their names
  Regions,         \* well-formed region names
  Malformed,       \* a region parameter sanitizeAWSRegion rejects
  AccountOf,       \* the account each role belongs to
  Sensitive,       \* roles with require_step_up_mfa
  Settings,        \* AUTHD_AWS_REGIONS and AUTHD_AWS_DEFAULT_REGION
  Earlier,         \* what allowed_regions may have been set to under other settings
  Assigned,        \* groups the existing roles have been assigned to
  Unused,          \* accounts and roles that do not exist yet
  StepUpTTL,
  MaxRequests, MaxChanges, MaxTime, MaxFaults   \* bounds; changes of every kind

Global == ""       \* no region: the global door
Doors == Regions \cup {Global}

ASSUME AccessAssumption ==
  /\ Groups \subseteq Nat /\ None \notin Nat
  /\ Global \notin Regions /\ Malformed \notin Doors
  /\ AccountOf \in [Roles -> Accounts] /\ Sensitive \subseteq Roles
  /\ Earlier \subseteq SUBSET Regions /\ Assigned \subseteq Groups
  /\ Unused \subseteq Accounts \cup Roles
  /\ \A c \in Settings : c.list \in Seq(Regions) /\ c.default \in Doors
  /\ {StepUpTTL, MaxRequests, MaxChanges, MaxTime, MaxFaults} \subseteq Nat

Requests == 1 .. MaxRequests   \* in the order in which they begin
Jobs == 1 .. MaxChanges        \* administrators' handlers, likewise

VARIABLES
  now,
  conf,      \* the regions of this process
  member,    \* scim_group_members: the users of each group
  active,    \* users.active
  mfa,       \* mfa_verified_at of each user's portal session, or None
  tab,       \* aws_accounts, aws_roles, aws_role_assignments
  book,      \* the journal: rows made, rows ended
  allowed,   \* allowed_regions of each role
  written,   \* the journal: the allowed_regions each role was given
  req, job,
  fresh,     \* accounts and roles that have never existed
  left,      \* history: rows made by a handler that died, or could not undo
  undone,    \* history: rows taken back when the journal had not answered
  unread,    \* history: rows deleted without the journal, their read had failed
  begun, changes, faults

vars == <<now, conf, member, active, mfa, tab, book, allowed, written, req, job, fresh,
          left, undone, unread, begun, changes, faults>>
bounds == <<begun, changes, faults>>
lapses == <<left, undone, unread>>
config == <<tab, book, allowed, written, fresh, lapses>>
people == <<member, active>>

-----------------------------------------------------------------------------
(* State.                                                                  *)

\* An assignment's id is the handler that created it.
Assignment == [id : Jobs \cup {0}, group : Groups, role : Roles]
Row == Accounts \cup Roles \cup Assignment
Table == [accounts : SUBSET Accounts, roles : SUBSET Roles, assigned : SUBSET Assignment]

\* A row has one kind, and a role that exists has its account.
ASSUME RowsAssumption ==
  /\ Accounts \cap Roles = {} /\ (Accounts \cup Roles) \cap Assignment = {}
  /\ \A r \in Roles \ Unused : AccountOf[r] \notin Unused

\* The rows that go, foreign keys included.
WithoutRole(t, r) == [t EXCEPT !.roles = @ \ {r}, !.assigned = {a \in @ : a.role # r}]
WithoutAccount(t, acc) ==
  [accounts |-> t.accounts \ {acc}, roles |-> {r \in t.roles : AccountOf[r] # acc},
   assigned |-> {a \in t.assigned : AccountOf[a.role] # acc}]
WithoutAssignment(t, a) == [t EXCEPT !.assigned = @ \ {a}]

Request == [pc : {"none", "mark", "user", "role", "list", "assignments", "groups", "sts", "signin",
                  "audit", "done"},
            kind : {"console", "stepup", "api", None}, user : Users \cup {None},
            role : Roles \cup {None}, region : Doors,
            regions : SUBSET Regions,                  \* role.AllowedRegions, as read
            mfa : Nat \cup {None}, verified : BOOLEAN, \* the session, as read
            door : Doors, authorizing : SUBSET Groups, team : Groups \cup {None},
            at : Nat,                                  \* history, from here on
            live : BOOLEAN, was : SUBSET Groups, offered : SUBSET SUBSET Regions,
            moved : SUBSET {"member", "assigned"}]
NoRequest == [pc |-> "none", kind |-> None, user |-> None, role |-> None, region |-> Global,
              regions |-> {}, mfa |-> None, verified |-> FALSE, door |-> Global,
              authorizing |-> {}, team |-> None, at |-> 0, live |-> FALSE, was |-> {},
              offered |-> {}, moved |-> {}]

Job == [pc : {"idle", "audit", "undo", "write"},
        kind : {"new", "delete", "regions", None},
        what : {"account", "role", "assignment", None},
        account : Accounts \cup {None}, role : Roles \cup {None},
        row : Assignment \cup {None}, regions : SUBSET Regions]
NoJob == [pc |-> "idle", kind |-> None, what |-> None, account |-> None, role |-> None,
          row |-> None, regions |-> {}]

Go(q, pc) == req' = [req EXCEPT ![q].pc = pc]
Refuse(q) == req' = [req EXCEPT ![q] = NoRequest]
Fault == faults < MaxFaults /\ faults' = faults + 1 /\ UNCHANGED <<begun, changes>>
Sound == UNCHANGED bounds

-----------------------------------------------------------------------------
(* Regions.                                                                *)

\* ParseAWSRegions: duplicates go, the default is always eligible.
ParseAWSRegions(c) ==
  LET add(rs, r) == IF Contains(rs, r) THEN rs ELSE Append(rs, r)
      regions == FoldLeft(add, <<>>, c.list)
  IN  [regions |-> IF c.default = Global THEN regions ELSE add(regions, c.default),
       default |-> c.default]

sanitizeAWSRegion(region) == IF region \in Doors THEN region ELSE Global

\* eligibleAWSRegions: a role narrows the list of the server.
Narrowed(list, rs) == IF rs = {} THEN list ELSE SelectSeq(list, LAMBDA r : r \in rs)
eligibleAWSRegions(rs) == Narrowed(conf.regions, rs)

IncludeGlobal(rs) == rs = {} /\ conf.default = Global

\* awsRegionOptions: what the tile offers, and which entry is selected.
awsRegionOptions(rs) ==
  IF eligibleAWSRegions(rs) = <<>> THEN {}
  ELSE ToSet(eligibleAWSRegions(rs)) \cup (IF IncludeGlobal(rs) THEN {Global} ELSE {})

Selected(rs) ==
  IF Contains(eligibleAWSRegions(rs), conf.default) THEN conf.default
  ELSE IF IncludeGlobal(rs) THEN Global ELSE eligibleAWSRegions(rs)[1]

\* Wrong on purpose: any well-formed region will do.
resolveAWSRegionAny(rs, requested) ==
  IF requested # Global THEN {requested}
  ELSE IF conf.regions = <<>> THEN {Global}
  ELSE IF awsRegionOptions(rs) = {} THEN {} ELSE {Selected(rs)}

\* resolveAWSRegion: the region to use, or none.
resolveAWSRegion(rs, requested) ==
  IF conf.regions = <<>> THEN {requested} \cap {Global}
  ELSE IF requested # Global THEN {requested} \cap awsRegionOptions(rs)
  ELSE IF awsRegionOptions(rs) = {} THEN {} ELSE {Selected(rs)}

-----------------------------------------------------------------------------
(* Requests.                                                               *)

\* Which groups entitle u to r, in membership m and assignments s.
Authorizing(u, r, m, s) == {g \in Groups : u \in m[g] /\ \E a \in s : a.group = g /\ a.role = r}

\* The tables change under the requests in flight.
Observe(m, t, al, what) ==
  req' = [q \in Requests |->
    IF req[q].pc \in {"none", "done"} THEN req[q]
    ELSE [req[q] EXCEPT
            !.was = @ \cup Authorizing(req[q].user, req[q].role, m, t.assigned),
            !.offered = @ \cup {al[req[q].role]},
            !.moved = IF req[q].pc = "groups" THEN @ \cup what ELSE @]]

\* What a handler knows when it has read the session and the form.
NewRequest(u, r, k, region, verified, pc) ==
  [NoRequest EXCEPT !.pc = pc, !.kind = k, !.user = u, !.role = r,
                    !.region = sanitizeAWSRegion(region),
                    !.mfa = mfa[u], !.verified = verified, !.at = now, !.live = active[u],
                    !.was = Authorizing(u, r, member, tab.assigned),
                    !.offered = {allowed[r]}]

\* Unknown roles are left out, they are refused at once.
RequestBegin(q, u, r, k, region, verified, pc) ==
  /\ q = begun + 1 /\ begun' = q /\ UNCHANGED <<changes, faults>>
  /\ r \notin fresh
  /\ req' = [req EXCEPT ![q] = NewRequest(u, r, k, region, verified, pc)]
  /\ UNCHANGED <<now, conf, people, mfa, config, job>>

\* handlePortalAWSConsole, with a portal session.
Console(q, u, r, region) ==
  RequestBegin(q, u, r, "console", region, mfa[u] # None, "role")

\* handlePortalStepUp has just accepted a code.
StepUp(q, u, r, region) ==
  RequestBegin(q, u, r, "stepup", region, mfa[u] # None, "mark")

\* handleAWSCredentials: a bearer token, whose session says whether it was opened
\* with MFA.
AWSCredentials(q, u, r, verified) ==
  RequestBegin(q, u, r, "api", Global, verified, "user")

\* markStepUpSuccess.
MarkStepUp(q) ==
  /\ req[q].pc = "mark"
  /\ \/ /\ Sound /\ mfa' = [mfa EXCEPT ![req[q].user] = now]
        /\ req' = [req EXCEPT ![q].pc = "role", ![q].mfa = now, ![q].verified = TRUE]
     \/ Fault /\ Refuse(q) /\ UNCHANGED mfa
  /\ UNCHANGED <<now, conf, people, config, job>>

\* handleAWSCredentials looks at active; the portal's handlers do not.
GetUser(q) ==
  /\ req[q].pc = "user"
  /\ IF active[req[q].user] THEN Go(q, "list") ELSE Refuse(q)
  /\ Sound /\ UNCHANGED <<now, conf, people, mfa, config, job>>

\* GetAWSRole.
GetRole(q) ==
  /\ req[q].pc = "role"
  /\ IF req[q].role \in tab.roles
     THEN req' = [req EXCEPT ![q].pc = "list", ![q].regions = allowed[req[q].role]]
     ELSE Refuse(q)
  /\ Sound /\ UNCHANGED <<now, conf, people, mfa, config, job>>

\* Wrong on purpose: verified once is verified for good.
stepUpMFAFreshEver(q) == req[q].mfa # None

stepUpMFAFresh(q) == req[q].mfa # None /\ now - req[q].mfa <= StepUpTTL

\* Wrong on purpose: a role anybody is assigned to.
ListAWSRolesAssigned(u) == {r \in tab.roles : \E a \in tab.assigned : a.role = r}

\* ListAWSRolesForUser: one statement.
ListAWSRolesForUser(u) ==
  {r \in tab.roles : Authorizing(u, r, member, tab.assigned) # {}}

\* The role must be among those of the user; then the region and the step-up
\* gate.  The step-up page leaves the gate out, it has just passed it; the API
\* has no region, and asks for a session opened with MFA only.
CheckRole(q) ==
  LET x == req[q]
      rs == IF x.kind = "api" THEN {Global} ELSE resolveAWSRegion(x.regions, x.region)
      gate == CASE x.kind = "console" -> stepUpMFAFresh(q)
                [] x.kind = "api" -> x.verified
                [] x.kind = "stepup" -> TRUE
  IN  /\ x.pc = "list"
      /\ IF x.role \in ListAWSRolesForUser(x.user) /\ rs # {} /\ (x.role \in Sensitive => gate)
         THEN \E door \in rs : req' =
                [req EXCEPT ![q].pc = "assignments", ![q].door = door,
                            ![q].region = Global, ![q].regions = {}]
         ELSE Refuse(q)
      /\ Sound /\ UNCHANGED <<now, conf, people, mfa, config, job>>

\* authorizingGroupsForRole, first statement.  No assignments, no team.
ListAssignments(q) ==
  LET gs == {a.group : a \in {b \in tab.assigned : b.role = req[q].role}}
  IN  /\ req[q].pc = "assignments"
      /\ req' = [req EXCEPT ![q].pc = IF gs = {} THEN "sts" ELSE "groups",
                            ![q].authorizing = gs, ![q].moved = {}]
      /\ Sound /\ UNCHANGED <<now, conf, people, mfa, config, job>>

\* Wrong on purpose: the user's first group overall.
TeamOverall(q) == {g \in Groups : req[q].user \in member[g]}
TeamGroups(q) == {g \in req[q].authorizing : req[q].user \in member[g]}

\* Second statement; the first name becomes the team.
ListGroups(q) ==
  /\ req[q].pc = "groups"
  /\ req' = [req EXCEPT ![q].pc = "sts", ![q].authorizing = {},
                        ![q].team = IF TeamGroups(q) = {} THEN None ELSE Min(TeamGroups(q))]
  /\ Sound /\ UNCHANGED <<now, conf, people, mfa, config, job>>

\* AssumeRoleWithWebIdentity, and getSigninToken for the console: AWS may refuse.
Assume(q) ==
  /\ req[q].pc \in {"sts", "signin"}
  /\ \/ Go(q, IF req[q].pc = "sts" /\ req[q].kind # "api" THEN "signin" ELSE "audit")
     \/ Refuse(q)
  /\ Sound /\ UNCHANGED <<now, conf, people, mfa, config, job>>

\* ActionAWSConsoleAssumed, and what was asked for is handed over.
AuditAssumed(q) ==
  /\ req[q].pc = "audit"
  /\ (Sound /\ Go(q, "done")) \/ (Fault /\ Refuse(q))
  /\ UNCHANGED <<now, conf, people, mfa, config, job>>

-----------------------------------------------------------------------------
(* Administration.                                                         *)

JobBegin(j, new) ==
  /\ j = changes + 1 /\ changes' = j /\ UNCHANGED <<begun, faults>>
  /\ job' = [job EXCEPT ![j] = new]

\* CreateAWSAccount, CreateAWSRole, CreateAWSRoleAssignment: the parent must
\* exist and the row must be new.  The audit comes after.
CreateAccount(j, acc) ==
  /\ acc \in fresh /\ fresh' = fresh \ {acc}
  /\ JobBegin(j, [NoJob EXCEPT !.pc = "audit", !.kind = "new", !.what = "account", !.account = acc])
  /\ tab' = [tab EXCEPT !.accounts = @ \cup {acc}]
  /\ UNCHANGED <<now, conf, people, mfa, book, allowed, written, lapses, req>>

CreateRole(j, r) ==
  /\ r \in fresh /\ fresh' = fresh \ {r} /\ AccountOf[r] \in tab.accounts
  /\ JobBegin(j, [NoJob EXCEPT !.pc = "audit", !.kind = "new", !.what = "role", !.role = r])
  /\ tab' = [tab EXCEPT !.roles = @ \cup {r}]
  /\ Observe(member, tab', allowed, {})
  /\ UNCHANGED <<now, conf, people, mfa, book, allowed, written, lapses>>

CreateAssignment(j, g, r) ==
  LET a == [id |-> j, group |-> g, role |-> r]
  IN  /\ r \in tab.roles /\ \A b \in tab.assigned : ~(b.group = g /\ b.role = r)
      /\ JobBegin(j, [NoJob EXCEPT !.pc = "audit", !.kind = "new", !.what = "assignment", !.row = a])
      /\ tab' = [tab EXCEPT !.assigned = @ \cup {a}]
      /\ Observe(member, tab', allowed, {"assigned"})
      /\ UNCHANGED <<now, conf, people, mfa, book, allowed, written, fresh, lapses>>

Gone(t, x) == CASE x.what = "account" -> WithoutAccount(t, x.account)
                [] x.what = "role" -> WithoutRole(t, x.role)
                [] x.what = "assignment" -> WithoutAssignment(t, x.row)

Subject(x) == CASE x.what = "account" -> x.account [] x.what = "role" -> x.role
                [] x.what = "assignment" -> x.row

\* The rows a deletion takes away.
Rows(t) == t.accounts \cup t.roles \cup t.assigned
Lost(t, x) == Rows(t) \ Rows(Gone(t, x))

\* The row is read for the journal's sake; when the read fails the deletion
\* goes on without the journal.
DeleteBegin(j, x) ==
  /\ Lost(tab, x) # {}
  /\ \/ JobBegin(j, [x EXCEPT !.pc = "audit"]) /\ UNCHANGED unread
     \/ /\ x.what # "assignment" /\ faults < MaxFaults
        /\ j = changes + 1 /\ changes' = j /\ faults' = faults + 1 /\ UNCHANGED begun
        /\ job' = [job EXCEPT ![j] = [x EXCEPT !.pc = "write"]]
        /\ unread' = unread \cup {Subject(x)}
  /\ UNCHANGED <<now, conf, people, mfa, tab, book, allowed, written, fresh, left, undone, req>>

Targets ==
  {[NoJob EXCEPT !.kind = "delete", !.what = "account", !.account = acc] : acc \in tab.accounts}
  \cup {[NoJob EXCEPT !.kind = "delete", !.what = "role", !.role = r] : r \in tab.roles}
  \cup {[NoJob EXCEPT !.kind = "delete", !.what = "assignment", !.row = a] : a \in tab.assigned}

\* handlePortalAdminAWSRoleRegions: parseRoleRegions admits regions of the
\* server only.
RegionsBegin(j, r, rs) ==
  /\ r \in tab.roles /\ rs \subseteq ToSet(conf.regions)
  /\ JobBegin(j, [NoJob EXCEPT !.pc = "audit", !.kind = "regions", !.role = r, !.regions = rs])
  /\ UNCHANGED <<now, conf, people, mfa, config, req>>

\* Wrong on purpose: a deletion that was refused goes ahead.
AfterRefusalAnyway(x) == IF x.kind = "new" THEN "undo" ELSE "write"

\* What a handler does when the journal cannot be reached.
AfterRefusal(x) == IF x.kind = "new" THEN "undo" ELSE "idle"

\* The journal stores the event.
Stored(x) ==
  /\ book' = CASE x.kind = "new" -> [book EXCEPT !.made = @ \cup {Subject(x)}]
               [] x.kind = "delete" -> [book EXCEPT !.ended = @ \cup {Subject(x)}]
               [] x.kind = "regions" -> book
  /\ written' = IF x.kind = "regions" THEN [written EXCEPT ![x.role] = @ \cup {x.regions}] ELSE written

\* logAudit: after an insertion, before everything else.  The journal answers, or
\* the handler refuses with the event stored or not.
AuditConfig(j) ==
  LET x == job[j]
  IN  /\ x.pc = "audit"
      /\ \/ /\ Sound /\ Stored(x)
            /\ job' = [job EXCEPT ![j] = IF x.kind = "new" THEN NoJob ELSE [x EXCEPT !.pc = "write"]]
         \/ /\ Fault /\ (Stored(x) \/ UNCHANGED <<book, written>>)
            /\ job' = [job EXCEPT ![j] = IF AfterRefusal(x) = "idle" THEN NoJob
                                         ELSE [x EXCEPT !.pc = AfterRefusal(x)]]
      /\ UNCHANGED <<now, conf, people, mfa, tab, allowed, fresh, lapses, req>>

\* undoOnAuditFailure; an undo that fails leaves the row.
Undo(j) ==
  LET x == job[j]
  IN  /\ x.pc = "undo" /\ job' = [job EXCEPT ![j] = NoJob]
      /\ \/ Sound /\ tab' = Gone(tab, x) /\ undone' = undone \cup {Subject(x)} /\ UNCHANGED left
         \/ Fault /\ left' = left \cup {Subject(x)} /\ UNCHANGED <<tab, undone>>
      /\ Observe(member, tab', allowed, {"assigned"})
      /\ UNCHANGED <<now, conf, people, mfa, book, allowed, written, fresh, unread>>

\* DeleteAWSAccount, DeleteAWSRole, DeleteAWSRoleAssignment, UpdateAWSRole; the
\* latter writes the row it has read, and so may undo another handler's.
Store(j) ==
  LET x == job[j]
  IN  /\ x.pc = "write" /\ job' = [job EXCEPT ![j] = NoJob]
      /\ \/ /\ Sound
            /\ tab' = IF x.kind = "delete" THEN Gone(tab, x) ELSE tab
            /\ allowed' = IF x.kind = "regions" THEN [allowed EXCEPT ![x.role] = x.regions] ELSE allowed
         \/ Fault /\ UNCHANGED <<tab, allowed>>
      /\ Observe(member, tab', allowed', IF x.kind = "delete" THEN {"assigned"} ELSE {})
      /\ UNCHANGED <<now, conf, people, mfa, book, written, fresh, lapses>>

\* The process that serves a handler ends: what the handler has inserted stays.
Die(j) ==
  LET x == job[j]
  IN  /\ x.pc # "idle" /\ job' = [job EXCEPT ![j] = NoJob] /\ Fault
      /\ left' = IF x.kind = "new" THEN left \cup {Subject(x)} ELSE left
      /\ UNCHANGED <<now, conf, people, mfa, tab, book, allowed, written, fresh, undone, unread, req>>

\* The group pages and the user pages (see Provisioning).
ChangeMember(g, u) ==
  /\ changes < MaxChanges /\ changes' = changes + 1 /\ UNCHANGED <<begun, faults>>
  /\ member' = [member EXCEPT ![g] = (@ \cup {u}) \ (@ \cap {u})]
  /\ Observe(member', tab, allowed, {"member"})
  /\ UNCHANGED <<now, conf, active, mfa, config, job>>

Deactivate(u) ==
  /\ active[u] /\ active' = [active EXCEPT ![u] = FALSE]
  /\ changes < MaxChanges /\ changes' = changes + 1
  /\ UNCHANGED <<now, conf, member, mfa, config, req, job, begun, faults>>

Tick == now < MaxTime /\ now' = now + 1
        /\ UNCHANGED <<conf, people, mfa, config, req, job, bounds>>

-----------------------------------------------------------------------------

\* Accounts, roles and assignments of earlier days are in the journal.
Init ==
  /\ now = 0
  /\ conf \in {ParseAWSRegions(c) : c \in Settings}
  /\ member = [g \in Groups |-> Users]
  /\ active = [u \in Users |-> TRUE]
  /\ mfa \in [Users -> {None, 0}]
  /\ fresh = Unused
  /\ tab = [accounts |-> Accounts \ Unused, roles |-> Roles \ Unused,
            assigned |-> {[id |-> 0, group |-> g, role |-> r] : g \in Assigned, r \in Roles \ Unused}]
  /\ book = [made |-> Rows(tab), ended |-> {}]
  /\ \E rs \in Earlier : allowed = [r \in Roles |-> IF r \in Unused THEN {} ELSE rs]
  /\ written = [r \in Roles |-> {allowed[r]}]
  /\ req = [q \in Requests |-> NoRequest] /\ job = [j \in Jobs |-> NoJob]
  /\ left = {} /\ undone = {} /\ unread = {}
  /\ begun = 0 /\ changes = 0 /\ faults = 0

Begin(q) ==
  \E u \in Users, r \in Roles :
    \/ \E region \in Doors \cup {Malformed} : Console(q, u, r, region) \/ StepUp(q, u, r, region)
    \/ \E verified \in BOOLEAN : AWSCredentials(q, u, r, verified)

Serve(q) == MarkStepUp(q) \/ GetUser(q) \/ GetRole(q) \/ CheckRole(q) \/ ListAssignments(q)
            \/ ListGroups(q) \/ Assume(q) \/ AuditAssumed(q)

Change(j) ==
  \/ \E acc \in Accounts : CreateAccount(j, acc)
  \/ \E r \in Roles : CreateRole(j, r) \/ \E rs \in SUBSET Regions : RegionsBegin(j, r, rs)
  \/ \E r \in Roles, g \in Groups : CreateAssignment(j, g, r)
  \/ \E x \in Targets : DeleteBegin(j, x)

Administer(j) == AuditConfig(j) \/ Undo(j) \/ Store(j) \/ Die(j)

Next ==
  \/ \E q \in Requests : Begin(q) \/ Serve(q)
  \/ \E j \in Jobs : Change(j) \/ Administer(j)
  \/ \E g \in Groups, u \in Users : ChangeMember(g, u)
  \/ \E u \in Users : Deactivate(u)
  \/ Tick

Spec == Init /\ [][Next]_vars

-----------------------------------------------------------------------------
(* Properties.                                                             *)

AccessTypeOK ==
  /\ now \in Nat
  /\ conf.regions \in Seq(Regions) /\ conf.default \in Doors
  /\ member \in [Groups -> SUBSET Users] /\ active \in [Users -> BOOLEAN]
  /\ mfa \in [Users -> Nat \cup {None}]
  /\ tab \in Table /\ book.made \cup book.ended \subseteq Row
  /\ allowed \in [Roles -> SUBSET Regions] /\ written \in [Roles -> SUBSET SUBSET Regions]
  /\ req \in [Requests -> Request] /\ job \in [Jobs -> Job]
  /\ fresh \subseteq Accounts \cup Roles
  /\ left \cup undone \cup unread \subseteq Row
  /\ {begun, changes, faults} \subseteq Nat

\* The lists parsed from the settings, narrowed or not, are lists of regions.
ListsAreSequences ==
  \A c \in Settings, rs \in SUBSET Regions : Narrowed(ParseAWSRegions(c).regions, rs) \in Seq(Regions)

Handed == {q \in Requests : req[q].pc = "done"}

\* Whoever is handed credentials was a member of a group with that role at some
\* instant of the request, and active if they came through the API.
EntitledInRequest ==
  \A q \in Handed : req[q].was # {} /\ (req[q].kind = "api" => req[q].live)

\* The team tag names a group that entitled the user to the role at some instant
\* of the request, unless both the members and the assignments changed between
\* the two statements that look for it.
TeamAuthorized ==
  \A q \in Handed : req[q].team \in req[q].was \cup {None}
                    \/ req[q].moved = {"member", "assigned"}

\* The door that was opened is one the tile offered for the role at some instant
\* of the request, whichever page the request came through.
RegionOffered ==
  \A q \in Handed : req[q].kind # "api" =>
    IF conf.regions = <<>> THEN req[q].door = Global
    ELSE \E rs \in req[q].offered : req[q].door \in awsRegionOptions(rs)

\* For a sensitive role, a factor was verified during the request or not long
\* before it began; through the API, at some time in the session.
StepUpFresh ==
  \A q \in Handed : req[q].role \in Sensitive =>
    IF req[q].kind = "api" THEN req[q].verified
    ELSE req[q].mfa # None /\ req[q].at <= req[q].mfa + StepUpTTL

\* A row and the rows its foreign keys lead to.
Chain(x) ==
  {x} \cup (IF x \in Assignment THEN {x.role, AccountOf[x.role]}
            ELSE IF x \in Roles THEN {AccountOf[x]} ELSE {})

\* A handler has inserted the row and has not answered yet.
InHand(x) ==
  \E j \in Jobs : job[j].pc # "idle" /\ job[j].kind = "new" /\ Subject(job[j]) = x

\* The tables and the journal account for each other.  A row is in the journal,
\* or in the hands of the handler that inserted it, or was left by one that died
\* or could not undo.  A row of the journal is in the tables, or the journal has
\* the end of it or of a row it hangs on, or the handler that inserted that row
\* took it back, or the deletion went on without the journal because its read
\* had failed.  The regions of a role are regions the journal has for it.
ConfigJournalled ==
  /\ \A x \in Rows(tab) : x \in book.made \cup left \/ InHand(x)
  /\ \A x \in book.made \ Rows(tab) : Chain(x) \cap (book.ended \cup undone \cup unread) # {}
  /\ \A r \in tab.roles : allowed[r] \in written[r]

=============================================================================
