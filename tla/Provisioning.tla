---------------------------- MODULE Provisioning ----------------------------
(***************************************************************************)
(* The life of a user and of a group, from the handlers that create, edit  *)
(* and delete them to the SCIM target that is told about it.               *)
(*                                                                         *)
(* A handler (admin API, portal administration, self-registration, the     *)
(* command line) changes the tables and journals the change, in an order   *)
(* that depends on the kind of change, and then pushes the result to the   *)
(* target.  A full sync (on a timer, by a portal button, by `authd admin   *)
(* sync`) pushes everybody.  Nothing serialises these jobs: each reads     *)
(* rows, and sends later what it read.  Each database statement, each      *)
(* publication of an audit event and each call of the target is a step.    *)
(*                                                                         *)
(* Names, e-mail addresses and passwords are left out: a user is its id,   *)
(* which is never used twice, and the target finds a user by e-mail        *)
(* exactly when it has a record for that id.  There is one target; targets *)
(* do not interact.  What the AWS federation target does is AwsRevocation, *)
(* the sign-outs that precede a deletion are in RelyingParties.            *)
(***************************************************************************)
EXTENDS Naturals, FiniteSets

CONSTANTS
  Users, Groups, Jobs,
  None,
  Forms,       \* what administrators submit: [active, admin, groups]
  Kinds,       \* the jobs of this instance, a subset of AllKinds
  MaxStarts,   \* bound: jobs ever begun
  MaxRecords,  \* bound: records the target ever makes for a user
  MaxFaults    \* bound: calls that fail, crashes, changes made by the target

AllKinds == {"create", "register", "new", "cli", "update", "edit", "delete",
             "gnew", "gedit", "gdelete", "sync"}

ASSUME ProvAssumption ==
  /\ Forms \subseteq [active : BOOLEAN, admin : BOOLEAN, groups : SUBSET Groups]
  /\ Kinds \subseteq AllKinds
  /\ {MaxStarts, MaxRecords, MaxFaults} \subseteq Nat
  /\ None \notin Users \cup Groups \cup AllKinds
  /\ Users \cap Groups = {}

VARIABLES
  row,      \* users: is the row there, and its columns active and is_admin
  group,    \* scim_groups, scim_group_members
  ext,      \* external_ids: the target's id of a user, 0 = no row
  vault,    \* the target's users
  vgroup,   \* the target's groups
  job,      \* local state of each job
  journal,  \* audit events
  starts, faults,
  boot,     \* history: users promoteIfFirstUser made administrators
  excused,  \* history: rows whose creator died, could not undo, or was the CLI
  refused,  \* history: rows whose creation was undone
  dirty     \* history: users and groups for which a call failed, or whose jobs
            \* overlapped, and that no job of their own has pushed since

tables == <<row, group, ext>>
target == <<vault, vgroup>>
bounds == <<starts, faults>>
marks  == <<boot, excused, refused>>
vars == <<row, group, ext, vault, vgroup, job, journal, starts, faults,
          boot, excused, refused, dirty>>

-----------------------------------------------------------------------------
(* State.                                                                  *)

Items == Users \cup Groups

Row == [st : {"new", "in", "gone"}, active : BOOLEAN, admin : BOOLEAN]
In == {u \in Users : row[u].st = "in"}

Group == [st : {"new", "in", "gone"}, members : SUBSET Users]

\* The target's record of a user.  n numbers them: a record removed and made
\* again has another id.  linked: the record carries our id, as externalId.
Record == [n : Nat, on : BOOLEAN, linked : BOOLEAN, active : BOOLEAN]
TargetGroup == [on : BOOLEAN, members : SUBSET Users]

\* ListUsers: which rows there are, and their column active.
Snapshot == [Users -> {"none", "on", "off"}]
ListUsers == [u \in Users |-> IF u \notin In THEN "none"
                              ELSE IF row[u].active THEN "on" ELSE "off"]
Nobody == [u \in Users |-> "none"]

Pcs == {"idle", "count", "promote", "flags", "isadmin", "audit", "undo", "write", "admin",
        "glist", "gwrite", "gread", "reread", "erase", "gcreate", "gupdate",
        "gmembers", "gerase", "push", "find", "remember", "forget", "patch",
        "post", "setoff", "remove", "putg", "postg", "deleteg"}
Ops == {"upsert", "deactivate", "delete", "member"}
Job == [pc : Pcs, kind : AllKinds \cup {None},
        user : Users \cup {None}, group : Groups \cup {None},
        form : Forms \cup {None},
        list : Snapshot,                       \* ListUsers, as read
        glist : [Groups -> SUBSET Users],      \* ListGroups, as read
        groups : SUBSET Groups,                \* groups still to handle
        want : SUBSET Users,                   \* the members to store or push
        todo : SUBSET Users,                   \* users still to push or resolve
        op : Ops, who : Users \cup {None},     \* the push in hand
        act : BOOLEAN,                         \* active, as it will be pushed
        vid : Nat, refs : [Users -> Nat],      \* the target's ids
        shared : SUBSET Items]                 \* history: others' as well, or not stored
NoJob == [pc |-> "idle", kind |-> None, user |-> None, group |-> None,
          form |-> None, list |-> Nobody, glist |-> [g \in Groups |-> {}],
          groups |-> {}, want |-> {}, todo |-> {}, op |-> "upsert", who |-> None,
          act |-> FALSE, vid |-> 0, refs |-> [u \in Users |-> 0], shared |-> {}]

Busy == {j \in Jobs : job[j].pc # "idle"}
Set(j, r) == job' = [job EXCEPT ![j] = r]
Go(j, pc) == job' = [job EXCEPT ![j].pc = pc]
End(j) == Set(j, NoJob)
Fault == faults < MaxFaults /\ faults' = faults + 1 /\ UNCHANGED starts
NoFault == UNCHANGED bounds

\* The users and groups a job reads and then writes or pushes.
Touches(r) ==
  CASE r.kind \in {"create", "register", "cli", "update"} -> {r.user}
    [] r.kind = "delete" -> {r.user} \cup Groups
    [] r.kind \in {"gnew", "gedit", "gdelete"} -> Users \cup {r.group}
    [] OTHER -> Items
InHand(x) == \E j \in Busy : x \in Touches(job[j])

Dirty(S) == dirty' = dirty \cup S
\* x was pushed, by a job that had it for itself from its first read.
Pushed(j, x) == dirty' = IF x \in job[j].shared THEN dirty ELSE dirty \ {x}

\* A job begins.  What it shares with a job in flight may go either way.
Start(j, r, S) ==
  LET both(i) == Touches(r) \cap Touches(job[i])
      over == UNION {both(i) : i \in Busy}
  IN  /\ job[j].pc = "idle"
      /\ r.kind \in Kinds
      /\ starts < MaxStarts /\ starts' = starts + 1 /\ UNCHANGED faults
      /\ job' = [i \in Jobs |->
                   IF i = j THEN [r EXCEPT !.shared = over]
                   ELSE IF i \in Busy THEN [job[i] EXCEPT !.shared = @ \cup both(i)]
                   ELSE job[i]]
      /\ Dirty(over \cup S)

-----------------------------------------------------------------------------
(* What a job does next.                                                   *)

\* Group and user pushes of one job come one after the other.
\* upsertGroup: the members a list of users knows are resolved one by one.
PushGroup(r, g, members) ==
  LET known == {u \in members : r.list[u] # "none"}
  IN  [r EXCEPT !.group = g, !.groups = @ \ {g}, !.want = members,
                !.todo = known, !.op = "member", !.who = None, !.vid = 0,
                !.refs = [u \in Users |-> 0],
                !.pc = IF known = {} THEN "putg" ELSE "push"]

\* provisionUser, Set.User.
PushUser(r, op, active) ==
  [r EXCEPT !.pc = "push", !.op = op, !.todo = {r.user}, !.act = active,
            !.who = None, !.vid = 0]

\* After the groups of a user form come the audit event of a creation, and the
\* last read of an edit.
Regrouped(r) ==
  IF r.groups # {} THEN [r EXCEPT !.pc = "gwrite"]
  ELSE [r EXCEPT !.pc = IF r.kind = "new" THEN "audit" ELSE "reread"]

\* After a group.
AfterGroup(r) ==
  IF r.kind \in {"new", "edit"} THEN Regrouped(r)
  ELSE IF r.kind = "sync" /\ r.groups # {}
  THEN LET g == CHOOSE x \in r.groups : TRUE IN PushGroup(r, g, r.glist[g])
  ELSE NoJob

\* After user r.who has been pushed, resolved or given up.
After(r) ==
  LET s == [r EXCEPT !.who = None, !.vid = 0]
  IN  IF s.todo # {} THEN [s EXCEPT !.pc = "push"]
      ELSE IF s.op = "member" THEN [s EXCEPT !.pc = "putg"]
      ELSE IF s.kind = "sync" THEN [s EXCEPT !.pc = "glist"]
      ELSE NoJob

\* The value of active in the row the push was given.
Active(r) == IF r.op = "member" \/ r.kind = "sync" THEN r.list[r.who] = "on" ELSE r.act

-----------------------------------------------------------------------------
(* The tables.                                                             *)

\* DELETE FROM users; memberships and external ids go with the row.
DeleteUser(u) ==
  /\ row' = IF u \in In THEN [row EXCEPT ![u].st = "gone"] ELSE row
  /\ ext' = [ext EXCEPT ![u] = 0]
  /\ group' = [g \in Groups |-> [group[g] EXCEPT !.members = @ \ {u}]]

\* UPDATE users ... WHERE id: nothing happens where there is no such row.
Update(u, active, admin) ==
  row' = IF u \in In THEN [row EXCEPT ![u].active = active, ![u].admin = admin] ELSE row

\* INSERT ... ON CONFLICT DO UPDATE; the row of the user must exist.
SetExternalID(u, n) == ext' = IF u \in In THEN [ext EXCEPT ![u] = n] ELSE ext

DeleteExternalID(u) == ext' = [ext EXCEPT ![u] = 0]

\* One transaction, refused as a whole when a user or the group is not there.
Replaceable(g, S) == S \subseteq In /\ group[g].st = "in"
ReplaceGroupMembers(g, S) == Replaceable(g, S) /\ group' = [group EXCEPT ![g].members = S]

DeleteGroup(g) ==
  group' = IF group[g].st = "in" THEN [group EXCEPT ![g] = [st |-> "gone", members |-> {}]]
           ELSE group

-----------------------------------------------------------------------------
(* The handlers, up to the push.                                           *)

\* CreateUser, the first statement of every handler that makes a user.
CreateUser(j, k, u, f, pc, S) ==
  /\ row[u].st = "new"
  /\ Start(j, [NoJob EXCEPT !.kind = k, !.user = u, !.act = TRUE, !.form = f, !.pc = pc], S)
  /\ row' = [row EXCEPT ![u] = [st |-> "in", active |-> TRUE, admin |-> FALSE]]
  /\ excused' = excused \cup S
  /\ UNCHANGED <<group, ext, target, journal, boot, refused>>

\* handleAdminCreateUser.
AdminCreate(j, u) == CreateUser(j, "create", u, None, "audit", {})

\* handlePortalRegisterPOST and handleRegisterPOST.
Register(j, u) == CreateUser(j, "register", u, None, "count", {})

\* handlePortalAdminUserNew.
PortalNew(j, u, f) == CreateUser(j, "new", u, f, "flags", {})

\* `authd admin user create`, which neither journals nor pushes.
CommandCreate(j, u, f) == CreateUser(j, "cli", u, f, "admin", {u})

\* Wrong on purpose: one registration too many counts as the first.
CountUsersLoosely(j) ==
  /\ job[j].pc = "count"
  /\ \/ Go(j, IF Cardinality(In) <= 2 THEN "promote" ELSE "audit") /\ NoFault
     \/ Go(j, "audit") /\ Fault
  /\ UNCHANGED <<tables, target, journal, marks, dirty>>

\* promoteIfFirstUser.
CountUsers(j) ==
  /\ job[j].pc = "count"
  /\ \/ Go(j, IF Cardinality(In) = 1 THEN "promote" ELSE "audit") /\ NoFault
     \/ Go(j, "audit") /\ Fault
  /\ UNCHANGED <<tables, target, journal, marks, dirty>>

Promote(j) ==
  LET u == job[j].user
  IN  /\ job[j].pc = "promote"
      /\ \/ Update(u, row[u].active, TRUE) /\ boot' = boot \cup {u} /\ NoFault
         \/ UNCHANGED <<row, boot>> /\ Fault
      /\ Go(j, "audit")
      /\ UNCHANGED <<group, ext, target, journal, excused, refused, dirty>>

\* handlePortalAdminUserNew: SetUserActive, for an inactive user only, and then
\* SetUserAdmin, for an administrator only; the errors of both are ignored.
SetActive(j) ==
  LET u == job[j].user  f == job[j].form
  IN  /\ job[j].pc = "flags"
      /\ \/ NoFault /\ Update(u, f.active /\ row[u].active, row[u].admin)
         \/ ~f.active /\ Fault /\ UNCHANGED row
      /\ Go(j, "isadmin")
      /\ UNCHANGED <<group, ext, target, journal, marks, dirty>>

SetNewAdmin(j) ==
  LET u == job[j].user  f == job[j].form
  IN  /\ job[j].pc = "isadmin"
      /\ \/ NoFault /\ Update(u, row[u].active, f.admin \/ row[u].admin)
         \/ f.admin /\ Fault /\ UNCHANGED row
      /\ Go(j, "glist")
      /\ UNCHANGED <<group, ext, target, journal, marks, dirty>>

\* handleAdminUpdateUser reads the row.  A request that leaves out active stands
\* for the value just read.
UpdateBegin(j, u, f) ==
  /\ u \in In
  /\ Start(j, [NoJob EXCEPT !.kind = "update", !.user = u, !.form = f, !.pc = "audit"], {})
  /\ UNCHANGED <<tables, target, journal, marks>>

\* handlePortalAdminUserEdit.
EditBegin(j, u, f) ==
  /\ u \in In
  /\ Start(j, [NoJob EXCEPT !.kind = "edit", !.user = u, !.form = f, !.pc = "audit"], {})
  /\ UNCHANGED <<tables, target, journal, marks>>

\* The deletions read the row as well.  The portal's goes on when that read
\* fails, and then has nothing to push.
DeleteBegin(j, u) ==
  /\ u \in In
  /\ Start(j, [NoJob EXCEPT !.kind = "delete", !.user = u, !.todo = {u}, !.pc = "audit"], {})
  /\ UNCHANGED <<tables, target, journal, marks>>

DeleteUnread(j) ==
  /\ job[j].kind = "delete" /\ job[j].pc = "audit" /\ job[j].todo # {}
  /\ Fault
  /\ job' = [job EXCEPT ![j].todo = {}]
  /\ Dirty({job[j].user})
  /\ UNCHANGED <<tables, target, journal, marks>>

\* The group handlers: ListUsers, and the members the administrator ticked.
GroupBegin(j, k, g, S, pc) ==
  /\ S \subseteq In
  /\ Start(j, [NoJob EXCEPT !.kind = k, !.group = g, !.list = ListUsers, !.want = S, !.pc = pc], {})
  /\ UNCHANGED <<tables, target, journal, marks>>

\* handlePortalAdminGroupNew; a group has one creator.
GroupNew(j, g, S) ==
  /\ group[g].st = "new"
  /\ \A i \in Busy : job[i].kind = "gnew" => job[i].group # g
  /\ GroupBegin(j, "gnew", g, S, "gcreate")

\* handlePortalAdminGroupEdit.
GroupEdit(j, g, S) == group[g].st = "in" /\ GroupBegin(j, "gedit", g, S, "gupdate")

\* handlePortalAdminGroupDelete.
GroupDelete(j, g) == group[g].st = "in" /\ GroupBegin(j, "gdelete", g, {}, "audit")

CreateGroup(j) ==
  LET r == job[j]
  IN  /\ r.pc = "gcreate"
      /\ \/ /\ group' = [group EXCEPT ![r.group] = [st |-> "in", members |-> {}]]
            /\ Go(j, IF r.want = {} THEN "audit" ELSE "gmembers")
            /\ NoFault
         \/ UNCHANGED group /\ End(j) /\ Fault
      /\ UNCHANGED <<row, ext, target, journal, marks, dirty>>

\* The new name is stored; nothing else depends on it.
UpdateGroup(j) ==
  /\ job[j].pc = "gupdate"
  /\ \/ Go(j, "gmembers") /\ NoFault
     \/ End(j) /\ Fault
  /\ UNCHANGED <<tables, target, journal, marks, dirty>>

\* A failure is logged, and the handler goes on to push the list it was given.
StoreMembers(j) ==
  LET r == job[j]
  IN  /\ r.pc = "gmembers"
      /\ \/ ReplaceGroupMembers(r.group, r.want) /\ NoFault /\ UNCHANGED dirty /\ Go(j, "audit")
         \/ /\ UNCHANGED group /\ Dirty({r.group})
            /\ IF Replaceable(r.group, r.want) THEN Fault ELSE NoFault
            /\ Set(j, [r EXCEPT !.pc = "audit", !.shared = @ \cup {r.group}])
      /\ UNCHANGED <<row, ext, target, journal, marks>>

\* SyncAll: ListUsers.  A failed read ends it.
SyncBegin(j) ==
  /\ Start(j, [NoJob EXCEPT !.kind = "sync", !.list = ListUsers, !.todo = In,
                            !.pc = IF In = {} THEN "glist" ELSE "push"], {})
  /\ UNCHANGED <<tables, target, journal, marks>>

Event(r) ==
  CASE r.kind \in {"create", "register", "new"} -> <<"created", r.user>>
    [] r.kind \in {"update", "edit"} -> <<"updated", r.user>>
    [] r.kind = "delete" -> <<"deleted", r.user>>
    [] r.kind = "gnew" -> <<"created", r.group>>
    [] r.kind = "gedit" -> <<"updated", r.group>>
    [] r.kind = "gdelete" -> <<"deleted", r.group>>

\* What follows the audit event: creations push, the others change the tables.
Audited(r) ==
  CASE r.kind \in {"create", "register"} -> PushUser(r, "upsert", r.act)
    [] r.kind = "new" -> [r EXCEPT !.pc = "reread"]
    [] r.kind \in {"update", "edit"} -> [r EXCEPT !.pc = "write"]
    [] r.kind = "delete" -> [r EXCEPT !.pc = "erase"]
    [] r.kind \in {"gnew", "gedit"} -> PushGroup(r, r.group, r.want)
    [] r.kind = "gdelete" -> [r EXCEPT !.pc = "gerase"]

\* logAudit.
Audit(j) ==
  /\ job[j].pc = "audit"
  /\ journal' = journal \cup {Event(job[j])}
  /\ Set(j, Audited(job[j]))
  /\ NoFault
  /\ UNCHANGED <<tables, target, marks, dirty>>

\* Wrong on purpose: the refusal leaves the new row alone.
AuditFailsKeeping(j) ==
  /\ job[j].pc = "audit"
  /\ Fault
  /\ journal' \in {journal, journal \cup {Event(job[j])}}
  /\ End(j)
  /\ Dirty(IF job[j].kind = "gedit" THEN {job[j].group} ELSE {})
  /\ UNCHANGED <<tables, target, marks>>

\* The journal did not store the event, or did and the answer got lost.  Either
\* way the request is refused: a creation is undone, an edited group is left
\* unpushed, everything else has not happened.
AuditFails(j) ==
  /\ job[j].pc = "audit"
  /\ Fault
  /\ journal' \in {journal, journal \cup {Event(job[j])}}
  /\ IF job[j].kind \in {"create", "register", "new", "gnew"} THEN Go(j, "undo") ELSE End(j)
  /\ Dirty(IF job[j].kind = "gedit" THEN {job[j].group} ELSE {})
  /\ UNCHANGED <<tables, target, marks>>

\* undoOnAuditFailure.  What the groups of a new user already pushed stays.
Undo(j) ==
  LET r == job[j]  x == IF r.kind = "gnew" THEN r.group ELSE r.user
  IN  /\ r.pc = "undo"
      /\ \/ /\ IF r.kind = "gnew" THEN DeleteGroup(x) /\ UNCHANGED <<row, ext>>
               ELSE DeleteUser(x)
            /\ refused' = refused \cup {x} /\ UNCHANGED excused /\ NoFault
            /\ Dirty(IF r.kind = "new" /\ r.form.groups # {} THEN {x} ELSE {})
         \/ /\ excused' = excused \cup {x} /\ UNCHANGED <<tables, refused>> /\ Fault
            /\ Dirty({x})
      /\ End(j)
      /\ UNCHANGED <<target, journal, boot>>

\* UpdateUser.  The form of an API request only says active.
Write(j) ==
  LET r == job[j]
  IN  /\ r.pc = "write"
      /\ \/ /\ Update(r.user, r.form.active, row[r.user].admin)
            /\ Go(j, IF r.kind = "edit" THEN "admin" ELSE "reread") /\ NoFault
         \/ UNCHANGED row /\ End(j) /\ Fault
      /\ UNCHANGED <<group, ext, target, journal, marks, dirty>>

\* SetUserAdmin, of an edit (always) and of the command line (when asked to).
SetAdmin(j) ==
  LET r == job[j]
  IN  /\ r.pc = "admin"
      /\ \/ /\ Update(r.user, row[r.user].active,
                      IF r.kind = "cli" THEN r.form.admin \/ row[r.user].admin ELSE r.form.admin)
            /\ IF r.kind = "cli" THEN End(j) ELSE Go(j, "glist")
            /\ NoFault /\ UNCHANGED dirty
         \/ UNCHANGED row /\ End(j) /\ Fault /\ Dirty({r.user})
      /\ UNCHANGED <<group, ext, target, journal, marks>>

\* ListGroups (then ListUsers): of syncUserGroups, which is left with no users
\* when the second read fails, and of SyncAll, which uses its first list.
ListGroups(j) ==
  LET r == job[j]
      in == {g \in Groups : group[g].st = "in"}
      read == [r EXCEPT !.glist = [g \in Groups |-> group[g].members]]
      changed == {g \in in : (r.user \in group[g].members) # (g \in r.form.groups)}
      listed == [read EXCEPT !.groups = changed, !.list = ListUsers]
  IN  /\ r.pc = "glist"
      /\ IF r.kind = "sync"
         THEN \/ Set(j, AfterGroup([read EXCEPT !.groups = in])) /\ NoFault
              \/ End(j) /\ Fault
         ELSE \/ Set(j, Regrouped(listed)) /\ NoFault
              \/ Set(j, Regrouped([listed EXCEPT !.list = Nobody])) /\ Fault
              \/ Set(j, Regrouped(r)) /\ Fault
      /\ UNCHANGED <<tables, target, journal, marks, dirty>>

\* AddGroupMember, which needs both rows, or RemoveGroupMember.
ChangeMember(j) ==
  LET r == job[j]
  IN  /\ r.pc = "gwrite"
      /\ \E g \in r.groups :
           LET add == g \in r.form.groups
               able == add => r.user \in In /\ group[g].st = "in"
           IN  \/ /\ able
                  /\ group' = [group EXCEPT ![g].members =
                                 IF add THEN @ \cup {r.user} ELSE @ \ {r.user}]
                  /\ Set(j, [r EXCEPT !.pc = "gread", !.group = g]) /\ NoFault
               \/ /\ UNCHANGED group
                  /\ Set(j, Regrouped([r EXCEPT !.groups = @ \ {g}]))
                  /\ IF able THEN Fault ELSE NoFault
      /\ UNCHANGED <<row, ext, target, journal, marks, dirty>>

\* Wrong on purpose: the members pushed are those listed before the change.
ReadGroupStale(j) ==
  LET r == job[j]
  IN  /\ r.pc = "gread"
      /\ Set(j, PushGroup(r, r.group, r.glist[r.group])) /\ NoFault
      /\ UNCHANGED <<tables, target, journal, marks, dirty>>

\* GetGroupByID, and the push of what it returned.
ReadGroup(j) ==
  LET r == job[j]
  IN  /\ r.pc = "gread"
      /\ \/ /\ group[r.group].st = "in"
            /\ Set(j, PushGroup(r, r.group, group[r.group].members)) /\ NoFault /\ UNCHANGED dirty
         \/ /\ Set(j, Regrouped([r EXCEPT !.groups = @ \ {r.group}]))
            /\ IF group[r.group].st = "in" THEN Fault /\ Dirty({r.group})
               ELSE NoFault /\ UNCHANGED dirty
      /\ UNCHANGED <<tables, target, journal, marks>>

\* GetUserByID, and the push of the row: an update, or a deactivation where the
\* form says so.  Without a row there is no push.
Reread(j) ==
  LET r == job[j]
      op == IF r.kind # "new" /\ ~r.form.active THEN "deactivate" ELSE "upsert"
  IN  /\ r.pc = "reread"
      /\ \/ /\ IF r.user \in In THEN Set(j, PushUser(r, op, row[r.user].active)) ELSE End(j)
            /\ NoFault /\ UNCHANGED dirty
         \/ End(j) /\ Fault /\ Dirty({r.user})
      /\ UNCHANGED <<tables, target, journal, marks>>

\* DeleteUser, and the push of the row read at the beginning, if it was.
EraseUser(j) ==
  LET r == job[j]
  IN  /\ r.pc = "erase"
      /\ \/ /\ DeleteUser(r.user)
            /\ IF r.todo = {} THEN End(j) ELSE Set(j, PushUser(r, "delete", FALSE))
            /\ NoFault
         \/ UNCHANGED tables /\ End(j) /\ Fault
      /\ UNCHANGED <<target, journal, marks, dirty>>

EraseGroup(j) ==
  LET r == job[j]
  IN  /\ r.pc = "gerase"
      /\ \/ DeleteGroup(r.group) /\ Go(j, "deleteg") /\ NoFault
         \/ UNCHANGED group /\ End(j) /\ Fault
      /\ UNCHANGED <<row, ext, target, journal, marks, dirty>>

-----------------------------------------------------------------------------
(* The SCIM client.                                                        *)

\* The next user: cachedExternalID, and what the id, or its absence, leads to.
LookUp(j) ==
  LET r == job[j]
  IN  /\ r.pc = "push"
      /\ \E w \in r.todo :
           LET id == ext[w]
               s == [r EXCEPT !.todo = @ \ {w}, !.who = w, !.vid = id]
           IN  \/ /\ Set(j, IF r.op = "member" /\ id # 0 THEN After([s EXCEPT !.refs[w] = id])
                            ELSE [s EXCEPT !.pc =
                              IF id = 0 THEN (IF r.op = "upsert" THEN "post" ELSE "find")
                              ELSE CASE r.op = "upsert" -> "patch"
                                     [] r.op = "deactivate" -> "setoff"
                                     [] r.op = "delete" -> "remove"])
                  /\ NoFault /\ UNCHANGED dirty
               \/ Set(j, After(s)) /\ Fault /\ Dirty({w} \cup ({r.group} \ {None}))
      /\ UNCHANGED <<tables, target, journal, marks>>

\* Wrong on purpose: whom the cache does not know, the target does not know.
FindCached(j) ==
  LET r == job[j]
  IN  /\ r.pc = "find"
      /\ Set(j, IF r.op = "member" THEN [r EXCEPT !.pc = "post"] ELSE After(r))
      /\ NoFault
      /\ UNCHANGED <<tables, target, journal, marks, dirty>>

\* findUserByExternalID.  Whom the target does not know need not be
\* deactivated or deleted; a member is created on the spot.
Find(j) ==
  LET r == job[j]  v == vault[r.who]
  IN  /\ r.pc = "find"
      /\ Set(j, IF v.on /\ v.linked THEN [r EXCEPT !.vid = v.n, !.pc = "remember"]
                ELSE IF r.op = "member" THEN [r EXCEPT !.pc = "post"]
                ELSE After(r))
      /\ NoFault
      /\ UNCHANGED <<tables, target, journal, marks, dirty>>

\* What each writing call does at the target.  POST /Users answers with the
\* record it has where the e-mail is known, and leaves it as it is; a record
\* takes its memberships with it; unknown member ids are dropped.
Applied(r) ==
  LET w == r.who  v == vault[w]
      hit == v.on /\ v.n = r.vid
      members == {u \in Users : r.refs[u] # 0 /\ vault[u].on /\ vault[u].n = r.refs[u]}
  IN  CASE r.pc = "patch" /\ hit ->
             <<[vault EXCEPT ![w].linked = TRUE, ![w].active = Active(r)], vgroup>>
        [] r.pc = "setoff" /\ hit -> <<[vault EXCEPT ![w].active = FALSE], vgroup>>
        [] r.pc = "remove" /\ hit ->
             <<[vault EXCEPT ![w].on = FALSE],
               [g \in Groups |-> [vgroup[g] EXCEPT !.members = @ \ {w}]]>>
        [] r.pc = "post" /\ ~v.on ->
             <<[vault EXCEPT ![w] = [n |-> v.n + 1, on |-> TRUE, linked |-> TRUE,
                                     active |-> Active(r)]], vgroup>>
        [] (r.pc = "putg" /\ vgroup[r.group].on) \/ r.pc = "postg" ->
             <<vault, [vgroup EXCEPT ![r.group] = [on |-> TRUE, members |-> members]]>>
        [] r.pc = "deleteg" ->
             <<vault, [vgroup EXCEPT ![r.group] = [on |-> FALSE, members |-> {}]]>>
        [] OTHER -> <<vault, vgroup>>
Apply(r) == vault' = Applied(r)[1] /\ vgroup' = Applied(r)[2]
Hit(r) == vault[r.who].on /\ vault[r.who].n = r.vid

\* upsertUser with a cached id, setUserActive, deleteUser: the call, and the
\* cache cleared where the target answers 404 or has deleted the record.
CallUser(j) ==
  LET r == job[j]
  IN  /\ r.pc \in {"patch", "setoff", "remove"}
      /\ Apply(r)
      /\ IF Hit(r) /\ r.pc # "remove" THEN Set(j, After(r)) ELSE Go(j, "forget")
      /\ IF Hit(r) /\ (r.pc # "setoff" \/ vault[r.who].linked) THEN Pushed(j, r.who) ELSE UNCHANGED dirty
      /\ NoFault
      /\ UNCHANGED <<tables, journal, marks>>

\* DeleteExternalID; upsertUser then creates.
Forget(j) ==
  LET r == job[j]
  IN  /\ r.pc = "forget"
      /\ \/ DeleteExternalID(r.who) /\ NoFault /\ UNCHANGED dirty
         \/ UNCHANGED ext /\ Fault /\ Dirty({r.who})
      /\ IF r.op = "upsert" THEN Go(j, "post") ELSE Set(j, After(r))
      /\ UNCHANGED <<row, group, target, journal, marks>>

\* createUser: the call.
Post(j) ==
  LET r == job[j]
  IN  /\ r.pc = "post"
      /\ vault[r.who].on \/ vault[r.who].n < MaxRecords
      /\ Apply(r)
      /\ job' = [job EXCEPT ![j].pc = "remember", ![j].vid = Applied(r)[1][r.who].n]
      /\ IF vault[r.who].on THEN UNCHANGED dirty ELSE Pushed(j, r.who)
      /\ NoFault
      /\ UNCHANGED <<tables, journal, marks>>

\* createUser and resolveVaultUserID: SetExternalID, whose failure is logged.
Remember(j) ==
  LET r == job[j]
      found(s) == CASE s.op = "deactivate" -> [s EXCEPT !.pc = "setoff"]
                    [] s.op = "delete" -> [s EXCEPT !.pc = "remove"]
                    [] s.op = "upsert" -> After(s)
                    [] s.op = "member" -> After([s EXCEPT !.refs[s.who] = s.vid])
  IN  /\ r.pc = "remember"
      /\ \/ SetExternalID(r.who, r.vid) /\ Set(j, found(r)) /\ NoFault /\ UNCHANGED dirty
         \/ /\ UNCHANGED ext /\ Fault /\ Dirty({r.who})
            /\ Set(j, found([r EXCEPT !.shared = @ \cup {r.who}]))
      /\ UNCHANGED <<row, group, target, journal, marks>>

\* upsertGroup: PUT, and POST where the target does not know the group;
\* deleteGroup.
CallGroup(j) ==
  LET r == job[j]
      complete == Applied(r)[2][r.group].members = r.want
  IN  /\ r.pc \in {"putg", "postg", "deleteg"}
      /\ Apply(r)
      /\ IF r.pc = "putg" /\ ~vgroup[r.group].on
         THEN Go(j, "postg") /\ UNCHANGED dirty
         ELSE /\ Set(j, AfterGroup(r))
              /\ IF complete THEN Pushed(j, r.group) ELSE Dirty({r.group})
      /\ NoFault
      /\ UNCHANGED <<tables, journal, marks>>

\* do: no answer or an error answer, and the target may have done it.  The push
\* of this user or group is over, and the failure is logged.
CallFails(j) ==
  LET r == job[j]
  IN  /\ r.pc \in {"find", "patch", "setoff", "remove", "post", "putg", "postg", "deleteg"}
      /\ r.pc = "post" => vault[r.who].on \/ vault[r.who].n < MaxRecords
      /\ Fault
      /\ Apply(r) \/ UNCHANGED target
      /\ Set(j, IF r.who = None THEN AfterGroup(r) ELSE After(r))
      /\ Dirty({r.who, r.group} \ {None})
      /\ UNCHANGED <<tables, journal, marks>>

-----------------------------------------------------------------------------
(* Surroundings.                                                           *)

\* The process dies, or the handler's context ends and every later call fails.
Crash(j) ==
  /\ job[j].pc # "idle"
  /\ Fault
  /\ End(j)
  /\ Dirty(Touches(job[j]))
  /\ excused' = excused \cup ({job[j].user, job[j].group} \ {None})
  /\ UNCHANGED <<tables, target, journal, boot, refused>>

\* The target makes its own record when the user first signs in there, without
\* externalId, or loses one.
TargetCreates(u) ==
  /\ Fault
  /\ u \in In /\ ~vault[u].on /\ vault[u].n < MaxRecords
  /\ vault' = [vault EXCEPT ![u] = [n |-> @.n + 1, on |-> TRUE, linked |-> FALSE, active |-> TRUE]]
  /\ Dirty({u})
  /\ UNCHANGED <<tables, vgroup, job, journal, marks>>

TargetLoses(u) ==
  /\ Fault
  /\ vault[u].on
  /\ vault' = [vault EXCEPT ![u].on = FALSE]
  /\ vgroup' = [g \in Groups |-> [vgroup[g] EXCEPT !.members = @ \ {u}]]
  /\ Dirty({u} \cup {g \in Groups : u \in vgroup[g].members})
  /\ UNCHANGED <<tables, job, journal, marks>>

-----------------------------------------------------------------------------

Init ==
  /\ row = [u \in Users |-> [st |-> "new", active |-> FALSE, admin |-> FALSE]]
  /\ group = [g \in Groups |-> [st |-> "new", members |-> {}]]
  /\ ext = [u \in Users |-> 0]
  /\ vault = [u \in Users |-> [n |-> 0, on |-> FALSE, linked |-> FALSE, active |-> FALSE]]
  /\ vgroup = [g \in Groups |-> [on |-> FALSE, members |-> {}]]
  /\ job = [j \in Jobs |-> NoJob]
  /\ journal = {} /\ boot = {} /\ excused = {} /\ refused = {} /\ dirty = {}
  /\ starts = 0 /\ faults = 0

Begin(j) ==
  \/ \E u \in Users : AdminCreate(j, u) \/ Register(j, u) \/ DeleteBegin(j, u)
  \/ \E u \in Users, f \in Forms : \/ PortalNew(j, u, f) \/ CommandCreate(j, u, f)
                                   \/ UpdateBegin(j, u, f) \/ EditBegin(j, u, f)
  \/ \E g \in Groups : GroupDelete(j, g)
  \/ \E g \in Groups, S \in SUBSET Users : GroupNew(j, g, S) \/ GroupEdit(j, g, S)
  \/ SyncBegin(j)

Handle(j) ==
  \/ CountUsers(j) \/ Promote(j) \/ SetActive(j) \/ SetNewAdmin(j) \/ DeleteUnread(j)
  \/ CreateGroup(j) \/ UpdateGroup(j) \/ StoreMembers(j)
  \/ Audit(j) \/ AuditFails(j) \/ Undo(j) \/ Write(j) \/ SetAdmin(j)
  \/ ListGroups(j) \/ ChangeMember(j) \/ ReadGroup(j) \/ Reread(j)
  \/ EraseUser(j) \/ EraseGroup(j)

Provision(j) ==
  \/ LookUp(j) \/ Find(j) \/ CallUser(j) \/ Forget(j) \/ Post(j) \/ Remember(j)
  \/ CallGroup(j) \/ CallFails(j)

Next ==
  \/ \E j \in Jobs : Begin(j) \/ Handle(j) \/ Provision(j) \/ Crash(j)
  \/ \E u \in Users : TargetCreates(u) \/ TargetLoses(u)

Spec == Init /\ [][Next]_vars

-----------------------------------------------------------------------------
(* Properties.                                                             *)

Events == {"created", "updated", "deleted"} \X Items

ProvTypeOK ==
  /\ row \in [Users -> Row] /\ group \in [Groups -> Group] /\ ext \in [Users -> Nat]
  /\ vault \in [Users -> Record] /\ vgroup \in [Groups -> TargetGroup]
  /\ job \in [Jobs -> Job]
  /\ journal \subseteq Events
  /\ starts \in Nat /\ faults \in Nat
  /\ boot \subseteq Users /\ excused \subseteq Items /\ refused \subseteq Items
  /\ dirty \subseteq Items

\* Once nobody has a user in hand, and since its last unshared push no call for
\* it failed, the target agrees with the users table: it has exactly the users
\* of the table, linked by externalId, under the id of the cache, and active as
\* the table says.
UsersAgree ==
  \A u \in Users \ dirty : ~InHand(u) =>
    IF u \in In
    THEN vault[u].on /\ vault[u].linked /\ vault[u].active = row[u].active /\ ext[u] = vault[u].n
    ELSE ~vault[u].on

\* The same for groups; about a member for whom a call failed nothing is said.
GroupsAgree ==
  \A g \in Groups \ dirty : ~InHand(g) =>
    /\ vgroup[g].on = (group[g].st = "in")
    /\ vgroup[g].members \ dirty = group[g].members \ dirty

Creating(x) == \E j \in Busy : /\ job[j].kind \in {"create", "register", "new", "gnew"}
                               /\ x \in {job[j].user, job[j].group}

\* Every row of the tables has its audit event unless its creator is still at
\* work, died, could not undo it, or was the command line; and no row is gone
\* that was not refused or journalled as deleted.
JournalCovers ==
  \A x \in Items :
    LET st == IF x \in Users THEN row[x].st ELSE group[x].st
    IN  /\ st = "in" /\ x \notin excused /\ ~Creating(x) => <<"created", x>> \in journal
        /\ st = "gone" => <<"deleted", x>> \in journal \/ x \in refused

\* However registrations, deletions and refusals interleave, at most one user
\* of the table owes its administrator rights to being the first.
OneBootstrapAdmin == Cardinality(boot \cap In) <= 1

=============================================================================
