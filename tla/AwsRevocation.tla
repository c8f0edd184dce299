---------------------------- MODULE AwsRevocation ----------------------------
(***************************************************************************)
(* The AWS federation revocation provisioner.  Users federate into AWS     *)
(* roles; nothing can be taken back from an STS session, so a revocation   *)
(* writes the user into the role's inline policy AuthRevokedUsers, which   *)
(* denies everything to sessions tagged with that user.  Table             *)
(* aws_revoked_users remembers who is listed and since when, and a reaper  *)
(* takes users off the list when the sessions the entry was for have run   *)
(* out.                                                                    *)
(*                                                                         *)
(* A revocation (a goroutine serving an admin's request) and the reaper (a *)
(* background goroutine) each go through the roles one by one: change the  *)
(* table, read the table, push what was read.  Each database statement and *)
(* each AWS call is a step; each may fail where Faults says so.  Nothing   *)
(* orders the steps of one worker against those of another, so a list may  *)
(* be out of date when it is pushed: each worker remembers, as history,    *)
(* who was revoked since it read the role's rows.                          *)
(***************************************************************************)
EXTENDS Integers, FiniteSets

CONSTANTS
  People, Roles,
  Revocations,     \* revocations in flight
  NoOne,
  MaxSession,      \* max_session_duration_sec of each role
  MaxClock,        \* bound: ticks of the clock
  MaxSts,          \* bound: STS sessions alive at a time
  Faults           \* what may fail: "revoke" (a revocation's statements, or it
                   \* dies), "put" (its call of AWS), "sweep" (all of a sweep)

ASSUME AwsAssumption ==
  /\ {MaxClock, MaxSts} \subseteq Nat /\ MaxSession \in [Roles -> Nat]
  /\ Faults \subseteq {"revoke", "put", "sweep"}

VARIABLES
  clock,
  table,        \* aws_revoked_users: revoked_at of each role and user, -1 = no row
  policy,       \* AWS: the users each role's AuthRevokedUsers denies
  sts,          \* AWS: the STS sessions that have not expired
  revocation,   \* local state of each revocation
  reaper,       \* local state of ReapExpired
  promised,     \* history: revoked_at of the last revocation pushed successfully
  overtaken     \* history: <<role, user>> whose revocation was undone by a list or a
                \* sweep that had read the rows before it, and not pushed since

awsVars == <<clock, table, policy, sts, revocation, reaper, promised, overtaken>>

-----------------------------------------------------------------------------

STS == [user : People, role : Roles, start : Nat]
Lasts(s, t) == t <= s.start + MaxSession[s.role]

\* Deny * on aws:PrincipalTag/sub, whenever the session began.
Denied(s) == s.user \in policy[s.role]

Revocation == [pc : {"idle", "add", "collect", "put"}, user : People \cup {NoOne},
               left : SUBSET Roles, role : Roles \cup {NoOne}, at : Nat,
               subs : SUBSET People, behind : SUBSET People]
NoRevocation == [pc |-> "idle", user |-> NoOne, left |-> {}, role |-> NoOne, at |-> 0,
                 subs |-> {}, behind |-> {}]

Reaper == [pc : {"idle", "list", "delete", "collect", "push"},
           left : SUBSET Roles, role : Roles \cup {NoOne}, at : Nat,
           todo : SUBSET People, removed : BOOLEAN, subs : SUBSET People,
           behind : SUBSET People,
           quiet : BOOLEAN]   \* history: no revocation since the sweep began
NoReaper == [pc |-> "idle", left |-> {}, role |-> NoOne, at |-> 0, todo |-> {},
             removed |-> FALSE, subs |-> {}, behind |-> {}, quiet |-> FALSE]

\* History: what worker w has read of role ro does not have the new row of u.
Outdated(w, ro, u) == IF w.role = ro THEN [w EXCEPT !.behind = @ \cup {u}] ELSE w

\* collectActiveRevokedSubs.
RevokedSubs(ro) == {u \in People : table[ro][u] # -1}

-----------------------------------------------------------------------------
(* RevokeUser.                                                             *)

\* A revocation of u that has the roles in left to go.
Round(u, left) == [NoRevocation EXCEPT !.pc = "add", !.user = u, !.left = left]

\* User (OpDeactivate, OpDelete) or the portal's button: revokeAcrossAllRoles
\* lists the roles; without one there is nothing to do.
RevokeBegin(j, u) ==
  /\ revocation[j].pc = "idle" /\ Roles # {}
  /\ revocation' = [revocation EXCEPT ![j] = Round(u, Roles)]
  /\ reaper' = [reaper EXCEPT !.quiet = FALSE]
  /\ UNCHANGED <<clock, table, policy, sts, promised, overtaken>>

\* The loop's next round, or its end, after role ro.
NextRole(j, ro) ==
  LET left == revocation[j].left \ {ro}
  IN  revocation' = [revocation EXCEPT ![j] =
                       IF left = {} THEN NoRevocation ELSE Round(revocation[j].user, left)]

\* revokeOneRole: AddAWSRevokedUser, an upsert with revoked_at = NOW().
RevokeAdd(j, ro) ==
  LET u == revocation[j].user
  IN  /\ revocation[j].pc = "add"
      /\ ro \in revocation[j].left
      /\ \/ /\ table' = [table EXCEPT ![ro][u] = clock]
            /\ revocation' = [i \in Revocations |->
                 IF i = j
                 THEN [revocation[j] EXCEPT !.pc = "collect", !.role = ro, !.at = clock]
                 ELSE Outdated(revocation[i], ro, u)]
            /\ reaper' = Outdated(reaper, ro, u)
         \/ "revoke" \in Faults /\ NextRole(j, ro) /\ UNCHANGED <<table, reaper>>
      /\ UNCHANGED <<clock, policy, sts, promised, overtaken>>

\* revokeOneRole: the list; BuildRevocationPolicy refuses an empty one.
RevokeCollect(j) ==
  /\ revocation[j].pc = "collect"
  /\ LET subs == RevokedSubs(revocation[j].role)
     IN  \/ /\ subs # {}
            /\ revocation' = [revocation EXCEPT ![j].pc = "put", ![j].subs = subs,
                                                ![j].behind = {}]
         \/ (subs = {} \/ "revoke" \in Faults) /\ NextRole(j, revocation[j].role)
  /\ UNCHANGED <<clock, table, policy, sts, reaper, promised, overtaken>>

\* AWS takes worker w's list for its role, in place of the one it had.
Pushes(w) ==
  /\ policy' = [policy EXCEPT ![w.role] = w.subs]
  /\ overtaken' = (overtaken \ ({w.role} \X (w.subs \cap RevokedSubs(w.role))))
                    \cup ({w.role} \X (w.behind \ w.subs))

\* revokeOneRole: PutRolePolicy.  A failure is logged, and the row stays; AWS may
\* have taken the list although no answer came.
RevokePut(j) ==
  LET w == revocation[j]
  IN  /\ w.pc = "put"
      /\ \/ Pushes(w) /\ promised' = [promised EXCEPT ![w.role][w.user] = w.at]
         \/ /\ "put" \in Faults /\ UNCHANGED promised
            /\ Pushes(w) \/ UNCHANGED <<policy, overtaken>>
      /\ NextRole(j, w.role)
      /\ UNCHANGED <<clock, table, sts, reaper>>

-----------------------------------------------------------------------------
(* ReapExpired.                                                            *)

ReapBegin ==
  /\ reaper.pc = "idle" /\ Roles # {}
  /\ reaper' = [NoReaper EXCEPT !.pc = "list", !.left = Roles, !.at = clock,
                                !.quiet = \A j \in Revocations : revocation[j].pc = "idle"]
  /\ UNCHANGED <<clock, table, policy, sts, revocation, promised, overtaken>>

\* The reaper's loop goes on without role ro.
ReapNext(ro) ==
  LET left == reaper.left \ {ro}
  IN  reaper' = IF left = {} THEN NoReaper
                ELSE [NoReaper EXCEPT !.pc = "list", !.left = left, !.at = reaper.at,
                                      !.quiet = reaper.quiet]

\* Wrong on purpose: the session duration is not subtracted.
PastCutoffNow(ro, u) == table[ro][u] # -1 /\ table[ro][u] < reaper.at

\* e.RevokedAt.Before(now - the role's session duration).
PastCutoff(ro, u) == table[ro][u] # -1 /\ table[ro][u] < reaper.at - MaxSession[ro]

\* ListAWSRevokedUsers, and which of the rows are past the cutoff.
ReapList(ro) ==
  /\ reaper.pc = "list"
  /\ ro \in reaper.left
  /\ LET old == {u \in People : PastCutoff(ro, u)}
     IN  \/ /\ old # {}
            /\ reaper' = [reaper EXCEPT !.pc = "delete", !.role = ro, !.todo = old]
         \/ (old = {} \/ "sweep" \in Faults) /\ ReapNext(ro)
  /\ UNCHANGED <<clock, table, policy, sts, revocation, promised, overtaken>>

\* DeleteAWSRevokedUser, by role and user, whatever revoked_at is by now.
ReapDelete(u) ==
  LET ro == reaper.role
  IN  /\ reaper.pc = "delete"
      /\ u \in reaper.todo
      /\ \/ /\ table' = [table EXCEPT ![ro][u] = -1]
            /\ reaper' = [reaper EXCEPT !.todo = @ \ {u}, !.removed = TRUE]
            /\ overtaken' = overtaken \cup ({ro} \X ({u} \cap reaper.behind))
         \/ /\ "sweep" \in Faults
            /\ reaper' = [reaper EXCEPT !.todo = @ \ {u}]
            /\ UNCHANGED <<table, overtaken>>
      /\ UNCHANGED <<clock, policy, sts, revocation, promised>>

\* The trimmed list, when something was removed.
ReapCollect ==
  /\ reaper.pc = "delete" /\ reaper.todo = {}
  /\ \/ /\ reaper.removed
        /\ reaper' = [reaper EXCEPT !.pc = "push", !.subs = RevokedSubs(reaper.role),
                                    !.behind = {}]
     \/ (~reaper.removed \/ "sweep" \in Faults) /\ ReapNext(reaper.role)
  /\ UNCHANGED <<clock, table, policy, sts, revocation, promised, overtaken>>

\* PutRolePolicy, or DeleteRolePolicy when nobody is left.
ReapPush ==
  /\ reaper.pc = "push"
  /\ Pushes(reaper) \/ ("sweep" \in Faults /\ UNCHANGED <<policy, overtaken>>)
  /\ ReapNext(reaper.role)
  /\ UNCHANGED <<clock, table, sts, revocation, promised>>

-----------------------------------------------------------------------------
(* AWS, and the rest of the world.                                         *)

\* assumeRoleForUser through the portal's console tile, which needs a portal
\* session and does not look at the column active.
Federate(u, ro) ==
  /\ Cardinality(sts) < MaxSts
  /\ sts' = sts \cup {[user |-> u, role |-> ro, start |-> clock]}
  /\ UNCHANGED <<clock, table, policy, revocation, reaper, promised, overtaken>>

\* A revocation whose request is cancelled, a sweep whose context is.
Cancel ==
  /\ \/ /\ "revoke" \in Faults
        /\ \E j \in Revocations : /\ revocation[j].pc # "idle"
                                  /\ revocation' = [revocation EXCEPT ![j] = NoRevocation]
        /\ UNCHANGED reaper
     \/ /\ "sweep" \in Faults
        /\ reaper.pc # "idle" /\ reaper' = NoReaper
        /\ UNCHANGED revocation
  /\ UNCHANGED <<clock, table, policy, sts, promised, overtaken>>

AwsTick ==
  /\ clock < MaxClock
  /\ clock' = clock + 1
  /\ sts' = {s \in sts : Lasts(s, clock')}
  /\ UNCHANGED <<table, policy, revocation, reaper, promised, overtaken>>

-----------------------------------------------------------------------------

AwsInit ==
  /\ clock = 0
  /\ table = [ro \in Roles |-> [u \in People |-> -1]]
  /\ policy = [ro \in Roles |-> {}]
  /\ sts = {}
  /\ revocation = [j \in Revocations |-> NoRevocation]
  /\ reaper = NoReaper
  /\ promised = [ro \in Roles |-> [u \in People |-> -1]]
  /\ overtaken = {}

AwsNext ==
  \/ \E j \in Revocations, u \in People : RevokeBegin(j, u)
  \/ \E j \in Revocations, ro \in Roles : RevokeAdd(j, ro)
  \/ \E j \in Revocations : RevokeCollect(j) \/ RevokePut(j)
  \/ ReapBegin
  \/ \E ro \in Roles : ReapList(ro)
  \/ \E u \in People : ReapDelete(u)
  \/ ReapCollect
  \/ ReapPush
  \/ \E u \in People, ro \in Roles : Federate(u, ro)
  \/ Cancel
  \/ AwsTick

AwsSpec == AwsInit /\ [][AwsNext]_awsVars

-----------------------------------------------------------------------------
(* Properties.                                                             *)

\* Every variable has its type; a loop that is not over has roles left, and
\* the role it is at is one of them.
AwsTypeOK ==
  /\ clock \in Nat
  /\ table \in [Roles -> [People -> Nat \cup {-1}]]
  /\ policy \in [Roles -> SUBSET People]
  /\ sts \subseteq STS
  /\ revocation \in [Revocations -> Revocation]
  /\ reaper \in Reaper
  /\ promised \in [Roles -> [People -> Nat \cup {-1}]]
  /\ overtaken \subseteq Roles \X People
  /\ \A w \in {revocation[j] : j \in Revocations} \cup {reaper} :
       /\ w.pc = "idle" <=> w.left = {}
       /\ w.role = NoOne \/ w.role \in w.left

\* A session that was running when its user was successfully revoked is
\* denied until it expires: neither a later revocation of somebody else nor
\* the reaper takes the user off the list before that.  revokeOneRole and
\* ReapExpired are called safe to run concurrently (awsfed.go).
RevocationSticks ==
  \A s \in sts : s.start <= promised[s.role][s.user] => Denied(s)

\* The same, but for the users a worker has overtaken and nobody has listed since:
\* it pushed a list it had read before the user was revoked, or it deleted as
\* expired a row that had been renewed since it was listed.  Whatever else
\* overlaps, fails or dies, and wherever the clock stands against the cutoff, the
\* user stays denied.
RevocationHolds ==
  \A s \in sts :
    s.start <= promised[s.role][s.user] /\ <<s.role, s.user>> \notin overtaken => Denied(s)

\* "If AWS PutRolePolicy fails the reaper will retry on the next periodic sweep
\* (it walks store rows, not AWS state)": when a sweep that meets no failure and
\* no revocation is done with a role, AWS denies everybody the table lists for it
\* (revokeAcrossAllRoles, ReapExpired).
SweepRetries ==
  [][\A ro \in reaper.left \ reaper'.left :
       "sweep" \notin Faults /\ reaper.quiet =>
         RevokedSubs(ro)' \subseteq policy'[ro]]_awsVars

=============================================================================
