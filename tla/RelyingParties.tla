---------------------------- MODULE RelyingParties ----------------------------
(***************************************************************************)
(* The relying parties: the clients table and its administration, and the  *)
(* back-channel logout that tells a client that a user has signed out.     *)
(*                                                                         *)
(* Five handlers sign a user out (portal logout, a change of user in one   *)
(* browser, a password reset, a compromised reset, a deletion).  Each      *)
(* lists the clients the user has sessions with, starts one goroutine per  *)
(* client, deletes the sessions, and does not wait.  A goroutine posts a   *)
(* logout token for the whole user, and journals the outcome if it can.    *)
(*                                                                         *)
(* The rows a user has with one client count as one session, and so does   *)
(* what the client itself keeps (rp), which only a logout token ends.  The *)
(* settings of a client are four groups of columns, each written by a      *)
(* statement of its own; a group is known by the form it came from.        *)
(***************************************************************************)
EXTENDS Naturals, FiniteSets

CONSTANTS
  Users, Clients,
  None,
  Portal,                 \* the sentinel client of the portal itself
  Known,                  \* clients that were registered earlier
  Forms,                  \* what administrators submit: a subset of Form
  MaxStarts,              \* bound: handlers begun
  MaxLogins,              \* bound: sessions opened, sessions revoked
  MaxFaults               \* bound: failed statements and audit events, crashes

Form == [public : BOOLEAN, uri : BOOLEAN]   \* uri: has a backchannel_logout_uri

ASSUME PartiesAssumption ==
  /\ Known \subseteq Clients /\ Forms \subseteq Form
  /\ Portal \notin Clients /\ None \notin Users \cup Clients \cup {Portal}
  /\ None \notin {"logout", "reset", "delete", "new", "edit", "rotate", "drop"}
  /\ {MaxStarts, MaxLogins, MaxFaults} \subseteq Nat

Jobs == 1 .. MaxStarts   \* the handlers, in the order in which they begin

VARIABLES
  client,    \* clients
  users,     \* users
  sess,      \* sessions: <<user, client>>
  rp,        \* what the clients keep: <<user, client>> (external)
  push,      \* pushLogoutToken goroutines
  job,       \* local state of each handler
  reported,  \* the journal has a failed push for it: <<user, client>>
  recorded,  \* journalled events that say a client has a new secret
  accounted, \* journalled forms of each client
  missed,    \* history: nobody will tell this client about this user
  unanswered, \* history: a push that ran out of time, and is not journalled
  revoked,   \* history: a token was revoked, and the last session went with it
  beside,    \* history: the edits of the same client that each edit overlapped
  unset,     \* history: <<client, group>> its creation failed to write
  orphans,   \* history: clients whose creation is not in the journal
  starts, logins, faults

vars == <<client, users, sess, rp, push, job, reported, recorded, accounted, missed,
          unanswered, revoked, beside, unset, orphans, starts, logins, faults>>
table == <<client, users>>
excused == <<unanswered, revoked>>
logout == <<sess, rp, push, reported, missed, excused>>
journal == <<recorded, accounted>>
edits == <<beside, unset, orphans>>

-----------------------------------------------------------------------------
(* State.                                                                  *)

Parts == {"core", "portal", "device", "visibility"}

\* secrets: how often client_secret_hash has been set; from: the form each
\* group of columns came from.
Client == [st : {"free", "live", "gone"}, public : BOOLEAN, uri : BOOLEAN,
           secrets : Nat, from : [Parts -> Nat]]
NoClient == [st |-> "free", public |-> FALSE, uri |-> FALSE, secrets |-> 0,
             from |-> [p \in Parts |-> 0]]

Pairs == Users \X Clients
Push == [to : Pairs, by : Jobs, pc : {"post", "ok", "failed"}]

SignOuts == {"logout", "reset", "delete"}
Job == [pc : {"idle", "first", "password", "list", "user", "each", "wipe", "last", "erase",
              "create", "portal", "device", "visibility", "update", "audit", "undo",
              "store", "drop"},
        kind : SignOuts \cup {"new", "edit", "rotate", "drop", None},
        user : Users \cup {None}, client : Clients \cup {None},
        form : Forms \cup {None},
        todo : SUBSET (Clients \cup {Portal}),
        fresh : SUBSET Clients]              \* history: logins since the list
NoJob == [pc |-> "idle", kind |-> None, user |-> None, client |-> None, form |-> None,
          todo |-> {}, fresh |-> {}]

Busy == {j \in Jobs : job[j].pc # "idle"}
Go(j, pc) == job' = [job EXCEPT ![j].pc = pc]
End(j) == job' = [job EXCEPT ![j] = NoJob]
Fault == faults < MaxFaults /\ faults' = faults + 1 /\ UNCHANGED <<starts, logins>>
Sound == UNCHANGED <<starts, logins, faults>>

Start(j, new) ==
  /\ j = starts + 1 /\ starts' = j /\ UNCHANGED <<logins, faults>>
  /\ job' = [job EXCEPT ![j] = new]

\* Handlers that write the settings of client c.
Editing(c) == {j \in Busy : job[j].kind \in {"new", "edit"} /\ job[j].client = c}

-----------------------------------------------------------------------------
(* Signing in.                                                             *)

\* A code is exchanged and the client opens its own session, or the portal's
\* login seats a cookie.
Login(u, c) ==
  /\ u \in users /\ c \in {Portal} \cup {d \in Clients : client[d].st = "live"}
  /\ logins < MaxLogins /\ logins' = logins + 1 /\ UNCHANGED <<starts, faults>>
  /\ sess' = sess \cup {<<u, c>>}
  /\ rp' = IF c = Portal THEN rp ELSE rp \cup {<<u, c>>}
  /\ reported' = reported \ {<<u, c>>} /\ missed' = missed \ {<<u, c>>}
  /\ job' = [j \in Jobs |->
               IF job[j].user = u /\ job[j].pc \in {"user", "each", "wipe", "last", "erase"}
               THEN [job[j] EXCEPT !.fresh = @ \cup ({c} \ {Portal})] ELSE job[j]]
  /\ unanswered' = unanswered \ {<<u, c>>} /\ revoked' = revoked \ {<<u, c>>}
  /\ UNCHANGED <<table, push, journal, edits>>

\* handleRevoke, or a replay that revokeOnRefreshReuse notices: the last row the
\* user has with the client goes, and the client is not told.
Revoke(u, c) ==
  /\ <<u, c>> \in sess /\ sess' = sess \ {<<u, c>>}
  /\ revoked' = revoked \cup {<<u, c>>}
  /\ logins < MaxLogins /\ logins' = logins + 1 /\ UNCHANGED <<starts, faults>>
  /\ UNCHANGED <<table, rp, push, job, reported, missed, unanswered, journal, edits>>

-----------------------------------------------------------------------------
(* Signing out.                                                            *)

\* handlePortalLogout, and the change of user in ensurePortalCookie: both have
\* a portal session of the user at hand.  The resets and the deletion have the
\* user's id; they journal first.
SignOutBegin(j, u, k) ==
  /\ IF k = "logout" THEN <<u, Portal>> \in sess ELSE u \in users
  /\ Start(j, [NoJob EXCEPT !.kind = k, !.user = u,
                            !.pc = IF k = "logout" THEN "list" ELSE "first"])
  /\ UNCHANGED <<table, logout, journal, edits>>

AfterFirst(k) == CASE k = "reset" -> "password" [] k = "delete" -> "list"
                   [] k = "rotate" -> "store" [] k = "drop" -> "drop"

\* logAudit, before what cannot be taken back.
AuditFirst(j) ==
  LET k == job[j].kind
  IN  /\ job[j].pc = "first"
      /\ \/ /\ Sound /\ Go(j, AfterFirst(k))
            /\ recorded' = IF k = "rotate" THEN [recorded EXCEPT ![job[j].client] = @ + 1]
                           ELSE recorded
         \/ Fault /\ End(j) /\ UNCHANGED recorded
      /\ UNCHANGED <<table, logout, accounted, edits>>

\* The new password and must_change_password (see SignIn); if either cannot be
\* stored the handler ends.
ResetPassword(j) ==
  /\ job[j].pc = "password"
  /\ (Sound /\ Go(j, "list")) \/ (Fault /\ End(j))
  /\ UNCHANGED <<table, logout, journal, edits>>

ListSessionClientIDsByUser(u) == {c \in Clients \cup {Portal} : <<u, c>> \in sess}

\* Whom the handler has still to tell; never the portal.
Left(j) == {<<job[j].user, c>> : c \in job[j].todo \ {Portal}}

\* broadcastLogout.  If the list cannot be read nobody is told.
List(j) ==
  LET u == job[j].user  cs == ListSessionClientIDsByUser(u)
  IN  /\ job[j].pc = "list"
      /\ \/ /\ Sound /\ UNCHANGED missed
            /\ job' = [job EXCEPT ![j].todo = cs, ![j].fresh = {},
                                  ![j].pc = IF cs = {} THEN "wipe" ELSE "user"]
         \/ /\ Fault /\ Go(j, "wipe")
            /\ missed' = missed \cup {<<u, c>> : c \in cs \ {Portal}}
      /\ UNCHANGED <<table, sess, rp, push, reported, excused, journal, edits>>

GetUser(j) ==
  LET u == job[j].user
  IN  /\ job[j].pc = "user"
      /\ \/ u \in users /\ Sound /\ Go(j, "each") /\ UNCHANGED missed
         \/ /\ IF u \in users THEN Fault /\ missed' = missed \cup Left(j)
               ELSE Sound /\ UNCHANGED missed
            /\ job' = [job EXCEPT ![j].pc = "wipe", ![j].todo = {}]
      /\ UNCHANGED <<table, sess, rp, push, reported, excused, journal, edits>>

\* Wrong on purpose: a client without a URI ends the loop.
BroadcastUpTo(j, c) ==
  LET to == <<job[j].user, c>>
      reachable == c # Portal /\ client[c].st = "live" /\ client[c].uri
  IN  /\ job[j].pc = "each" /\ c \in job[j].todo
      /\ IF reachable
         THEN /\ push' = push \cup {[to |-> to, by |-> j, pc |-> "post"]}
              /\ job' = [job EXCEPT ![j].todo = @ \ {c}] /\ missed' = missed \ {to}
         ELSE /\ job' = [job EXCEPT ![j].todo = IF c = Portal THEN @ \ {c} ELSE {}]
              /\ missed' = IF c = Portal THEN missed ELSE missed \cup {to}
              /\ UNCHANGED push
      /\ Sound /\ UNCHANGED <<table, sess, rp, reported, excused, journal, edits>>

\* One client of the list: the portal, a client that is gone and one without a
\* URI are skipped.
Broadcast(j, c) ==
  LET to == <<job[j].user, c>>
      reachable == c # Portal /\ client[c].st = "live" /\ client[c].uri
  IN  /\ job[j].pc = "each" /\ c \in job[j].todo
      /\ job' = [job EXCEPT ![j].todo = @ \ {c}]
      /\ \/ /\ Sound /\ reachable /\ missed' = missed \ {to}
            /\ push' = push \cup {[to |-> to, by |-> j, pc |-> "post"]}
         \/ /\ IF reachable THEN Fault ELSE Sound
            /\ missed' = IF c = Portal THEN missed ELSE missed \cup {to}
            /\ UNCHANGED push
      /\ UNCHANGED <<table, sess, rp, reported, excused, journal, edits>>

BroadcastDone(j) ==
  /\ job[j].pc = "each" /\ job[j].todo = {}
  /\ Go(j, "wipe") /\ Sound /\ UNCHANGED <<table, logout, journal, edits>>

Fresh(j) == {<<job[j].user, c>> : c \in job[j].fresh}

\* DeleteSessionsByUserID; an error is ignored.
Wipe(j) ==
  LET u == job[j].user
  IN  /\ job[j].pc = "wipe"
      /\ \/ Sound /\ sess' = {s \in sess : s[1] # u} /\ missed' = missed \cup Fresh(j)
         \/ Fault /\ UNCHANGED <<sess, missed>>
      /\ CASE job[j].kind = "logout" -> Go(j, "last")
           [] job[j].kind = "reset" -> End(j)
           [] job[j].kind = "delete" -> Go(j, "erase")
      /\ UNCHANGED <<table, rp, push, reported, excused, journal, edits>>

\* The journal row of a logout; its failure is ignored.
LogLogout(j) ==
  /\ job[j].pc = "last"
  /\ (Sound \/ Fault) /\ End(j) /\ UNCHANGED <<table, logout, journal, edits>>

\* DeleteUser, and the sessions go with the row.
EraseUser(j) ==
  LET u == job[j].user
  IN  /\ job[j].pc = "erase"
      /\ \/ /\ Sound /\ users' = users \ {u}
            /\ sess' = {s \in sess : s[1] # u} /\ missed' = missed \cup Fresh(j)
         \/ Fault /\ UNCHANGED <<users, sess, missed>>
      /\ End(j)
      /\ UNCHANGED <<client, rp, push, reported, excused, journal, edits>>

-----------------------------------------------------------------------------
(* pushLogoutToken.                                                        *)

Becomes(p, pc) == push' = (push \ {p}) \cup {[p EXCEPT !.pc = pc]}

\* The client ends its session and says so.
Accepts(p) ==
  /\ p.pc = "post" /\ rp' = rp \ {p.to} /\ Becomes(p, "ok")
  /\ Sound /\ UNCHANGED <<table, sess, job, reported, missed, excused, journal, edits>>

\* The token cannot be minted, or the client refuses it or cannot be reached.
Fails(p) ==
  /\ p.pc = "post" /\ Becomes(p, "failed")
  /\ Sound /\ UNCHANGED <<table, sess, rp, job, reported, missed, excused, journal, edits>>

\* Wrong on purpose: the client must answer.
TimesOutAnswered(p) ==
  /\ p.pc = "post" /\ p.to \notin rp /\ push' = push \ {p}
  /\ Sound /\ UNCHANGED <<table, sess, rp, job, reported, missed, excused, journal, edits>>

\* Five seconds pass without an answer; the client may have ended its session.
\* The context of the goroutine is over as well, so that the call of the journal
\* that follows fails too.
TimesOut(p) ==
  /\ p.pc = "post" /\ push' = push \ {p}
  /\ rp' \in {rp, rp \ {p.to}} /\ unanswered' = unanswered \cup {p.to}
  /\ Sound /\ UNCHANGED <<table, sess, job, reported, missed, revoked, journal, edits>>

\* The goroutine journals the outcome, as far as it can, and ends.
Outcome(p) ==
  /\ p.pc \in {"ok", "failed"} /\ push' = push \ {p}
  /\ \/ /\ Sound /\ UNCHANGED missed
        /\ reported' = IF p.pc = "failed" THEN reported \cup {p.to} ELSE reported
     \/ /\ Fault /\ UNCHANGED reported
        /\ missed' = IF p.pc = "failed" THEN missed \cup {p.to} ELSE missed
  /\ UNCHANGED <<table, sess, rp, job, excused, journal, edits>>

-----------------------------------------------------------------------------
(* The administration of clients.                                          *)

\* CreateClient, and a first secret where the client is confidential.
CreateClient(j, c, f, written, pc) ==
  /\ client[c].st = "free"
  /\ Start(j, [NoJob EXCEPT !.kind = "new", !.client = c, !.form = f, !.pc = pc])
  /\ client' = [client EXCEPT ![c] =
       [st |-> "live", public |-> f.public, uri |-> f.uri, secrets |-> IF f.public THEN 0 ELSE 1,
        from |-> [p \in Parts |-> IF p \in written THEN j ELSE 0]]]
  /\ UNCHANGED <<users, logout, journal, edits>>

\* handlePortalAdminClientNew has three groups of columns to go.
PortalCreate(j, c, f) == CreateClient(j, c, f, {"core"}, "portal")

\* handleAdminCreateClient has no other settings: the columns' defaults stand.
AdminCreate(j, c, f) == CreateClient(j, c, f, Parts, "audit")

\* handlePortalAdminClientEdit; nothing stops a second one of the same client.
EditBegin(j, c, f) ==
  /\ client[c].st = "live"
  /\ Start(j, [NoJob EXCEPT !.kind = "edit", !.client = c, !.form = f, !.pc = "update"])
  /\ beside' = [i \in Jobs |-> IF i = j THEN Editing(c)
                                ELSE beside[i] \cup (IF i \in Editing(c) THEN {j} ELSE {})]
  /\ UNCHANGED <<table, logout, journal, unset, orphans>>

\* UpdateClient.
UpdateClient(j) ==
  LET c == job[j].client  f == job[j].form
  IN  /\ job[j].pc = "update"
      /\ \/ /\ Sound /\ Go(j, "portal")
            /\ client' = IF client[c].st # "live" THEN client
                         ELSE [client EXCEPT ![c].public = f.public, ![c].uri = f.uri,
                                             ![c].from["core"] = j]
         \/ Fault /\ End(j) /\ UNCHANGED client
      /\ UNCHANGED <<users, logout, journal, edits>>

\* Wrong on purpose: the groups are written only when the client is confidential.
NextPartSkipping(j, p) ==
  CASE p = "portal" -> IF job[j].kind = "new" THEN "visibility" ELSE "device"
    [] p = "device" -> IF job[j].kind = "new" \/ job[j].form.public THEN "audit" ELSE "visibility"
    [] p = "visibility" -> IF job[j].kind = "new" THEN "device" ELSE "audit"

\* The order of the statements.
NextPart(j, p) ==
  CASE p = "portal" -> IF job[j].kind = "new" THEN "visibility" ELSE "device"
    [] p = "device" -> IF job[j].kind = "new" THEN "audit" ELSE "visibility"
    [] p = "visibility" -> IF job[j].kind = "new" THEN "device" ELSE "audit"

\* UpdateClientPortalConfig, UpdateClientDeviceGrant, ReplaceClientVisibility.
\* An error, a client that is gone too, ends an edit; a new client goes on.
UpdatePart(j) ==
  LET c == job[j].client  p == job[j].pc
  IN  /\ p \in {"portal", "device", "visibility"}
      /\ \/ /\ Sound /\ client[c].st = "live" /\ Go(j, NextPart(j, p)) /\ UNCHANGED unset
            /\ client' = [client EXCEPT ![c].from[p] = j]
         \/ /\ IF client[c].st = "live" THEN Fault ELSE Sound
            /\ IF job[j].kind = "new"
               THEN Go(j, NextPart(j, p)) /\ unset' = unset \cup {<<c, p>>}
               ELSE End(j) /\ UNCHANGED unset
            /\ UNCHANGED client
      /\ UNCHANGED <<users, logout, journal, beside, orphans>>

\* logAudit, after a client was created or changed.
AuditLast(j) ==
  LET c == job[j].client
  IN  /\ job[j].pc = "audit"
      /\ \/ /\ Sound /\ End(j) /\ UNCHANGED orphans
            /\ accounted' = [accounted EXCEPT ![c] = @ \cup {j}]
            /\ recorded' = IF job[j].kind = "new" /\ ~job[j].form.public
                           THEN [recorded EXCEPT ![c] = @ + 1] ELSE recorded
         \/ /\ Fault /\ UNCHANGED journal
            /\ IF job[j].kind = "new" THEN Go(j, "undo") /\ orphans' = orphans \cup {c}
               ELSE End(j) /\ UNCHANGED orphans
      /\ UNCHANGED <<table, logout, beside, unset>>

\* A client's row goes, and its sessions with it; nobody tells the client.
Remove(c) ==
  /\ client' = [client EXCEPT ![c].st = "gone"]
  /\ sess' = {s \in sess : s[2] # c}
  /\ missed' = missed \cup {s \in rp : s[2] = c}
  /\ UNCHANGED <<users, rp, push, reported, excused>>

\* undoOnAuditFailure; an undo that fails leaves the client.
Undo(j) ==
  /\ job[j].pc = "undo" /\ End(j)
  /\ (Sound /\ Remove(job[j].client)) \/ (Fault /\ UNCHANGED <<table, logout>>)
  /\ UNCHANGED <<journal, edits>>

\* Wrong on purpose: the secret is stored before it is journalled.
RotateBeginUnrecorded(j, c) ==
  /\ client[c].st = "live" /\ ~client[c].public
  /\ Start(j, [NoJob EXCEPT !.kind = "rotate", !.client = c, !.pc = "first"])
  /\ client' = [client EXCEPT ![c].secrets = @ + 1]
  /\ UNCHANGED <<users, logout, journal, edits>>

\* Public clients have no secret to rotate.
RotateBegin(j, c) ==
  /\ client[c].st = "live" /\ ~client[c].public
  /\ Start(j, [NoJob EXCEPT !.kind = "rotate", !.client = c, !.pc = "first"])
  /\ UNCHANGED <<table, logout, journal, edits>>

\* UpdateClientSecret.
StoreSecret(j) ==
  LET c == job[j].client
  IN  /\ job[j].pc = "store" /\ End(j)
      /\ \/ Sound /\ client' = [client EXCEPT ![c].secrets = IF client[c].st = "live" THEN @ + 1 ELSE @]
         \/ Fault /\ UNCHANGED client
      /\ UNCHANGED <<users, logout, journal, edits>>

DropBegin(j, c) ==
  /\ client[c].st = "live"
  /\ Start(j, [NoJob EXCEPT !.kind = "drop", !.client = c, !.pc = "first"])
  /\ UNCHANGED <<table, logout, journal, edits>>

\* DeleteClient.
DropClient(j) ==
  /\ job[j].pc = "drop" /\ End(j)
  /\ (Sound /\ Remove(job[j].client)) \/ (Fault /\ UNCHANGED <<table, logout>>)
  /\ UNCHANGED <<journal, edits>>

\* The process dies, and handlers and goroutines with it.
Crash ==
  /\ Busy # {} \/ push # {}
  /\ Fault
  /\ job' = [j \in Jobs |-> NoJob] /\ push' = {}
  /\ missed' = missed \cup {p.to : p \in push} \cup UNION {Left(j) : j \in Busy}
  /\ orphans' = orphans \cup {job[j].client : j \in {i \in Busy : job[i].kind = "new"}}
  /\ UNCHANGED <<table, sess, rp, reported, excused, journal, beside, unset>>

-----------------------------------------------------------------------------

\* A confidential client that was registered, and journalled, earlier.
Registered(uri) == [NoClient EXCEPT !.st = "live", !.uri = uri, !.secrets = 1]

Init ==
  /\ \E uri \in [Known -> BOOLEAN] :
       client = [c \in Clients |-> IF c \in Known THEN Registered(uri[c]) ELSE NoClient]
  /\ users = Users /\ sess = Users \X {Portal} /\ rp = {} /\ push = {}
  /\ job = [j \in Jobs |-> NoJob]
  /\ reported = {} /\ missed = {} /\ unanswered = {} /\ revoked = {}
  /\ beside = [j \in Jobs |-> {}] /\ unset = {} /\ orphans = {}
  /\ recorded = [c \in Clients |-> client[c].secrets]
  /\ accounted = [c \in Clients |-> IF client[c].st = "live" THEN {0} ELSE {}]
  /\ starts = 0 /\ logins = 0 /\ faults = 0

Begin(j) ==
  \/ \E u \in Users, k \in SignOuts : SignOutBegin(j, u, k)
  \/ \E c \in Clients :
       \/ \E f \in Forms : PortalCreate(j, c, f) \/ AdminCreate(j, c, f) \/ EditBegin(j, c, f)
       \/ RotateBegin(j, c) \/ DropBegin(j, c)

SigningOut(j) ==
  \/ AuditFirst(j) \/ ResetPassword(j) \/ List(j) \/ GetUser(j)
  \/ \E c \in Clients \cup {Portal} : Broadcast(j, c)
  \/ BroadcastDone(j) \/ Wipe(j) \/ LogLogout(j) \/ EraseUser(j)

Administering(j) ==
  \/ UpdateClient(j) \/ UpdatePart(j) \/ AuditLast(j) \/ Undo(j) \/ StoreSecret(j) \/ DropClient(j)

Pushing == \E p \in push : Accepts(p) \/ Fails(p) \/ TimesOut(p) \/ Outcome(p)

Next ==
  \/ \E u \in Users, c \in Clients \cup {Portal} : Login(u, c)
  \/ \E u \in Users, c \in Clients : Revoke(u, c)
  \/ \E j \in Jobs : Begin(j) \/ SigningOut(j) \/ Administering(j)
  \/ Pushing \/ Crash

Spec == Init /\ [][Next]_vars

\* A handler runs to its end, and a goroutine ends within five seconds whatever
\* the client does; nobody can count on the client's answer.
PushEnds(to, j) == \E p \in push : p.to = to /\ p.by = j /\ (TimesOut(p) \/ Outcome(p))

Fairness ==
  /\ \A j \in Jobs : WF_vars(SigningOut(j))
  /\ \A to \in Pairs, j \in Jobs : WF_vars(PushEnds(to, j))

FairSpec == Spec /\ Fairness

-----------------------------------------------------------------------------
(* Properties.                                                             *)

PartiesTypeOK ==
  /\ client \in [Clients -> Client] /\ users \subseteq Users
  /\ sess \subseteq Users \X (Clients \cup {Portal}) /\ rp \subseteq Pairs
  /\ \A p \in push : p \in Push
  /\ job \in [Jobs -> Job]
  /\ {reported, missed, unanswered, revoked} \subseteq SUBSET Pairs
  /\ recorded \in [Clients -> Nat] /\ accounted \in [Clients -> SUBSET Nat]
  /\ beside \in [Jobs -> SUBSET Jobs]
  /\ unset \subseteq Clients \X Parts /\ orphans \subseteq Clients
  /\ {starts, logins, faults} \subseteq Nat

\* A client that still has a session of a user who has none here any more is
\* being told, or the journal says that telling it failed.  The exceptions are
\* the sessions opened between the list and the deletion, a client without a
\* URI, a deleted client, a failed statement or audit event, and a crash
\* (missed); a client that did not answer in time (unanswered); and a session
\* whose row went earlier, when its token was revoked or replayed (revoked).
NoSilentSurvivor ==
  \A to \in rp \ (sess \cup missed \cup unanswered \cup revoked \cup reported) :
    \E p \in push : p.to = to

\* The comment of broadcastLogout: failures are audit-logged.  So a client that
\* still has the session after its push ran out of time is in the journal.
TimeOutsReported == unanswered \cap rp \subseteq reported

\* A client secret that the journal does not know of is never in force, except
\* while its creation is being journalled or taken back, or when that failed.
SecretsRecorded ==
  \A c \in Clients \ orphans :
    client[c].st = "live" /\ (\A j \in Editing(c) : job[j].kind # "new")
      => client[c].secrets <= recorded[c]

\* What the journal says was set holds until a later edit: every group of a live
\* client's columns is at least as new as each journalled form.  The exceptions
\* are an edit that overlapped the journalled one, and a statement of the
\* client's own creation that failed, which the handler only logs.
EditTakesHold ==
  \A c \in Clients : client[c].st = "live" =>
    \A n \in accounted[c], p \in Parts :
      LET m == client[c].from[p]
      IN  \/ m >= n \/ m \in beside[n]
          \/ m = 0 /\ <<c, p>> \in unset

\* A client that a sign-out has on its list loses its session, or has the
\* failure journalled, or is one of those nobody tells.
SignOutSettles ==
  \A to \in Pairs :
    (\/ \E p \in push : p.to = to /\ p.pc # "ok"
     \/ \E j \in Jobs : job[j].pc \in {"user", "each"} /\ to \in Left(j))
      ~> (to \notin rp \/ to \in reported \cup missed \cup unanswered \cup revoked)

=============================================================================
