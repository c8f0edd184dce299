------------------------ MODULE RelyingPartiesProofs ------------------------
(***************************************************************************)
(* The safety properties of RelyingParties, for any set of users and       *)
(* clients, any number of handlers, logins and failures, and any forms.    *)
(*                                                                         *)
(* Three arguments share the types and the order of each handler's steps   *)
(* (PartiesTyped): who has still to be told of a sign-out (Telling), how   *)
(* many secrets are journalled ahead of being stored (Counting), and how   *)
(* old the columns are that each editor has written so far (Editors).      *)
(***************************************************************************)
EXTENDS RelyingParties, FiniteSetTheorems, TLAPS

-----------------------------------------------------------------------------
(* Types, and where each handler can be.                                   *)

\* The steps of each kind of handler, and what it works on.
Order(v) ==
  /\ v.kind = None => v.pc = "idle"
  /\ v.kind = "logout" => v.pc \in {"list", "user", "each", "wipe", "last"}
  /\ v.kind = "reset" => v.pc \in {"first", "password", "list", "user", "each", "wipe"}
  /\ v.kind = "delete" => v.pc \in {"first", "list", "user", "each", "wipe", "erase"}
  /\ v.kind = "new" => v.pc \in {"portal", "device", "visibility", "audit", "undo"}
  /\ v.kind = "edit" => v.pc \in {"update", "portal", "device", "visibility", "audit"}
  /\ v.kind = "rotate" => v.pc \in {"first", "store"}
  /\ v.kind = "drop" => v.pc \in {"first", "drop"}
  /\ v.kind \in SignOuts => v.user \in Users
  /\ v.kind \in {"new", "edit", "rotate", "drop"} => v.client \in Clients
  /\ v.kind \in {"new", "edit"} => v.form \in Forms
  /\ v.pc \notin {"user", "each"} => v.todo = {}

\* Handlers that have not begun are idle.
JobsTyped ==
  /\ job \in [Jobs -> Job]
  /\ \A j \in Jobs : Order(job[j])
  /\ \A j \in Jobs : j > starts => job[j] = NoJob

PartiesTyped == PartiesTypeOK /\ JobsTyped

-----------------------------------------------------------------------------
(* Who has still to be told.                                               *)

\* Somebody is about to tell the client of to, has journalled that this failed,
\* or never will.
Told(to) ==
  to \in missed \cup unanswered \cup revoked \cup reported \/ \E p \in push : p.to = to /\ p.pc # "ok"

\* A sign-out that has listed the clients, and has not deleted the sessions for
\* good, has every client of the user on its list, among the later logins, or told.
Telling(v) ==
  v.pc \in {"user", "each", "wipe", "erase"} =>
    \A c \in Clients : <<v.user, c>> \in rp =>
      c \in v.todo \/ c \in v.fresh \/ Told(<<v.user, c>>)

\* Sessions belong to accounts that exist.
Survivors ==
  /\ \A s \in sess : s[1] \in users
  /\ \A to \in rp : to \in sess \/ Told(to)
  /\ \A j \in Jobs : Telling(job[j])

-----------------------------------------------------------------------------
(* Secrets.                                                                *)

\* Rotations of c that are journalled and not stored yet.
Rotating(c) == {j \in Jobs : job[j].pc = "store" /\ job[j].client = c}
Creates(v, c) == v.kind = "new" /\ v.client = c
Creating(c) == \E j \in Jobs : Creates(job[j], c) /\ ~job[j].form.public

\* The journal is ahead of the table by the rotations under way, and behind by the
\* first secret of a client whose creation is not journalled yet.
Counted(c) ==
  client[c].secrets + Cardinality(Rotating(c)) <= recorded[c] + (IF Creating(c) THEN 1 ELSE 0)

Counting ==
  /\ \A c \in Clients \ orphans : Counted(c)
  /\ \A c \in Clients : client[c].st = "free" => \A j \in Jobs : job[j].client # c
  /\ \A c \in Clients, i, j \in Jobs : Creates(job[i], c) /\ Creates(job[j], c) => i = j
  /\ \A j \in Jobs : job[j].pc = "undo" => job[j].client \in orphans

-----------------------------------------------------------------------------
(* Settings.                                                               *)

\* The groups of columns an editor has written when it is at v.
Written(v) ==
  CASE v.pc = "portal" -> {"core"}
    [] v.pc = "device" -> IF v.kind = "new" THEN {"core", "portal", "visibility"}
                          ELSE {"core", "portal"}
    [] v.pc = "visibility" -> IF v.kind = "new" THEN {"core", "portal"}
                              ELSE {"core", "portal", "device"}
    [] v.pc = "audit" -> Parts
    [] OTHER -> {}

Edits(v, c) == v.pc # "idle" /\ v.kind \in {"new", "edit"} /\ v.client = c

\* What m wrote may stand where n wrote: m is as new, or has run beside it.
Newer(m, n) == m >= n \/ (n \in Jobs /\ m \in beside[n])

Holds(c, p, n) ==
  LET m == client[c].from[p] IN Newer(m, n) \/ (m = 0 /\ <<c, p>> \in unset)

\* An editor that is still at work ran beside whatever is newer than it.
Overlap(c) ==
  \A j \in Jobs : Edits(job[j], c) =>
    /\ \A n \in accounted[c] : Newer(j, n)
    /\ \A i \in Jobs : Edits(job[i], c) =>
         Newer(j, i) /\ (job[i].kind = "new" => i <= j)

\* The groups a journalled edit set, and those an editor has written so far, hold;
\* what a creation has not written yet is empty, or the work of a later editor.
Set(c) ==
  /\ \A n \in accounted[c], p \in Parts : Holds(c, p, n)
  /\ \A i \in Jobs : Edits(job[i], c) =>
       /\ \A p \in Written(job[i]) : Holds(c, p, i)
       /\ job[i].kind = "new" =>
            \A p \in Parts : client[c].from[p] = 0 \/ client[c].from[p] >= i

Settled(c) == Overlap(c) /\ (client[c].st = "live" => Set(c))

Editors ==
  /\ \A c \in Clients :
       /\ Settled(c)
       /\ \A n \in accounted[c] : n <= starts
       /\ client[c].st = "free" => accounted[c] = {}
  /\ \A j \in Jobs : j > starts => beside[j] = {}

PartiesInv == PartiesTyped /\ Survivors /\ Counting /\ Editors

-----------------------------------------------------------------------------
(* One handler moves.                                                      *)

\* A handler that has not begun is in order.
LEMMA IdleJob == NoJob \in Job /\ Order(NoJob)
  BY PartiesAssumption DEF NoJob, Job, Order, SignOuts

\* What the kinds of handlers are, and what each step says about its kind.
LEMMA Steps ==
  ASSUME NEW v \in Job, Order(v)
  PROVE  /\ v.pc \in {"password", "list", "user", "each", "wipe", "last", "erase"} =>
              v.kind \in SignOuts /\ v.user \in Users
         /\ v.pc = "password" => v.kind = "reset"
         /\ v.pc = "last" => v.kind = "logout"
         /\ v.pc = "erase" => v.kind = "delete"
         /\ v.pc = "first" => v.kind \in {"reset", "delete", "rotate", "drop"}
         /\ v.pc \in {"portal", "device", "visibility", "audit"} =>
              v.kind \in {"new", "edit"} /\ v.client \in Clients /\ v.form \in Forms
         /\ v.pc = "update" => v.kind = "edit" /\ v.client \in Clients /\ v.form \in Forms
         /\ v.pc = "undo" => v.kind = "new" /\ v.client \in Clients /\ v.form \in Forms
         /\ v.pc = "store" => v.kind = "rotate" /\ v.client \in Clients
         /\ v.pc = "drop" => v.kind = "drop" /\ v.client \in Clients
         /\ v.pc # "idle" => v.kind # None
  BY DEF Job, Order, SignOuts

\* The handlers stay typed when one of them moves to w.
LEMMA JobMoves ==
  ASSUME JobsTyped, NEW j \in Jobs, NEW w \in Job, Order(w),
         job' = [job EXCEPT ![j] = w],
         starts \in Nat, starts' \in Nat, starts <= starts', j <= starts' \/ w = NoJob
  PROVE  JobsTyped'
<1>1. job' \in [Jobs -> Job] /\ \A q \in Jobs : job'[q] = IF q = j THEN w ELSE job[q]
  BY DEF JobsTyped
<1>2. ASSUME NEW q \in Jobs PROVE Order(job[q])'
  <2>1. Order(job'[q])
    BY <1>1 DEF JobsTyped
  <2> QED BY <2>1 DEF Order
<1>3. ASSUME NEW q \in Jobs, q > starts' PROVE job'[q] = NoJob
  BY <1>1, <1>3 DEF JobsTyped, Jobs
<1> QED BY <1>1, <1>2, <1>3 DEF JobsTyped

\* A handler under way has begun.
LEMMA Begun ==
  ASSUME PartiesTyped, NEW j \in Jobs, job[j].pc # "idle"
  PROVE  j <= starts /\ starts \in Nat
  BY PartiesAssumption DEF PartiesTyped, PartiesTypeOK, JobsTyped, NoJob, Jobs

\* The counters of a step that begins nothing.
LEMMA Counters ==
  ASSUME PartiesTypeOK, Sound \/ Fault
  PROVE  starts' = starts /\ {starts', logins', faults'} \subseteq Nat
  BY DEF Sound, Fault, PartiesTypeOK

\* A handler goes on to its next step, or ends.
LEMMA StepTyped ==
  ASSUME PartiesTyped, NEW j \in Jobs, NEW w \in Job, Order(w), job' = [job EXCEPT ![j] = w],
         Sound \/ Fault, job[j].pc # "idle"
  PROVE  JobsTyped'
<1>1. j <= starts' /\ starts \in Nat /\ starts' \in Nat /\ starts <= starts'
  BY Begun, Counters DEF PartiesTyped
<1>2. JobsTyped
  BY DEF PartiesTyped
<1> QED BY <1>1, <1>2, JobMoves

LEMMA GoTyped ==
  ASSUME PartiesTyped, NEW j \in Jobs, NEW pc, Go(j, pc), Sound \/ Fault, job[j].pc # "idle",
         [job[j] EXCEPT !.pc = pc] \in Job, Order([job[j] EXCEPT !.pc = pc])
  PROVE  JobsTyped'
<1>1. PICK w : w = [job[j] EXCEPT !.pc = pc]
  OBVIOUS
<1>2. job' = [job EXCEPT ![j] = w]
  BY <1>1 DEF Go
<1>3. w \in Job /\ Order(w)
  BY <1>1
<1> QED BY <1>2, <1>3, StepTyped

LEMMA EndTyped ==
  ASSUME PartiesTyped, NEW j \in Jobs, End(j), Sound \/ Fault
  PROVE  JobsTyped'
<1>1. job' = [job EXCEPT ![j] = NoJob]
  BY DEF End
<1>2. starts \in Nat /\ starts' \in Nat /\ starts <= starts'
  BY Counters DEF PartiesTyped, PartiesTypeOK
<1>3. JobsTyped
  BY DEF PartiesTyped
<1> QED BY <1>1, <1>2, <1>3, IdleJob, JobMoves

\* A handler begins: nobody was there before.
LEMMA StartTyped ==
  ASSUME PartiesTyped, NEW j \in Jobs, NEW w \in Job, Order(w), Start(j, w)
  PROVE  JobsTyped' /\ {starts', logins', faults'} \subseteq Nat /\ job[j] = NoJob
<1>1. {starts, logins, faults} \subseteq Nat
  BY DEF PartiesTyped, PartiesTypeOK
<1>2. starts' = j /\ j = starts + 1 /\ UNCHANGED <<logins, faults>>
  BY DEF Start
<1>3. job' = [job EXCEPT ![j] = w]
  BY DEF Start
<1>4. JobsTyped'
  <2>1. starts \in Nat /\ starts' \in Nat /\ starts <= starts' /\ j <= starts'
    BY <1>1, <1>2
  <2>2. JobsTyped
    BY DEF PartiesTyped
  <2> QED BY <1>3, <2>1, <2>2, JobMoves
<1>5. job[j] = NoJob
  BY <1>1, <1>2 DEF PartiesTyped, JobsTyped
<1> QED BY <1>1, <1>2, <1>4, <1>5

-----------------------------------------------------------------------------
(* Every step keeps the types and the order.                               *)

TablesTyped ==
  /\ client \in [Clients -> Client] /\ users \subseteq Users
  /\ sess \subseteq Users \X (Clients \cup {Portal}) /\ rp \subseteq Pairs
  /\ \A p \in push : p \in Push
  /\ {reported, missed, unanswered, revoked} \subseteq SUBSET Pairs
  /\ recorded \in [Clients -> Nat] /\ accounted \in [Clients -> SUBSET Nat]
  /\ beside \in [Jobs -> SUBSET Jobs]
  /\ unset \subseteq Clients \X Parts /\ orphans \subseteq Clients

LEMMA TypedParts ==
  PartiesTyped <=> TablesTyped /\ JobsTyped /\ {starts, logins, faults} \subseteq Nat
  BY DEF PartiesTyped, PartiesTypeOK, JobsTyped, TablesTyped

LEMMA TypedNext ==
  ASSUME TablesTyped', JobsTyped', {starts', logins', faults'} \subseteq Nat
  PROVE  PartiesTyped'
  BY DEF PartiesTyped, PartiesTypeOK, JobsTyped, TablesTyped

LEMMA TypedAt ==
  ASSUME PartiesTyped, NEW j \in Jobs
  PROVE  job[j] \in Job /\ Order(job[j]) /\ TablesTyped
  BY TypedParts DEF JobsTyped

\* A step that leaves the tables alone.
LEMMA TypedFrame ==
  ASSUME PartiesTyped, JobsTyped', Sound \/ Fault,
         UNCHANGED <<client, users, sess, rp, push, reported, missed, recorded, accounted,
                     unanswered, revoked, beside, unset, orphans>>
  PROVE  PartiesTyped'
<1>1. {starts', logins', faults'} \subseteq Nat
  BY Counters DEF PartiesTyped
<1>2. TablesTyped'
  BY TypedParts DEF TablesTyped
<1> QED BY <1>1, <1>2, TypedNext

LEMMA TypedTables ==
  ASSUME PartiesTyped, JobsTyped', Sound \/ Fault, TablesTyped'
  PROVE  PartiesTyped'
  BY Counters, TypedNext DEF PartiesTyped

\* Beginnings.
LEMMA SignOutBeginTyped ==
  ASSUME PartiesTyped, NEW j \in Jobs, NEW u \in Users, NEW k \in SignOuts, SignOutBegin(j, u, k)
  PROVE  PartiesTyped'
<1>1. PICK w : w = [NoJob EXCEPT !.kind = k, !.user = u,
                                 !.pc = IF k = "logout" THEN "list" ELSE "first"]
  OBVIOUS
<1>2. w \in Job /\ Order(w)
  BY <1>1, IdleJob, PartiesAssumption DEF SignOuts, Job, Order, NoJob
<1>3. Start(j, w)
  BY <1>1 DEF SignOutBegin
<1>4. TablesTyped'
  BY TypedParts DEF TablesTyped, SignOutBegin, table, logout, journal, excused, edits
<1> QED BY <1>2, <1>3, <1>4, StartTyped, TypedNext

\* A row of the clients table with a new value in some columns.
LEMMA FromTyped ==
  ASSUME TablesTyped, NEW c \in Clients, NEW p \in Parts, NEW j \in Nat
  PROVE  [client EXCEPT ![c].from[p] = j] \in [Clients -> Client]
<1>1. PICK f : f = [client[c].from EXCEPT ![p] = j]
  OBVIOUS
<1>2. f \in [Parts -> Nat]
  BY <1>1 DEF TablesTyped, Client
<1>3. [client EXCEPT ![c].from = f] \in [Clients -> Client]
  BY <1>2 DEF TablesTyped, Client
<1>4. [client EXCEPT ![c].from[p] = j] = [client EXCEPT ![c].from = f]
  BY <1>1
<1> QED BY <1>3, <1>4

LEMMA CreateClientTyped ==
  ASSUME PartiesTyped, NEW j \in Jobs, NEW c \in Clients, NEW f \in Forms,
         NEW written, NEW pc \in {"portal", "audit"}, CreateClient(j, c, f, written, pc)
  PROVE  PartiesTyped'
<1>1. PICK w : w = [NoJob EXCEPT !.kind = "new", !.client = c, !.form = f, !.pc = pc]
  OBVIOUS
<1>2. w \in Job /\ Order(w)
  BY <1>1, IdleJob, PartiesAssumption DEF SignOuts, Job, Order, NoJob
<1>3. Start(j, w)
  BY <1>1 DEF CreateClient
<1>4. [st |-> "live", public |-> f.public, uri |-> f.uri, secrets |-> IF f.public THEN 0 ELSE 1,
        from |-> [p \in Parts |-> IF p \in written THEN j ELSE 0]] \in Client
  BY PartiesAssumption DEF Client, Form, Jobs
<1>5. TablesTyped'
  BY <1>4, TypedParts DEF TablesTyped, CreateClient, logout, journal, excused, edits
<1> QED BY <1>2, <1>3, <1>5, StartTyped, TypedNext

LEMMA EditBeginTyped ==
  ASSUME PartiesTyped, NEW j \in Jobs, NEW c \in Clients, NEW f \in Forms, EditBegin(j, c, f)
  PROVE  PartiesTyped'
<1>1. PICK w : w = [NoJob EXCEPT !.kind = "edit", !.client = c, !.form = f, !.pc = "update"]
  OBVIOUS
<1>2. w \in Job /\ Order(w)
  BY <1>1, IdleJob, PartiesAssumption DEF SignOuts, Job, Order, NoJob
<1>3. Start(j, w)
  BY <1>1 DEF EditBegin
<1>4. TablesTyped'
  <2>1. beside' \in [Jobs -> SUBSET Jobs]
    <3>1. Editing(c) \subseteq Jobs
      BY DEF Editing, Busy
    <3> QED BY <3>1, TypedParts DEF TablesTyped, EditBegin
  <2> QED BY <2>1, TypedParts DEF TablesTyped, EditBegin, table, logout, journal, excused
<1> QED BY <1>2, <1>3, <1>4, StartTyped, TypedNext

LEMMA RotateBeginTyped ==
  ASSUME PartiesTyped, NEW j \in Jobs, NEW c \in Clients, RotateBegin(j, c) \/ DropBegin(j, c)
  PROVE  PartiesTyped'
<1>1. PICK k \in {"rotate", "drop"} : Start(j, [NoJob EXCEPT !.kind = k, !.client = c, !.pc = "first"])
  BY DEF RotateBegin, DropBegin
<1>2. PICK w : w = [NoJob EXCEPT !.kind = k, !.client = c, !.pc = "first"]
  OBVIOUS
<1>3. w \in Job /\ Order(w) /\ Start(j, w)
  BY <1>1, <1>2, IdleJob, PartiesAssumption DEF SignOuts, Job, Order, NoJob
<1>4. TablesTyped'
  BY TypedParts DEF TablesTyped, RotateBegin, DropBegin, table, logout, journal, excused, edits
<1> QED BY <1>3, <1>4, StartTyped, TypedNext

\* The sign-outs.
LEMMA AuditFirstTyped ==
  ASSUME PartiesTyped, NEW j \in Jobs, AuditFirst(j)
  PROVE  PartiesTyped'
<1>1. job[j] \in Job /\ Order(job[j]) /\ TablesTyped /\ job[j].pc = "first"
  BY TypedAt DEF AuditFirst
<1>2. job[j].kind \in {"reset", "delete", "rotate", "drop"}
  BY <1>1, Steps
<1>3. CASE /\ Sound /\ Go(j, AfterFirst(job[j].kind))
           /\ recorded' = IF job[j].kind = "rotate"
                          THEN [recorded EXCEPT ![job[j].client] = @ + 1] ELSE recorded
  <2>1. [job[j] EXCEPT !.pc = AfterFirst(job[j].kind)] \in Job
    BY <1>1, <1>2 DEF AfterFirst, Job
  <2>2. Order([job[j] EXCEPT !.pc = AfterFirst(job[j].kind)])
    BY <1>1, <1>2, PartiesAssumption DEF AfterFirst, Order, SignOuts, Job
  <2>3. JobsTyped'
    BY <1>1, <1>3, <2>1, <2>2, GoTyped
  <2>4. recorded' \in [Clients -> Nat]
    <3>1. job[j].kind = "rotate" => job[j].client \in Clients
      BY <1>1 DEF Order
    <3> QED BY <1>1, <1>3, <3>1 DEF TablesTyped
  <2>5. TablesTyped'
    BY <1>1, <2>4 DEF TablesTyped, AuditFirst, table, logout, excused, edits
  <2> QED BY <1>3, <2>3, <2>5, TypedTables
<1>4. CASE Fault /\ End(j) /\ UNCHANGED recorded
  <2>1. JobsTyped'
    BY <1>4, EndTyped
  <2>2. TablesTyped'
    BY <1>1, <1>4 DEF TablesTyped, AuditFirst, table, logout, excused, edits
  <2> QED BY <1>4, <2>1, <2>2, TypedTables
<1> QED BY <1>3, <1>4 DEF AuditFirst

LEMMA ResetPasswordTyped ==
  ASSUME PartiesTyped, NEW j \in Jobs, ResetPassword(j)
  PROVE  PartiesTyped'
<1>1. job[j] \in Job /\ Order(job[j]) /\ job[j].pc = "password" /\ job[j].kind = "reset"
  BY TypedAt, Steps DEF ResetPassword
<1>2. [job[j] EXCEPT !.pc = "list"] \in Job /\ Order([job[j] EXCEPT !.pc = "list"])
  BY <1>1, PartiesAssumption DEF Order, SignOuts, Job
<1>3. JobsTyped' /\ (Sound \/ Fault)
  BY <1>1, <1>2, GoTyped, EndTyped DEF ResetPassword
<1> QED BY <1>3, TypedFrame DEF ResetPassword, table, logout, journal, excused, edits

LEMMA ListTyped ==
  ASSUME PartiesTyped, NEW j \in Jobs, List(j)
  PROVE  PartiesTyped'
<1> DEFINE u == job[j].user
           cs == ListSessionClientIDsByUser(u)
<1>1. job[j] \in Job /\ Order(job[j]) /\ TablesTyped /\ job[j].pc = "list"
  BY TypedAt DEF List
<1>2. job[j].kind \in SignOuts /\ u \in Users /\ job[j].todo = {}
  BY <1>1, Steps DEF Order
<1>3. CASE /\ Sound /\ UNCHANGED missed
           /\ job' = [job EXCEPT ![j].todo = cs, ![j].fresh = {},
                                 ![j].pc = IF cs = {} THEN "wipe" ELSE "user"]
  <2>1. PICK w : w = [job[j] EXCEPT !.todo = cs, !.fresh = {},
                                    !.pc = IF cs = {} THEN "wipe" ELSE "user"]
    OBVIOUS
  <2>2. w \in Job
    BY <1>1, <2>1 DEF Job, ListSessionClientIDsByUser
  <2>3. Order(w)
    BY <1>1, <1>2, <2>1, PartiesAssumption DEF Job, Order, SignOuts
  <2>4. job' = [job EXCEPT ![j] = w]
    BY <1>3, <2>1
  <2>5. JobsTyped'
    BY <1>1, <1>3, <2>2, <2>3, <2>4, StepTyped
  <2> QED BY <1>3, <2>5, TypedFrame DEF List, table, journal, excused, edits
<1>4. CASE /\ Fault /\ Go(j, "wipe")
           /\ missed' = missed \cup {<<u, c>> : c \in cs \ {Portal}}
  <2>1. [job[j] EXCEPT !.pc = "wipe"] \in Job /\ Order([job[j] EXCEPT !.pc = "wipe"])
    BY <1>1, <1>2, PartiesAssumption DEF Order, SignOuts, Job
  <2>2. JobsTyped'
    BY <1>1, <1>4, <2>1, GoTyped
  <2>3. missed' \subseteq Pairs
    <3>1. cs \ {Portal} \subseteq Clients
      BY DEF ListSessionClientIDsByUser
    <3>2. \A c \in cs \ {Portal} : <<u, c>> \in Pairs
      BY <1>2, <3>1 DEF Pairs
    <3>3. missed \subseteq Pairs
      BY <1>1 DEF TablesTyped
    <3> HIDE DEF u, cs
    <3> QED BY <1>4, <3>2, <3>3
  <2>4. TablesTyped'
    BY <1>1, <2>3 DEF List, table, journal, TablesTyped, excused, edits
  <2> QED BY <1>4, <2>2, <2>4, TypedTables
<1> QED BY <1>3, <1>4 DEF List

\* What a handler has left to tell, and what came later, is about its user.
LEMMA LeftTyped ==
  ASSUME PartiesTyped, NEW j \in Jobs
  PROVE  Left(j) \subseteq Pairs /\ (job[j].pc \in {"wipe", "erase"} => Fresh(j) \subseteq Pairs)
<1>1. job[j] \in Job /\ Order(job[j])
  BY TypedAt
<1>2. job[j].todo # {} => job[j].user \in Users
  BY <1>1, Steps DEF Order
<1>3. job[j].pc \in {"wipe", "erase"} => job[j].user \in Users
  BY <1>1, Steps
<1> QED BY <1>1, <1>2, <1>3 DEF Left, Fresh, Pairs, Job

LEMMA GetUserTyped ==
  ASSUME PartiesTyped, NEW j \in Jobs, GetUser(j)
  PROVE  PartiesTyped'
<1>1. job[j] \in Job /\ Order(job[j]) /\ TablesTyped /\ job[j].pc = "user"
  BY TypedAt DEF GetUser
<1>2. job[j].kind \in SignOuts
  BY <1>1, Steps
<1>3. CASE Sound /\ Go(j, "each") /\ UNCHANGED missed
  <2>1. [job[j] EXCEPT !.pc = "each"] \in Job /\ Order([job[j] EXCEPT !.pc = "each"])
    BY <1>1, <1>2, PartiesAssumption DEF Order, SignOuts, Job
  <2>2. JobsTyped'
    BY <1>1, <1>3, <2>1, GoTyped
  <2> QED BY <1>3, <2>2, TypedFrame DEF GetUser, table, journal, excused, edits
<1>4. CASE /\ (Fault /\ missed' = missed \cup Left(j)) \/ (Sound /\ UNCHANGED missed)
           /\ job' = [job EXCEPT ![j].pc = "wipe", ![j].todo = {}]
  <2>1. PICK w : w = [job[j] EXCEPT !.pc = "wipe", !.todo = {}]
    OBVIOUS
  <2>2. w \in Job /\ Order(w)
    BY <1>1, <1>2, <2>1, PartiesAssumption DEF Job, Order, SignOuts
  <2>3. job' = [job EXCEPT ![j] = w]
    BY <1>4, <2>1
  <2>4. JobsTyped'
    BY <1>1, <1>4, <2>2, <2>3, StepTyped
  <2>5. missed' \subseteq Pairs
    BY <1>1, <1>4, LeftTyped DEF TablesTyped
  <2>6. TablesTyped'
    BY <1>1, <2>5 DEF GetUser, table, journal, TablesTyped, excused, edits
  <2> QED BY <1>4, <2>4, <2>6, TypedTables
<1> QED BY <1>3, <1>4 DEF GetUser

LEMMA BroadcastTyped ==
  ASSUME PartiesTyped, NEW j \in Jobs, NEW c \in Clients \cup {Portal}, Broadcast(j, c)
  PROVE  PartiesTyped'
<1> DEFINE to == <<job[j].user, c>>
<1>1. job[j] \in Job /\ Order(job[j]) /\ TablesTyped /\ job[j].pc = "each"
  BY TypedAt DEF Broadcast
<1>2. job[j].kind \in SignOuts /\ job[j].user \in Users
  BY <1>1, Steps
<1>3. PICK w : w = [job[j] EXCEPT !.todo = @ \ {c}]
  OBVIOUS
<1>4. w \in Job /\ Order(w)
  BY <1>1, <1>2, <1>3, PartiesAssumption DEF Job, Order, SignOuts
<1>5. job' = [job EXCEPT ![j] = w] /\ (Sound \/ Fault)
  BY <1>3 DEF Broadcast
<1>6. JobsTyped'
  BY <1>1, <1>4, <1>5, StepTyped
<1>7. c # Portal => to \in Pairs
  BY <1>2 DEF Pairs
<1>8. missed' \subseteq Pairs
  BY <1>1, <1>7 DEF Broadcast, TablesTyped
<1>9. \A p \in push' : p \in Push
  <2>1. c # Portal => [to |-> to, by |-> j, pc |-> "post"] \in Push
    BY <1>7 DEF Push
  <2> QED BY <1>1, <2>1 DEF Broadcast, TablesTyped
<1>10. TablesTyped'
  BY <1>1, <1>8, <1>9 DEF Broadcast, table, journal, TablesTyped, excused, edits
<1> QED BY <1>5, <1>6, <1>10, TypedTables

LEMMA BroadcastDoneTyped ==
  ASSUME PartiesTyped, NEW j \in Jobs, BroadcastDone(j)
  PROVE  PartiesTyped'
<1>1. job[j] \in Job /\ Order(job[j]) /\ job[j].pc = "each" /\ job[j].kind \in SignOuts
  BY TypedAt, Steps DEF BroadcastDone
<1>2. [job[j] EXCEPT !.pc = "wipe"] \in Job /\ Order([job[j] EXCEPT !.pc = "wipe"])
  BY <1>1, PartiesAssumption DEF Order, SignOuts, Job, BroadcastDone
<1>3. JobsTyped' /\ Sound
  BY <1>1, <1>2, GoTyped DEF BroadcastDone
<1> QED BY <1>3, TypedFrame DEF BroadcastDone, table, logout, journal, excused, edits

LEMMA WipeTyped ==
  ASSUME PartiesTyped, NEW j \in Jobs, Wipe(j)
  PROVE  PartiesTyped'
<1>1. job[j] \in Job /\ Order(job[j]) /\ TablesTyped /\ job[j].pc = "wipe"
  BY TypedAt DEF Wipe
<1>2. Sound \/ Fault
  BY DEF Wipe
<1>3. ASSUME job[j].kind = "logout" PROVE JobsTyped'
  <2>1. [job[j] EXCEPT !.pc = "last"] \in Job /\ Order([job[j] EXCEPT !.pc = "last"])
    BY <1>1, <1>3, PartiesAssumption DEF Order, SignOuts, Job
  <2> QED BY <1>1, <1>2, <1>3, <2>1, GoTyped DEF Wipe
<1>4. ASSUME job[j].kind = "delete" PROVE JobsTyped'
  <2>1. [job[j] EXCEPT !.pc = "erase"] \in Job /\ Order([job[j] EXCEPT !.pc = "erase"])
    BY <1>1, <1>4, PartiesAssumption DEF Order, SignOuts, Job
  <2> QED BY <1>1, <1>2, <1>4, <2>1, GoTyped DEF Wipe
<1>5. ASSUME job[j].kind = "reset" PROVE JobsTyped'
  BY <1>2, <1>5, EndTyped DEF Wipe
<1>6. JobsTyped'
  BY <1>1, <1>3, <1>4, <1>5, Steps DEF SignOuts
<1>7. missed' \subseteq Pairs /\ sess' \subseteq sess
  BY <1>1, LeftTyped DEF Wipe, TablesTyped
<1>8. TablesTyped'
  BY <1>1, <1>7 DEF Wipe, TablesTyped, table, journal, excused, edits
<1> QED BY <1>2, <1>6, <1>8, TypedTables

LEMMA LogLogoutTyped ==
  ASSUME PartiesTyped, NEW j \in Jobs, LogLogout(j)
  PROVE  PartiesTyped'
<1>1. JobsTyped' /\ (Sound \/ Fault)
  BY EndTyped DEF LogLogout
<1> QED BY <1>1, TypedFrame DEF LogLogout, table, logout, journal, excused, edits

LEMMA EraseUserTyped ==
  ASSUME PartiesTyped, NEW j \in Jobs, EraseUser(j)
  PROVE  PartiesTyped'
<1>1. TablesTyped /\ job[j].pc = "erase"
  BY TypedAt DEF EraseUser
<1>2. JobsTyped' /\ (Sound \/ Fault)
  BY EndTyped DEF EraseUser
<1>3. missed' \subseteq Pairs /\ sess' \subseteq sess /\ users' \subseteq users
  BY <1>1, LeftTyped DEF EraseUser, TablesTyped
<1>4. TablesTyped'
  BY <1>1, <1>3 DEF EraseUser, TablesTyped, journal, excused, edits
<1> QED BY <1>2, <1>4, TypedTables

\* The goroutines.
LEMMA PushingTyped ==
  ASSUME PartiesTyped, NEW p \in push, Accepts(p) \/ Fails(p) \/ TimesOut(p) \/ Outcome(p)
  PROVE  PartiesTyped'
<1>1. TablesTyped /\ JobsTyped /\ p \in Push /\ p.to \in Pairs
  BY TypedParts DEF TablesTyped, Push
<1>2. [p EXCEPT !.pc = "ok"] \in Push /\ [p EXCEPT !.pc = "failed"] \in Push
  BY <1>1 DEF Push
<1>3. \A q \in push' : q \in Push
  BY <1>1, <1>2 DEF Accepts, Fails, TimesOut, Outcome, Becomes, TablesTyped
<1>4. rp' \subseteq rp /\ {reported, missed, unanswered, revoked}' \subseteq SUBSET Pairs
  BY <1>1 DEF Accepts, Fails, TimesOut, Outcome, TablesTyped, excused
<1>5. /\ UNCHANGED <<client, users, sess, job, recorded, accounted, beside, unset, orphans>>
      /\ Sound \/ Fault
  BY DEF Accepts, Fails, TimesOut, Outcome, table, journal, excused, edits
<1>6. TablesTyped'
  BY <1>1, <1>3, <1>4, <1>5 DEF TablesTyped
<1>7. starts' = starts
  BY <1>5 DEF Sound, Fault
<1>8. JobsTyped'
  BY <1>1, <1>5, <1>7 DEF JobsTyped, Order
<1> QED BY <1>5, <1>6, <1>8, TypedTables

\* The administration.
LEMMA UpdateClientTyped ==
  ASSUME PartiesTyped, NEW j \in Jobs, UpdateClient(j)
  PROVE  PartiesTyped'
<1> DEFINE c == job[j].client
           f == job[j].form
<1>1. job[j] \in Job /\ Order(job[j]) /\ TablesTyped /\ job[j].pc = "update"
  BY TypedAt DEF UpdateClient
<1>2. job[j].kind = "edit" /\ c \in Clients /\ f \in Form
  BY <1>1, Steps, PartiesAssumption
<1>3. CASE /\ Sound /\ Go(j, "portal")
           /\ client' = IF client[c].st # "live" THEN client
                        ELSE [client EXCEPT ![c].public = f.public, ![c].uri = f.uri,
                                            ![c].from["core"] = j]
  <2>1. [job[j] EXCEPT !.pc = "portal"] \in Job /\ Order([job[j] EXCEPT !.pc = "portal"])
    BY <1>1, <1>2, PartiesAssumption DEF Order, SignOuts, Job
  <2>2. JobsTyped'
    BY <1>1, <1>3, <2>1, GoTyped
  <2>3. client' \in [Clients -> Client]
    <3>1. PICK g : g = [client[c].from EXCEPT !["core"] = j]
      OBVIOUS
    <3>2. g \in [Parts -> Nat]
      <4>1. client[c].from \in [Parts -> Nat]
        BY <1>1, <1>2 DEF TablesTyped, Client
      <4>2. j \in Nat
        BY PartiesAssumption DEF Jobs
      <4> HIDE DEF c
      <4> QED BY <3>1, <4>1, <4>2
    <3>3. [client[c] EXCEPT !.public = f.public, !.uri = f.uri, !.from = g] \in Client
      <4>1. client[c] \in Client /\ f.public \in BOOLEAN /\ f.uri \in BOOLEAN
        BY <1>1, <1>2 DEF TablesTyped, Form
      <4> HIDE DEF c, f
      <4> QED BY <3>2, <4>1 DEF Client
    <3>4. client[c].st = "live" =>
            client' = [client EXCEPT ![c] = [client[c] EXCEPT !.public = f.public, !.uri = f.uri,
                                                              !.from = g]]
      BY <1>3, <3>1
    <3>5. client[c].st # "live" => client' = client
      BY <1>3
    <3> QED BY <1>1, <3>3, <3>4, <3>5 DEF TablesTyped
  <2>4. TablesTyped'
    BY <1>1, <1>3, <2>3 DEF UpdateClient, TablesTyped, logout, journal, excused, edits
  <2> QED BY <1>3, <2>2, <2>4, TypedTables
<1>4. CASE Fault /\ End(j) /\ UNCHANGED client
  <2>1. JobsTyped'
    BY <1>4, EndTyped
  <2>2. TablesTyped'
    BY <1>1, <1>2, <1>4 DEF UpdateClient, TablesTyped, logout, journal, excused, edits
  <2> QED BY <1>4, <2>1, <2>2, TypedTables
<1> QED BY <1>3, <1>4 DEF UpdateClient

\* The statement that follows is one of the handler's.
LEMMA NextPartOrder ==
  ASSUME NEW j \in Jobs, job[j] \in Job, Order(job[j]),
         job[j].pc \in {"portal", "device", "visibility"}
  PROVE  /\ [job[j] EXCEPT !.pc = NextPart(j, job[j].pc)] \in Job
         /\ Order([job[j] EXCEPT !.pc = NextPart(j, job[j].pc)])
         /\ NextPart(j, job[j].pc) \in {"device", "visibility", "audit"}
<1>1. job[j].kind \in {"new", "edit"}
  BY Steps
<1>2. PICK n : n = NextPart(j, job[j].pc)
  OBVIOUS
<1>3. n \in {"device", "visibility", "audit"}
  BY <1>1, <1>2 DEF NextPart
<1>4. [job[j] EXCEPT !.pc = n] \in Job
  BY <1>3 DEF Job
<1>5. Order([job[j] EXCEPT !.pc = n])
  BY <1>1, <1>3, PartiesAssumption DEF Order, Job, SignOuts
<1> QED BY <1>2, <1>3, <1>4, <1>5

LEMMA UpdatePartTyped ==
  ASSUME PartiesTyped, NEW j \in Jobs, UpdatePart(j)
  PROVE  PartiesTyped'
<1>1. job[j] \in Job /\ Order(job[j]) /\ TablesTyped /\ job[j].pc \in {"portal", "device", "visibility"}
  BY TypedAt DEF UpdatePart
<1>2. job[j].client \in Clients
  BY <1>1, Steps
<1>3. Sound \/ Fault
  BY DEF UpdatePart
<1>4. Go(j, NextPart(j, job[j].pc)) \/ End(j)
  BY DEF UpdatePart
<1>5. JobsTyped'
  BY <1>1, <1>3, <1>4, NextPartOrder, GoTyped, EndTyped
<1>6. client' \in [Clients -> Client] /\ unset' \subseteq Clients \X Parts
  <2>1. j \in Nat /\ job[j].pc \in Parts
    BY <1>1, PartiesAssumption DEF Jobs, Parts
  <2>2. PICK p \in Parts : p = job[j].pc
    BY <2>1
  <2>3. PICK c \in Clients : c = job[j].client
    BY <1>2
  <2>4. client' = client \/ client' = [client EXCEPT ![c].from[p] = j]
    BY <2>2, <2>3 DEF UpdatePart
  <2>5. [client EXCEPT ![c].from[p] = j] \in [Clients -> Client]
    BY <1>1, <2>1, FromTyped
  <2> QED BY <1>1, <1>2, <2>1, <2>4, <2>5 DEF UpdatePart, TablesTyped
<1>7. TablesTyped'
  BY <1>1, <1>6 DEF UpdatePart, TablesTyped, logout, journal, excused, edits
<1> QED BY <1>3, <1>5, <1>7, TypedTables

LEMMA AuditLastTyped ==
  ASSUME PartiesTyped, NEW j \in Jobs, AuditLast(j)
  PROVE  PartiesTyped'
<1>1. job[j] \in Job /\ Order(job[j]) /\ TablesTyped /\ job[j].pc = "audit"
  BY TypedAt DEF AuditLast
<1>2. job[j].client \in Clients
  BY <1>1, Steps
<1>3. Sound \/ Fault
  BY DEF AuditLast
<1>4. (job[j].kind = "new" /\ Go(j, "undo")) \/ End(j)
  BY DEF AuditLast
<1>5. ASSUME job[j].kind = "new"
      PROVE  [job[j] EXCEPT !.pc = "undo"] \in Job /\ Order([job[j] EXCEPT !.pc = "undo"])
  BY <1>1, <1>5, PartiesAssumption DEF Order, SignOuts, Job
<1>6. JobsTyped'
  BY <1>1, <1>3, <1>4, <1>5, GoTyped, EndTyped
<1>7. orphans' \subseteq Clients
  BY <1>1, <1>2 DEF AuditLast, TablesTyped
<1>8. accounted' \in [Clients -> SUBSET Nat] /\ recorded' \in [Clients -> Nat]
  <2>1. j \in Nat
    BY PartiesAssumption DEF Jobs
  <2>2. PICK c \in Clients : c = job[j].client
    BY <1>2
  <2>3. \/ accounted' = accounted
        \/ accounted' = [accounted EXCEPT ![c] = @ \cup {j}]
    BY <2>2 DEF AuditLast, journal, excused, edits
  <2>4. \/ recorded' = recorded
        \/ recorded' = [recorded EXCEPT ![c] = @ + 1]
    BY <2>2 DEF AuditLast, journal, excused, edits
  <2>5. accounted' \in [Clients -> SUBSET Nat]
    BY <1>1, <2>1, <2>3 DEF TablesTyped
  <2>6. recorded' \in [Clients -> Nat]
    BY <1>1, <2>4 DEF TablesTyped
  <2> QED BY <2>5, <2>6
<1>9. TablesTyped'
  BY <1>1, <1>7, <1>8 DEF AuditLast, TablesTyped, table, logout, excused, edits
<1> QED BY <1>3, <1>6, <1>9, TypedTables

LEMMA RemoveTyped ==
  ASSUME TablesTyped, NEW c \in Clients, Remove(c) \/ UNCHANGED <<table, logout>>,
         UNCHANGED <<journal, edits>>
  PROVE  TablesTyped'
<1>1. client' \in [Clients -> Client]
  <2>1. client \in [Clients -> Client]
    BY DEF TablesTyped
  <2> QED BY <2>1 DEF Remove, Client, table
<1>2. sess' \subseteq sess /\ missed' \subseteq Pairs
  BY DEF Remove, TablesTyped, logout, excused, edits
<1> QED BY <1>1, <1>2 DEF Remove, TablesTyped, table, logout, journal, excused, edits

LEMMA UndoTyped ==
  ASSUME PartiesTyped, NEW j \in Jobs, Undo(j) \/ DropClient(j)
  PROVE  PartiesTyped'
<1>1. TablesTyped /\ job[j].client \in Clients
  BY TypedAt, Steps DEF Undo, DropClient
<1>2. JobsTyped' /\ (Sound \/ Fault)
  BY EndTyped DEF Undo, DropClient
<1>3. TablesTyped'
  BY <1>1, RemoveTyped DEF Undo, DropClient
<1> QED BY <1>2, <1>3, TypedTables

LEMMA StoreSecretTyped ==
  ASSUME PartiesTyped, NEW j \in Jobs, StoreSecret(j)
  PROVE  PartiesTyped'
<1>1. TablesTyped /\ job[j].client \in Clients
  BY TypedAt, Steps DEF StoreSecret
<1>2. JobsTyped' /\ (Sound \/ Fault)
  BY EndTyped DEF StoreSecret
<1>3. client' \in [Clients -> Client]
  <2>1. PICK c \in Clients : c = job[j].client
    BY <1>1
  <2>2. PICK n \in Nat : client' = client \/ client' = [client EXCEPT ![c].secrets = n]
    <3>1. client[c].secrets \in Nat
      BY <1>1 DEF TablesTyped, Client
    <3>2. PICK n : n = IF client[c].st = "live" THEN client[c].secrets + 1 ELSE client[c].secrets
      OBVIOUS
    <3>3. client' = client \/ client' = [client EXCEPT ![c].secrets = n]
      BY <2>1, <3>2 DEF StoreSecret
    <3>4. n \in Nat
      BY <3>1, <3>2
    <3> QED BY <3>3, <3>4
  <2> QED BY <1>1, <2>2, ZenonT(60) DEF TablesTyped, Client
<1>4. TablesTyped'
  BY <1>1, <1>3 DEF StoreSecret, TablesTyped, logout, journal, excused, edits
<1> QED BY <1>2, <1>4, TypedTables

LEMMA CrashTyped ==
  ASSUME PartiesTyped, Crash
  PROVE  PartiesTyped'
<1>1. TablesTyped /\ JobsTyped
  BY TypedParts
<1>2. Fault /\ job' = [j \in Jobs |-> NoJob] /\ push' = {}
  BY DEF Crash
<1>3. ASSUME NEW q \in Jobs PROVE Order(job[q])' /\ job'[q] = NoJob
  <2>1. Order(job'[q]) /\ job'[q] = NoJob
    BY <1>2, IdleJob
  <2> QED BY <2>1 DEF Order
<1>4. JobsTyped'
  BY <1>2, <1>3, IdleJob DEF JobsTyped
<1>5. \A p \in push : p.to \in Pairs
  BY <1>1 DEF TablesTyped, Push
<1>6. missed' \subseteq Pairs
  <2>1. \A j \in Busy : Left(j) \subseteq Pairs
    BY LeftTyped DEF Busy
  <2> QED BY <1>1, <1>5, <2>1 DEF Crash, TablesTyped
<1>7. orphans' \subseteq Clients
  <2>1. \A i \in Busy : job[i].kind = "new" => job[i].client \in Clients
    BY TypedAt DEF Busy, Order
  <2> QED BY <1>1, <2>1 DEF Crash, TablesTyped
<1>8. TablesTyped'
  BY <1>1, <1>2, <1>6, <1>7 DEF Crash, TablesTyped, table, journal, excused, edits
<1> QED BY <1>2, <1>4, <1>8, TypedTables

LEMMA LoginTyped ==
  ASSUME PartiesTyped, NEW u \in Users, NEW c \in Clients \cup {Portal}, Login(u, c)
  PROVE  PartiesTyped'
<1>1. TablesTyped /\ JobsTyped
  BY TypedParts
<1>2. {starts', logins', faults'} \subseteq Nat /\ starts' = starts
  BY TypedParts DEF Login
<1>3. ASSUME NEW q \in Jobs
      PROVE  /\ job'[q] \in Job /\ Order(job[q])'
             /\ q > starts' => job'[q] = NoJob
  <2>1. PICK w : w = [job[q] EXCEPT !.fresh = @ \cup ({c} \ {Portal})]
    OBVIOUS
  <2>2. job[q] \in Job /\ Order(job[q])
    BY TypedAt
  <2>3. w \in Job /\ Order(w)
    BY <2>1, <2>2 DEF Job, Order
  <2>4. job'[q] = job[q] \/ (job[q].pc # "idle" /\ job'[q] = w)
    BY <2>1 DEF Login
  <2>5. job'[q] \in Job /\ Order(job'[q])
    BY <2>2, <2>3, <2>4
  <2>6. q > starts' => job'[q] = NoJob
    BY <1>1, <1>2, <2>4, SMTT(40) DEF JobsTyped, NoJob
  <2> QED BY <2>5, <2>6 DEF Order
<1>4. JobsTyped'
  BY <1>3 DEF JobsTyped, Login
<1>5. /\ sess' \subseteq Users \X (Clients \cup {Portal}) /\ rp' \subseteq Pairs
      /\ reported' \subseteq reported /\ missed' \subseteq missed
      /\ unanswered' \subseteq unanswered /\ revoked' \subseteq revoked
  BY <1>1 DEF Login, TablesTyped, Pairs
<1>6. TablesTyped'
  BY <1>1, <1>5 DEF Login, TablesTyped, table, journal, excused, edits
<1> QED BY <1>2, <1>4, <1>6, TypedNext

LEMMA RevokeTyped ==
  ASSUME PartiesTyped, NEW u \in Users, NEW c \in Clients, Revoke(u, c)
  PROVE  PartiesTyped'
<1>1. TablesTyped /\ JobsTyped /\ {starts', logins', faults'} \subseteq Nat
  BY TypedParts DEF Revoke
<1>2. TablesTyped'
  BY <1>1 DEF Revoke, TablesTyped, Pairs, table, journal, edits
<1>3. JobsTyped'
  BY <1>1 DEF Revoke, JobsTyped, Order
<1> QED BY <1>1, <1>2, <1>3, TypedNext

LEMMA PartiesTypedStep ==
  ASSUME PartiesTyped, [Next]_vars PROVE PartiesTyped'
<1>1. ASSUME NEW j \in Jobs, Begin(j) PROVE PartiesTyped'
  BY <1>1, SignOutBeginTyped, CreateClientTyped, EditBeginTyped, RotateBeginTyped
     DEF Begin, PortalCreate, AdminCreate
<1>2. ASSUME NEW j \in Jobs, SigningOut(j) PROVE PartiesTyped'
  BY <1>2, AuditFirstTyped, ResetPasswordTyped, ListTyped, GetUserTyped, BroadcastTyped,
     BroadcastDoneTyped, WipeTyped, LogLogoutTyped, EraseUserTyped DEF SigningOut
<1>3. ASSUME NEW j \in Jobs, Administering(j) PROVE PartiesTyped'
  BY <1>3, UpdateClientTyped, UpdatePartTyped, AuditLastTyped, UndoTyped, StoreSecretTyped
     DEF Administering
<1>4. CASE UNCHANGED vars
  BY <1>4 DEF vars, PartiesTyped, PartiesTypeOK, JobsTyped, Order
<1> QED BY <1>1, <1>2, <1>3, <1>4, LoginTyped, RevokeTyped, PushingTyped, CrashTyped DEF Next, Pushing

LEMMA PartiesTypedInit ==
  ASSUME Init PROVE PartiesTyped
<1>1. client \in [Clients -> Client]
  <2>1. PICK uri \in [Known -> BOOLEAN] :
          client = [c \in Clients |-> IF c \in Known THEN Registered(uri[c]) ELSE NoClient]
    BY DEF Init
  <2>2. NoClient \in Client
    BY DEF NoClient, Client
  <2>3. \A c \in Known : Registered(uri[c]) \in Client
    BY DEF Registered, NoClient, Client
  <2> QED BY <2>1, <2>2, <2>3
<1>2. \A c \in Clients : client[c].secrets \in Nat
  BY <1>1 DEF Client
<1>3. recorded \in [Clients -> Nat] /\ accounted \in [Clients -> SUBSET Nat]
  BY <1>2 DEF Init
<1>4. JobsTyped
  BY IdleJob DEF Init, JobsTyped
<1>5. TablesTyped
  BY <1>1, <1>3 DEF Init, TablesTyped
<1>6. {starts, logins, faults} \subseteq Nat
  BY DEF Init
<1> QED BY <1>4, <1>5, <1>6, TypedParts

-----------------------------------------------------------------------------
(* Nobody who has been told forgets it, and no list loses a client.        *)

\* What has to be seen of a step that opens no session.
LEMMA SurvivorsStep ==
  ASSUME Survivors, rp' \subseteq rp, sess' \subseteq sess,
         \A to \in rp' : Told(to) => Told(to)',
         \A to \in rp' : to \in sess => to \in sess' \/ Told(to)',
         \A s \in sess' : s[1] \in users',
         \A q \in Jobs : job'[q] = job[q] \/ Telling(job[q])'
  PROVE  Survivors'
<1>1. \A to \in rp' : to \in sess' \/ Told(to)'
  BY DEF Survivors
<1>2. ASSUME NEW q \in Jobs, job'[q] = job[q] PROVE Telling(job[q])'
  BY <1>2 DEF Survivors, Telling
<1> QED BY <1>1, <1>2 DEF Survivors

\* A step that does not touch the sessions: only the one handler matters.
LEMMA SurvivorsMove ==
  ASSUME PartiesTyped, Survivors, UNCHANGED <<sess, rp, users>>, NEW j \in Jobs, NEW w,
         job' = [job EXCEPT ![j] = w],
         \A to \in rp : Told(to) => Told(to)',
         w.pc \in {"user", "each", "wipe", "erase"} =>
           \A c \in Clients : <<w.user, c>> \in rp =>
             c \in w.todo \/ c \in w.fresh \/ Told(<<w.user, c>>)'
  PROVE  Survivors'
<1>1. \A q \in Jobs : job'[q] = IF q = j THEN w ELSE job[q]
  BY TypedParts DEF JobsTyped
<1>2. Telling(job[j])'
  BY <1>1 DEF Telling
<1>3. \A s \in sess' : s[1] \in users'
  BY DEF Survivors
<1> QED BY <1>1, <1>2, <1>3, SurvivorsStep

\* The same where nobody is told anything either.
LEMMA ToldFrame ==
  ASSUME UNCHANGED <<push, missed, unanswered, revoked, reported>>, NEW to
  PROVE  Told(to)' <=> Told(to)
  BY DEF Told

LEMMA SurvivorsStill ==
  ASSUME PartiesTyped, Survivors, UNCHANGED logout, UNCHANGED users, NEW j \in Jobs, NEW w,
         job' = [job EXCEPT ![j] = w],
         \/ w.pc \notin {"user", "each", "wipe", "erase"}
         \/ /\ job[j].pc \in {"user", "each", "wipe", "erase"}
            /\ w.user = job[j].user /\ w.todo = job[j].todo /\ w.fresh = job[j].fresh
  PROVE  Survivors'
<1>1. UNCHANGED <<sess, rp, users, push, missed, unanswered, revoked, reported>>
  BY DEF logout, excused
<1>2. \A to : Told(to)' <=> Told(to)
  BY <1>1, ToldFrame
<1>3. w.pc \in {"user", "each", "wipe", "erase"} =>
        \A c \in Clients : <<w.user, c>> \in rp =>
          c \in w.todo \/ c \in w.fresh \/ Told(<<w.user, c>>)'
  BY <1>2 DEF Survivors, Telling
<1> QED BY <1>1, <1>2, <1>3, SurvivorsMove

\* Where a handler is after Go, End and Start.
LEMMA GoTo ==
  ASSUME PartiesTyped, NEW j \in Jobs, NEW pc, Go(j, pc)
  PROVE  \E w : /\ job' = [job EXCEPT ![j] = w]
                /\ w.pc = pc /\ w.kind = job[j].kind /\ w.user = job[j].user
                /\ w.client = job[j].client /\ w.form = job[j].form
                /\ w.todo = job[j].todo /\ w.fresh = job[j].fresh
<1>1. PICK w : w = [job[j] EXCEPT !.pc = pc]
  OBVIOUS
<1>2. job' = [job EXCEPT ![j] = w]
  BY <1>1 DEF Go
<1>3. job[j] \in Job
  BY TypedAt
<1>4. /\ w.pc = pc /\ w.kind = job[j].kind /\ w.user = job[j].user
      /\ w.client = job[j].client /\ w.form = job[j].form
      /\ w.todo = job[j].todo /\ w.fresh = job[j].fresh
  BY <1>1, <1>3 DEF Job
<1> QED BY <1>2, <1>4

LEMMA EndTo ==
  ASSUME NEW j, End(j) PROVE job' = [job EXCEPT ![j] = NoJob] /\ NoJob.pc = "idle"
  BY DEF End, NoJob

\* The handlers that touch neither sessions nor messages.
LEMMA QuietSurvivors ==
  ASSUME PartiesTyped, Survivors, NEW j \in Jobs,
         \/ Begin(j) \/ AuditFirst(j) \/ ResetPassword(j) \/ BroadcastDone(j) \/ LogLogout(j)
         \/ UpdateClient(j) \/ UpdatePart(j) \/ AuditLast(j) \/ StoreSecret(j)
  PROVE  Survivors'
<1>1. UNCHANGED logout /\ UNCHANGED users
  BY DEF Begin, SignOutBegin, PortalCreate, AdminCreate, CreateClient, EditBegin, RotateBegin,
         DropBegin, AuditFirst, ResetPassword, BroadcastDone, LogLogout, UpdateClient, UpdatePart,
         AuditLast, StoreSecret, table
<1>2. CASE Begin(j)
  <2>1. PICK w : Start(j, w) /\ w.pc \notin {"user", "each", "wipe", "erase"}
    <3>1. ASSUME NEW u \in Users, NEW k \in SignOuts, SignOutBegin(j, u, k)
          PROVE  \E w : Start(j, w) /\ w.pc \notin {"user", "each", "wipe", "erase"}
      <4>1. PICK w : w = [NoJob EXCEPT !.kind = k, !.user = u,
                                       !.pc = IF k = "logout" THEN "list" ELSE "first"]
        OBVIOUS
      <4>2. Start(j, w) /\ w.pc \in {"list", "first"}
        BY <3>1, <4>1 DEF SignOutBegin, NoJob
      <4> QED BY <4>2
    <3>2. ASSUME NEW k, NEW c, NEW f, NEW pc \in {"portal", "audit", "update", "first"},
                 Start(j, [NoJob EXCEPT !.kind = k, !.client = c, !.form = f, !.pc = pc])
          PROVE  \E w : Start(j, w) /\ w.pc \notin {"user", "each", "wipe", "erase"}
      <4>1. PICK w : w = [NoJob EXCEPT !.kind = k, !.client = c, !.form = f, !.pc = pc]
        OBVIOUS
      <4>2. Start(j, w) /\ w.pc = pc
        BY <3>2, <4>1 DEF NoJob
      <4> QED BY <4>2
    <3>3. ASSUME NEW k, NEW c,
                 Start(j, [NoJob EXCEPT !.kind = k, !.client = c, !.pc = "first"])
          PROVE  \E w : Start(j, w) /\ w.pc \notin {"user", "each", "wipe", "erase"}
      <4>1. PICK w : w = [NoJob EXCEPT !.kind = k, !.client = c, !.pc = "first"]
        OBVIOUS
      <4>2. Start(j, w) /\ w.pc = "first"
        BY <3>3, <4>1 DEF NoJob
      <4> QED BY <4>2
    <3> QED BY <1>2, <3>1, <3>2, <3>3
            DEF Begin, PortalCreate, AdminCreate, CreateClient, EditBegin, RotateBegin, DropBegin
  <2>2. job' = [job EXCEPT ![j] = w]
    BY <2>1 DEF Start
  <2> QED BY <1>1, <2>1, <2>2, SurvivorsStill
<1>3. CASE End(j)
  BY <1>1, <1>3, EndTo, SurvivorsStill
<1>4. CASE BroadcastDone(j)
  <2>1. Go(j, "wipe") /\ job[j].pc = "each"
    BY <1>4 DEF BroadcastDone
  <2> QED BY <1>1, <2>1, GoTo, SurvivorsStill
<1>5. ASSUME NEW pc \in {"password", "list", "store", "drop", "portal", "device", "visibility",
                         "audit", "undo"},
             Go(j, pc)
      PROVE  Survivors'
  BY <1>1, <1>5, GoTo, SurvivorsStill
<1>6. CASE AuditFirst(j)
  <2>1. job[j].kind \in {"reset", "delete", "rotate", "drop"}
    BY <1>6, TypedAt, Steps DEF AuditFirst
  <2>2. AfterFirst(job[j].kind) \in {"password", "list", "store", "drop"}
    BY <2>1 DEF AfterFirst
  <2> QED BY <1>3, <1>5, <1>6, <2>2 DEF AuditFirst
<1>7. CASE UpdatePart(j)
  <2>1. NextPart(j, job[j].pc) \in {"device", "visibility", "audit"}
    BY <1>7, TypedAt, NextPartOrder DEF UpdatePart
  <2> QED BY <1>3, <1>5, <1>7, <2>1 DEF UpdatePart
<1>8. CASE ResetPassword(j) \/ LogLogout(j) \/ UpdateClient(j) \/ AuditLast(j) \/ StoreSecret(j)
  BY <1>3, <1>5, <1>8 DEF ResetPassword, LogLogout, UpdateClient, AuditLast, StoreSecret
<1> QED BY <1>2, <1>4, <1>6, <1>7, <1>8

\* The list: whoever is not on it has been told.
LEMMA ListSurvivors ==
  ASSUME PartiesTyped, Survivors, NEW j \in Jobs, List(j)
  PROVE  Survivors'
<1>1. job[j] \in Job /\ TablesTyped
  BY TypedAt
<1>2. /\ UNCHANGED <<sess, rp, users, push, unanswered, revoked, reported>>
      /\ missed \subseteq missed'
  BY DEF List, table, excused
<1>3. \A to : Told(to) => Told(to)'
  BY <1>2 DEF Told
<1>4. PICK u, cs : u = job[j].user /\ cs = ListSessionClientIDsByUser(u)
  OBVIOUS
<1>5. \A c \in Clients : <<u, c>> \in rp => c \in cs \/ Told(<<u, c>>)
  BY <1>4 DEF Survivors, ListSessionClientIDsByUser
<1>6. CASE job' = [job EXCEPT ![j].todo = cs, ![j].fresh = {},
                              ![j].pc = IF cs = {} THEN "wipe" ELSE "user"]
  <2>1. PICK w : w = [job[j] EXCEPT !.todo = cs, !.fresh = {},
                                    !.pc = IF cs = {} THEN "wipe" ELSE "user"]
    OBVIOUS
  <2>2. w.user = u /\ w.todo = cs
    BY <1>1, <1>4, <2>1 DEF Job
  <2>3. job' = [job EXCEPT ![j] = w]
    BY <1>6, <2>1
  <2>4. \A c \in Clients : <<w.user, c>> \in rp =>
          c \in w.todo \/ c \in w.fresh \/ Told(<<w.user, c>>)'
    BY <1>3, <1>5, <2>2
  <2> QED BY <1>2, <1>3, <2>3, <2>4, SurvivorsMove
<1>7. CASE /\ Go(j, "wipe")
           /\ missed' = missed \cup {<<u, c>> : c \in cs \ {Portal}}
  <2>1. PICK w : job' = [job EXCEPT ![j] = w] /\ w.user = u
    BY <1>4, <1>7, GoTo
  <2>2. \A c \in Clients : c \in cs => <<u, c>> \in missed'
    BY <1>7, PartiesAssumption
  <2>3. \A c \in Clients : <<w.user, c>> \in rp =>
          c \in w.todo \/ c \in w.fresh \/ Told(<<w.user, c>>)'
    BY <1>3, <1>5, <2>1, <2>2 DEF Told
  <2> QED BY <1>2, <1>3, <2>1, <2>3, SurvivorsMove
<1> QED BY <1>4, <1>6, <1>7 DEF List

\* The user: one who is gone has no sessions, so all clients have been told.
LEMMA GetUserSurvivors ==
  ASSUME PartiesTyped, Survivors, NEW j \in Jobs, GetUser(j)
  PROVE  Survivors'
<1>1. job[j] \in Job /\ TablesTyped /\ job[j].pc = "user"
  BY TypedAt DEF GetUser
<1>2. /\ UNCHANGED <<sess, rp, users, push, unanswered, revoked, reported>>
      /\ missed \subseteq missed'
  BY DEF GetUser, table, excused
<1>3. \A to : Told(to) => Told(to)'
  BY <1>2 DEF Told
<1>4. PICK u : u = job[j].user
  OBVIOUS
<1>5. \A c \in Clients : <<u, c>> \in rp => c \in job[j].todo \/ c \in job[j].fresh \/ Told(<<u, c>>)
  BY <1>1, <1>4 DEF Survivors, Telling
<1>6. CASE Go(j, "each")
  <2>1. PICK w : /\ job' = [job EXCEPT ![j] = w]
                 /\ w.user = u /\ w.todo = job[j].todo /\ w.fresh = job[j].fresh
    BY <1>4, <1>6, GoTo
  <2>2. \A c \in Clients : <<w.user, c>> \in rp =>
          c \in w.todo \/ c \in w.fresh \/ Told(<<w.user, c>>)'
    BY <1>3, <1>5, <2>1
  <2> QED BY <1>2, <1>3, <2>1, <2>2, SurvivorsMove
<1>7. CASE /\ u \in users => missed' = missed \cup Left(j)
           /\ job' = [job EXCEPT ![j].pc = "wipe", ![j].todo = {}]
  <2>1. PICK w : w = [job[j] EXCEPT !.pc = "wipe", !.todo = {}]
    OBVIOUS
  <2>2. job' = [job EXCEPT ![j] = w]
    BY <1>7, <2>1
  <2>3. w.user = u /\ w.fresh = job[j].fresh
    BY <1>1, <1>4, <2>1 DEF Job
  <2>4. ASSUME NEW c \in Clients, <<u, c>> \in rp
        PROVE  c \in job[j].fresh \/ Told(<<u, c>>)'
    <3>1. CASE u \notin users
      <4>1. <<u, c>> \notin sess
        BY <3>1 DEF Survivors
      <4> QED BY <1>3, <2>4, <4>1 DEF Survivors
    <3>2. CASE u \in users
      <4>1. c \in job[j].todo => <<u, c>> \in missed'
        BY <1>4, <1>7, <3>2, PartiesAssumption DEF Left
      <4> QED BY <1>3, <1>5, <2>4, <4>1 DEF Told
    <3> QED BY <3>1, <3>2
  <2>5. \A c \in Clients : <<w.user, c>> \in rp =>
          c \in w.todo \/ c \in w.fresh \/ Told(<<w.user, c>>)'
    BY <2>3, <2>4
  <2> QED BY <1>2, <1>3, <2>2, <2>5, SurvivorsMove
<1> QED BY <1>4, <1>6, <1>7 DEF GetUser

\* One client less on the list: it is told, or nobody will tell it.
LEMMA BroadcastSurvivors ==
  ASSUME PartiesTyped, Survivors, NEW j \in Jobs, NEW c \in Clients \cup {Portal}, Broadcast(j, c)
  PROVE  Survivors'
<1>1. job[j] \in Job /\ job[j].pc = "each"
  BY TypedAt DEF Broadcast
<1>2. UNCHANGED <<sess, rp, users, unanswered, revoked, reported>>
  BY DEF Broadcast, table, excused
<1>3. PICK u, to, p : u = job[j].user /\ to = <<u, c>> /\ p = [to |-> to, by |-> j, pc |-> "post"]
  OBVIOUS
<1>4. /\ push \subseteq push' /\ (c = Portal \/ to \in missed' \/ p \in push')
      /\ missed \ {to} \subseteq missed' /\ (c = Portal => missed \subseteq missed')
  BY <1>3 DEF Broadcast
<1>5. c # Portal => Told(to)'
  <2>1. p.to = to /\ p.pc # "ok"
    BY <1>3
  <2> QED BY <1>4, <2>1 DEF Told
<1>6. \A x : Told(x) => Told(x)'
  BY <1>2, <1>4, <1>5 DEF Told
<1>7. PICK w : w = [job[j] EXCEPT !.todo = @ \ {c}]
  OBVIOUS
<1>8. w.user = u /\ w.fresh = job[j].fresh /\ w.todo = job[j].todo \ {c}
  BY <1>1, <1>3, <1>7 DEF Job
<1>9. job' = [job EXCEPT ![j] = w]
  BY <1>7 DEF Broadcast
<1>10. \A d \in Clients : <<w.user, d>> \in rp =>
         d \in w.todo \/ d \in w.fresh \/ Told(<<w.user, d>>)'
  <2>1. ASSUME NEW d \in Clients, <<u, d>> \in rp
        PROVE  d \in w.todo \/ d \in w.fresh \/ Told(<<u, d>>)'
    <3>1. d \in job[j].todo \/ d \in job[j].fresh \/ Told(<<u, d>>)
      BY <1>1, <1>3, <2>1 DEF Survivors, Telling
    <3>2. d = c => Told(<<u, d>>)'
      BY <1>3, <1>5, PartiesAssumption
    <3> QED BY <1>6, <1>8, <3>1, <3>2
  <2> QED BY <1>8, <2>1
<1> QED BY <1>2, <1>6, <1>9, <1>10, SurvivorsMove

\* A sign-out deletes the sessions: its list is done, and the logins since are
\* among those that nobody tells.
LEMMA DeletedSessions ==
  ASSUME PartiesTyped, Survivors, NEW j \in Jobs, job[j].pc \in {"wipe", "erase"},
         sess' = {s \in sess : s[1] # job[j].user}, missed' = missed \cup Fresh(j),
         UNCHANGED <<rp, push, unanswered, revoked, reported>>
  PROVE  /\ \A to : Told(to) => Told(to)'
         /\ \A to \in rp' : to \in sess' \/ Told(to)'
<1>1. job[j] \in Job /\ Order(job[j]) /\ TablesTyped
  BY TypedAt
<1>2. \A to : Told(to) => Told(to)'
  BY DEF Told
<1>3. ASSUME NEW to \in rp', to \notin sess' PROVE Told(to)'
  <2>1. PICK u \in Users, c \in Clients : to = <<u, c>>
    BY <1>1 DEF TablesTyped, Pairs
  <2>2. CASE to \notin sess
    BY <1>2, <2>2 DEF Survivors
  <2>3. CASE u = job[j].user
    <3>1. c \in job[j].fresh \/ Told(to)
      BY <1>1, <2>1, <2>3 DEF Survivors, Telling, Order
    <3>2. c \in job[j].fresh => to \in missed'
      BY <2>1, <2>3 DEF Fresh
    <3> QED BY <1>2, <3>1, <3>2 DEF Told
  <2> QED BY <1>3, <2>1, <2>2, <2>3
<1> QED BY <1>2, <1>3

LEMMA WipeSurvivors ==
  ASSUME PartiesTyped, Survivors, NEW j \in Jobs, Wipe(j)
  PROVE  Survivors'
<1>1. job[j] \in Job /\ Order(job[j]) /\ TablesTyped /\ job[j].pc = "wipe"
  BY TypedAt DEF Wipe
<1>2. UNCHANGED <<rp, push, unanswered, revoked, reported, users>>
  BY DEF Wipe, table, excused
<1>3. PICK u : u = job[j].user
  OBVIOUS
<1>4. PICK w : /\ job' = [job EXCEPT ![j] = w]
               /\ w.pc \in {"user", "each", "wipe", "erase"} =>
                    w.user = u /\ w.todo = job[j].todo /\ w.fresh = job[j].fresh
  <2>1. Go(j, "last") \/ End(j) \/ Go(j, "erase")
    <3>1. job[j].kind \in SignOuts
      BY <1>1, Steps
    <3> QED BY <3>1 DEF Wipe, SignOuts
  <2>2. CASE End(j)
    BY <2>2, EndTo
  <2>3. ASSUME NEW pc \in {"last", "erase"}, Go(j, pc)
        PROVE  \E w : /\ job' = [job EXCEPT ![j] = w]
                      /\ w.user = u /\ w.todo = job[j].todo /\ w.fresh = job[j].fresh
    BY <1>3, <2>3, GoTo
  <2> QED BY <2>1, <2>2, <2>3
<1>5. \A q \in Jobs : job'[q] = IF q = j THEN w ELSE job[q]
  BY <1>4, TypedParts DEF JobsTyped
<1>6. \A c \in Clients : <<u, c>> \in rp => c \in job[j].todo \/ c \in job[j].fresh \/ Told(<<u, c>>)
  BY <1>1, <1>3 DEF Survivors, Telling
<1>7. CASE sess' = {s \in sess : s[1] # u} /\ missed' = missed \cup Fresh(j)
  <2>1. /\ \A to : Told(to) => Told(to)'
        /\ \A to \in rp' : to \in sess' \/ Told(to)'
    BY <1>1, <1>2, <1>3, <1>7, DeletedSessions
  <2>2. Telling(job[j])'
    BY <1>2, <1>4, <1>5, <1>6, <2>1 DEF Telling
  <2>3. sess' \subseteq sess /\ \A s \in sess' : s[1] \in users'
    BY <1>2, <1>7 DEF Survivors
  <2> QED BY <1>2, <1>5, <2>1, <2>2, <2>3, SurvivorsStep
<1>8. CASE UNCHANGED <<sess, missed>>
  <2>1. \A to : Told(to)' <=> Told(to)
    BY <1>2, <1>8, ToldFrame
  <2>2. w.pc \in {"user", "each", "wipe", "erase"} =>
          \A c \in Clients : <<w.user, c>> \in rp =>
            c \in w.todo \/ c \in w.fresh \/ Told(<<w.user, c>>)'
    BY <1>4, <1>6, <2>1
  <2> QED BY <1>2, <1>4, <1>8, <2>1, <2>2, SurvivorsMove
<1> QED BY <1>3, <1>7, <1>8 DEF Wipe

LEMMA EraseUserSurvivors ==
  ASSUME PartiesTyped, Survivors, NEW j \in Jobs, EraseUser(j)
  PROVE  Survivors'
<1>1. job[j].pc = "erase" /\ UNCHANGED <<rp, push, unanswered, revoked, reported>> /\ End(j)
  BY DEF EraseUser, excused
<1>2. job' = [job EXCEPT ![j] = NoJob] /\ NoJob.pc = "idle"
  BY <1>1, EndTo
<1>3. \A q \in Jobs : job'[q] = IF q = j THEN NoJob ELSE job[q]
  BY <1>2, TypedParts DEF JobsTyped
<1>4. CASE /\ users' = users \ {job[j].user}
           /\ sess' = {s \in sess : s[1] # job[j].user} /\ missed' = missed \cup Fresh(j)
  <2>1. /\ \A to : Told(to) => Told(to)'
        /\ \A to \in rp' : to \in sess' \/ Told(to)'
    BY <1>1, <1>4, DeletedSessions
  <2>2. Telling(job[j])'
    BY <1>2, <1>3 DEF Telling
  <2>3. sess' \subseteq sess /\ \A s \in sess' : s[1] \in users'
    BY <1>4 DEF Survivors
  <2> QED BY <1>1, <1>3, <2>1, <2>2, <2>3, SurvivorsStep
<1>5. CASE UNCHANGED <<users, sess, missed>>
  BY <1>1, <1>2, <1>5, SurvivorsStill DEF logout, excused, edits
<1> QED BY <1>4, <1>5 DEF EraseUser

\* A goroutine ends its client's session, or is on its way, or the failure is
\* journalled, or nobody will know.
LEMMA PushingSurvivors ==
  ASSUME PartiesTyped, Survivors, NEW p \in push,
         Accepts(p) \/ Fails(p) \/ TimesOut(p) \/ Outcome(p)
  PROVE  Survivors'
<1>1. /\ UNCHANGED <<sess, users, job>> /\ rp' \subseteq rp
      /\ missed \subseteq missed' /\ reported \subseteq reported'
      /\ unanswered \subseteq unanswered' /\ revoked \subseteq revoked'
      /\ push \ {p} \subseteq push'
  BY DEF Accepts, Fails, TimesOut, Outcome, Becomes, table, excused
<1>2. \/ p.to \notin rp' \/ p.to \in missed' \cup unanswered' \cup reported' \/ p.pc = "ok"
      \/ \E q \in push' : q.to = p.to /\ q.pc # "ok"
  <2>1. p \in Push
    BY TypedParts DEF TablesTyped
  <2>2. PICK q : q = [p EXCEPT !.pc = "failed"]
    OBVIOUS
  <2>3. q.to = p.to /\ q.pc = "failed"
    BY <2>1, <2>2 DEF Push
  <2>4. Fails(p) => q \in push'
    BY <2>2 DEF Fails, Becomes
  <2> QED BY <2>3, <2>4 DEF Accepts, TimesOut, Outcome
<1>3. \A to \in rp' : Told(to) => Told(to)'
  BY <1>1, <1>2 DEF Told
<1>4. \A s \in sess' : s[1] \in users'
  BY <1>1 DEF Survivors
<1> QED BY <1>1, <1>3, <1>4, SurvivorsStep

\* A client's row goes.
LEMMA RemoveSurvivors ==
  ASSUME PartiesTyped, Survivors, NEW j \in Jobs, Undo(j) \/ DropClient(j)
  PROVE  Survivors'
<1>1. End(j)
  BY DEF Undo, DropClient
<1>2. job' = [job EXCEPT ![j] = NoJob] /\ NoJob.pc = "idle"
  BY <1>1, EndTo
<1>3. \A q \in Jobs : job'[q] = IF q = j THEN NoJob ELSE job[q]
  BY <1>2, TypedParts DEF JobsTyped
<1>4. CASE UNCHANGED <<table, logout>>
  BY <1>2, <1>4, SurvivorsStill DEF table
<1>5. CASE Remove(job[j].client)
  <2>1. /\ sess' = {s \in sess : s[2] # job[j].client}
        /\ missed' = missed \cup {s \in rp : s[2] = job[j].client}
        /\ UNCHANGED <<users, rp, push, reported, unanswered, revoked>>
    BY <1>5 DEF Remove, excused
  <2>2. \A to : Told(to) => Told(to)'
    BY <2>1 DEF Told
  <2>3. \A to \in rp' : to \in sess => to \in sess' \/ Told(to)'
    BY <2>1 DEF Told
  <2>4. Telling(job[j])'
    BY <1>2, <1>3 DEF Telling
  <2>5. sess' \subseteq sess /\ \A s \in sess' : s[1] \in users'
    BY <2>1 DEF Survivors
  <2> QED BY <1>3, <2>1, <2>2, <2>3, <2>4, <2>5, SurvivorsStep
<1> QED BY <1>4, <1>5 DEF Undo, DropClient

\* The process dies: whoever was being told is not.
LEMMA CrashSurvivors ==
  ASSUME PartiesTyped, Survivors, Crash
  PROVE  Survivors'
<1>1. /\ UNCHANGED <<users, sess, rp, reported, unanswered, revoked>>
      /\ \A q \in Jobs : job'[q] = NoJob
      /\ missed \subseteq missed' /\ \A p \in push : p.to \in missed'
  BY DEF Crash, table, excused
<1>2. \A to : Told(to) => Told(to)'
  BY <1>1 DEF Told
<1>3. \A q \in Jobs : Telling(job[q])'
  BY <1>1 DEF Telling, NoJob
<1>4. \A s \in sess' : s[1] \in users'
  BY <1>1 DEF Survivors
<1> QED BY <1>1, <1>2, <1>3, <1>4, SurvivorsStep

\* A login: the client's session is new, and every sign-out of the user that is
\* past its list knows of it.
LEMMA LoginSurvivors ==
  ASSUME PartiesTyped, Survivors, NEW u \in Users, NEW c \in Clients \cup {Portal}, Login(u, c)
  PROVE  Survivors'
<1>1. /\ u \in users /\ UNCHANGED <<users, push>> /\ sess' = sess \cup {<<u, c>>}
      /\ rp' \subseteq rp \cup {<<u, c>>}
      /\ reported' = reported \ {<<u, c>>} /\ missed' = missed \ {<<u, c>>}
      /\ unanswered' = unanswered \ {<<u, c>>} /\ revoked' = revoked \ {<<u, c>>}
  BY DEF Login, table
<1>2. \A to : to # <<u, c>> /\ Told(to) => Told(to)'
  BY <1>1 DEF Told
<1>3. \A s \in sess' : s[1] \in users'
  BY <1>1 DEF Survivors
<1>4. \A to \in rp' : to \in sess' \/ Told(to)'
  BY <1>1, <1>2 DEF Survivors
<1>5. ASSUME NEW q \in Jobs, job'[q].pc \in {"user", "each", "wipe", "erase"},
             NEW d \in Clients, <<job'[q].user, d>> \in rp'
      PROVE  d \in job'[q].todo \/ d \in job'[q].fresh \/ Told(<<job[q].user, d>>)'
  <2>1. job[q] \in Job
    BY TypedAt
  <2>2. PICK w : w = [job[q] EXCEPT !.fresh = @ \cup ({c} \ {Portal})]
    OBVIOUS
  <2>3. /\ w.pc = job[q].pc /\ w.user = job[q].user /\ w.todo = job[q].todo
        /\ w.fresh = job[q].fresh \cup ({c} \ {Portal})
    BY <2>1, <2>2 DEF Job
  <2>4. job'[q] = IF job[q].user = u /\ job[q].pc \in {"user", "each", "wipe", "last", "erase"}
                  THEN w ELSE job[q]
    BY <2>2 DEF Login
  <2>5. /\ job'[q].pc = job[q].pc /\ job'[q].user = job[q].user /\ job'[q].todo = job[q].todo
        /\ job[q].fresh \subseteq job'[q].fresh
    BY <2>3, <2>4
  <2>6. CASE <<job[q].user, d>> = <<u, c>>
    <3>1. d \in job'[q].fresh
      BY <1>5, <2>3, <2>4, <2>5, <2>6, PartiesAssumption
    <3> QED BY <3>1
  <2>7. CASE <<job[q].user, d>> # <<u, c>>
    <3>1. <<job[q].user, d>> \in rp
      BY <1>1, <1>5, <2>5, <2>7
    <3>2. d \in job[q].todo \/ d \in job[q].fresh \/ Told(<<job[q].user, d>>)
      BY <1>5, <2>5, <3>1 DEF Survivors, Telling
    <3>3. PICK to : to = <<job[q].user, d>>
      OBVIOUS
    <3>4. Told(to) => Told(to)'
      BY <1>2, <2>7, <3>3
    <3>5. to = <<job'[q].user, d>>
      BY <2>5, <3>3
    <3> QED BY <2>5, <3>2, <3>3, <3>4, <3>5 DEF Told
  <2> QED BY <2>6, <2>7
<1>6. \A q \in Jobs : Telling(job[q])'
  BY <1>5 DEF Telling
<1> QED BY <1>3, <1>4, <1>6 DEF Survivors

\* A row that is revoked: its client is one of those nobody tells.
LEMMA RevokeSurvivors ==
  ASSUME PartiesTyped, Survivors, NEW u \in Users, NEW c \in Clients, Revoke(u, c)
  PROVE  Survivors'
<1>1. /\ UNCHANGED <<users, rp, push, job, missed, unanswered, reported>>
      /\ sess' = sess \ {<<u, c>>} /\ revoked' = revoked \cup {<<u, c>>}
  BY DEF Revoke, table
<1>2. \A to \in rp' : Told(to) => Told(to)'
  BY <1>1 DEF Told
<1>3. \A to \in rp' : to \in sess => to \in sess' \/ Told(to)'
  BY <1>1 DEF Told
<1>4. \A s \in sess' : s[1] \in users'
  BY <1>1 DEF Survivors
<1> QED BY <1>1, <1>2, <1>3, <1>4, SurvivorsStep

LEMMA SurvivorsNext ==
  ASSUME PartiesTyped, Survivors, [Next]_vars PROVE Survivors'
<1>1. ASSUME NEW j \in Jobs, Begin(j) \/ SigningOut(j) \/ Administering(j) PROVE Survivors'
  BY <1>1, QuietSurvivors, ListSurvivors, GetUserSurvivors, BroadcastSurvivors, WipeSurvivors,
     EraseUserSurvivors, RemoveSurvivors DEF SigningOut, Administering
<1>2. CASE UNCHANGED vars
  BY <1>2 DEF vars, Survivors, Telling, Told
<1> QED BY <1>1, <1>2, LoginSurvivors, RevokeSurvivors, PushingSurvivors, CrashSurvivors DEF Next, Pushing

-----------------------------------------------------------------------------
(* The journal is never behind by more than a creation.                    *)

LEMMA RotatingFinite ==
  ASSUME NEW c
  PROVE  IsFiniteSet(Rotating(c)) /\ Cardinality(Rotating(c)) \in Nat
<1>1. IsFiniteSet(Jobs)
  BY PartiesAssumption, FS_Interval DEF Jobs
<1>2. Rotating(c) \subseteq Jobs
  BY DEF Rotating
<1>3. IsFiniteSet(Rotating(c))
  BY <1>1, <1>2, FS_Subset
<1> QED BY <1>3, FS_CardinalityType

Rotates(v, c) == v.pc = "store" /\ v.client = c

\* The count for one client whose rotations are the same, and whose creation is
\* under way if it was.
LEMMA CountedFrame ==
  ASSUME NEW c \in Clients, Counted(c), PartiesTyped,
         client'[c].secrets = client[c].secrets, recorded'[c] = recorded[c],
         \A q \in Jobs : Rotates(job'[q], c) <=> Rotates(job[q], c),
         Creating(c) => Creating(c)'
  PROVE  Counted(c)'
<1>1. Rotating(c)' = Rotating(c)
  BY DEF Rotating, Rotates
<1>2. Cardinality(Rotating(c))' = Cardinality(Rotating(c)) /\ Cardinality(Rotating(c)) \in Nat
  BY <1>1, RotatingFinite
<1>3. client[c].secrets \in Nat /\ recorded[c] \in Nat
  BY TypedParts DEF TablesTyped, Client
<1>4. client[c].secrets + Cardinality(Rotating(c)) <= recorded[c] + (IF Creating(c) THEN 1 ELSE 0)
  BY DEF Counted
<1> QED BY <1>2, <1>3, <1>4 DEF Counted

\* The count where no handler gets on with its work.
LEMMA CountingFrame ==
  ASSUME PartiesTyped, Counting, UNCHANGED <<client, recorded, orphans>>,
         \A q \in Jobs : /\ job'[q].pc = job[q].pc /\ job'[q].kind = job[q].kind
                         /\ job'[q].client = job[q].client /\ job'[q].form = job[q].form
  PROVE  Counting'
<1>1. ASSUME NEW c \in Clients \ orphans' PROVE Counted(c)'
  <2>1. \A q \in Jobs : Rotates(job'[q], c) <=> Rotates(job[q], c)
    BY DEF Rotates
  <2>2. Creating(c) => Creating(c)'
    BY DEF Creating, Creates
  <2>3. Counted(c)
    BY DEF Counting
  <2> QED BY <2>1, <2>2, <2>3, CountedFrame
<1> QED BY <1>1 DEF Counting, Creates

\* What has to be seen of a step of one handler.
LEMMA CountingMove ==
  ASSUME PartiesTyped, Counting, NEW j \in Jobs, NEW w, job' = [job EXCEPT ![j] = w],
         orphans \subseteq orphans',
         \A c \in Clients : client'[c].st = "free" => client[c].st = "free" /\ w.client # c,
         w.kind = "new" => \A q \in Jobs \ {j} : ~Creates(job[q], w.client),
         w.pc = "undo" => w.client \in orphans',
         \A c \in Clients \ orphans' : Counted(c)'
  PROVE  Counting'
<1>1. \A q \in Jobs : job'[q] = IF q = j THEN w ELSE job[q]
  BY TypedParts DEF JobsTyped
<1>2. ASSUME NEW c \in Clients, client'[c].st = "free", NEW q \in Jobs PROVE job'[q].client # c
  BY <1>1, <1>2 DEF Counting
<1>3. ASSUME NEW c \in Clients, NEW i \in Jobs, NEW q \in Jobs,
             Creates(job'[i], c), Creates(job'[q], c)
      PROVE  i = q
  BY <1>1, <1>3 DEF Counting, Creates
<1>4. ASSUME NEW q \in Jobs, job'[q].pc = "undo" PROVE job'[q].client \in orphans'
  BY <1>1, <1>4 DEF Counting
<1> QED BY <1>2, <1>3, <1>4 DEF Counting, Creates

\* The count of a client of which the one handler was not, and is not, a rotation
\* to be stored, and is its creator still if it was.
LEMMA CountedMove ==
  ASSUME PartiesTyped, NEW c \in Clients, Counted(c), NEW j \in Jobs, NEW w,
         job' = [job EXCEPT ![j] = w],
         client'[c].secrets = client[c].secrets, recorded'[c] = recorded[c],
         Rotates(w, c) <=> Rotates(job[j], c),
         Creates(job[j], c) => Creates(w, c) /\ w.form = job[j].form
  PROVE  Counted(c)'
<1>1. \A q \in Jobs : job'[q] = IF q = j THEN w ELSE job[q]
  BY TypedParts DEF JobsTyped
<1>2. \A q \in Jobs : Rotates(job'[q], c) <=> Rotates(job[q], c)
  BY <1>1
<1>3. Creating(c) => Creating(c)'
  BY <1>1 DEF Creating, Creates
<1> QED BY <1>2, <1>3, CountedFrame

\* A handler that has no rotation to store goes on, and a creator stays one.
LEMMA CountingQuiet ==
  ASSUME PartiesTyped, Counting, NEW j \in Jobs, NEW w, job' = [job EXCEPT ![j] = w],
         UNCHANGED <<recorded, orphans>>,
         \A c \in Clients : /\ client'[c].secrets = client[c].secrets
                            /\ client'[c].st = "free" => client[c].st = "free",
         job[j].pc # "store", w.pc \notin {"store", "undo"},
         w.client \in {job[j].client, None} \/ client'[w.client].st # "free",
         job[j].kind = "new" => w.client = job[j].client /\ w.form = job[j].form,
         w.kind = "new" <=> job[j].kind = "new"
  PROVE  Counting'
<1>1. job[j] \in Job /\ Order(job[j])
  BY TypedAt
<1>2. \A c \in Clients : client'[c].st = "free" => client[c].st = "free" /\ w.client # c
  BY PartiesAssumption DEF Counting
<1>3. w.kind = "new" => \A q \in Jobs \ {j} : ~Creates(job[q], w.client)
  BY <1>1 DEF Counting, Creates, Order
<1>4. ASSUME NEW c \in Clients \ orphans' PROVE Counted(c)'
  <2>1. Counted(c)
    BY DEF Counting
  <2>2. Rotates(w, c) <=> Rotates(job[j], c)
    BY DEF Rotates
  <2>3. Creates(job[j], c) => Creates(w, c) /\ w.form = job[j].form
    BY DEF Creates
  <2> QED BY <2>1, <2>2, <2>3, CountedMove
<1> QED BY <1>2, <1>3, <1>4, CountingMove

\* What a handler begins with.
LEMMA SignOutTo ==
  ASSUME NEW j \in Jobs, NEW u \in Users, NEW k \in SignOuts, SignOutBegin(j, u, k)
  PROVE  \E w : /\ job' = [job EXCEPT ![j] = w] /\ j = starts + 1
                /\ w.pc \in {"list", "first"} /\ w.kind = k /\ w.client = None
<1>1. PICK w : w = [NoJob EXCEPT !.kind = k, !.user = u,
                                 !.pc = IF k = "logout" THEN "list" ELSE "first"]
  OBVIOUS
<1>2. job' = [job EXCEPT ![j] = w] /\ j = starts + 1
  BY <1>1 DEF Start, SignOutBegin
<1>3. w.pc \in {"list", "first"} /\ w.kind = k /\ w.client = None
  BY <1>1 DEF NoJob
<1> QED BY <1>2, <1>3

\* Nobody is there before a handler begins.
LEMMA Unbegun ==
  ASSUME PartiesTyped, NEW j \in Jobs, j = starts + 1 PROVE job[j] = NoJob
<1>1. starts \in Nat /\ j > starts
  BY TypedParts
<1> QED BY <1>1, TypedParts DEF JobsTyped

\* The beginnings that create nothing.
LEMMA BeginCounting ==
  ASSUME PartiesTyped, Counting, NEW j \in Jobs,
         \/ \E u \in Users, k \in SignOuts : SignOutBegin(j, u, k)
         \/ \E c \in Clients : \/ \E f \in Forms : EditBegin(j, c, f)
                               \/ RotateBegin(j, c) \/ DropBegin(j, c)
  PROVE  Counting'
<1>1. UNCHANGED <<client, recorded, orphans>>
  BY DEF SignOutBegin, EditBegin, RotateBegin, DropBegin, table, journal, excused, edits
<1>2. PICK w : /\ job' = [job EXCEPT ![j] = w] /\ j = starts + 1
               /\ w.pc \in {"list", "first", "update"} /\ w.kind # "new"
               /\ w.client = None \/ client'[w.client].st # "free"
  <2>1. CASE \E u \in Users, k \in SignOuts : SignOutBegin(j, u, k)
    BY <2>1, SignOutTo DEF SignOuts
  <2>2. CASE \E c \in Clients, f \in Forms : EditBegin(j, c, f)
    <3>1. PICK c \in Clients, f \in Forms : EditBegin(j, c, f)
      BY <2>2
    <3>2. PICK w : w = [NoJob EXCEPT !.kind = "edit", !.client = c, !.form = f, !.pc = "update"]
      OBVIOUS
    <3>3. client'[c].st = "live" /\ Start(j, w)
      BY <1>1, <3>1, <3>2 DEF EditBegin
    <3>4. job' = [job EXCEPT ![j] = w] /\ j = starts + 1
      BY <3>3 DEF Start
    <3>5. w.pc = "update" /\ w.kind = "edit" /\ w.client = c
      BY <3>2 DEF NoJob
    <3> QED BY <3>3, <3>4, <3>5
  <2>3. CASE \E c \in Clients : RotateBegin(j, c) \/ DropBegin(j, c)
    <3>1. PICK c \in Clients, k \in {"rotate", "drop"} :
            /\ client'[c].st = "live"
            /\ Start(j, [NoJob EXCEPT !.kind = k, !.client = c, !.pc = "first"])
      BY <1>1, <2>3 DEF RotateBegin, DropBegin
    <3>2. PICK w : w = [NoJob EXCEPT !.kind = k, !.client = c, !.pc = "first"]
      OBVIOUS
    <3>3. Start(j, w)
      BY <3>1, <3>2
    <3>4. job' = [job EXCEPT ![j] = w] /\ j = starts + 1
      BY <3>3 DEF Start
    <3>5. w.pc = "first" /\ w.kind = k /\ w.client = c
      BY <3>2 DEF NoJob
    <3> QED BY <3>1, <3>4, <3>5
  <2> QED BY <2>1, <2>2, <2>3
<1>3. job[j] = NoJob
  BY <1>2, Unbegun
<1>4. job[j].pc = "idle" /\ job[j].kind # "new"
  BY <1>3, PartiesAssumption DEF NoJob
<1> QED BY <1>1, <1>2, <1>4, CountingQuiet

\* A new client: nobody has had anything to do with it.
LEMMA CreateCounting ==
  ASSUME PartiesTyped, Counting, NEW j \in Jobs, NEW c \in Clients, NEW f \in Forms,
         NEW written, NEW pc \in {"portal", "audit"}, CreateClient(j, c, f, written, pc)
  PROVE  Counting'
<1>1. UNCHANGED <<recorded, orphans>> /\ client[c].st = "free" /\ TablesTyped
  BY TypedParts DEF CreateClient, journal, excused, edits
<1>2. PICK w : /\ job' = [job EXCEPT ![j] = w] /\ j = starts + 1
               /\ w.pc = pc /\ w.kind = "new" /\ w.client = c /\ w.form = f
  <2>1. PICK w : w = [NoJob EXCEPT !.kind = "new", !.client = c, !.form = f, !.pc = pc]
    OBVIOUS
  <2>2. Start(j, w)
    BY <2>1 DEF CreateClient
  <2>3. job' = [job EXCEPT ![j] = w] /\ j = starts + 1
    BY <2>2 DEF Start
  <2>4. w.pc = pc /\ w.kind = "new" /\ w.client = c /\ w.form = f
    BY <2>1 DEF NoJob
  <2> QED BY <2>3, <2>4
<1>3. \A q \in Jobs : job'[q] = IF q = j THEN w ELSE job[q]
  BY <1>2, TypedParts DEF JobsTyped
<1>4. job[j] = NoJob /\ \A q \in Jobs : job[q].client # c
  BY <1>1, <1>2, Unbegun DEF Counting
<1>5. /\ client'[c].st = "live" /\ client'[c].secrets = (IF f.public THEN 0 ELSE 1)
      /\ \A d \in Clients : d # c => client'[d] = client[d]
  BY <1>1 DEF CreateClient, TablesTyped
<1>6. \A d \in Clients : client'[d].st = "free" => client[d].st = "free" /\ w.client # d
  BY <1>2, <1>5
<1>7. ASSUME NEW d \in Clients \ orphans' PROVE Counted(d)'
  <2>1. CASE d # c
    <3>1. Counted(d)
      BY <1>1 DEF Counting
    <3>2. (Rotates(w, d) <=> Rotates(job[j], d)) /\ ~Creates(job[j], d)
      BY <1>2, <1>4, <2>1, PartiesAssumption DEF Rotates, Creates, NoJob
    <3> QED BY <1>1, <1>2, <1>5, <2>1, <3>1, <3>2, CountedMove
  <2>2. CASE d = c
    <3>1. Rotating(c)' = {}
      <4>1. \A q \in Jobs : job'[q].client = c => job'[q].pc # "store"
        BY <1>2, <1>3, <1>4
      <4> QED BY <4>1 DEF Rotating
    <3>2. Cardinality(Rotating(c))' = 0
      BY <3>1, FS_EmptySet
    <3>3. recorded'[c] \in Nat
      BY <1>1 DEF TablesTyped
    <3>4. ~f.public => Creating(c)'
      BY <1>2, <1>3 DEF Creating, Creates
    <3>5. f.public \in BOOLEAN
      BY PartiesAssumption DEF Form
    <3> QED BY <1>5, <2>2, <3>2, <3>3, <3>4, <3>5 DEF Counted
  <2> QED BY <2>1, <2>2
<1>8. \A q \in Jobs \ {j} : ~Creates(job[q], w.client)
  BY <1>2, <1>4 DEF Creates
<1>9. w.pc # "undo" /\ orphans \subseteq orphans'
  BY <1>1, <1>2
<1> QED BY <1>2, <1>6, <1>7, <1>8, <1>9, CountingMove

\* The sign-outs have nothing to do with the clients table.
LEMMA SignOutMoves ==
  ASSUME PartiesTyped, NEW j \in Jobs, SigningOut(j), ~AuditFirst(j)
  PROVE  /\ UNCHANGED <<client, recorded, accounted, beside, unset, orphans>>
         /\ job[j].kind \in SignOuts /\ job[j].pc # "store"
         /\ \E w : /\ job' = [job EXCEPT ![j] = w] /\ w.pc \notin {"store", "undo"}
                   /\ w.kind \in SignOuts \cup {None} /\ w.client \in {job[j].client, None}
<1>1. job[j] \in Job /\ Order(job[j])
  BY TypedAt
<1>2. job[j].pc \in {"password", "list", "user", "each", "wipe", "last", "erase"}
  BY DEF SigningOut, ResetPassword, List, GetUser, Broadcast, BroadcastDone, Wipe, LogLogout,
         EraseUser
<1>3. job[j].kind \in SignOuts
  BY <1>1, <1>2, Steps
<1>4. UNCHANGED <<client, recorded, accounted, beside, unset, orphans>>
  BY DEF SigningOut, ResetPassword, List, GetUser, Broadcast, BroadcastDone, Wipe, LogLogout,
         EraseUser, table, journal, excused, edits
<1>5. PICK w : /\ job' = [job EXCEPT ![j] = w] /\ w.pc \notin {"store", "undo"}
               /\ w.kind \in SignOuts \cup {None} /\ w.client \in {job[j].client, None}
  <2> DEFINE Goal == \E w : /\ job' = [job EXCEPT ![j] = w] /\ w.pc \notin {"store", "undo"}
                            /\ w.kind \in SignOuts \cup {None}
                            /\ w.client \in {job[j].client, None}
  <2>1. ASSUME End(j) PROVE Goal
    <3>1. NoJob.pc = "idle" /\ NoJob.kind = None /\ NoJob.client = None
      BY DEF NoJob
    <3> QED BY <2>1, <3>1, EndTo
  <2>2. ASSUME NEW pc \in {"list", "each", "wipe", "last", "erase"}, Go(j, pc) PROVE Goal
    BY <1>3, <2>2, GoTo DEF SignOuts
  <2>3. ASSUME NEW c, Broadcast(j, c) PROVE Goal
    <3>1. PICK w : w = [job[j] EXCEPT !.todo = @ \ {c}]
      OBVIOUS
    <3>2. w.pc = job[j].pc /\ w.kind = job[j].kind /\ w.client = job[j].client
      BY <1>1, <3>1 DEF Job
    <3>3. job' = [job EXCEPT ![j] = w]
      BY <2>3, <3>1 DEF Broadcast
    <3> QED BY <1>2, <1>3, <3>2, <3>3 DEF SignOuts
  <2>4. ASSUME List(j) PROVE Goal
    <3>1. PICK cs : cs = ListSessionClientIDsByUser(job[j].user)
      OBVIOUS
    <3>2. CASE job' = [job EXCEPT ![j].todo = cs, ![j].fresh = {},
                                  ![j].pc = IF cs = {} THEN "wipe" ELSE "user"]
      <4>1. PICK w : w = [job[j] EXCEPT !.todo = cs, !.fresh = {},
                                        !.pc = IF cs = {} THEN "wipe" ELSE "user"]
        OBVIOUS
      <4>2. w.pc \in {"wipe", "user"} /\ w.kind = job[j].kind /\ w.client = job[j].client
        BY <1>1, <4>1 DEF Job
      <4>3. job' = [job EXCEPT ![j] = w]
        BY <3>2, <4>1
      <4> QED BY <1>3, <4>2, <4>3 DEF SignOuts
    <3>3. CASE Go(j, "wipe")
      BY <2>2, <3>3
    <3> QED BY <2>4, <3>1, <3>2, <3>3 DEF List
  <2>5. ASSUME job' = [job EXCEPT ![j].pc = "wipe", ![j].todo = {}] PROVE Goal
    <3>1. PICK w : w = [job[j] EXCEPT !.pc = "wipe", !.todo = {}]
      OBVIOUS
    <3>2. w.pc = "wipe" /\ w.kind = job[j].kind /\ w.client = job[j].client
      BY <1>1, <3>1 DEF Job
    <3>3. job' = [job EXCEPT ![j] = w]
      BY <2>5, <3>1
    <3> QED BY <1>3, <3>2, <3>3 DEF SignOuts
  <2>6. ASSUME Wipe(j) PROVE End(j) \/ Go(j, "last") \/ Go(j, "erase")
    BY <1>3, <2>6 DEF Wipe, SignOuts
  <2> HIDE DEF Goal
  <2>7. Goal
    BY <2>1, <2>2, <2>3, <2>4, <2>5, <2>6
       DEF SigningOut, ResetPassword, GetUser, BroadcastDone, LogLogout, EraseUser
  <2> QED BY <2>7 DEF Goal
<1> QED BY <1>2, <1>3, <1>4, <1>5

LEMMA SignOutCounting ==
  ASSUME PartiesTyped, Counting, NEW j \in Jobs, SigningOut(j), ~AuditFirst(j)
  PROVE  Counting'
<1>1. /\ UNCHANGED <<client, recorded, orphans>>
      /\ job[j].kind # "new" /\ job[j].pc # "store"
  BY SignOutMoves DEF SignOuts
<1>2. PICK w : /\ job' = [job EXCEPT ![j] = w] /\ w.pc \notin {"store", "undo"}
               /\ w.kind # "new" /\ w.client \in {job[j].client, None}
  BY SignOutMoves, PartiesAssumption DEF SignOuts
<1> QED BY <1>1, <1>2, CountingQuiet

\* A rotation is journalled, and counts until it is stored.
LEMMA AuditFirstCounting ==
  ASSUME PartiesTyped, Counting, NEW j \in Jobs, AuditFirst(j)
  PROVE  Counting'
<1>1. job[j] \in Job /\ Order(job[j]) /\ TablesTyped /\ job[j].pc = "first"
  BY TypedAt DEF AuditFirst
<1>2. job[j].kind \in {"reset", "delete", "rotate", "drop"}
  BY <1>1, Steps
<1>3. UNCHANGED <<client, orphans>>
  BY DEF AuditFirst, table, edits
<1>4. CASE End(j) /\ UNCHANGED recorded
  <2>1. job' = [job EXCEPT ![j] = NoJob]
    BY <1>4, EndTo
  <2>2. NoJob.pc = "idle" /\ NoJob.kind # "new" /\ NoJob.client = None
    BY PartiesAssumption DEF NoJob
  <2> QED BY <1>1, <1>2, <1>3, <1>4, <2>1, <2>2, CountingQuiet
<1>5. CASE Go(j, AfterFirst(job[j].kind)) /\ job[j].kind # "rotate" /\ UNCHANGED recorded
  <2>1. AfterFirst(job[j].kind) \in {"password", "list", "drop"}
    BY <1>2, <1>5 DEF AfterFirst
  <2>2. PICK w : /\ job' = [job EXCEPT ![j] = w] /\ w.pc \in {"password", "list", "drop"}
                 /\ w.kind = job[j].kind /\ w.client = job[j].client
    BY <1>5, <2>1, GoTo
  <2> QED BY <1>1, <1>2, <1>3, <1>5, <2>2, CountingQuiet
<1>6. CASE /\ Go(j, AfterFirst(job[j].kind)) /\ job[j].kind = "rotate"
           /\ recorded' = [recorded EXCEPT ![job[j].client] = @ + 1]
  <2>1. Go(j, "store")
    BY <1>6 DEF AfterFirst
  <2>2. PICK w : /\ job' = [job EXCEPT ![j] = w] /\ w.pc = "store"
                 /\ w.kind = "rotate" /\ w.client = job[j].client
    BY <1>6, <2>1, GoTo
  <2>3. PICK c \in Clients : c = job[j].client
    BY <1>1, <1>6 DEF Order
  <2>4. \A q \in Jobs : job'[q] = IF q = j THEN w ELSE job[q]
    BY <2>2, TypedParts DEF JobsTyped
  <2>5. ASSUME NEW d \in Clients \ orphans' PROVE Counted(d)'
    <3>1. Counted(d)
      BY <1>3 DEF Counting
    <3>2. CASE d # c
      <4>1. recorded'[d] = recorded[d] /\ ~Rotates(w, d) /\ ~Rotates(job[j], d)
            /\ ~Creates(job[j], d)
        BY <1>1, <1>6, <2>2, <2>3, <3>2 DEF TablesTyped, Rotates, Creates
      <4> QED BY <1>3, <2>2, <3>1, <4>1, CountedMove
    <3>3. CASE d = c
      <4>1. Rotating(c)' = Rotating(c) \cup {j} /\ j \notin Rotating(c)
        BY <1>1, <2>2, <2>3, <2>4 DEF Rotating
      <4>2. Cardinality(Rotating(c))' = Cardinality(Rotating(c)) + 1
        BY <4>1, RotatingFinite, FS_AddElement
      <4>3. Creating(c) => Creating(c)'
        BY <1>6, <2>2, <2>4 DEF Creating, Creates
      <4>4. recorded'[c] = recorded[c] + 1 /\ recorded[c] \in Nat /\ client[c].secrets \in Nat
        BY <1>1, <1>6, <2>3 DEF TablesTyped, Client
      <4>5. Cardinality(Rotating(c)) \in Nat
        BY RotatingFinite
      <4>6. client[c].secrets + Cardinality(Rotating(c)) <= recorded[c] + (IF Creating(c) THEN 1 ELSE 0)
        BY <3>1, <3>3 DEF Counted
      <4> QED BY <1>3, <3>3, <4>2, <4>3, <4>4, <4>5, <4>6 DEF Counted
    <3> QED BY <3>2, <3>3
  <2>6. \A d \in Clients : client'[d].st = "free" => client[d].st = "free" /\ w.client # d
    BY <1>3, <2>2 DEF Counting
  <2> QED BY <1>3, <2>2, <2>5, <2>6, CountingMove, ZenonT(60)
<1> QED BY <1>4, <1>5, <1>6 DEF AuditFirst

\* A rotation is stored, or is lost.
LEMMA StoreSecretCounting ==
  ASSUME PartiesTyped, Counting, NEW j \in Jobs, StoreSecret(j)
  PROVE  Counting'
<1>1. job[j] \in Job /\ Order(job[j]) /\ TablesTyped /\ job[j].pc = "store"
  BY TypedAt DEF StoreSecret
<1>2. job[j].kind = "rotate" /\ job[j].client \in Clients
  BY <1>1, Steps
<1>3. PICK c \in Clients : c = job[j].client
  BY <1>2
<1>4. UNCHANGED <<recorded, orphans>>
  BY DEF StoreSecret, journal, excused, edits
<1>5. job' = [job EXCEPT ![j] = NoJob]
  BY EndTo DEF StoreSecret
<1>6. NoJob.pc = "idle" /\ NoJob.kind # "new" /\ NoJob.client = None
  BY PartiesAssumption DEF NoJob
<1>7. \A q \in Jobs : job'[q] = IF q = j THEN NoJob ELSE job[q]
  BY <1>5, TypedParts DEF JobsTyped
<1>8. /\ \A d \in Clients : client'[d].st = client[d].st
      /\ \A d \in Clients \ {c} : client'[d] = client[d]
      /\ client'[c].secrets \in {client[c].secrets, client[c].secrets + 1}
  <2>1. PICK n : n = IF client[c].st = "live" THEN client[c].secrets + 1 ELSE client[c].secrets
    OBVIOUS
  <2>2. client' = client \/ client' = [client EXCEPT ![c].secrets = n]
    BY <1>3, <2>1 DEF StoreSecret
  <2>3. n \in {client[c].secrets, client[c].secrets + 1}
    BY <2>1
  <2>4. client \in [Clients -> Client]
    BY <1>1 DEF TablesTyped
  <2> QED BY <2>2, <2>3, <2>4 DEF Client
<1>9. ASSUME NEW d \in Clients \ orphans' PROVE Counted(d)'
  <2>1. Counted(d)
    BY <1>4 DEF Counting
  <2>2. CASE d # c
    <3>1. ~Rotates(NoJob, d) /\ ~Rotates(job[j], d) /\ ~Creates(job[j], d)
      BY <1>3, <1>6, <2>2 DEF Rotates, Creates
    <3> QED BY <1>4, <1>5, <1>8, <2>1, <2>2, <3>1, CountedMove
  <2>3. CASE d = c
    <3>1. Rotating(c)' = Rotating(c) \ {j} /\ j \in Rotating(c)
      BY <1>1, <1>3, <1>6, <1>7 DEF Rotating
    <3>2. Cardinality(Rotating(c))' = Cardinality(Rotating(c)) - 1
      BY <3>1, RotatingFinite, FS_RemoveElement
    <3>3. Creating(c) => Creating(c)'
      BY <1>2, <1>7 DEF Creating, Creates
    <3>4. recorded[c] \in Nat /\ client[c].secrets \in Nat
      BY <1>1 DEF TablesTyped, Client
    <3>5. Cardinality(Rotating(c)) \in Nat
      BY RotatingFinite
    <3>6. client[c].secrets + Cardinality(Rotating(c)) <= recorded[c] + (IF Creating(c) THEN 1 ELSE 0)
      BY <2>1, <2>3 DEF Counted
    <3> QED BY <1>4, <1>8, <2>3, <3>2, <3>3, <3>4, <3>5, <3>6 DEF Counted
  <2> QED BY <2>2, <2>3
<1>10. \A d \in Clients : client'[d].st = "free" => client[d].st = "free" /\ NoJob.client # d
  BY <1>6, <1>8, PartiesAssumption
<1> QED BY <1>4, <1>5, <1>6, <1>9, <1>10, CountingMove

\* The settings are written: no secret changes, and a creator stays one.
LEMMA UpdateCounting ==
  ASSUME PartiesTyped, Counting, NEW j \in Jobs, UpdateClient(j) \/ UpdatePart(j)
  PROVE  Counting'
<1>1. job[j] \in Job /\ Order(job[j]) /\ TablesTyped
  BY TypedAt
<1>2. /\ job[j].pc \in {"update", "portal", "device", "visibility"}
      /\ UNCHANGED <<recorded, orphans>>
  BY DEF UpdateClient, UpdatePart, journal, excused, edits
<1>3. job[j].kind \in {"new", "edit"} /\ job[j].client \in Clients
  BY <1>1, <1>2, Steps
<1>4. \A c \in Clients : client'[c].secrets = client[c].secrets /\ client'[c].st = client[c].st
  <2>1. client[job[j].client] \in Client /\ client \in [Clients -> Client]
    BY <1>1, <1>3 DEF TablesTyped
  <2>2. CASE UNCHANGED client
    BY <2>2
  <2>3. ASSUME NEW w, w.secrets = client[job[j].client].secrets, w.st = client[job[j].client].st,
               client' = [client EXCEPT ![job[j].client] = w]
        PROVE  \A c \in Clients : client'[c].secrets = client[c].secrets /\ client'[c].st = client[c].st
    BY <2>1, <2>3
  <2>4. ASSUME NEW f, client' = [client EXCEPT ![job[j].client].public = f.public,
                                   ![job[j].client].uri = f.uri, ![job[j].client].from["core"] = j]
        PROVE  \A c \in Clients : client'[c].secrets = client[c].secrets /\ client'[c].st = client[c].st
    <3>1. PICK w : w = [client[job[j].client] EXCEPT !.public = f.public, !.uri = f.uri, !.from["core"] = j]
      OBVIOUS
    <3>2. w.secrets = client[job[j].client].secrets /\ w.st = client[job[j].client].st
      BY <2>1, <3>1 DEF Client
    <3>3. client' = [client EXCEPT ![job[j].client] = w]
      BY <2>1, <2>4, <3>1
    <3> QED BY <2>3, <3>2, <3>3
  <2>5. ASSUME NEW p, client' = [client EXCEPT ![job[j].client].from[p] = j]
        PROVE  \A c \in Clients : client'[c].secrets = client[c].secrets /\ client'[c].st = client[c].st
    <3>1. PICK w : w = [client[job[j].client] EXCEPT !.from[p] = j]
      OBVIOUS
    <3>2. w.secrets = client[job[j].client].secrets /\ w.st = client[job[j].client].st
      BY <2>1, <3>1 DEF Client
    <3>3. client' = [client EXCEPT ![job[j].client] = w]
      BY <2>1, <2>5, <3>1
    <3> QED BY <2>3, <3>2, <3>3
  <2>6. CASE UpdateClient(j)
    BY <2>2, <2>4, <2>6 DEF UpdateClient
  <2>7. CASE UpdatePart(j)
    BY <2>2, <2>5, <2>7 DEF UpdatePart
  <2> QED BY <2>6, <2>7
<1>5. (job[j].kind = "edit" /\ End(j)) \/ \E pc \in {"portal", "device", "visibility", "audit"} : Go(j, pc)
  <2>1. CASE UpdateClient(j)
    BY <1>1, <2>1, Steps DEF UpdateClient
  <2>2. CASE UpdatePart(j)
    <3>1. NextPart(j, job[j].pc) \in {"device", "visibility", "audit"}
      BY <1>1, <2>2, NextPartOrder DEF UpdatePart
    <3> QED BY <1>3, <2>2, <3>1 DEF UpdatePart
  <2> QED BY <2>1, <2>2
<1>6. CASE job[j].kind = "edit" /\ End(j)
  <2>1. job' = [job EXCEPT ![j] = NoJob]
    BY <1>6, EndTo
  <2>2. NoJob.pc = "idle" /\ NoJob.kind # "new" /\ NoJob.client = None
    BY PartiesAssumption DEF NoJob
  <2> QED BY <1>2, <1>4, <1>6, <2>1, <2>2, CountingQuiet
<1>7. CASE \E pc \in {"portal", "device", "visibility", "audit"} : Go(j, pc)
  <2>1. PICK w : /\ job' = [job EXCEPT ![j] = w]
                 /\ w.pc \in {"portal", "device", "visibility", "audit"} /\ w.kind = job[j].kind
                 /\ w.client = job[j].client /\ w.form = job[j].form
    BY <1>7, GoTo
  <2> QED BY <1>2, <1>4, <2>1, CountingQuiet
<1> QED BY <1>5, <1>6, <1>7

\* The journal catches up with a creation, or never will.
LEMMA AuditLastCounting ==
  ASSUME PartiesTyped, Counting, NEW j \in Jobs, AuditLast(j)
  PROVE  Counting'
<1>1. job[j] \in Job /\ Order(job[j]) /\ TablesTyped /\ job[j].pc = "audit"
  BY TypedAt DEF AuditLast
<1>2. job[j].kind \in {"new", "edit"} /\ job[j].client \in Clients /\ job[j].form \in Forms
  BY <1>1, Steps
<1>3. PICK c \in Clients : c = job[j].client
  BY <1>2
<1>4. UNCHANGED client /\ orphans \subseteq orphans'
  BY DEF AuditLast, table
<1>5. NoJob.pc = "idle" /\ NoJob.kind # "new" /\ NoJob.client = None
  BY PartiesAssumption DEF NoJob
<1>6. CASE End(j) /\ job[j].kind = "edit" /\ UNCHANGED <<recorded, orphans>>
  <2>1. job' = [job EXCEPT ![j] = NoJob]
    BY <1>6, EndTo
  <2> QED BY <1>1, <1>4, <1>5, <1>6, <2>1, CountingQuiet
<1>7. CASE /\ End(j) /\ job[j].kind = "new" /\ UNCHANGED orphans
           /\ recorded' = IF ~job[j].form.public THEN [recorded EXCEPT ![c] = @ + 1] ELSE recorded
  <2>1. job' = [job EXCEPT ![j] = NoJob]
    BY <1>7, EndTo
  <2>2. \A q \in Jobs : job'[q] = IF q = j THEN NoJob ELSE job[q]
    BY <2>1, TypedParts DEF JobsTyped
  <2>3. ASSUME NEW d \in Clients \ orphans' PROVE Counted(d)'
    <3>1. Counted(d)
      BY <1>7 DEF Counting
    <3>2. CASE d # c
      <4>1. recorded'[d] = recorded[d] /\ ~Rotates(NoJob, d) /\ ~Rotates(job[j], d)
            /\ ~Creates(job[j], d)
        BY <1>1, <1>3, <1>5, <1>7, <3>2 DEF TablesTyped, Rotates, Creates
      <4> QED BY <1>4, <2>1, <3>1, <4>1, CountedMove
    <3>3. CASE d = c
      <4>1. Rotating(c)' = Rotating(c)
        BY <1>1, <1>5, <2>2 DEF Rotating
      <4>2. Cardinality(Rotating(c))' = Cardinality(Rotating(c)) /\ Cardinality(Rotating(c)) \in Nat
        BY <4>1, RotatingFinite
      <4>3. Creating(c) => ~job[j].form.public
        <5>1. \A q \in Jobs : Creates(job[q], c) => q = j
          BY <1>3, <1>7 DEF Counting, Creates
        <5> QED BY <5>1 DEF Creating
      <4>4. recorded[c] \in Nat /\ client[c].secrets \in Nat
        BY <1>1 DEF TablesTyped, Client
      <4>5. recorded'[c] = IF ~job[j].form.public THEN recorded[c] + 1 ELSE recorded[c]
        BY <1>1, <1>7 DEF TablesTyped
      <4>6. client[c].secrets + Cardinality(Rotating(c)) <= recorded[c] + (IF Creating(c) THEN 1 ELSE 0)
        BY <3>1, <3>3 DEF Counted
      <4>7. client[c].secrets + Cardinality(Rotating(c)) <= recorded'[c]
        BY <4>2, <4>3, <4>4, <4>5, <4>6
      <4>8. recorded'[c] \in Nat
        BY <4>4, <4>5
      <4> QED BY <1>4, <3>3, <4>2, <4>4, <4>7, <4>8 DEF Counted
    <3> QED BY <3>2, <3>3
  <2>4. \A d \in Clients : client'[d].st = "free" => client[d].st = "free" /\ NoJob.client # d
    BY <1>4, <1>5, PartiesAssumption
  <2> QED BY <1>4, <1>5, <2>1, <2>3, <2>4, CountingMove
<1>8. CASE /\ Go(j, "undo") /\ job[j].kind = "new" /\ UNCHANGED recorded
           /\ orphans' = orphans \cup {c}
  <2>1. PICK w : /\ job' = [job EXCEPT ![j] = w] /\ w.pc = "undo" /\ w.kind = "new"
                 /\ w.client = c /\ w.form = job[j].form
    BY <1>3, <1>8, GoTo
  <2>2. ASSUME NEW d \in Clients \ orphans' PROVE Counted(d)'
    <3>1. Counted(d) /\ d # c
      BY <1>8 DEF Counting
    <3>2. ~Rotates(w, d) /\ ~Rotates(job[j], d) /\ ~Creates(job[j], d)
      BY <1>1, <1>3, <2>1, <3>1 DEF Rotates, Creates
    <3> QED BY <1>4, <1>8, <2>1, <3>1, <3>2, CountedMove
  <2>3. \A d \in Clients : client'[d].st = "free" => client[d].st = "free" /\ w.client # d
    BY <1>3, <1>4, <2>1 DEF Counting
  <2>4. \A q \in Jobs \ {j} : ~Creates(job[q], w.client)
    BY <1>3, <1>8, <2>1 DEF Counting, Creates
  <2> QED BY <1>4, <1>8, <2>1, <2>2, <2>3, <2>4, CountingMove, ZenonT(60)
<1> QED BY <1>2, <1>3, <1>6, <1>7, <1>8 DEF AuditLast, journal, excused, edits

\* A client goes: its secrets stay in the row.
LEMMA RemoveCounting ==
  ASSUME PartiesTyped, Counting, NEW j \in Jobs, Undo(j) \/ DropClient(j)
  PROVE  Counting'
<1>1. job[j] \in Job /\ Order(job[j]) /\ TablesTyped /\ job[j].pc \in {"undo", "drop"}
  BY TypedAt DEF Undo, DropClient
<1>2. /\ job[j].pc = "undo" => job[j].kind = "new"
      /\ job[j].pc = "drop" => job[j].kind = "drop"
      /\ job[j].client \in Clients
  BY <1>1, Steps
<1>3. UNCHANGED <<recorded, orphans>> /\ End(j)
  BY DEF Undo, DropClient, journal, excused, edits
<1>4. \A c \in Clients : /\ client'[c].secrets = client[c].secrets
                         /\ client'[c].st = "free" => client[c].st = "free"
  <2>1. client \in [Clients -> Client]
    BY <1>1 DEF TablesTyped
  <2> QED BY <1>2, <2>1, SMTT(40) DEF Undo, DropClient, Remove, Client, table
<1>5. job' = [job EXCEPT ![j] = NoJob]
  BY <1>3, EndTo
<1>6. NoJob.pc = "idle" /\ NoJob.kind # "new" /\ NoJob.client = None
  BY PartiesAssumption DEF NoJob
<1>7. ASSUME NEW d \in Clients \ orphans' PROVE Counted(d)'
  <2>1. Counted(d) /\ (job[j].pc = "undo" => job[j].client # d)
    BY <1>3 DEF Counting
  <2>2. ~Rotates(NoJob, d) /\ ~Rotates(job[j], d) /\ ~Creates(job[j], d)
    BY <1>1, <1>2, <1>6, <2>1 DEF Rotates, Creates
  <2> QED BY <1>3, <1>4, <1>5, <2>1, <2>2, CountedMove
<1>8. \A d \in Clients : client'[d].st = "free" => client[d].st = "free" /\ NoJob.client # d
  BY <1>4, <1>6, PartiesAssumption
<1> QED BY <1>3, <1>5, <1>6, <1>7, <1>8, CountingMove

\* The process dies: creations under way are orphans, rotations are lost.
LEMMA CrashCounting ==
  ASSUME PartiesTyped, Counting, Crash
  PROVE  Counting'
<1>1. UNCHANGED <<client, recorded>> /\ TablesTyped /\ \A q \in Jobs : job'[q] = NoJob
  BY TypedParts DEF Crash, table, journal, excused, edits
<1>2. NoJob.pc = "idle" /\ NoJob.kind # "new" /\ NoJob.client = None
  BY PartiesAssumption DEF NoJob
<1>3. ASSUME NEW d \in Clients \ orphans' PROVE Counted(d)'
  <2>1. Counted(d)
    BY DEF Crash, Counting
  <2>2. ~Creating(d)
    <3>1. ASSUME NEW q \in Jobs, Creates(job[q], d) PROVE FALSE
      <4>1. q \in Busy
        BY <3>1, TypedAt DEF Busy, Creates, Order
      <4> QED BY <3>1, <4>1 DEF Creates, Crash
    <3> QED BY <3>1 DEF Creating
  <2>3. Rotating(d)' = {}
    BY <1>1, <1>2 DEF Rotating
  <2>4. Cardinality(Rotating(d))' = 0 /\ Cardinality(Rotating(d)) \in Nat
    BY <2>3, FS_EmptySet, RotatingFinite
  <2>5. client[d].secrets \in Nat /\ recorded[d] \in Nat
    BY <1>1 DEF TablesTyped, Client
  <2>6. client[d].secrets + Cardinality(Rotating(d)) <= recorded[d]
    BY <2>1, <2>2, <2>5 DEF Counted
  <2> QED BY <1>1, <2>4, <2>5, <2>6 DEF Counted
<1>4. \A c \in Clients, i \in Jobs : job'[i].client # c
  BY <1>1, <1>2, PartiesAssumption
<1> QED BY <1>1, <1>2, <1>3, <1>4 DEF Counting, Creates

\* A login and a goroutine leave the work of every handler as it is.
LEMMA SameWork ==
  ASSUME PartiesTyped,
         \/ \E u \in Users, c \in Clients \cup {Portal} : Login(u, c)
         \/ \E u \in Users, c \in Clients : Revoke(u, c)
         \/ Pushing \/ UNCHANGED vars
  PROVE  /\ UNCHANGED <<client, recorded, accounted, beside, unset, orphans>>
         /\ \A q \in Jobs : /\ job'[q].pc = job[q].pc /\ job'[q].kind = job[q].kind
                            /\ job'[q].client = job[q].client /\ job'[q].form = job[q].form
<1>1. UNCHANGED <<client, recorded, accounted, beside, unset, orphans>>
  BY DEF Login, Revoke, Pushing, Accepts, Fails, TimesOut, Outcome, vars, table, journal, excused, edits
<1>2. CASE UNCHANGED job
  BY <1>1, <1>2
<1>3. ASSUME NEW u \in Users, NEW c \in Clients \cup {Portal}, Login(u, c), NEW q \in Jobs
      PROVE  /\ job'[q].pc = job[q].pc /\ job'[q].kind = job[q].kind
             /\ job'[q].client = job[q].client /\ job'[q].form = job[q].form
  <2>1. job[q] \in Job
    BY TypedAt
  <2>2. PICK w : w = [job[q] EXCEPT !.fresh = @ \cup ({c} \ {Portal})]
    OBVIOUS
  <2>3. w.pc = job[q].pc /\ w.kind = job[q].kind /\ w.client = job[q].client /\ w.form = job[q].form
    BY <2>1, <2>2 DEF Job
  <2>4. job'[q] \in {job[q], w}
    BY <1>3, <2>2 DEF Login
  <2> QED BY <2>3, <2>4
<1> QED BY <1>1, <1>2, <1>3 DEF Revoke, Pushing, Accepts, Fails, TimesOut, Outcome, vars

LEMMA CountingNext ==
  ASSUME PartiesTyped, Counting, [Next]_vars PROVE Counting'
<1>1. ASSUME NEW j \in Jobs, Begin(j) PROVE Counting'
  BY <1>1, BeginCounting, CreateCounting DEF Begin, PortalCreate, AdminCreate
<1>2. ASSUME NEW j \in Jobs, SigningOut(j) PROVE Counting'
  BY <1>2, SignOutCounting, AuditFirstCounting
<1>3. ASSUME NEW j \in Jobs, Administering(j) PROVE Counting'
  BY <1>3, UpdateCounting, AuditLastCounting, RemoveCounting, StoreSecretCounting DEF Administering
<1>4. CASE \/ \E u \in Users, c \in Clients \cup {Portal} : Login(u, c)
           \/ \E u \in Users, c \in Clients : Revoke(u, c)
           \/ Pushing \/ UNCHANGED vars
  BY <1>4, SameWork, CountingFrame
<1> QED BY <1>1, <1>2, <1>3, <1>4, CrashCounting DEF Next

-----------------------------------------------------------------------------
(* What was journalled holds.                                              *)

LEMMA EditingIs ==
  ASSUME NEW c
  PROVE  /\ \A q \in Jobs : q \in Editing(c) <=> Edits(job[q], c)
         /\ Editing(c) \subseteq Jobs
  BY DEF Editing, Edits, Busy

\* The columns of a client are numbers, and so are the journalled forms.
LEMMA EditTypes ==
  ASSUME PartiesTyped, NEW c \in Clients
  PROVE  /\ accounted[c] \subseteq Nat /\ \A p \in Parts : client[c].from[p] \in Nat
         /\ Jobs \subseteq Nat /\ \A j \in Jobs : Written(job[j]) \subseteq Parts
<1>1. TablesTyped
  BY TypedParts
<1>2. Jobs \subseteq Nat
  BY PartiesAssumption DEF Jobs
<1>3. \A j \in Jobs : Written(job[j]) \subseteq Parts
  BY DEF Written, Parts
<1> QED BY <1>1, <1>2, <1>3 DEF TablesTyped, Client

\* Nothing that has overlapped an edit, or failed in a creation, is forgotten.
Kept == (\A n \in Jobs : beside[n] \subseteq beside'[n]) /\ unset \subseteq unset'

\* A step in which nobody begins to edit c, and at most the editor j writes to it.
Moved(c, j) ==
  /\ \A i \in Jobs : Edits(job'[i], c) =>
       /\ Edits(job[i], c) /\ job'[i].kind = job[i].kind
       /\ i # j => Written(job'[i]) = Written(job[i])
  /\ client'[c].st = "live" => client[c].st = "live"
  /\ \A p \in Parts :
       \/ client'[c].from[p] = client[c].from[p]
       \/ client'[c].from[p] = j /\ j \in Jobs /\ Edits(job[j], c)
  /\ \A n \in accounted'[c] :
       \/ n \in accounted[c]
       \/ n = j /\ j \in Jobs /\ Edits(job[j], c) /\ Written(job[j]) = Parts
  /\ client'[c].st = "live" /\ j \in Jobs /\ Edits(job'[j], c) =>
       \A p \in Written(job'[j]) :
         \/ p \in Written(job[j]) \/ client'[c].from[p] = j
         \/ <<c, p>> \in unset' /\ job[j].kind = "new"

LEMMA SettledStep ==
  ASSUME PartiesTyped, NEW c \in Clients, NEW j \in Nat, Settled(c), Kept, Moved(c, j)
  PROVE  Settled(c)'
<1>1. /\ accounted[c] \subseteq Nat /\ \A p \in Parts : client[c].from[p] \in Nat
      /\ Jobs \subseteq Nat /\ \A i \in Jobs : Written(job[i]) \subseteq Parts
  BY EditTypes
<1>2. \A m, n : Newer(m, n) => Newer(m, n)'
  BY DEF Newer, Kept
<1>3. ASSUME NEW n \in Nat, NEW p \in Parts, Holds(c, p, n),
             j \in Jobs /\ Edits(job[j], c) => Newer(j, n)
      PROVE  Holds(c, p, n)'
  <2>1. CASE client'[c].from[p] = client[c].from[p]
    <3>1. PICK m : m = client[c].from[p]
      OBVIOUS
    <3>2. Newer(m, n)' \/ (m = 0 /\ <<c, p>> \in unset')
      BY <1>2, <1>3, <3>1 DEF Holds, Kept
    <3> QED BY <2>1, <3>1, <3>2 DEF Holds, Newer
  <2>2. CASE client'[c].from[p] = j /\ j \in Jobs /\ Edits(job[j], c)
    <3>1. Newer(j, n)'
      BY <1>2, <1>3, <2>2
    <3> QED BY <2>2, <3>1 DEF Holds, Newer
  <2> QED BY <2>1, <2>2 DEF Moved
<1>4. \A n \in accounted'[c] : n \in accounted[c] \/ (n = j /\ j \in Jobs /\ Edits(job[j], c))
  BY DEF Moved
<1>5. \A i \in Jobs : Edits(job'[i], c) => Edits(job[i], c) /\ job'[i].kind = job[i].kind
  BY DEF Moved
<1>6. ASSUME NEW i \in Jobs, Edits(job[i], c)
      PROVE  /\ \A n \in accounted'[c] : Newer(i, n)
             /\ \A q \in Jobs : Edits(job[q], c) =>
                  Newer(i, q) /\ (job[q].kind = "new" => q <= i)
  BY <1>4, <1>6 DEF Settled, Overlap
<1>7. Overlap(c)'
  <2>1. ASSUME NEW i \in Jobs, Edits(job'[i], c)
        PROVE  /\ \A n \in accounted'[c] : Newer(i, n)'
               /\ \A q \in Jobs : Edits(job'[q], c) =>
                    Newer(i, q)' /\ (job'[q].kind = "new" => q <= i)
    BY <1>2, <1>5, <1>6, <2>1
  <2> QED BY <2>1 DEF Overlap, Edits
<1>8. ASSUME client'[c].st = "live" PROVE Set(c)'
  <2>1. client[c].st = "live" /\ Set(c)
    BY <1>8 DEF Moved, Settled
  <2>2. ASSUME NEW n \in accounted'[c], NEW p \in Parts PROVE Holds(c, p, n)'
    <3>1. n \in Nat /\ Holds(c, p, n)
      <4>1. CASE n \in accounted[c]
        BY <1>1, <2>1, <4>1 DEF Set
      <4>2. CASE n = j /\ j \in Jobs /\ Edits(job[j], c) /\ Written(job[j]) = Parts
        BY <2>1, <4>2 DEF Set
      <4> QED BY <4>1, <4>2 DEF Moved
    <3>2. j \in Jobs /\ Edits(job[j], c) => Newer(j, n)
      BY <1>6, <2>2
    <3> QED BY <1>3, <3>1, <3>2
  <2>3. ASSUME NEW i \in Jobs, Edits(job'[i], c), NEW p \in Written(job'[i])
        PROVE  Holds(c, p, i)'
    <3>0. Edits(job[i], c) /\ i \in Nat /\ p \in Parts
      BY <1>1, <1>5, <2>3 DEF Written, Parts
    <3>1. j \in Jobs /\ Edits(job[j], c) => Newer(j, i)
      BY <1>6, <3>0
    <3>2. CASE p \in Written(job[i])
      <4>1. Holds(c, p, i)
        BY <2>1, <3>0, <3>2 DEF Set
      <4> QED BY <1>3, <3>0, <3>1, <4>1
    <3>3. CASE i = j /\ client'[c].from[p] = j
      <4>1. Newer(j, i)'
        BY <3>3 DEF Newer
      <4> QED BY <3>3, <4>1 DEF Holds, Newer
    <3>4. CASE i = j /\ <<c, p>> \in unset' /\ job[j].kind = "new"
      <4>1. PICK m : m = client'[c].from[p]
        OBVIOUS
      <4>2. client[c].from[p] = 0 \/ client[c].from[p] >= i
        BY <2>1, <3>0, <3>4 DEF Set
      <4>3. m = 0 \/ m >= i
        BY <3>0, <3>4, <4>1, <4>2 DEF Moved
      <4> QED BY <3>4, <4>1, <4>3 DEF Holds, Newer
    <3>5. i # j => p \in Written(job[i])
      BY <2>3 DEF Moved
    <3>6. i = j => \/ p \in Written(job[j]) \/ client'[c].from[p] = j
                   \/ <<c, p>> \in unset' /\ job[j].kind = "new"
      BY <1>8, <2>3 DEF Moved
    <3> QED BY <3>2, <3>3, <3>4, <3>5, <3>6
  <2>4. ASSUME NEW i \in Jobs, Edits(job'[i], c), job'[i].kind = "new", NEW p \in Parts
        PROVE  client'[c].from[p] = 0 \/ client'[c].from[p] >= i
    <3>1. Edits(job[i], c) /\ job[i].kind = "new"
      BY <1>5, <2>4
    <3>2. client[c].from[p] = 0 \/ client[c].from[p] >= i
      BY <2>1, <3>1 DEF Set
    <3>3. j \in Jobs /\ Edits(job[j], c) => j >= i
      BY <1>1, <1>6, <3>1
    <3> QED BY <3>2, <3>3 DEF Moved
  <2> QED BY <2>2, <2>3, <2>4 DEF Set, Edits, Written
<1> QED BY <1>7, <1>8 DEF Settled

\* What has to be seen of a step that is no beginning of an edit.
LEMMA EditorsStep ==
  ASSUME PartiesTyped, Editors, NEW j \in Nat, beside' = beside, unset \subseteq unset',
         starts' >= starts, starts' \in Nat,
         j \in Jobs /\ job[j].pc # "idle" => j <= starts,
         \A c \in Clients : /\ Moved(c, j)
                            /\ client'[c].st = "free" => accounted'[c] = accounted[c]
                            /\ client'[c].st = "free" => client[c].st = "free"
  PROVE  Editors'
<1>1. ASSUME NEW c \in Clients PROVE Settled(c)'
  BY <1>1, SettledStep DEF Editors, Kept
<1>2. ASSUME NEW c \in Clients, NEW n \in accounted'[c] PROVE n <= starts'
  <2>1. accounted[c] \subseteq Nat /\ starts \in Nat
    BY EditTypes, TypedParts
  <2>2. n \in accounted[c] => n <= starts
    BY DEF Editors
  <2>3. n \in accounted[c] \/ (n = j /\ j \in Jobs /\ job[j].pc # "idle")
    BY DEF Moved, Edits
  <2> QED BY <2>1, <2>2, <2>3
<1>3. ASSUME NEW c \in Clients, client'[c].st = "free" PROVE accounted'[c] = {}
  BY <1>3 DEF Editors
<1>4. ASSUME NEW q \in Jobs, q > starts' PROVE beside'[q] = {}
  <2>1. q > starts
    BY <1>4, EditTypes, TypedParts, PartiesAssumption DEF Jobs
  <2> QED BY <2>1 DEF Editors
<1> QED BY <1>1, <1>2, <1>3, <1>4 DEF Editors

\* The handlers that edit nothing.
LEMMA EditorsQuiet ==
  ASSUME PartiesTyped, Editors, UNCHANGED <<accounted, beside, unset>>, NEW j \in Jobs, NEW w,
         job' = [job EXCEPT ![j] = w], w.kind \notin {"new", "edit"},
         starts' >= starts, starts' \in Nat,
         \A c \in Clients : /\ client'[c].from = client[c].from
                            /\ client'[c].st = client[c].st \/ client'[c].st = "gone"
  PROVE  Editors'
<1>1. \A q \in Jobs : job'[q] = IF q = j THEN w ELSE job[q]
  BY TypedParts DEF JobsTyped
<1>2. j \in Nat /\ (job[j].pc # "idle" => j <= starts)
  BY Begun, PartiesAssumption DEF Jobs
<1>3. ASSUME NEW c \in Clients PROVE Moved(c, j)
  <2>1. \A i \in Jobs : Edits(job'[i], c) => i # j /\ job'[i] = job[i]
    BY <1>1 DEF Edits
  <2> QED BY <2>1 DEF Moved
<1> QED BY <1>2, <1>3, EditorsStep

\* Handlers stay begun.
LEMMA StartsGrow ==
  ASSUME PartiesTyped, NEW j \in Jobs,
         (\E w : Start(j, w)) \/ Sound \/ Fault
  PROVE  starts' >= starts /\ starts' \in Nat
  BY TypedParts, PartiesAssumption DEF Start, Sound, Fault, Jobs

LEMMA QuietEditors ==
  ASSUME PartiesTyped, Editors, NEW j \in Jobs,
         \/ \E u \in Users, k \in SignOuts : SignOutBegin(j, u, k)
         \/ \E c \in Clients : RotateBegin(j, c) \/ DropBegin(j, c)
         \/ SigningOut(j) \/ StoreSecret(j) \/ DropClient(j) \/ Undo(j)
  PROVE  Editors'
<1>1. job[j] \in Job /\ Order(job[j]) /\ TablesTyped
  BY TypedAt
<1>2. NoJob.kind \notin {"new", "edit"}
  BY PartiesAssumption DEF NoJob
<1>3. starts' >= starts /\ starts' \in Nat
  <2>1. (\E w : Start(j, w)) \/ Sound \/ Fault
    BY DEF SignOutBegin, RotateBegin, DropBegin, SigningOut, AuditFirst, ResetPassword, List,
           GetUser, Broadcast, BroadcastDone, Wipe, LogLogout, EraseUser, StoreSecret,
           DropClient, Undo
  <2> QED BY <2>1, StartsGrow
<1>4. CASE \E u \in Users, k \in SignOuts : SignOutBegin(j, u, k)
  <2>1. PICK w : job' = [job EXCEPT ![j] = w] /\ w.kind \in SignOuts
    BY <1>4, SignOutTo
  <2>2. UNCHANGED <<client, accounted, beside, unset>>
    BY <1>4 DEF SignOutBegin, table, journal, edits
  <2> QED BY <1>3, <2>1, <2>2, EditorsQuiet DEF SignOuts
<1>5. CASE \E c \in Clients : RotateBegin(j, c) \/ DropBegin(j, c)
  <2>1. PICK c \in Clients, k \in {"rotate", "drop"} :
          Start(j, [NoJob EXCEPT !.kind = k, !.client = c, !.pc = "first"])
    BY <1>5 DEF RotateBegin, DropBegin
  <2>2. PICK w : w = [NoJob EXCEPT !.kind = k, !.client = c, !.pc = "first"]
    OBVIOUS
  <2>3. job' = [job EXCEPT ![j] = w] /\ w.kind = k
    BY <2>1, <2>2 DEF Start, NoJob
  <2>4. UNCHANGED <<client, accounted, beside, unset>>
    BY <1>5 DEF RotateBegin, DropBegin, table, journal, edits
  <2> QED BY <1>3, <2>3, <2>4, EditorsQuiet
<1>6. CASE SigningOut(j) /\ ~AuditFirst(j)
  <2>1. PICK w : job' = [job EXCEPT ![j] = w] /\ w.kind \notin {"new", "edit"}
    BY <1>6, SignOutMoves, PartiesAssumption DEF SignOuts
  <2>2. UNCHANGED <<client, accounted, beside, unset>>
    BY <1>6, SignOutMoves
  <2> QED BY <1>3, <2>1, <2>2, EditorsQuiet
<1>7. CASE AuditFirst(j)
  <2>1. job[j].kind \in {"reset", "delete", "rotate", "drop"}
    BY <1>1, <1>7, Steps DEF AuditFirst
  <2>2. PICK w : job' = [job EXCEPT ![j] = w] /\ (w.kind = job[j].kind \/ w = NoJob)
    BY <1>7, GoTo, EndTo DEF AuditFirst
  <2>3. UNCHANGED <<client, accounted, beside, unset>>
    BY <1>7 DEF AuditFirst, table, edits
  <2> QED BY <1>2, <1>3, <2>1, <2>2, <2>3, EditorsQuiet
<1>8. CASE StoreSecret(j) \/ DropClient(j) \/ Undo(j)
  <2>1. job[j].client \in Clients
    BY <1>1, <1>8, Steps DEF StoreSecret, DropClient, Undo
  <2>2. job' = [job EXCEPT ![j] = NoJob]
    BY <1>8, EndTo DEF StoreSecret, DropClient, Undo
  <2>3. UNCHANGED <<accounted, beside, unset>>
    BY <1>8 DEF StoreSecret, DropClient, Undo, journal, edits
  <2>4. \A c \in Clients : /\ client'[c].from = client[c].from
                           /\ client'[c].st = client[c].st \/ client'[c].st = "gone"
    <3>1. client \in [Clients -> Client]
      BY <1>1 DEF TablesTyped
    <3>2. PICK c \in Clients : c = job[j].client
      BY <2>1
    <3>3. CASE UNCHANGED client
      BY <3>3
    <3>4. CASE client' = [client EXCEPT ![c].st = "gone"]
      BY <3>1, <3>4 DEF Client
    <3>5. ASSUME NEW n, client' = [client EXCEPT ![c].secrets = n]
          PROVE  \A d \in Clients : client'[d].from = client[d].from /\ client'[d].st = client[d].st
      BY <3>1, <3>5 DEF Client
    <3>6. PICK n : n = IF client[c].st = "live" THEN client[c].secrets + 1 ELSE client[c].secrets
      OBVIOUS
    <3>7. StoreSecret(j) => UNCHANGED client \/ client' = [client EXCEPT ![c].secrets = n]
      BY <3>2, <3>6 DEF StoreSecret
    <3>8. DropClient(j) \/ Undo(j) => UNCHANGED client \/ client' = [client EXCEPT ![c].st = "gone"]
      BY <3>2 DEF DropClient, Undo, Remove, table
    <3> QED BY <1>8, <3>3, <3>4, <3>5, <3>7, <3>8
  <2> QED BY <1>2, <1>3, <2>2, <2>3, <2>4, EditorsQuiet
<1> QED BY <1>4, <1>5, <1>6, <1>7, <1>8

\* A client that has an editor, and a handler that begins to edit another.
LEMMA OthersSettled ==
  ASSUME PartiesTyped, NEW j \in Jobs, j = starts + 1, NEW w, job' = [job EXCEPT ![j] = w],
         NEW d \in Clients, Settled(d), ~Edits(w, d), Kept,
         client'[d] = client[d], UNCHANGED accounted
  PROVE  Settled(d)'
<1>1. \A q \in Jobs : job'[q] = IF q = j THEN w ELSE job[q]
  BY TypedParts DEF JobsTyped
<1>2. Moved(d, j)
  <2>1. \A i \in Jobs : Edits(job'[i], d) => i # j /\ job'[i] = job[i]
    BY <1>1
  <2> QED BY <2>1 DEF Moved
<1>3. j \in Nat
  BY PartiesAssumption DEF Jobs
<1> QED BY <1>2, <1>3, SettledStep

\* A new client has its creator for an editor, and nobody else.
LEMMA CreateEditors ==
  ASSUME PartiesTyped, Counting, Editors, NEW j \in Jobs, NEW c \in Clients, NEW f \in Forms,
         PortalCreate(j, c, f) \/ AdminCreate(j, c, f)
  PROVE  Editors'
<1>1. PICK written, pc : /\ CreateClient(j, c, f, written, pc)
                         /\ \/ written = {"core"} /\ pc = "portal"
                            \/ written = Parts /\ pc = "audit"
  BY DEF PortalCreate, AdminCreate
<1>2. client[c].st = "free" /\ TablesTyped /\ UNCHANGED <<accounted, beside, unset>>
  BY <1>1, TypedParts DEF CreateClient, journal, edits
<1>3. PICK w : w = [NoJob EXCEPT !.kind = "new", !.client = c, !.form = f, !.pc = pc]
  OBVIOUS
<1>4. job' = [job EXCEPT ![j] = w] /\ j = starts + 1 /\ starts' = j
  BY <1>1, <1>3 DEF CreateClient, Start
<1>5. w.pc = pc /\ w.kind = "new" /\ w.client = c
  BY <1>3 DEF NoJob
<1>6. \A q \in Jobs : job'[q] = IF q = j THEN w ELSE job[q]
  BY <1>4, TypedParts DEF JobsTyped
<1>7. (\A q \in Jobs : job[q].client # c) /\ accounted[c] = {}
  BY <1>2 DEF Counting, Editors
<1>8. /\ \A p \in Parts : client'[c].from[p] = IF p \in written THEN j ELSE 0
      /\ client'[c].st = "live" /\ \A d \in Clients : d # c => client'[d] = client[d]
  BY <1>1, <1>2 DEF CreateClient, TablesTyped, Parts
<1>9. j \in Nat /\ starts \in Nat /\ Kept
  BY <1>2, TypedParts, PartiesAssumption DEF Jobs, Kept
<1>10. Settled(c)'
  <2>1. \A q \in Jobs : Edits(job'[q], c) <=> q = j
    BY <1>1, <1>5, <1>6, <1>7 DEF Edits
  <2>2. Newer(j, j)'
    BY <1>9 DEF Newer
  <2>3. Overlap(c)'
    <3>1. accounted'[c] = {}
      BY <1>2, <1>7
    <3>2. ASSUME NEW i \in Jobs, Edits(job'[i], c)
          PROVE  /\ \A n \in accounted'[c] : Newer(i, n)'
                 /\ \A q \in Jobs : Edits(job'[q], c) =>
                      Newer(i, q)' /\ (job'[q].kind = "new" => q <= i)
      BY <1>9, <2>1, <2>2, <3>1, <3>2
    <3> QED BY <3>2 DEF Overlap, Edits
  <2>4. Written(job'[j]) = written
    BY <1>1, <1>5, <1>6 DEF Written
  <2>5. \A p \in written : Holds(c, p, j)'
    <3>1. ASSUME NEW p \in written PROVE client'[c].from[p] = j
      BY <1>1, <1>8 DEF Parts
    <3> QED BY <2>2, <3>1 DEF Holds, Newer
  <2>6. \A p \in Parts : client'[c].from[p] = 0 \/ client'[c].from[p] >= j
    BY <1>8, <1>9
  <2>7. Set(c)'
    <3>1. accounted'[c] = {}
      BY <1>2, <1>7
    <3>2. ASSUME NEW i \in Jobs, Edits(job'[i], c)
          PROVE  /\ \A p \in Written(job'[i]) : Holds(c, p, i)'
                 /\ \A p \in Parts : client'[c].from[p] = 0 \/ client'[c].from[p] >= i
      BY <2>1, <2>4, <2>5, <2>6, <3>2
    <3> QED BY <3>1, <3>2 DEF Set, Edits, Written
  <2> QED BY <2>3, <2>7 DEF Settled
<1>11. ASSUME NEW d \in Clients, d # c PROVE Settled(d)'
  <2>1. Settled(d) /\ ~Edits(w, d) /\ client'[d] = client[d]
    BY <1>5, <1>8, <1>11 DEF Editors, Edits
  <2> QED BY <1>2, <1>4, <1>9, <2>1, OthersSettled
<1>12. ASSUME NEW d \in Clients
       PROVE  /\ \A n \in accounted'[d] : n <= starts'
              /\ client'[d].st = "free" => accounted'[d] = {}
  <2>1. accounted[d] \subseteq Nat /\ \A n \in accounted[d] : n <= starts
    BY EditTypes DEF Editors
  <2>2. client'[d].st = "free" => client[d].st = "free"
    BY <1>2, <1>8
  <2> QED BY <1>2, <1>4, <1>9, <2>1, <2>2 DEF Editors
<1>13. \A q \in Jobs : q > starts' => beside'[q] = {}
  BY <1>2, <1>4, <1>9, PartiesAssumption DEF Editors, Jobs
<1> QED BY <1>10, <1>11, <1>12, <1>13 DEF Editors

\* An edit begins, beside those that are at work.
LEMMA EditBeginEditors ==
  ASSUME PartiesTyped, Editors, NEW j \in Jobs, NEW c \in Clients, NEW f \in Forms,
         EditBegin(j, c, f)
  PROVE  Editors'
<1>1. UNCHANGED <<client, accounted, unset>>
  BY DEF EditBegin, table, journal
<1>2. PICK w : w = [NoJob EXCEPT !.kind = "edit", !.client = c, !.form = f, !.pc = "update"]
  OBVIOUS
<1>3. job' = [job EXCEPT ![j] = w] /\ j = starts + 1 /\ starts' = j
  BY <1>2 DEF EditBegin, Start
<1>4. w.pc = "update" /\ w.kind = "edit" /\ w.client = c
  BY <1>2 DEF NoJob
<1>5. \A q \in Jobs : job'[q] = IF q = j THEN w ELSE job[q]
  BY <1>3, TypedParts DEF JobsTyped
<1>6. j \in Nat /\ starts \in Nat /\ accounted[c] \subseteq Nat /\ Jobs \subseteq Nat
  BY TypedParts, EditTypes, PartiesAssumption DEF Jobs
<1>7. \A i \in Jobs : beside'[i] = IF i = j THEN Editing(c)
                      ELSE beside[i] \cup (IF i \in Editing(c) THEN {j} ELSE {})
  BY DEF EditBegin
<1>8. beside[j] = {}
  BY <1>3, <1>6 DEF Editors
<1>9. Kept
  BY <1>1, <1>7, <1>8 DEF Kept
<1>10. Settled(c)'
  <2>1. \A q \in Jobs : Edits(job[q], c) => q # j /\ q <= starts
    BY <1>3, Begun, Unbegun DEF Edits, NoJob
  <2>2. \A q \in Jobs : Edits(job'[q], c) <=> q = j \/ Edits(job[q], c)
    BY <1>4, <1>5 DEF Edits
  <2>3. \A m, n : Newer(m, n) => Newer(m, n)'
    BY <1>9 DEF Newer, Kept
  <2>4. \A q \in Jobs : Edits(job[q], c) => Newer(q, j)' /\ Newer(j, q)'
    <3>1. ASSUME NEW q \in Jobs, Edits(job[q], c) PROVE Newer(q, j)' /\ Newer(j, q)'
      <4>1. q \in beside'[j]
        BY <1>7, <3>1, EditingIs
      <4>2. j >= q
        BY <1>3, <1>6, <2>1, <3>1
      <4> QED BY <4>1, <4>2 DEF Newer
    <3> QED BY <3>1
  <2>5. Newer(j, j)' /\ \A n \in accounted[c] : Newer(j, n)'
    <3>1. \A n \in accounted[c] : j >= n
      BY <1>3, <1>6 DEF Editors
    <3> QED BY <1>6, <3>1 DEF Newer
  <2>6. Overlap(c)'
    <3>1. ASSUME NEW i \in Jobs, Edits(job'[i], c), NEW n \in accounted'[c] PROVE Newer(i, n)'
      <4>1. CASE i = j
        BY <1>1, <2>5, <3>1, <4>1
      <4>2. CASE Edits(job[i], c)
        BY <1>1, <2>3, <3>1, <4>2 DEF Editors, Settled, Overlap
      <4> QED BY <2>2, <3>1, <4>1, <4>2
    <3>2. ASSUME NEW i \in Jobs, Edits(job'[i], c), NEW q \in Jobs, Edits(job'[q], c)
          PROVE  Newer(i, q)' /\ (job'[q].kind = "new" => q <= i)
      <4>1. CASE i # j /\ q # j
        BY <1>5, <2>2, <2>3, <3>2, <4>1 DEF Editors, Settled, Overlap
      <4>2. CASE q = j
        BY <1>4, <1>5, <2>2, <2>4, <2>5, <3>2, <4>2
      <4>3. CASE i = j /\ q # j
        <5>1. q <= starts /\ Newer(j, q)'
          BY <2>1, <2>2, <2>4, <3>2, <4>3
        <5> QED BY <1>3, <1>6, <4>3, <5>1
      <4> QED BY <4>1, <4>2, <4>3
    <3> QED BY <3>1, <3>2 DEF Overlap, Edits
  <2>7. ASSUME client'[c].st = "live" PROVE Set(c)'
    <3>1. Set(c)
      BY <1>1, <2>7 DEF Editors, Settled
    <3>2. \A n : \A p \in Parts : Holds(c, p, n) => Holds(c, p, n)'
      BY <1>1, <2>3 DEF Holds, Newer
    <3>3. Written(job'[j]) = {} /\ job'[j].kind # "new"
      BY <1>4, <1>5 DEF Written
    <3>4. \A i \in Jobs : Written(job[i]) \subseteq Parts
      BY EditTypes
    <3>5. ASSUME NEW i \in Jobs, Edits(job'[i], c)
          PROVE  /\ \A p \in Written(job'[i]) : Holds(c, p, i)'
                 /\ job'[i].kind = "new" =>
                      \A p \in Parts : client'[c].from[p] = 0 \/ client'[c].from[p] >= i
      <4>1. CASE i = j
        BY <3>3, <4>1
      <4>2. CASE i # j /\ Edits(job[i], c)
        <5>1. job'[i] = job[i]
          BY <1>5, <4>2
        <5> QED BY <1>1, <3>1, <3>2, <3>4, <4>2, <5>1 DEF Set
      <4> QED BY <2>2, <3>5, <4>1, <4>2
    <3> QED BY <1>1, <3>1, <3>2, <3>5 DEF Set, Edits, Written
  <2> QED BY <2>6, <2>7 DEF Settled
<1>11. ASSUME NEW d \in Clients, d # c PROVE Settled(d)'
  <2>1. Settled(d) /\ ~Edits(w, d)
    BY <1>4, <1>11 DEF Editors, Edits
  <2> QED BY <1>1, <1>3, <1>9, <2>1, OthersSettled
<1>12. ASSUME NEW d \in Clients
       PROVE  /\ \A n \in accounted'[d] : n <= starts'
              /\ client'[d].st = "free" => accounted'[d] = {}
  <2>1. accounted[d] \subseteq Nat /\ \A n \in accounted[d] : n <= starts
    BY EditTypes DEF Editors
  <2> QED BY <1>1, <1>3, <1>6, <2>1 DEF Editors
<1>13. \A q \in Jobs : q > starts' => beside'[q] = {}
  <2>1. \A q \in Editing(c) : q <= starts
    BY Begun, EditingIs DEF Edits
  <2> QED BY <1>3, <1>6, <1>7, <2>1 DEF Editors
<1> QED BY <1>10, <1>11, <1>12, <1>13 DEF Editors

\* An editor of c moves on, or ends.
LEMMA EditorMoves ==
  ASSUME PartiesTyped, Editors, NEW j \in Jobs, NEW c \in Clients, NEW w,
         job' = [job EXCEPT ![j] = w], Edits(job[j], c),
         w.pc = "idle" \/ (w.kind = job[j].kind /\ w.client = job[j].client),
         beside' = beside, unset \subseteq unset', Sound \/ Fault,
         \A d \in Clients : /\ client'[d].st = client[d].st
                            /\ d # c => client'[d].from = client[d].from
                            /\ d # c => accounted'[d] = accounted[d],
         \A p \in Parts : client'[c].from[p] = client[c].from[p] \/ client'[c].from[p] = j,
         \/ accounted'[c] = accounted[c]
         \/ /\ client[c].st # "free" /\ accounted'[c] = accounted[c] \cup {j}
            /\ Written(job[j]) = Parts,
         client'[c].st = "live" /\ w.pc # "idle" =>
           \A p \in Written(w) :
             \/ p \in Written(job[j]) \/ client'[c].from[p] = j
             \/ <<c, p>> \in unset' /\ job[j].kind = "new"
  PROVE  Editors'
<1>1. \A q \in Jobs : job'[q] = IF q = j THEN w ELSE job[q]
  BY TypedParts DEF JobsTyped
<1>2. j \in Nat /\ j <= starts /\ starts' >= starts /\ starts' \in Nat
  BY Begun, StartsGrow, PartiesAssumption DEF Jobs, Edits
<1>3. ASSUME NEW d \in Clients PROVE Moved(d, j)
  <2>1. \A i \in Jobs : Edits(job'[i], d) =>
          /\ Edits(job[i], d) /\ job'[i].kind = job[i].kind
          /\ i # j => Written(job'[i]) = Written(job[i])
    BY <1>1 DEF Edits
  <2>2. CASE d = c
    BY <1>1, <2>1, <2>2 DEF Moved, Edits
  <2>3. CASE d # c
    <3>1. ~Edits(job[j], d)
      BY <2>3 DEF Edits
    <3>2. ~Edits(job'[j], d)
      BY <2>1, <3>1
    <3> QED BY <2>1, <2>3, <3>2 DEF Moved
  <2> QED BY <2>2, <2>3
<1>4. \A d \in Clients : client'[d].st = "free" => accounted'[d] = accounted[d]
  OBVIOUS
<1> QED BY <1>2, <1>3, <1>4, EditorsStep

LEMMA UpdateClientEditors ==
  ASSUME PartiesTyped, Editors, NEW j \in Jobs, UpdateClient(j)
  PROVE  Editors'
<1>1. job[j] \in Job /\ Order(job[j]) /\ TablesTyped /\ job[j].pc = "update"
  BY TypedAt DEF UpdateClient
<1>2. PICK c \in Clients : c = job[j].client /\ job[j].kind = "edit"
  BY <1>1, Steps
<1>3. /\ Edits(job[j], c) /\ UNCHANGED <<accounted, beside, unset>>
      /\ Sound \/ Fault
  BY <1>1, <1>2 DEF Edits, UpdateClient, journal, edits
<1>4. CASE /\ Go(j, "portal")
           /\ client' = IF client[c].st # "live" THEN client
                        ELSE [client EXCEPT ![c].public = job[j].form.public,
                                            ![c].uri = job[j].form.uri, ![c].from["core"] = j]
  <2>1. PICK w : /\ job' = [job EXCEPT ![j] = w] /\ w.pc = "portal" /\ w.kind = "edit"
                 /\ w.client = c
    BY <1>2, <1>4, GoTo
  <2>2. Written(w) = {"core"}
    BY <2>1 DEF Written
  <2>3. \A d \in Clients : client'[d].st = client[d].st /\ (d # c => client'[d] = client[d])
    BY <1>1, <1>4 DEF TablesTyped, Client
  <2>4. client[c].st = "live" => client'[c].from["core"] = j
    BY <1>1, <1>4 DEF TablesTyped, Client, Parts
  <2>5. \A p \in Parts : client'[c].from[p] = client[c].from[p] \/ client'[c].from[p] = j
    BY <1>1, <1>4 DEF TablesTyped, Client
  <2>6. \A d \in Clients : /\ client'[d].st = client[d].st
                           /\ d # c => client'[d].from = client[d].from
                           /\ d # c => accounted'[d] = accounted[d]
    BY <1>3, <2>3
  <2>7. client'[c].st = "live" => \A p \in Written(w) : client'[c].from[p] = j
    BY <2>2, <2>3, <2>4
  <2>8. /\ w.kind = job[j].kind /\ w.client = job[j].client
        /\ beside' = beside /\ unset \subseteq unset' /\ accounted'[c] = accounted[c]
    BY <1>2, <1>3, <2>1
  <2>9. client'[c].st = "live" /\ w.pc # "idle" =>
          \A p \in Written(w) :
            \/ p \in Written(job[j]) \/ client'[c].from[p] = j
            \/ <<c, p>> \in unset' /\ job[j].kind = "new"
    BY <2>7
  <2>10. job' = [job EXCEPT ![j] = w] /\ Edits(job[j], c) /\ (Sound \/ Fault)
    BY <1>3, <2>1
  <2> QED BY <2>5, <2>6, <2>8, <2>9, <2>10, EditorMoves
<1>5. CASE End(j) /\ UNCHANGED client
  <2>1. job' = [job EXCEPT ![j] = NoJob] /\ NoJob.pc = "idle"
    BY <1>5, EndTo
  <2> QED BY <1>3, <1>5, <2>1, EditorMoves
<1> QED BY <1>2, <1>4, <1>5 DEF UpdateClient

LEMMA UpdatePartEditors ==
  ASSUME PartiesTyped, Editors, NEW j \in Jobs, UpdatePart(j)
  PROVE  Editors'
<1>1. /\ job[j] \in Job /\ Order(job[j]) /\ TablesTyped
      /\ job[j].pc \in {"portal", "device", "visibility"}
  BY TypedAt DEF UpdatePart
<1>2. PICK c \in Clients : c = job[j].client /\ job[j].kind \in {"new", "edit"}
  BY <1>1, Steps
<1>3. PICK p \in Parts : p = job[j].pc
  BY <1>1 DEF Parts
<1>4. /\ Edits(job[j], c) /\ UNCHANGED <<accounted, beside>>
      /\ Sound \/ Fault
      /\ unset \subseteq unset'
  BY <1>1, <1>2 DEF Edits, UpdatePart, journal
<1>5. PICK n : n = NextPart(j, p) /\ n \in {"device", "visibility", "audit"}
  BY <1>1, <1>3, NextPartOrder
<1>6. CASE End(j) /\ UNCHANGED client
  <2>1. job' = [job EXCEPT ![j] = NoJob] /\ NoJob.pc = "idle"
    BY <1>6, EndTo
  <2> QED BY <1>4, <1>6, <2>1, EditorMoves
<1>7. ASSUME Go(j, n)
      PROVE  \E w : /\ job' = [job EXCEPT ![j] = w] /\ w.kind = job[j].kind
                    /\ w.client = job[j].client
                    /\ Written(w) = Written(job[j]) \cup {p}
  <2>1. PICK w : /\ job' = [job EXCEPT ![j] = w] /\ w.pc = n /\ w.kind = job[j].kind
                 /\ w.client = job[j].client
    BY <1>5, <1>7, GoTo
  <2>2. Written(w) = Written(job[j]) \cup {p}
    BY <1>1, <1>2, <1>3, <1>5, <2>1 DEF Written, NextPart, Parts
  <2> QED BY <2>1, <2>2
<1>8. CASE job[j].kind = "new" /\ Go(j, n) /\ unset' = unset \cup {<<c, p>>} /\ UNCHANGED client
  <2>1. PICK w : /\ job' = [job EXCEPT ![j] = w] /\ w.kind = job[j].kind
                 /\ w.client = job[j].client
                 /\ Written(w) = Written(job[j]) \cup {p}
    BY <1>7, <1>8
  <2>2. \A q \in Written(w) : q \in Written(job[j]) \/ <<c, q>> \in unset'
    BY <1>8, <2>1
  <2> QED BY <1>4, <1>8, <2>1, <2>2, EditorMoves
<1>9. CASE client[c].st = "live" /\ Go(j, n) /\ client' = [client EXCEPT ![c].from[p] = j]
  <2>1. PICK w : /\ job' = [job EXCEPT ![j] = w] /\ w.kind = job[j].kind
                 /\ w.client = job[j].client
                 /\ Written(w) = Written(job[j]) \cup {p}
    BY <1>7, <1>9
  <2>2. /\ \A d \in Clients : client'[d].st = client[d].st /\ (d # c => client'[d] = client[d])
        /\ client'[c].from[p] = j
        /\ \A q \in Parts : q # p => client'[c].from[q] = client[c].from[q]
    BY <1>1, <1>9 DEF TablesTyped, Client
  <2>3. \A q \in Written(w) : q \in Written(job[j]) \/ client'[c].from[q] = j
    BY <2>1, <2>2
  <2>4. \A q \in Parts : client'[c].from[q] = client[c].from[q] \/ client'[c].from[q] = j
    BY <2>2
  <2>5. \A d \in Clients : /\ client'[d].st = client[d].st
                           /\ d # c => client'[d].from = client[d].from
                           /\ d # c => accounted'[d] = accounted[d]
    BY <1>4, <2>2
  <2>6. beside' = beside /\ unset \subseteq unset' /\ accounted'[c] = accounted[c]
    BY <1>4
  <2>7. job' = [job EXCEPT ![j] = w] /\ w.kind = job[j].kind /\ w.client = job[j].client
    BY <2>1
  <2> QED BY <1>4, <2>3, <2>4, <2>5, <2>6, <2>7, EditorMoves
<1> QED BY <1>2, <1>3, <1>5, <1>6, <1>8, <1>9 DEF UpdatePart

\* The edit is journalled: all it has written holds.
LEMMA AuditLastEditors ==
  ASSUME PartiesTyped, Counting, Editors, NEW j \in Jobs, AuditLast(j)
  PROVE  Editors'
<1>1. job[j] \in Job /\ Order(job[j]) /\ TablesTyped /\ job[j].pc = "audit"
  BY TypedAt DEF AuditLast
<1>2. PICK c \in Clients : c = job[j].client /\ job[j].kind \in {"new", "edit"}
  BY <1>1, Steps
<1>3. /\ Edits(job[j], c) /\ UNCHANGED <<client, beside, unset>>
      /\ Sound \/ Fault
  BY <1>1, <1>2 DEF Edits, AuditLast, table
<1>4. Written(job[j]) = Parts /\ client[c].st # "free"
  BY <1>1, <1>2 DEF Written, Counting
<1>5. PICK w : /\ job' = [job EXCEPT ![j] = w]
               /\ \/ w.pc = "idle"
                  \/ w.kind = job[j].kind /\ w.client = job[j].client /\ w.pc = "undo"
  BY GoTo, EndTo DEF AuditLast
<1>6. \/ accounted' = accounted
      \/ accounted' = [accounted EXCEPT ![c] = @ \cup {j}]
  BY <1>2 DEF AuditLast, journal
<1>7. /\ \A d \in Clients : d # c => accounted'[d] = accounted[d]
      /\ accounted'[c] = accounted[c] \/ accounted'[c] = accounted[c] \cup {j}
  BY <1>1, <1>6 DEF TablesTyped
<1>8. w.pc # "idle" => Written(w) = {}
  BY <1>5 DEF Written
<1> QED BY <1>3, <1>4, <1>5, <1>7, <1>8, EditorMoves

\* No editor begins, moves or writes: the crash, and what happens outside.
LEMMA StillEditors ==
  ASSUME PartiesTyped, Editors, UNCHANGED <<client, accounted, beside, unset>>,
         starts' = starts,
         \A q \in Jobs : \/ job'[q] = NoJob
                         \/ /\ job'[q].pc = job[q].pc /\ job'[q].kind = job[q].kind
                            /\ job'[q].client = job[q].client
  PROVE  Editors'
<1>1. ASSUME NEW c \in Clients PROVE Moved(c, 0)
  <2>1. ASSUME NEW i \in Jobs, Edits(job'[i], c)
        PROVE  /\ Edits(job[i], c) /\ job'[i].kind = job[i].kind
               /\ Written(job'[i]) = Written(job[i])
    BY <2>1 DEF Edits, NoJob, Written
  <2> QED BY <2>1, PartiesAssumption DEF Moved, Jobs
<1>2. 0 \notin Jobs /\ starts \in Nat
  BY TypedParts, PartiesAssumption DEF Jobs
<1> QED BY <1>1, <1>2, EditorsStep

LEMMA EditorsNext ==
  ASSUME PartiesTyped, Counting, Editors, [Next]_vars PROVE Editors'
<1>1. ASSUME NEW j \in Jobs, Begin(j) PROVE Editors'
  BY <1>1, QuietEditors, CreateEditors, EditBeginEditors DEF Begin
<1>2. ASSUME NEW j \in Jobs, SigningOut(j) \/ Administering(j) PROVE Editors'
  BY <1>2, QuietEditors, UpdateClientEditors, UpdatePartEditors, AuditLastEditors
     DEF Administering
<1>3. CASE \/ \E u \in Users, c \in Clients \cup {Portal} : Login(u, c)
           \/ \E u \in Users, c \in Clients : Revoke(u, c)
           \/ Pushing \/ UNCHANGED vars
  <2>1. starts' = starts
    BY <1>3 DEF Login, Revoke, Pushing, Accepts, Fails, TimesOut, Outcome, Sound, Fault, vars
  <2> QED BY <1>3, <2>1, SameWork, StillEditors
<1>4. CASE Crash
  <2>1. /\ UNCHANGED <<client, accounted, beside, unset, starts>>
        /\ \A q \in Jobs : job'[q] = NoJob
    BY <1>4 DEF Crash, table, journal, Fault
  <2> QED BY <2>1, StillEditors
<1> QED BY <1>1, <1>2, <1>3, <1>4 DEF Next

-----------------------------------------------------------------------------
(* Theorems.                                                               *)

LEMMA PartiesInit ==
  ASSUME Init PROVE PartiesInv
<1>1. PartiesTyped
  BY PartiesTypedInit
<1>2. \A j \in Jobs : job[j] = NoJob
  BY DEF Init
<1>3. NoJob.pc = "idle" /\ NoJob.kind = None /\ NoJob.client = None
  BY DEF NoJob
<1>4. Survivors
  BY <1>2, <1>3 DEF Init, Survivors, Telling
<1>5. Counting
  <2>1. ASSUME NEW c \in Clients PROVE Counted(c)
    <3>1. Rotating(c) = {}
      BY <1>2, <1>3 DEF Rotating
    <3>2. Cardinality(Rotating(c)) = 0
      BY <3>1, FS_EmptySet
    <3>3. ~Creating(c)
      BY <1>2, <1>3, PartiesAssumption DEF Creating, Creates
    <3>4. recorded[c] = client[c].secrets /\ client[c].secrets \in Nat
      BY <1>1, TypedParts DEF Init, TablesTyped, Client
    <3> QED BY <3>2, <3>3, <3>4 DEF Counted
  <2>2. \A c \in Clients, j \in Jobs : job[j].client # c
    BY <1>2, <1>3, PartiesAssumption
  <2> QED BY <1>2, <1>3, <2>1, <2>2 DEF Counting, Creates
<1>6. Editors
  <2>1. ASSUME NEW c \in Clients PROVE \A q \in Jobs : ~Edits(job[q], c)
    BY <1>2, <1>3 DEF Edits
  <2>2. ASSUME NEW c \in Clients
        PROVE  /\ \A n \in accounted[c] : n = 0
               /\ client[c].st = "free" => accounted[c] = {}
    BY DEF Init
  <2>3. ASSUME NEW c \in Clients, NEW p \in Parts PROVE client[c].from[p] = 0
    <3>1. PICK uri \in [Known -> BOOLEAN] : client[c] = Registered(uri[c]) \/ client[c] = NoClient
      BY DEF Init
    <3>2. NoClient.from = [q \in Parts |-> 0] /\ Registered(uri[c]).from = [q \in Parts |-> 0]
      BY DEF Registered, NoClient
    <3>3. client[c].from = [q \in Parts |-> 0]
      BY <3>1, <3>2
    <3> QED BY <3>3
  <2>4. ASSUME NEW c \in Clients PROVE Settled(c)
    BY <2>1, <2>2, <2>3 DEF Settled, Overlap, Set, Holds, Newer
  <2>5. starts = 0 /\ \A j \in Jobs : beside[j] = {}
    BY DEF Init
  <2> QED BY <2>2, <2>4, <2>5 DEF Editors
<1> QED BY <1>1, <1>4, <1>5, <1>6 DEF PartiesInv

\* The inductive invariant: the types and each handler's order of steps, who has
\* still to be told, how far the journal is ahead of the secrets, and how old
\* the settings are.
THEOREM PartiesInvariant == Spec => []PartiesInv
<1>1. Init => PartiesInv
  BY PartiesInit
<1>2. PartiesInv /\ [Next]_vars => PartiesInv'
  BY PartiesTypedStep, SurvivorsNext, CountingNext, EditorsNext DEF PartiesInv
<1> QED BY <1>1, <1>2, PTL DEF Spec

\* Every table, handler and goroutine keeps its type.
THEOREM PartiesAreTyped == Spec => []PartiesTypeOK
<1>1. PartiesInv => PartiesTypeOK
  BY DEF PartiesInv, PartiesTyped
<1> QED BY <1>1, PartiesInvariant, PTL

\* A client that keeps a session of a user who has none here is being told, or the
\* journal has the failure, or it is one of those nobody tells (broadcastLogout,
\* pushLogoutToken), in whatever order logins, sign-outs, deletions and crashes come.
THEOREM NoSurvivorIsSilent == Spec => []NoSilentSurvivor
<1>1. PartiesInv => NoSilentSurvivor
  BY DEF PartiesInv, Survivors, Told, NoSilentSurvivor
<1> QED BY <1>1, PartiesInvariant, PTL

\* No secret is in force that the journal does not know of, however many rotations
\* run at once (handleAdminRotateClientSecret journals before it stores).
THEOREM SecretsAreRecorded == Spec => []SecretsRecorded
<1>1. ASSUME PartiesInv PROVE SecretsRecorded
  <2>1. ASSUME NEW c \in Clients \ orphans, \A j \in Editing(c) : job[j].kind # "new"
        PROVE  client[c].secrets <= recorded[c]
    <3>1. Counted(c) /\ PartiesTyped
      BY <1>1 DEF PartiesInv, Counting
    <3>2. ~Creating(c)
      <4>1. ASSUME NEW j \in Jobs, Creates(job[j], c) PROVE FALSE
        <5>1. Edits(job[j], c)
          BY <3>1, <4>1, TypedAt DEF Creates, Edits, Order
        <5>2. j \in Editing(c)
          BY <5>1, EditingIs
        <5> QED BY <2>1, <4>1, <5>2 DEF Creates
      <4> QED BY <4>1 DEF Creating
    <3>3. client[c].secrets \in Nat /\ recorded[c] \in Nat
      BY <3>1, TypedParts DEF TablesTyped, Client
    <3>4. Cardinality(Rotating(c)) \in Nat
      BY RotatingFinite
    <3>5. client[c].secrets + Cardinality(Rotating(c)) <= recorded[c]
      BY <3>1, <3>2, <3>3 DEF Counted
    <3> QED BY <3>3, <3>4, <3>5
  <2> QED BY <2>1 DEF SecretsRecorded
<1> QED BY <1>1, PartiesInvariant, PTL

\* What the journal says was set for a client holds until a later edit, unless an
\* edit overlapped it or a statement of the creation failed
\* (handlePortalAdminClientNew and Edit write four groups of columns, one by one).
THEOREM EditsTakeHold == Spec => []EditTakesHold
<1>1. PartiesInv => EditTakesHold
  BY DEF PartiesInv, Editors, Settled, Set, Holds, Newer, EditTakesHold
<1> QED BY <1>1, PartiesInvariant, PTL

=============================================================================
