---------------------------- MODULE ReplicasProofs ----------------------------
(***************************************************************************)
(* The properties of Replicas, for any number of replicas, integrations    *)
(* and handlers in flight, and for every value of the bounds.              *)
(***************************************************************************)
EXTENDS Replicas, TLAPS

-----------------------------------------------------------------------------
(* The inductive invariant.                                                *)

\* A handler at work runs on a serving replica and knows its integration.
JobOK(j) ==
  job[j].pc # "idle" =>
    /\ job[j].rep \in Replicas /\ Serving(job[j].rep)
    /\ job[j].name \in Names
    /\ job[j].kind \in {"new", "edit", "delete"}
    /\ job[j].pc = "update" => job[j].kind = "edit" /\ job[j].form \in Form
    /\ job[j].pc = "undo" => job[j].kind = "new"
    /\ job[j].pc = "erase" => job[j].kind = "delete"
JobsOK == \A j \in Jobs : JobOK(j)

\* Handlers that are side by side know it.
Aware ==
  \A i, j \in Jobs :
    i # j /\ job[i].pc # "idle" /\ job[j].pc # "idle" /\ job[i].rep = job[j].rep
      => job[i].shared /\ job[j].shared

\* From the moment it has a key until it is down, the key is in the table.
Keyed == {"import", "insert", "build", "swap", "serving", "joining", "closed"}
SignersStored == \A r \in Replicas : rep[r].pc \in Keyed => rep[r].signer \in 1 .. keys

\* The handler has changed the table, and the registry does not follow yet.
Ahead(j) ==
  \/ job[j].kind = "new" /\ job[j].pc \in {"audit", "undo", "build", "swap"}
  \/ job[j].kind = "edit" /\ job[j].pc \in {"audit", "build", "swap"}
  \/ job[j].kind = "delete" /\ job[j].pc \in {"build", "swap"}
Level(r) == \A j \in Jobs : job[j].rep = r => ~Ahead(j)

\* A replica that does not lag has the table's integrations, if no handler on it
\* is ahead; a starting one is about to; a handler that has the replica for
\* itself is about to install them, or has added one row that is not loaded.
SetPart == \A r \in Replicas \ lag : Serving(r) /\ Level(r) => rep[r].set = Built
NextPart == \A r \in Replicas \ lag : rep[r].pc = "swap" => rep[r].next = Built
OwnPart ==
  \A j \in Jobs : job[j].pc # "idle" /\ job[j].rep \notin lag /\ ~job[j].shared =>
    /\ job[j].pc = "swap" => job[j].next = Built
    /\ job[j].kind = "new" /\ job[j].pc \in {"audit", "undo"} =>
         rep[job[j].rep].set = [Built EXCEPT ![job[j].name] = Nothing]

BaseInv == ReplicasTypeOK /\ JobsOK
RegInv == BaseInv /\ Aware /\ SetPart /\ NextPart /\ OwnPart

-----------------------------------------------------------------------------
(* Types.                                                                  *)

\* The empty values are well typed.
LEMMA Empties ==
  /\ Empty \in Registry /\ Down \in Replica /\ NoRow \in Row
  /\ NoWorker \in Worker /\ Waiting \in Worker /\ NoJob \in Job
<1>1. Empty \in Registry
  BY DEF Empty, Registry
<1> QED
  BY <1>1 DEF Down, Replica, BootPcs, NoRow, Row, Configs, NoWorker, Waiting, Worker,
     NoJob, Job

\* A rebuilt registry is well typed.
LEMMA BuiltTyped == ASSUME row \in [Names -> Row] PROVE Built \in Registry
BY DEF Built, Registry, Row

\* A handler that takes a step keeps the others as they are.
LEMMA JobSteps ==
  ASSUME BaseInv, NEW j \in Jobs, NEW v \in Job, job' = [job EXCEPT ![j] = v],
         \A r \in Replicas : Serving(r) => Serving(r)',
         JobOK(j)'
  PROVE  job' \in [Jobs -> Job] /\ JobsOK'
<1>1. job' \in [Jobs -> Job]
  BY DEF BaseInv, ReplicasTypeOK
<1>2. ASSUME NEW i \in Jobs, i # j PROVE JobOK(i)'
  <2>1. job'[i] = job[i]
    BY <1>2 DEF BaseInv, ReplicasTypeOK
  <2>2. JobOK(i)
    BY DEF BaseInv, JobsOK
  <2> QED BY <2>1, <2>2 DEF JobOK
<1> QED BY <1>1, <1>2 DEF JobsOK

\* A handler ends.
LEMMA EndTyped ==
  ASSUME BaseInv, NEW j \in Jobs, End(j),
         \A r \in Replicas : Serving(r) => Serving(r)'
  PROVE  job' \in [Jobs -> Job] /\ JobsOK'
<1>1. job'[j] = NoJob
  BY DEF End, BaseInv, ReplicasTypeOK
<1>2. JobOK(j)'
  BY <1>1 DEF JobOK, NoJob
<1> QED BY <1>2, Empties, JobSteps DEF End

\* A handler moves to another label.
LEMMA GoTyped ==
  ASSUME BaseInv, NEW j \in Jobs, job[j].pc # "idle",
         NEW pc \in {"audit", "undo", "erase", "build", "swap"}, Go(j, pc),
         \A r \in Replicas : Serving(r) => Serving(r)',
         pc = "undo" => job[j].kind = "new", pc = "erase" => job[j].kind = "delete"
  PROVE  job' \in [Jobs -> Job] /\ JobsOK'
<1> DEFINE v == [job[j] EXCEPT !.pc = pc]
<1>1. job[j] \in Job
  BY DEF BaseInv, ReplicasTypeOK
<1>2. v \in Job
  BY <1>1 DEF Job
<1>3. job' = [job EXCEPT ![j] = v]
  BY DEF Go
<1>4. job'[j] = v
  BY <1>3 DEF BaseInv, ReplicasTypeOK
<1>5. /\ v.pc = pc /\ v.rep = job[j].rep /\ v.kind = job[j].kind /\ v.name = job[j].name
      /\ v.next = job[j].next /\ v.shared = job[j].shared
  BY <1>1 DEF Job
<1>6. JobOK(j)
  BY DEF BaseInv, JobsOK
<1> HIDE DEF v
<1>7. JobOK(j)'
  BY <1>4, <1>5, <1>6 DEF JobOK
<1> QED BY <1>2, <1>3, <1>7, JobSteps

\* A handler begins.
LEMMA StartTyped ==
  ASSUME BaseInv, NEW j \in Jobs, NEW r \in Replicas, NEW n \in Names,
         NEW k \in {"new", "edit", "delete"}, NEW f \in Form \cup {Nothing},
         NEW pc \in {"audit", "update"}, pc = "update" => k = "edit" /\ f \in Form,
         Start(j, r, k, n, f, pc), rep' = rep
  PROVE  job' \in [Jobs -> Job] /\ JobsOK'
<1> DEFINE b == {i \in Busy : job[i].rep = r}
           v == [NoJob EXCEPT !.pc = pc, !.rep = r, !.kind = k, !.name = n,
                              !.form = f, !.shared = b # {}]
<1>1. job' = [i \in Jobs |-> IF i = j THEN v
                             ELSE IF i \in b THEN [job[i] EXCEPT !.shared = TRUE] ELSE job[i]]
  BY DEF Start
<1>2. v \in Job
  BY Empties DEF Job, NoJob
<1>3. v.pc = pc /\ v.rep = r /\ v.kind = k /\ v.name = n /\ v.form = f
  BY DEF NoJob
<1>4. Serving(r)
  BY DEF Start
<1>5. \A i \in Jobs : job[i] \in Job /\ JobOK(i)
  BY DEF BaseInv, ReplicasTypeOK, JobsOK
<1> HIDE DEF b, v
<1>6. job' \in [Jobs -> Job]
  <2>1. ASSUME NEW i \in Jobs PROVE [job[i] EXCEPT !.shared = TRUE] \in Job
    BY <1>5 DEF Job
  <2> QED BY <1>1, <1>2, <1>5, <2>1
<1>7. ASSUME NEW i \in Jobs PROVE JobOK(i)'
  <2>1. CASE i = j
    BY <1>1, <1>3, <1>4, <2>1 DEF JobOK, Serving
  <2>2. CASE i # j
    <3>1. /\ job'[i].pc = job[i].pc /\ job'[i].rep = job[i].rep /\ job'[i].kind = job[i].kind
          /\ job'[i].name = job[i].name /\ job'[i].form = job[i].form
      BY <1>1, <1>5, <2>2 DEF Job
    <3> QED BY <1>5, <3>1 DEF JobOK, Serving
  <2> QED BY <2>1, <2>2
<1> QED BY <1>6, <1>7 DEF JobsOK

\* Starting a replica keeps the types.
LEMMA StartingTyped ==
  ASSUME BaseInv, NEW r \in Replicas, Starting(r)
  PROVE  BaseInv'
<1>1. rep[r] \in Replica /\ rep \in [Replicas -> Replica]
  BY DEF BaseInv, ReplicasTypeOK
<1>2. row \in [Names -> Row] /\ worker \in [Replicas -> [Workers -> Worker]] /\ keys \in Nat
  BY DEF BaseInv, ReplicasTypeOK
<1>3. rep' \in [Replicas -> Replica] /\ keys' \in Nat
  <2>1. CASE Boot(r)
    BY <1>1, <1>2, <2>1 DEF Boot, Replica, BootPcs
  <2>2. CASE LoadKey(r)
    BY <1>1, <1>2, <2>2 DEF LoadKey, Replica, BootPcs
  <2>3. CASE GenerateAndStore(r)
    <3>1. keys + 1 \in Nat
      BY <1>2
    <3>2. [rep[r] EXCEPT !.pc = "import", !.signer = keys + 1] \in Replica
      BY <1>1, <3>1 DEF Replica, BootPcs
    <3>3. rep' = [rep EXCEPT ![r] = [rep[r] EXCEPT !.pc = "import", !.signer = keys + 1]]
      BY <1>1, <2>3 DEF GenerateAndStore
    <3>4. keys' = keys + 1
      BY <2>3 DEF GenerateAndStore
    <3> QED BY <1>1, <3>1, <3>2, <3>3, <3>4
  <2>4. CASE ImportCheck(r)
    BY <1>1, <1>2, <2>4 DEF ImportCheck, Replica, BootPcs
  <2>5. CASE ImportInsert(r)
    BY <1>1, <1>2, <2>5 DEF ImportInsert, Replica, BootPcs
  <2>6. CASE BootBuild(r)
    BY <1>1, <1>2, <2>6, BuiltTyped DEF BootBuild, Replica, BootPcs
  <2>7. CASE Serve(r)
    BY <1>1, <1>2, <2>7, Empties DEF Serve, Replica, BootPcs
  <2>8. CASE BootFails(r)
    BY <1>1, <1>2, <2>8, Empties DEF BootFails
  <2> QED BY <2>1, <2>2, <2>3, <2>4, <2>5, <2>6, <2>7, <2>8 DEF Starting
<1>4. row' \in [Names -> Row] /\ lag' \subseteq Replicas
  <2>1. CASE ImportInsert(r)
    <3>1. LegacyRow \in Row
      BY DEF LegacyRow, Row, Configs
    <3> QED BY <1>2, <2>1, <3>1 DEF ImportInsert, BaseInv, ReplicasTypeOK
  <2>2. CASE BootBuild(r)
    BY <2>2 DEF BootBuild, BaseInv, ReplicasTypeOK
  <2>3. CASE row' = row /\ lag' = lag
    BY <2>3 DEF BaseInv, ReplicasTypeOK
  <2> QED BY <2>1, <2>2, <2>3 DEF Starting, Boot, LoadKey, GenerateAndStore, ImportCheck,
             Serve, BootFails
<1>5. worker' \in [Replicas -> [Workers -> Worker]]
  <2>1. CASE Serve(r)
    BY <1>2, <2>1, Empties DEF Serve
  <2>2. CASE worker' = worker
    BY <1>2, <2>2
  <2> QED BY <2>1, <2>2 DEF Starting, Boot, LoadKey, GenerateAndStore, ImportCheck,
             ImportInsert, BootBuild, BootFails
<1>6. job' = job
  BY DEF Starting, Boot, LoadKey, GenerateAndStore, ImportCheck, ImportInsert, BootBuild,
     Serve, BootFails
<1>7. {boots', ticks', changes', faults'} \subseteq Nat
  BY DEF Starting, Boot, LoadKey, GenerateAndStore, ImportCheck, ImportInsert, BootBuild,
     Serve, BootFails, Fault, Sound, bounds, BaseInv, ReplicasTypeOK
<1>8. \A q \in Replicas : Serving(q) => Serving(q)'
  BY <1>1 DEF Starting, Boot, LoadKey, GenerateAndStore, ImportCheck, ImportInsert, BootBuild,
     Serve, BootFails, Serving
<1>9. JobsOK'
  BY <1>6, <1>8 DEF BaseInv, JobsOK, JobOK
<1> QED BY <1>3, <1>4, <1>5, <1>6, <1>7, <1>9 DEF BaseInv, ReplicasTypeOK

\* The workers' steps, and the end of a replica, keep the types.
LEMMA RunningTyped ==
  ASSUME BaseInv, NEW r \in Replicas,
         Shutdown(r) \/ Ending(r) \/ \E w \in Workers : WorkerTick(r, w) \/ Work(r, w)
  PROVE  BaseInv'
<1>1. rep \in [Replicas -> Replica] /\ worker \in [Replicas -> [Workers -> Worker]]
  BY DEF BaseInv, ReplicasTypeOK
<1>2. job \in [Jobs -> Job]
  BY DEF BaseInv, ReplicasTypeOK
<1>3. rep' \in [Replicas -> Replica]
  <2>1. ASSUME NEW pc \in {"joining", "closed"}, rep' = [rep EXCEPT ![r].pc = pc]
        PROVE  rep' \in [Replicas -> Replica]
    BY <1>1, <2>1 DEF Replica
  <2>2. CASE rep' = [rep EXCEPT ![r] = Down]
    BY <1>1, <2>2, Empties
  <2>3. CASE rep' = rep
    BY <1>1, <2>3
  <2> QED BY <2>1, <2>2, <2>3 DEF Shutdown, Ending, Close, Exit, WorkerTick, Work
<1>4. worker' \in [Replicas -> [Workers -> Worker]]
  <2>1. CASE Shutdown(r)
    BY <1>1, <2>1, Empties DEF Shutdown
  <2>2. CASE Exit(r)
    BY <1>1, <2>2, Empties DEF Exit
  <2>3. ASSUME NEW w \in Workers, WorkerTick(r, w) PROVE worker' \in [Replicas -> [Workers -> Worker]]
    <3>1. ASSUME NEW t \in SUBSET Names PROVE [pc |-> "run", left |-> t] \in Worker
      BY DEF Worker
    <3>2. PICK t \in SUBSET Names : worker' = [worker EXCEPT ![r][w] = [pc |-> "run", left |-> t]]
      BY <2>3 DEF WorkerTick, Loaded, Workers
    <3> QED BY <1>1, <3>1, <3>2
  <2>4. ASSUME NEW w \in Workers, Work(r, w) PROVE worker' \in [Replicas -> [Workers -> Worker]]
    <3>1. worker[r][w] \in Worker
      BY <1>1
    <3>2. CASE \E n \in worker[r][w].left : worker' = [worker EXCEPT ![r][w].left = @ \ {n}]
      <4>1. PICK n \in worker[r][w].left : worker' = [worker EXCEPT ![r][w].left = @ \ {n}]
        BY <3>2
      <4>2. [worker[r][w] EXCEPT !.left = @ \ {n}] \in Worker
        BY <3>1 DEF Worker
      <4> QED BY <1>1, <4>1, <4>2
    <3>3. CASE worker' = [worker EXCEPT ![r][w] = IF Serving(r) THEN Waiting ELSE NoWorker]
      BY <1>1, <3>3, Empties
    <3> QED BY <2>4, <3>2, <3>3 DEF Work
  <2>5. CASE worker' = worker
    BY <1>1, <2>5
  <2> QED BY <2>1, <2>2, <2>3, <2>4, <2>5 DEF Ending, Close
<1>5. job' \in [Jobs -> Job] /\ JobsOK'
  <2>1. CASE Shutdown(r)
    <3>1. job' = [j \in Jobs |-> IF job[j].rep = r THEN NoJob ELSE job[j]]
      BY <2>1 DEF Shutdown
    <3>2. job' \in [Jobs -> Job]
      BY <1>2, <3>1, Empties
    <3>3. \A q \in Replicas : q # r /\ Serving(q) => Serving(q)'
      BY <1>1, <2>1 DEF Shutdown, Serving
    <3>4. ASSUME NEW j \in Jobs PROVE JobOK(j)'
      <4>1. CASE job[j].rep = r
        BY <3>1, <4>1 DEF JobOK, NoJob
      <4>2. CASE job[j].rep # r
        BY <3>1, <3>3, <4>2 DEF BaseInv, JobsOK, JobOK
      <4> QED BY <4>1, <4>2
    <3> QED BY <3>2, <3>4 DEF JobsOK
  <2>2. CASE ~Shutdown(r)
    <3>1. job' = job
      BY <2>2 DEF Ending, Close, Exit, WorkerTick, Work
    <3>2. \A q \in Replicas : Serving(q) => Serving(q)'
      BY <1>1, <2>2 DEF Ending, Close, Exit, WorkerTick, Work, Serving
    <3> QED BY <1>2, <3>1, <3>2 DEF BaseInv, JobsOK, JobOK
  <2> QED BY <2>1, <2>2
<1>6. /\ keys' = keys /\ row' = row /\ lag' = lag
      /\ {boots', ticks', changes', faults'} \subseteq Nat
  BY DEF Shutdown, Ending, Close, Exit, WorkerTick, Work, bounds, BaseInv, ReplicasTypeOK
<1> QED BY <1>3, <1>4, <1>5, <1>6 DEF BaseInv, ReplicasTypeOK

\* The first step of a handler keeps the types.
LEMMA BeginTyped ==
  ASSUME BaseInv, NEW j \in Jobs, Begin(j)
  PROVE  BaseInv'
<1>1. PICK r \in Replicas, n \in Names :
        (\E f \in Forms : New(j, r, n, f) \/ EditBegin(j, r, n, f)) \/ DeleteBegin(j, r, n)
  BY DEF Begin
<1>2. row \in [Names -> Row] /\ row[n] \in Row
  BY DEF BaseInv, ReplicasTypeOK
<1>3. /\ keys' = keys /\ rep' = rep /\ worker' = worker
      /\ lag' \subseteq Replicas /\ {boots', ticks', changes', faults'} \subseteq Nat
  <2>1. {boots, ticks, changes, faults} \subseteq Nat /\ lag \subseteq Replicas
    BY DEF BaseInv, ReplicasTypeOK
  <2>2. changes' = changes + 1 /\ boots' = boots /\ ticks' = ticks /\ faults' = faults
    BY <1>1 DEF New, EditBegin, DeleteBegin, Start
  <2>3. {boots', ticks', changes', faults'} \subseteq Nat
    BY <2>1, <2>2
  <2>4. lag' \subseteq Replicas
    BY <1>1, <2>1 DEF New, EditBegin, DeleteBegin
  <2> QED BY <1>1, <2>3, <2>4 DEF New, EditBegin, DeleteBegin
<1>4. row' \in [Names -> Row] /\ job' \in [Jobs -> Job] /\ JobsOK'
  <2>1. ASSUME NEW f \in Forms, New(j, r, n, f)
        PROVE  row' \in [Names -> Row] /\ job' \in [Jobs -> Job] /\ JobsOK'
    <3>1. f \in Form
      BY ReplicasAssumption
    <3>2. [on |-> TRUE, enabled |-> f.enabled, config |-> f.config, token |-> f.token] \in Row
      BY <3>1 DEF Form, Row
    <3>3. row' \in [Names -> Row]
      BY <1>2, <2>1, <3>2 DEF New
    <3>4. Start(j, r, "new", n, f, "audit")
      BY <2>1 DEF New
    <3> QED BY <1>3, <3>1, <3>3, <3>4, StartTyped
  <2>2. ASSUME NEW f \in Forms, EditBegin(j, r, n, f)
        PROVE  row' \in [Names -> Row] /\ job' \in [Jobs -> Job] /\ JobsOK'
    <3> DEFINE g == [f EXCEPT !.token = TokenAfter(row[n], f)]
    <3>1. f \in Form
      BY ReplicasAssumption
    <3>2. TokenAfter(row[n], f) \in BOOLEAN
      BY DEF TokenAfter
    <3>3. g \in Form
      BY <3>1, <3>2 DEF Form
    <3>4. Start(j, r, "edit", n, g, "update") /\ row' = row
      BY <2>2 DEF EditBegin
    <3> HIDE DEF g
    <3> QED BY <1>2, <1>3, <3>3, <3>4, StartTyped
  <2>3. CASE DeleteBegin(j, r, n)
    <3>1. Start(j, r, "delete", n, Nothing, "audit") /\ row' = row
      BY <2>3 DEF DeleteBegin
    <3> QED BY <1>2, <1>3, <3>1, StartTyped
  <2> QED BY <1>1, <2>1, <2>2, <2>3
<1> QED BY <1>3, <1>4 DEF BaseInv, ReplicasTypeOK

\* The other steps of a handler keep the types.
LEMMA HandleTyped ==
  ASSUME BaseInv, NEW j \in Jobs, Handle(j)
  PROVE  BaseInv'
<1>1. /\ row \in [Names -> Row] /\ rep \in [Replicas -> Replica] /\ job \in [Jobs -> Job]
      /\ job[j] \in Job /\ JobOK(j)
  BY DEF BaseInv, ReplicasTypeOK, JobsOK
<1>2. job[j].pc # "idle" /\ job[j].rep \in Replicas /\ job[j].name \in Names
  BY <1>1 DEF Handle, Update, Audit, Undo, Erase, Rebuild, Swap, JobOK
<1>3. rep' \in [Replicas -> Replica] /\ \A q \in Replicas : Serving(q) => Serving(q)'
  <2>1. CASE Swap(j)
    <3>1. rep' = [rep EXCEPT ![job[j].rep].set = job[j].next]
      BY <2>1 DEF Swap
    <3>2. job[j].next \in Registry /\ rep[job[j].rep] \in Replica
      BY <1>1, <1>2 DEF Job
    <3> QED BY <1>1, <1>2, <3>1, <3>2 DEF Replica, Serving
  <2>2. CASE rep' = rep
    BY <1>1, <2>2 DEF Serving
  <2> QED BY <2>1, <2>2 DEF Handle, Update, Audit, Undo, Erase, Rebuild
<1>4. row' \in [Names -> Row]
  <2>1. CASE Update(j)
    <3>1. job[j].form \in Form
      BY <1>1, <2>1 DEF Update, JobOK
    <3>2. [on |-> TRUE, enabled |-> job[j].form.enabled, config |-> job[j].form.config,
           token |-> job[j].form.token] \in Row
      BY <3>1 DEF Form, Row
    <3> QED BY <1>1, <2>1, <3>2 DEF Update
  <2>2. CASE row' = [row EXCEPT ![job[j].name] = NoRow] \/ row' = row
    BY <1>1, <2>2, Empties
  <2> QED BY <2>1, <2>2 DEF Handle, Audit, Undo, Erase, Rebuild, Swap
<1>5. job' \in [Jobs -> Job] /\ JobsOK'
  <2>1. CASE End(j)
    BY <1>3, <2>1, EndTyped
  <2>2. CASE \E pc \in {"audit", "undo", "erase", "build"} :
               Go(j, pc) /\ (pc = "undo" => job[j].kind = "new")
                         /\ (pc = "erase" => job[j].kind = "delete")
    BY <1>2, <1>3, <2>2, GoTyped
  <2>3. CASE job' = [job EXCEPT ![j].next = Built, ![j].pc = "swap"]
    <3> DEFINE v == [job[j] EXCEPT !.next = Built, !.pc = "swap"]
    <3>1. v \in Job
      BY <1>1, BuiltTyped DEF Job
    <3>2. job' = [job EXCEPT ![j] = v]
      BY <2>3
    <3>3. v.pc = "swap" /\ v.rep = job[j].rep /\ v.kind = job[j].kind /\ v.name = job[j].name
      BY <1>1 DEF Job
    <3>4. job'[j] = v
      BY <1>1, <3>2
    <3> HIDE DEF v
    <3>5. JobOK(j)'
      BY <1>1, <1>2, <1>3, <3>3, <3>4 DEF JobOK
    <3> QED BY <1>3, <3>1, <3>2, <3>5, JobSteps
  <2> QED BY <2>1, <2>2, <2>3 DEF Handle, Update, Audit, Undo, Erase, Rebuild, Swap
<1>6. /\ keys' = keys /\ worker' = worker
      /\ {boots', ticks', changes', faults'} \subseteq Nat
  BY DEF Handle, Update, Audit, Undo, Erase, Rebuild, Swap, Fault, Sound, bounds, BaseInv,
     ReplicasTypeOK
<1>7. lag' \subseteq Replicas
  BY <1>2 DEF Handle, Update, Audit, Undo, Erase, Rebuild, Swap, Unheard, BaseInv,
     ReplicasTypeOK
<1> QED BY <1>3, <1>4, <1>5, <1>6, <1>7 DEF BaseInv, ReplicasTypeOK

\* Every step keeps the types.
LEMMA BaseStep == BaseInv /\ [ReplicasNext]_replicasVars => BaseInv'
<1> SUFFICES ASSUME BaseInv, [ReplicasNext]_replicasVars PROVE BaseInv'
  OBVIOUS
<1>1. ASSUME NEW r \in Replicas, Starting(r) PROVE BaseInv'
  BY <1>1, StartingTyped
<1>2. ASSUME NEW r \in Replicas,
             Shutdown(r) \/ Ending(r) \/ \E w \in Workers : WorkerTick(r, w) \/ Work(r, w)
      PROVE  BaseInv'
  BY <1>2, RunningTyped
<1>3. ASSUME NEW j \in Jobs, Begin(j) \/ Handle(j) PROVE BaseInv'
  BY <1>3, BeginTyped, HandleTyped
<1>4. CASE UNCHANGED replicasVars
  BY <1>4 DEF replicasVars, BaseInv, ReplicasTypeOK, JobsOK, JobOK, Serving
<1> QED BY <1>1, <1>2, <1>3, <1>4 DEF ReplicasNext

\* The types hold at the start.
LEMMA BaseInit == ReplicasInit => BaseInv
BY Empties DEF ReplicasInit, BaseInv, ReplicasTypeOK, JobsOK, JobOK, NoJob

\* The replicas, the two tables and the handlers are well typed, and a handler
\* that is in flight has the row and the form its next statement uses.
THEOREM ReplicasTyped == ReplicasSpec => []BaseInv
BY BaseInit, BaseStep, PTL DEF ReplicasSpec

\* Handlers leave the keys, the workers and, but for the swap, the replicas alone.
LEMMA HandlersKeep ==
  ASSUME NEW j \in Jobs, Begin(j) \/ Handle(j)
  PROVE  keys' = keys /\ worker' = worker /\ (rep' = rep \/ Swap(j))
<1>1. CASE Begin(j)
  BY <1>1 DEF Begin, New, EditBegin, DeleteBegin
<1>2. CASE Handle(j)
  BY <1>2 DEF Handle, Update, Audit, Undo, Erase, Rebuild, Swap
<1> QED BY <1>1, <1>2

-----------------------------------------------------------------------------
(* Signing keys.                                                           *)

\* Every step keeps the signers among the stored keys: keys are only added, and
\* a replica that has one loaded it or stored it.
LEMMA SignersStep == BaseInv /\ SignersStored /\ [ReplicasNext]_replicasVars => SignersStored'
<1> SUFFICES ASSUME BaseInv, SignersStored, [ReplicasNext]_replicasVars PROVE SignersStored'
  OBVIOUS
<1>1. rep \in [Replicas -> Replica] /\ keys \in Nat /\ job \in [Jobs -> Job]
  BY DEF BaseInv, ReplicasTypeOK
<1>2. ASSUME keys' = keys,
             \A q \in Replicas : /\ rep'[q].signer = rep[q].signer
                                 /\ rep'[q].pc \in Keyed => rep[q].pc \in Keyed
      PROVE  SignersStored'
  BY <1>2 DEF SignersStored
<1>3. ASSUME NEW r \in Replicas, NEW pc, rep' = [rep EXCEPT ![r].pc = pc], keys' = keys,
             rep[r].pc \in Keyed \/ pc \notin Keyed
      PROVE  SignersStored'
  BY <1>1, <1>2, <1>3 DEF Replica
<1>4. ASSUME NEW r \in Replicas, Starting(r) PROVE SignersStored'
  <2>1. CASE Boot(r)
    BY <1>3, <2>1 DEF Boot, Keyed
  <2>2. CASE LoadKey(r)
    <3>1. CASE keys = 0
      <4>1. rep' = [rep EXCEPT ![r].pc = "genkey"] /\ keys' = keys
        BY <2>2, <3>1 DEF LoadKey
      <4> QED BY <1>3, <4>1 DEF Keyed
    <3>2. CASE keys # 0
      <4>1. keys \in 1 .. keys
        BY <1>1, <3>2
      <4>2. rep' = [rep EXCEPT ![r].pc = "import", ![r].signer = keys] /\ keys' = keys
        BY <2>2, <3>2 DEF LoadKey
      <4>3. \A q \in Replicas : IF q = r THEN rep'[q].signer = keys ELSE rep'[q] = rep[q]
        BY <1>1, <4>2 DEF Replica
      <4> QED BY <4>1, <4>2, <4>3 DEF SignersStored
    <3> QED BY <3>1, <3>2
  <2>3. CASE GenerateAndStore(r)
    <3>1. rep' = [rep EXCEPT ![r].pc = "import", ![r].signer = keys + 1] /\ keys' = keys + 1
      BY <2>3 DEF GenerateAndStore
    <3>2. \A q \in Replicas : IF q = r THEN rep'[q].signer = keys + 1 ELSE rep'[q] = rep[q]
      BY <1>1, <3>1 DEF Replica
    <3>3. keys + 1 \in 1 .. keys + 1 /\ 1 .. keys \subseteq 1 .. keys + 1
      BY <1>1
    <3> QED BY <3>1, <3>2, <3>3 DEF SignersStored
  <2>4. CASE ImportCheck(r)
    BY <1>3, <2>4 DEF ImportCheck, Keyed
  <2>5. CASE ImportInsert(r)
    BY <1>3, <2>5 DEF ImportInsert, Keyed
  <2>6. CASE BootBuild(r)
    <3>1. rep' = [rep EXCEPT ![r].pc = "swap", ![r].next = Built] /\ keys' = keys
      BY <2>6 DEF BootBuild
    <3>2. \A q \in Replicas : rep'[q].signer = rep[q].signer /\ (q # r => rep'[q].pc = rep[q].pc)
      BY <1>1, <3>1 DEF Replica
    <3> QED BY <1>2, <2>6, <3>1, <3>2 DEF BootBuild, Keyed
  <2>7. CASE Serve(r)
    <3>1. /\ rep' = [rep EXCEPT ![r].pc = "serving", ![r].set = rep[r].next, ![r].next = Empty]
          /\ keys' = keys
      BY <2>7 DEF Serve
    <3>2. \A q \in Replicas : rep'[q].signer = rep[q].signer /\ (q # r => rep'[q].pc = rep[q].pc)
      BY <1>1, <3>1 DEF Replica
    <3> QED BY <1>2, <2>7, <3>1, <3>2 DEF Serve, Keyed
  <2>8. CASE BootFails(r)
    BY <1>1, <2>8 DEF BootFails, SignersStored, Down, Keyed
  <2> QED BY <1>4, <2>1, <2>2, <2>3, <2>4, <2>5, <2>6, <2>7, <2>8 DEF Starting
<1>5. ASSUME NEW r \in Replicas, Shutdown(r) \/ Close(r) PROVE SignersStored'
  BY <1>3, <1>5 DEF Shutdown, Close, Serving, Keyed
<1>6. ASSUME NEW r \in Replicas, Exit(r) PROVE SignersStored'
  BY <1>1, <1>6 DEF Exit, SignersStored, Down, Keyed
<1>7. CASE rep' = rep /\ keys' = keys
  BY <1>7 DEF SignersStored
<1>8. ASSUME NEW j \in Jobs, Swap(j) PROVE SignersStored'
  <2>1. rep' = [rep EXCEPT ![job[j].rep].set = job[j].next] /\ keys' = keys
    BY <1>8 DEF Swap
  <2>2. \A q \in Replicas : rep'[q].signer = rep[q].signer /\ rep'[q].pc = rep[q].pc
    BY <1>1, <2>1 DEF Replica
  <2> QED BY <1>2, <2>1, <2>2
<1>9. ASSUME NEW j \in Jobs, Begin(j) \/ Handle(j) PROVE SignersStored'
  BY <1>7, <1>8, <1>9, HandlersKeep
<1>10. ASSUME NEW r \in Replicas, NEW w \in Workers, WorkerTick(r, w) \/ Work(r, w)
       PROVE  SignersStored'
  BY <1>7, <1>10 DEF WorkerTick, Work
<1>11. CASE UNCHANGED replicasVars
  BY <1>7, <1>11 DEF replicasVars
<1> QED BY <1>4, <1>5, <1>6, <1>9, <1>10, <1>11 DEF ReplicasNext, Ending

\* LoadOrCreate and BuildJWKS: the key a serving replica signs with is one every
\* replica publishes, however many replicas find the table empty together.
THEOREM SignersArePublished == ReplicasSpec => []SignerIsPublished
<1>1. ReplicasInit => SignersStored
  BY DEF ReplicasInit, SignersStored, Down, Keyed
<1>2. SignersStored => SignerIsPublished
  BY DEF SignersStored, SignerIsPublished, Serving, Jwks, Keyed
<1> QED BY <1>1, <1>2, BaseInit, BaseStep, SignersStep, PTL DEF ReplicasSpec

-----------------------------------------------------------------------------
(* The registries.                                                         *)

\* A step of handler j, as far as the other handlers can tell.
OnlyJob(j) == \A i \in Jobs : i # j => job'[i] = job[i]
Stays(j) == job'[j].rep = job[j].rep /\ job'[j].shared = job[j].shared

\* What ending a handler does to it.
LEMMA EndFields ==
  ASSUME BaseInv, NEW j \in Jobs, End(j)
  PROVE  OnlyJob(j) /\ job'[j].pc = "idle"
BY DEF End, OnlyJob, NoJob, BaseInv, ReplicasTypeOK

\* What moving a handler does to it.
LEMMA GoFields ==
  ASSUME BaseInv, NEW j \in Jobs, NEW pc, Go(j, pc)
  PROVE  /\ OnlyJob(j) /\ Stays(j) /\ job'[j].pc = pc
         /\ job'[j].kind = job[j].kind /\ job'[j].name = job[j].name
         /\ job'[j].next = job[j].next
BY DEF Go, OnlyJob, Stays, Job, BaseInv, ReplicasTypeOK

\* What a new handler is, and what it does to those beside it.
LEMMA StartFields ==
  ASSUME BaseInv, NEW j \in Jobs, NEW r, NEW k, NEW n, NEW f, NEW pc,
         Start(j, r, k, n, f, pc)
  PROVE  /\ job[j].pc = "idle" /\ Serving(r)
         /\ job'[j].pc = pc /\ job'[j].rep = r /\ job'[j].kind = k /\ job'[j].name = n
         /\ job'[j].shared <=> \E i \in Busy : job[i].rep = r
         /\ \A i \in Jobs : i # j =>
              /\ job'[i].pc = job[i].pc /\ job'[i].rep = job[i].rep
              /\ job'[i].kind = job[i].kind /\ job'[i].name = job[i].name
              /\ job'[i].next = job[i].next
              /\ job'[i].shared <=> job[i].shared \/ (i \in Busy /\ job[i].rep = r)
<1> DEFINE b == {i \in Busy : job[i].rep = r}
           v == [NoJob EXCEPT !.pc = pc, !.rep = r, !.kind = k, !.name = n,
                              !.form = f, !.shared = b # {}]
<1>1. job' = [i \in Jobs |-> IF i = j THEN v
                             ELSE IF i \in b THEN [job[i] EXCEPT !.shared = TRUE] ELSE job[i]]
  BY DEF Start
<1>2. v.pc = pc /\ v.rep = r /\ v.kind = k /\ v.name = n /\ v.shared = (b # {})
  BY DEF NoJob
<1>3. \A i \in Jobs : job[i] \in Job
  BY DEF BaseInv, ReplicasTypeOK
<1>4. (b # {}) <=> \E i \in Busy : job[i].rep = r
  OBVIOUS
<1>5. \A i \in Jobs : i \in b <=> (i \in Busy /\ job[i].rep = r)
  OBVIOUS
<1>6. job[j].pc = "idle" /\ Serving(r)
  BY DEF Start
<1> HIDE DEF b, v
<1>7. job'[j] = v
  BY <1>1
<1>8. ASSUME NEW i \in Jobs, i # j
      PROVE  /\ job'[i].pc = job[i].pc /\ job'[i].rep = job[i].rep
             /\ job'[i].kind = job[i].kind /\ job'[i].name = job[i].name
             /\ job'[i].next = job[i].next
             /\ job'[i].shared <=> job[i].shared \/ i \in b
  <2>1. CASE i \in b
    <3>1. job'[i] = [job[i] EXCEPT !.shared = TRUE]
      BY <1>1, <1>8, <2>1
    <3> QED BY <1>3, <2>1, <3>1 DEF Job
  <2>2. CASE i \notin b
    BY <1>1, <1>8, <2>2
  <2> QED BY <2>1, <2>2
<1> QED BY <1>2, <1>4, <1>5, <1>6, <1>7, <1>8

\* A new handler and those beside it know of each other.
LEMMA StartAware ==
  ASSUME BaseInv, Aware, NEW j \in Jobs, NEW r, NEW k, NEW n, NEW f, NEW pc,
         Start(j, r, k, n, f, pc)
  PROVE  Aware'
<1> SUFFICES ASSUME NEW i \in Jobs, NEW l \in Jobs, i # l, job'[i].pc # "idle",
                    job'[l].pc # "idle", job'[i].rep = job'[l].rep
             PROVE  job'[i].shared /\ job'[l].shared
  BY DEF Aware
<1>1. CASE i = j
  BY <1>1, StartFields DEF Busy
<1>2. CASE l = j
  BY <1>2, StartFields DEF Busy
<1>3. CASE i # j /\ l # j
  BY <1>3, StartFields DEF Aware
<1> QED BY <1>1, <1>2, <1>3

\* A handler that takes a step, or ends, keeps what it knows.
LEMMA AwareKeeps ==
  ASSUME Aware, NEW j \in Jobs, OnlyJob(j), job[j].pc # "idle",
         job'[j].pc = "idle" \/ Stays(j)
  PROVE  Aware'
<1> SUFFICES ASSUME NEW i \in Jobs, NEW l \in Jobs, i # l, job'[i].pc # "idle",
                    job'[l].pc # "idle", job'[i].rep = job'[l].rep
             PROVE  job'[i].shared /\ job'[l].shared
  BY DEF Aware
<1>1. CASE i = j
  BY <1>1 DEF Aware, OnlyJob, Stays
<1>2. CASE l = j
  BY <1>2 DEF Aware, OnlyJob, Stays
<1>3. CASE i # j /\ l # j
  BY <1>3 DEF Aware, OnlyJob
<1> QED BY <1>1, <1>2, <1>3

\* What a rebuild would give depends on the table only.
LEMMA BuiltSame == ASSUME row' = row PROVE Built' = Built
BY DEF Built, Builds

\* Steps of replicas that load no registry.
LEMMA QuietStep ==
  ASSUME RegInv, BaseInv', row' = row, job' = job, lag' = lag,
         \A q \in Replicas :
           /\ rep'[q].pc = "serving" => rep[q].pc = "serving" /\ rep'[q].set = rep[q].set
           /\ rep'[q].pc = "swap" => rep[q].pc = "swap" /\ rep'[q].next = rep[q].next
  PROVE  RegInv'
<1>1. Built' = Built
  BY BuiltSame
<1>2. Aware'
  BY DEF RegInv, Aware
<1>3. \A r : Level(r)' <=> Level(r)
  BY DEF Level, Ahead
<1>4. SetPart' /\ NextPart'
  BY <1>1, <1>3 DEF RegInv, SetPart, NextPart, Serving
<1>5. OwnPart'
  <2> SUFFICES ASSUME NEW i \in Jobs, job'[i].pc # "idle", job'[i].rep \notin lag',
                      ~job'[i].shared
               PROVE  /\ job'[i].pc = "swap" => job'[i].next = Built'
                      /\ job'[i].kind = "new" /\ job'[i].pc \in {"audit", "undo"} =>
                           rep'[job'[i].rep].set = [Built' EXCEPT ![job'[i].name] = Nothing]
    BY DEF OwnPart
  <2>1. job'[i].rep \in Replicas /\ rep'[job'[i].rep].pc = "serving"
    BY DEF BaseInv, JobsOK, JobOK, Serving
  <2>2. rep'[job'[i].rep].set = rep[job[i].rep].set
    BY <2>1
  <2> QED BY <1>1, <2>2 DEF RegInv, OwnPart
<1> QED BY <1>2, <1>4, <1>5 DEF RegInv

\* A step that changes the table, or a registry, where only replica r may be up
\* to date afterwards.
LEMMA LoneReplica ==
  ASSUME BaseInv', Aware', NEW r, Replicas \ lag' \subseteq {r},
         r \in Replicas \ lag' =>
           /\ rep'[r].pc = "serving" /\ Level(r)' => rep'[r].set = Built'
           /\ rep'[r].pc = "swap" => rep'[r].next = Built'
           /\ \A i \in Jobs : job'[i].pc # "idle" /\ job'[i].rep = r /\ ~job'[i].shared =>
                /\ job'[i].pc = "swap" => job'[i].next = Built'
                /\ job'[i].kind = "new" /\ job'[i].pc \in {"audit", "undo"} =>
                     rep'[r].set = [Built' EXCEPT ![job'[i].name] = Nothing]
  PROVE  RegInv'
<1>1. SetPart' /\ NextPart'
  BY DEF SetPart, NextPart, Serving
<1>2. OwnPart'
  <2>1. \A i \in Jobs : job'[i].pc # "idle" => job'[i].rep \in Replicas
    BY DEF BaseInv, JobsOK, JobOK
  <2> QED BY <2>1 DEF OwnPart
<1> QED BY <1>1, <1>2 DEF RegInv

\* A replica starts.
LEMMA StartingReg ==
  ASSUME RegInv, BaseInv', NEW r \in Replicas, Starting(r)
  PROVE  RegInv'
<1>1. /\ rep \in [Replicas -> Replica] /\ job \in [Jobs -> Job]
      /\ \A i \in Jobs : JobOK(i)
  BY DEF RegInv, BaseInv, ReplicasTypeOK, JobsOK
<1>2. job' = job
  BY DEF Starting, Boot, LoadKey, GenerateAndStore, ImportCheck, ImportInsert, BootBuild,
     Serve, BootFails
<1>3. Aware' /\ \A q : Level(q)' <=> Level(q)
  BY <1>2 DEF RegInv, Aware, Level, Ahead
<1>4. rep[r].pc # "serving"
  BY DEF Starting, Boot, LoadKey, GenerateAndStore, ImportCheck, ImportInsert, BootBuild,
     Serve, BootFails
<1>5. \A i \in Jobs : job[i].pc # "idle" => job[i].rep \in Replicas /\ job[i].rep # r
  BY <1>1, <1>4 DEF JobOK, Serving
<1>6. CASE row' = row /\ lag' = lag /\ ~Serve(r) /\ ~BootBuild(r)
  <2>1. \A q \in Replicas : q # r => rep'[q] = rep[q]
    BY <1>1, <1>6 DEF Starting, Boot, LoadKey, GenerateAndStore, ImportCheck, ImportInsert,
       BootFails
  <2>2. rep'[r].pc # "serving" /\ rep'[r].pc # "swap"
    BY <1>1, <1>6 DEF Starting, Boot, LoadKey, GenerateAndStore, ImportCheck, ImportInsert,
       BootFails, Down, Replica
  <2> QED BY <1>2, <1>6, <2>1, <2>2, QuietStep
<1>7. CASE ImportInsert(r) /\ ~(row' = row /\ lag' = lag)
  <2>1. rep'[r].pc = "build" /\ lag' = lag \cup (Replicas \ {r})
    BY <1>1, <1>7 DEF ImportInsert, Replica
  <2> QED BY <1>2, <1>3, <1>5, <2>1, LoneReplica
<1>8. CASE BootBuild(r)
  <2>1. rep'[r].pc = "swap" /\ rep'[r].next = Built
    BY <1>1, <1>8 DEF BootBuild, Replica
  <2>2. row' = row /\ lag' = lag \ {r} /\ \A q \in Replicas : q # r => rep'[q] = rep[q]
    BY <1>1, <1>8 DEF BootBuild
  <2>3. Built' = Built
    BY <2>2, BuiltSame
  <2>4. SetPart' /\ NextPart'
    BY <1>3, <2>1, <2>2, <2>3 DEF RegInv, SetPart, NextPart, Serving
  <2>5. OwnPart'
    BY <1>2, <1>5, <2>2, <2>3 DEF RegInv, OwnPart
  <2> QED BY <1>3, <2>4, <2>5 DEF RegInv
<1>9. CASE Serve(r)
  <2>1. rep'[r].pc = "serving" /\ rep'[r].set = rep[r].next /\ rep[r].pc = "swap"
    BY <1>1, <1>9 DEF Serve, Replica
  <2>2. row' = row /\ lag' = lag /\ \A q \in Replicas : q # r => rep'[q] = rep[q]
    BY <1>1, <1>9 DEF Serve
  <2>3. Built' = Built
    BY <2>2, BuiltSame
  <2>4. SetPart' /\ NextPart'
    BY <1>3, <2>1, <2>2, <2>3 DEF RegInv, SetPart, NextPart, Serving
  <2>5. OwnPart'
    BY <1>2, <1>5, <2>2, <2>3 DEF RegInv, OwnPart
  <2> QED BY <1>3, <2>4, <2>5 DEF RegInv
<1>10. (row' = row /\ lag' = lag) \/ ImportInsert(r) \/ BootBuild(r)
  BY DEF Starting, Boot, LoadKey, GenerateAndStore, ImportCheck, Serve, BootFails
<1> QED BY <1>6, <1>7, <1>8, <1>9, <1>10

\* A replica runs, and stops.
LEMMA RunningReg ==
  ASSUME RegInv, BaseInv', NEW r \in Replicas,
         Shutdown(r) \/ Ending(r) \/ \E w \in Workers : WorkerTick(r, w) \/ Work(r, w)
  PROVE  RegInv'
<1>1. rep \in [Replicas -> Replica] /\ job \in [Jobs -> Job]
  BY DEF RegInv, BaseInv, ReplicasTypeOK
<1>2. row' = row /\ lag' = lag
  BY DEF Shutdown, Ending, Close, Exit, WorkerTick, Work
<1>3. CASE Shutdown(r)
  <2>1. \A q \in Replicas : q # r => rep'[q] = rep[q]
    BY <1>1, <1>3 DEF Shutdown
  <2>2. rep'[r].pc = "joining"
    BY <1>1, <1>3 DEF Shutdown, Replica
  <2>3. \A i \in Jobs : job'[i] = IF job[i].rep = r THEN NoJob ELSE job[i]
    BY <1>3 DEF Shutdown
  <2>4. Built' = Built
    BY <1>2, BuiltSame
  <2>5. \A i \in Jobs : job'[i].pc # "idle" => job'[i] = job[i] /\ job[i].rep # r
    BY <2>3 DEF NoJob
  <2>6. Aware'
    BY <2>5 DEF RegInv, Aware
  <2>7. ASSUME NEW q \in Replicas, q # r, Level(q)' PROVE Level(q)
    BY <2>3, <2>7 DEF Level, Ahead
  <2>8. SetPart' /\ NextPart'
    BY <1>2, <2>1, <2>2, <2>4, <2>7 DEF RegInv, SetPart, NextPart, Serving
  <2>9. \A i \in Jobs : job'[i].pc # "idle" => job'[i].rep \in Replicas
    BY DEF BaseInv, JobsOK, JobOK
  <2>10. OwnPart'
    BY <1>2, <2>1, <2>4, <2>5, <2>9 DEF RegInv, OwnPart
  <2> QED BY <2>6, <2>8, <2>10 DEF RegInv
<1>4. CASE ~Shutdown(r)
  <2>1. job' = job
    BY <1>4 DEF Ending, Close, Exit, WorkerTick, Work
  <2>2. CASE rep' = rep
    BY <1>2, <2>1, <2>2, QuietStep
  <2>3. CASE rep' = [rep EXCEPT ![r].pc = "closed"] \/ rep' = [rep EXCEPT ![r] = Down]
    <3>1. rep'[r].pc # "serving" /\ rep'[r].pc # "swap"
      BY <1>1, <2>3 DEF Down, Replica
    <3>2. \A q \in Replicas : q # r => rep'[q] = rep[q]
      BY <1>1, <2>3
    <3> QED BY <1>2, <2>1, <3>1, <3>2, QuietStep
  <2> QED BY <1>4, <2>2, <2>3 DEF Ending, Close, Exit, WorkerTick, Work
<1> QED BY <1>3, <1>4

\* A handler begins.
LEMMA BeginReg ==
  ASSUME RegInv, BaseInv', NEW j \in Jobs, Begin(j)
  PROVE  RegInv'
<1>1. PICK r \in Replicas, n \in Names :
        (\E f \in Forms : New(j, r, n, f) \/ EditBegin(j, r, n, f)) \/ DeleteBegin(j, r, n)
  BY DEF Begin
<1>2. BaseInv /\ Aware /\ row \in [Names -> Row] /\ lag \subseteq Replicas
  BY DEF RegInv, BaseInv, ReplicasTypeOK
<1>3. rep' = rep
  BY <1>1 DEF New, EditBegin, DeleteBegin
<1>4. ASSUME NEW f \in Forms, New(j, r, n, f) PROVE RegInv'
  <2>1. Start(j, r, "new", n, f, "audit")
    BY <1>4 DEF New
  <2>2. /\ job[j].pc = "idle" /\ rep[r].pc = "serving"
        /\ job'[j].pc = "audit" /\ job'[j].rep = r /\ job'[j].kind = "new" /\ job'[j].name = n
        /\ \A i \in Jobs : i # j => job'[i].pc = job[i].pc /\ job'[i].rep = job[i].rep
    BY <1>2, <2>1, StartFields DEF Serving
  <2>3. lag' = lag \cup (Replicas \ {r}) \cup (IF \E i \in Busy : job[i].rep = r THEN {r} ELSE {})
    BY <1>4 DEF New
  <2>4. Aware'
    BY <1>2, <2>1, StartAware
  <2>5. ASSUME r \notin lag'
        PROVE  r \notin lag /\ \A i \in Jobs : job[i].rep = r => job[i].pc = "idle"
    BY <2>3, <2>5 DEF Busy
  <2>6. ASSUME r \notin lag' PROVE rep[r].set = Built
    <3>1. Level(r)
      BY <2>5, <2>6 DEF Level, Ahead
    <3> QED BY <2>2, <2>5, <2>6, <3>1 DEF RegInv, SetPart, Serving
  <2>7. Built = [Built' EXCEPT ![n] = Nothing]
    <3>1. row[n].on = FALSE
      BY <1>2, <1>4 DEF New, Row
    <3>2. \A m \in Names : m # n => row'[m] = row[m]
      BY <1>2, <1>4 DEF New
    <3> QED BY <3>1, <3>2 DEF Built, Builds
  <2>8. ~Level(r)'
    BY <2>2 DEF Level, Ahead
  <2>9. ASSUME r \notin lag', NEW i \in Jobs, job'[i].pc # "idle", job'[i].rep = r
        PROVE  i = j
    BY <2>2, <2>5, <2>9
  <2> QED BY <1>3, <2>2, <2>3, <2>4, <2>6, <2>7, <2>8, <2>9, LoneReplica, ZenonT(60)
<1>5. ASSUME NEW f, NEW k, NEW pc, <<k, pc>> \in {<<"edit", "update">>, <<"delete", "audit">>},
             Start(j, r, k, n, f, pc), row' = row, lag' = lag
      PROVE  RegInv'
  <2>1. /\ job[j].pc = "idle" /\ job'[j].pc = pc /\ job'[j].kind = k
        /\ \A i \in Jobs : i # j =>
              /\ job'[i].pc = job[i].pc /\ job'[i].rep = job[i].rep
              /\ job'[i].kind = job[i].kind /\ job'[i].name = job[i].name
              /\ job'[i].next = job[i].next
              /\ job[i].shared => job'[i].shared
    BY <1>2, <1>5, StartFields
  <2>2. Built' = Built
    BY <1>5, BuiltSame
  <2>3. Aware'
    BY <1>2, <1>5, StartAware
  <2>4. ASSUME NEW q, Level(q)' PROVE Level(q)
    BY <2>1, <2>4 DEF Level, Ahead
  <2>5. SetPart' /\ NextPart'
    BY <1>3, <1>5, <2>2, <2>4 DEF RegInv, SetPart, NextPart, Serving
  <2>6. OwnPart'
    <3> SUFFICES ASSUME NEW i \in Jobs, job'[i].pc # "idle", job'[i].rep \notin lag',
                        ~job'[i].shared
                 PROVE  /\ job'[i].pc = "swap" => job'[i].next = Built'
                        /\ job'[i].kind = "new" /\ job'[i].pc \in {"audit", "undo"} =>
                             rep'[job'[i].rep].set = [Built' EXCEPT ![job'[i].name] = Nothing]
      BY DEF OwnPart
    <3>1. CASE i = j
      BY <1>5, <2>1, <3>1
    <3>2. CASE i # j
      BY <1>3, <1>5, <2>1, <2>2, <3>2 DEF RegInv, OwnPart
    <3> QED BY <3>1, <3>2
  <2> QED BY <2>3, <2>5, <2>6 DEF RegInv
<1>6. ASSUME NEW f \in Forms, EditBegin(j, r, n, f) PROVE RegInv'
  BY <1>5, <1>6 DEF EditBegin
<1>7. CASE DeleteBegin(j, r, n)
  BY <1>5, <1>7 DEF DeleteBegin
<1> QED BY <1>1, <1>4, <1>6, <1>7

\* A handler moves on or ends, and changes neither the table nor a registry: it
\* is still ahead of its replica afterwards if it was before, or the replica lags.
LEMMA TableKept ==
  ASSUME RegInv, BaseInv', NEW j \in Jobs, job[j].pc # "idle", OnlyJob(j),
         row' = row, rep' = rep, lag \subseteq lag',
         job'[j].pc = "idle" \/ Stays(j),
         Ahead(j) => (Ahead(j)' /\ job'[j].rep = job[j].rep) \/ job[j].rep \in lag',
         job'[j].pc # "swap",
         job'[j].pc \in {"audit", "undo"} /\ job'[j].kind = "new" =>
           /\ job[j].pc \in {"audit", "undo"} /\ job[j].kind = "new"
           /\ job'[j].name = job[j].name
  PROVE  RegInv'
<1>1. Built' = Built
  BY BuiltSame
<1>2. Aware'
  BY AwareKeeps DEF RegInv
<1>3. ASSUME NEW q, q \notin lag', Level(q)' PROVE Level(q)
  <2> SUFFICES ASSUME NEW i \in Jobs, job[i].rep = q PROVE ~Ahead(i)
    BY DEF Level
  <2>1. CASE i = j
    BY <1>3, <2>1 DEF Level
  <2>2. CASE i # j
    BY <1>3, <2>2 DEF Level, Ahead, OnlyJob
  <2> QED BY <2>1, <2>2
<1>4. SetPart' /\ NextPart'
  BY <1>1, <1>3 DEF RegInv, SetPart, NextPart, Serving
<1>5. OwnPart'
  <2> SUFFICES ASSUME NEW i \in Jobs, job'[i].pc # "idle", job'[i].rep \notin lag',
                      ~job'[i].shared
               PROVE  /\ job'[i].pc = "swap" => job'[i].next = Built'
                      /\ job'[i].kind = "new" /\ job'[i].pc \in {"audit", "undo"} =>
                           rep'[job'[i].rep].set = [Built' EXCEPT ![job'[i].name] = Nothing]
    BY DEF OwnPart
  <2>1. CASE i = j
    BY <1>1, <2>1 DEF RegInv, OwnPart, Stays
  <2>2. CASE i # j
    BY <1>1, <2>2 DEF RegInv, OwnPart, OnlyJob
  <2> QED BY <2>1, <2>2
<1> QED BY <1>2, <1>4, <1>5 DEF RegInv

\* A handler that has its replica for itself is the only one there.
LEMMA Alone ==
  ASSUME Aware, NEW j \in Jobs, job[j].pc # "idle", ~job[j].shared,
         NEW i \in Jobs, job[i].pc # "idle", job[i].rep = job[j].rep
  PROVE  i = j
BY DEF Aware

\* A handler changes the table and goes on to rebuild the registry.
LEMMA TableChanged ==
  ASSUME RegInv, BaseInv', NEW j \in Jobs, job[j].pc # "idle", OnlyJob(j), Stays(j),
         rep' = rep, Unheard(j), Ahead(j)', job'[j].kind # "new", job'[j].pc # "swap"
  PROVE  RegInv'
<1>0. PICK r : r = job[j].rep
  OBVIOUS
<1>1. rep[r].pc = "serving"
  BY <1>0 DEF RegInv, BaseInv, JobsOK, JobOK, Serving
<1>2. Aware'
  BY AwareKeeps DEF RegInv
<1>3. Replicas \ lag' \subseteq {r} /\ (r \notin lag' => ~job[j].shared)
  BY <1>0 DEF Unheard
<1>4. ~Level(r)'
  BY <1>0 DEF Level, Stays
<1>5. ASSUME r \notin lag', NEW i \in Jobs, job'[i].pc # "idle", job'[i].rep = r
      PROVE  i = j
  BY <1>0, <1>3, <1>5, Alone DEF RegInv, OnlyJob
<1> QED BY <1>1, <1>2, <1>3, <1>4, <1>5, LoneReplica

\* The other steps of a handler.
LEMMA HandleReg ==
  ASSUME RegInv, BaseInv', NEW j \in Jobs, Handle(j)
  PROVE  RegInv'
<1>1. /\ BaseInv /\ Aware /\ JobOK(j) /\ lag \subseteq Replicas
      /\ row \in [Names -> Row] /\ rep \in [Replicas -> Replica] /\ job \in [Jobs -> Job]
  BY DEF RegInv, BaseInv, ReplicasTypeOK, JobsOK
<1>2. job[j].pc # "idle"
  BY DEF Handle, Update, Audit, Undo, Erase, Rebuild, Swap
<1>3. PICK r : r = job[j].rep
  OBVIOUS
<1>4. /\ r \in Replicas /\ rep[r].pc = "serving" /\ job[j].name \in Names
      /\ job[j].kind \in {"new", "edit", "delete"}
  BY <1>1, <1>2, <1>3 DEF JobOK, Serving
<1>5. ASSUME End(j), row' = row, rep' = rep, lag \subseteq lag', Ahead(j) => r \in lag'
      PROVE  RegInv'
  BY <1>1, <1>2, <1>3, <1>5, EndFields, TableKept
<1>6. CASE Update(j)
  <2>1. CASE Go(j, "audit") /\ Unheard(j)
    <3>1. job'[j].kind = "edit" /\ job'[j].pc = "audit" /\ OnlyJob(j) /\ Stays(j) /\ rep' = rep
      BY <1>1, <1>6, <2>1, GoFields DEF Update, JobOK
    <3>2. Ahead(j)'
      BY <3>1 DEF Ahead
    <3> QED BY <1>2, <2>1, <3>1, <3>2, TableChanged
  <2>2. CASE End(j) /\ UNCHANGED <<row, lag>>
    BY <1>5, <1>6, <2>2 DEF Update, Ahead
  <2> QED BY <1>6, <2>1, <2>2 DEF Update
<1>7. CASE Audit(j)
  <2>1. job[j].pc = "audit" /\ row' = row /\ rep' = rep
    BY <1>7 DEF Audit
  <2>2. CASE Go(j, IF job[j].kind = "delete" THEN "erase" ELSE "build") /\ lag' = lag
    <3>1. /\ OnlyJob(j) /\ Stays(j) /\ job'[j].kind = job[j].kind
          /\ job'[j].pc = IF job[j].kind = "delete" THEN "erase" ELSE "build"
      BY <1>1, <2>2, GoFields
    <3>2. Ahead(j) => Ahead(j)' /\ job'[j].rep = job[j].rep
      BY <2>1, <3>1 DEF Ahead, Stays
    <3> QED BY <1>2, <2>1, <2>2, <3>1, <3>2, TableKept
  <2>3. CASE job[j].kind = "new" /\ Go(j, "undo") /\ lag' = lag
    <3>1. /\ OnlyJob(j) /\ Stays(j) /\ job'[j].kind = job[j].kind /\ job'[j].pc = "undo"
          /\ job'[j].name = job[j].name
      BY <1>1, <2>3, GoFields
    <3>2. Ahead(j)' /\ job'[j].rep = job[j].rep
      BY <2>3, <3>1 DEF Ahead, Stays
    <3> QED BY <1>2, <2>1, <2>3, <3>1, <3>2, TableKept
  <2>4. CASE /\ job[j].kind # "new" /\ End(j)
             /\ lag' = IF job[j].kind = "edit" THEN lag \cup {r} ELSE lag
    <3>1. Ahead(j) => r \in lag'
      BY <2>1, <2>4 DEF Ahead
    <3> QED BY <1>5, <2>1, <2>4, <3>1
  <2> QED BY <1>3, <1>4, <1>7, <2>2, <2>3, <2>4 DEF Audit
<1>8. CASE Undo(j)
  <2>1. job[j].pc = "undo" /\ job[j].kind = "new" /\ rep' = rep /\ End(j)
    BY <1>1, <1>8 DEF Undo, JobOK
  <2>2. OnlyJob(j) /\ job'[j].pc = "idle"
    BY <1>1, <2>1, EndFields
  <2>3. Aware'
    BY <1>1, <1>2, <2>2, AwareKeeps
  <2>4. CASE lag' = Replicas
    BY <2>3, <2>4, LoneReplica
  <2>5. CASE row' = [row EXCEPT ![job[j].name] = NoRow] /\ Unheard(j)
    <3>1. Replicas \ lag' \subseteq {r} /\ (r \notin lag' => ~job[j].shared /\ r \notin lag)
      BY <1>3, <2>5 DEF Unheard
    <3>2. Built' = [Built EXCEPT ![job[j].name] = Nothing]
      BY <1>1, <1>4, <2>5 DEF Built, Builds, NoRow
    <3>3. r \notin lag' => rep[r].set = [Built EXCEPT ![job[j].name] = Nothing]
      BY <1>2, <1>3, <2>1, <3>1 DEF RegInv, OwnPart
    <3>4. ASSUME r \notin lag', NEW i \in Jobs, job'[i].pc # "idle", job'[i].rep = r
          PROVE  FALSE
      BY <1>1, <1>2, <1>3, <2>2, <3>1, <3>4, Alone DEF OnlyJob
    <3> QED BY <1>4, <2>1, <2>3, <3>1, <3>2, <3>3, <3>4, LoneReplica
  <2> QED BY <1>8, <2>4, <2>5 DEF Undo
<1>9. CASE Erase(j)
  <2>1. CASE Go(j, "build") /\ Unheard(j)
    <3>1. job'[j].kind = "delete" /\ job'[j].pc = "build" /\ OnlyJob(j) /\ Stays(j) /\ rep' = rep
      BY <1>1, <1>9, <2>1, GoFields DEF Erase, JobOK
    <3>2. Ahead(j)'
      BY <3>1 DEF Ahead
    <3> QED BY <1>2, <2>1, <3>1, <3>2, TableChanged
  <2>2. CASE End(j) /\ UNCHANGED <<row, lag>>
    BY <1>5, <1>9, <2>2 DEF Erase, Ahead
  <2> QED BY <1>9, <2>1, <2>2 DEF Erase
<1>10. CASE Rebuild(j)
  <2>1. job[j].pc = "build" /\ row' = row /\ rep' = rep
    BY <1>10 DEF Rebuild
  <2>2. CASE End(j) /\ lag' = lag \cup {r}
    BY <1>5, <2>1, <2>2
  <2>3. CASE /\ job' = [job EXCEPT ![j].next = Built, ![j].pc = "swap"]
             /\ lag' = IF job[j].shared THEN lag ELSE lag \ {r}
    <3>1. /\ OnlyJob(j) /\ Stays(j) /\ job'[j].pc = "swap" /\ job'[j].next = Built
          /\ job'[j].kind = job[j].kind
      BY <1>1, <2>3 DEF OnlyJob, Stays, Job
    <3>2. Built' = Built
      BY <2>1, BuiltSame
    <3>3. Aware'
      BY <1>1, <1>2, <3>1, AwareKeeps
    <3>4. ~Level(r)'
      BY <1>3, <1>4, <3>1 DEF Level, Ahead, Stays
    <3>5. ASSUME NEW q, q # r, Level(q)' PROVE Level(q)
      BY <1>3, <3>1, <3>5 DEF Level, Ahead, OnlyJob
    <3>6. SetPart' /\ NextPart'
      BY <1>4, <2>1, <2>3, <3>2, <3>4, <3>5 DEF RegInv, SetPart, NextPart, Serving
    <3>7. OwnPart'
      <4> SUFFICES ASSUME NEW i \in Jobs, job'[i].pc # "idle", job'[i].rep \notin lag',
                          ~job'[i].shared
                   PROVE  /\ job'[i].pc = "swap" => job'[i].next = Built'
                          /\ job'[i].kind = "new" /\ job'[i].pc \in {"audit", "undo"} =>
                               rep'[job'[i].rep].set = [Built' EXCEPT ![job'[i].name] = Nothing]
        BY DEF OwnPart
      <4>1. CASE i = j
        BY <3>1, <3>2, <4>1
      <4>2. CASE i # j
        <5>1. job'[i] = job[i]
          BY <3>1, <4>2 DEF OnlyJob
        <5>2. job[i].rep = r => job[j].shared
          BY <1>1, <1>2, <1>3, <4>2, <5>1, Alone
        <5>3. job[i].rep \notin lag
          BY <2>3, <5>1, <5>2
        <5> QED BY <2>1, <3>2, <5>1, <5>3 DEF RegInv, OwnPart
      <4> QED BY <4>1, <4>2
    <3> QED BY <3>3, <3>6, <3>7 DEF RegInv
  <2> QED BY <1>3, <1>10, <2>2, <2>3 DEF Rebuild
<1>11. CASE Swap(j)
  <2>1. /\ row' = row /\ End(j) /\ job[j].pc = "swap"
        /\ lag' = IF job[j].shared THEN lag \cup {r} ELSE lag
    BY <1>3, <1>11 DEF Swap
  <2>2. /\ rep'[r].set = job[j].next /\ rep'[r].pc = "serving"
        /\ \A q \in Replicas : q # r => rep'[q] = rep[q]
    BY <1>1, <1>3, <1>4, <1>11 DEF Swap, Replica
  <2>3. OnlyJob(j) /\ job'[j].pc = "idle"
    BY <1>1, <2>1, EndFields
  <2>4. Aware'
    BY <1>1, <1>2, <2>3, AwareKeeps
  <2>5. Built' = Built
    BY <2>1, BuiltSame
  <2>6. r \notin lag' => rep'[r].set = Built
    BY <1>2, <1>3, <2>1, <2>2 DEF RegInv, OwnPart
  <2>7. ASSUME NEW q, q # r, Level(q)' PROVE Level(q)
    BY <1>3, <2>3, <2>7 DEF Level, Ahead, OnlyJob
  <2>8. SetPart' /\ NextPart'
    BY <2>1, <2>2, <2>5, <2>6, <2>7 DEF RegInv, SetPart, NextPart, Serving
  <2>9. OwnPart'
    <3> SUFFICES ASSUME NEW i \in Jobs, job'[i].pc # "idle", job'[i].rep \notin lag',
                        ~job'[i].shared
                 PROVE  /\ job'[i].pc = "swap" => job'[i].next = Built'
                        /\ job'[i].kind = "new" /\ job'[i].pc \in {"audit", "undo"} =>
                             rep'[job'[i].rep].set = [Built' EXCEPT ![job'[i].name] = Nothing]
      BY DEF OwnPart
    <3>1. i # j /\ job'[i] = job[i]
      BY <2>3 DEF OnlyJob
    <3>2. job[i].rep = r => job[j].shared
      BY <1>1, <1>2, <1>3, <3>1, Alone
    <3>3. job[i].rep # r /\ job[i].rep \notin lag
      BY <2>1, <3>1, <3>2
    <3>4. job[i].rep \in Replicas
      BY <3>1 DEF BaseInv, JobsOK, JobOK
    <3> QED BY <2>2, <2>5, <3>1, <3>3, <3>4 DEF RegInv, OwnPart
  <2> QED BY <2>4, <2>8, <2>9 DEF RegInv
<1> QED BY <1>6, <1>7, <1>8, <1>9, <1>10, <1>11 DEF Handle

\* Registry.Reload and the integration handlers: a replica that nobody left
\* behind, and on which no handler is in flight, fans out to what the table says.
THEOREM RegistriesFollowTheTable == ReplicasSpec => []RegistryFollowsTable
<1>1. ReplicasInit => RegInv
  <2> SUFFICES ASSUME ReplicasInit PROVE RegInv
    OBVIOUS
  <2>1. (\A j \in Jobs : job[j].pc = "idle") /\ (\A r \in Replicas : rep[r].pc = "down")
    BY DEF ReplicasInit, NoJob, Down
  <2> QED BY <2>1, BaseInit DEF RegInv, Aware, SetPart, NextPart, OwnPart, Serving
<1>2. RegInv /\ [ReplicasNext]_replicasVars => RegInv'
  <2> SUFFICES ASSUME RegInv, [ReplicasNext]_replicasVars PROVE RegInv'
    OBVIOUS
  <2>1. BaseInv'
    BY BaseStep DEF RegInv
  <2>2. ASSUME NEW r \in Replicas, Starting(r) PROVE RegInv'
    BY <2>1, <2>2, StartingReg
  <2>3. ASSUME NEW r \in Replicas,
               Shutdown(r) \/ Ending(r) \/ \E w \in Workers : WorkerTick(r, w) \/ Work(r, w)
        PROVE  RegInv'
    BY <2>1, <2>3, RunningReg
  <2>4. ASSUME NEW j \in Jobs, Begin(j) \/ Handle(j) PROVE RegInv'
    BY <2>1, <2>4, BeginReg, HandleReg
  <2>5. CASE UNCHANGED replicasVars
    BY <2>1, <2>5, QuietStep DEF replicasVars
  <2> QED BY <2>2, <2>3, <2>4, <2>5 DEF ReplicasNext
<1>3. RegInv => RegistryFollowsTable
  <2> SUFFICES ASSUME RegInv, NEW r \in Replicas \ lag, Serving(r),
                      \A j \in Busy : job[j].rep # r
               PROVE  rep[r].set = Built
    BY DEF RegistryFollowsTable
  <2>1. Level(r)
    BY DEF Level, Ahead, Busy
  <2> QED BY <2>1 DEF RegInv, SetPart
<1> QED BY <1>1, <1>2, <1>3, PTL DEF ReplicasSpec

=============================================================================
