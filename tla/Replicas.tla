------------------------------- MODULE Replicas -------------------------------
(***************************************************************************)
(* The processes: how `authd serve` starts, what its background workers    *)
(* do, how it shuts down, and the two things replicas share through the    *)
(* database and hold in memory - the signing key and the integrations.     *)
(*                                                                         *)
(* A replica loads or creates the signing key, imports the integration of  *)
(* the legacy environment if there is none, builds its provisioner         *)
(* registry from the table, and serves.  The portal's integration handlers *)
(* change the table and rebuild the registry of the replica they run on,   *)
(* and of no other.  Registry.Reload reads the table, and later replaces   *)
(* the set; the lock is held for the replacement only.                     *)
(*                                                                         *)
(* An integration is its name (renames are left out).  Each statement, and *)
(* each replacement of the set, is a step.  What a push sends is in        *)
(* Provisioning and AwsRevocation.                                         *)
(***************************************************************************)
EXTENDS Naturals, FiniteSets

CONSTANTS
  Replicas, Names, Jobs,   \* Jobs: integration handlers in flight
  Nothing,
  Legacy,                  \* the integration of AUTHD_VAULT_SCIM_*, or Nothing
  HasCert,                 \* AUTHD_SCIM_MTLS_CERT/KEY are set
  HasAws,                  \* the AWS configuration can be loaded
  Forms,                   \* what administrators submit: a subset of Form
  MaxBoots,                \* bound: boots, of all replicas
  MaxTicks,                \* bound: ticks of the workers, of all replicas
  MaxChanges,              \* bound: handlers begun
  MaxFaults                \* bound: statements and audit events that fail

\* "bearer" and "mtls" are the auth modes of the SCIM provider, "aws" is the
\* federation provider.
Configs == {"bearer", "mtls", "aws"}
Provider(c) == IF c = "aws" THEN "aws" ELSE "scim"

\* What a form says, and whether a token was typed.
Form == [enabled : BOOLEAN, config : Configs, token : BOOLEAN]

ASSUME ReplicasAssumption ==
  /\ Legacy \in Names \cup {Nothing} /\ Nothing \notin Names /\ {HasCert, HasAws} \subseteq BOOLEAN
  /\ Forms \subseteq Form
  /\ {MaxBoots, MaxTicks, MaxChanges, MaxFaults} \subseteq Nat

VARIABLES
  keys,     \* signing_keys: rows 1..keys, in the order of created_at, all active
  row,      \* app_integrations
  rep,      \* each replica
  worker,   \* the background goroutines of each replica
  job,      \* local state of each handler
  lag,      \* history: replicas nobody told about a change, or whose handler
            \* failed or ran beside another
  boots, ticks, changes, faults

replicasVars == <<keys, row, rep, worker, job, lag, boots, ticks, changes, faults>>
bounds == <<boots, ticks, changes, faults>>

-----------------------------------------------------------------------------
(* State.                                                                  *)

\* token: the row has an encrypted token.
Row == [on : BOOLEAN, enabled : BOOLEAN, config : Configs, token : BOOLEAN]
NoRow == [on |-> FALSE, enabled |-> FALSE, config |-> "bearer", token |-> FALSE]

Registry == [Names -> Configs \cup {Nothing}]
Empty == [n \in Names |-> Nothing]

\* buildProvisioner: which rows it accepts.
Builds(i) == CASE i.config = "bearer" -> i.token
               [] i.config = "mtls" -> HasCert
               [] i.config = "aws" -> HasAws

\* buildProvSet: every enabled row that can be built; the others are skipped.
Built == [n \in Names |-> IF row[n].on /\ row[n].enabled /\ Builds(row[n])
                          THEN row[n].config ELSE Nothing]

BootPcs == {"loadkey", "genkey", "import", "insert", "build", "swap"}
Replica == [pc : BootPcs \cup {"down", "serving", "joining", "closed"},
            signer : Nat, set : Registry, next : Registry]
Down == [pc |-> "down", signer |-> 0, set |-> Empty, next |-> Empty]

Workers == {"provision-sync", "awsfed-reaper", "device-grant-reaper"}
Worker == [pc : {"none", "wait", "run"}, left : SUBSET Names]
NoWorker == [pc |-> "none", left |-> {}]
Waiting == [pc |-> "wait", left |-> {}]

Job == [pc : {"idle", "update", "audit", "undo", "erase", "build", "swap"},
        rep : Replicas \cup {Nothing}, kind : {"new", "edit", "delete", Nothing},
        name : Names \cup {Nothing}, form : Form \cup {Nothing}, next : Registry,
        shared : BOOLEAN]   \* history: another handler ran beside it
NoJob == [pc |-> "idle", rep |-> Nothing, kind |-> Nothing, name |-> Nothing, form |-> Nothing,
          next |-> Empty, shared |-> FALSE]

Busy == {j \in Jobs : job[j].pc # "idle"}
Go(j, pc) == job' = [job EXCEPT ![j].pc = pc]
End(j) == job' = [job EXCEPT ![j] = NoJob]
Fault == faults < MaxFaults /\ faults' = faults + 1 /\ UNCHANGED <<boots, ticks, changes>>
Sound == UNCHANGED bounds

-----------------------------------------------------------------------------
(* Starting.                                                               *)

\* Configuration, migrations and the database connection come first; they
\* share nothing with other replicas.
Boot(r) ==
  /\ rep[r].pc = "down"
  /\ boots < MaxBoots /\ boots' = boots + 1
  /\ rep' = [rep EXCEPT ![r].pc = "loadkey"]
  /\ UNCHANGED <<keys, row, worker, job, lag, ticks, changes, faults>>

\* LoadOrCreate: the newest active key, if there is one.
LoadKey(r) ==
  /\ rep[r].pc = "loadkey"
  /\ rep' = IF keys = 0 THEN [rep EXCEPT ![r].pc = "genkey"]
            ELSE [rep EXCEPT ![r].pc = "import", ![r].signer = keys]
  /\ UNCHANGED <<keys, row, worker, job, lag, bounds>>

\* generateAndStore.  Another replica may have stored a key by now.
GenerateAndStore(r) ==
  /\ rep[r].pc = "genkey"
  /\ keys' = keys + 1
  /\ rep' = [rep EXCEPT ![r].pc = "import", ![r].signer = keys + 1]
  /\ UNCHANGED <<row, worker, job, lag, bounds>>

\* BuildJWKS, on whichever replica is asked.
JwksNewest == IF keys = 0 THEN {} ELSE {keys}   \* wrong on purpose
Jwks == 1 .. keys

\* autoImportLegacyVaultEnv: the table must be empty.
ImportCheck(r) ==
  /\ rep[r].pc = "import"
  /\ rep' = [rep EXCEPT ![r].pc = IF Legacy # Nothing /\ \A n \in Names : ~row[n].on
                                  THEN "insert" ELSE "build"]
  /\ UNCHANGED <<keys, row, worker, job, lag, bounds>>

LegacyRow == [on |-> TRUE, enabled |-> TRUE, config |-> "bearer", token |-> TRUE]

\* Any error, a conflict with another replica's import too, is logged only.
ImportInsert(r) ==
  /\ rep[r].pc = "insert"
  /\ \/ /\ ~row[Legacy].on /\ Sound
        /\ row' = [row EXCEPT ![Legacy] = LegacyRow]
        /\ lag' = lag \cup (Replicas \ {r})
     \/ /\ UNCHANGED <<row, lag>>
        /\ IF row[Legacy].on THEN Sound ELSE Fault
  /\ rep' = [rep EXCEPT ![r].pc = "build"]
  /\ UNCHANGED <<keys, worker, job>>

BootBuild(r) ==
  /\ rep[r].pc = "build"
  /\ rep' = [rep EXCEPT ![r].pc = "swap", ![r].next = Built]
  /\ lag' = lag \ {r}
  /\ UNCHANGED <<keys, row, worker, job, bounds>>

\* The first Reload is done; the workers start, and the server listens.
Serve(r) ==
  /\ rep[r].pc = "swap"
  /\ rep' = [rep EXCEPT ![r].pc = "serving", ![r].set = rep[r].next, ![r].next = Empty]
  /\ worker' = [worker EXCEPT ![r] = [w \in Workers |-> Waiting]]
  /\ UNCHANGED <<keys, row, job, lag, bounds>>

\* runServe returns an error.
BootFails(r) ==
  /\ rep[r].pc \in {"loadkey", "genkey", "build"}
  /\ Fault
  /\ rep' = [rep EXCEPT ![r] = Down]
  /\ UNCHANGED <<keys, row, worker, job, lag>>

-----------------------------------------------------------------------------
(* The workers, and the end.                                               *)

Serving(r) == rep[r].pc = "serving"
Loaded(r) == {n \in Names : rep[r].set[n] # Nothing}

\* A tick: runPeriodicProvisionSync and runAWSFedReaper take a snapshot of the
\* registry, runDeviceGrantReaper has one statement to run.
WorkerTick(r, w) ==
  LET targets == CASE w = "provision-sync" -> Loaded(r)
                   [] w = "awsfed-reaper" -> {n \in Loaded(r) : rep[r].set[n] = "aws"}
                   [] w = "device-grant-reaper" -> {}
  IN  /\ Serving(r) /\ worker[r][w].pc = "wait"
      /\ ticks < MaxTicks /\ ticks' = ticks + 1
      /\ w # "device-grant-reaper" => targets # {}
      /\ worker' = [worker EXCEPT ![r][w] = [pc |-> "run", left |-> targets]]
      /\ UNCHANGED <<keys, row, rep, job, lag, boots, changes, faults>>

\* One target, or the end of the tick.  A cancelled context ends the loop at the
\* next target, and the worker with it; a call that hangs does not return.
Work(r, w) ==
  LET k == worker[r][w]
  IN  /\ k.pc = "run"
      /\ \/ /\ Serving(r)
            /\ \E n \in k.left : worker' = [worker EXCEPT ![r][w].left = @ \ {n}]
         \/ /\ Serving(r) => k.left = {}
            /\ worker' = [worker EXCEPT ![r][w] = IF Serving(r) THEN Waiting ELSE NoWorker]
      /\ UNCHANGED <<keys, row, rep, job, lag, bounds>>

\* The server has stopped, by a signal or an error; requests have had their ten
\* seconds, and those that have not ended end now; the context is cancelled,
\* and the workers that wait for their next tick return.
Shutdown(r) ==
  /\ Serving(r)
  /\ rep' = [rep EXCEPT ![r].pc = "joining"]
  /\ job' = [j \in Jobs |-> IF job[j].rep = r THEN NoJob ELSE job[j]]
  /\ worker' = [worker EXCEPT ![r] = [w \in Workers |->
                  IF worker[r][w].pc = "wait" THEN NoWorker ELSE worker[r][w]]]
  /\ UNCHANGED <<keys, row, lag, bounds>>

\* Every worker has returned, or five seconds have passed: the database is closed
\* then under the worker that still runs.
Close(r) ==
  /\ rep[r].pc = "joining"
  /\ rep' = [rep EXCEPT ![r].pc = "closed"]
  /\ UNCHANGED <<keys, row, worker, job, lag, bounds>>

Exit(r) ==
  /\ rep[r].pc = "closed"
  /\ rep' = [rep EXCEPT ![r] = Down]
  /\ worker' = [worker EXCEPT ![r] = [w \in Workers |-> NoWorker]]
  /\ UNCHANGED <<keys, row, job, lag, bounds>>

-----------------------------------------------------------------------------
(* The portal's integration handlers.                                      *)

\* A handler starts on replica r, beside the others that are in flight there.
Start(j, r, k, n, f, pc) ==
  LET beside == {i \in Busy : job[i].rep = r}
  IN  /\ job[j].pc = "idle" /\ Serving(r)
      /\ changes < MaxChanges /\ changes' = changes + 1 /\ UNCHANGED <<boots, ticks, faults>>
      /\ job' = [i \in Jobs |->
                   IF i = j THEN [NoJob EXCEPT !.pc = pc, !.rep = r, !.kind = k, !.name = n,
                                               !.form = f, !.shared = beside # {}]
                   ELSE IF i \in beside THEN [job[i] EXCEPT !.shared = TRUE] ELSE job[i]]

\* The table changes: the other replicas do not hear of it.
Unheard(j) ==
  lag' = lag \cup (Replicas \ {job[j].rep}) \cup (IF job[j].shared THEN {job[j].rep} ELSE {})

\* handlePortalAdminIntegrationNew: validate, and CreateIntegration, which
\* refuses a name that is taken.
New(j, r, n, f) ==
  /\ f.token = (f.config = "bearer")
  /\ ~row[n].on
  /\ Start(j, r, "new", n, f, "audit")
  /\ row' = [row EXCEPT ![n] = [on |-> TRUE, enabled |-> f.enabled, config |-> f.config,
                                token |-> f.token]]
  /\ lag' = lag \cup (Replicas \ {r}) \cup (IF \E i \in Busy : job[i].rep = r THEN {r} ELSE {})
  /\ UNCHANGED <<keys, rep, worker>>

\* mTLS clears the token, a typed one replaces it, otherwise the one read stays.
TokenAfter(i, f) == f.config # "mtls" /\ (i.token \/ f.token)

\* handlePortalAdminIntegrationEdit: the row, the form, which cannot change the
\* provider, validate, and the row to store.
EditBegin(j, r, n, f) ==
  /\ row[n].on /\ Provider(f.config) = Provider(row[n].config)
  /\ f.token => f.config = "bearer"
  /\ Start(j, r, "edit", n, [f EXCEPT !.token = TokenAfter(row[n], f)], "update")
  /\ UNCHANGED <<keys, row, rep, worker, lag>>

\* UpdateIntegration.
Update(j) ==
  LET n == job[j].name  f == job[j].form
  IN  /\ job[j].pc = "update"
      /\ \/ /\ row[n].on /\ Sound
            /\ row' = [row EXCEPT ![n] = [on |-> TRUE, enabled |-> f.enabled, config |-> f.config,
                                          token |-> f.token]]
            /\ Go(j, "audit") /\ Unheard(j)
         \/ /\ IF row[n].on THEN Fault ELSE Sound
            /\ End(j) /\ UNCHANGED <<row, lag>>
      /\ UNCHANGED <<keys, rep, worker>>

DeleteBegin(j, r, n) ==
  /\ row[n].on
  /\ Start(j, r, "delete", n, Nothing, "audit")
  /\ UNCHANGED <<keys, row, rep, worker, lag>>

\* logAudit, before a deletion and after the other changes.
Audit(j) ==
  LET k == job[j].kind
  IN  /\ job[j].pc = "audit"
      /\ \/ Go(j, IF k = "delete" THEN "erase" ELSE "build") /\ Sound /\ UNCHANGED lag
         \/ /\ Fault
            /\ IF k = "new" THEN Go(j, "undo") ELSE End(j)
            /\ lag' = IF k = "edit" THEN lag \cup {job[j].rep} ELSE lag
      /\ UNCHANGED <<keys, row, rep, worker>>

Undo(j) ==
  /\ job[j].pc = "undo"
  /\ \/ Sound /\ row' = [row EXCEPT ![job[j].name] = NoRow] /\ Unheard(j)
     \/ Fault /\ UNCHANGED row /\ lag' = Replicas
  /\ End(j)
  /\ UNCHANGED <<keys, rep, worker>>

\* Wrong on purpose: the registry is left as it is.
EraseQuietly(j) ==
  /\ job[j].pc = "erase"
  /\ row' = [row EXCEPT ![job[j].name] = NoRow] /\ Unheard(j) /\ End(j) /\ Sound
  /\ UNCHANGED <<keys, rep, worker>>

\* DeleteIntegration.
Erase(j) ==
  LET n == job[j].name
  IN  /\ job[j].pc = "erase"
      /\ \/ row[n].on /\ Sound /\ row' = [row EXCEPT ![n] = NoRow] /\ Go(j, "build") /\ Unheard(j)
         \/ (IF row[n].on THEN Fault ELSE Sound) /\ End(j) /\ UNCHANGED <<row, lag>>
      /\ UNCHANGED <<keys, rep, worker>>

\* reloadProvisioners, Registry.Reload: the new set is built without the lock.
Rebuild(j) ==
  /\ job[j].pc = "build"
  /\ \/ /\ job' = [job EXCEPT ![j].next = Built, ![j].pc = "swap"] /\ Sound
        /\ lag' = IF job[j].shared THEN lag ELSE lag \ {job[j].rep}
     \/ End(j) /\ Fault /\ lag' = lag \cup {job[j].rep}
  /\ UNCHANGED <<keys, row, rep, worker>>

Swap(j) ==
  /\ job[j].pc = "swap"
  /\ rep' = [rep EXCEPT ![job[j].rep].set = job[j].next]
  /\ End(j)
  /\ lag' = IF job[j].shared THEN lag \cup {job[j].rep} ELSE lag
  /\ UNCHANGED <<keys, row, worker, bounds>>

-----------------------------------------------------------------------------

ReplicasInit ==
  /\ keys = 0
  /\ row = [n \in Names |-> NoRow]
  /\ rep = [r \in Replicas |-> Down]
  /\ worker = [r \in Replicas |-> [w \in Workers |-> NoWorker]]
  /\ job = [j \in Jobs |-> NoJob]
  /\ lag = {}
  /\ boots = 0 /\ ticks = 0 /\ changes = 0 /\ faults = 0

Starting(r) == Boot(r) \/ LoadKey(r) \/ GenerateAndStore(r) \/ ImportCheck(r)
               \/ ImportInsert(r) \/ BootBuild(r) \/ Serve(r) \/ BootFails(r)

Ending(r) == Close(r) \/ Exit(r)

Begin(j) ==
  \E r \in Replicas, n \in Names :
    \/ \E f \in Forms : New(j, r, n, f) \/ EditBegin(j, r, n, f)
    \/ DeleteBegin(j, r, n)

Handle(j) == Update(j) \/ Audit(j) \/ Undo(j) \/ Erase(j) \/ Rebuild(j) \/ Swap(j)

ReplicasNext ==
  \/ \E r \in Replicas :
       \/ Starting(r) \/ Shutdown(r) \/ Ending(r)
       \/ \E w \in Workers : WorkerTick(r, w) \/ Work(r, w)
  \/ \E j \in Jobs : Begin(j) \/ Handle(j)

ReplicasSpec == ReplicasInit /\ [][ReplicasNext]_replicasVars

-----------------------------------------------------------------------------
(* Properties.                                                             *)

ReplicasTypeOK ==
  /\ keys \in Nat /\ row \in [Names -> Row] /\ rep \in [Replicas -> Replica]
  /\ worker \in [Replicas -> [Workers -> Worker]] /\ job \in [Jobs -> Job]
  /\ lag \subseteq Replicas
  /\ {boots, ticks, changes, faults} \subseteq Nat

\* Whatever key a serving replica signs with is in the key set any replica
\* publishes, also when replicas that start together each store a key.
SignerIsPublished == \A r \in Replicas : Serving(r) => rep[r].signer \in Jwks

\* When no handler is in flight on it, a serving replica fans out to exactly
\* the integrations that are enabled and can be built, configured as the table
\* says, unless a change was made on another replica, a step failed, or two
\* handlers ran side by side, and nobody has reloaded it since.
RegistryFollowsTable ==
  \A r \in Replicas \ lag :
    Serving(r) /\ (\A j \in Busy : job[j].rep # r) => rep[r].set = Built

=============================================================================
