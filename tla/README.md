# Verification of authd (tokyo3-auth)

TLA+ models of the parts of `authd`, an OpenID Connect identity provider in Go,
whose correctness depends on concurrency, failures and order; TLC instances that
check them; and TLAPS proofs of what the token endpoint, the sign-in, device grants, AWS
access and its revocation, clients with back-channel logout, users and groups, and the
replicas promise.

    cd tla
    tlc -workers 2 -config Issuer_safety.cfg MCIssuer
    tlapm TokenServiceProofs.tla

`PROJECT.json` lists the runs with what each shows, the source lines behind every
definition, the hazards of the code, and the theorems.

## The system

One or more identical processes (replicas), a PostgreSQL database (package
`store/postgres`; `store/sqlite` is its twin for tests), and a NATS JetStream audit
journal. Every HTTP request is a goroutine; requests share rows, and in memory only the
registry of provisioners, which each replica has for itself. Each SQL statement is
atomic, two operations (`RotateRefreshToken`, `ReplaceGroupMembers`) are transactions,
and between two statements anything may happen: another request, a tick of a background
worker, a cancelled context, a crash. Publishing an audit event is synchronous and
fail-closed: the handler waits for the acknowledgement and answers 503 without it. The
handlers publish first what takes something away, and last, with an undo, what adds a
row (`audit.go`).

| Component | State | Operations | What is hard | What is verified of it |
|---|---|---|---|---|
| Token endpoint (`api/oauth2.go`, `postgres_sessions.go`, `postgres_grants.go`) | `grants`, `sessions`, `retired_refresh_tokens` | code exchange, client credentials, refresh, revoke, sign-out | concurrent redemptions and refreshes, replays, failures after a write, stale deadlines | single use, complete replay record, one accepted pair per session, hard ceiling, nothing handed out unrecorded, the dead stay dead; not that a refused refresh leaves the token usable (`token_refusal`) |
| Device grant (`api/web_portal_device.go`, `postgres_device_grants.go`) | `device_grants` | authorize, enter code, approve, deny, poll, redeem, reap | several browsers and several polls on one row, read-then-claim | one session, for the one approver, never after a denial |
| AWS revocation (`provision/awsfed`, `postgres_awsfed.go`) | `aws_revoked_users`, the inline policy at AWS | revoke, reap | two read-modify-write loops over a remote resource, failures half way | who was revoked stays denied until the session ends, unless a list read earlier overtakes the revocation, which happens (`aws_overlap`); not that a failed push is repeated (`aws_retry`) |
| Login, lockout, MFA (`api/oauth2.go`, `mfa`) | `users.failed_attempts`, `locked_until`, `mfa_enabled`, factors, cookies | password, TOTP, WebAuthn, silent SSO | lost updates of the counter, flags read before a second factor, cookies that outlive what they vouch for | a mark for a second factor is earned; confidential clients get no code without one; nothing about the lock, which a late attempt can clear |
| Portal sessions (`api/web_portal.go`, `web_portal_step_up.go`) | `sessions` of the portal client | login, rotation, slide, step-up, factor pages, resets, logout | resets in several statements against logins in several pages, list-then-delete | the portal's password and TOTP pages open nothing on a temporary password, though `/authorize` does (`signin_rotation`); sessions end at the cap |
| Back-channel logout (`api/backchannel_logout.go`) | goroutines in flight | broadcast, push | fire-and-forget, listed before the delete, five seconds, outcome journalled if at all | a relying party that keeps a session is journalled or one of the named exceptions, time-outs among them (`parties_silence`); every push settles |
| Clients (`api/admin.go`, `web_portal.go`, `postgres_clients.go`) | `clients` | create, edit, rotate, delete | four statements to an edit, cascades | a journalled form holds until a later or overlapping one; no unrecorded secret |
| Users and groups (`api/admin.go`, `web_portal.go`, `web_portal_groups.go`, `authd admin`) | `users`, `scim_groups`, `scim_group_members` | create, register, edit, delete, memberships | audit before or after the statement, undo, first administrator | the journal accounts for every row, named failures aside; at most one bootstrap administrator |
| Provisioning (`provision`, `provision/scim`) | `external_ids`, the SCIM target | fan-out, full sync | lists that are stale when sent, cached ids, calls that fail after they took effect | target and tables agree where nothing failed or overlapped, and only there |
| Integrations, registry (`web_portal_integrations.go`, `registry.go`) | `app_integrations`, a set per replica | create, edit, delete, reload, legacy import | reload reads outside the lock, other replicas are not told | the registry of a replica follows the table where handlers on it neither fail nor overlap and no other replica changes it |
| Signing keys (`jwt/store.go`) | `signing_keys` | load or create | replicas that start together | what is signed can be verified |
| Process (`cmd/authd/main.go`) | workers | boot, tick, shutdown | join with a deadline | nothing of the join: after five seconds the database is closed under the workers, as the code says |
| AWS access (`web_portal_aws.go`, `aws_credentials.go`, `web_portal_step_up.go`, `web_portal_aws_admin.go`) | `aws_accounts`, `aws_roles`, `aws_role_assignments` | console, step-up, vending, administration | entitlement, assignments and groups read one after the other; region and role travel through the browser | credentials only for the entitled, after a fresh factor, for an offered region; tables and journal account for each other |
| Password policy, rate limits, discovery, pages, helper CLI | little or none | - | - | mostly not modelled, see PROJECT.json |

Components meet in the tables: a device redemption and a code exchange both end in
`mintTokenResponseWithMFAAt`, which creates a row of `sessions`; portal logout,
resets and account deletion delete them; deactivation fans out to the provisioners,
AWS revocation among them; deleting an account cascades to codes, sessions, memberships
and external ids and sets `device_grants.user_id` to NULL; memberships decide who may
assume an AWS role.

## Modules

| Module | What it is |
|---|---|
| `TokenService` | the token endpoint, one action per database statement or publish of a handler |
| `TokenContract` | what it promises: no requests, no time, atomic operations |
| `TokenImplements` | the refinement mapping and `ImplementsContract` |
| `TokenServiceProofs` | the theorems about both, and the refinement |
| `DeviceGrant`, `DeviceGrantProofs` | RFC 8628 device grants; theorems |
| `AwsRevocation`, `AwsRevocationProofs` | revocations, the reaper, and AWS as they use it; theorems |
| `SignIn` | passwords, second factors, rotation, silent SSO, portal sessions, the user's and the administrator's account pages |
| `SignInProofs` | its theorems |
| `Provisioning`, `ProvisioningProofs` | users and groups from the handlers that change them to the SCIM target; theorems |
| `Replicas` | start-up, workers, shutdown, signing keys, integrations and the registry |
| `ReplicasProofs` | its theorems |
| `RelyingParties`, `RelyingPartiesProofs` | clients, their administration, and back-channel logout; theorems |
| `AwsAccess`, `AwsAccessProofs` | who gets AWS credentials, and the administration behind it; theorems |
| `MCIssuer` | TLC instance of TokenService (with TokenImplements) and Replicas |
| `MCLogins` | TLC instance of DeviceGrant and AwsRevocation |
| other `MC...` | TLC instances: symmetry sets and constants that are not literals |

`MCIssuer` and `MCLogins` put two modules side by side that share no state: one moves only
while the other is in its initial state. A behaviour of either instance is a behaviour of
one module, with the other at rest, so a run of it checks what two runs would. They
are why the definitions of Replicas and AwsRevocation have names of their own
(`ReplicasInit`, `AwsNext`, `clock`, `People`).

Definitions beginning with "Wrong on purpose" are variants with a bug put in. No
specification uses them; substituting one for the definition it imitates makes the
property it is paired with in PROJECT.json fail, which shows the property bites.

### TokenService

A token is a number, fresh when generated; pair `p` stands for an access and a refresh
token made together, since the code always stores and replaces them together. A
session is named by its first pair. `grants`, `sessions` and `retired` are the tables,
`req` the local variables and the program point of each request in flight, `journal`
the audit events. `handed`, `minted`, `rotated` and `family` are history
and guard nothing but `handed`, which also says which refresh tokens somebody can
present: anybody holding a copy may do so, at any time, any number of times.

| Code | Actions |
|---|---|
| `issueCodeAndRedirect` | `IssueCode` |
| `handleTokenAuthCode` | `ExchangeBegin`, `ExchangeMark`, `ExchangeMint`, `AuditIssued` |
| `handleTokenClientCreds` | `ClientCredentials`, `AuditIssued` |
| `handleTokenRefresh` | `RefreshBegin`, `RefreshRotate`, `AuditRefreshed` |
| `revokeOnRefreshReuse` | `ReuseLookup`, `ReuseRevoke`, `ReuseAudit` |
| `handleRevoke` | `RevokeBegin`, `RevokeAudit`, `RevokeDelete` |
| `DeleteSessionsByUserID`, `DeleteUser` | `SignOut`, `DeleteUser` |
| cancelled context, failed statement or signature, crash | `Abort` |

A request that is refused before it writes anything is a stuttering step. `Abort` may
end a request at any of its labels, so an error return between two writes needs no
action of its own. An audit call has three outcomes: acknowledged; failed; stored, but
the acknowledgement did not arrive, which the handler cannot tell from failed.
Scopes, PKCE and redirect URIs, MFA marks and ID tokens are not there: they decide
whether a request is refused before its first write, or what a token says.

### DeviceGrant

`rows` is the table, `shown` the confirmation pages open in browsers, `known` the
grants whose codes reached the device. `Authorize`/`AuditCreated`, `EnterCode`,
`Confirm`, `Approve`/`Deny`, `AuditDecision`, `PollBegin`, `RecordPoll`, `Redeem`,
`LoadApprover`, `Mint`, `AuditRedeemed`, `Reap`, `DeleteUser` and `SetActive` follow
the handlers in order. A form may be submitted twice, late, or from two browsers. The
status `expired` that `model.go` lists is never written by the code, and has no value
here: expiry is a comparison at read time, and the reaper deletes. The session a
redemption creates is only counted (`minted`); its later life is TokenService's. The
error of `MarkDeviceGrantDenied` is dropped (`web_portal_device.go:228`), and the denial is
journalled whether it took effect or not: `Deny` has all three outcomes, the row denied,
the row no longer pending, and the statement failed.

### AwsRevocation

`table` is `aws_revoked_users`, `policy` the users each role's inline policy denies,
`sts` the live STS sessions. A revocation (`RevokeBegin`, `RevokeAdd`,
`RevokeCollect`, `RevokePut`) and a sweep (`ReapBegin`, `ReapList`, `ReapDelete`,
`ReapCollect`, `ReapPush`) go through the roles in any order, one database statement
or AWS call per step. `Faults` says what may fail or die: a revocation's statements, its
call of AWS, or all of a sweep; a `PutRolePolicy` that fails may have taken effect. No lock
keeps a revocation and a sweep, or two revocations, apart, and nothing does in the model.
`promised` holds when each user was last revoked with an acknowledged push. `overtaken`
holds the users whose revocation somebody has undone who had read the rows before it: a
push of a list that lacks the new row (`behind`, what a worker's list misses), or the
deletion of a row that was listed as expired and renewed since. `RevocationSticks` has no
such exception and fails; `RevocationHolds` has it and holds: whatever else overlaps or
fails, and wherever the clock stands against the cutoff of `PastCutoff`. `quiet` marks a
sweep beside which no revocation ran; `SweepRetries` speaks of those. `Federate` stands
for the console tile and for credential vending.

### SignIn

`acct` holds one record per account: the row of `users` as far as signing in reads it,
and which factors there are. `sess` are the portal's rows of `sessions`, `handed` the
ones whose cookie a browser has. Between the pages of one sign-in the server keeps
nothing: the browser brings a sealed `portal_login` or `auth_state` cookie
(`cookies`), and since clearing one only asks the browser to forget it, it may come
back until it expires. `known` are the passwords somebody can type, `temps` the ones an
administrator's reset generated, known to nobody before the page that shows them.

| Code | Actions |
|---|---|
| `handleAuthorizePost`, `handlePortalLoginPOST` | `PasswordCheck`, `ClearFailed`; `WrongPassword`, `BumpFailed` |
| `handlePortalChangePassword` | `ChangePassword`, `Rotate`, `Reload` |
| `handlePortalLoginMFA`, `handlePortalLoginMFAWebAuthnFinish`, `handleMFATOTPPost`, `handleSSOWebAuthnFinish` | `SecondFactor`, `Verify` |
| `createPortalSession` | `Create`, `Hand` |
| `ensurePortalCookie` | `SwitchUser`, `Seat` |
| `trySilentSSO` | `SilentSSO` |
| `issueCodeAndRedirect` | `IssueCode` |
| `portalAuth` and the page behind it | `Visit`, then `SelfPassword`, `SelfStep`, `StepVerify`/`StepMark` or `Logout` |
| `handlePortalAdminUserEdit`, `...ResetPassword`, `...CompromisedReset`, `...ClearMFA` | `Administer`, then `SetActive`, or `ResetPassword`, `ResetFlag`, `Wipe`, `ResetSessions` |
| failed statement or journal, crash | `Abort` |

Where the code drops an error and goes on (`TryWrite`, `Slide`, `Seat`,
`ResetSessions`), so does the model. A flow is the portal's own or that of a public
or a confidential client; that is all the policy asks of a client. A code is judged at
the label that is about to store it, a session when it is stored; its row's later life
as an RP session is TokenService's. Passwords are numbered per account. The 90-day
password age, `login_hint`, `max_age` and `prompt` only make the code ask for a
password more often and are left out, as are WebAuthn challenges (a row deleted on
use, which no property here depends on) and the back-channel notifications.

### Provisioning

`row`, `group`, `ext` are the tables, `vault` and `vgroup` the target, `job` the handlers
and syncs in flight, each with what it has read. A handler is a chain of labels in the
order of its statements; the chains share the labels of the SCIM client.

| Code | Actions |
|---|---|
| `handleAdminCreateUser`, `handlePortalRegisterPOST`/`handleRegisterPOST`, `handlePortalAdminUserNew`, `authd admin user create` | `AdminCreate`, `Register`, `PortalNew`, `CommandCreate`, then `CountUsers`/`Promote`, `SetActive`, `SetNewAdmin` |
| `handleAdminUpdateUser`, `handlePortalAdminUserEdit` | `UpdateBegin`, `EditBegin`, `Write`, `SetAdmin`, `Reread` |
| `handleAdminDeleteUser`, `handlePortalAdminUserDelete` | `DeleteBegin`, `DeleteUnread`, `EraseUser` |
| `syncUserGroups` | `ListGroups`, `ChangeMember`, `ReadGroup` |
| the group pages | `GroupNew`, `GroupEdit`, `GroupDelete`, `CreateGroup`, `UpdateGroup`, `StoreMembers`, `EraseGroup` |
| `logAudit`, `undoOnAuditFailure` | `Audit`, `AuditFails`, `Undo` |
| `SyncAll` | `SyncBegin`, `ListGroups` |
| `scim.Provisioner` | `LookUp`, `Find`, `CallUser`, `Forget`, `Post`, `Remember`, `CallGroup`, `CallFails` |
| a crash; a target that changes by itself | `Crash`, `TargetCreates`, `TargetLoses` |

The design promises eventual agreement only, by the next sync, and not even that for a
deletion. `UsersAgree` and `GroupsAgree` say exactly how far it goes. `dirty` holds the
users and groups for which a call failed, or whose jobs overlapped, since a job that had
them for itself pushed them last; all others agree whenever nobody has them in hand. So
the properties break if a handler pushes something other than what it stored, if the
cache of ids is trusted where it is stale, or if a step forgets a group. What the model
shows and `dirty` excuses: a sync that read before a deactivation pushes `active: true`
after it; when `ListUsers` fails in `syncUserGroups` the group is pushed without its
members; a portal deletion whose first read fails deletes without telling the target; a
failed `ReplaceGroupMembers` is logged and the unsaved list is pushed; a new user whose
audit event fails is deleted here, while the groups have already created it there; a
failed deletion at the target is never repeated, since a sync only sends what exists.
Two first registrations that overlap may both count two users, and nobody becomes
administrator: `OneBootstrapAdmin` says at most one, never exactly one.

So the overlap of `SyncAll` with other handlers, and the failed reads and saves of
`syncUserGroups`, are in the model and no property covers them; PROJECT.json lists both
hazards without one.

### Replicas

`keys` counts the rows of `signing_keys`; `rep` is what each process holds (the signing key,
the registry's set, where its start or shutdown stands), `worker` its three goroutines, `job`
the integration handlers on it. `Boot`, `LoadKey`, `GenerateAndStore`, `ImportCheck`,
`ImportInsert`, `BootBuild`, `Serve` follow `runServe`; `Shutdown`, `Close`, `Exit` its end.
`Close` closes the database when the workers have returned or five seconds are over, so with or
without them. Whether a configuration can be built (`Builds`) is fixed for a process by
`HasCert` and `HasAws`. `Rebuild` and `Swap` are the two halves of `Registry.Reload`: the
comment at `registry.go:26` says the rebuild happens under the write lock, the code takes the
lock for the replacement only, so the older of two lists may win. `lag` holds the replicas
whose registry need not follow the table: a change made elsewhere, a failed step, two handlers
side by side. The disagreement at `registry.go:26` is therefore in the model, and no property
states it. Also in the model: an edit from mTLS to bearer without a token is stored and not
loadable; a deleted last integration comes back at the next boot while the legacy variables are
set.

### RelyingParties

`client` is the table with the form each of its four groups of columns came from, `sess`
and `rp` say who has a session here and at the client, `push` are the goroutines. The
handlers that sign a user out share `List`, `GetUser`, `Broadcast`, `Wipe`; deletions and
resets journal first (`AuditFirst`). `Revoke` is `handleRevoke` or a detected replay taking
the last row a user has with a client, about which the client hears nothing, then or at
a later sign-out, which lists only clients with a row. A push is answered (`Accepts`), fails
(`Fails`) and is journalled (`Outcome`), or gets no answer within five seconds (`TimesOut`);
then the context it would journal under is over as well, so that this failure is not on
record, against the comment at `backchannel_logout.go:37`: `TimeOutsReported` states the
comment, and fails.

`NoSilentSurvivor` accounts for every client that keeps a session of a user who has none here: it
is being told, or the failure is journalled, or it is in one of three histories. `missed`:
no URI, deleted, opened between the list and the delete, a failed statement or audit event,
a crash. `unanswered`: timed out. `revoked`: the row went earlier. What is left to go wrong
is the order of list, broadcast, login and deletion, over several handlers and pushes.

An edit is `EditBegin`, `UpdateClient`, three `UpdatePart`s and `AuditLast`, none of which
a transaction holds together. An edit whose event fails is answered 503 and stays stored:
`audit.go:109-111` and `docs/upgrade-checklist.md:142-144` say so, which qualifies
`README.md:50`. What can be asked is the converse, `EditTakesHold`: a form the journal has
is in force in every group of columns, or a later edit is, also when that one stopped half
way. `beside` excepts an edit by the ones that ran beside it, `unset` a
statement of the creation that failed, which the handler only logs. An edit that makes a
client public journals last as well, although `audit.go:102` wants weakening changes
journalled first.

### AwsAccess

`tab` are the three tables, `member` and `active` what the request reads of users and
groups, `mfa` when the portal session last saw a second factor. A request is `Console`,
`StepUp` or `AWSCredentials`, then `GetUser` or `GetRole`, `CheckRole`, `ListAssignments`,
`ListGroups`, `Assume`, `AuditAssumed`; each read sees the tables of its moment. `was`,
`offered` and `moved` remember what was true in the course of the request, which is what
the properties compare with. Regions keep their code: `ParseAWSRegions`,
`eligibleAWSRegions`, `awsRegionOptions` and `resolveAWSRegion` are functions of the
server's list, the default and the role's own list, which may hold regions the server
no longer offers. The console does not look at `active`, the API does, and
`EntitledInRequest` says so; the API asks only for a session opened with MFA, however
long ago. A request that dies hands nothing over, and is a request that takes no more steps.

The administration's handlers are one chain: `AuditConfig` before a deletion and
a change of regions, after an insertion, which `Undo` takes back. The journal acknowledges;
or fails; or stores the event (`Stored`) and the acknowledgement is lost, and the handler
refuses all the same: a deletion on record that never happened, an insertion on record
that was taken back. `Die` ends a handler between any two of its steps.
`ConfigJournalled` says that rows and journal account for each other through all of that,
cascades included. Its exceptions are histories: `left`, rows of a handler that died or could
not undo, `undone`, rows taken back although the journal may have them, and `unread`, rows
deleted without an event because reading them for the event had failed
(`web_portal_aws_admin.go:119` and `195`). The last is against
`docs/upgrade-checklist.md:130-137`, "nothing is deleted without a record".

## Runs

Passing:

| Run | Bounds | Shows |
|---|---|---|
| `issuer_safety` | TokenService: 1 user, 2 clients, 1 code, 2 requests, 3 pairs, 2 instants, aborts. Replicas: 2 replicas, 2 boots, 1 integration, 2 handlers at a time and in all, 1 tick, 1 fault | all safety properties of TokenService, and the contract; keys and registries |
| `token_liveness` | 1 client, 2 requests, 3 pairs, one instant, no request dies | the two leads-to properties, under weak fairness |
| `logins_safety` | DeviceGrant: 2 users, 1 grant, 2 requests, 3 instants. AwsRevocation: 2 users, 1 role, 1 revocation at a time beside the sweeps, 4 instants, all faults | all properties of DeviceGrant; `RevocationHolds` |
| `signin_safety` | 2 accounts, one of which changes, 2 requests at a time, 4 in all, 2 portal sessions, 2 instants | all properties of SignIn but the one `signin_rotation` refutes |
| `prov_safety` | 2 users, 1 group, 3 jobs of every kind, 2 at a time, 1 fault, 2 records per user | the journal, the first administrator, agreement with the target |
| `parties_logout` | 1 user, 2 clients (one still to be created), 2 handlers, 2 logins or revocations, 1 fault | back-channel logout and the clients table, with one leads-to property |
| `aws_access` | 1 user, 2 groups, 2 roles and 2 accounts (one of each still to be created), 2 regions, 3 settings, 1 request, 2 changes, 1 fault (a lost acknowledgement and a death are faults) | access to AWS and its administration |

Why the bounds are enough. Every race in these handlers is between two requests over
one row: two requests and one code or grant reach all of them, and account deletion, sign-out and
the reapers come as actions of their own. Three pairs are a session, its successor,
and one more: a second rotation, a second session, or a machine session beside it.
Two clients make "another client's token" happen. Two instants, with a ceiling of one
tick and access and code lifetimes of none, let every deadline pass and let a refresh
store deadlines it computed a tick earlier. Roles do not influence each other, so one
carries every race between a revocation and a sweep, over two users, one revoked while
another is on the list; two revocations that overlap and loops over several roles are left
to the theorem, whose invariant was checked for them too, on shorter clocks. Two boots start two
replicas together, or one twice. Four requests are enough for a reset, the login on
its password and a rotation, or a login, an enrolment, a step-up and a silent SSO, with
two of them in flight at once; the second account is there for the switch of user in
`ensurePortalCookie` and only signs in (`Subjects`). A lockout after one failure, a
cookie that lasts the instant it was given in, and an idle time equal to the cap let
each of these deadlines pass within two instants. In Provisioning three jobs are a creation, a
change, and a sync or another change beside it; one fault with two users
(two or three faults, with `Users = {u1}`, were checked as well: failures of one push can
add up). Two changes in `aws_access` are one of the members and one of the assignments
during one request: requests do not influence each other. The limits on starts, boots and
logins bound the length of a behaviour and nothing else.
`MaxSts = 1` loses nothing: the properties speak of one
session at a time and sessions influence nothing. Symmetry is declared only in runs
without leads-to properties, over sets no action tells apart.

Violations, each a disagreement between a text of the repository and what the code
does (the findings in PROJECT.json quote both):

- `token_refusal`: a refresh whose audit event fails is answered 503, yet the token is
  rotated; the retry is a replay and ends the session.
- `signin_rotation`: `/authorize` does not look at `must_change_password`, so a temporary
  password signs in there without being replaced.
- `aws_overlap`: a sweep that overlaps a revocation pushes the list it read before it.
- `aws_retry`: a sweep passes over a role whose `PutRolePolicy` failed, since it removed no
  row of it, so the user the table lists stays undenied at AWS.
- `parties_silence`: a relying party that does not answer within five seconds keeps its
  session, and the journal does not have the failure.

Behaviours the models have and no run is spent on: a code issued before a sign-out
everywhere is redeemed after it (TokenService); a denial submitted after an approval, or
whose statement fails, is journalled, and the grant stays approved or pending (DeviceGrant,
`web_portal_device.go:228`); a user revoked at AWS is denied in new sessions too, against
`awsfed.go:129` (AwsRevocation); a deactivation or deletion at the SCIM target that is
answered 404 drops the cached id and ends, while `scim/client.go:5-7` says of every 404
that the client resolves the user again (Provisioning: `setUserActive`, `deleteUser`);
`Registry.Reload` builds outside the lock, against `registry.go:26` (Replicas); an AWS account or
role is deleted unrecorded when it could not be read (AwsAccess, above).

Fairness. TokenService's `FairSpec` gives each request weak fairness on `Proceed`: a goroutine
whose handler has begun keeps running and its statements return. No request has to begin. Its
steps are those of `Run`, which has neither `Abort`, because a request that dies promises
nothing, nor `Tick`, because lifetimes are longer than any handler takes. The violation
`token_refusal` runs over it too: it needs no death and no deadline. RelyingParties' `FairSpec`
gives weak fairness to the handlers that sign out and to `PushEnds`, the end of a push by
time-out or by its last statement: `http.Client` and the context bound it by five seconds.
Nothing is assumed of the client's answer, and crashes stay possible. The other specifications
have no fairness: their properties are safety.

`CHECK_DEADLOCK FALSE`: with all bounds used up and nothing in flight a model may stop.

## Proofs

`TokenServiceProofs` is checked by tlapm for every value
of the constants that satisfies the assumptions of TokenService: finite bounds on
time and pairs that are naturals, natural lifetimes, access and refresh lifetimes at
most the absolute one (the code: 15 minutes and 1 hour against 4 hours), and a `None` that
is nobody. The number of users, clients, codes and requests is arbitrary.

The properties are not inductive by themselves. `TokenInv` adds:

- `Locals`: what a request's variables hold at each label;
- `FreshPairs`: no row, record or history mentions a pair not yet generated;
- `Lineage`: a live session's current pair and its retired ones are the pairs of its
  family, and retired rows belong to live sessions - so a rotation, which requires the
  presented token to be the current one, moves exactly one pair from one side to the
  other, which is `LineageComplete`;
- `PairsSpent`: a pair with a successor is nobody's current pair, which gives
  `RefreshSingleUse` and `ReplacedPairRefused`;
- `CodesSpent`: at most one request stands between marking a code used and minting,
  the code is then spent, and nothing has been minted on it - which gives
  `CodeSingleUse`.

`ExpiryWithinCap` and `HandedWasJournalled` are inductive with the types.
`DeadStaysDead` follows step by step: only `CreateSession` makes a row live and it
uses a pair not generated before. `EndpointImplementsContract` maps each action to an
action of the contract or to a stutter, using `TokenInv` for the guards of `Redeem`,
`Open` and `Rotate`.

`SignInProofs` does the same for SignIn: any accounts, requests and sessions, any
lifetimes with the idle time at most the absolute one. `SInv` adds to the properties
what a request carries from page to page (`LocalOK`). After a password its view of
`mfa_enabled` is TRUE for a confidential client; without more pages to come it is
FALSE, so the session it opens is unmarked; rotation never reads it; and past `verify` a
second factor has been passed, so the session may be marked whatever the flag says by
then. `PortalOK` says of every session that its mark was earned and its deadline is
within the cap, which is what silent SSO relies on, and `HandPart` that a cookie
names a stored session. The bounds `MaxRequests` and `MaxSessions` are arbitrary.

`ReplicasProofs` is about any number of replicas, integrations and handlers in flight,
under `ReplicasAssumption` only (the forms are forms, `Nothing` is no integration, the
bounds are naturals). `BaseInv` types the state and says that a handler in flight is
on a serving replica. `SignerIsPublished` follows from
`SignersStored`, which speaks of a replica from the moment it has a key, and not only
when it serves. `RegistryFollowsTable` says nothing while a handler is in flight, so `RegInv`
says what holds then: a replica that does not lag has the table's integrations unless a
handler on it is ahead, that is, has changed the table and not yet installed the result
(`SetPart`); a handler that has the replica for itself is about to install what the table
says, or has added one row that is not loaded, so that taking it back restores agreement
(`OwnPart`); a starting replica has read what the table still says (`NextPart`); and handlers
that are side by side know it (`Aware`), so that the ones that do not are alone.

`PortalGateHolds` (in SignInProofs) is not a fact about one request: a reset lowers the
flag with one statement and raises it with the next. `Gate` says where the truth is
meanwhile. Passwords only advance, so one that is old or was chosen by the user stays so
(`Settled`); a temporary password that is current and that somebody knows has its flag up
(`Flags`), and a reset that has raised it relies on that until its password is replaced
(`Flagged`); and a request past the check of the flag carries a settled password (`GateOK`).

`DeviceGrantProofs` holds for any grants, users, browsers and polls. Single use needs
`Claimed` (at most one poll stands between the claim and the mint, the row is then
`redeemed`, and nothing was minted on it); `ApproverBound` needs `Decided` (what the row
says about approver and factor is what the one approval wrote, and a denied row has no
approval) and `Carried` (a poll that read the row as approved holds just that, although the
row may be gone by the time it mints); `Opened` and `Journalled` link sessions, events
and deliveries. `DecisionIsFinal` is an action property and follows from the guards of
the single statements.

`AwsRevocationProofs` is about any users, roles, session durations, faults and
revocations in flight, under `AwsAssumption` (natural durations and bounds). The invariant
says of a promise (`Kept`) that the row, if it is there, is at least as young, and that
while a session it was for may run, and nobody has overtaken it, the row is there and the
policy names the user. Of a worker it says that its list lacks only users revoked since it
was read (`Listed`), so that a push can take nobody else off; of a revocation that has not
pushed yet, that its row stands (`RevocationOK`); and of a sweep, that what it is about to
delete is past the cutoff or was renewed behind its back (`ReaperOK`). A row past the cutoff
cannot be needed by a live session, which is where the arithmetic of `PastCutoff` enters.
The guard `Roles # {}` in `RevokeBegin` and `ReapBegin` came out of the proof: with no
roles the loops of the code end at once and there is no worker.

`RelyingPartiesProofs`: `Survivors` says of each handler that has listed the relying
parties and not yet deleted the sessions that every client with a session of the user is
still on its list, signed the user in since, or is being told; only so does the deletion leave
nobody behind in silence. `Counting` bounds the secrets in force by the recorded ones plus
the rotations that are journalled and not stored yet plus a creation under way. `Editors` carries
`EditTakesHold`: an editor at work is newer than every journalled edit it did not run beside
(`Overlap`), and the groups it has written so far hold its form or that of an edit newer or
beside it (`Set`), so that its event can only journal what is in force; a creation is older
than all edits of its client.

`AwsAccessProofs` holds for any users, groups, accounts, roles, regions, requests and handlers,
under `AccessAssumption` and `RowsAssumption`: accounts, roles and assignments are different
things, and a role that exists has an account that does (a foreign key in the schema). Three
invariants carry the theorems. `AccessInv` says what a request has gathered so far: its history
holds the present instant from its first read on (`Instant`), which is why one read is enough
for `EntitledInRequest`; and of members and assignments, whichever has not moved since the
first statement of the team query still vouches for the candidate (`Teamed`), which is
`TeamAuthorized`. `DoorsInv` does the same for the regions. `JournalInv` carries
`ConfigJournalled` through the states in which handlers are at work: a row in the tables is
journalled, or left, or still in the hands of its creator (`Present`); a row that is gone and
was journalled, or still is in its creator's hands, has itself or a row it hangs on ended,
taken back or deleted unread (`Vanished`); a handler about to delete has put its row among
these (`Ended`); and the regions a role has, or is about to get, are journalled
(`RegionsKept`). `DoorsAreOffered` has a hypothesis, `ListsAreSequences`: the lists of regions
the model computes from the settings by folding and filtering are sequences of regions. That is
an induction over data, which the prover cannot do; `MCAwsAccess` assumes it, so that TLC
evaluates it for the settings of the run.

`ProvisioningProofs` is about any users, groups, forms and jobs in flight, under
`ProvAssumption` only (`None` is no user, group or kind of job; no user is a group, both being
rows of tables of their own under generated ids; the forms are forms; the bounds are naturals).
`ProvInv` says of each label of a handler which jobs come there and what they hold (`Fit`,
`Place`). For `JournalCovers` it says that a row without an event is owed one (`Covered`): a
job that made it stands somewhere from which it cannot end without journalling the row, taking
it back, or giving up on it (`OwesUser`, `OwesGroup`; a new user's groups are stored and pushed
meanwhile); and that a job about to delete has journalled the deletion (`Erasing`). "Its
creator is still busy", as the property has it, is weaker and not inductive: a creator past its
event is busy too. For `OneBootstrapAdmin`, `First` counts with those already promoted the ones
who were alone when counted and are about to be (`Counted`): nobody else in the table can be
counted alone while they are there, and a row that is gone does not come back.

`AgreeInv` carries `UsersAgree` and `GroupsAgree` through the states in which jobs are at
work. It rests on `Sharing`: what two jobs touch, both share, and it is dirty; so a job that
has a user or a group for itself (`Owns`) is the only one that does, and a step of any other
job leaves it alone. Of what a job owns the invariant says two things. What the job has read
still holds: the list it took, the row it is going to push, the cached id it is going to
call with (`Read`, `ReadG`). And, unless the item is dirty, the target agrees or the
difference is on the job's way (`Clean`, `CleanG`): a new user nobody has pushed yet
(`Unborn`), a changed row (`Outdated`), a deleted one (`Doomed`), a record whose id is about
to be stored (`Made`), a group between its statement and its push (`DueG`). What nobody owns
and is not dirty agrees. `Shape` says which push leads to which call. Two points made the
difference. Members of a group that a job sends may have been deleted since it read them;
the two sides are therefore only `Close`, equal but for users that are gone, and
`GroupsAgree` follows because a user who is gone and not dirty is at the target only while
its deletion is under way, and a deletion has every group in hand. And a new user whose
groups are pushed before the user is reaches the target as a member: only `Untold` jobs
have said nothing of it there.

Looking for this invariant showed that the history `dirty` was too generous: with two faults,
a push whose cache write had failed went on, succeeded at the target, and counted as clean
although `external_ids` had no row. `Remember` now keeps such a push from clearing the mark;
with one user, TLC finds `UsersAgree` and `GroupsAgree` to hold under three faults, and the
theorems say so for every number of them.

Each of these invariants was model-checked before it was proved, on the instance of its run
or on a smaller one.

Model-checked only: the leads-to properties (liveness under fairness is out of the
prover's reach) and what `ListsAreSequences` says. Every invariant and every action property of
a passing run is a theorem.

## Not modelled

Listed in PROJECT.json with reasons. In particular: `DeleteExpiredSessions` and
`DeleteExpiredGrants` (nothing calls them), AWS roles being added or removed during a
sweep, the audit pages and their stream, rate limits, the test button of an integration,
and the credential helper: its token cache and refresh live in a library that is not in the
repository, and what is left is one file that is written and read (a `get` that is under
way during a `logout` puts its credentials back, and a `login` as somebody else finds
them). The policy's rules on single strings and dates, certificates, encodings and pages
have no state of their own.

## Plan

Done: the token endpoint with its contract, device grants, AWS revocation, sign-in
with portal sessions, users and groups with the SCIM target, replicas, clients and
back-channel logout, AWS access. Next:

1. More of SignIn: the lost update of the lockout counter, `mfa_enabled` against the
   factors that exist, pending-login cookies from before a reset.
2. Compositions: DeviceGrant into TokenService through the mint; AwsAccess into
   AwsRevocation through the STS session of a deactivated user.
