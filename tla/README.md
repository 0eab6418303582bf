# Verification of Brevyn Cloud

TLA+ modules, TLC runs and TLAPS proofs for the Go server and worker of this
repository. `PROJECT.json` lists the components, the runs, the mutants that show
each property can fail, the source lines behind each definition, the hazards
and the theorems.

## 1. The system

Brevyn Cloud is an API server (`cmd/api`) and a worker (`cmd/worker`) over
PostgreSQL and Redis, in front of an external gateway, Sub2API, which holds the
balances and API keys that model requests are charged to.

| Component | State | Operations | Hard behaviour |
| --- | --- | --- | --- |
| Gateway operation queue (`internal/gateway/operations`, `admin/gateway_operation_service.go`) | `gateway_operations`: status, attempts, lock, next run | enqueue, requeue stale, claim, execute, mark, retry, bulk retry | several workers, crashes, lost marks, writers that never claimed the row |
| Redemption (`auth/handler.go`, `redeem/gateway_sync_service.go`, `admin/gateway_operation_executor.go`, `admin/redemption_sync_handler.go`) | `redeem_codes`, `redeem_redemptions`, the remote balance | redeem, synchronise inline, by the worker, by an administrator | three processes on one redemption, remote calls that are applied but not answered |
| Refresh tokens (`auth/handler.go`) | `refresh_tokens` | login, refresh, replay detection, logout | row locks and statement snapshots of READ COMMITTED |
| Registration, login, limits (`auth/handler.go`) | users, Redis counters and blocks | register, login, count, block | INCR and EXPIRE are two commands; guards are read before and written after the password check |
| Gateway accounts and keys (`redeem/gateway_sync_service.go`) | `gateway_accounts`, `gateway_api_keys`, Redis locks | ensure account, ensure key, rotate | locks with a TTL shorter than the work |
| Administrator's writes (`admin/gateway_key_service.go`, `admin/user_service.go`) | users, keys, accounts, ledger | disable, rotate, grant, change policy, import, delete | local write, remote call and retry are three steps; retries have keys made of their values |
| Error classes (`gateway/gatewayerror`) | none | classify | decides retry or dead letter |
| Sub2API client (`gateway/sub2api`) | none | HTTP calls | external |
| Catalogue (`admin/catalog_service.go`, `admin/catalog_handler.go`) | products, batches, codes | create, edit, archive, generate per order, disable | checks before the transaction, repeated orders, a batch disabled in two statements |
| Administrator sessions (`admin/handler.go`, `admin/redis_guards.go`, `admin/totp_handler.go`) | TOTP secrets, counters, job locks | login, set up and enable the second factor | guards that fail open, locks with a TTL |
| Cloud backups (`admin/backup_service.go`) | `backup_records`, the dumps, the object store, an advisory lock | back up, restore, delete, retain, recover | the list of the backups is inside what is restored; crashes; two servers |
| Groups, models, capabilities (`admin/gateway_group_service.go`, `admin/gateway_model_sync_service.go`, `OfficialProvider`) | groups, models, prices, roles, purposes | synchronise, configure, answer clients | fetch, then write; two jobs with two locks write one table; reads in several statements |
| Subscriptions, settings, entitlement cache, dashboards, audit (`internal/admin`, `internal/auth`) | their tables, a cache | | one remote call each, or reads |
| Admin console (`web/admin`) | browser | | displays the API |

How they interact: a redemption commits its row and its gateway operation in one
transaction (`markRedeemedLocally`), the request then synchronises inline, and
the worker does so from the thirtieth second on. An administrator may take the
same operation over. All of them write outcomes with unconditional `UPDATE`s, so
the tables are the only place where they meet; there is no lock around a
synchronisation. What must hold: a code is credited at most once and only to its
owner; nothing is shown as done that is not; nothing that was accepted is lost;
attempts stay within their limit; a login session has one working refresh token; a backup that
is listed can be restored; an order is delivered once; what a client is offered is what one
fetch from Sub2API has shown; the copies of a user's policy agree or somebody can tell why not.

## 2. Modules

| Module | Models | Extends |
| --- | --- | --- |
| `OperationRow` | a row of `gateway_operations` and the effect of every SQL statement on it | |
| `GatewayOperations` | the queue and all its writers | `OperationRow` |
| `GatewayOperationsProofs` | theorems about the queue, and about `GatewayCredential` as an instance | `GatewayOperations` |
| `RedemptionPromise` | abstract: what redeeming promises | |
| `RedemptionSync` | redemption of a balance code up to the credit | `OperationRow`; implements `RedemptionPromise` |
| `RedemptionSyncProofs` | theorems about redemption, and the refinement | `RedemptionSync` |
| `RefreshTokens` | rotation of refresh tokens | |
| `KeyRotation` | the administrators' writes to a user's API keys | `OperationRow` |
| `KeyRotationProofs` | theorems about them | `KeyRotation` |
| `GatewayCredential` | account and key of a user, and the locks around their creation | `OperationRow` |
| `Backups` | the backup centre of the API servers | |
| `BackupsProofs` | theorems about it | `Backups` |
| `LoginGuards` | counters, blocks, logins, registration, the second factor | |
| `LoginGuardsProofs` | theorems about them, and about `RefreshTokens` as an instance | `LoginGuards` |
| `UserAccounts` | one user's status, concurrency, ledger and account, here and at Sub2API | |
| `UserAccountsProofs` | theorems about them | `UserAccounts` |
| `Catalog` | products, batches of codes per order, and what becomes of a code | |
| `CatalogProofs` | theorems about them | `Catalog` |
| `ModelSync` | what a synchronisation makes of the lists it fetched (no state) | |
| `GatewayModels` | synchronisations, purposes and the official provider | `ModelSync` |
| `GatewayModelsProofs` | theorems about them and about what a synchronisation writes | `GatewayModels` |
| `MC*` | symmetry sets and instances for TLC | the module they are named after |

### OperationRow and GatewayOperations

`ops` is the table. Only columns that a `WHERE` or `CASE` reads are kept; clock
columns are kept as what a comparison with `now()` can tell (`due`, and `lock`
which is `none`, `fresh` or `stale`). Each SQL statement is an operator on a row
with the name of its Go function: `CreateRedemptionSync`, `CreateFailed`,
`EnsureGatewayProvision`, `MarkSucceeded`, `MarkFailed`, `Claimed` and `Claimable`
(the two halves of `claimNext`), `Requeued` and `Stale`
(`requeueStaleRunning`), `AttemptCounted` (`incrementGatewayOperationAttempt`),
`TakenByAdmin` (`RetryRedemptionSync`), `Retried` (`Retry` and `RetryFailed`).

`phase` and `claimed` are the runner's memory: `ProcessOnce` requeues, claims up
to `batchSize` rows one statement at a time, executes them with `concurrency`
goroutines and marks each. A record in `claimed` carries the attempts read at the
claim, which decide its dead letter later. A claim error or a stop forgets the
records. `inline` is the redeem request of an operation and `manual` the
operations an administrator synchronises by hand. `claims` is a history variable.

What an execution does at Sub2API is reduced to its outcome. A lock may become
stale at any time, so the model covers every stale timeout, including those
shorter than an execution.

### RedemptionSync

`code`, `redemption`, `row` are the three rows a redemption lives in. A process in
`proc` (a request, a worker slot or an administrator) goes through the statements
of its handler one by one: load, take, call, mark the redemption, mark the
operation; each may fail, and a process may vanish between any two of them.
`calls` are balance requests on the way. A caller that gives up leaves its call
there without a caller, and Sub2API (external) may still take it, or never.
Sub2API credits once per idempotency key; `credit` counts what it has added. The
key is the redemption's, which is why it is the code in the model.

Values are abstracted to how often a code was credited. Subscription codes, which
extend a remote subscription rather than add a balance, are not modelled, and
account and key creation after the credit are an outcome (`KeyFails`).

### RefreshTokens

Every SQL statement of `rotateRefreshToken` is a step. `token` is the committed
table, `lock` the row locks, `tx` the open transactions. `LockToken` is `SELECT ...
FOR UPDATE`. The `UPDATE` that revokes a family is split as READ COMMITTED runs it:
it chooses rows from the state committed when it starts (`ChooseActive`), locks
them one by one and checks the `WHERE` again (`LockChosen`), and takes effect at the
commit (`RevokeFamily`). `Abort` is the deferred `Rollback`. The read of the user's
status is part of `LockToken`: nothing else in the transaction can see the
difference. Rate limiting before the transaction is left out.

### KeyRotation

The keys of one user, each twice: `stored` is its row of `gateway_api_keys`, `remote`
its status at Sub2API, and `row` its `disable_api_key_remote` operation. A request in
`req` goes through its handler call by call. `RotateUserAPIKey` and
`ChangeUserGatewayGroup` ensure the account, create the remote key, then run the loop
of `DisableUserGatewayAPIKeysForGroup` (list the active rows of the scope, and for each
disable the row, disable the remote key, or enqueue the retry), and insert the new
row, which the unique index on active keys may refuse. `UpdateUser` sets the user's
status, runs the same loop when the cascade is asked for, and pushes the status to the
account. `DisableAPIKey` is one turn of the loop. A remote call that fails may have
taken effect. `Disconnect` ends a request wherever it is: its context is cancelled and
all later calls fail, which puts the key in hand into the history variable `lost`. The
worker slots in `job` execute the operations.

The keys that exist at the start stand for those the user's own requests have created;
these requests are in `GatewayCredential`, and `ActiveKeysWork` says nothing of them: the
composition of the two modules is not modelled. A failed push of the status
becomes an operation of another kind, which is in `UserAccounts`; none of the
safety properties depends on the account.

### GatewayCredential

One user and one group. A process in `proc` is a provider request, a registration, an
administrator who creates the user, or a worker with the operation
`provision_gateway_credential`. All of them make the same two calls,
`EnsureSub2APIAccountForGroup` (for the administrator `EnsureSub2APIAccount`) and
`EnsureGatewayAPIKeyForUser`. Each call takes the user's lock: the mutex of its operating
system process (`mutex`) and then a Redis key (`lock`), and releases both. A provider request
holds a second Redis key around both calls (`provision`). The Redis keys have a time to live,
which may end under a live holder (`LockExpires`, `ProvisionExpires`); the holder is then
`late`, which is a history variable: nothing reads it. A release that does not reach Redis, an
error of `SET NX` that had its effect, and a host that stops leave the key behind (`Gone`)
until it expires. A call that fails may have had its effect.

Sub2API is external. It answers a repeated idempotency key with the key it made first. The
account is reduced to its row, and the groups it may use are left out. Registration's slots
and the permit for creating keys are reduced to their outcomes (`RegisterBusy`, `CallFails`).
Nobody disables the account or the key.

### Backups

`db` is the database: the rows of `backup_records` and the settings beside them. It is one
variable because a dump (`snap`) holds it and `pg_restore` puts it back, its own list of backups
included. `op` is the operation of each server, a backup or a restore with the backup made before
it; `up` are the servers that run and `lock` is the session that holds the advisory lock. A dump
goes through `RunPgDump`, `FileDigest`, `Upload` and `FinishBackup` (store the result, then the
retention); a restore through `StartRestore`, `VerifySource`, the pre-restore backup,
`RunPgRestore` and `PersistRestoreRecords`, which writes the two rows back that the restored
database does not know. `DeleteBackup` takes no lock and removes files and row in two steps.
`Crash` and `Start` (with `RecoverStaleRecords`), a lost session (`LoseSession`), failing steps and
an object store that appears or disappears are the faults. The writes that end a failed backup or
restore, and the two updates of the recovery at start, may fail too: the code drops their errors and
goes on, so that a row stays in progress (`Losses`, `Stuck`) and counts as stray from then on. File names have a resolution of one
second (`names`, `Tick`). Dumps are known by the record they were made for, so a digest is a
number. pg_dump, pg_restore, the directory and the object store are external, the first two atomic.
`deleted`, `stray` and `split` are history: they name the exceptions of the properties. A row is
stray when a restore brought it back or the write of its end was lost.

### LoginGuards

`counter`, `expiry` and `block` are the Redis keys. `RequestRules` lists, per kind of request,
the rules the code checks in their order; `Incr`, `Expire` and the comparison are a step each.
Logins of users and administrators go on with `Check` (the blocks), `Compare` (the password),
`VerifyCode`, and then clear or record the failures. Registration ends in `InsertUser`.
`SetupTOTP`, `EnableTOTP`, `DisableTOTP` and `WriteTOTP` are the second factor: the secret is
read, verified and written in separate commands. Whether a password or a code is right is an
input. A request may fail or die at each step (`RequestFails`); an administrator's login whose
block cannot be read goes on (`BlockUnread`), as the code does. `guesses`, `orphans` and `proved`
are history. `orphans` are the counters whose maker did not send the `EXPIRE`; a key stays in it
when a later request has the counter expire, because a block that such a counter has set may end
before the counter, and the guesses of the two then add up. Access tokens and session cookies carry their own expiry and have no state.

### UserAccounts

One user in three places: `user` (the row of `users`), `accounts` (the rows of `gateway_accounts`,
in the order of their ids) and `remote` (Sub2API, external). `ledger` is `wallet_transactions`, `ops`
the retries, indexed by what their idempotency key is made of: the values of a policy or the
transaction of a grant. A process in `proc` is a request (`UpdateUser`, `UpdateUserConcurrency`,
`GrantUserBalance`, a redemption, the import of Sub2API's users, `DeleteUser`) or the worker, which
runs the same code for a queued operation. `rowLock` is the `FOR UPDATE` of a grant.
`EnsureSub2APIAccount` is what policies and grants have in common, and takes three steps: the
row is read (`EnsureAccount`, which remembers its level in `proc`), Sub2API is told (`EnsurePolicy`,
or `EnsureUser` when there is no active row), and the level read before is written back (`MirrorLevel`,
or `MirrorFails`, since the error of that `UPDATE` is ignored) or a new row is inserted
(`BindAccount`). A level applied between these steps is undone here, at Sub2API or in both places.
The Redis lock of `EnsureSub2APIAccount` is left out: it expires under a slow holder, and
the send and the `UPDATE` of `SyncUserPolicyRemote` do not take it, so that the interleavings it
would prevent happen with it too. A call that fails is queued by its caller (`QueueRetry`), which
drops the error of that `INSERT`; a cancelled request loses both (the cause "unqueued").
`causes` is history: which of the situations that the code tells nobody about has happened:
an operation given up ("dead"), a retry that finds an old row ("absorbed") or cannot be stored
("unqueued"), a dead server ("crashed"), a disabling before there is an account ("missed"), a status
sent after a newer one ("overtaken"), two writers of a level between Sub2API and the mirror
("overlap"), a level copied or sent that was read before another change ("stale"). A property
of the form "the copies differ only for a cause" is therefore a full list of these situations, and
the mutants show that the list is not a way out.

### Catalog

`products`, `batches`, `codes` are the tables, `lock` the advisory locks on order references,
`proc` the administrators' requests. `RequestProduct`, `CheckGroup`, `SaveProduct` are the check
of the group and the write after it; `RequestCodes`, `LockOrder`, `FindBatch`, `LoadProduct` and
`CommitBatch` are `GenerateRedeemCodes`; `DisableCodes` and `DisableBatch` the two statements of
`DisableRedeemBatch`. `Fold` is what `lower(trim(...))` makes of a reference. A product and a batch
carry `edit`, the number of the product's version, so that a property can say "edited since".
`Redeem` is the local half of a redemption, whose other half is `RedemptionSync`. The key that
encrypts stored codes may be replaced (`ChangeSecret`), requests may die, answers be lost.

### ModelSync and GatewayModels

`ModelSync` has no state. `SyncedModels` is what `SyncModels` writes, in the order in which it
writes it: all rows inactive, then the accounts' models, then channel by channel with the
mapping, the wildcards and the backfill of prices. `Supported` and `PriceOf` are reference
definitions, stated without any order: which models are on offer, and what they cost.
`CatalogIsTheSnapshot` compares the two in every state. The channels are run through by a
recursive function (`after[n]` are the rows after the first `n` of them), so that its values can be
reasoned about.

`GatewayModels` has the requests around it: `SyncGroups` and `SyncModels` fetch list after list
from a `world` that changes and write in one transaction, each under a Redis lock of its own
(`locks`, `ExpireLock`, `Released`); `CreateGroup`, `ReplacePurposes` and the three steps of
`UpdateOfficialModelConfig` (`StartConfig`, `DeleteRoles`, `InsertRoles`, with the unique index);
`OfficialProvider` reads in three statements and answers (`Respond`): the providers for the
purposes (`PurposeProviders`), and always the legacy one (`Legacy`, `LegacySelections`), which is
also the only one of the list when there is no other.

The transaction of `SyncGroups` is one step. That of `SyncModels` is two: `MarkStale`, where the
`UPDATE` of `gateway_group_models` begins and its snapshot is fixed (`seen`), and `WriteSync`, the
rest and the commit. A transaction that lists groups writes every row of `gateway_groups`, each
of them from its first group on, and so only one of them is between the two steps (`HoldsGroups`,
`FreeFor`; `CreateGatewayGroup` waits for the same row). One whose list of groups is empty writes
none of these rows: it may begin while another one is writing, wait for its rows, and still
not see those it inserts. The accounts and channels have `UPDATE`s of their own, whose snapshots
lie somewhere between (`seenAccounts`, `seenChannels` or what is there at the commit).
The first state is one where a sync has found groups; before that there is no row to serialise
on. Left out: a sync whose groups are all new marks the other groups inactive without
having waited, and may miss one that another such sync inserts at that moment.

## 3. Runs

| Run | Instance | Shows |
| --- | --- | --- |
| `queue` | 2 workers, a redemption and a provisioning operation, 2 attempts, batch 2, 1 stop, 1 intervention | `NoRowIsLost`, `ClaimsAreFenced`, `ExecutionBudget`, `SettledStaysSettled` |
| `redeem` | 1 code, 1 user, its request, a worker slot, an administrator, 2 attempts, 1 retry | `CreditedOnceToOwner`, `ShownMeansCredited`, refinement of `RedemptionPromise`, `EveryRedemptionSettles` |
| `tokens` | 1 session, 3 tokens, 2 refreshes | `OneActivePerFamily`, `ClosedSessionStaysClosed`, `EveryRefreshEnds` |
| `tokens_replay` (violation) | the same | a replay can miss a replacement that is being committed |
| `keys` | 1 request at a time, a worker slot, 2 keys, 2 groups, 2 failures, 1 retry | `DisabledKeysAreChased`, `ActiveKeysWork`, `DisabledKeysSettle` |
| `keys_rotated` (violation) | 2 requests, 3 keys, no failure | two rotations leave two working keys |
| `credential` | a request, a worker slot on another host, 2 keys, 2 failures, 1 overrun | `OneAtATime`, `SucceededMeansStored`, `PromisesAreKept` |
| `backups` | 2 servers, 3 backups in 2 seconds, 1 fault, 1 edit | `CompletedIsRestorable`, `RestoresWhatWasVerified`, `InProgressIsOwned`, `CleanupLeavesABackup` |
| `logins` | 2 requests at a time, 3 in all, 1 client, 1 account, 2 secrets, 2 faults | `CountersExpire`, `GuessesAreBounded`, `EnabledSecretIsProved` |
| `accounts` | 2 requests at a time, 3 in all, a worker, 2 account rows, 1 fault | `CopiesDivergeForACause`, `GrantBalanceIsExact`, `GrantedExactlyOnce`, `DeletedLeavesNothing` |
| `catalog` | 2 requests at a time, 2 products, 1 group, 2 spellings of 1 order, 2 generations, 2 edits, 1 event | `OrderIsDeliveredOnce`, `RedeemedAsSold`, `DisabledBatchIsDead` |
| `models` | 2 requests at a time, 3 in all, 2 groups, 3 models, 3 worlds, 2 changes, 1 fault | `CatalogIsTheSnapshot`, `PurposeIsOneRequest`, `ProviderIsUsable`, `OvertakenForACause` |

The last five check `TypeOK` too. For the modules of the first seven, `TypeOK` is proved, and so
are `SettledTokensRest` and `SucceededMeansDisabled`, which no run repeats.

Bounds. `MaxAttempts` is 2 or 3 in place of 8: the interesting points are below,
at and above the limit. `RetryGrant` (3 in the code) is 1 where more only
multiplies states, and 2 in `redeem`: a retry pressed while a
worker and a request still count attempts must leave one for the claim, which 3
always does and 1 may not. `MaxAdmin`, `MaxStops` and `MaxRetries` bound
interventions and crashes; one of each already meets every other actor at every
point. Two workers are needed for one to claim what the other still executes.
Two refreshes with three tokens allow a replay to be open together with the rotation that
follows the replayed token; that sessions do not disturb one another is left to the theorems.
Keys are used up by rotations; two failures allow the remote call and its retry both to fail, and
`MaxAttempts` 2 a failed attempt to be repeated. `redeem`, `keys` and `credential` check safety
and liveness on one instance, which liveness keeps small (no symmetry, one request at a time in
the last two). What the smaller instances leave out for safety is covered by the theorems: a
second user of a code, two rotations at once (the run `keys_rotated` has them too), two requests
that share a mutex.

In `backups` three records are one to restore, the one made before the restore and another; two
seconds let two of them share a file name or not, and the retention keeps one. In `logins` the
limits are 1 or 2 in place of 5 and more, so that two requests meet at the limit and a third one
comes after it. Three requests in `accounts` and `models` are two that overlap and one that finds
the result. `Traffic` in `logins`, `accounts` and `models` splits the kinds of request into mixes:
two kinds that share no row need not run together, and each mix has those that do. One fault
in `accounts` is a call that fails, an answer that is lost or a server that dies, after which the
retry is queued or not and meets what came since. In `catalog` two generations of one order suffice
for the second to meet the first at each step; two edits and one event (a group changes, a request dies, a key is replaced) then meet both. The worlds
of `models` are chosen so that names, wildcards, mappings and channels in conflict all occur
(see `MCGatewayModels`).
The properties of these modules were also checked on instances beyond the runs: two faults in
`backups` (with two records, or without edits), four requests in `logins` and `models` (there pairs of
kinds), two faults in `accounts`, three generations in `catalog`, three requests at a time
in `logins`.
The bounds do not limit the theorems of section 4, except that `MaxAdmin`,
`MaxStops`, `MaxRetries` and `MaxFailures` are (arbitrary) parameters there too.

Fairness. The runner's loop (`Run`) repeats until its context ends, every execution
runs under a 90 second context and so ends, and time passes: weak fairness of
the runner's steps, of the outcomes, and of due times and lock expiry. Requests and
administrators owe nothing in the first two models, so they have none there, and
Sub2API may never answer. In `KeyRotation` a request that nobody loses goes on, since
its steps are statements and HTTP calls with a timeout: weak fairness of `Step`. For
refresh tokens the database grants a lock that keeps becoming free to every
transaction that waits for it (PostgreSQL queues lock requests): strong fairness
of a transaction's statements. In `GatewayCredential` the steps of a process are statements
and calls with a timeout (weak fairness of `Step`), its wait for the Redis lock ends with its
context (weak fairness of `Wait`), Go's mutex serves everyone who waits for it (strong fairness
of `TakeMutex`), and abandoned locks expire. The five newer models state no liveness: a request
there ends with its context, and what must happen after it is the worker's, whose progress
`EveryRedemptionSettles`, `DisabledKeysSettle` and `PromisesAreKept` show for its three kinds of
operation.

`CHECK_DEADLOCK FALSE` stands where the system may stop: when every code is used
or disabled and every process is gone, nothing is left to do, and likewise when the bounded number
of requests has been answered.

## 4. Proofs

All for any sets of operations, workers, codes, users, tokens, requests, servers and
administrators.

*Queue.* `ClaimsAreFenced` and `ExecutionBudget` are not inductive: a record in memory
might run ahead of its row. `IInv` of `GatewayOperationsProofs` adds
`ClaimsBehindRows` (no record has more attempts, or a higher limit, than its row),
`RowsInv` (running rows are locked, failed rows retryable) and `InlineHasRow`. The key
lemma is that every statement only moves a row forward (`Advances`). From
`Invariance` follow `TypeCorrect`, `RowsAreRecoverable`, `Fencing`, `Budget` and the action
property `SettledOperationsRest`.

*Refresh tokens* (second part of `LoginGuardsProofs`, an instance of `RefreshTokens`; it assumes
`NoneAssumption` and uses nothing of the first part). `OneActivePerFamily` would break if a
rotation's token were no longer active when it commits. `SessionInv` adds `Locked` (from
`FOR UPDATE` to the commit the transaction holds the lock), `Unsettled` (the row it
is about to rotate is active, since every writer of an active row needs its lock),
`Marked`, `Reserved` (replacements are new and distinct) and `Belongs`. From it
follow `SessionTypeCorrect`, `SessionNeverForks`, `SettledTokens` and `ClosedSessions`.

*Redemption.* `CreditedOnceToOwner` must follow from what Sub2API has seen. `IInv` of
`RedemptionSyncProofs` adds `Credits` (the balance is exactly one for the owner of a
code whose key was applied, else zero), `CallsGood` (every call on its way carries
its code's key and owner), `ProcsGood` (a process that believes the balance was added
is right; a process waits for an answer only to a call that is still on its way or
was applied) and `RowsGood` (the three rows of a redemption agree). Most actions are
shown to be a `LocalStep`, which keeps `IInv` by one lemma. From it follow
`NoDoubleCredit`, `ShownIsTrue` and `Refinement`: with the owner
read from the redemption and the closed codes from `redeem_codes`, only
`MarkRedeemedLocally`, `DisableCode` and `RemoteApplies` show, as `Take`, `Close` and
`Pay`. These rest on the external assumption that Sub2API adds a balance once per
idempotency key.

*API keys.* The three invariants rest on one rule, that a key is disabled here before
anybody touches it at Sub2API. `IInv` of `KeyRotationProofs` states it for the requests
(`Targets`), the workers (`Jobs`) and the operations (`Rows`), and adds `Fresh`: the key a
rotation is about to store has no row yet, works at Sub2API and is carried by no other
request, so that the insert revives no disabled key. Actions that make no key are
`Ordinary` steps, which keep `IInv` by one lemma. From it follow
`DisabledKeysStayChased`, `SuccessIsTrue` and `HandedOutKeysWork`.

*Credentials* (second part of `GatewayOperationsProofs`, an instance of `GatewayCredential`; it
assumes `CredentialAssumption` and uses nothing of the first part). `CredentialInv` says what being
past a lock means: the process still holds it or has been late (`MutexHeld`, `LockHeld`, `ProvisionHeld`); this is
kept because a release deletes only the token of its own. `Memory` ties what Sub2API has made
to what it remembers, and `Progress` says what a process has seen done: the account after its
first call, the key before the mark. Every action of a process is a `ProcessStep`, which keeps
`CredentialInv` by one lemma; a crash and the passage of time are treated apart. From it follow
`CredentialTypeCorrect`, `LocksExclude` and `SuccessLeavesKey`. That Sub2API makes one key for a user
and a group is no property: it is what the external answer to the fixed idempotency key says.

*Login guards.* `CountersExpire` and `EnabledSecretIsProved` are inductive once `Requested` says
what each request has in hand: the rules it has left, and that a secret it is about to write was
shown a code for. `GuessesAreBounded` needs an account of every wrong password. `Bounded` has it
for each pair of client and account: the passwords guessed are counted, or owed by a request about
to count them, or lost with a fault (`Accounted`); a counter at its limit is blocked, or somebody
is about to block it (`BlockFollows`); and the guesses made, with those that requests past the
check may still make, stay within the bound (`Promised`). The cardinalities of these sets of requests are compared
when one request moves (`Counted`), for which `GuardAssumption` says that the requests in flight
are finitely many. The attempt showed that the property had been false on larger instances: a
counter made immortal by one request and given its expiry by a later one was no exception, and is
now (see `orphans`). From `Invariance` follow `TypeCorrect`, `CountersAlwaysExpire`,
`GuessesStayBounded` and `EnabledSecretIsAlwaysProved`.

*Catalog.* `OrderIsDeliveredOnce` is about answers; what makes it true is the advisory lock.
`CatalogInv` of `CatalogProofs` says that a request inside its transaction holds the lock of its
order (`Locked`), that no two batches have one order and that a request about to insert has found
none (`OneBatch`), that every code belongs to a batch and shows its terms (`Stored`), that an answer
gives all codes of one batch (`Answered`), that whatever mentions a product at one of its edits
agrees on its terms (`History`), that what is redeemed is used up (`Spent`) and that a request between the two
statements of `DisableRedeemBatch` leaves no live code (`Disabling`). From `CatalogInvariance`
follow `CatalogTypeCorrect`, `OrderIsAlwaysDeliveredOnce`, `AlwaysRedeemedAsSold` and
`DisabledBatchStaysDead`.

*Models and purposes.* `OvertakenForACause` needs to know
what a lock excludes. `SyncInv` says that a sync holds the lock of its kind unless it has outlived
it (`Holding`), that no fetch is dated later than Sub2API's clock (`Dated`), and that what such a
sync has fetched is not older than what one like it has written (`Newest`); a second sync that
could have overtaken it, or inserted a model its `UPDATE` does not see, would have to hold the same
lock. `PurposeIsOneRequest` must survive a `DELETE` that does
not see the rows committed after it has begun. `RolesInv` says that it has removed all rows of a
purpose or none (`Whole`), that a request has no row before it inserts (`Unwritten`), and that rows
of a purpose have a default (`OfOne`); so rows of another request that are still there make a
second default, which the unique index refuses (`NothingBeside`). With them goes the sort order
from which `selectedConfiguredModel` takes the first model; that the answer is then usable is
`AnswerIsUsable`, where the legacy provider has no model only when none was read, and then no purpose
has a provider. From these follow
`OvertakenOnlyForACause`, `PurposeIsAlwaysOneRequest` and `ProviderIsAlwaysUsable`.

`CatalogIsTheSnapshot` compares writes made in an order with a definition that has none, for any
number of channels, so it is proved by induction on them. `After` is the induction hypothesis: after
the first `n` channels the rows are typed, those on offer are what the accounts and these channels
list (`OnOffer`), and each costs what the last of these channels that has a say sets (`PriceTo`).
One channel adds exactly what it lists (`ChannelOffers`) and sets the price exactly where it has a
say (`ChannelPrices`): a row that the backfill prices but the channel does not list is one that was
on offer before, and a row that it lists without a price overwrites an older price. With all channels, `OnOffer` and
`PriceTo` are `Supported` and `PriceOf` (`AllSupported`, `LastPrice`), whatever the rows were before:
what was on offer went inactive first (`AccountsMean`), but for rows the `UPDATE` did not see
(`Left`). There are none if the sync lists groups, and otherwise they are all that is on offer
(`NoGroupsNoModels`). `CopyInv` carries this to every state. It
says that of the syncs that list groups one writes at a time and has seen every model (`Serial`): one
with an empty list, which may commit meanwhile, adds none. It adds what the syncs and requests in progress hold (`Holds`, `Asks`), that the key of a model
is of a group with a row (`Keyed`), which no write of the groups takes away (`GroupsMean`), and the
types of the tables. From `CopyAlways` follow `CatalogIsAlwaysTheSnapshot` and `ModelsTypeCorrect`.

*User accounts.* `AccountInv` of `UserAccountsProofs` has a part for each promise
and for what that promise leans on. `Keyed`: no two rows of the ledger have the same idempotency key, because
the `INSERT` itself looks for one. `Followed`: a grant meant for Sub2API is credited, or carried by a
process, or by an operation that is not finished; it needs `Succeeded` (an operation succeeds only
after the credit) because a retry may find an operation of the same transaction that is done.
`LevelFollows`: the newest account, the only one that can be active (`Accounts`), has the level of
Sub2API, or somebody between Sub2API and the mirror or an operation is about to write it; it needs
`Alone`, that there is one such writer and that Sub2API has what he sent, unless an overlap was
recorded; whoever sends a level that he read before and that is no longer the newest row's is recorded
as "stale". `StatusFollows` is the hardest: a status can be asked for several times, and the newest
request, not the newest sender, must win. `Story` therefore claims that there is a record of what each numbered
request asked for, that whatever is on its way or at Sub2API carries the number of its request, and
that the number at Sub2API is the newest one or the newest request still waits, in a process
or in an operation (`Waiting`). `ErrsKeeps` is the lemma that does most of the work: however a call failed,
and whatever it had already done at Sub2API, the operation it leaves or a cause accounts for it.
`Remote` and `Working` say which steps imply a user at Sub2API, and that the worker's operation is the
running one. From `AccountAlways` follow `DeletedAlwaysLeavesNothing`, `AlwaysGrantedExactlyOnce`
and `CopiesAlwaysDivergeForACause`.

`GrantBalanceIsExact` is about the sum of the ledger, which a grant reads in one statement and
stores in a later one. `LedgerInv` says that whoever has read the sum holds the user's row and that
what he has read is still the sum (`Held`), because every other writer of the ledger waits for that
row; so each row's `balance_after` is the sum up to it (`Booked`). The
lemmas about `Balance` (a row more adds its amount, a longer ledger keeps the sums of its
beginnings) are inductions on the length. From `LedgerAlways` follow `GrantBalanceIsAlwaysExact` and
`AccountsTypeCorrect`.

*Backups.* A restore brings back an old list of backups, so a record that is shown as completed may
have been written long ago into a dump. `Claimed`, a part of `BackupInv` of `BackupsProofs`, therefore speaks of every place
where a record is stated to be completed: the table, the lists inside the dumps, and the two rows a
restore carries past the load. Each such statement names a record made before, whose dump is its
own and which nobody is still making. `Dumped` says what a finished dump contains, `Records` and
`Operations` what rows and operations look like at each step, `Exclusive` that the advisory lock
keeps the servers apart unless a session was lost, `Owned` who a row in progress belongs to, and
`Verified` that the digest a restore has verified is still that of its source. From
`BackupInvariance` follow `BackupTypeCorrect`, `CompletedIsAlwaysRestorable`,
`AlwaysRestoresWhatWasVerified` and `InProgressIsAlwaysOwned`. `CleanupAlwaysLeavesABackup` is an
action property: the newest completed record exists, because a non-empty set of record numbers has
a greatest one, nothing is newer than it, and the retention keeps what nothing is newer than.

The assumptions on constants are `RowAssumption`, `QueueAssumption`,
`ProcessAssumption`, `KeyAssumption`, `CredentialAssumption`, `NoneAssumption`, `GuardAssumption`,
`CatalogAssumption`, `BackupAssumption`, `ModelsAssumption` and `AccountAssumption`;
TLC evaluates them in the runs of their modules. What
`CatalogAssumption` and `BackupAssumption` say of `None` is that it is no row, operation, database
or product.

`ModelsAssumption` says what Sub2API can hold (`IsWorld`): lists whose groups, platforms and ids are
those of the instance, and statuses as the code normalises them. It says nothing about their length
or their contents, and two accounts, mappings or channels may name the same model.

Inductions. The library's induction theorems take an operator as a parameter, which the provers
cannot instantiate. Where a proof needs one, it is made over the set of numbers a fact holds for:
`EveryNumber` says that a set of naturals that has 0 and with each number the next is all of them,
and follows from a least counterexample (`WFMin`). Recursive definitions are therefore functions on
the naturals (`Balance`, `SyncedModels`), of which the proofs first show that they exist and satisfy
their equations (`WritesExist`, `WritesMean` for `SyncedModels`).

Only model-checked: the liveness properties `EveryRedemptionSettles`, `EveryRefreshEnds`,
`DisabledKeysSettle` and `PromisesAreKept`, since fairness and `ENABLED` are outside the prover, and
the two runs that end in a violation, which are counterexamples. Every safety property that a
passing run checks is proved, and the action properties and the refinement too.

## 5. Where code and documents disagree

`PROJECT.json` quotes the lines under `findings`.

1. The revocation after a replay misses a replacement that commits while it waits.
2. Two rotations at once leave a remote key that no row knows.

Others have no run of their own, since they are short consequences of the models.

- A request cancelled between the local and the remote disable of a key leaves no operation
  behind, because the operation is inserted under the cancelled context (`lost`, which
  `DisabledKeysAreChased` has to allow).
- `docs/concurrency-protection-plan.md:184` expects of two simultaneous refreshes that one
  succeeds and one fails safely; the second finds its token rotated, is taken for a replay
  (`ChooseActive`) and revokes the token the first was given.
- Line 414 expects that disabling a user with the keys overlooks no remote key;
  `RotateUserAPIKey` reads the user's status at its start, and a key it has made but not stored
  is not in the list that the cascade reads.
- Line 455 says that a failed operation is retried or dead-lettered. The two handlers never look
  at the attempts, and a late worker decides with old ones, so a row can be left failed with its
  attempts used up, which the three liveness properties have to allow.
- A late failure writes `failed` over a succeeded operation and `gateway_failed` over a synced
  redemption. The credit itself is safe: the worker repeats the call with the same key.
- Line 391 expects of a grant to a user who has just been disabled that the status is checked
  again in the transaction; it is read before the grant locks the row, and not after.
- Lines 364 and 374-375 expect that the codes of a batch are shown once and that only their
  hashes are stored; they are also stored encrypted, and a repeated order is answered with them
  (`FindBatch`), which `OrderIsDeliveredOnce` relies on.
- Line 390 expects that a failed remote grant of a balance or a subscription is retried from the
  queue; `Assign` of subscriptions returns the error and queues nothing.
- A user who is disabled and provisioned once more has two account rows, and enabling the first
  then violates the unique index at every retry. `CopiesDivergeForACause` lists it as `dead`.

## 6. Not modelled

- Subscription codes and `Assign`/`Revoke`: one call to Sub2API each, no state here. A retried
  extension is detected from Sub2API's notes only, which are external.
- The composition of `GatewayCredential` with `KeyRotation` (a disabled key that Sub2API answers
  again under the same idempotency key): the hazard is listed without a property.
- The gateway settings' `Update`, which saves one setting after another; the cache of
  entitlements, which its TTL bounds; the conversation provider, which reads only.
- Error classes: their result is a choice of the models. The Sub2API client: HTTP, whose
  outcomes (answered, refused, late, applied and not answered) are choices of the models.
- The admin console, dashboards, diagnostics, audit listings and presenters (read-only),
  configuration, routing and migrations.

## 7. Plan

Models: the composition named in section 6, then settings and entitlements. Proofs: the theorems of
the second parts (`GatewayCredential`, `RefreshTokens`) carry their assumption as a hypothesis; once
there is a composed module, it is the place for them.
