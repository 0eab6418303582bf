----------------------------- MODULE KeyRotation -----------------------------
(***************************************************************************)
(* What administrators do to the API keys of one user: rotate a key, move  *)
(* the user to another group, disable a key, disable the user and all the  *)
(* keys.  Every key exists twice, as a row of gateway_api_keys and as a    *)
(* key of Sub2API.  The handlers disable the row first and the remote key  *)
(* after it, one key at a time and without a lock; a remote call that      *)
(* fails is left to the worker as a gateway operation, one per key.        *)
(*                                                                         *)
(* All calls of a handler run under the context of its HTTP request, the   *)
(* insert of that operation too.                                           *)
(*                                                                         *)
(* Sub2API is external.  A call that fails may still have taken effect.    *)
(* Keys that the user's own requests create are there from the start.      *)
(***************************************************************************)
EXTENDS OperationRow, FiniteSets

CONSTANTS
    Keys,        \* the keys Sub2API can hand out
    Groups,      \* gateway groups
    NoGroup,     \* no group
    NoKey,       \* no key
    Requests,    \* administrators' requests
    Workers,     \* execution slots of the workers' runners
    MaxFailures, \* bound: failed calls and lost requests in a behaviour
    MaxRetries   \* bound: administrator retries in a behaviour

ASSUME KeyAssumption ==
    /\ NoKey \notin Keys /\ NoGroup \notin Groups
    /\ MaxFailures \in Nat /\ MaxRetries \in Nat

VARIABLES
    user,      \* users.status
    account,   \* "active": there is an active row of gateway_accounts
    stored,    \* gateway_api_keys.status
    remote,    \* the key's status at Sub2API
    group,     \* the key's group
    row,       \* the key's disable_api_key_remote operation
    req,       \* what each request is doing
    job,       \* what each worker slot is doing
    lost,      \* history: keys whose retry a request failed to enqueue
    failures,  \* failures used up, <= MaxFailures
    retries    \* retries used up, <= MaxRetries

vars == <<user, account, stored, remote, group, row, req, job, lost,
          failures, retries>>
userVars == <<user, account>>
bounds == <<failures, retries>>

\* pc of a request:
\*   idle    not there
\*   account about to ensure the gateway account
\*   create  about to create the new key at Sub2API
\*   list    about to read the active keys of the scope
\*   next    about to disable the next row of those it read
\*   remote  the row of cur is disabled, its remote key comes next
\*   enqueue that call failed and is about to be left to the worker
\*   insert  about to store the new key
\*   status  about to synchronise the user's status
PC == {"idle", "account", "create", "list", "next", "remote", "enqueue", "insert", "status"}

\* scope: the groups whose keys are disabled; then: the step after the last one
Request == [pc : PC, then : {"idle", "insert", "status"}, group : Groups \cup {NoGroup},
            scope : SUBSET Groups, new : Keys \cup {NoKey}, todo : SUBSET Keys,
            cur : Keys \cup {NoKey}, retryable : BOOLEAN,
            status : {"active", "disabled"}]

NoRequest == [pc |-> "idle", then |-> "idle", group |-> NoGroup, scope |-> {}, new |-> NoKey,
              todo |-> {}, cur |-> NoKey, retryable |-> FALSE, status |-> "active"]

\* a claimed OperationRecord; "disabled": Sub2API has answered
Job == [pc : {"idle", "executing", "disabled"}, key : Keys \cup {NoKey},
        attempts : Nat, max : Nat]

NoJob == [pc |-> "idle", key |-> NoKey, attempts |-> 0, max |-> 0]

\* the user has an active key in some of the groups
Init ==
    /\ user = "active" /\ account = "active"
    /\ group \in [Keys -> Groups \cup {NoGroup}]
    /\ \A g \in Groups : Cardinality({k \in Keys : group[k] = g}) <= 1
    /\ stored = [k \in Keys |-> IF group[k] = NoGroup THEN "none" ELSE "active"]
    /\ remote = stored
    /\ row = [k \in Keys |-> AbsentRow]
    /\ req = [r \in Requests |-> NoRequest]
    /\ job = [w \in Workers |-> NoJob]
    /\ lost = {}
    /\ failures = 0 /\ retries = 0

At(r, pc) == req[r].pc = pc
Goto(r, pc) == req' = [req EXCEPT ![r].pc = pc]
Leave(r) == req' = [req EXCEPT ![r] = NoRequest]
\* done with the key at hand
Continue(r) == req' = [req EXCEPT ![r].pc = "next", ![r].cur = NoKey, ![r].retryable = FALSE]

Fails ==
    /\ failures < MaxFailures
    /\ failures' = failures + 1
    /\ UNCHANGED retries

-----------------------------------------------------------------------------
(***************************************************************************)
(* The requests                                                            *)
(***************************************************************************)
RotateUserAPIKey(r, g) ==
    /\ At(r, "idle")
    /\ user = "active"
    /\ req' = [req EXCEPT ![r] = [NoRequest EXCEPT !.pc = "account", !.then = "insert",
                                    !.group = g, !.scope = {g}]]
    /\ UNCHANGED <<userVars, stored, remote, group, row, job, lost, bounds>>

\* the same, for the keys of every group
ChangeUserGatewayGroup(r, g) ==
    /\ At(r, "idle")
    /\ user = "active"
    /\ req' = [req EXCEPT ![r] = [NoRequest EXCEPT !.pc = "account", !.then = "insert",
                                    !.group = g, !.scope = Groups]]
    /\ UNCHANGED <<userVars, stored, remote, group, row, job, lost, bounds>>

\* findGatewayAPIKey finds a row of any status
DisableAPIKey(r, k) ==
    /\ At(r, "idle")
    /\ stored[k] # "none"
    /\ stored' = [stored EXCEPT ![k] = "disabled"]
    /\ req' = [req EXCEPT ![r] = [NoRequest EXCEPT !.pc = "remote", !.cur = k]]
    /\ UNCHANGED <<userVars, remote, group, row, job, lost, bounds>>

\* UserService.UpdateStatus commits
UpdateUser(r, status, cascade) ==
    /\ At(r, "idle")
    /\ user' = status
    /\ req' = [req EXCEPT ![r] = [NoRequest EXCEPT
                                    !.pc = IF status = "disabled" /\ cascade THEN "list" ELSE "status",
                                    !.then = "status", !.scope = Groups, !.status = status]]
    /\ UNCHANGED <<account, stored, remote, group, row, job, lost, bounds>>

-----------------------------------------------------------------------------
(***************************************************************************)
(* Rotation: a new key first                                               *)
(***************************************************************************)
\* a user without an active account gets a new one
EnsureSub2APIAccount(r) ==
    /\ At(r, "account")
    /\ account' = "active"
    /\ Goto(r, "create")
    /\ UNCHANGED <<user, stored, remote, group, row, job, lost, bounds>>

\* external: Sub2API makes a key
Made(k, g) ==
    /\ remote[k] = "none"
    /\ remote' = [remote EXCEPT ![k] = "active"]
    /\ group' = [group EXCEPT ![k] = g]

\* the idempotency key is new, so the key is
CreateRemoteGatewayAPIKey(r, k) ==
    /\ At(r, "create")
    /\ Made(k, req[r].group)
    /\ req' = [req EXCEPT ![r].pc = "list", ![r].new = k]
    /\ UNCHANGED <<userVars, stored, row, job, lost, bounds>>

\* the account or the key cannot be had, or the answer is lost
CreateFails(r) ==
    /\ At(r, "account") \/ At(r, "create")
    /\ \/ UNCHANGED <<remote, group>>
       \/ At(r, "create") /\ \E k \in Keys : Made(k, req[r].group)
    /\ Leave(r)
    /\ Fails
    /\ UNCHANGED <<userVars, stored, row, job, lost>>

\* insertAdminGatewayAPIKey: needs an active account, and the unique index
\* allows one active key per group
InsertAdminGatewayAPIKey(r) ==
    /\ At(r, "insert")
    /\ IF /\ account = "active"
          /\ \A k \in Keys : ~(stored[k] = "active" /\ group[k] = req[r].group)
         THEN stored' = [stored EXCEPT ![req[r].new] = "active"]
         ELSE UNCHANGED stored
    /\ Leave(r)
    /\ UNCHANGED <<userVars, remote, group, row, job, lost, bounds>>

-----------------------------------------------------------------------------
(***************************************************************************)
(* Disabling: DisableUserGatewayAPIKeysForGroup, and DisableAPIKey from    *)
(* "remote" on                                                             *)
(***************************************************************************)
ActiveGatewayAPIKeyRecords(r) ==
    /\ At(r, "list")
    /\ req' = [req EXCEPT ![r].pc = "next",
                          ![r].todo = {k \in Keys : stored[k] = "active"
                                                     /\ group[k] \in req[r].scope}]
    /\ UNCHANGED <<userVars, stored, remote, group, row, job, lost, bounds>>

\* mutant: the remote key first, the row once Sub2API has answered
DisableRemoteFirst(r, k) ==
    /\ At(r, "next") /\ k \in req[r].todo
    /\ remote' = [remote EXCEPT ![k] = "disabled"]
    /\ req' = [req EXCEPT ![r].pc = "remote", ![r].cur = k, ![r].todo = @ \ {k}]
    /\ UNCHANGED <<userVars, stored, group, row, job, lost, bounds>>

\* disableGatewayAPIKeyLocally; the newest key first, which may be any
DisableLocally(r, k) ==
    /\ At(r, "next") /\ k \in req[r].todo
    /\ stored' = [stored EXCEPT ![k] = "disabled"]
    /\ req' = [req EXCEPT ![r].pc = "remote", ![r].cur = k, ![r].todo = @ \ {k}]
    /\ UNCHANGED <<userVars, remote, group, row, job, lost, bounds>>

\* the list cannot be read, or a row cannot be written: a warning, and on
LocalStepFails(r) ==
    /\ \/ At(r, "list") /\ Goto(r, "next")
       \/ At(r, "next") /\ \E k \in req[r].todo : req' = [req EXCEPT ![r].todo = @ \ {k}]
    /\ Fails
    /\ UNCHANGED <<userVars, stored, remote, group, row, job, lost>>

\* the loop is over
AllDisabled(r) ==
    /\ At(r, "next") /\ req[r].todo = {}
    /\ IF req[r].then = "idle" THEN Leave(r) ELSE Goto(r, req[r].then)
    /\ UNCHANGED <<userVars, stored, remote, group, row, job, lost, bounds>>

\* disableSub2APIKey succeeds
DisableSub2APIKey(r) ==
    /\ At(r, "remote")
    /\ remote' = [remote EXCEPT ![req[r].cur] = "disabled"]
    /\ Continue(r)
    /\ UNCHANGED <<userVars, stored, group, row, job, lost, bounds>>

\* disableSub2APIKey fails before or after Sub2API has disabled the key
DisableSub2APIKeyFails(r, retryable) ==
    /\ At(r, "remote")
    /\ remote' \in {remote, [remote EXCEPT ![req[r].cur] = "disabled"]}
    /\ req' = [req EXCEPT ![r].pc = "enqueue", ![r].retryable = retryable]
    /\ Fails
    /\ UNCHANGED <<userVars, stored, group, row, job, lost>>

\* mutant: only what a retry can cure is enqueued
EnqueueRetryable(r) ==
    /\ At(r, "enqueue")
    /\ row' = [row EXCEPT ![req[r].cur] = IF req[r].retryable THEN CreateFailed(@, TRUE) ELSE @]
    /\ Continue(r)
    /\ UNCHANGED <<userVars, stored, remote, group, job, lost, bounds>>

EnqueueDisableAPIKeyRetry(r) ==
    /\ At(r, "enqueue")
    /\ row' = [row EXCEPT ![req[r].cur] = CreateFailed(@, req[r].retryable)]
    /\ Continue(r)
    /\ UNCHANGED <<userVars, stored, remote, group, job, lost, bounds>>

\* its error is ignored
EnqueueFails(r) ==
    /\ At(r, "enqueue")
    /\ lost' = lost \cup {req[r].cur}
    /\ Continue(r)
    /\ Fails
    /\ UNCHANGED <<userVars, stored, remote, group, row, job>>

\* UpdateUser's last step
SyncUserStatusRemote(r) ==
    /\ At(r, "status")
    /\ account' = req[r].status
    /\ Leave(r)
    /\ UNCHANGED <<user, stored, remote, group, row, job, lost, bounds>>

\* an operation of its own is enqueued, which is not about keys
StatusSyncFails(r) ==
    /\ At(r, "status")
    /\ Leave(r)
    /\ Fails
    /\ UNCHANGED <<userVars, stored, remote, group, row, job, lost>>

\* The client goes away: the context of the request is cancelled and every
\* call of the handler fails from here on, the enqueueing too.  Or the
\* process dies.
Disconnect(r) ==
    /\ ~At(r, "idle")
    /\ lost' = IF At(r, "remote") \/ At(r, "enqueue") THEN lost \cup {req[r].cur} ELSE lost
    /\ Leave(r)
    /\ Fails
    /\ UNCHANGED <<userVars, stored, remote, group, row, job>>

-----------------------------------------------------------------------------
(***************************************************************************)
(* The worker: disableAPIKeyRemote                                         *)
(***************************************************************************)
keyRest == <<userVars, stored, group, req, lost>>

ClaimNext(w, k) ==
    /\ job[w].pc = "idle"
    /\ Claimable(row[k])
    /\ row' = [row EXCEPT ![k] = Claimed(@)]
    /\ job' = [job EXCEPT ![w] = [pc |-> "executing", key |-> k,
                                  attempts |-> row[k].attempts + 1, max |-> row[k].max]]
    /\ UNCHANGED <<keyRest, remote, bounds>>

\* SyncDisabledAPIKeyRemote
Execute(w) ==
    /\ job[w].pc = "executing"
    /\ remote' = [remote EXCEPT ![job[w].key] = "disabled"]
    /\ job' = [job EXCEPT ![w].pc = "disabled"]
    /\ UNCHANGED <<keyRest, row, bounds>>

ExecutionSucceeds(w) ==
    /\ job[w].pc = "disabled"
    /\ row' = [row EXCEPT ![job[w].key] = MarkSucceeded(@)]
    /\ job' = [job EXCEPT ![w] = NoJob]
    /\ UNCHANGED <<keyRest, remote, bounds>>

\* before or after Sub2API has disabled the key
ExecutionFails(w, retryable) ==
    LET dead == ~retryable \/ job[w].attempts >= job[w].max IN
    /\ job[w].pc = "executing"
    /\ remote' \in {remote, [remote EXCEPT ![job[w].key] = "disabled"]}
    /\ row' = [row EXCEPT ![job[w].key] = MarkFailed(@, retryable, dead, dead)]
    /\ job' = [job EXCEPT ![w] = NoJob]
    /\ Fails
    /\ UNCHANGED keyRest

WorkerVanishes(w) ==
    /\ job[w].pc # "idle"
    /\ job' = [job EXCEPT ![w] = NoJob]
    /\ Fails
    /\ UNCHANGED <<keyRest, remote, row>>

queueRest == <<keyRest, remote, job>>

Requeue(k) ==
    /\ Stale(row[k])
    /\ row' = [row EXCEPT ![k] = Requeued(@)]
    /\ UNCHANGED <<queueRest, bounds>>

Retry(k) ==
    /\ retries < MaxRetries
    /\ CanRetry(row[k])
    /\ row' = [row EXCEPT ![k] = Retried(@)]
    /\ retries' = retries + 1
    /\ UNCHANGED <<queueRest, failures>>

ComesDue(k) ==
    /\ row[k].status \in {"pending", "failed"} /\ ~row[k].due
    /\ row' = [row EXCEPT ![k].due = TRUE]
    /\ UNCHANGED <<queueRest, bounds>>

LockExpires(k) ==
    /\ row[k].lock = "fresh"
    /\ row' = [row EXCEPT ![k].lock = "stale"]
    /\ UNCHANGED <<queueRest, bounds>>

-----------------------------------------------------------------------------
Start(r) ==
    \/ \E g \in Groups : RotateUserAPIKey(r, g) \/ ChangeUserGatewayGroup(r, g)
    \/ \E k \in Keys : DisableAPIKey(r, k)
    \/ \E status \in {"active", "disabled"}, cascade \in BOOLEAN : UpdateUser(r, status, cascade)

Step(r) ==
    \/ EnsureSub2APIAccount(r) \/ InsertAdminGatewayAPIKey(r)
    \/ \E k \in Keys : CreateRemoteGatewayAPIKey(r, k) \/ DisableLocally(r, k)
    \/ ActiveGatewayAPIKeyRecords(r) \/ AllDisabled(r)
    \/ DisableSub2APIKey(r) \/ EnqueueDisableAPIKeyRetry(r) \/ SyncUserStatusRemote(r)

Trouble(r) ==
    \/ CreateFails(r) \/ LocalStepFails(r) \/ EnqueueFails(r) \/ StatusSyncFails(r)
    \/ Disconnect(r)
    \/ \E retryable \in BOOLEAN : DisableSub2APIKeyFails(r, retryable)

Work(w) == Execute(w) \/ ExecutionSucceeds(w)

Next ==
    \/ \E r \in Requests : Start(r) \/ Step(r) \/ Trouble(r)
    \/ \E w \in Workers :
         \/ Work(w) \/ WorkerVanishes(w)
         \/ \E k \in Keys : ClaimNext(w, k)
         \/ \E retryable \in BOOLEAN : ExecutionFails(w, retryable)
    \/ \E k \in Keys : Requeue(k) \/ Retry(k) \/ ComesDue(k) \/ LockExpires(k)

Spec == Init /\ [][Next]_vars

\* A request goes on until it is done or lost (its steps are database
\* statements and HTTP calls with a timeout), the workers run, stale rows are
\* requeued, and time passes.  Nobody owes a success: failures are only bounded.
Fairness ==
    /\ \A r \in Requests : WF_vars(Step(r))
    /\ \A w \in Workers : WF_vars(Work(w))
    /\ \A k \in Keys : /\ WF_vars(\E w \in Workers : ClaimNext(w, k))
                        /\ WF_vars(Requeue(k))
                        /\ WF_vars(ComesDue(k))
                        /\ WF_vars(LockExpires(k))

FairSpec == Spec /\ Fairness

-----------------------------------------------------------------------------
(***************************************************************************)
(* Properties                                                              *)
(***************************************************************************)
KeyStatuses == {"none", "active", "disabled"}

TypeOK ==
    /\ user \in {"active", "disabled"} /\ account \in {"active", "disabled"}
    /\ stored \in [Keys -> KeyStatuses]
    /\ remote \in [Keys -> KeyStatuses]
    /\ group \in [Keys -> Groups \cup {NoGroup}]
    /\ row \in [Keys -> Row]
    /\ req \in [Requests -> Request]
    /\ job \in [Workers -> Job]
    /\ lost \subseteq Keys
    /\ failures \in 0..MaxFailures /\ retries \in 0..MaxRetries

Quiet == \A r \in Requests : At(r, "idle")

\* the key's operation is one that an administrator sees as not done
Queued(k) == row[k].status \notin {"absent", "succeeded"}

\* A key that is disabled here and works at Sub2API is somebody's task: a
\* request is about to disable or to enqueue it, or its operation is in the
\* queue and not called done.  The one exception is a request that was lost
\* between the two.
DisabledKeysAreChased ==
    \A k \in Keys :
        stored[k] = "disabled" /\ remote[k] = "active"
          => \/ k \in lost
             \/ Queued(k)
             \/ \E r \in Requests : req[r].pc \in {"remote", "enqueue"} /\ req[r].cur = k

\* An operation that is shown as succeeded has disabled its key.
SucceededMeansDisabled ==
    \A k \in Keys : row[k].status = "succeeded" => remote[k] = "disabled"

\* A key that is handed out as active works at Sub2API, whichever handlers and
\* workers are disabling keys meanwhile: the row is always disabled first.
ActiveKeysWork ==
    \A k \in Keys : stored[k] = "active" => remote[k] = "active"

\* A key that is disabled here is disabled at Sub2API in the end, or its
\* operation ends where an administrator sees it, or its request was lost.
DisabledKeysSettle ==
    \A k \in Keys :
        stored[k] = "disabled"
          ~> \/ remote[k] = "disabled"
             \/ k \in lost
             \/ row[k].status = "dead_letter"
             \/ row[k].status = "failed" /\ row[k].attempts >= row[k].max

\* After any number of rotations only the newest key is active: when all
\* requests are done, no group has two keys that work at Sub2API and that
\* nobody is going to disable.
OnlyNewestKeyActive ==
    Quiet => \A g \in Groups :
        Cardinality({k \in Keys : group[k] = g /\ remote[k] = "active" /\ ~Queued(k)}) <= 1
=============================================================================
