-------------------------- MODULE GatewayCredential --------------------------
(***************************************************************************)
(* How a user gets the gateway account and the API key of a group.  Four   *)
(* kinds of processes make them, each by the same two calls:               *)
(*   provider  GET /provider/..., under a provision lock in Redis          *)
(*   register  right after the registration, without that lock             *)
(*   admin     an administrator creates the user                           *)
(*   worker    executes the operation provision_gateway_credential, which  *)
(*             the first two enqueue when they fail                        *)
(* Each call runs under the user's lock: a mutex of the process it runs in *)
(* and a key of Redis with a time to live.                                 *)
(*                                                                         *)
(* One user and one group.  Sub2API is external: it has one account per    *)
(* e-mail address and answers a repeated idempotency key with the key it   *)
(* has made before.  The account is reduced to its row, and the permit for *)
(* creating a key to its outcome.  Nobody disables the key meanwhile       *)
(* (KeyRotation).                                                          *)
(***************************************************************************)
EXTENDS OperationRow

CONSTANTS
    Keys,        \* the keys Sub2API can make
    NoKey,       \* no key
    Requests,    \* HTTP requests
    Workers,     \* execution slots of the workers' runners
    Hosts,       \* operating system processes
    HostOf,      \* the host of every request and slot
    None,        \* a free lock
    Gone,        \* a lock whose holder does not know of it any more
    MaxFailures, \* bound: failed calls and crashes in a behaviour
    MaxOverruns  \* bound: locks that expire under a live holder

Procs == Requests \cup Workers

ASSUME CredentialAssumption ==
    /\ NoKey \notin Keys /\ Requests \cap Workers = {}
    /\ HostOf \in [Procs -> Hosts]
    /\ None \notin Procs /\ Gone \notin Procs /\ None # Gone
    /\ MaxFailures \in Nat /\ MaxOverruns \in Nat

VARIABLES
    account,   \* there is an active row of gateway_accounts
    stored,    \* the key in the active row of gateway_api_keys
    made,      \* the keys Sub2API has made
    remembered,\* Sub2API's answer to the idempotency key of user and group
    row,       \* the operation provision_gateway_credential of user and group
    provision, \* holder of brevyn:lock:provider:provision:user:..:group:..
    lock,      \* holder of brevyn:lock:gateway:user:..
    mutex,     \* holder of each host's gatewayUserLocks entry
    proc,      \* what each process is doing
    promised,  \* a request was told that the key is on its way
    failures,  \* failures used up, <= MaxFailures
    overruns   \* overruns used up, <= MaxOverruns

remote == <<made, remembered>>
locks == <<provision, lock, mutex>>
bounds == <<failures, overruns>>
vars == <<account, stored, remote, row, locks, proc, promised, bounds>>

\* pc of a process:
\*   idle    not there
\*   check   a provider request about to look for the stored key
\*   claim   about to take the provision lock
\*   local   about to look again, which the worker and the administrator do not
\*   mutex   about to take the host's mutex
\*   lock    about to take the user's lock
\*   account, read, create, insert   under the user's lock
\*   queue   about to enqueue the operation
\*   mark    the worker about to mark the operation succeeded
\* call: which of the two calls it is in
\* late, lateProvision: a lock has expired under the process
Process == [pc : {"idle", "check", "claim", "local", "mutex", "lock", "account", "read",
                  "create", "insert", "queue", "mark"},
            kind : {"provider", "register", "admin", "worker"},
            call : {"account", "read"},
            key : Keys \cup {NoKey}, late : BOOLEAN, lateProvision : BOOLEAN,
            attempts : Nat, max : Nat]

NoProcess == [pc |-> "idle", kind |-> "provider", call |-> "account", key |-> NoKey,
              late |-> FALSE, lateProvision |-> FALSE, attempts |-> 0, max |-> 0]

Init ==
    /\ account = FALSE /\ stored = NoKey
    /\ made = {} /\ remembered = NoKey
    /\ row = AbsentRow
    /\ provision = None /\ lock = None /\ mutex = [h \in Hosts |-> None]
    /\ proc = [p \in Procs |-> NoProcess]
    /\ promised = FALSE /\ failures = 0 /\ overruns = 0

At(p, pc) == proc[p].pc = pc
Goto(p, pc) == proc' = [proc EXCEPT ![p].pc = pc]
InLock(p) == proc[p].pc \in {"account", "read", "create", "insert"}
InMutex(p) == At(p, "lock") \/ InLock(p)
Fails == failures < MaxFailures /\ failures' = failures + 1 /\ UNCHANGED overruns

-----------------------------------------------------------------------------
(***************************************************************************)
(* The locks                                                               *)
(***************************************************************************)
\* mutant: the lock is deleted whoever holds it
DropAny(holder, p) == None

\* the release script: GET = token, then DEL
Drop(holder, p) == IF holder = p THEN None ELSE holder

\* the release script may not reach Redis: nobody looks at its error
Released(holder, p) == {Drop(holder, p), IF holder = p THEN Gone ELSE holder}

\* SET NX may have its effect although it returns an error
Refused(holder) == {holder, IF holder = None THEN Gone ELSE holder}

ReleaseProvision(p) == provision' \in Released(provision, p)

\* the function that lockGatewayUser returns
Unlock(p) ==
    /\ lock' \in Released(lock, p)
    /\ mutex' = [mutex EXCEPT ![HostOf[p]] = None]

\* the end of a process; a provider request releases its provision lock
Leave(p) ==
    /\ proc' = [proc EXCEPT ![p] = NoProcess]
    /\ ReleaseProvision(p)

\* lockGatewayUser: the mutex first ...
TakeMutex(p) ==
    /\ At(p, "mutex") /\ mutex[HostOf[p]] = None
    /\ mutex' = [mutex EXCEPT ![HostOf[p]] = p]
    /\ Goto(p, "lock")
    /\ UNCHANGED <<account, stored, remote, row, provision, lock, promised, bounds>>

\* ... then SET NX until it succeeds
TakeLock(p) ==
    /\ At(p, "lock") /\ lock = None
    /\ lock' = p
    /\ proc' = [proc EXCEPT ![p].pc = proc[p].call, ![p].late = FALSE]
    /\ UNCHANGED <<account, stored, remote, row, provision, mutex, promised, bounds>>

\* the time to live of a lock ends, under a holder that is gone ...
AbandonedLockExpires ==
    /\ lock = Gone
    /\ lock' = None
    /\ UNCHANGED <<account, stored, remote, row, provision, mutex, proc, promised, bounds>>

AbandonedProvisionExpires ==
    /\ provision = Gone
    /\ provision' = None
    /\ UNCHANGED <<account, stored, remote, row, lock, mutex, proc, promised, bounds>>

Overruns == overruns < MaxOverruns /\ overruns' = overruns + 1 /\ UNCHANGED failures

\* ... or under one that is slow
LockExpires(p) ==
    /\ lock = p
    /\ lock' = None
    /\ proc' = [proc EXCEPT ![p].late = TRUE]
    /\ Overruns
    /\ UNCHANGED <<account, stored, remote, row, provision, mutex, promised>>

ProvisionExpires(p) ==
    /\ provision = p
    /\ provision' = None
    /\ proc' = [proc EXCEPT ![p].lateProvision = TRUE]
    /\ Overruns
    /\ UNCHANGED <<account, stored, remote, row, lock, mutex, promised>>

-----------------------------------------------------------------------------
(***************************************************************************)
(* The ways in                                                             *)
(***************************************************************************)
Start(r, kind) ==
    /\ At(r, "idle")
    /\ proc' = [proc EXCEPT ![r] = [NoProcess EXCEPT
                                      !.kind = kind,
                                      !.pc = IF kind = "provider" THEN "check" ELSE "local"]]
    /\ UNCHANGED <<account, stored, remote, row, locks, promised, bounds>>

\* no provision slot is free: straight into the queue
RegisterBusy(r) ==
    /\ At(r, "idle")
    /\ proc' = [proc EXCEPT ![r] = [NoProcess EXCEPT !.kind = "register", !.pc = "queue"]]
    /\ UNCHANGED <<account, stored, remote, row, locks, promised, bounds>>

\* what localOfficialGatewayCredential finds
Existing == account /\ stored # NoKey

\* the first look of ensureGatewayCredentialForGroupRequest
CheckLocal(p) ==
    /\ At(p, "check")
    /\ IF Existing THEN Leave(p) ELSE Goto(p, "claim") /\ UNCHANGED provision
    /\ UNCHANGED <<account, stored, remote, row, lock, mutex, promised, bounds>>

\* the query fails, the limiter refuses, or Redis fails
Refuse(p) ==
    /\ \/ At(p, "check") /\ UNCHANGED provision
       \/ At(p, "claim") /\ provision' \in Refused(provision)
    /\ proc' = [proc EXCEPT ![p] = NoProcess]
    /\ UNCHANGED <<account, stored, remote, row, lock, mutex, promised, bounds>>

\* acquireProviderProvisionLock; when it is taken the operation is enqueued
ClaimProvision(p) ==
    /\ At(p, "claim")
    /\ IF provision = None
         THEN provision' = p /\ Goto(p, "local")
         ELSE Goto(p, "queue") /\ UNCHANGED provision
    /\ UNCHANGED <<account, stored, remote, row, lock, mutex, promised, bounds>>

\* a worker claims the operation
ClaimNext(w) ==
    /\ At(w, "idle")
    /\ Claimable(row)
    /\ row' = Claimed(row)
    /\ proc' = [proc EXCEPT ![w] = [NoProcess EXCEPT !.kind = "worker", !.pc = "local",
                                      !.attempts = row.attempts + 1, !.max = row.max]]
    /\ UNCHANGED <<account, stored, remote, locks, promised, bounds>>

-----------------------------------------------------------------------------
(***************************************************************************)
(* The two calls                                                           *)
(***************************************************************************)
\* the look under the provision lock, and the settings
LoadLocal(p) ==
    /\ At(p, "local")
    /\ IF Existing /\ proc[p].kind \in {"provider", "register"}
         THEN Leave(p)
         ELSE Goto(p, "mutex") /\ UNCHANGED provision
    /\ UNCHANGED <<account, stored, remote, row, lock, mutex, promised, bounds>>

\* mutant: the worker's executor drops the error of the call
ErrorDropped(p, retryable) ==
    /\ IF proc[p].kind = "admin" THEN Leave(p)
       ELSE Goto(p, IF proc[p].kind = "worker" THEN "mark" ELSE "queue") /\ UNCHANGED provision
    /\ UNCHANGED row

\* how a failed call ends for each kind of process
Failed(p, retryable) ==
    LET dead == ~retryable \/ proc[p].attempts >= proc[p].max IN
    \/ /\ proc[p].kind \in {"provider", "register"}
       /\ Goto(p, "queue")
       /\ UNCHANGED <<row, provision>>
    \/ /\ proc[p].kind = "admin"
       /\ Leave(p)
       /\ UNCHANGED row
    \/ /\ proc[p].kind = "worker"
       /\ row' = MarkFailed(row, retryable, dead, dead)
       /\ Leave(p)

\* the settings or the user cannot be loaded; a provider request gives up
LoadLocalFails(p, retryable) ==
    /\ At(p, "local")
    /\ IF proc[p].kind = "provider" THEN Leave(p) /\ UNCHANGED row ELSE Failed(p, retryable)
    /\ Fails
    /\ UNCHANGED <<account, stored, remote, lock, mutex, promised>>

\* the context ends, or Redis fails, while the process waits for the user's lock
LockTimesOut(p, retryable) ==
    /\ At(p, "lock")
    /\ lock' \in Refused(lock)
    /\ mutex' = [mutex EXCEPT ![HostOf[p]] = None]
    /\ Failed(p, retryable)
    /\ UNCHANGED <<account, stored, remote, promised, bounds>>

\* EnsureSub2APIAccountForGroup, EnsureSub2APIAccount
EnsureAccount(p) ==
    /\ At(p, "account")
    /\ account' = TRUE
    /\ Unlock(p)
    /\ proc' = [proc EXCEPT ![p].pc = "mutex", ![p].call = "read"]
    /\ UNCHANGED <<stored, remote, row, provision, promised, bounds>>

\* the end of EnsureGatewayAPIKeyForUser with a key
Ready(p) ==
    /\ Unlock(p)
    /\ IF proc[p].kind = "worker" THEN Goto(p, "mark") /\ UNCHANGED provision ELSE Leave(p)

\* activeAPIKeyForGroup
ReadKey(p) ==
    /\ At(p, "read")
    /\ IF stored # NoKey THEN Ready(p) ELSE Goto(p, "create") /\ UNCHANGED locks
    /\ UNCHANGED <<account, stored, remote, row, promised, bounds>>

\* external: POST /keys under the idempotency key of user and group
Answered(k) ==
    \/ remembered = k /\ UNCHANGED remote
    \/ remembered = NoKey /\ k \notin made /\ made' = made \cup {k} /\ remembered' = k

CreateKey(p, k) ==
    /\ At(p, "create")
    /\ Answered(k)
    /\ proc' = [proc EXCEPT ![p].pc = "insert", ![p].key = k]
    /\ UNCHANGED <<account, stored, row, locks, promised, bounds>>

\* what the INSERT leaves behind; the unique index refuses a second active key, and then the
\* first one is the answer
Inserting(p) == IF stored = NoKey THEN proc[p].key ELSE stored

InsertKey(p) ==
    /\ At(p, "insert")
    /\ stored' = Inserting(p)
    /\ Ready(p)
    /\ UNCHANGED <<account, remote, row, promised, bounds>>

\* a query, a remote call or the permit fails under the user's lock; what it
\* asked for may have been done
CallFails(p, retryable) ==
    /\ InLock(p)
    /\ \/ UNCHANGED <<account, stored, remote>>
       \/ At(p, "account") /\ account' = TRUE /\ UNCHANGED <<stored, remote>>
       \/ At(p, "create") /\ (\E k \in Keys : Answered(k)) /\ UNCHANGED <<account, stored>>
       \/ At(p, "insert") /\ stored' = Inserting(p) /\ UNCHANGED <<account, remote>>
    /\ Unlock(p)
    /\ Failed(p, retryable)
    /\ Fails
    /\ UNCHANGED promised

\* enqueueGatewayProvisionForGroup, and the answer 202
Enqueue(p) ==
    /\ At(p, "queue")
    /\ row' = EnsureGatewayProvision(row)
    /\ promised' = TRUE
    /\ Leave(p)
    /\ UNCHANGED <<account, stored, remote, lock, mutex, bounds>>

EnqueueFails(p) ==
    /\ At(p, "queue")
    /\ Leave(p)
    /\ Fails
    /\ UNCHANGED <<account, stored, remote, row, lock, mutex, promised>>

ExecutionSucceeds(w) ==
    /\ At(w, "mark")
    /\ row' = MarkSucceeded(row)
    /\ Leave(w)
    /\ UNCHANGED <<account, stored, remote, lock, mutex, promised, bounds>>

\* a host stops: its processes and its mutex are gone, its locks stay behind
Abandon(holder, h) == IF holder \in Procs /\ HostOf[holder] = h THEN Gone ELSE holder

Crash(h) ==
    /\ proc' = [p \in Procs |-> IF HostOf[p] = h THEN NoProcess ELSE proc[p]]
    /\ mutex' = [mutex EXCEPT ![h] = None]
    /\ lock' = Abandon(lock, h)
    /\ provision' = Abandon(provision, h)
    /\ Fails
    /\ UNCHANGED <<account, stored, remote, row, promised>>

queueRest == <<account, stored, remote, locks, proc, promised, bounds>>

Requeue == Stale(row) /\ row' = Requeued(row) /\ UNCHANGED queueRest

ComesDue ==
    /\ row.status \in {"pending", "failed"} /\ ~row.due
    /\ row' = [row EXCEPT !.due = TRUE]
    /\ UNCHANGED queueRest

RowLockExpires ==
    /\ row.lock = "fresh"
    /\ row' = [row EXCEPT !.lock = "stale"]
    /\ UNCHANGED queueRest

-----------------------------------------------------------------------------
Step(p) ==
    \/ CheckLocal(p) \/ ClaimProvision(p) \/ LoadLocal(p)
    \/ EnsureAccount(p) \/ ReadKey(p) \/ (\E k \in Keys : CreateKey(p, k)) \/ InsertKey(p)
    \/ Enqueue(p) \/ ExecutionSucceeds(p)

Wait(p) == TakeLock(p) \/ \E retryable \in BOOLEAN : LockTimesOut(p, retryable)

Trouble(p) ==
    \/ Refuse(p) \/ EnqueueFails(p) \/ LockExpires(p) \/ ProvisionExpires(p)
    \/ \E retryable \in BOOLEAN : LoadLocalFails(p, retryable) \/ CallFails(p, retryable)

Next ==
    \/ \E r \in Requests :
         RegisterBusy(r) \/ \E kind \in {"provider", "register", "admin"} : Start(r, kind)
    \/ \E w \in Workers : ClaimNext(w)
    \/ \E p \in Procs : Step(p) \/ TakeMutex(p) \/ Wait(p) \/ Trouble(p)
    \/ \E h \in Hosts : Crash(h)
    \/ AbandonedLockExpires \/ AbandonedProvisionExpires
    \/ Requeue \/ ComesDue \/ RowLockExpires

Spec == Init /\ [][Next]_vars

\* A process goes on until its context ends, which also ends its wait for the
\* user's lock; Go's mutex serves everyone who waits; abandoned locks expire;
\* the worker runs and time passes.
Fairness ==
    /\ \A p \in Procs : WF_vars(Step(p)) /\ WF_vars(Wait(p)) /\ SF_vars(TakeMutex(p))
    /\ WF_vars(AbandonedLockExpires) /\ WF_vars(AbandonedProvisionExpires)
    /\ WF_vars(\E w \in Workers : ClaimNext(w))
    /\ WF_vars(Requeue) /\ WF_vars(ComesDue) /\ WF_vars(RowLockExpires)

FairSpec == Spec /\ Fairness

-----------------------------------------------------------------------------
TypeOK ==
    /\ account \in BOOLEAN /\ stored \in Keys \cup {NoKey}
    /\ made \subseteq Keys /\ remembered \in Keys \cup {NoKey}
    /\ row \in Row
    /\ provision \in Procs \cup {None, Gone}
    /\ lock \in Procs \cup {None, Gone}
    /\ mutex \in [Hosts -> Procs \cup {None}]
    /\ proc \in [Procs -> Process]
    /\ promised \in BOOLEAN
    /\ failures \in 0..MaxFailures /\ overruns \in 0..MaxOverruns

Provisioning(p) ==
    proc[p].kind = "provider" /\ proc[p].pc \notin {"idle", "check", "claim", "queue"}

\* The user's lock and the provision lock exclude: of two processes that work
\* under the same lock one has outlived its time to live, and even then they
\* are on different hosts.  In particular the late one, when it is done, does
\* not release the lock of the other, which would let in a third.
OneAtATime ==
    \A p, q \in Procs :
        p # q =>
          /\ InLock(p) /\ InLock(q) =>
               HostOf[p] # HostOf[q] /\ (proc[p].late \/ proc[q].late)
          /\ Provisioning(p) /\ Provisioning(q) =>
               proc[p].lateProvision \/ proc[q].lateProvision

\* executeProvisionGatewayCredential, MarkSucceeded: an operation that is shown
\* as succeeded has left the user with an account and a key, whatever the other
\* processes did meanwhile under locks that expired, and whichever of its
\* executions, a late one included, has marked it.
SucceededMeansStored == row.status = "succeeded" => Existing

\* A user who was told that the key is on its way gets it in the end, or the
\* operation ends where an administrator sees it.
PromisesAreKept ==
    promised ~> \/ Existing
                \/ row.status = "dead_letter"
                \/ row.status = "failed" /\ row.attempts >= row.max
=============================================================================
