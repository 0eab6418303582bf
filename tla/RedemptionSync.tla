---------------------------- MODULE RedemptionSync ----------------------------
(***************************************************************************)
(* Redeeming a balance code, from the click to the credit at the gateway.  *)
(*                                                                         *)
(* Three kinds of process synchronise the same redemption: the redeem      *)
(* request that created it, the worker that claims its gateway operation,  *)
(* and an administrator who presses "retry".  Each of them loads the       *)
(* redemption, calls Sub2API with the redemption's idempotency key, and    *)
(* then writes the outcome to two tables in two statements.  None of them  *)
(* holds a lock while it does.  The answer of Sub2API may be late, lost,   *)
(* or arrive after the caller has given up, and a process may disappear    *)
(* between any two steps.                                                  *)
(*                                                                         *)
(* Sub2API itself is external: it adds a balance once per idempotency key. *)
(* A code's value is abstracted to "credited so many times".               *)
(***************************************************************************)
EXTENDS OperationRow, FiniteSets

CONSTANTS
    Codes,      \* redeem codes
    Users,      \* users
    Nobody,     \* no user
    Requests,   \* redeem requests
    Workers,    \* execution slots of the workers' runners
    Admins,     \* administrators' manual synchronisations
    NoCode,     \* no code
    MaxRetries  \* bound: administrator retries in a behaviour

ASSUME ProcessAssumption ==
    /\ Requests \cap Workers = {} /\ Requests \cap Admins = {}
    /\ Workers \cap Admins = {}
    /\ Nobody \notin Users \cup Requests \cup Workers \cup Admins
    /\ NoCode \notin Codes
    /\ MaxRetries \in Nat

VARIABLES
    code,       \* redeem_codes.status
    redemption, \* redeem_redemptions, one per code: user and status
    row,        \* its gateway operation
    expired,    \* codes past their expires_at
    active,     \* users whose status is 'active'
    proc,       \* what each process is doing
    calls,      \* balance requests on their way to Sub2API
    applied,    \* idempotency keys Sub2API has seen
    credit,     \* user, code -> how often Sub2API added the code's value
    retries     \* retries used up, <= MaxRetries

vars == <<code, redemption, row, expired, active, proc, calls, applied, credit, retries>>

Procs == Requests \cup Workers \cup Admins

\* pc of a process:
\*   idle     not there
\*   loading  about to read the redemption and its user's status
\*   taking   an administrator about to take the operation over
\*   ready    about to call Sub2API
\*   calling  waiting for the answer
\*   answered the balance was added
\*   synced   the redemption is marked synced; the API key comes next
\*   count    a request about to count its failed attempt
\*   mark     about to mark the operation failed
\*   status   about to mark the redemption gateway_failed
\*   keymark  a request about to leave the API key to the worker
PC == {"idle", "loading", "taking", "ready", "calling", "answered", "synced",
       "count", "mark", "status", "keymark"}

\* attempts and max are those of the claimed OperationRecord; retryable is
\* the class of the error that ended the synchronisation
Proc == [pc : PC, code : Codes \cup {NoCode}, attempts : Nat, max : Nat,
         retryable : BOOLEAN]

Idle == [pc |-> "idle", code |-> NoCode, attempts |-> 0, max |-> 0, retryable |-> FALSE]

Redemption == [user : Users \cup {Nobody},
               status : {"none", "pending_gateway", "synced", "gateway_failed"}]

NoRedemption == [user |-> Nobody, status |-> "none"]

Init ==
    /\ code = [c \in Codes |-> "unused"]
    /\ redemption = [c \in Codes |-> NoRedemption]
    /\ row = [c \in Codes |-> AbsentRow]
    /\ expired = {}
    /\ active = Users
    /\ proc = [p \in Procs |-> Idle]
    /\ calls = {}
    /\ applied = {}
    /\ credit = [u \in Users |-> [c \in Codes |-> 0]]
    /\ retries = 0

local == <<code, redemption, row, expired, active>>
remote == <<applied, credit>>

At(p, pc) == proc[p].pc = pc
Goto(p, pc) == proc' = [proc EXCEPT ![p].pc = pc]
Leave(p) == proc' = [proc EXCEPT ![p] = Idle]
\* the outcome is an error: the statement at pc is next
Failing(p, pc, retryable) ==
    proc' = [proc EXCEPT ![p].pc = pc, ![p].retryable = retryable]

-----------------------------------------------------------------------------
(***************************************************************************)
(* The catalogue and the users                                             *)
(***************************************************************************)
\* mutant: a used code can be disabled too
DisableAnyCode(c) ==
    /\ code[c] # "disabled"
    /\ code' = [code EXCEPT ![c] = "disabled"]
    /\ UNCHANGED <<redemption, row, expired, active, proc, calls, remote, retries>>

\* DisableRedeemCode: only an unused code
DisableCode(c) ==
    /\ code[c] = "unused"
    /\ code' = [code EXCEPT ![c] = "disabled"]
    /\ UNCHANGED <<redemption, row, expired, active, proc, calls, remote, retries>>

\* expires_at is reached; nothing reads it once the code is used
CodeExpires(c) ==
    /\ code[c] = "unused" /\ c \notin expired
    /\ expired' = expired \cup {c}
    /\ UNCHANGED <<code, redemption, row, active, proc, calls, remote, retries>>

\* UpdateStatus: an administrator disables a user, or enables him again
SetUserStatus(u) ==
    /\ active' = IF u \in active THEN active \ {u} ELSE active \cup {u}
    /\ UNCHANGED <<code, redemption, row, expired, proc, calls, remote, retries>>

-----------------------------------------------------------------------------
(***************************************************************************)
(* Starting a synchronisation                                              *)
(***************************************************************************)
\* markRedeemedLocally: one transaction under the lock of the code's row.
\* The redemption's UNIQUE(redeem_code_id) is the second line of defence.
MarkRedeemedLocally(r, u, c) ==
    /\ At(r, "idle")
    /\ u \in active
    /\ code[c] = "unused" /\ c \notin expired
    /\ redemption[c] = NoRedemption
    /\ code' = [code EXCEPT ![c] = "used"]
    /\ redemption' = [redemption EXCEPT ![c] = [user |-> u, status |-> "pending_gateway"]]
    /\ row' = [row EXCEPT ![c] = CreateRedemptionSync(@)]
    /\ proc' = [proc EXCEPT ![r] = [Idle EXCEPT !.pc = "ready", !.code = c]]
    /\ UNCHANGED <<expired, active, calls, remote, retries>>

\* claimNext
ClaimNext(w, c) ==
    /\ At(w, "idle")
    /\ Claimable(row[c])
    /\ row' = [row EXCEPT ![c] = Claimed(@)]
    /\ proc' = [proc EXCEPT ![w] = [Idle EXCEPT !.pc = "loading", !.code = c,
                                      !.attempts = row[c].attempts + 1, !.max = row[c].max]]
    /\ UNCHANGED <<code, redemption, expired, active, calls, remote, retries>>

\* syncRedemption after LoadSyncTarget: an inactive user is a permanent
\* error, a synced redemption only needs its account and API key
WorkerLoads(w) ==
    /\ w \in Workers /\ At(w, "loading")
    /\ LET r == redemption[proc[w].code] IN
         \/ r.user \notin active /\ Failing(w, "mark", FALSE)
         \/ r.user \in active /\ r.status = "synced" /\ Goto(w, "synced")
         \/ r.user \in active /\ r.status # "synced" /\ Goto(w, "ready")
    /\ UNCHANGED <<local, calls, remote, retries>>

\* LoadSyncTarget or LoadSub2APISettings fails
WorkerLoadFails(w, retryable) ==
    /\ w \in Workers /\ At(w, "loading")
    /\ Failing(w, "mark", retryable)
    /\ UNCHANGED <<local, calls, remote, retries>>

\* RetryRedemptionSync reads the redemption ...
AdminLoads(a, c) ==
    /\ At(a, "idle")
    /\ redemption[c].status \in {"gateway_failed", "pending_gateway"}
    /\ redemption[c].user \in active
    /\ retries < MaxRetries
    /\ proc' = [proc EXCEPT ![a] = [Idle EXCEPT !.pc = "taking", !.code = c]]
    /\ retries' = retries + 1
    /\ UNCHANGED <<local, calls, remote>>

\* ... and takes its operation, whoever works on it by now
AdminTakes(a) ==
    /\ At(a, "taking")
    /\ row' = [row EXCEPT ![proc[a].code] = TakenByAdmin(@)]
    /\ Goto(a, "ready")
    /\ UNCHANGED <<code, redemption, expired, active, calls, remote, retries>>

-----------------------------------------------------------------------------
(***************************************************************************)
(* SyncTargetToSub2API, the same for all of them                           *)
(***************************************************************************)
\* mutant: a fresh key for every synchronisation
KeyPerSync(p) == <<p, proc[p].code>>

\* "brevyn-" and the redemption's public identifier
IdempotencyKey(p) == proc[p].code

\* UpdateUserBalance.  A call whose caller gave up has no caller.
Call(p) == [caller |-> p, key |-> IdempotencyKey(p), code |-> proc[p].code,
            user |-> redemption[proc[p].code].user]

SendCall(p) ==
    /\ At(p, "ready")
    /\ calls' = calls \cup {Call(p)}
    /\ Goto(p, "calling")
    /\ UNCHANGED <<local, remote, retries>>

\* where a failed synchronisation goes on: the executor marks the redemption
\* before the runner marks the operation, the two handlers the other way
\* round, and the request counts an attempt first
FirstMark(p) ==
    CASE p \in Workers -> "status" [] p \in Requests -> "count" [] OTHER -> "mark"

\* a caller that gives up leaves its call on the way
Abandoned(p) ==
    {IF m.caller = p THEN [m EXCEPT !.caller = Nobody] ELSE m : m \in calls}

\* The settings, the account or the call fail, or the deadline passes.  The
\* caller cannot tell whether Sub2API took the balance, takes it later, or
\* never does.
SyncFails(p, retryable) ==
    /\ At(p, "ready") \/ At(p, "calling")
    /\ calls' = Abandoned(p)
    /\ Failing(p, FirstMark(p), retryable)
    /\ UNCHANGED <<local, remote, retries>>

\* external: Sub2API takes a call, once per key
RemoteApplies(m) ==
    /\ m \in calls
    /\ calls' = calls \ {m}
    /\ applied' = applied \cup {m.key}
    /\ credit' = IF m.key \in applied THEN credit
                 ELSE [credit EXCEPT ![m.user][m.code] = @ + 1]
    /\ UNCHANGED <<local, proc, retries>>

\* external: an abandoned call never arrives
RemoteLoses(m) ==
    /\ m \in calls /\ m.caller = Nobody
    /\ calls' = calls \ {m}
    /\ UNCHANGED <<local, proc, remote, retries>>

\* mutant: the call is sent and its answer is not awaited
CallSentIsEnough(p) ==
    /\ At(p, "calling")
    /\ Goto(p, "answered")
    /\ UNCHANGED <<local, calls, remote, retries>>

\* a positive answer
CallAnswered(p) ==
    /\ At(p, "calling")
    /\ Call(p) \notin calls
    /\ Goto(p, "answered")
    /\ UNCHANGED <<local, calls, remote, retries>>

-----------------------------------------------------------------------------
(***************************************************************************)
(* Writing the outcome                                                     *)
(***************************************************************************)
SetStatus(c, status) == redemption' = [redemption EXCEPT ![c].status = status]

\* UpdateRedemptionStatus(..., "synced", ...), unconditional
MarkSynced(p) ==
    /\ At(p, "answered")
    /\ SetStatus(proc[p].code, "synced")
    /\ Goto(p, "synced")
    /\ UNCHANGED <<code, row, expired, active, calls, remote, retries>>

\* that statement fails, or in the request the settings it reads before: the
\* request and the worker record a failure, the administrator's handler returns
MarkSyncedFails(p, retryable) ==
    /\ At(p, "answered")
    /\ \/ p \in Admins /\ Leave(p)
       \/ p \in Workers /\ Failing(p, "mark", retryable)
       \/ p \in Requests /\ Failing(p, "count", retryable)
    /\ UNCHANGED <<local, calls, remote, retries>>

\* the API key is there too
MarkOperationSucceeded(p) ==
    /\ At(p, "synced")
    /\ row' = [row EXCEPT ![proc[p].code] = MarkSucceeded(@)]
    /\ Leave(p)
    /\ UNCHANGED <<code, redemption, expired, active, calls, remote, retries>>

DeadLetter(p, retryable) ==
    ~retryable \/ (p \in Workers /\ proc[p].attempts >= proc[p].max)

\* the runner makes a dead letter due at once, which nobody reads
MarkedFailed(p, retryable) ==
    MarkFailed(row[proc[p].code], retryable, DeadLetter(p, retryable),
               p \in Workers /\ DeadLetter(p, retryable))

\* the account or the API key cannot be had
KeyFails(p, retryable) ==
    /\ p \notin Requests /\ At(p, "synced")
    /\ row' = [row EXCEPT ![proc[p].code] = MarkedFailed(p, retryable)]
    /\ Leave(p)
    /\ UNCHANGED <<code, redemption, expired, active, calls, remote, retries>>

\* the request calls a missing API key a partial success: it counts the
\* attempt, if that statement succeeds, and leaves the key to the worker
RequestKeyFails(r) ==
    /\ r \in Requests /\ At(r, "synced")
    /\ \/ row' = [row EXCEPT ![proc[r].code] = AttemptCounted(@)]
       \/ UNCHANGED row
    /\ Goto(r, "keymark")
    /\ UNCHANGED <<code, redemption, expired, active, calls, remote, retries>>

RequestMarksKey(r) ==
    /\ At(r, "keymark")
    /\ row' = [row EXCEPT ![proc[r].code] = MarkFailed(@, TRUE, FALSE, FALSE)]
    /\ Leave(r)
    /\ UNCHANGED <<code, redemption, expired, active, calls, remote, retries>>

RequestCounts(r) ==
    /\ At(r, "count")
    /\ row' = [row EXCEPT ![proc[r].code] = AttemptCounted(@)]
    /\ Goto(r, "mark")
    /\ UNCHANGED <<code, redemption, expired, active, calls, remote, retries>>

\* the executor's UpdateRedemptionStatus precedes the runner's MarkFailed
WorkerMarksRedemption(w) ==
    /\ w \in Workers /\ At(w, "status")
    /\ SetStatus(proc[w].code, "gateway_failed")
    /\ Goto(w, "mark")
    /\ UNCHANGED <<code, row, expired, active, calls, remote, retries>>

MarkOperationFailed(p) ==
    /\ At(p, "mark")
    /\ row' = [row EXCEPT ![proc[p].code] = MarkedFailed(p, proc[p].retryable)]
    /\ IF p \in Workers THEN Leave(p) ELSE Goto(p, "status")
    /\ UNCHANGED <<code, redemption, expired, active, calls, remote, retries>>

\* the handlers' UpdateRedemptionStatus follows their MarkFailed
HandlerMarksRedemption(p) ==
    /\ p \notin Workers /\ At(p, "status")
    /\ SetStatus(proc[p].code, "gateway_failed")
    /\ Leave(p)
    /\ UNCHANGED <<code, row, expired, active, calls, remote, retries>>

\* the error of a statement is ignored and the next one is run
StatementFails(p) ==
    /\ \/ At(p, "taking") /\ Goto(p, "ready")
       \/ At(p, "count") /\ Goto(p, "mark")
       \/ At(p, "mark") /\ p \notin Workers /\ Goto(p, "status")
       \/ At(p, "status") /\ p \in Workers /\ Goto(p, "mark")
    /\ UNCHANGED <<local, calls, remote, retries>>

\* the client disconnects, the process dies, or the last statement fails
Vanishes(p) ==
    /\ ~At(p, "idle")
    /\ Leave(p)
    /\ calls' = Abandoned(p)
    /\ UNCHANGED <<local, remote, retries>>

-----------------------------------------------------------------------------
(***************************************************************************)
(* The rest of the queue                                                   *)
(***************************************************************************)
queueRest == <<code, redemption, expired, active, proc, calls, remote>>

Requeue(c) ==
    /\ Stale(row[c])
    /\ row' = [row EXCEPT ![c] = Requeued(@)]
    /\ UNCHANGED <<queueRest, retries>>

Retry(c) ==
    /\ retries < MaxRetries
    /\ CanRetry(row[c])
    /\ row' = [row EXCEPT ![c] = Retried(@)]
    /\ retries' = retries + 1
    /\ UNCHANGED queueRest

ComesDue(c) ==
    /\ row[c].status \in {"pending", "failed"} /\ ~row[c].due
    /\ row' = [row EXCEPT ![c].due = TRUE]
    /\ UNCHANGED <<queueRest, retries>>

LockExpires(c) ==
    /\ row[c].lock = "fresh"
    /\ row' = [row EXCEPT ![c].lock = "stale"]
    /\ UNCHANGED <<queueRest, retries>>

-----------------------------------------------------------------------------
Starts(c) ==
    \/ \E r \in Requests, u \in Users : MarkRedeemedLocally(r, u, c)
    \/ \E w \in Workers : ClaimNext(w, c)
    \/ \E a \in Admins : AdminLoads(a, c)

Progress(p) ==
    \/ WorkerLoads(p) \/ AdminTakes(p) \/ SendCall(p) \/ CallAnswered(p)
    \/ MarkSynced(p) \/ MarkOperationSucceeded(p)
    \/ WorkerMarksRedemption(p) \/ MarkOperationFailed(p) \/ HandlerMarksRedemption(p)
    \/ RequestCounts(p) \/ RequestMarksKey(p)

Failure(p) ==
    \/ RequestKeyFails(p) \/ StatementFails(p) \/ Vanishes(p)
    \/ \E retryable \in BOOLEAN :
         \/ SyncFails(p, retryable) \/ KeyFails(p, retryable)
         \/ WorkerLoadFails(p, retryable) \/ MarkSyncedFails(p, retryable)

Queue(c) == Requeue(c) \/ Retry(c) \/ ComesDue(c) \/ LockExpires(c)

Next ==
    \/ \E c \in Codes : Starts(c) \/ DisableCode(c) \/ CodeExpires(c) \/ Queue(c)
    \/ \E u \in Users : SetUserStatus(u)
    \/ \E p \in Procs : Progress(p) \/ Failure(p)
    \/ \E m \in calls : RemoteApplies(m) \/ RemoteLoses(m)

Spec == Init /\ [][Next]_vars

\* The workers run: a due operation is claimed by some slot, a running
\* synchronisation takes its next step or reaches its 90 second deadline,
\* stale rows are requeued, and time passes.  Requests and administrators
\* owe nothing, and neither does Sub2API.
Fairness ==
    /\ \A w \in Workers : WF_vars(Progress(w) \/ SyncFails(w, TRUE))
    /\ \A c \in Codes : /\ WF_vars(\E w \in Workers : ClaimNext(w, c))
                         /\ WF_vars(Requeue(c))
                         /\ WF_vars(ComesDue(c))
                         /\ WF_vars(LockExpires(c))

FairSpec == Spec /\ Fairness

-----------------------------------------------------------------------------
(***************************************************************************)
(* Properties                                                              *)
(***************************************************************************)
CallRecord == [caller : Procs \cup {Nobody}, key : Codes, code : Codes, user : Users]

TypeOK ==
    /\ code \in [Codes -> {"unused", "used", "disabled"}]
    /\ redemption \in [Codes -> Redemption]
    /\ row \in [Codes -> Row]
    /\ expired \subseteq Codes
    /\ active \subseteq Users
    /\ proc \in [Procs -> Proc]
    /\ calls \subseteq CallRecord
    /\ applied \subseteq Codes
    /\ credit \in [Users -> [Codes -> Nat]]
    /\ retries \in 0..MaxRetries

Credited(c) == \E u \in Users : credit[u][c] > 0

\* The value of a code is added at most once, and only to the account of the
\* user whose redemption it is, although the request, workers and
\* administrators retry it concurrently and calls arrive after their callers
\* gave up.
CreditedOnceToOwner ==
    \A u \in Users, c \in Codes :
        /\ credit[u][c] <= 1
        /\ credit[u][c] = 1 => redemption[c].user = u

\* A redemption is shown as synced, and its operation as succeeded, only when
\* its value has been credited: no error path of the three processes marks
\* success by mistake.
ShownMeansCredited ==
    \A c \in Codes :
        redemption[c].status = "synced" \/ row[c].status = "succeeded" => Credited(c)

\* What redeeming promises is what the code implements.
P == INSTANCE RedemptionPromise WITH
        owner <- [c \in Codes |-> redemption[c].user],
        closed <- {c \in Codes : code[c] = "disabled"}

ImplementsPromise == P!Promise

\* A redeemed code is credited, or its operation ends where an administrator
\* sees it: dead-lettered, or failed with its attempts used up.
EveryRedemptionSettles ==
    \A c \in Codes :
        redemption[c].status # "none"
          ~> \/ Credited(c)
             \/ row[c].status = "dead_letter"
             \/ row[c].status = "failed" /\ row[c].attempts >= row[c].max
=============================================================================
