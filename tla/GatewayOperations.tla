--------------------------- MODULE GatewayOperations ---------------------------
(***************************************************************************)
(* The durable queue gateway_operations and everyone who writes to it:     *)
(*                                                                         *)
(*  - the runner of each worker process (operations.Runner): requeue the   *)
(*    stale rows, claim a batch, execute it under a semaphore, mark each   *)
(*    row with the outcome;                                                *)
(*  - the redeem request, which inserts the row, synchronises inline       *)
(*    without claiming it, and marks it;                                   *)
(*  - the administrator's manual synchronisation, which takes the row      *)
(*    over, and the administrator's Retry and RetryFailed.                 *)
(*                                                                         *)
(* What an execution does at the gateway is abstracted to its outcome:     *)
(* success, a retryable or a permanent error, or none (lost with its       *)
(* process).  A row's lock column expires at any time: the runner may be   *)
(* configured with any stale timeout, and no execution is stopped when     *)
(* another runner takes its row.                                           *)
(***************************************************************************)
EXTENDS OperationRow, FiniteSets

CONSTANTS
    Ops,             \* the operations, one per idempotency key
    RedemptionOps,   \* those that synchronise a redemption
    Workers,         \* worker processes
    BatchSize,       \* Runner.batchSize
    Concurrency,     \* Runner.concurrency
    MaxAdmin,        \* bound: administrator interventions in a behaviour
    MaxStops         \* bound: worker stops and failed claims in a behaviour

ASSUME QueueAssumption ==
    /\ RedemptionOps \subseteq Ops
    /\ BatchSize \in Nat \ {0} /\ Concurrency \in Nat \ {0}
    /\ MaxAdmin \in Nat /\ MaxStops \in Nat

VARIABLES
    ops,       \* the table: operation -> Row
    phase,     \* where each worker is in Runner.ProcessOnce
    claimed,   \* the OperationRecords the workers hold in memory
    inline,    \* where the redeem request of an operation is
    manual,    \* the operations an administrator synchronises by hand
    claims,    \* history: how often each operation was claimed
    admin,     \* interventions used up, <= MaxAdmin
    stops      \* stops used up, <= MaxStops

vars == <<ops, phase, claimed, inline, manual, claims, admin, stops>>
runnerVars == <<phase, claimed, claims, stops>>
adminVars == <<manual, admin>>

\* OperationRecord, the worker that holds it, and whether its goroutine runs
Claim == [worker : Workers, op : Ops, attempts : Nat, max : Nat,
          stage : {"queued", "executing"}]

ClaimsOf(w) == {c \in claimed : c.worker = w}
Executing(w) == {c \in ClaimsOf(w) : c.stage = "executing"}

Init ==
    /\ ops = [o \in Ops |-> AbsentRow]
    /\ phase = [w \in Workers |-> "idle"]
    /\ claimed = {}
    /\ inline = [o \in Ops |-> "none"]
    /\ manual = {}
    /\ claims = [o \in Ops |-> 0]
    /\ admin = 0
    /\ stops = 0

-----------------------------------------------------------------------------
(***************************************************************************)
(* Enqueueing                                                              *)
(***************************************************************************)
\* markRedeemedLocally commits; the same request goes on to synchronise inline
EnqueueRedemption(o) ==
    /\ o \in RedemptionOps
    /\ ops[o].status = "absent"
    /\ ops' = [ops EXCEPT ![o] = CreateRedemptionSync(@)]
    /\ inline' = [inline EXCEPT ![o] = "syncing"]
    /\ UNCHANGED <<runnerVars, adminVars>>

\* a request needs a gateway credential that it cannot get in time
EnqueueProvision(o) ==
    /\ o \notin RedemptionOps
    /\ ops[o].status = "absent"
    /\ ops' = [ops EXCEPT ![o] = EnsureGatewayProvision(@)]
    /\ UNCHANGED <<runnerVars, adminVars, inline>>

\* an administrator's remote call failed and is left to the worker
EnqueueFailed(o, retryable) ==
    /\ o \notin RedemptionOps
    /\ ops[o].status = "absent"
    /\ ops' = [ops EXCEPT ![o] = CreateFailed(@, retryable)]
    /\ UNCHANGED <<runnerVars, adminVars, inline>>

-----------------------------------------------------------------------------
(***************************************************************************)
(* The runner: Run repeats ProcessOnce                                     *)
(***************************************************************************)
RequeueStaleRunning(w) ==
    /\ phase[w] = "idle"
    /\ ops' = [o \in Ops |-> IF Stale(ops[o]) THEN Requeued(ops[o]) ELSE ops[o]]
    /\ phase' = [phase EXCEPT ![w] = "claiming"]
    /\ UNCHANGED <<claimed, claims, stops, adminVars, inline>>

Record(w, o) == [worker |-> w, op |-> o, attempts |-> ops[o].attempts + 1,
                 max |-> ops[o].max, stage |-> "queued"]

\* the earliest due row first; any due row may be the earliest
ClaimNext(w, o) ==
    /\ phase[w] = "claiming"
    /\ Cardinality(ClaimsOf(w)) < BatchSize
    /\ Claimable(ops[o])
    /\ ops' = [ops EXCEPT ![o] = Claimed(@)]
    /\ claimed' = claimed \cup {Record(w, o)}
    /\ claims' = [claims EXCEPT ![o] = @ + 1]
    /\ UNCHANGED <<phase, stops, adminVars, inline>>

\* the batch is full or nothing is due
EndClaiming(w) ==
    /\ phase[w] = "claiming"
    /\ \/ Cardinality(ClaimsOf(w)) >= BatchSize
       \/ \A o \in Ops : ~Claimable(ops[o])
    /\ phase' = [phase EXCEPT ![w] = IF ClaimsOf(w) = {} THEN "idle" ELSE "draining"]
    /\ UNCHANGED <<ops, claimed, claims, stops, adminVars, inline>>

\* claimNext returns an error, its UPDATE committed or not: ProcessOnce
\* returns at once and forgets what it has claimed so far
ClaimError(w) ==
    /\ phase[w] = "claiming"
    /\ stops < MaxStops
    /\ \/ UNCHANGED <<ops, claims>>
       \/ \E o \in Ops :
            /\ Cardinality(ClaimsOf(w)) < BatchSize
            /\ Claimable(ops[o])
            /\ ops' = [ops EXCEPT ![o] = Claimed(@)]
            /\ claims' = [claims EXCEPT ![o] = @ + 1]
    /\ claimed' = claimed \ ClaimsOf(w)
    /\ phase' = [phase EXCEPT ![w] = "idle"]
    /\ stops' = stops + 1
    /\ UNCHANGED <<adminVars, inline>>

\* a goroutine gets a slot of the semaphore
StartExecution(w, c) ==
    /\ phase[w] = "draining"
    /\ c \in ClaimsOf(w) /\ c.stage = "queued"
    /\ Cardinality(Executing(w)) < Concurrency
    /\ claimed' = (claimed \ {c}) \cup {[c EXCEPT !.stage = "executing"]}
    /\ UNCHANGED <<ops, phase, claims, stops, adminVars, inline>>

\* processClaimed, by the outcome of ExecuteGatewayOperation
ExecutionSucceeds(w, c) ==
    /\ c \in Executing(w)
    /\ ops' = [ops EXCEPT ![c.op] = MarkSucceeded(@)]
    /\ claimed' = claimed \ {c}
    /\ UNCHANGED <<phase, claims, stops, adminVars, inline>>

ExecutionFails(w, c, retryable) ==
    LET deadLetter == ~retryable \/ c.attempts >= c.max IN
    /\ c \in Executing(w)
    /\ ops' = [ops EXCEPT ![c.op] = MarkFailed(@, retryable, deadLetter, deadLetter)]
    /\ claimed' = claimed \ {c}
    /\ UNCHANGED <<phase, claims, stops, adminVars, inline>>

\* the statement that marks the outcome fails; it is logged and forgotten
MarkLost(w, c) ==
    /\ c \in Executing(w)
    /\ stops < MaxStops
    /\ claimed' = claimed \ {c}
    /\ stops' = stops + 1
    /\ UNCHANGED <<ops, phase, claims, adminVars, inline>>

\* wg.Wait returns
EndBatch(w) ==
    /\ phase[w] = "draining"
    /\ ClaimsOf(w) = {}
    /\ phase' = [phase EXCEPT ![w] = "idle"]
    /\ UNCHANGED <<ops, claimed, claims, stops, adminVars, inline>>

\* the process is killed, or its context is cancelled: queued records are
\* dropped, running ones fail and so do the statements that would mark them
Stop(w) ==
    /\ phase[w] # "idle"
    /\ stops < MaxStops
    /\ claimed' = claimed \ ClaimsOf(w)
    /\ phase' = [phase EXCEPT ![w] = "idle"]
    /\ stops' = stops + 1
    /\ UNCHANGED <<ops, claims, adminVars, inline>>

-----------------------------------------------------------------------------
(***************************************************************************)
(* The redeem request, after its transaction.  It marks the row without    *)
(* having claimed it; from the thirtieth second on a worker may hold it.   *)
(***************************************************************************)
InlineSucceeds(o) ==
    /\ inline[o] = "syncing"
    /\ ops' = [ops EXCEPT ![o] = MarkSucceeded(@)]
    /\ inline' = [inline EXCEPT ![o] = "none"]
    /\ UNCHANGED <<runnerVars, adminVars>>

\* the first of the two statements that record a failure; its own failure
\* is ignored
InlineCounts(o) ==
    /\ inline[o] = "syncing"
    /\ \/ ops' = [ops EXCEPT ![o] = AttemptCounted(@)]
       \/ UNCHANGED ops
    /\ inline' = [inline EXCEPT ![o] = "counted"]
    /\ UNCHANGED <<runnerVars, adminVars>>

InlineFails(o, retryable) ==
    /\ inline[o] = "counted"
    /\ ops' = [ops EXCEPT ![o] = MarkFailed(@, retryable, ~retryable, FALSE)]
    /\ inline' = [inline EXCEPT ![o] = "none"]
    /\ UNCHANGED <<runnerVars, adminVars>>

\* the client disconnects: the request's context ends and nothing is marked
InlineGone(o) ==
    /\ inline[o] # "none"
    /\ inline' = [inline EXCEPT ![o] = "none"]
    /\ UNCHANGED <<ops, runnerVars, adminVars>>

-----------------------------------------------------------------------------
(***************************************************************************)
(* The administrator                                                       *)
(***************************************************************************)
\* RetryRedemptionSync takes the row whoever holds it, and goes on when the
\* statement fails
ManualStart(o) ==
    /\ o \in RedemptionOps \ manual
    /\ ops[o].status # "absent"
    /\ admin < MaxAdmin
    /\ \/ ops' = [ops EXCEPT ![o] = TakenByAdmin(@)]
       \/ UNCHANGED ops
    /\ manual' = manual \cup {o}
    /\ admin' = admin + 1
    /\ UNCHANGED <<runnerVars, inline>>

ManualSucceeds(o) ==
    /\ o \in manual
    /\ ops' = [ops EXCEPT ![o] = MarkSucceeded(@)]
    /\ manual' = manual \ {o}
    /\ UNCHANGED <<runnerVars, inline, admin>>

ManualFails(o, retryable) ==
    /\ o \in manual
    /\ ops' = [ops EXCEPT ![o] = MarkFailed(@, retryable, ~retryable, FALSE)]
    /\ manual' = manual \ {o}
    /\ UNCHANGED <<runnerVars, inline, admin>>

\* the administrator's connection ends, or the status update fails: the row
\* stays running until a worker requeues it
ManualGone(o) ==
    /\ o \in manual
    /\ manual' = manual \ {o}
    /\ UNCHANGED <<ops, runnerVars, inline, admin>>

Retry(o) ==
    /\ admin < MaxAdmin
    /\ CanRetry(ops[o])
    /\ ops' = [ops EXCEPT ![o] = Retried(@)]
    /\ admin' = admin + 1
    /\ UNCHANGED <<runnerVars, inline, manual>>

RetryFailed ==
    /\ admin < MaxAdmin
    /\ \E o \in Ops : CanRetryFailed(ops[o])
    /\ ops' = [o \in Ops |-> IF CanRetryFailed(ops[o]) THEN Retried(ops[o]) ELSE ops[o]]
    /\ admin' = admin + 1
    /\ UNCHANGED <<runnerVars, inline, manual>>

-----------------------------------------------------------------------------
(***************************************************************************)
(* Time                                                                    *)
(***************************************************************************)
\* next_run_at is reached
ComesDue(o) ==
    /\ ops[o].status \in {"pending", "failed"} /\ ~ops[o].due
    /\ ops' = [ops EXCEPT ![o].due = TRUE]
    /\ UNCHANGED <<runnerVars, adminVars, inline>>

\* locked_at falls behind the stale timeout
LockExpires(o) ==
    /\ ops[o].lock = "fresh"
    /\ ops' = [ops EXCEPT ![o].lock = "stale"]
    /\ UNCHANGED <<runnerVars, adminVars, inline>>

-----------------------------------------------------------------------------
RunnerStep(w) ==
    \/ RequeueStaleRunning(w) \/ EndClaiming(w) \/ EndBatch(w)
    \/ \E o \in Ops : ClaimNext(w, o)
    \/ \E c \in claimed : StartExecution(w, c)

Outcome(w, c) ==
    \/ ExecutionSucceeds(w, c)
    \/ \E retryable \in BOOLEAN : ExecutionFails(w, c, retryable)

Failure(w) ==
    \/ ClaimError(w) \/ Stop(w)
    \/ \E c \in claimed : MarkLost(w, c)

RequestStep(o) ==
    \/ EnqueueRedemption(o) \/ EnqueueProvision(o)
    \/ InlineSucceeds(o) \/ InlineCounts(o) \/ InlineGone(o)
    \/ \E retryable \in BOOLEAN : EnqueueFailed(o, retryable) \/ InlineFails(o, retryable)

AdminStep(o) ==
    \/ ManualStart(o) \/ ManualSucceeds(o) \/ ManualGone(o) \/ Retry(o)
    \/ \E retryable \in BOOLEAN : ManualFails(o, retryable)

Next ==
    \/ \E w \in Workers :
         RunnerStep(w) \/ Failure(w) \/ \E c \in claimed : Outcome(w, c)
    \/ \E o \in Ops : RequestStep(o) \/ AdminStep(o) \/ ComesDue(o) \/ LockExpires(o)
    \/ RetryFailed

Spec == Init /\ [][Next]_vars

-----------------------------------------------------------------------------
(***************************************************************************)
(* Properties                                                              *)
(***************************************************************************)
TypeOK ==
    /\ ops \in [Ops -> Row]
    /\ phase \in [Workers -> {"idle", "claiming", "draining"}]
    /\ claimed \subseteq Claim
    /\ inline \in [Ops -> {"none", "syncing", "counted"}]
    /\ manual \subseteq RedemptionOps
    /\ claims \in [Ops -> Nat]
    /\ admin \in 0..MaxAdmin
    /\ stops \in 0..MaxStops

\* No row is out of everybody's reach, whichever of the five writers wrote it
\* last and whoever stopped half-way: a running row has a lock that can expire,
\* so requeueStaleRunning finds it, and no other row keeps one; a failed row is
\* one that the bulk retry of the diagnostics page takes.
NoRowIsLost ==
    \A o \in Ops :
        /\ ops[o].status = "running" <=> ops[o].lock # "none"
        /\ ops[o].status = "failed" => CanRetryFailed(ops[o])

\* The attempt number tells two claims of one operation apart, also when the
\* first runner is still executing after its lock expired and another runner,
\* a redeem request or an administrator has counted attempts in between.
ClaimsAreFenced ==
    \A c, d \in claimed : c.op = d.op /\ c.attempts = d.attempts => c = d

\* However claims, stale requeues, lost marks, stops and retries interleave,
\* the workers never execute an operation more than max_attempts times, and
\* every claim was paid for by an attempt.
ExecutionBudget ==
    \A o \in Ops : claims[o] <= ops[o].attempts /\ claims[o] <= ops[o].max

\* Nobody who could still write an outcome for o is under way
Quiet(o) ==
    /\ \A c \in claimed : c.op # o
    /\ inline[o] = "none"
    /\ o \notin manual

\* A settled operation is disturbed only by an administrator or by an actor
\* that was already working on it when it settled: the queue itself never
\* picks a succeeded or dead-lettered operation up again.
SettledStaysSettled ==
    [][\A o \in Ops :
         /\ ops[o].status \in {"succeeded", "dead_letter"}
         /\ Quiet(o)
         /\ ops'[o].status # ops[o].status
         => admin' = admin + 1]_vars
=============================================================================
