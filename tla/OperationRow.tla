----------------------------- MODULE OperationRow -----------------------------
(***************************************************************************)
(* One row of the table gateway_operations, and the effect on that row of  *)
(* each SQL statement the server and the worker run against it.            *)
(*                                                                         *)
(* Only the columns that some WHERE clause or CASE reads are kept.  Clock  *)
(* columns are kept as what a comparison with now() can tell:              *)
(*   due    next_run_at <= now()                                           *)
(*   lock   "none" locked_at IS NULL, "fresh" within the stale timeout,    *)
(*          "stale" locked_at < now() - staleAfter                         *)
(* The texts of the last error, the payload, the result and locked_by are  *)
(* only ever written, so they are left out.                                *)
(***************************************************************************)
EXTENDS Integers

CONSTANTS
    MaxAttempts,   \* the default of the column max_attempts (8)
    RetryGrant     \* attempts a manual retry grants on top of those used (3)

ASSUME RowAssumption == MaxAttempts \in Nat \ {0} /\ RetryGrant \in Nat \ {0}

Statuses == {"pending", "running", "succeeded", "failed", "dead_letter"}

\* "absent": no row with this idempotency key has been inserted yet
Row == [status    : Statuses \cup {"absent"},
        attempts  : Nat,
        max       : Nat,
        retryable : BOOLEAN,
        due       : BOOLEAN,
        lock      : {"none", "fresh", "stale"}]

AbsentRow == [status |-> "absent", attempts |-> 0, max |-> MaxAttempts,
              retryable |-> FALSE, due |-> FALSE, lock |-> "none"]

(***************************************************************************)
(* The inserts.  All of them end in ON CONFLICT (idempotency_key) DO       *)
(* UPDATE SET updated_at = updated_at: an existing row stays as it is.     *)
(***************************************************************************)
Inserted(row, new) == IF row.status = "absent" THEN new ELSE row

\* CreateRedemptionSync: first due thirty seconds from now
CreateRedemptionSync(row) ==
    Inserted(row, [AbsentRow EXCEPT !.status = "pending"])

\* EnsureGatewayProvision: due at once
EnsureGatewayProvision(row) ==
    Inserted(row, [AbsentRow EXCEPT !.status = "pending", !.due = TRUE])

\* CreateFailed: a remote call failed in the request that enqueues its retry
CreateFailed(row, retryable) ==
    Inserted(row, [AbsentRow EXCEPT
                     !.status = IF retryable THEN "failed" ELSE "dead_letter",
                     !.retryable = retryable, !.due = TRUE])

(***************************************************************************)
(* The updates of the runner.                                              *)
(***************************************************************************)
\* mutant: the attempt limit is off by one
ClaimableOnceMore(row) ==
    /\ row.status \in {"pending", "failed"}
    /\ row.due
    /\ row.attempts <= row.max
    /\ row.status = "pending" \/ row.retryable

\* mutant: the status filter forgets what a dead letter is
ClaimableDeadLetter(row) ==
    /\ row.status \in {"pending", "failed", "dead_letter"}
    /\ row.due
    /\ row.attempts < row.max

\* the WHERE clause of claimNext
Claimable(row) ==
    /\ row.status \in {"pending", "failed"}
    /\ row.due
    /\ row.attempts < row.max
    /\ row.status = "pending" \/ row.retryable

\* mutant: the attempt is not counted
ClaimedUncounted(row) == [row EXCEPT !.status = "running", !.lock = "fresh"]

\* mutant: locked_at is not written
ClaimedUnlocked(row) == [row EXCEPT !.status = "running", !.attempts = @ + 1]

\* the UPDATE of claimNext
Claimed(row) ==
    [row EXCEPT !.status = "running", !.attempts = @ + 1, !.lock = "fresh"]

\* the WHERE clause of requeueStaleRunning
Stale(row) == row.status = "running" /\ row.lock = "stale"

\* mutant: locked_at survives the requeue
RequeuedStillLocked(row) ==
    [row EXCEPT !.status = IF row.attempts >= row.max THEN "dead_letter" ELSE "failed",
                !.retryable = row.attempts < row.max,
                !.due = TRUE]

\* the UPDATE of requeueStaleRunning
Requeued(row) ==
    [row EXCEPT !.status = IF row.attempts >= row.max THEN "dead_letter" ELSE "failed",
                !.retryable = row.attempts < row.max,
                !.due = TRUE,
                !.lock = "none"]

\* MarkSucceeded: WHERE public_id = $1, whatever the status and the holder
MarkSucceeded(row) ==
    [row EXCEPT !.status = "succeeded", !.retryable = FALSE, !.lock = "none"]

\* MarkFailed: WHERE public_id = $1, whatever the status and the holder.
\* due is whether the next_run_at it is given is already reached.
MarkFailed(row, retryable, deadLetter, due) ==
    [row EXCEPT !.status = IF deadLetter THEN "dead_letter" ELSE "failed",
                !.retryable = retryable, !.due = due, !.lock = "none"]

(***************************************************************************)
(* The updates of the request handlers and of the administrator.           *)
(***************************************************************************)
\* incrementGatewayOperationAttempt, run by the redeem request
AttemptCounted(row) == [row EXCEPT !.attempts = @ + 1]

\* the UPDATE of RetryRedemptionSync: locked_by = 'admin-manual'
TakenByAdmin(row) ==
    [row EXCEPT !.status = "running", !.attempts = @ + 1, !.lock = "fresh"]

\* the UPDATE that GatewayOperationService.Retry and RetryFailed share
Retried(row) ==
    [row EXCEPT !.status = "pending",
                !.max = IF @ >= row.attempts + RetryGrant
                          THEN @ ELSE row.attempts + RetryGrant,
                !.due = TRUE,
                !.lock = "none"]

\* the conditions under which Retry and RetryFailed apply it
CanRetry(row) == row.status \notin {"absent", "succeeded", "running"}
CanRetryFailed(row) == row.status \in {"failed", "dead_letter"} /\ row.retryable
=============================================================================
