----------------------- MODULE GatewayOperationsProofs -----------------------
(***************************************************************************)
(* The queue's invariants, for every number of operations and workers and  *)
(* every batch size, concurrency and attempt limit.                        *)
(*                                                                         *)
(* ClaimsAreFenced and ExecutionBudget are not inductive: a record in a    *)
(* worker's memory must not run ahead of the row it was read from.         *)
(* ClaimsBehindRows says so, and IInv is the strengthened invariant.  The  *)
(* argument is that every statement moves its row forward (Advances):      *)
(* attempts and max_attempts never decrease, whoever writes.               *)
(*                                                                         *)
(* The second part is about an instance of GatewayCredential and uses      *)
(* nothing of the first.                                                   *)
(***************************************************************************)
EXTENDS GatewayOperations, TLAPS

\* the part of the invariant that is about a single row
RowInv(row) ==
    /\ row.status = "running" <=> row.lock # "none"
    /\ row.status = "failed" => row.retryable
    /\ row.status = "absent" => row.attempts = 0 /\ row.max = MaxAttempts

Advances(row, new) ==
    /\ new \in Row
    /\ RowInv(new)
    /\ row.attempts <= new.attempts
    /\ row.max <= new.max
    /\ row.status # "absent" => new.status # "absent"

\* a record in memory never runs ahead of its row
ClaimsBehindRows ==
    \A c \in claimed : c.attempts <= ops[c.op].attempts /\ c.max <= ops[c.op].max

\* the redeem request works on a row that it has inserted
InlineHasRow == \A o \in Ops : inline[o] # "none" => ops[o].status # "absent"

RowsInv == \A o \in Ops : RowInv(ops[o])

IInv ==
    /\ TypeOK
    /\ RowsInv
    /\ InlineHasRow
    /\ ClaimsBehindRows
    /\ ClaimsAreFenced
    /\ ExecutionBudget

-----------------------------------------------------------------------------
\* The SQL statements of module OperationRow that are run here make rows of rows.
LEMMA RowTyping ==
  ASSUME NEW row \in Row
  PROVE  /\ CreateRedemptionSync(row) \in Row
         /\ EnsureGatewayProvision(row) \in Row
         /\ \A b \in BOOLEAN : CreateFailed(row, b) \in Row
         /\ Claimed(row) \in Row
         /\ Requeued(row) \in Row
         /\ MarkSucceeded(row) \in Row
         /\ \A b, due, dead \in BOOLEAN : MarkFailed(row, b, dead, due) \in Row
         /\ AttemptCounted(row) \in Row
         /\ TakenByAdmin(row) \in Row
         /\ Retried(row) \in Row
  <1>1. row.attempts + 1 \in Nat /\ row.attempts + RetryGrant \in Nat
    BY RowAssumption DEF Row
  <1>2. (row.attempts < row.max) \in BOOLEAN
    OBVIOUS
  <1>3. AbsentRow \in Row
    BY RowAssumption DEF AbsentRow, Row
  <1> USE DEF Row, Statuses
  <1>4. CreateRedemptionSync(row) \in Row /\ EnsureGatewayProvision(row) \in Row
    BY <1>3 DEF CreateRedemptionSync, EnsureGatewayProvision, Inserted
  <1>5. ASSUME NEW b \in BOOLEAN  PROVE CreateFailed(row, b) \in Row
    BY <1>3 DEF CreateFailed, Inserted
  <1>6. Claimed(row) \in Row /\ AttemptCounted(row) \in Row /\ TakenByAdmin(row) \in Row
    BY <1>1 DEF Claimed, AttemptCounted, TakenByAdmin
  <1>7. Requeued(row) \in Row
    BY <1>2 DEF Requeued
  <1>8. MarkSucceeded(row) \in Row
    BY DEF MarkSucceeded
  <1>9. ASSUME NEW b \in BOOLEAN, NEW due \in BOOLEAN, NEW dead \in BOOLEAN
        PROVE  MarkFailed(row, b, dead, due) \in Row
    BY DEF MarkFailed
  <1>10. Retried(row) \in Row
    BY <1>1 DEF Retried
  <1>11. QED  BY <1>4, <1>5, <1>6, <1>7, <1>8, <1>9, <1>10

-----------------------------------------------------------------------------
\* An insert leaves a good row and moves no counter back.
LEMMA InsertsAdvance ==
  ASSUME NEW row \in Row, RowInv(row), row.status = "absent"
  PROVE  /\ Advances(row, CreateRedemptionSync(row))
         /\ Advances(row, EnsureGatewayProvision(row))
         /\ \A b \in BOOLEAN : Advances(row, CreateFailed(row, b))
  <1>0. row.attempts \in Nat /\ row.max \in Nat
    BY DEF Row
  <1>1. ASSUME NEW new \in Row, new.status \notin {"running", "absent"}, new.lock = "none",
               new.status = "failed" => new.retryable,
               new.attempts = 0, new.max = MaxAttempts
        PROVE  Advances(row, Inserted(row, new))
    BY <1>0, <1>1 DEF Advances, RowInv, Inserted
  <1>2. AbsentRow \in Row
    BY RowAssumption DEF AbsentRow, Row
  <1>3. Advances(row, CreateRedemptionSync(row))
    BY <1>1, <1>2 DEF CreateRedemptionSync, AbsentRow, Row, Statuses
  <1>4. Advances(row, EnsureGatewayProvision(row))
    BY <1>1, <1>2 DEF EnsureGatewayProvision, AbsentRow, Row, Statuses
  <1>5. ASSUME NEW b \in BOOLEAN  PROVE Advances(row, CreateFailed(row, b))
    BY <1>1, <1>2 DEF CreateFailed, AbsentRow, Row, Statuses
  <1>6. QED  BY <1>3, <1>4, <1>5

\* So does an update, whoever runs it; MarkFailed because no caller asks for
\* a "failed" row with an error that is not retryable.
LEMMA UpdatesAdvance ==
  ASSUME NEW row \in Row, RowInv(row)
  PROVE  /\ Advances(row, row)
         /\ Advances(row, Claimed(row))
         /\ Advances(row, Requeued(row))
         /\ Advances(row, MarkSucceeded(row))
         /\ \A b, due, dead \in BOOLEAN :
               (~b => dead) => Advances(row, MarkFailed(row, b, dead, due))
         /\ row.status # "absent" => Advances(row, AttemptCounted(row))
         /\ Advances(row, TakenByAdmin(row))
         /\ Advances(row, Retried(row))
  <1>0. row.attempts \in Nat /\ row.max \in Nat
    BY DEF Row
  <1>1. ASSUME NEW new \in Row,
               new.status = "running" <=> new.lock # "none",
               new.status = "failed" => new.retryable, new.status # "absent",
               row.attempts <= new.attempts, row.max <= new.max
        PROVE  Advances(row, new)
    BY <1>1 DEF Advances, RowInv
  <1>2. Advances(row, row)
    BY <1>0 DEF Advances
  <1>3. Advances(row, Claimed(row))
    <2>1. /\ Claimed(row).status = "running" /\ Claimed(row).lock = "fresh"
          /\ Claimed(row).attempts = row.attempts + 1 /\ Claimed(row).max = row.max
      BY DEF Claimed, Row
    <2>2. QED  BY <1>0, <1>1, <2>1, RowTyping
  <1>4. Advances(row, TakenByAdmin(row))
    BY <1>3 DEF Claimed, TakenByAdmin
  <1>5. Advances(row, Requeued(row))
    <2>1. /\ Requeued(row).status = IF row.attempts >= row.max THEN "dead_letter" ELSE "failed"
          /\ Requeued(row).retryable = (row.attempts < row.max)
          /\ Requeued(row).lock = "none"
          /\ Requeued(row).attempts = row.attempts /\ Requeued(row).max = row.max
      BY DEF Requeued, Row
    <2>2. CASE row.attempts < row.max
      <3>1. Requeued(row).retryable = TRUE
        BY <2>1, <2>2, Zenon
      <3>2. QED  BY <1>0, <1>1, <2>1, <2>2, <3>1, RowTyping
    <2>3. CASE ~(row.attempts < row.max)
      BY <1>0, <1>1, <2>1, <2>3, RowTyping
    <2>4. QED  BY <2>2, <2>3
  <1>6. Advances(row, MarkSucceeded(row))
    <2>1. /\ MarkSucceeded(row).status = "succeeded" /\ MarkSucceeded(row).lock = "none"
          /\ MarkSucceeded(row).attempts = row.attempts /\ MarkSucceeded(row).max = row.max
      BY DEF MarkSucceeded, Row
    <2>2. QED  BY <1>0, <1>1, <2>1, RowTyping
  <1>7. ASSUME NEW b \in BOOLEAN, NEW due \in BOOLEAN, NEW dead \in BOOLEAN, ~b => dead
        PROVE  Advances(row, MarkFailed(row, b, dead, due))
    <2> DEFINE new == MarkFailed(row, b, dead, due)
    <2>1. /\ new.status = IF dead THEN "dead_letter" ELSE "failed"
          /\ new.retryable = b /\ new.lock = "none"
          /\ new.attempts = row.attempts /\ new.max = row.max
      BY DEF MarkFailed, Row
    <2>2. new \in Row
      BY RowTyping
    <2>3. QED  BY <1>0, <1>1, <1>7, <2>1, <2>2
  <1>8. ASSUME row.status # "absent"  PROVE Advances(row, AttemptCounted(row))
    <2>1. /\ AttemptCounted(row).status = row.status /\ AttemptCounted(row).lock = row.lock
          /\ AttemptCounted(row).retryable = row.retryable
          /\ AttemptCounted(row).attempts = row.attempts + 1
          /\ AttemptCounted(row).max = row.max
      BY DEF AttemptCounted, Row
    <2>2. QED  BY <1>0, <1>1, <1>8, <2>1, RowTyping DEF RowInv
  <1>9. Advances(row, Retried(row))
    <2>1. /\ Retried(row).status = "pending" /\ Retried(row).lock = "none"
          /\ Retried(row).attempts = row.attempts
          /\ Retried(row).max = IF row.max >= row.attempts + RetryGrant
                                  THEN row.max ELSE row.attempts + RetryGrant
      BY DEF Retried, Row
    <2>2. QED  BY <1>0, <1>1, <2>1, RowTyping, RowAssumption
  <1>10. QED
    BY <1>2, <1>3, <1>4, <1>5, <1>6, <1>7, <1>8, <1>9

-----------------------------------------------------------------------------
\* A step that moves rows forward, forgets records and claims nothing keeps
\* the invariant; most steps of the queue are of this kind.
LEMMA ForwardStep ==
  ASSUME IInv, TypeOK', UNCHANGED claims, claimed' \subseteq claimed,
         \A o \in Ops : Advances(ops[o], ops'[o]),
         \A o \in Ops : inline'[o] # "none" => inline[o] # "none" \/ ops'[o].status # "absent"
  PROVE  IInv'
  <1>0. \A o \in Ops : /\ ops[o] \in Row /\ ops'[o] \in Row
                        /\ ops[o].attempts \in Nat /\ ops'[o].attempts \in Nat
                        /\ ops[o].max \in Nat /\ ops'[o].max \in Nat
    BY DEF IInv, TypeOK, Row
  <1>1. RowsInv'
    BY DEF RowsInv, Advances
  <1>2. ClaimsBehindRows'
    <2> SUFFICES ASSUME NEW c \in claimed
                 PROVE  c.attempts <= ops'[c.op].attempts /\ c.max <= ops'[c.op].max
      BY DEF ClaimsBehindRows
    <2>1. c.op \in Ops /\ c.attempts \in Nat /\ c.max \in Nat
      BY DEF IInv, TypeOK, Claim
    <2>2. c.attempts <= ops[c.op].attempts /\ c.max <= ops[c.op].max
      BY DEF IInv, ClaimsBehindRows
    <2>3. QED  BY <1>0, <2>1, <2>2 DEF Advances
  <1>3. ClaimsAreFenced'
    BY DEF IInv, ClaimsAreFenced
  <1>4. ExecutionBudget'
    <2>1. \A o \in Ops : claims[o] \in Nat
      BY DEF IInv, TypeOK
    <2>2. QED  BY <1>0, <2>1 DEF IInv, ExecutionBudget, Advances
  <1>5. InlineHasRow'
    BY DEF IInv, InlineHasRow, Advances
  <1>6. QED  BY <1>1, <1>2, <1>3, <1>4, <1>5 DEF IInv

\* Fixing one row forward is fixing every row forward.
LEMMA OneRowForward ==
  ASSUME IInv, NEW o \in Ops, NEW new, Advances(ops[o], new),
         ops' = [ops EXCEPT ![o] = new]
  PROVE  /\ ops' \in [Ops -> Row]
         /\ \A p \in Ops : Advances(ops[p], ops'[p])
  <1>1. \A p \in Ops : ops[p] \in Row /\ RowInv(ops[p])
    BY DEF IInv, TypeOK, RowsInv
  <1>2. \A p \in Ops : Advances(ops[p], ops[p])
    BY <1>1, UpdatesAdvance
  <1>3. new \in Row
    BY DEF Advances
  <1>4. QED  BY <1>2, <1>3 DEF IInv, TypeOK

\* Enqueueing keeps the invariant.
LEMMA EnqueueStep ==
  ASSUME IInv, NEW o \in Ops,
         \/ EnqueueRedemption(o) \/ EnqueueProvision(o)
         \/ \E b \in BOOLEAN : EnqueueFailed(o, b)
  PROVE  IInv'
  <1>1. ops[o] \in Row /\ RowInv(ops[o]) /\ ops[o].status = "absent"
    BY DEF IInv, TypeOK, RowsInv, EnqueueRedemption, EnqueueProvision, EnqueueFailed
  <1>2. CASE EnqueueRedemption(o)
    <2>1. Advances(ops[o], CreateRedemptionSync(ops[o]))
      BY <1>1, InsertsAdvance
    <2>2. ops' \in [Ops -> Row] /\ \A p \in Ops : Advances(ops[p], ops'[p])
      BY <1>2, <2>1, OneRowForward DEF EnqueueRedemption
    <2>3. ops'[o].status # "absent"
      BY <1>1, <1>2 DEF EnqueueRedemption, CreateRedemptionSync, Inserted, AbsentRow,
         IInv, TypeOK
    <2>4. TypeOK'
      BY <1>2, <2>2 DEF IInv, TypeOK, EnqueueRedemption, runnerVars, adminVars
    <2>5. QED
      BY <1>2, <2>2, <2>3, <2>4, ForwardStep
         DEF EnqueueRedemption, runnerVars, adminVars, IInv, TypeOK
  <1>3. CASE EnqueueProvision(o)
    <2>1. ops' \in [Ops -> Row] /\ \A p \in Ops : Advances(ops[p], ops'[p])
      BY <1>1, <1>3, InsertsAdvance, OneRowForward DEF EnqueueProvision
    <2>2. TypeOK'
      BY <1>3, <2>1 DEF IInv, TypeOK, EnqueueProvision, runnerVars, adminVars
    <2>3. QED
      BY <1>3, <2>1, <2>2, ForwardStep DEF EnqueueProvision, runnerVars, adminVars
  <1>4. ASSUME NEW b \in BOOLEAN, EnqueueFailed(o, b)  PROVE IInv'
    <2>1. ops' \in [Ops -> Row] /\ \A p \in Ops : Advances(ops[p], ops'[p])
      BY <1>1, <1>4, InsertsAdvance, OneRowForward DEF EnqueueFailed
    <2>2. TypeOK'
      BY <1>4, <2>1 DEF IInv, TypeOK, EnqueueFailed, runnerVars, adminVars
    <2>3. QED
      BY <1>4, <2>1, <2>2, ForwardStep DEF EnqueueFailed, runnerVars, adminVars
  <1>5. QED  BY <1>2, <1>3, <1>4

\* A claim keeps the invariant: the new record carries the row's new attempt
\* number, which is above every number handed out before.
LEMMA ClaimStep ==
  ASSUME IInv, NEW w \in Workers, NEW o \in Ops, ClaimNext(w, o)
  PROVE  IInv'
  <1> DEFINE rec == Record(w, o)
  <1>1. /\ ops[o] \in Row /\ RowInv(ops[o]) /\ Claimable(ops[o])
        /\ ops[o].attempts \in Nat /\ ops[o].max \in Nat
    BY DEF IInv, TypeOK, RowsInv, ClaimNext, Row
  <1>2. /\ ops' \in [Ops -> Row]
        /\ \A p \in Ops : Advances(ops[p], ops'[p])
    BY <1>1, UpdatesAdvance, OneRowForward DEF ClaimNext
  <1>3. /\ ops'[o].attempts = ops[o].attempts + 1 /\ ops'[o].max = ops[o].max
    BY <1>1 DEF ClaimNext, Claimed, IInv, TypeOK, Row
  <1>4. /\ rec \in Claim /\ rec.op = o
        /\ rec.attempts = ops[o].attempts + 1 /\ rec.max = ops[o].max
    <2>1. ops[o].attempts + 1 \in Nat
      BY <1>1
    <2>2. QED  BY <1>1, <2>1 DEF Record, Claim
  <1>5. TypeOK'
    <2>1. claims' \in [Ops -> Nat]
      BY DEF IInv, TypeOK, ClaimNext
    <2>2. QED
      BY <1>2, <1>4, <2>1 DEF IInv, TypeOK, ClaimNext, adminVars
  <1>6. \A c \in claimed : /\ c.op \in Ops /\ c.attempts \in Nat /\ c.max \in Nat
                           /\ c.attempts <= ops[c.op].attempts /\ c.max <= ops[c.op].max
    BY DEF IInv, TypeOK, Claim, ClaimsBehindRows
  <1>7. \A p \in Ops : /\ ops[p].attempts \in Nat /\ ops'[p].attempts \in Nat
                        /\ ops[p].max \in Nat /\ ops'[p].max \in Nat
    BY <1>2 DEF IInv, TypeOK, Row
  <1>8. claimed' = claimed \cup {rec}
    BY DEF ClaimNext
  <1>9. ClaimsBehindRows'
    <2>1. \A c \in claimed : c.attempts <= ops'[c.op].attempts /\ c.max <= ops'[c.op].max
      BY <1>2, <1>6, <1>7 DEF Advances
    <2>2. rec.attempts <= ops'[rec.op].attempts /\ rec.max <= ops'[rec.op].max
      BY <1>1, <1>3, <1>4
    <2>3. QED  BY <1>8, <2>1, <2>2 DEF ClaimsBehindRows
  <1>10. ClaimsAreFenced'
    <2>1. \A c \in claimed : c.op = rec.op => c.attempts # rec.attempts
      BY <1>1, <1>4, <1>6
    <2>2. QED  BY <1>8, <2>1 DEF IInv, ClaimsAreFenced
  <1>11. ExecutionBudget'
    <2>1. claims[o] \in Nat /\ claims[o] <= ops[o].attempts /\ ops[o].attempts < ops[o].max
      BY <1>1 DEF IInv, TypeOK, ExecutionBudget, Claimable
    <2>2. claims'[o] = claims[o] + 1 /\ \A p \in Ops \ {o} : claims'[p] = claims[p]
      BY DEF ClaimNext, IInv, TypeOK
    <2>3. \A p \in Ops : claims[p] \in Nat
      BY DEF IInv, TypeOK
    <2>4. claims'[o] <= ops'[o].attempts /\ claims'[o] <= ops'[o].max
      BY <1>1, <1>3, <2>1, <2>2
    <2>5. \A p \in Ops \ {o} : claims'[p] <= ops'[p].attempts /\ claims'[p] <= ops'[p].max
      BY <1>2, <1>7, <2>2, <2>3 DEF IInv, ExecutionBudget, Advances
    <2>6. QED  BY <2>4, <2>5 DEF ExecutionBudget
  <1>12. RowsInv' /\ InlineHasRow'
    BY <1>2 DEF IInv, RowsInv, InlineHasRow, Advances, ClaimNext
  <1>13. QED  BY <1>5, <1>9, <1>10, <1>11, <1>12 DEF IInv

\* The other steps of ProcessOnce.
LEMMA RunnerKeeps ==
  ASSUME IInv, NEW w \in Workers, RunnerStep(w)
  PROVE  IInv'
  <1>0. \A p \in Ops : ops[p] \in Row /\ RowInv(ops[p])
    BY DEF IInv, TypeOK, RowsInv
  <1>1. CASE RequeueStaleRunning(w)
    <2>1. \A p \in Ops : Advances(ops[p], ops'[p])
      BY <1>0, <1>1, UpdatesAdvance DEF RequeueStaleRunning
    <2>2. TypeOK'
      BY <1>0, <1>1, <2>1 DEF Advances, IInv, TypeOK, RequeueStaleRunning, adminVars
    <2>3. QED  BY <1>1, <2>1, <2>2, ForwardStep DEF RequeueStaleRunning, adminVars
  <1>2. CASE EndClaiming(w) \/ EndBatch(w)
    <2>1. \A p \in Ops : Advances(ops[p], ops'[p])
      BY <1>0, <1>2, UpdatesAdvance DEF EndClaiming, EndBatch
    <2>2. TypeOK'
      BY <1>2 DEF IInv, TypeOK, EndClaiming, EndBatch, adminVars
    <2>3. QED  BY <1>2, <2>1, <2>2, ForwardStep DEF EndClaiming, EndBatch, adminVars
  <1>3. ASSUME NEW o \in Ops, ClaimNext(w, o)  PROVE IInv'
    BY <1>3, ClaimStep
  <1>4. ASSUME NEW c \in claimed, StartExecution(w, c)  PROVE IInv'
    <2> DEFINE run == [c EXCEPT !.stage = "executing"]
    <2>1. /\ c \in Claim /\ run \in Claim /\ run.op = c.op
          /\ run.attempts = c.attempts /\ run.max = c.max
      BY DEF IInv, TypeOK, Claim
    <2>2. claimed' = (claimed \ {c}) \cup {run} /\ UNCHANGED <<ops, claims, inline>>
      BY <1>4 DEF StartExecution
    <2>3. TypeOK'
      BY <1>4, <2>1, <2>2 DEF IInv, TypeOK, StartExecution, adminVars
    <2>4. ClaimsBehindRows'
      BY <2>1, <2>2 DEF IInv, ClaimsBehindRows
    <2>5. ClaimsAreFenced'
      <3>1. \A d, e \in claimed : d.op = e.op /\ d.attempts = e.attempts => d = e
        BY DEF IInv, ClaimsAreFenced
      <3>2. \A d \in claimed \ {c} : ~(d.op = run.op /\ d.attempts = run.attempts)
        BY <2>1, <3>1
      <3>3. QED  BY <2>2, <3>1, <3>2 DEF ClaimsAreFenced
    <2>6. QED
      BY <2>2, <2>3, <2>4, <2>5 DEF IInv, RowsInv, InlineHasRow, ExecutionBudget
  <1>5. QED  BY <1>1, <1>2, <1>3, <1>4 DEF RunnerStep

\* The outcome of an execution, also when another runner has taken the row.
LEMMA OutcomeKeeps ==
  ASSUME IInv, NEW w \in Workers, NEW c \in claimed, Outcome(w, c)
  PROVE  IInv'
  <1>0. c.op \in Ops /\ ops[c.op] \in Row /\ RowInv(ops[c.op])
    BY DEF IInv, TypeOK, RowsInv, Claim
  <1>1. CASE ExecutionSucceeds(w, c)
    <2>1. ops' \in [Ops -> Row] /\ \A p \in Ops : Advances(ops[p], ops'[p])
      BY <1>0, <1>1, UpdatesAdvance, OneRowForward DEF ExecutionSucceeds
    <2>2. TypeOK'
      BY <1>1, <2>1 DEF IInv, TypeOK, ExecutionSucceeds, adminVars
    <2>3. QED  BY <1>1, <2>1, <2>2, ForwardStep DEF ExecutionSucceeds, adminVars
  <1>2. ASSUME NEW b \in BOOLEAN, ExecutionFails(w, c, b)  PROVE IInv'
    <2> DEFINE dead == ~b \/ c.attempts >= c.max
    <2>1. Advances(ops[c.op], MarkFailed(ops[c.op], b, dead, dead))
      <3> HIDE DEF dead
      <3>1. dead \in BOOLEAN /\ (~b => dead)
        BY DEF dead
      <3>2. QED  BY <1>0, <3>1, UpdatesAdvance
    <2>2. ops' \in [Ops -> Row] /\ \A p \in Ops : Advances(ops[p], ops'[p])
      BY <1>0, <1>2, <2>1, OneRowForward DEF ExecutionFails
    <2>3. TypeOK'
      BY <1>2, <2>2 DEF IInv, TypeOK, ExecutionFails, adminVars
    <2>4. QED  BY <1>2, <2>2, <2>3, ForwardStep DEF ExecutionFails, adminVars
  <1>3. QED  BY <1>1, <1>2 DEF Outcome

\* A stopped worker, a lost mark or a failed claim only forgets records; a
\* claim whose answer is lost spends an attempt that nobody executes.
LEMMA FailureKeeps ==
  ASSUME IInv, NEW w \in Workers, Failure(w)
  PROVE  IInv'
  <1>0. \A p \in Ops : ops[p] \in Row /\ RowInv(ops[p])
    BY DEF IInv, TypeOK, RowsInv
  <1>1. \A p \in Ops : Advances(ops[p], ops[p])
    BY <1>0, UpdatesAdvance
  <1>2. stops' \in 0..MaxStops
    BY QueueAssumption DEF IInv, TypeOK, Failure, ClaimError, Stop, MarkLost
  <1>3. CASE Stop(w)
    <2>1. TypeOK'
      BY <1>2, <1>3 DEF IInv, TypeOK, Stop, adminVars
    <2>2. QED  BY <1>1, <1>3, <2>1, ForwardStep DEF Stop, adminVars
  <1>4. ASSUME NEW c \in claimed, MarkLost(w, c)  PROVE IInv'
    <2>1. TypeOK'
      BY <1>2, <1>4 DEF IInv, TypeOK, MarkLost, adminVars
    <2>2. QED  BY <1>1, <1>4, <2>1, ForwardStep DEF MarkLost, adminVars
  <1>5. CASE ClaimError(w) /\ UNCHANGED <<ops, claims>>
    <2>1. TypeOK'
      BY <1>2, <1>5 DEF IInv, TypeOK, ClaimError, adminVars
    <2>2. QED  BY <1>1, <1>5, <2>1, ForwardStep DEF ClaimError, adminVars
  <1>6. ASSUME ClaimError(w), NEW o \in Ops, Claimable(ops[o]),
               ops' = [ops EXCEPT ![o] = Claimed(@)],
               claims' = [claims EXCEPT ![o] = @ + 1]
        PROVE  IInv'
    <2>1. ops' \in [Ops -> Row] /\ \A p \in Ops : Advances(ops[p], ops'[p])
      BY <1>0, <1>6, UpdatesAdvance, OneRowForward
    <2>2. \A p \in Ops : /\ ops[p].attempts \in Nat /\ ops'[p].attempts \in Nat
                          /\ ops[p].max \in Nat /\ ops'[p].max \in Nat
                          /\ claims[p] \in Nat
      BY <2>1 DEF IInv, TypeOK, Row
    <2>3. claims' \in [Ops -> Nat]
      BY <1>6, <2>2 DEF IInv, TypeOK
    <2>4. TypeOK'
      BY <1>2, <1>6, <2>1, <2>3 DEF IInv, TypeOK, ClaimError, adminVars
    <2>5. claimed' \subseteq claimed /\ inline' = inline
      BY <1>6 DEF ClaimError
    <2>6. ClaimsBehindRows'
      <3> SUFFICES ASSUME NEW c \in claimed
                   PROVE  c.attempts <= ops'[c.op].attempts /\ c.max <= ops'[c.op].max
        BY <2>5 DEF ClaimsBehindRows
      <3>1. c.op \in Ops /\ c.attempts \in Nat /\ c.max \in Nat
        BY DEF IInv, TypeOK, Claim
      <3>2. c.attempts <= ops[c.op].attempts /\ c.max <= ops[c.op].max
        BY DEF IInv, ClaimsBehindRows
      <3>3. QED  BY <2>1, <2>2, <3>1, <3>2 DEF Advances
    <2>7. ClaimsAreFenced'
      BY <2>5 DEF IInv, ClaimsAreFenced
    <2>8. ExecutionBudget'
      <3>1. ops'[o].attempts = ops[o].attempts + 1 /\ ops'[o].max = ops[o].max
        BY <1>0, <1>6 DEF Claimed, IInv, TypeOK, Row
      <3>2. claims[o] <= ops[o].attempts /\ ops[o].attempts < ops[o].max
        BY <1>6 DEF IInv, ExecutionBudget, Claimable
      <3>3. claims'[o] = claims[o] + 1 /\ \A p \in Ops \ {o} : claims'[p] = claims[p]
        BY <1>6 DEF IInv, TypeOK
      <3>4. claims'[o] <= ops'[o].attempts /\ claims'[o] <= ops'[o].max
        BY <2>2, <3>1, <3>2, <3>3
      <3>5. \A p \in Ops \ {o} : claims'[p] <= ops'[p].attempts /\ claims'[p] <= ops'[p].max
        BY <2>1, <2>2, <3>3 DEF IInv, ExecutionBudget, Advances
      <3>6. QED  BY <3>4, <3>5 DEF ExecutionBudget
    <2>9. RowsInv' /\ InlineHasRow'
      BY <2>1, <2>5 DEF IInv, RowsInv, InlineHasRow, Advances
    <2>10. QED  BY <2>4, <2>6, <2>7, <2>8, <2>9 DEF IInv
  <1>7. QED  BY <1>3, <1>4, <1>5, <1>6 DEF Failure, ClaimError

\* The redeem request marks a row that it does not hold.
LEMMA InlineKeeps ==
  ASSUME IInv, NEW o \in Ops,
         \/ InlineSucceeds(o) \/ InlineCounts(o) \/ InlineGone(o)
         \/ \E b \in BOOLEAN : InlineFails(o, b)
  PROVE  IInv'
  <1>0. ops[o] \in Row /\ RowInv(ops[o]) /\ ops[o].status # "absent"
    BY DEF IInv, TypeOK, RowsInv, InlineHasRow, InlineSucceeds, InlineCounts,
       InlineGone, InlineFails
  <1>1. \A p \in Ops : Advances(ops[p], ops[p])
    BY UpdatesAdvance DEF IInv, TypeOK, RowsInv
  <1>2. ops' \in [Ops -> Row] /\ \A p \in Ops : Advances(ops[p], ops'[p])
    <2>1. CASE InlineSucceeds(o)
      BY <1>0, <2>1, UpdatesAdvance, OneRowForward DEF InlineSucceeds
    <2>2. CASE InlineCounts(o)
      <3>1. CASE ops' = [ops EXCEPT ![o] = AttemptCounted(@)]
        BY <1>0, <3>1, UpdatesAdvance, OneRowForward
      <3>2. CASE UNCHANGED ops
        BY <1>1, <3>2 DEF IInv, TypeOK
      <3>3. QED  BY <2>2, <3>1, <3>2 DEF InlineCounts
    <2>3. CASE InlineGone(o)
      BY <1>1, <2>3 DEF InlineGone, IInv, TypeOK
    <2>4. ASSUME NEW b \in BOOLEAN, InlineFails(o, b)
          PROVE  ops' \in [Ops -> Row] /\ \A p \in Ops : Advances(ops[p], ops'[p])
      BY <1>0, <2>4, UpdatesAdvance, OneRowForward DEF InlineFails
    <2>5. QED  BY <2>1, <2>2, <2>3, <2>4
  <1>3. TypeOK'
    BY <1>2 DEF IInv, TypeOK, InlineSucceeds, InlineCounts, InlineGone, InlineFails,
       runnerVars, adminVars
  <1>4. \A p \in Ops : inline'[p] # "none" => inline[p] # "none"
    BY DEF IInv, TypeOK, InlineSucceeds, InlineCounts, InlineGone, InlineFails
  <1>5. QED
    BY <1>2, <1>3, <1>4, ForwardStep
       DEF InlineSucceeds, InlineCounts, InlineGone, InlineFails, runnerVars

\* The administrator takes rows over, marks them and puts them back.
LEMMA AdminKeeps ==
  ASSUME IInv, NEW o \in Ops, AdminStep(o)
  PROVE  IInv'
  <1>0. ops[o] \in Row /\ RowInv(ops[o])
    BY DEF IInv, TypeOK, RowsInv
  <1>1. \A p \in Ops : Advances(ops[p], ops[p])
    BY UpdatesAdvance DEF IInv, TypeOK, RowsInv
  <1>2. ops' \in [Ops -> Row] /\ \A p \in Ops : Advances(ops[p], ops'[p])
    <2>1. CASE ManualStart(o)
      <3>1. CASE ops' = [ops EXCEPT ![o] = TakenByAdmin(@)]
        BY <1>0, <3>1, UpdatesAdvance, OneRowForward
      <3>2. CASE UNCHANGED ops
        BY <1>1, <3>2 DEF IInv, TypeOK
      <3>3. QED  BY <2>1, <3>1, <3>2 DEF ManualStart
    <2>2. CASE ManualSucceeds(o)
      BY <1>0, <2>2, UpdatesAdvance, OneRowForward DEF ManualSucceeds
    <2>3. CASE ManualGone(o)
      BY <1>1, <2>3 DEF ManualGone, IInv, TypeOK
    <2>4. ASSUME NEW b \in BOOLEAN, ManualFails(o, b)
          PROVE  ops' \in [Ops -> Row] /\ \A p \in Ops : Advances(ops[p], ops'[p])
      BY <1>0, <2>4, UpdatesAdvance, OneRowForward DEF ManualFails
    <2>5. CASE Retry(o)
      BY <1>0, <2>5, UpdatesAdvance, OneRowForward DEF Retry
    <2>6. QED  BY <2>1, <2>2, <2>3, <2>4, <2>5 DEF AdminStep
  <1>3. admin' \in 0..MaxAdmin
    <2>1. admin' = admin \/ (admin' = admin + 1 /\ admin < MaxAdmin)
      BY DEF AdminStep, ManualStart, ManualSucceeds, ManualGone, ManualFails, Retry
    <2>2. QED  BY <2>1, QueueAssumption DEF IInv, TypeOK
  <1>4. TypeOK'
    BY <1>2, <1>3 DEF IInv, TypeOK, AdminStep, ManualStart, ManualSucceeds,
       ManualGone, ManualFails, Retry, runnerVars
  <1>5. QED
    BY <1>2, <1>4, ForwardStep DEF AdminStep, ManualStart, ManualSucceeds,
       ManualGone, ManualFails, Retry, runnerVars

\* The bulk retry and the passing of time.
LEMMA BulkAndTimeKeep ==
  ASSUME IInv, RetryFailed \/ \E o \in Ops : ComesDue(o) \/ LockExpires(o)
  PROVE  IInv'
  <1>0. \A p \in Ops : ops[p] \in Row /\ RowInv(ops[p])
    BY DEF IInv, TypeOK, RowsInv
  <1>1. CASE RetryFailed
    <2>1. \A p \in Ops : Advances(ops[p], ops'[p])
      BY <1>0, <1>1, UpdatesAdvance DEF RetryFailed
    <2>2. admin' \in 0..MaxAdmin
      BY <1>1, QueueAssumption DEF IInv, TypeOK, RetryFailed
    <2>3. TypeOK'
      BY <1>1, <2>1, <2>2 DEF Advances, IInv, TypeOK, RetryFailed, runnerVars
    <2>4. QED  BY <1>1, <2>1, <2>3, ForwardStep DEF RetryFailed, runnerVars
  <1>2. ASSUME NEW o \in Ops, ComesDue(o) \/ LockExpires(o)  PROVE IInv'
    <2>1. PICK new : /\ ops' = [ops EXCEPT ![o] = new]
                     /\ \/ new = [ops[o] EXCEPT !.due = TRUE]
                        \/ new = [ops[o] EXCEPT !.lock = "stale"] /\ ops[o].lock = "fresh"
      BY <1>2 DEF ComesDue, LockExpires
    <2>2. new \in Row
      BY <1>0, <2>1 DEF Row
    <2>3. /\ new.attempts = ops[o].attempts /\ new.max = ops[o].max
          /\ new.status = ops[o].status /\ new.retryable = ops[o].retryable
          /\ new.lock # "none" <=> ops[o].lock # "none"
          /\ ops[o].attempts \in Nat /\ ops[o].max \in Nat
      BY <1>0, <2>1 DEF Row
    <2>4. Advances(ops[o], new)
      BY <1>0, <2>2, <2>3 DEF Advances, RowInv
    <2>5. ops' \in [Ops -> Row] /\ \A p \in Ops : Advances(ops[p], ops'[p])
      BY <2>1, <2>4, OneRowForward
    <2>6. TypeOK'
      BY <1>2, <2>5 DEF IInv, TypeOK, ComesDue, LockExpires, runnerVars, adminVars
    <2>7. QED
      BY <1>2, <2>5, <2>6, ForwardStep DEF ComesDue, LockExpires, runnerVars, adminVars
  <1>3. QED  BY <1>1, <1>2

-----------------------------------------------------------------------------
\* The empty queue satisfies the invariant.
LEMMA InitIInv == Init => IInv
  <1> SUFFICES ASSUME Init  PROVE IInv
    OBVIOUS
  <1>1. AbsentRow \in Row /\ RowInv(AbsentRow)
    BY RowAssumption DEF AbsentRow, Row, RowInv
  <1>2. TypeOK
    BY <1>1, QueueAssumption DEF Init, TypeOK
  <1>3. RowsInv /\ InlineHasRow
    BY <1>1 DEF Init, RowsInv, InlineHasRow
  <1>4. ClaimsBehindRows /\ ClaimsAreFenced
    BY DEF Init, ClaimsBehindRows, ClaimsAreFenced
  <1>5. ExecutionBudget
    BY RowAssumption DEF Init, ExecutionBudget, AbsentRow
  <1>6. QED  BY <1>2, <1>3, <1>4, <1>5 DEF IInv

\* Every step of the queue keeps the invariant.
LEMMA NextIInv == IInv /\ [Next]_vars => IInv'
  <1> SUFFICES ASSUME IInv, [Next]_vars  PROVE IInv'
    OBVIOUS
  <1>1. ASSUME NEW w \in Workers, RunnerStep(w)  PROVE IInv'
    BY <1>1, RunnerKeeps
  <1>2. ASSUME NEW w \in Workers, Failure(w)  PROVE IInv'
    BY <1>2, FailureKeeps
  <1>3. ASSUME NEW w \in Workers, NEW c \in claimed, Outcome(w, c)  PROVE IInv'
    BY <1>3, OutcomeKeeps
  <1>4. ASSUME NEW o \in Ops, RequestStep(o)  PROVE IInv'
    BY <1>4, EnqueueStep, InlineKeeps DEF RequestStep
  <1>5. ASSUME NEW o \in Ops, AdminStep(o)  PROVE IInv'
    BY <1>5, AdminKeeps
  <1>6. ASSUME RetryFailed \/ \E o \in Ops : ComesDue(o) \/ LockExpires(o)  PROVE IInv'
    BY <1>6, BulkAndTimeKeep
  <1>7. CASE UNCHANGED vars
    BY <1>7 DEF vars, IInv, TypeOK, RowsInv, InlineHasRow, ClaimsBehindRows,
       ClaimsAreFenced, ExecutionBudget
  <1>8. QED  BY <1>1, <1>2, <1>3, <1>4, <1>5, <1>6, <1>7 DEF Next

\* The strengthened invariant holds throughout.
THEOREM Invariance == Spec => []IInv
  BY InitIInv, NextIInv, PTL DEF Spec

\* Every variable of the queue keeps its type.
THEOREM TypeCorrect == Spec => []TypeOK
  <1>1. IInv => TypeOK
    BY DEF IInv
  <1>2. QED  BY <1>1, Invariance, PTL

\* Every running row can be requeued once its lock expires, and every failed row can be
\* retried by RetryFailed, whatever the writers of gateway_operations did.
THEOREM RowsAreRecoverable == Spec => []NoRowIsLost
  <1>1. IInv => NoRowIsLost
    BY DEF IInv, RowsInv, RowInv, NoRowIsLost, CanRetryFailed
  <1>2. QED  BY <1>1, Invariance, PTL

\* Two claims of one operation never carry the same attempt number.
THEOREM Fencing == Spec => []ClaimsAreFenced
  <1>1. IInv => ClaimsAreFenced
    BY DEF IInv
  <1>2. QED  BY <1>1, Invariance, PTL

\* Workers never execute an operation more often than max_attempts.
THEOREM Budget == Spec => []ExecutionBudget
  <1>1. IInv => ExecutionBudget
    BY DEF IInv
  <1>2. QED  BY <1>1, Invariance, PTL

\* A settled operation is disturbed only by an administrator or by an actor
\* that was already at work on it.
THEOREM SettledOperationsRest == Spec => SettledStaysSettled
  <1> DEFINE Rest(o) == /\ ops[o].status \in {"succeeded", "dead_letter"}
                        /\ Quiet(o)
                        /\ ops'[o].status # ops[o].status
                        => admin' = admin + 1
  <1>1. ASSUME IInv, [Next]_vars, NEW o \in Ops  PROVE Rest(o)
    <2> SUFFICES ASSUME ops[o].status \in {"succeeded", "dead_letter"}, Quiet(o),
                        ops'[o].status # ops[o].status
                 PROVE  admin' = admin + 1
      OBVIOUS
    <2>0. /\ ops \in [Ops -> Row] /\ ~Claimable(ops[o]) /\ ~Stale(ops[o])
          /\ \A c \in claimed : c.op # o /\ c.op \in Ops
          /\ inline[o] = "none" /\ o \notin manual
      BY <1>1 DEF IInv, TypeOK, Claim, Claimable, Stale, Quiet
    <2>1. ASSUME NEW w \in Workers, RunnerStep(w) \/ Failure(w)  PROVE ops'[o] = ops[o]
      BY <2>0, <2>1 DEF RunnerStep, RequeueStaleRunning, EndClaiming, EndBatch, ClaimNext,
         StartExecution, Failure, ClaimError, Stop, MarkLost
    <2>2. ASSUME NEW w \in Workers, NEW c \in claimed, Outcome(w, c)  PROVE ops'[o] = ops[o]
      BY <2>0, <2>2 DEF Outcome, ExecutionSucceeds, ExecutionFails
    <2>3. ASSUME NEW p \in Ops, RequestStep(p)  PROVE ops'[o] = ops[o]
      BY <2>0, <2>3 DEF RequestStep, EnqueueRedemption, EnqueueProvision, EnqueueFailed,
         InlineSucceeds, InlineCounts, InlineGone, InlineFails
    <2>4. ASSUME NEW p \in Ops, AdminStep(p)
          PROVE  ops'[o] = ops[o] \/ admin' = admin + 1
      BY <2>0, <2>4 DEF AdminStep, ManualStart, ManualSucceeds, ManualGone, ManualFails, Retry
    <2>5. ASSUME NEW p \in Ops, ComesDue(p) \/ LockExpires(p)
          PROVE  ops'[o].status = ops[o].status
      BY <2>0, <2>5 DEF ComesDue, LockExpires, Row
    <2>6. RetryFailed => admin' = admin + 1
      BY DEF RetryFailed
    <2>7. UNCHANGED vars => ops'[o] = ops[o]
      BY DEF vars
    <2>8. QED
      BY <1>1, <2>1, <2>2, <2>3, <2>4, <2>5, <2>6, <2>7 DEF Next
  <1>2. IInv /\ [Next]_vars => [\A o \in Ops : Rest(o)]_vars
    BY <1>1
  <1>3. QED  BY <1>2, Invariance, PTL DEF Spec, SettledStaysSettled

----------------------------------------------------------------------------
(***************************************************************************)
(* The key of a user that a provision makes, and the locks around it:      *)
(* GatewayCredential taken as an instance, for every set of requests,      *)
(* workers and hosts.  Workers is the instance's here; no fact about the   *)
(* queue is used.                                                          *)
(*                                                                         *)
(* MutexHeld, LockHeld and ProvisionHeld say what being past a lock means: *)
(* the process still holds it, or knows that it has been late.  Memory     *)
(* ties what Sub2API has made to what it remembers.  Progress says what a  *)
(* process has already seen done, which is why a worker that is about to   *)
(* mark its operation has left a key behind.                               *)
(***************************************************************************)

CONSTANTS Keys, NoKey, Requests, Hosts, HostOf, None, Gone, MaxFailures, MaxOverruns

VARIABLES account, stored, made, remembered, row, provision, lock, mutex, proc, promised,
          failures, overruns

C == INSTANCE GatewayCredential

UnderLock(x) == x.pc \in {"account", "read", "create", "insert"}
UnderMutex(x) == x.pc = "lock" \/ UnderLock(x)
UnderProvision(x) == x.kind = "provider" /\ x.pc \notin {"idle", "check", "claim", "queue"}

MutexHeld == \A p \in C!Procs : UnderMutex(proc[p]) => mutex[HostOf[p]] = p
LockHeld == \A p \in C!Procs : UnderLock(proc[p]) /\ ~proc[p].late => lock = p
ProvisionHeld ==
    \A p \in C!Procs : UnderProvision(proc[p]) /\ ~proc[p].lateProvision => provision = p

Memory == made = IF remembered = NoKey THEN {} ELSE {remembered}

\* what a process has seen done: the account, and in the end the key
Seen(x, hasAccount, hasKey) ==
    /\ x.pc \in {"read", "create", "insert"} => x.call = "read"
    /\ x.call = "read" => hasAccount
    /\ x.pc = "insert" => x.key \in Keys
    /\ x.pc = "mark" => hasKey

Progress == \A p \in C!Procs : Seen(proc[p], account, C!Existing)

CredentialInv == /\ C!TypeOK /\ MutexHeld /\ LockHeld /\ ProvisionHeld /\ Memory /\ Progress
                 /\ C!SucceededMeansStored

-----------------------------------------------------------------------------
\* The SQL statements of module OperationRow that are run here make rows of rows.
LEMMA ProvisionRowTyping ==
  ASSUME NEW x \in C!Row
  PROVE  /\ C!EnsureGatewayProvision(x) \in C!Row
         /\ C!Claimed(x) \in C!Row
         /\ C!Requeued(x) \in C!Row
         /\ C!MarkSucceeded(x) \in C!Row
         /\ \A b, due, dead \in BOOLEAN : C!MarkFailed(x, b, dead, due) \in C!Row
  <1>1. x.attempts + 1 \in Nat
    BY DEF C!Row
  <1>2. (x.attempts < x.max) \in BOOLEAN
    OBVIOUS
  <1>3. C!AbsentRow \in C!Row
    BY RowAssumption DEF C!AbsentRow, C!Row
  <1> USE DEF C!Row, C!Statuses
  <1>4. C!EnsureGatewayProvision(x) \in C!Row
    BY <1>3 DEF C!EnsureGatewayProvision, C!Inserted
  <1>5. C!Claimed(x) \in C!Row
    BY <1>1 DEF C!Claimed
  <1>6. C!Requeued(x) \in C!Row
    BY <1>2 DEF C!Requeued
  <1>7. C!MarkSucceeded(x) \in C!Row
    BY DEF C!MarkSucceeded
  <1>8. ASSUME NEW b \in BOOLEAN, NEW due \in BOOLEAN, NEW dead \in BOOLEAN
        PROVE  C!MarkFailed(x, b, dead, due) \in C!Row
    BY DEF C!MarkFailed
  <1>9. QED  BY <1>4, <1>5, <1>6, <1>7, <1>8

\* The status that each of them leaves behind.
LEMMA ProvisionRowStatuses ==
  ASSUME NEW x \in C!Row
  PROVE  /\ C!Claimed(x).status = "running"
         /\ C!Requeued(x).status \in {"failed", "dead_letter"}
         /\ C!MarkSucceeded(x).status = "succeeded"
         /\ \A b, due, dead \in BOOLEAN :
               C!MarkFailed(x, b, dead, due).status \in {"failed", "dead_letter"}
  BY DEF C!Row, C!Claimed, C!Requeued, C!MarkSucceeded, C!MarkFailed

-----------------------------------------------------------------------------
(***************************************************************************)
(* What a step of one process may do.                                      *)
(***************************************************************************)
\* the rules of the locks, for a process that becomes x
MutexRule(p, x) ==
    \/ mutex' = mutex /\ (UnderMutex(x) => UnderMutex(proc[p]))
    \/ mutex[HostOf[p]] = None /\ mutex' = [mutex EXCEPT ![HostOf[p]] = p]
    \/ /\ UnderMutex(proc[p]) /\ ~UnderMutex(x)
       /\ mutex' = [mutex EXCEPT ![HostOf[p]] = None]

LockRule(p, x) ==
    /\ lock' \in C!Procs \cup {None, Gone}
    /\ lock' = lock \/ lock \notin C!Procs \/ lock = p
    /\ UnderLock(x) /\ ~x.late => lock' = p

ProvisionRule(p, x) ==
    /\ provision' \in C!Procs \cup {None, Gone}
    /\ provision' = provision \/ provision \notin C!Procs \/ provision = p
    /\ UnderProvision(x) /\ ~x.lateProvision => provision' = p

\* account and key are never taken back
Data ==
    /\ account' \in BOOLEAN /\ (account => account')
    /\ stored' \in Keys \cup {NoKey} /\ (stored # NoKey => stored' # NoKey)

Bounds == promised' \in BOOLEAN /\ failures' \in 0..MaxFailures /\ overruns' \in 0..MaxOverruns

RowRule == row' \in C!Row /\ (row'.status = "succeeded" => row.status = "succeeded" \/ C!Existing')

RemoteRule == UNCHANGED C!remote \/ \E k \in Keys : C!Answered(k)

ProcessStep(p, x) ==
    /\ p \in C!Procs /\ x \in C!Process
    /\ proc' = [proc EXCEPT ![p] = x]
    /\ MutexRule(p, x) /\ LockRule(p, x) /\ ProvisionRule(p, x)
    /\ Seen(x, account', C!Existing')
    /\ Data /\ RowRule /\ RemoteRule /\ Bounds

\* Such a step keeps the invariant.
LEMMA ProcessStepKeeps ==
  ASSUME C!CredentialAssumption, CredentialInv, NEW p, NEW x, ProcessStep(p, x)
  PROVE  CredentialInv'
  <1>1. p \in C!Procs /\ x \in C!Process /\ proc' = [proc EXCEPT ![p] = x]
    BY DEF ProcessStep
  <1>2. /\ proc' \in [C!Procs -> C!Process]
        /\ proc'[p] = x
        /\ \A q \in C!Procs : q # p => proc'[q] = proc[q]
    BY <1>1 DEF CredentialInv, C!TypeOK
  <1>3. p # None /\ HostOf[p] \in Hosts /\ HostOf \in [C!Procs -> Hosts]
    BY <1>1 DEF C!CredentialAssumption
  <1>4. mutex' \in [Hosts -> C!Procs \cup {None}]
    BY <1>1, <1>3 DEF ProcessStep, MutexRule, CredentialInv, C!TypeOK
  <1>5. made' \subseteq Keys /\ remembered' \in Keys \cup {NoKey} /\ Memory'
    BY DEF ProcessStep, RemoteRule, C!Answered, C!remote, Memory, CredentialInv, C!TypeOK,
           C!CredentialAssumption
  <1>6. C!TypeOK'
    BY <1>2, <1>4, <1>5
       DEF ProcessStep, LockRule, ProvisionRule, Data, RowRule, Bounds, C!TypeOK
  <1>7. MutexHeld'
    <2> SUFFICES ASSUME NEW q \in C!Procs, UnderMutex(proc'[q])
                 PROVE  mutex'[HostOf[q]] = q
      BY DEF MutexHeld, UnderMutex, UnderLock
    <2>1. mutex \in [Hosts -> C!Procs \cup {None}] /\ HostOf[q] \in Hosts /\ q # None
      BY DEF CredentialInv, C!TypeOK, C!CredentialAssumption
    <2>2. CASE mutex' = mutex /\ (UnderMutex(x) => UnderMutex(proc[p]))
      BY <1>2, <2>2 DEF CredentialInv, MutexHeld
    <2>3. CASE mutex[HostOf[p]] = None /\ mutex' = [mutex EXCEPT ![HostOf[p]] = p]
      BY <1>2, <1>3, <2>1, <2>3 DEF CredentialInv, MutexHeld
    <2>4. CASE /\ UnderMutex(proc[p]) /\ ~UnderMutex(x)
               /\ mutex' = [mutex EXCEPT ![HostOf[p]] = None]
      BY <1>1, <1>2, <1>3, <2>1, <2>4 DEF CredentialInv, MutexHeld
    <2> QED
      BY <2>2, <2>3, <2>4 DEF ProcessStep, MutexRule
  <1>8. LockHeld'
    BY <1>2 DEF ProcessStep, LockRule, CredentialInv, LockHeld, UnderLock
  <1>9. ProvisionHeld'
    BY <1>2 DEF ProcessStep, ProvisionRule, CredentialInv, ProvisionHeld, UnderProvision
  <1>10. account => account'
    BY DEF ProcessStep, Data
  <1>11. C!Existing => C!Existing'
    BY DEF ProcessStep, Data, C!Existing
  <1>12. Progress'
    BY <1>2, <1>10, <1>11 DEF ProcessStep, CredentialInv, Progress, Seen
  <1>13. C!SucceededMeansStored'
    BY <1>11 DEF ProcessStep, RowRule, CredentialInv, C!SucceededMeansStored
  <1> QED
    BY <1>5, <1>6, <1>7, <1>8, <1>9, <1>12, <1>13 DEF CredentialInv

-----------------------------------------------------------------------------
(***************************************************************************)
(* The pieces the actions are made of.                                     *)
(***************************************************************************)
\* An idle process is under no lock and has seen nothing.
LEMMA IdleProcess ==
  /\ C!NoProcess \in C!Process
  /\ C!NoProcess.pc = "idle" /\ C!NoProcess.call = "account"
  /\ ~UnderMutex(C!NoProcess) /\ ~UnderLock(C!NoProcess) /\ ~UnderProvision(C!NoProcess)
  BY DEF C!NoProcess, C!Process, UnderMutex, UnderLock, UnderProvision

\* Goto changes the pc of one process and nothing else of it.
LEMMA GotoMoves ==
  ASSUME C!CredentialAssumption, CredentialInv, NEW p \in C!Procs, NEW pc, C!Goto(p, pc),
         pc \in {"claim", "local", "mutex", "lock", "create", "queue", "mark"}
  PROVE  \E x \in C!Process :
            /\ proc' = [proc EXCEPT ![p] = x]
            /\ x.pc = pc /\ x.kind = proc[p].kind /\ x.call = proc[p].call
            /\ x.key = proc[p].key /\ x.late = proc[p].late
            /\ x.lateProvision = proc[p].lateProvision
  <1> DEFINE x == [proc[p] EXCEPT !.pc = pc]
  <1>1. proc[p] \in C!Process
    BY DEF CredentialInv, C!TypeOK
  <1>2. x \in C!Process
    BY <1>1 DEF C!Process
  <1>3. /\ x.pc = pc /\ x.kind = proc[p].kind /\ x.call = proc[p].call
        /\ x.key = proc[p].key /\ x.late = proc[p].late
        /\ x.lateProvision = proc[p].lateProvision
    BY <1>1 DEF C!Process
  <1>4. proc' = [proc EXCEPT ![p] = x]
    BY DEF C!Goto, CredentialInv, C!TypeOK
  <1> HIDE DEF x
  <1> QED
    BY <1>2, <1>3, <1>4

\* A process that leaves touches nobody else's provision lock.
LEMMA LeaveMoves ==
  ASSUME C!CredentialAssumption, CredentialInv, NEW p \in C!Procs, C!Leave(p)
  PROVE  proc' = [proc EXCEPT ![p] = C!NoProcess] /\ ProvisionRule(p, C!NoProcess)
  BY IdleProcess DEF C!Leave, C!ReleaseProvision, C!Released, C!Drop, ProvisionRule,
         CredentialInv, C!TypeOK

\* A process that unlocks touches nobody else's lock.
LEMMA UnlockRules ==
  ASSUME C!CredentialAssumption, CredentialInv, NEW p \in C!Procs, NEW x, C!Unlock(p),
         UnderLock(proc[p]), ~UnderMutex(x)
  PROVE  MutexRule(p, x) /\ LockRule(p, x)
  BY DEF C!Unlock, C!Released, C!Drop, MutexRule, LockRule, UnderMutex, CredentialInv, C!TypeOK

\* A failed call takes the process to the queue or to its end, and leaves no
\* operation succeeded.
LEMMA FailedMoves ==
  ASSUME C!CredentialAssumption, CredentialInv, NEW p \in C!Procs, NEW retryable \in BOOLEAN,
         C!Failed(p, retryable)
  PROVE  /\ RowRule
         /\ \E x \in C!Process :
              /\ proc' = [proc EXCEPT ![p] = x]
              /\ x.pc \in {"queue", "idle"} /\ x.call \in {"account", proc[p].call}
              /\ ProvisionRule(p, x)
  <1> DEFINE dead == ~retryable \/ proc[p].attempts >= proc[p].max
  <1>1. row \in C!Row
    BY DEF CredentialInv, C!TypeOK
  <1>2. CASE proc[p].kind \in {"provider", "register"} /\ C!Goto(p, "queue") /\ UNCHANGED <<row, provision>>
    <2>1. PICK x \in C!Process : proc' = [proc EXCEPT ![p] = x] /\ x.pc = "queue" /\ x.call = proc[p].call
      BY <1>2, GotoMoves
    <2>2. ProvisionRule(p, x)
      BY <1>2, <2>1 DEF ProvisionRule, UnderProvision, CredentialInv, C!TypeOK
    <2> QED
      BY <1>1, <1>2, <2>1, <2>2 DEF RowRule
  <1>3. CASE C!Leave(p) /\ UNCHANGED row
    BY <1>1, <1>3, LeaveMoves, IdleProcess DEF RowRule
  <1>4. CASE row' = C!MarkFailed(row, retryable, dead, dead) /\ C!Leave(p)
    <2>1. row' \in C!Row /\ row'.status \in {"failed", "dead_letter"}
      <3>1. dead \in BOOLEAN
        OBVIOUS
      <3> QED
        BY <1>1, <1>4, <3>1, ProvisionRowTyping, ProvisionRowStatuses
    <2> QED
      BY <1>4, <2>1, LeaveMoves, IdleProcess DEF RowRule
  <1> QED
    BY <1>2, <1>3, <1>4 DEF C!Failed

\* Whatever a step leaves alone obeys its rule.
LEMMA Untouched ==
  ASSUME C!CredentialAssumption, CredentialInv
  PROVE  /\ UNCHANGED <<account, stored>> => Data
         /\ UNCHANGED row => RowRule
         /\ UNCHANGED C!remote => RemoteRule
         /\ UNCHANGED <<promised, C!bounds>> => Bounds
         /\ C!Fails => failures' \in 0..MaxFailures /\ overruns' \in 0..MaxOverruns
         /\ C!Overruns => failures' \in 0..MaxFailures /\ overruns' \in 0..MaxOverruns
  <1>1. UNCHANGED <<account, stored>> => Data
    BY DEF Data, CredentialInv, C!TypeOK
  <1>2. UNCHANGED row => RowRule
    BY DEF RowRule, CredentialInv, C!TypeOK
  <1>3. UNCHANGED C!remote => RemoteRule
    BY DEF RemoteRule
  <1>4. UNCHANGED <<promised, C!bounds>> => Bounds
    BY DEF Bounds, C!bounds, CredentialInv, C!TypeOK
  <1>5. C!Fails => failures' \in 0..MaxFailures /\ overruns' \in 0..MaxOverruns
    BY DEF C!Fails, CredentialInv, C!TypeOK, C!CredentialAssumption
  <1>6. C!Overruns => failures' \in 0..MaxFailures /\ overruns' \in 0..MaxOverruns
    BY DEF C!Overruns, CredentialInv, C!TypeOK, C!CredentialAssumption
  <1> QED
    BY <1>1, <1>2, <1>3, <1>4, <1>5, <1>6

-----------------------------------------------------------------------------
(***************************************************************************)
(* The actions                                                             *)
(***************************************************************************)
\* The user's lock is taken when it is free, and lost by its holder only.
LEMMA LockActions ==
  ASSUME C!CredentialAssumption, CredentialInv, NEW p \in C!Procs,
         C!TakeMutex(p) \/ C!TakeLock(p) \/ C!LockExpires(p) \/ C!ProvisionExpires(p)
  PROVE  CredentialInv'
  <1> USE Untouched
  <1>0. proc[p] \in C!Process /\ Seen(proc[p], account, C!Existing) /\ lock \in C!Procs \cup {None, Gone}
        /\ provision \in C!Procs \cup {None, Gone} /\ None \notin C!Procs /\ Gone \notin C!Procs
        /\ proc \in [C!Procs -> C!Process]
    BY DEF CredentialInv, C!TypeOK, Progress, C!CredentialAssumption
  <1>1. CASE C!TakeMutex(p)
    <2>1. PICK x \in C!Process : /\ proc' = [proc EXCEPT ![p] = x]
                                 /\ x.pc = "lock" /\ x.kind = proc[p].kind /\ x.call = proc[p].call
                                 /\ x.lateProvision = proc[p].lateProvision
      BY <1>1, GotoMoves DEF C!TakeMutex
    <2>2. MutexRule(p, x) /\ LockRule(p, x)
      BY <1>0, <1>1, <2>1 DEF C!TakeMutex, MutexRule, LockRule, UnderLock
    <2>3. ProvisionRule(p, x)
      BY <1>0, <1>1, <2>1 DEF C!TakeMutex, C!At, ProvisionRule, UnderProvision, CredentialInv,
             ProvisionHeld
    <2>4. Seen(x, account', C!Existing')
      BY <1>0, <1>1, <2>1 DEF C!TakeMutex, Seen
    <2> QED
      BY <1>1, <2>1, <2>2, <2>3, <2>4, ProcessStepKeeps DEF C!TakeMutex, ProcessStep
  <1>2. CASE C!TakeLock(p)
    <2> DEFINE x == [proc[p] EXCEPT !.pc = proc[p].call, !.late = FALSE]
    <2>1. /\ x \in C!Process /\ proc' = [proc EXCEPT ![p] = x]
          /\ x.pc = proc[p].call /\ x.kind = proc[p].kind /\ x.call = proc[p].call
          /\ x.lateProvision = proc[p].lateProvision /\ proc[p].call \in {"account", "read"}
      BY <1>0, <1>2 DEF C!TakeLock, C!Process
    <2> HIDE DEF x
    <2>2. MutexRule(p, x) /\ LockRule(p, x)
      BY <1>0, <1>2, <2>1 DEF C!TakeLock, C!At, MutexRule, LockRule, UnderMutex
    <2>3. ProvisionRule(p, x)
      BY <1>0, <1>2, <2>1 DEF C!TakeLock, C!At, ProvisionRule, UnderProvision, CredentialInv,
             ProvisionHeld
    <2>4. Seen(x, account', C!Existing')
      BY <1>0, <1>2, <2>1 DEF C!TakeLock, Seen
    <2> QED
      BY <1>2, <2>1, <2>2, <2>3, <2>4, ProcessStepKeeps DEF C!TakeLock, ProcessStep
  <1>3. CASE C!LockExpires(p)
    <2> DEFINE x == [proc[p] EXCEPT !.late = TRUE]
    <2>1. /\ x \in C!Process /\ proc' = [proc EXCEPT ![p] = x]
          /\ x.pc = proc[p].pc /\ x.kind = proc[p].kind /\ x.call = proc[p].call
          /\ x.key = proc[p].key /\ x.lateProvision = proc[p].lateProvision /\ x.late
      BY <1>0, <1>3 DEF C!LockExpires, C!Process
    <2> HIDE DEF x
    <2>2. MutexRule(p, x) /\ LockRule(p, x)
      BY <1>0, <1>3, <2>1 DEF C!LockExpires, MutexRule, LockRule, UnderMutex, UnderLock
    <2>3. ProvisionRule(p, x)
      BY <1>0, <1>3, <2>1 DEF C!LockExpires, ProvisionRule, UnderProvision, CredentialInv,
             ProvisionHeld
    <2>4. Seen(x, account', C!Existing') /\ Bounds
      BY <1>0, <1>3, <2>1 DEF C!LockExpires, Seen, C!Existing, Bounds, CredentialInv, C!TypeOK
    <2> QED
      BY <1>3, <2>1, <2>2, <2>3, <2>4, ProcessStepKeeps DEF C!LockExpires, ProcessStep
  <1>4. CASE C!ProvisionExpires(p)
    <2> DEFINE x == [proc[p] EXCEPT !.lateProvision = TRUE]
    <2>1. /\ x \in C!Process /\ proc' = [proc EXCEPT ![p] = x]
          /\ x.pc = proc[p].pc /\ x.kind = proc[p].kind /\ x.call = proc[p].call
          /\ x.key = proc[p].key /\ x.late = proc[p].late /\ x.lateProvision
      BY <1>0, <1>4 DEF C!ProvisionExpires, C!Process
    <2> HIDE DEF x
    <2>2. MutexRule(p, x) /\ LockRule(p, x)
      BY <1>0, <1>4, <2>1
         DEF C!ProvisionExpires, MutexRule, LockRule, UnderMutex, UnderLock, CredentialInv, LockHeld
    <2>3. ProvisionRule(p, x)
      BY <1>0, <1>4, <2>1 DEF C!ProvisionExpires, ProvisionRule
    <2>4. Seen(x, account', C!Existing') /\ Bounds
      BY <1>0, <1>4, <2>1 DEF C!ProvisionExpires, Seen, C!Existing, Bounds, CredentialInv,
             C!TypeOK
    <2> QED
      BY <1>4, <2>1, <2>2, <2>3, <2>4, ProcessStepKeeps DEF C!ProvisionExpires, ProcessStep
  <1> QED
    BY <1>1, <1>2, <1>3, <1>4

\* A process comes in under no lock.
LEMMA WaysIn ==
  ASSUME C!CredentialAssumption, CredentialInv, NEW p \in C!Procs,
         \/ \E kind \in {"provider", "register", "admin"} : C!Start(p, kind)
         \/ C!RegisterBusy(p) \/ C!ClaimNext(p)
  PROVE  CredentialInv'
  <1> USE Untouched
  <1>0. row \in C!Row /\ lock \in C!Procs \cup {None, Gone} /\ provision \in C!Procs \cup {None, Gone}
    BY DEF CredentialInv, C!TypeOK
  <1>1. ASSUME NEW kind \in {"provider", "register", "admin"}, C!Start(p, kind)
        PROVE  CredentialInv'
    <2> DEFINE x == [C!NoProcess EXCEPT !.kind = kind,
                                      !.pc = IF kind = "provider" THEN "check" ELSE "local"]
    <2>1. /\ x \in C!Process /\ proc' = [proc EXCEPT ![p] = x]
          /\ x.pc \in {"check", "local"} /\ x.call = "account"
          /\ x.kind = "provider" => x.pc = "check"
      BY <1>1 DEF C!Start, C!NoProcess, C!Process
    <2> HIDE DEF x
    <2>2. MutexRule(p, x) /\ LockRule(p, x) /\ ProvisionRule(p, x)
      BY <1>0, <1>1, <2>1
         DEF C!Start, C!locks, MutexRule, LockRule, ProvisionRule, UnderMutex, UnderLock,
             UnderProvision
    <2>3. Seen(x, account', C!Existing')
      BY <2>1 DEF Seen
    <2> QED
      BY <1>1, <2>1, <2>2, <2>3, ProcessStepKeeps DEF C!Start, ProcessStep
  <1>2. CASE C!RegisterBusy(p)
    <2> DEFINE x == [C!NoProcess EXCEPT !.kind = "register", !.pc = "queue"]
    <2>1. /\ x \in C!Process /\ proc' = [proc EXCEPT ![p] = x]
          /\ x.pc = "queue" /\ x.call = "account"
      BY <1>2 DEF C!RegisterBusy, C!NoProcess, C!Process
    <2> HIDE DEF x
    <2>2. MutexRule(p, x) /\ LockRule(p, x) /\ ProvisionRule(p, x)
      BY <1>0, <1>2, <2>1 DEF C!RegisterBusy, C!locks, MutexRule, LockRule, ProvisionRule,
                              UnderMutex, UnderLock, UnderProvision
    <2>3. Seen(x, account', C!Existing')
      BY <2>1 DEF Seen
    <2> QED
      BY <1>2, <2>1, <2>2, <2>3, ProcessStepKeeps DEF C!RegisterBusy, ProcessStep
  <1>3. CASE C!ClaimNext(p)
    <2> DEFINE x == [C!NoProcess EXCEPT !.kind = "worker", !.pc = "local",
                                      !.attempts = row.attempts + 1, !.max = row.max]
    <2>0. row.attempts + 1 \in Nat /\ row.max \in Nat
      BY <1>0 DEF C!Row
    <2>1. /\ x \in C!Process /\ proc' = [proc EXCEPT ![p] = x]
          /\ x.pc = "local" /\ x.call = "account" /\ x.kind = "worker"
      BY <1>3, <2>0 DEF C!ClaimNext, C!NoProcess, C!Process
    <2> HIDE DEF x
    <2>2. MutexRule(p, x) /\ LockRule(p, x) /\ ProvisionRule(p, x)
      BY <1>0, <1>3, <2>1 DEF C!ClaimNext, C!locks, MutexRule, LockRule, ProvisionRule,
                              UnderMutex, UnderLock, UnderProvision
    <2>3. Seen(x, account', C!Existing')
      BY <2>1 DEF Seen
    <2>4. RowRule
      BY <1>0, <1>3, ProvisionRowTyping, ProvisionRowStatuses DEF C!ClaimNext, RowRule
    <2> QED
      BY <1>3, <2>1, <2>2, <2>3, <2>4, ProcessStepKeeps DEF C!ClaimNext, ProcessStep
  <1> QED
    BY <1>1, <1>2, <1>3

\* A process that neither is nor comes under the user's lock obeys its rules
\* when it leaves the lock alone.
LEMMA OutsideRules ==
  ASSUME C!CredentialAssumption, CredentialInv, NEW p \in C!Procs, NEW x, ~UnderMutex(x),
         UNCHANGED <<lock, mutex>>
  PROVE  MutexRule(p, x) /\ LockRule(p, x)
  BY DEF MutexRule, LockRule, UnderMutex, CredentialInv, C!TypeOK

\* The first look, the refusals and the provision lock.
LEMMA ProviderActions ==
  ASSUME C!CredentialAssumption, CredentialInv, NEW p \in C!Procs,
         C!CheckLocal(p) \/ C!Refuse(p) \/ C!ClaimProvision(p) \/ C!LoadLocal(p)
  PROVE  CredentialInv'
  <1> USE Untouched
  <1>0. /\ Seen(proc[p], account, C!Existing) /\ provision \in C!Procs \cup {None, Gone}
        /\ None \notin C!Procs /\ Gone \notin C!Procs
    BY DEF CredentialInv, C!TypeOK, Progress, C!CredentialAssumption
  <1>1. ASSUME UNCHANGED <<account, stored, C!remote, row, lock, mutex, promised, C!bounds>>,
               proc' = [proc EXCEPT ![p] = C!NoProcess],
               ProvisionRule(p, C!NoProcess)
        PROVE  CredentialInv'
    <2>1. MutexRule(p, C!NoProcess) /\ LockRule(p, C!NoProcess)
      BY <1>1, IdleProcess, OutsideRules
    <2>2. Seen(C!NoProcess, account', C!Existing')
      BY IdleProcess DEF Seen
    <2> QED
      BY <1>1, <2>1, <2>2, IdleProcess, ProcessStepKeeps DEF ProcessStep
  <1>2. ASSUME NEW pc \in {"claim", "local", "mutex", "queue"}, C!Goto(p, pc),
               UNCHANGED <<account, stored, C!remote, row, lock, mutex, promised, C!bounds>>,
               \/ provision' = p /\ provision \notin C!Procs
               \/ provision' = provision /\ pc \in {"claim", "queue"}
               \/ provision' = provision /\ C!At(p, "local")
        PROVE  CredentialInv'
    <2>1. PICK x \in C!Process : /\ proc' = [proc EXCEPT ![p] = x]
                                 /\ x.pc = pc /\ x.kind = proc[p].kind /\ x.call = proc[p].call
                                 /\ x.lateProvision = proc[p].lateProvision
      BY <1>2, GotoMoves
    <2>2. MutexRule(p, x) /\ LockRule(p, x)
      BY <1>2, <2>1, OutsideRules DEF UnderMutex, UnderLock
    <2>3. ProvisionRule(p, x)
      BY <1>0, <1>2, <2>1 DEF C!At, ProvisionRule, UnderProvision, CredentialInv, ProvisionHeld
    <2>4. Seen(x, account', C!Existing')
      BY <1>0, <1>2, <2>1 DEF Seen
    <2> QED
      BY <1>2, <2>1, <2>2, <2>3, <2>4, ProcessStepKeeps DEF ProcessStep
  <1>3. CASE C!CheckLocal(p)
    BY <1>1, <1>2, <1>3, LeaveMoves DEF C!CheckLocal
  <1>4. CASE C!Refuse(p)
    <2>1. ProvisionRule(p, C!NoProcess)
      BY <1>0, <1>4, IdleProcess DEF C!Refuse, C!Refused, ProvisionRule
    <2> QED
      BY <1>1, <1>4, <2>1 DEF C!Refuse
  <1>5. CASE C!ClaimProvision(p)
    BY <1>0, <1>2, <1>5 DEF C!ClaimProvision
  <1>6. CASE C!LoadLocal(p)
    BY <1>1, <1>2, <1>6, LeaveMoves DEF C!LoadLocal
  <1> QED
    BY <1>3, <1>4, <1>5, <1>6

\* Storing a key never loses one.
LEMMA InsertingKeeps ==
  ASSUME C!CredentialAssumption, CredentialInv, NEW p \in C!Procs, C!At(p, "insert")
  PROVE  C!Inserting(p) \in Keys
  BY DEF C!At, C!Inserting, CredentialInv, C!TypeOK, Progress, Seen, C!CredentialAssumption

\* A failure, whatever of the call had been done, ends outside all locks.
LEMMA Failures ==
  ASSUME C!CredentialAssumption, CredentialInv, NEW p \in C!Procs, NEW retryable \in BOOLEAN,
         C!LoadLocalFails(p, retryable) \/ C!LockTimesOut(p, retryable) \/ C!CallFails(p, retryable)
  PROVE  CredentialInv'
  <1> USE Untouched
  <1>0. /\ Seen(proc[p], account, C!Existing) /\ lock \in C!Procs \cup {None, Gone}
        /\ None \notin C!Procs /\ Gone \notin C!Procs /\ promised \in BOOLEAN
        /\ account \in BOOLEAN /\ stored \in Keys \cup {NoKey}
    BY DEF CredentialInv, C!TypeOK, Progress, C!CredentialAssumption
  <1>1. ASSUME NEW x \in C!Process, proc' = [proc EXCEPT ![p] = x],
               x.pc \in {"queue", "idle"}, x.call \in {"account", proc[p].call},
               ProvisionRule(p, x), RowRule, MutexRule(p, x), LockRule(p, x),
               Data, RemoteRule, Bounds
        PROVE  CredentialInv'
    <2>1. Seen(x, account', C!Existing')
      BY <1>0, <1>1 DEF Seen, Data
    <2> QED
      BY <1>1, <2>1, ProcessStepKeeps DEF ProcessStep
  <1>2. CASE C!LoadLocalFails(p, retryable)
    <2>1. Data /\ RemoteRule /\ Bounds
      BY <1>0, <1>2 DEF C!LoadLocalFails, Bounds
    <2>2. CASE C!Leave(p) /\ UNCHANGED row
      <3>1. MutexRule(p, C!NoProcess) /\ LockRule(p, C!NoProcess)
        BY <1>2, IdleProcess, OutsideRules DEF C!LoadLocalFails
      <3> QED
        BY <1>1, <2>1, <2>2, <3>1, LeaveMoves, IdleProcess
    <2>3. CASE C!Failed(p, retryable)
      <3>1. PICK x \in C!Process : /\ proc' = [proc EXCEPT ![p] = x] /\ x.pc \in {"queue", "idle"}
                                   /\ x.call \in {"account", proc[p].call} /\ ProvisionRule(p, x)
        BY <2>3, FailedMoves
      <3>2. MutexRule(p, x) /\ LockRule(p, x)
        BY <1>2, <3>1, OutsideRules DEF C!LoadLocalFails, UnderMutex, UnderLock
      <3> QED
        BY <1>1, <2>1, <2>3, <3>1, <3>2, FailedMoves
    <2> QED
      BY <1>2, <2>2, <2>3 DEF C!LoadLocalFails
  <1>3. CASE C!LockTimesOut(p, retryable)
    <2>1. Data /\ RemoteRule /\ Bounds
      BY <1>3 DEF C!LockTimesOut
    <2>2. PICK x \in C!Process : /\ proc' = [proc EXCEPT ![p] = x] /\ x.pc \in {"queue", "idle"}
                                 /\ x.call \in {"account", proc[p].call} /\ ProvisionRule(p, x)
      BY <1>3, FailedMoves DEF C!LockTimesOut
    <2>3. MutexRule(p, x)
      BY <1>3, <2>2 DEF C!LockTimesOut, C!At, MutexRule, UnderMutex, UnderLock
    <2>4. LockRule(p, x)
      BY <1>0, <1>3, <2>2 DEF C!LockTimesOut, C!Refused, LockRule, UnderLock
    <2>5. RowRule
      BY <1>3, FailedMoves DEF C!LockTimesOut
    <2> QED
      BY <1>1, <2>1, <2>2, <2>3, <2>4, <2>5
  <1>4. CASE C!CallFails(p, retryable)
    <2>1. Data
      <3>1. CASE UNCHANGED <<account, stored>>
        BY <3>1
      <3>2. CASE account' = TRUE /\ UNCHANGED stored
        BY <1>0, <3>2 DEF Data
      <3>3. CASE C!At(p, "insert") /\ stored' = C!Inserting(p) /\ UNCHANGED account
        BY <1>0, <3>3, InsertingKeeps DEF Data, C!CredentialAssumption
      <3> QED
        BY <1>4, <3>1, <3>2, <3>3 DEF C!CallFails, C!remote
    <2>2. RemoteRule
      BY <1>4 DEF C!CallFails, RemoteRule, C!remote
    <2>3. Bounds
      BY <1>0, <1>4 DEF C!CallFails, Bounds
    <2>4. PICK x \in C!Process : /\ proc' = [proc EXCEPT ![p] = x] /\ x.pc \in {"queue", "idle"}
                                 /\ x.call \in {"account", proc[p].call} /\ ProvisionRule(p, x)
      BY <1>4, FailedMoves DEF C!CallFails
    <2>5. MutexRule(p, x) /\ LockRule(p, x)
      BY <1>4, <2>4, UnlockRules DEF C!CallFails, C!InLock, UnderMutex, UnderLock
    <2>6. RowRule
      BY <1>4, FailedMoves DEF C!CallFails
    <2> QED
      BY <1>1, <2>1, <2>2, <2>3, <2>4, <2>5, <2>6
  <1> QED
    BY <1>2, <1>3, <1>4

\* A process that is done with its second call, with a key stored, leaves the
\* lock; a worker goes on to mark its operation.
LEMMA ReadyKeeps ==
  ASSUME C!CredentialAssumption, CredentialInv, NEW p \in C!Procs, C!Ready(p), UnderLock(proc[p]),
         proc[p].call = "read",
         UNCHANGED <<account, C!remote, row, promised, C!bounds>>, Data, stored' # NoKey
  PROVE  CredentialInv'
  <1> USE Untouched
  <1>0. /\ account /\ provision \in C!Procs \cup {None, Gone}
    BY DEF CredentialInv, C!TypeOK, Progress, Seen
  <1>1. CASE C!Goto(p, "mark") /\ UNCHANGED provision /\ proc[p].kind = "worker"
    <2>1. PICK x \in C!Process : /\ proc' = [proc EXCEPT ![p] = x]
                                 /\ x.pc = "mark" /\ x.kind = proc[p].kind /\ x.call = proc[p].call
      BY <1>1, GotoMoves
    <2>2. MutexRule(p, x) /\ LockRule(p, x)
      BY <2>1, UnlockRules DEF C!Ready, UnderMutex, UnderLock
    <2>3. ProvisionRule(p, x)
      BY <1>0, <1>1, <2>1 DEF ProvisionRule, UnderProvision
    <2>4. Seen(x, account', C!Existing')
      BY <1>0, <2>1 DEF Seen, C!Existing
    <2> QED
      BY <2>1, <2>2, <2>3, <2>4, ProcessStepKeeps DEF ProcessStep
  <1>2. CASE C!Leave(p)
    <2>1. MutexRule(p, C!NoProcess) /\ LockRule(p, C!NoProcess)
      BY IdleProcess, UnlockRules DEF C!Ready
    <2>2. Seen(C!NoProcess, account', C!Existing')
      BY IdleProcess DEF Seen
    <2> QED
      BY <1>2, <2>1, <2>2, IdleProcess, LeaveMoves, ProcessStepKeeps DEF ProcessStep
  <1> QED
    BY <1>1, <1>2 DEF C!Ready

\* The steps under the user's lock.
LEMMA Calls ==
  ASSUME C!CredentialAssumption, CredentialInv, NEW p \in C!Procs,
         \/ C!EnsureAccount(p) \/ C!ReadKey(p) \/ C!InsertKey(p)
         \/ \E k \in Keys : C!CreateKey(p, k)
  PROVE  CredentialInv'
  <1> USE Untouched
  <1>0. /\ Seen(proc[p], account, C!Existing) /\ proc[p] \in C!Process /\ proc \in [C!Procs -> C!Process]
        /\ lock \in C!Procs \cup {None, Gone} /\ provision \in C!Procs \cup {None, Gone}
        /\ account \in BOOLEAN /\ stored \in Keys \cup {NoKey} /\ NoKey \notin Keys
    BY DEF CredentialInv, C!TypeOK, Progress, C!CredentialAssumption
  <1>1. CASE C!EnsureAccount(p)
    <2> DEFINE x == [proc[p] EXCEPT !.pc = "mutex", !.call = "read"]
    <2>1. /\ x \in C!Process /\ proc' = [proc EXCEPT ![p] = x]
          /\ x.pc = "mutex" /\ x.kind = proc[p].kind
          /\ x.lateProvision = proc[p].lateProvision
      BY <1>0, <1>1 DEF C!EnsureAccount, C!Process
    <2> HIDE DEF x
    <2>2. MutexRule(p, x) /\ LockRule(p, x)
      BY <1>1, <2>1, UnlockRules DEF C!EnsureAccount, C!At, UnderMutex, UnderLock
    <2>3. ProvisionRule(p, x)
      BY <1>0, <1>1, <2>1 DEF C!EnsureAccount, C!At, ProvisionRule, UnderProvision,
             CredentialInv, ProvisionHeld
    <2>4. Seen(x, account', C!Existing') /\ Data
      BY <1>0, <1>1, <2>1 DEF C!EnsureAccount, Seen, Data
    <2> QED
      BY <1>1, <2>1, <2>2, <2>3, <2>4, ProcessStepKeeps DEF C!EnsureAccount, ProcessStep
  <1>2. CASE C!ReadKey(p)
    <2>1. CASE stored # NoKey
      <3>1. UnderLock(proc[p]) /\ proc[p].call = "read"
        BY <1>0, <1>2 DEF C!ReadKey, C!At, UnderLock, Seen
      <3> QED
        BY <1>2, <2>1, <3>1, ReadyKeeps DEF C!ReadKey
    <2>2. CASE stored = NoKey
      <3>1. PICK x \in C!Process : /\ proc' = [proc EXCEPT ![p] = x]
                                   /\ x.pc = "create" /\ x.kind = proc[p].kind
                                   /\ x.call = proc[p].call /\ x.late = proc[p].late
                                   /\ x.lateProvision = proc[p].lateProvision
        BY <1>2, <2>2, GotoMoves DEF C!ReadKey
      <3>2. MutexRule(p, x) /\ LockRule(p, x)
        BY <1>0, <1>2, <2>2, <3>1
           DEF C!ReadKey, C!At, C!locks, MutexRule, LockRule, UnderMutex, UnderLock, CredentialInv,
               LockHeld
      <3>3. ProvisionRule(p, x)
        BY <1>0, <1>2, <2>2, <3>1
           DEF C!ReadKey, C!At, C!locks, ProvisionRule, UnderProvision, CredentialInv, ProvisionHeld
      <3>4. Seen(x, account', C!Existing')
        BY <1>0, <1>2, <3>1 DEF C!ReadKey, C!At, Seen
      <3> QED
        BY <1>2, <3>1, <3>2, <3>3, <3>4, ProcessStepKeeps DEF C!ReadKey, ProcessStep
    <2> QED
      BY <2>1, <2>2
  <1>3. CASE C!InsertKey(p)
    <2>1. UnderLock(proc[p]) /\ proc[p].call = "read"
      BY <1>0, <1>3 DEF C!InsertKey, C!At, UnderLock, Seen
    <2>2. Data /\ stored' # NoKey
      BY <1>0, <1>3, InsertingKeeps DEF C!InsertKey, Data
    <2> QED
      BY <1>3, <2>1, <2>2, ReadyKeeps DEF C!InsertKey
  <1>4. ASSUME NEW k \in Keys, C!CreateKey(p, k)
        PROVE  CredentialInv'
    <2> DEFINE x == [proc[p] EXCEPT !.pc = "insert", !.key = k]
    <2>1. /\ x \in C!Process /\ proc' = [proc EXCEPT ![p] = x]
          /\ x.pc = "insert" /\ x.key = k /\ x.kind = proc[p].kind /\ x.call = proc[p].call
          /\ x.late = proc[p].late /\ x.lateProvision = proc[p].lateProvision
      BY <1>0, <1>4 DEF C!CreateKey, C!Process
    <2> HIDE DEF x
    <2>2. MutexRule(p, x) /\ LockRule(p, x)
      BY <1>0, <1>4, <2>1
         DEF C!CreateKey, C!At, C!locks, MutexRule, LockRule, UnderMutex, UnderLock, CredentialInv,
             LockHeld
    <2>3. ProvisionRule(p, x)
      BY <1>0, <1>4, <2>1
         DEF C!CreateKey, C!At, C!locks, ProvisionRule, UnderProvision, CredentialInv, ProvisionHeld
    <2>4. Seen(x, account', C!Existing') /\ RemoteRule
      BY <1>0, <1>4, <2>1 DEF C!CreateKey, C!At, Seen, RemoteRule
    <2> QED
      BY <1>4, <2>1, <2>2, <2>3, <2>4, ProcessStepKeeps DEF C!CreateKey, ProcessStep
  <1> QED
    BY <1>1, <1>2, <1>3, <1>4

\* The ends of a request in the queue and of a worker's execution.
LEMMA Endings ==
  ASSUME C!CredentialAssumption, CredentialInv, NEW p \in C!Procs,
         C!Enqueue(p) \/ C!EnqueueFails(p) \/ C!ExecutionSucceeds(p)
  PROVE  CredentialInv'
  <1> USE Untouched
  <1>0. row \in C!Row /\ promised \in BOOLEAN
    BY DEF CredentialInv, C!TypeOK
  <1>1. /\ C!Leave(p) /\ UNCHANGED <<account, stored, C!remote, lock, mutex>>
    BY DEF C!Enqueue, C!EnqueueFails, C!ExecutionSucceeds
  <1>2. MutexRule(p, C!NoProcess) /\ LockRule(p, C!NoProcess)
    BY <1>1, IdleProcess, OutsideRules
  <1>3. Seen(C!NoProcess, account', C!Existing')
    BY IdleProcess DEF Seen
  <1>4. Bounds
    BY <1>0 DEF C!Enqueue, C!EnqueueFails, C!ExecutionSucceeds, Bounds, C!bounds, CredentialInv,
           C!TypeOK
  <1>5. RowRule
    <2>1. CASE row' = C!EnsureGatewayProvision(row)
      <3>1. row' = row \/ row'.status = "pending"
        BY <2>1 DEF C!EnsureGatewayProvision, C!Inserted, C!AbsentRow
      <3> QED
        BY <1>0, <2>1, <3>1, ProvisionRowTyping DEF RowRule
    <2>2. CASE C!At(p, "mark") /\ row' = C!MarkSucceeded(row)
      <3>1. C!Existing'
        BY <1>1, <2>2 DEF C!At, CredentialInv, Progress, Seen, C!Existing
      <3> QED
        BY <1>0, <2>2, <3>1, ProvisionRowTyping DEF RowRule
    <2> QED
      BY <2>1, <2>2 DEF C!Enqueue, C!EnqueueFails, C!ExecutionSucceeds
  <1> QED
    BY <1>1, <1>2, <1>3, <1>4, <1>5, IdleProcess, LeaveMoves, ProcessStepKeeps DEF ProcessStep

\* What happens to no process: the queue's clock, and locks nobody knows of.
LEMMA Environment ==
  ASSUME C!CredentialAssumption, CredentialInv,
         \/ C!AbandonedLockExpires \/ C!AbandonedProvisionExpires
                        \/ C!Requeue \/ C!ComesDue \/ C!RowLockExpires
  PROVE  CredentialInv'
  <1>0. row \in C!Row /\ None \notin C!Procs /\ Gone \notin C!Procs
    BY DEF CredentialInv, C!TypeOK, C!CredentialAssumption
  <1>1. CASE C!AbandonedLockExpires
    BY <1>0, <1>1 DEF C!AbandonedLockExpires, C!remote, C!bounds, CredentialInv, C!TypeOK,
           MutexHeld, LockHeld,
       ProvisionHeld, Memory, Progress, Seen, C!SucceededMeansStored, C!Existing
  <1>2. CASE C!AbandonedProvisionExpires
    BY <1>0, <1>2 DEF C!AbandonedProvisionExpires, C!remote, C!bounds, CredentialInv, C!TypeOK,
           MutexHeld, LockHeld,
       ProvisionHeld, Memory, Progress, Seen, C!SucceededMeansStored, C!Existing
  <1>3. CASE C!Requeue \/ C!ComesDue \/ C!RowLockExpires
    <2>1. row' \in C!Row /\ (row'.status # "succeeded" \/ row'.status = row.status)
      <3>1. CASE C!Requeue
        BY <1>0, <3>1, ProvisionRowTyping, ProvisionRowStatuses DEF C!Requeue
      <3>2. CASE C!ComesDue
        BY <1>0, <3>2 DEF C!ComesDue, C!Row
      <3>3. CASE C!RowLockExpires
        BY <1>0, <3>3 DEF C!RowLockExpires, C!Row
      <3> QED
        BY <1>3, <3>1, <3>2, <3>3
    <2>2. UNCHANGED C!queueRest
      BY <1>3 DEF C!Requeue, C!ComesDue, C!RowLockExpires
    <2> QED
      BY <2>1, <2>2 DEF C!queueRest, C!remote, C!locks, C!bounds, CredentialInv, C!TypeOK,
             MutexHeld, LockHeld,
         ProvisionHeld, Memory, Progress, Seen, C!SucceededMeansStored, C!Existing
  <1> QED
    BY <1>1, <1>2, <1>3

\* A host that stops takes its own processes and locks with it, and no others.
LEMMA CrashKeeps ==
  ASSUME C!CredentialAssumption, CredentialInv, NEW h \in Hosts, C!Crash(h)
  PROVE  CredentialInv'
  <1> USE Untouched
  <1>0. /\ proc \in [C!Procs -> C!Process] /\ HostOf \in [C!Procs -> Hosts]
        /\ None \notin C!Procs /\ Gone \notin C!Procs
        /\ mutex \in [Hosts -> C!Procs \cup {None}]
        /\ lock \in C!Procs \cup {None, Gone} /\ provision \in C!Procs \cup {None, Gone}
    BY DEF CredentialInv, C!TypeOK, C!CredentialAssumption
  <1>1. /\ proc' \in [C!Procs -> C!Process]
        /\ \A p \in C!Procs : proc'[p] = IF HostOf[p] = h THEN C!NoProcess ELSE proc[p]
    BY <1>0, IdleProcess DEF C!Crash
  <1>2. /\ mutex' \in [Hosts -> C!Procs \cup {None}]
        /\ \A g \in Hosts : g # h => mutex'[g] = mutex[g]
    BY <1>0 DEF C!Crash
  <1>3. /\ lock' \in C!Procs \cup {None, Gone} /\ provision' \in C!Procs \cup {None, Gone}
        /\ \A p \in C!Procs : HostOf[p] # h => (lock = p => lock' = p)
                                          /\ (provision = p => provision' = p)
    BY <1>0 DEF C!Crash, C!Abandon
  <1>4. C!TypeOK'
    BY <1>1, <1>2, <1>3 DEF C!Crash, C!remote, CredentialInv, C!TypeOK
  <1>5. MutexHeld'
    BY <1>0, <1>1, <1>2, IdleProcess DEF CredentialInv, MutexHeld
  <1>6. LockHeld'
    BY <1>0, <1>1, <1>3, IdleProcess DEF CredentialInv, LockHeld
  <1>7. ProvisionHeld'
    BY <1>0, <1>1, <1>3, IdleProcess DEF CredentialInv, ProvisionHeld
  <1>8. Memory' /\ C!SucceededMeansStored'
    BY DEF C!Crash, C!remote, CredentialInv, Memory, C!SucceededMeansStored, C!Existing
  <1>9. Progress'
    BY <1>0, <1>1, IdleProcess DEF C!Crash, CredentialInv, Progress, Seen, C!Existing
  <1> QED
    BY <1>4, <1>5, <1>6, <1>7, <1>8, <1>9 DEF CredentialInv

\* The invariant holds in every initial state.
LEMMA InitKeeps ==
  ASSUME C!CredentialAssumption
  PROVE  C!Init => CredentialInv
  <1> SUFFICES ASSUME C!Init PROVE CredentialInv
    OBVIOUS
  <1>1. C!AbsentRow \in C!Row /\ C!AbsentRow.status = "absent"
    BY RowAssumption DEF C!AbsentRow, C!Row
  <1>2. \A p \in C!Procs : proc[p] = C!NoProcess
    BY DEF C!Init
  <1>3. C!TypeOK
    <2>1. proc \in [C!Procs -> C!Process]
      BY IdleProcess DEF C!Init
    <2>2. mutex \in [Hosts -> C!Procs \cup {None}]
      BY DEF C!Init
    <2>3. failures \in 0..MaxFailures /\ overruns \in 0..MaxOverruns
      BY DEF C!Init, C!CredentialAssumption
    <2> QED
      BY <1>1, <2>1, <2>2, <2>3 DEF C!Init, C!TypeOK
  <1>4. MutexHeld /\ LockHeld /\ ProvisionHeld
    BY <1>2, IdleProcess DEF MutexHeld, LockHeld, ProvisionHeld
  <1>5. Progress
    BY <1>2, IdleProcess DEF Progress, Seen
  <1>6. Memory /\ C!SucceededMeansStored
    BY <1>1 DEF C!Init, Memory, C!SucceededMeansStored
  <1> QED
    BY <1>3, <1>4, <1>5, <1>6 DEF CredentialInv

\* Every step keeps the invariant.
LEMMA NextKeeps ==
  ASSUME C!CredentialAssumption
  PROVE  CredentialInv /\ [C!Next]_C!vars => CredentialInv'
  <1> SUFFICES ASSUME CredentialInv, [C!Next]_C!vars PROVE CredentialInv'
    OBVIOUS
  <1>1. CASE UNCHANGED C!vars
    BY <1>1 DEF C!vars, C!remote, C!locks, C!bounds, CredentialInv, C!TypeOK, MutexHeld,
           LockHeld, ProvisionHeld,
                Memory, Progress, Seen, C!SucceededMeansStored, C!Existing
  <1>2. ASSUME NEW r \in Requests,
               C!RegisterBusy(r) \/ \E kind \in {"provider", "register", "admin"} : C!Start(r, kind)
        PROVE  CredentialInv'
    BY <1>2, WaysIn DEF C!Procs
  <1>3. ASSUME NEW w \in Workers, C!ClaimNext(w)
        PROVE  CredentialInv'
    BY <1>3, WaysIn DEF C!Procs
  <1>4. ASSUME NEW p \in C!Procs, C!Step(p)
        PROVE  CredentialInv'
    BY <1>4, ProviderActions, Calls, Endings DEF C!Step
  <1>5. ASSUME NEW p \in C!Procs, C!TakeMutex(p) \/ C!Wait(p)
        PROVE  CredentialInv'
    BY <1>5, LockActions, Failures DEF C!Wait
  <1>6. ASSUME NEW p \in C!Procs, C!Trouble(p)
        PROVE  CredentialInv'
    BY <1>6, ProviderActions, Endings, LockActions, Failures DEF C!Trouble
  <1>7. ASSUME NEW h \in Hosts, C!Crash(h)
        PROVE  CredentialInv'
    BY <1>7, CrashKeeps
  <1>8. CASE \/ C!AbandonedLockExpires \/ C!AbandonedProvisionExpires
             \/ C!Requeue \/ C!ComesDue \/ C!RowLockExpires
    BY <1>8, Environment
  <1> QED
    BY <1>1, <1>2, <1>3, <1>4, <1>5, <1>6, <1>7, <1>8 DEF C!Next

\* The invariant holds throughout every behaviour.
THEOREM CredentialInvariance ==
  ASSUME C!CredentialAssumption
  PROVE  C!Spec => []CredentialInv
  BY InitKeeps, NextKeeps, PTL DEF C!Spec

\* The state of the accounts, keys, locks and processes is well-typed.
THEOREM CredentialTypeCorrect ==
  ASSUME C!CredentialAssumption
  PROVE  C!Spec => []C!TypeOK
  <1>1. CredentialInv => C!TypeOK
    BY DEF CredentialInv
  <1> QED
    BY <1>1, CredentialInvariance, PTL

\* lockGatewayUser and acquireProviderProvisionLock exclude, but for a holder
\* that has outlived the time to live of its lock, for any number of hosts,
\* requests and workers.
THEOREM LocksExclude ==
  ASSUME C!CredentialAssumption
  PROVE  C!Spec => []C!OneAtATime
  <1>1. CredentialInv => C!OneAtATime
    <2> SUFFICES ASSUME CredentialInv, NEW p \in C!Procs, NEW q \in C!Procs, p # q
                 PROVE  /\ C!InLock(p) /\ C!InLock(q) =>
                             HostOf[p] # HostOf[q] /\ (proc[p].late \/ proc[q].late)
                        /\ C!Provisioning(p) /\ C!Provisioning(q) =>
                             proc[p].lateProvision \/ proc[q].lateProvision
      BY DEF C!OneAtATime
    <2>1. C!InLock(p) /\ C!InLock(q) => HostOf[p] # HostOf[q]
      BY DEF C!InLock, UnderLock, UnderMutex, CredentialInv, MutexHeld
    <2>2. C!InLock(p) /\ C!InLock(q) => proc[p].late \/ proc[q].late
      BY DEF C!InLock, UnderLock, CredentialInv, LockHeld
    <2>3. C!Provisioning(p) /\ C!Provisioning(q) => proc[p].lateProvision \/ proc[q].lateProvision
      BY DEF C!Provisioning, UnderProvision, CredentialInv, ProvisionHeld
    <2> QED
      BY <2>1, <2>2, <2>3
  <1> QED
    BY <1>1, CredentialInvariance, PTL

\* A succeeded operation provision_gateway_credential has left an account and
\* a key.
THEOREM SuccessLeavesKey ==
  ASSUME C!CredentialAssumption
  PROVE  C!Spec => []C!SucceededMeansStored
  <1>1. CredentialInv => C!SucceededMeansStored
    BY DEF CredentialInv
  <1> QED
    BY <1>1, CredentialInvariance, PTL
=============================================================================
