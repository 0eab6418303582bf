------------------------- MODULE RedemptionSyncProofs -------------------------
(***************************************************************************)
(* Redemption, for every set of codes, users, requests, worker slots and   *)
(* administrators.                                                         *)
(*                                                                         *)
(* CreditedOnceToOwner is not inductive: it must follow from what Sub2API  *)
(* has seen.  Credits says that the balance is exactly one for the owner   *)
(* of a code whose key was applied; CallsGood that every call on its way   *)
(* carries its code's key and owner; ProcsGood that a process which        *)
(* believes the balance was added is right.  The last one needs that a     *)
(* call whose caller still waits can only be applied, never lost.          *)
(***************************************************************************)
EXTENDS RedemptionSync, TLAPS

Redeemed(c) == redemption[c].user \in Users

\* the places where a process believes that the balance was added
Paid == {"answered", "synced", "keymark"}

\* the three rows of a redemption agree with each other and with Sub2API
RowsGood ==
    \A c \in Codes :
        /\ code[c] = "used" <=> Redeemed(c)
        /\ redemption[c].status = "none" <=> ~Redeemed(c)
        /\ row[c].status # "absent" => Redeemed(c)
        /\ c \in applied => Redeemed(c)
        /\ redemption[c].status = "synced" => c \in applied
        /\ row[c].status = "succeeded" => c \in applied

ProcsGood ==
    \A p \in Procs : proc[p].pc # "idle" =>
        /\ proc[p].code \in Codes /\ Redeemed(proc[p].code)
        /\ proc[p].pc \in Paid => proc[p].code \in applied
        /\ proc[p].pc = "calling" /\ Call(p) \notin calls => proc[p].code \in applied

CallsGood ==
    \A m \in calls : m.key = m.code /\ m.user = redemption[m.code].user

Credits ==
    \A u \in Users, c \in Codes :
        credit[u][c] = IF c \in applied /\ redemption[c].user = u THEN 1 ELSE 0

IInv == TypeOK /\ RowsGood /\ ProcsGood /\ CallsGood /\ Credits

-----------------------------------------------------------------------------
\* The SQL statements of module OperationRow that are run here make rows of rows.
LEMMA RowTyping ==
  ASSUME NEW x \in Row
  PROVE  /\ CreateRedemptionSync(x) \in Row
         /\ Claimed(x) \in Row
         /\ Requeued(x) \in Row
         /\ MarkSucceeded(x) \in Row
         /\ \A b, due, dead \in BOOLEAN : MarkFailed(x, b, dead, due) \in Row
         /\ AttemptCounted(x) \in Row
         /\ TakenByAdmin(x) \in Row
         /\ Retried(x) \in Row
  <1>1. x.attempts + 1 \in Nat /\ x.attempts + RetryGrant \in Nat
    BY RowAssumption DEF Row
  <1>2. (x.attempts < x.max) \in BOOLEAN
    OBVIOUS
  <1>3. AbsentRow \in Row
    BY RowAssumption DEF AbsentRow, Row
  <1> USE DEF Row, Statuses
  <1>4. CreateRedemptionSync(x) \in Row
    BY <1>3 DEF CreateRedemptionSync, Inserted
  <1>5. Claimed(x) \in Row /\ AttemptCounted(x) \in Row /\ TakenByAdmin(x) \in Row
    BY <1>1 DEF Claimed, AttemptCounted, TakenByAdmin
  <1>6. Requeued(x) \in Row
    BY <1>2 DEF Requeued
  <1>7. MarkSucceeded(x) \in Row
    BY DEF MarkSucceeded
  <1>8. ASSUME NEW b \in BOOLEAN, NEW due \in BOOLEAN, NEW dead \in BOOLEAN
        PROVE  MarkFailed(x, b, dead, due) \in Row
    BY DEF MarkFailed
  <1>9. Retried(x) \in Row
    BY <1>1 DEF Retried
  <1>10. QED  BY <1>4, <1>5, <1>6, <1>7, <1>8, <1>9

\* The status that each of them leaves behind.
LEMMA RowStatuses ==
  ASSUME NEW x \in Row
  PROVE  /\ x.status = "absent" => CreateRedemptionSync(x).status = "pending"
         /\ Claimed(x).status = "running"
         /\ Requeued(x).status \in {"failed", "dead_letter"}
         /\ MarkSucceeded(x).status = "succeeded"
         /\ \A b, due, dead \in BOOLEAN :
               MarkFailed(x, b, dead, due).status \in {"failed", "dead_letter"}
         /\ AttemptCounted(x).status = x.status
         /\ TakenByAdmin(x).status = "running"
         /\ Retried(x).status = "pending"
  BY DEF Row, CreateRedemptionSync, Inserted, AbsentRow, Claimed, Requeued, MarkSucceeded,
         MarkFailed, AttemptCounted, TakenByAdmin, Retried

-----------------------------------------------------------------------------
(***************************************************************************)
(* Most steps write at most one process, one operation and one status and  *)
(* leave Sub2API alone.  What they must not do is said once.               *)
(***************************************************************************)
ProcStep(p) ==
    \E x \in Proc :
        /\ p \in Procs /\ proc' = [proc EXCEPT ![p] = x]
        /\ \/ x.pc = "idle"
           \/ /\ x.code \in Codes /\ Redeemed(x.code)
              /\ x.pc # "calling" /\ (x.pc \in Paid => x.code \in applied)

RowStep ==
    \E c \in Codes, x \in Row :
        /\ row' = [row EXCEPT ![c] = x]
        /\ x.status # "absent" => Redeemed(c)
        /\ x.status = "succeeded" => c \in applied

StatusStep ==
    \E c \in Codes, s \in {"synced", "gateway_failed"} :
        /\ SetStatus(c, s) /\ Redeemed(c)
        /\ s = "synced" => c \in applied

\* what a step of process p, of the queue or of the clock may do
LocalStep(p) ==
    /\ UNCHANGED <<code, applied, credit>>
    /\ expired' \in SUBSET Codes /\ active' \in SUBSET Users /\ retries' \in 0..MaxRetries
    /\ RowStep \/ UNCHANGED row
    /\ StatusStep \/ UNCHANGED redemption
    /\ \/ ProcStep(p) /\ (calls' = calls \/ calls' = Abandoned(p))
       \/ UNCHANGED <<proc, calls>>

\* Abandoning the calls of p keeps every other process's call.
LEMMA AbandonedCalls ==
  ASSUME IInv, NEW p \in Procs
  PROVE  /\ Abandoned(p) \in SUBSET CallRecord
         /\ \A m \in Abandoned(p) : m.key = m.code /\ m.user = redemption[m.code].user
         /\ \A m \in calls : m.caller # p => m \in Abandoned(p)
  <1>1. ASSUME NEW m \in calls
        PROVE  [m EXCEPT !.caller = Nobody] \in CallRecord
    BY DEF IInv, TypeOK, CallRecord
  <1>2. ASSUME NEW m \in calls
        PROVE  LET n == [m EXCEPT !.caller = Nobody]
               IN  n.key = n.code /\ n.user = redemption[n.code].user
    BY DEF IInv, TypeOK, CallRecord, CallsGood
  <1> QED
    BY <1>1, <1>2 DEF Abandoned, IInv, TypeOK, CallsGood

\* A status update keeps the owner of every code.
LEMMA StatusKeepsOwner ==
  ASSUME IInv, StatusStep \/ UNCHANGED redemption
  PROVE  /\ redemption' \in [Codes -> Redemption]
         /\ \A c \in Codes : redemption'[c].user = redemption[c].user
         /\ \A c \in Codes : redemption'[c].status = "none" <=> ~Redeemed(c)
         /\ \A c \in Codes : redemption'[c].status = "synced" => c \in applied
  <1>1. CASE UNCHANGED redemption
    BY <1>1 DEF IInv, TypeOK, RowsGood
  <1>2. CASE StatusStep
    BY <1>2 DEF StatusStep, SetStatus, IInv, TypeOK, Redemption, RowsGood
  <1> QED
    BY <1>1, <1>2

\* Such a step keeps the invariant.
LEMMA LocalStepKeeps ==
  ASSUME IInv, NEW p, LocalStep(p)
  PROVE  IInv'
  <1>1. /\ row' \in [Codes -> Row]
        /\ \A c \in Codes : row'[c].status # "absent" => Redeemed(c)
        /\ \A c \in Codes : row'[c].status = "succeeded" => c \in applied
    BY DEF LocalStep, RowStep, IInv, TypeOK, RowsGood
  <1>2. \A c \in Codes : Redeemed(c)' <=> Redeemed(c)
    BY StatusKeepsOwner DEF LocalStep, Redeemed
  <1>3. /\ proc' \in [Procs -> Proc] /\ calls' \in SUBSET CallRecord
        /\ \A m \in calls' : m.key = m.code /\ m.user = redemption[m.code].user
    <2>1. CASE UNCHANGED <<proc, calls>>
      BY <2>1 DEF IInv, TypeOK, CallsGood
    <2>2. CASE ProcStep(p) /\ (calls' = calls \/ calls' = Abandoned(p))
      BY <2>2, AbandonedCalls DEF ProcStep, IInv, TypeOK, CallsGood
    <2> QED
      BY <2>1, <2>2 DEF LocalStep
  <1>4. TypeOK'
    BY <1>1, <1>3, StatusKeepsOwner DEF LocalStep, IInv, TypeOK
  <1>5. RowsGood'
    BY <1>1, <1>2, StatusKeepsOwner DEF LocalStep, IInv, RowsGood
  <1>6. CallsGood'
    <2>1. \A m \in calls' : m.code \in Codes
      BY <1>3 DEF CallRecord
    <2> QED
      BY <1>3, <2>1, StatusKeepsOwner DEF LocalStep, CallsGood
  <1>7. Credits'
    BY StatusKeepsOwner DEF LocalStep, IInv, Credits
  <1>8. ProcsGood'
    <2> SUFFICES ASSUME NEW q \in Procs, proc'[q].pc # "idle"
                 PROVE  /\ proc'[q].code \in Codes /\ Redeemed(proc[q].code)'
                        /\ proc'[q].pc \in Paid => proc'[q].code \in applied'
                        /\ proc'[q].pc = "calling" /\ Call(q)' \notin calls'
                             => proc'[q].code \in applied'
      BY DEF ProcsGood
    <2>1. CASE proc'[q] = proc[q] /\ (calls' = calls \/ (calls' = Abandoned(p) /\ q # p /\ p \in Procs))
      <3>1. proc[q].code \in Codes /\ Redeemed(proc[q].code)
        BY <2>1 DEF IInv, ProcsGood
      <3>2. Call(q)' = Call(q) /\ Call(q).caller = q
        BY <2>1, <3>1, StatusKeepsOwner DEF LocalStep, Call, IdempotencyKey
      <3>3. Call(q) \in calls => Call(q) \in calls'
        BY <2>1, <3>2, AbandonedCalls
      <3> QED
        BY <1>2, <2>1, <3>1, <3>2, <3>3 DEF LocalStep, IInv, ProcsGood
    <2>2. CASE ProcStep(p) /\ q = p
      BY <1>2, <2>2 DEF ProcStep, LocalStep, IInv, TypeOK
    <2> QED
      BY <2>1, <2>2 DEF LocalStep, ProcStep, IInv, TypeOK
  <1> QED
    BY <1>4, <1>5, <1>6, <1>7, <1>8 DEF IInv

-----------------------------------------------------------------------------
\* A process that moves on, fails or ends makes a ProcStep.
LEMMA ProcMoves ==
  ASSUME IInv, NEW p \in Procs, ~At(p, "idle")
  PROVE  /\ \A pc \in PC \ {"idle", "calling"} :
              Goto(p, pc) /\ (pc \in Paid => proc[p].code \in applied) => ProcStep(p)
         /\ \A pc \in PC \ ({"idle", "calling"} \cup Paid), b \in BOOLEAN :
              Failing(p, pc, b) => ProcStep(p)
         /\ Leave(p) => ProcStep(p)
  <1>1. proc[p] \in Proc /\ proc[p].code \in Codes /\ Redeemed(proc[p].code)
    BY DEF IInv, TypeOK, ProcsGood, At
  <1>2. ASSUME NEW pc \in PC \ {"idle", "calling"}, Goto(p, pc),
               pc \in Paid => proc[p].code \in applied
        PROVE  ProcStep(p)
    <2> DEFINE x == [proc[p] EXCEPT !.pc = pc]
    <2>1. x \in Proc /\ x.code = proc[p].code /\ x.pc = pc
      BY <1>1 DEF Proc
    <2>2. proc' = [proc EXCEPT ![p] = x]
      BY <1>2 DEF Goto, IInv, TypeOK
    <2> HIDE DEF x
    <2> QED
      BY <1>1, <1>2, <2>1, <2>2 DEF ProcStep
  <1>3. ASSUME NEW pc \in PC \ ({"idle", "calling"} \cup Paid), NEW b \in BOOLEAN, Failing(p, pc, b)
        PROVE  ProcStep(p)
    <2> DEFINE x == [proc[p] EXCEPT !.pc = pc, !.retryable = b]
    <2>1. x \in Proc /\ x.code = proc[p].code /\ x.pc = pc
      BY <1>1 DEF Proc
    <2>2. proc' = [proc EXCEPT ![p] = x]
      BY <1>3 DEF Failing, IInv, TypeOK
    <2> HIDE DEF x
    <2> QED
      BY <1>1, <1>3, <2>1, <2>2 DEF ProcStep
  <1>4. ASSUME Leave(p) PROVE ProcStep(p)
    <2>1. Idle \in Proc /\ Idle.pc = "idle"
      BY DEF Idle, Proc, PC
    <2> QED
      BY <1>4, <2>1 DEF Leave, ProcStep
  <1> QED
    BY <1>2, <1>3, <1>4

\* A process writes the operation of a redeemed code.
LEMMA ProcWrites ==
  ASSUME IInv, NEW p \in Procs, ~At(p, "idle"), NEW x \in Row,
         x.status = "succeeded" => proc[p].code \in applied,
         row' = [row EXCEPT ![proc[p].code] = x]
  PROVE  RowStep
  BY DEF IInv, ProcsGood, At, RowStep

\* The row that MarkedFailed writes.
LEMMA MarkedFailedRow ==
  ASSUME IInv, NEW p \in Procs, ~At(p, "idle"), NEW b \in BOOLEAN
  PROVE  MarkedFailed(p, b) \in Row /\ MarkedFailed(p, b).status # "succeeded"
  <1>1. row[proc[p].code] \in Row
    BY DEF IInv, TypeOK, ProcsGood, At
  <1>2. DeadLetter(p, b) \in BOOLEAN /\ (p \in Workers /\ DeadLetter(p, b)) \in BOOLEAN
    BY DEF DeadLetter
  <1> QED
    BY <1>1, <1>2, RowTyping, RowStatuses DEF MarkedFailed

\* the variables no step of a process, the queue or the clock touches
LEMMA Frame ==
  ASSUME IInv, NEW p, UNCHANGED <<code, expired, active, applied, credit, retries>>,
         RowStep \/ UNCHANGED row, StatusStep \/ UNCHANGED redemption,
         \/ ProcStep(p) /\ (calls' = calls \/ calls' = Abandoned(p))
         \/ UNCHANGED <<proc, calls>>
  PROVE  LocalStep(p)
  BY DEF LocalStep, IInv, TypeOK

\* The steps of a process that only move it on.
LEMMA KeepsMoves ==
  ASSUME IInv, NEW p \in Procs
  PROVE  /\ WorkerLoads(p) => IInv'
         /\ CallAnswered(p) => IInv'
         /\ StatementFails(p) => IInv'
         /\ Vanishes(p) => IInv'
         /\ \A b \in BOOLEAN :
              (WorkerLoadFails(p, b) \/ SyncFails(p, b) \/ MarkSyncedFails(p, b)) => IInv'
  <1>1. ASSUME WorkerLoads(p) PROVE IInv'
    <2>1. proc[p].pc = "loading" /\ proc[p].code \in Codes
      BY <1>1 DEF WorkerLoads, At, IInv, ProcsGood
    <2>2. ProcStep(p)
      BY <1>1, <2>1, ProcMoves DEF WorkerLoads, At, PC, Paid, IInv, RowsGood
    <2> QED
      BY <1>1, <2>2, Frame, LocalStepKeeps DEF WorkerLoads, local, remote
  <1>2. ASSUME CallAnswered(p) PROVE IInv'
    <2>1. proc[p].code \in applied
      BY <1>2 DEF CallAnswered, At, IInv, ProcsGood
    <2>2. ProcStep(p)
      BY <1>2, <2>1, ProcMoves DEF CallAnswered, At, PC, Paid
    <2> QED
      BY <1>2, <2>2, Frame, LocalStepKeeps DEF CallAnswered, local, remote
  <1>3. ASSUME StatementFails(p) PROVE IInv'
    <2>1. ProcStep(p)
      BY <1>3, ProcMoves DEF StatementFails, At, PC, Paid
    <2> QED
      BY <1>3, <2>1, Frame, LocalStepKeeps DEF StatementFails, local, remote
  <1>4. ASSUME Vanishes(p) PROVE IInv'
    <2>1. ProcStep(p)
      BY <1>4, ProcMoves DEF Vanishes
    <2> QED
      BY <1>4, <2>1, Frame, LocalStepKeeps DEF Vanishes, local, remote
  <1>5. ASSUME NEW b \in BOOLEAN, WorkerLoadFails(p, b) PROVE IInv'
    <2>1. ProcStep(p)
      BY <1>5, ProcMoves DEF WorkerLoadFails, At, PC, Paid
    <2> QED
      BY <1>5, <2>1, Frame, LocalStepKeeps DEF WorkerLoadFails, local, remote
  <1>6. ASSUME NEW b \in BOOLEAN, SyncFails(p, b) PROVE IInv'
    <2>1. FirstMark(p) \in {"status", "count", "mark"}
      BY DEF FirstMark
    <2>2. ProcStep(p)
      BY <1>6, <2>1, ProcMoves DEF SyncFails, At, PC, Paid
    <2> QED
      BY <1>6, <2>2, Frame, LocalStepKeeps DEF SyncFails, local, remote
  <1>7. ASSUME NEW b \in BOOLEAN, MarkSyncedFails(p, b) PROVE IInv'
    <2>1. ProcStep(p)
      BY <1>7, ProcMoves DEF MarkSyncedFails, At, PC, Paid
    <2> QED
      BY <1>7, <2>1, Frame, LocalStepKeeps DEF MarkSyncedFails, local, remote
  <1> QED
    BY <1>1, <1>2, <1>3, <1>4, <1>5, <1>6, <1>7

\* The steps of a process that write the redemption.
LEMMA KeepsStatusWrites ==
  ASSUME IInv, NEW p \in Procs,
         MarkSynced(p) \/ WorkerMarksRedemption(p) \/ HandlerMarksRedemption(p)
  PROVE  IInv'
  <1>1. /\ ~At(p, "idle") /\ proc[p].code \in Codes /\ Redeemed(proc[p].code)
        /\ At(p, "answered") => proc[p].code \in applied
    BY DEF MarkSynced, WorkerMarksRedemption, HandlerMarksRedemption, At, IInv, ProcsGood, Paid
  <1>2. StatusStep
    BY <1>1 DEF MarkSynced, WorkerMarksRedemption, HandlerMarksRedemption, StatusStep
  <1>3. ProcStep(p)
    BY <1>1, ProcMoves DEF MarkSynced, WorkerMarksRedemption, HandlerMarksRedemption, PC, Paid
  <1> QED
    BY <1>2, <1>3, Frame, LocalStepKeeps
    DEF MarkSynced, WorkerMarksRedemption, HandlerMarksRedemption, remote

\* The steps of a process that write the operation.
LEMMA KeepsRowWrites ==
  ASSUME IInv, NEW p \in Procs
  PROVE  /\ AdminTakes(p) => IInv'
         /\ MarkOperationSucceeded(p) => IInv'
         /\ RequestKeyFails(p) => IInv'
         /\ RequestMarksKey(p) => IInv'
         /\ RequestCounts(p) => IInv'
         /\ MarkOperationFailed(p) => IInv'
         /\ \A b \in BOOLEAN : KeyFails(p, b) => IInv'
  <1> DEFINE old == row[proc[p].code]
  <1>0. ~At(p, "idle") => old \in Row /\ (old.status = "succeeded" => proc[p].code \in applied)
    BY DEF At, IInv, TypeOK, ProcsGood, RowsGood
  <1>8. ~At(p, "idle") =>
          /\ AttemptCounted(old) \in Row
          /\ AttemptCounted(old).status = "succeeded" => proc[p].code \in applied
    BY <1>0, RowTyping, RowStatuses
  <1>1. ASSUME AdminTakes(p) PROVE IInv'
    <2>1. ~At(p, "idle") /\ ProcStep(p)
      BY <1>1, ProcMoves DEF AdminTakes, At, PC, Paid
    <2>2. RowStep
      BY <1>0, <1>1, <2>1, RowTyping, RowStatuses, ProcWrites DEF AdminTakes
    <2> QED
      BY <1>1, <2>1, <2>2, Frame, LocalStepKeeps DEF AdminTakes, remote
  <1>2. ASSUME MarkOperationSucceeded(p) PROVE IInv'
    <2>1. ~At(p, "idle") /\ ProcStep(p) /\ proc[p].code \in applied
      BY <1>2, ProcMoves DEF MarkOperationSucceeded, At, IInv, ProcsGood, Paid
    <2>2. RowStep
      BY <1>0, <1>2, <2>1, RowTyping, RowStatuses, ProcWrites DEF MarkOperationSucceeded
    <2> QED
      BY <1>2, <2>1, <2>2, Frame, LocalStepKeeps DEF MarkOperationSucceeded, remote
  <1>3. ASSUME RequestKeyFails(p) PROVE IInv'
    <2>1. ~At(p, "idle") /\ ProcStep(p)
      BY <1>3, ProcMoves DEF RequestKeyFails, At, PC, Paid, IInv, ProcsGood
    <2>2. RowStep \/ UNCHANGED row
      BY <1>3, <1>8, <2>1, ProcWrites DEF RequestKeyFails
    <2> QED
      BY <1>3, <2>1, <2>2, Frame, LocalStepKeeps DEF RequestKeyFails, remote
  <1>4. ASSUME RequestMarksKey(p) PROVE IInv'
    <2>1. ~At(p, "idle") /\ ProcStep(p)
      BY <1>4, ProcMoves DEF RequestMarksKey, At
    <2>2. RowStep
      <3>1. /\ MarkFailed(old, TRUE, FALSE, FALSE) \in Row
            /\ MarkFailed(old, TRUE, FALSE, FALSE).status # "succeeded"
        BY <1>0, <2>1, RowTyping, RowStatuses
      <3> QED
        BY <1>4, <2>1, <3>1, ProcWrites DEF RequestMarksKey
    <2> QED
      BY <1>4, <2>1, <2>2, Frame, LocalStepKeeps DEF RequestMarksKey, remote
  <1>5. ASSUME RequestCounts(p) PROVE IInv'
    <2>1. ~At(p, "idle") /\ ProcStep(p)
      BY <1>5, ProcMoves DEF RequestCounts, At, PC, Paid
    <2>2. RowStep
      BY <1>5, <1>8, <2>1, ProcWrites DEF RequestCounts
    <2> QED
      BY <1>5, <2>1, <2>2, Frame, LocalStepKeeps DEF RequestCounts, remote
  <1>6. ASSUME MarkOperationFailed(p) PROVE IInv'
    <2>1. ~At(p, "idle") /\ ProcStep(p)
      BY <1>6, ProcMoves DEF MarkOperationFailed, At, PC, Paid
    <2>2. RowStep
      <3>1. proc[p].retryable \in BOOLEAN
        BY DEF IInv, TypeOK, Proc
      <3> QED
        BY <1>6, <2>1, <3>1, MarkedFailedRow, ProcWrites DEF MarkOperationFailed
    <2> QED
      BY <1>6, <2>1, <2>2, Frame, LocalStepKeeps DEF MarkOperationFailed, remote
  <1>7. ASSUME NEW b \in BOOLEAN, KeyFails(p, b) PROVE IInv'
    <2>1. ~At(p, "idle") /\ ProcStep(p)
      BY <1>7, ProcMoves DEF KeyFails, At
    <2>2. RowStep
      BY <1>7, <2>1, MarkedFailedRow, ProcWrites DEF KeyFails
    <2> QED
      BY <1>7, <2>1, <2>2, Frame, LocalStepKeeps DEF KeyFails, remote
  <1> QED
    BY <1>1, <1>2, <1>3, <1>4, <1>5, <1>6, <1>7

\* The queue, the clock, the users and the processes that start on a code.
LEMMA KeepsQueue ==
  ASSUME IInv, NEW c \in Codes, Queue(c) PROVE IInv'
  <1> DEFINE Wrote(x) == row' = [row EXCEPT ![c] = x] /\ x \in Row
                         /\ row[c].status # "absent" /\ x.status # "succeeded"
  <1>0. row[c] \in Row
    BY DEF IInv, TypeOK
  <1>1. CASE Requeue(c)
    <2>1. Wrote(Requeued(row[c]))
      BY <1>0, <1>1, RowTyping, RowStatuses DEF Requeue, Stale
    <2>2. RowStep
      BY <2>1 DEF RowStep, IInv, RowsGood
    <2> QED
      BY <1>1, <2>2, Frame, LocalStepKeeps DEF Requeue, queueRest, remote
  <1>2. CASE Retry(c)
    <2>1. Wrote(Retried(row[c]))
      BY <1>0, <1>2, RowTyping, RowStatuses DEF Retry, CanRetry
    <2>2. RowStep
      BY <2>1 DEF RowStep, IInv, RowsGood
    <2>3. retries' \in 0..MaxRetries
      BY <1>2, ProcessAssumption DEF Retry, IInv, TypeOK
    <2> QED
      BY <1>2, <2>2, <2>3, LocalStepKeeps DEF Retry, queueRest, remote, LocalStep, IInv, TypeOK
  <1>3. CASE ComesDue(c)
    <2>1. Wrote([row[c] EXCEPT !.due = TRUE])
      BY <1>0, <1>3 DEF ComesDue, IInv, TypeOK, Row
    <2>2. RowStep
      BY <2>1 DEF RowStep, IInv, RowsGood
    <2> QED
      BY <1>3, <2>2, Frame, LocalStepKeeps DEF ComesDue, queueRest, remote
  <1>4. CASE LockExpires(c)
    <2> DEFINE x == [row[c] EXCEPT !.lock = "stale"]
    <2>1. x \in Row /\ x.status = row[c].status /\ row' = [row EXCEPT ![c] = x]
      BY <1>0, <1>4 DEF LockExpires, IInv, TypeOK, Row
    <2> HIDE DEF x
    <2>2. RowStep
      BY <2>1 DEF RowStep, IInv, RowsGood
    <2> QED
      BY <1>4, <2>2, Frame, LocalStepKeeps DEF LockExpires, queueRest, remote
  <1> QED
    BY <1>1, <1>2, <1>3, <1>4 DEF Queue

\* A worker or an administrator starts on a redemption that exists.
LEMMA KeepsStarts ==
  ASSUME IInv, NEW c \in Codes, NEW p \in Procs, ClaimNext(p, c) \/ AdminLoads(p, c)
  PROVE  IInv'
  <1>1. CASE ClaimNext(p, c)
    <2>1. row[c] \in Row /\ Redeemed(c)
      BY <1>1 DEF ClaimNext, Claimable, IInv, TypeOK, RowsGood
    <2>2. RowStep
      BY <1>1, <2>1, RowTyping, RowStatuses DEF ClaimNext, RowStep
    <2> DEFINE x == [Idle EXCEPT !.pc = "loading", !.code = c,
                              !.attempts = row[c].attempts + 1, !.max = row[c].max]
    <2>3. x \in Proc /\ x.pc = "loading" /\ x.code = c
      <3>1. row[c].attempts + 1 \in Nat /\ row[c].max \in Nat
        BY <2>1 DEF Row
      <3>2. ASSUME NEW n \in Nat, NEW k \in Nat
            PROVE  LET y == [Idle EXCEPT !.pc = "loading", !.code = c, !.attempts = n, !.max = k]
                   IN  y \in Proc /\ y.pc = "loading" /\ y.code = c
        BY DEF Idle, Proc, PC
      <3> QED
        BY <3>1, <3>2
    <2>4. proc' = [proc EXCEPT ![p] = x]
      BY <1>1 DEF ClaimNext
    <2> HIDE DEF x
    <2>5. ProcStep(p)
      BY <2>1, <2>3, <2>4 DEF ProcStep, Paid
    <2> QED
      BY <1>1, <2>2, <2>5, Frame, LocalStepKeeps DEF ClaimNext, remote
  <1>2. CASE AdminLoads(p, c)
    <2>1. Redeemed(c)
      BY <1>2 DEF AdminLoads, IInv, RowsGood
    <2> DEFINE x == [Idle EXCEPT !.pc = "taking", !.code = c]
    <2>2. x \in Proc /\ x.pc = "taking" /\ x.code = c
      BY DEF Idle, Proc, PC
    <2>3. proc' = [proc EXCEPT ![p] = x]
      BY <1>2 DEF AdminLoads
    <2> HIDE DEF x
    <2>4. ProcStep(p)
      BY <2>1, <2>2, <2>3 DEF ProcStep, Paid
    <2>5. retries' \in 0..MaxRetries
      BY <1>2, ProcessAssumption DEF AdminLoads, IInv, TypeOK
    <2> QED
      BY <1>2, <2>4, <2>5, LocalStepKeeps DEF AdminLoads, local, remote, LocalStep, IInv, TypeOK
  <1> QED
    BY <1>1, <1>2

\* Expiry and disabling of a code or a user.
LEMMA KeepsCatalogue ==
  ASSUME IInv
  PROVE  /\ \A c \in Codes : CodeExpires(c) \/ DisableCode(c) => IInv'
         /\ \A u \in Users : SetUserStatus(u) => IInv'
  <1>1. ASSUME NEW c \in Codes, CodeExpires(c) PROVE IInv'
    <2>1. LocalStep(c)
      BY <1>1 DEF CodeExpires, LocalStep, remote, IInv, TypeOK
    <2> QED
      BY <2>1, LocalStepKeeps
  <1>2. ASSUME NEW u \in Users, SetUserStatus(u) PROVE IInv'
    <2>1. LocalStep(u)
      BY <1>2 DEF SetUserStatus, LocalStep, remote, IInv, TypeOK
    <2> QED
      BY <2>1, LocalStepKeeps
  <1>3. ASSUME NEW c \in Codes, DisableCode(c) PROVE IInv'
    <2>1. TypeOK'
      BY <1>3 DEF DisableCode, remote, IInv, TypeOK
    <2>2. RowsGood'
      BY <1>3 DEF DisableCode, remote, IInv, TypeOK, RowsGood, Redeemed
    <2>3. ProcsGood' /\ CallsGood' /\ Credits'
      BY <1>3 DEF DisableCode, remote, IInv, ProcsGood, CallsGood, Credits, Redeemed, Call,
                  IdempotencyKey
    <2> QED
      BY <2>1, <2>2, <2>3 DEF IInv
  <1> QED
    BY <1>1, <1>2, <1>3

\* Redeeming gives an owner to a code that nobody works on yet.
LEMMA KeepsMarkRedeemedLocally ==
  ASSUME IInv, NEW r \in Requests, NEW u \in Users, NEW c \in Codes, MarkRedeemedLocally(r, u, c)
  PROVE  IInv'
  <1> USE DEF MarkRedeemedLocally
  <1>1. ~Redeemed(c) /\ c \notin applied /\ row[c] \in Row /\ row[c].status = "absent" /\ r \in Procs
    BY DEF IInv, TypeOK, RowsGood, Procs
  <1> DEFINE x == CreateRedemptionSync(row[c])
             y == [Idle EXCEPT !.pc = "ready", !.code = c]
             z == [user |-> u, status |-> "pending_gateway"]
  <1>2. x \in Row /\ x.status = "pending"
    BY <1>1, RowTyping, RowStatuses
  <1>3. y \in Proc /\ y.pc = "ready" /\ y.code = c
    BY DEF Idle, Proc, PC
  <1>4. z \in Redemption /\ z.user = u /\ z.status = "pending_gateway"
    BY DEF Redemption
  <1>5. /\ row' = [row EXCEPT ![c] = x] /\ proc' = [proc EXCEPT ![r] = y]
        /\ redemption' = [redemption EXCEPT ![c] = z] /\ code' = [code EXCEPT ![c] = "used"]
        /\ UNCHANGED <<expired, active, calls, applied, credit, retries>>
    BY DEF remote
  <1> HIDE DEF x, y, z, MarkRedeemedLocally
  <1>6. TypeOK'
    BY <1>1, <1>2, <1>3, <1>4, <1>5 DEF IInv, TypeOK
  <1>7. RowsGood'
    BY <1>1, <1>2, <1>4, <1>5 DEF IInv, TypeOK, RowsGood, Redeemed
  <1>8. \A d \in Codes : Redeemed(d) => redemption'[d] = redemption[d]
    BY <1>1, <1>5 DEF IInv, TypeOK
  <1>9. CallsGood'
    <2>1. \A m \in calls : Redeemed(m.code) /\ m.code \in Codes
      BY DEF IInv, TypeOK, CallRecord, CallsGood, Redeemed
    <2> QED
      BY <1>5, <1>8, <2>1 DEF IInv, CallsGood
  <1>10. Credits'
    BY <1>1, <1>4, <1>5 DEF IInv, TypeOK, Credits, RowsGood, Redeemed
  <1>11. ProcsGood'
    <2> SUFFICES ASSUME NEW q \in Procs, proc'[q].pc # "idle"
                 PROVE  /\ proc'[q].code \in Codes /\ Redeemed(proc[q].code)'
                        /\ proc'[q].pc \in Paid => proc'[q].code \in applied'
                        /\ proc'[q].pc = "calling" /\ Call(q)' \notin calls'
                             => proc'[q].code \in applied'
      BY DEF ProcsGood
    <2>1. CASE q = r
      BY <1>1, <1>3, <1>4, <1>5, <2>1 DEF IInv, TypeOK, Paid, Redeemed
    <2>2. CASE q # r
      <3>1. proc'[q] = proc[q] /\ proc[q].code \in Codes /\ Redeemed(proc[q].code)
        BY <1>5, <2>2 DEF IInv, TypeOK, ProcsGood
      <3>2. Call(q)' = Call(q)
        BY <1>8, <3>1 DEF Call, IdempotencyKey
      <3> QED
        BY <1>5, <1>8, <3>1, <3>2 DEF IInv, ProcsGood, Redeemed
    <2> QED
      BY <2>1, <2>2
  <1> QED
    BY <1>6, <1>7, <1>9, <1>10, <1>11 DEF IInv

\* A call leaves with the key and the owner of its code.
LEMMA KeepsSendCall ==
  ASSUME IInv, NEW p \in Procs, SendCall(p) PROVE IInv'
  <1>1. proc[p].code \in Codes /\ Redeemed(proc[p].code) /\ proc[p] \in Proc
    BY DEF SendCall, At, IInv, TypeOK, ProcsGood
  <1>2. /\ Call(p) \in CallRecord /\ Call(p).key = Call(p).code
        /\ Call(p).user = redemption[Call(p).code].user
    BY <1>1 DEF Call, IdempotencyKey, CallRecord, Redeemed
  <1> DEFINE x == [proc[p] EXCEPT !.pc = "calling"]
  <1>3. x \in Proc /\ x.pc = "calling" /\ x.code = proc[p].code
    BY <1>1 DEF Proc, PC
  <1>4. /\ proc' = [proc EXCEPT ![p] = x] /\ calls' = calls \cup {Call(p)}
        /\ UNCHANGED <<code, redemption, row, expired, active, applied, credit, retries>>
    BY DEF SendCall, Goto, IInv, TypeOK, local, remote
  <1> HIDE DEF x
  <1>5. \A q \in Procs : Call(q)' = Call(q)
    BY <1>3, <1>4 DEF Call, IdempotencyKey, IInv, TypeOK
  <1>6. TypeOK'
    BY <1>2, <1>3, <1>4 DEF IInv, TypeOK
  <1>7. RowsGood' /\ Credits' /\ CallsGood'
    BY <1>2, <1>4 DEF IInv, RowsGood, Redeemed, Credits, CallsGood
  <1>8. ProcsGood'
    BY <1>1, <1>3, <1>4, <1>5 DEF IInv, TypeOK, ProcsGood, Redeemed, Paid
  <1> QED
    BY <1>6, <1>7, <1>8 DEF IInv

\* Sub2API credits the owner of the code, the first time it sees the key.
LEMMA KeepsRemoteApplies ==
  ASSUME IInv, NEW m \in calls, RemoteApplies(m) PROVE IInv'
  <1>1. /\ m \in CallRecord /\ m.key = m.code /\ m.code \in Codes /\ m.user \in Users
        /\ redemption[m.code].user = m.user
    BY DEF IInv, TypeOK, CallRecord, CallsGood
  <1>2. \A q \in Procs : Call(q)' = Call(q)
    BY DEF RemoteApplies, local, Call, IdempotencyKey
  <1>3. Credits' /\ credit' \in [Users -> [Codes -> Nat]]
    <2>1. CASE m.key \in applied
      BY <1>1, <2>1 DEF RemoteApplies, local, IInv, TypeOK, Credits
    <2>2. CASE m.key \notin applied
      <3>1. credit[m.user][m.code] = 0
        BY <1>1, <2>2 DEF IInv, Credits
      <3>2. credit' = [credit EXCEPT ![m.user] = [credit[m.user] EXCEPT ![m.code] = 1]]
        BY <1>1, <2>2, <3>1 DEF RemoteApplies, IInv, TypeOK
      <3>3. credit' \in [Users -> [Codes -> Nat]]
        BY <1>1, <3>2 DEF IInv, TypeOK
      <3>4. ASSUME NEW u \in Users, NEW c \in Codes
            PROVE  credit'[u][c] = IF c \in applied' /\ redemption'[c].user = u THEN 1 ELSE 0
        <4>1. CASE c = m.code /\ u = m.user
          BY <1>1, <3>2, <4>1 DEF RemoteApplies, local, IInv, TypeOK
        <4>2. CASE ~(c = m.code /\ u = m.user)
          <5>1. credit'[u][c] = credit[u][c]
            BY <1>1, <3>2, <4>2 DEF IInv, TypeOK
          <5> QED
            BY <1>1, <4>2, <5>1 DEF RemoteApplies, local, IInv, Credits
        <4> QED
          BY <4>1, <4>2
      <3> QED
        BY <3>3, <3>4 DEF Credits
    <2> QED
      BY <2>1, <2>2
  <1>4. TypeOK'
    BY <1>1, <1>3 DEF RemoteApplies, local, IInv, TypeOK
  <1>5. RowsGood' /\ CallsGood'
    BY <1>1 DEF RemoteApplies, local, IInv, RowsGood, CallsGood, Redeemed
  <1>6. ProcsGood'
    <2> SUFFICES ASSUME NEW q \in Procs, proc[q].pc # "idle"
                 PROVE  /\ proc[q].code \in Codes /\ Redeemed(proc[q].code)'
                        /\ proc[q].pc \in Paid => proc[q].code \in applied'
                        /\ proc[q].pc = "calling" /\ Call(q) \notin calls'
                             => proc[q].code \in applied'
      BY <1>2 DEF RemoteApplies, ProcsGood
    <2>1. Call(q) = m => m.key = proc[q].code
      BY DEF Call, IdempotencyKey
    <2> QED
      BY <2>1 DEF RemoteApplies, local, IInv, ProcsGood, Redeemed
  <1> QED
    BY <1>3, <1>4, <1>5, <1>6 DEF IInv

\* Only a call without a caller is lost, so nobody who waits is affected.
LEMMA KeepsRemoteLoses ==
  ASSUME IInv, NEW m \in calls, RemoteLoses(m) PROVE IInv'
  <1>1. \A q \in Procs : Call(q)' = Call(q) /\ Call(q) # m
    BY ProcessAssumption DEF RemoteLoses, local, Call, IdempotencyKey, Procs
  <1>2. TypeOK' /\ RowsGood' /\ CallsGood' /\ Credits'
    BY DEF RemoteLoses, local, remote, IInv, TypeOK, RowsGood, CallsGood, Credits, Redeemed
  <1>3. ProcsGood'
    BY <1>1 DEF RemoteLoses, local, remote, IInv, ProcsGood, Redeemed
  <1> QED
    BY <1>2, <1>3 DEF IInv

-----------------------------------------------------------------------------
\* Every step keeps the invariant.
LEMMA Inductive == IInv /\ [Next]_vars => IInv'
  <1> SUFFICES ASSUME IInv, [Next]_vars PROVE IInv'
    OBVIOUS
  <1>1. CASE UNCHANGED vars
    BY <1>1 DEF vars, IInv, TypeOK, RowsGood, ProcsGood, CallsGood, Credits, Redeemed, Call,
                IdempotencyKey
  <1>2. ASSUME NEW c \in Codes, Starts(c) PROVE IInv'
    BY <1>2, KeepsMarkRedeemedLocally, KeepsStarts DEF Starts, Procs
  <1>3. ASSUME NEW p \in Procs, Progress(p) PROVE IInv'
    BY <1>3, KeepsMoves, KeepsStatusWrites, KeepsRowWrites, KeepsSendCall DEF Progress
  <1>4. ASSUME NEW p \in Procs, Failure(p) PROVE IInv'
    BY <1>4, KeepsMoves, KeepsRowWrites DEF Failure
  <1> QED
    BY <1>1, <1>2, <1>3, <1>4, KeepsQueue, KeepsCatalogue, KeepsRemoteApplies, KeepsRemoteLoses
    DEF Next

\* The strengthened invariant holds in every reachable state.
THEOREM Invariance == Spec => []IInv
  <1>1. Init => IInv
    <2> SUFFICES ASSUME Init PROVE IInv
      OBVIOUS
    <2>1. TypeOK
      <3>1. AbsentRow \in Row /\ Idle \in Proc /\ NoRedemption \in Redemption
        BY RowAssumption DEF AbsentRow, Row, Statuses, Idle, Proc, PC, NoRedemption, Redemption
      <3> QED
        BY <3>1, ProcessAssumption DEF Init, TypeOK
    <2>2. RowsGood
      BY ProcessAssumption DEF Init, RowsGood, Redeemed, NoRedemption, AbsentRow
    <2>3. ProcsGood /\ CallsGood /\ Credits
      BY DEF Init, ProcsGood, CallsGood, Credits, Idle
    <2> QED
      BY <2>1, <2>2, <2>3 DEF IInv
  <1> QED
    BY <1>1, Inductive, PTL DEF Spec

\* The rows, the processes and the calls stay well-typed.
THEOREM TypeCorrect == Spec => []TypeOK
  BY Invariance, PTL DEF IInv

\* A code is credited at most once and only to the user who redeemed it,
\* whatever the request, the workers and the administrators repeat.
THEOREM NoDoubleCredit == Spec => []CreditedOnceToOwner
  <1>1. IInv => CreditedOnceToOwner
    BY DEF IInv, Credits, CreditedOnceToOwner
  <1> QED
    BY <1>1, Invariance, PTL

\* Sub2API has credited every code whose key it has seen.
LEMMA AppliedIsCredited == IInv => \A c \in Codes : c \in applied => Credited(c)
  BY DEF IInv, RowsGood, Redeemed, Credits, Credited

\* A redemption that UpdateRedemptionStatus shows as synced, and an operation that MarkSucceeded
\* shows as succeeded, was credited.
THEOREM ShownIsTrue == Spec => []ShownMeansCredited
  <1>1. IInv => ShownMeansCredited
    BY AppliedIsCredited DEF IInv, RowsGood, ShownMeansCredited
  <1> QED
    BY <1>1, Invariance, PTL

-----------------------------------------------------------------------------
(***************************************************************************)
(* Redemption implements its promise.                                      *)
(***************************************************************************)
\* what the promise sees
owners == [c \in Codes |-> redemption[c].user]
closedCodes == {c \in Codes : code[c] = "disabled"}

\* Redeeming takes an open code.
LEMMA RedeemTakes ==
  ASSUME IInv, NEW r \in Requests, NEW u \in Users, NEW c \in Codes, MarkRedeemedLocally(r, u, c)
  PROVE  P!Take(c, u)
  <1>1. owners[c] = Nobody /\ c \notin closedCodes
    BY DEF MarkRedeemedLocally, NoRedemption, owners, closedCodes
  <1>2. owners' = [owners EXCEPT ![c] = u]
    BY DEF MarkRedeemedLocally, owners, IInv, TypeOK
  <1>3. closedCodes' = closedCodes /\ credit' = credit
    BY DEF MarkRedeemedLocally, closedCodes, remote, IInv, TypeOK
  <1> QED
    BY <1>1, <1>2, <1>3 DEF P!Take, owners, closedCodes

\* Disabling closes a code without an owner.
LEMMA DisableCloses ==
  ASSUME IInv, NEW c \in Codes, DisableCode(c)
  PROVE  P!Close(c)
  <1>1. owners[c] = Nobody
    BY DEF DisableCode, owners, IInv, TypeOK, Redemption, RowsGood, Redeemed
  <1>2. closedCodes' = closedCodes \cup {c}
    BY DEF DisableCode, closedCodes, IInv, TypeOK
  <1>3. owners' = owners /\ credit' = credit
    BY DEF DisableCode, owners, remote
  <1> QED
    BY <1>1, <1>2, <1>3 DEF P!Close, owners, closedCodes

\* A call that Sub2API takes pays the owner, or changes nothing.
LEMMA ApplyPays ==
  ASSUME IInv, NEW m \in calls, RemoteApplies(m)
  PROVE  P!Pay(m.code, m.user) \/ UNCHANGED P!promiseVars
  <1>1. /\ m.key = m.code /\ m.code \in Codes /\ m.user \in Users
        /\ redemption[m.code].user = m.user
    BY DEF IInv, TypeOK, CallRecord, CallsGood
  <1>2. owners' = owners /\ closedCodes' = closedCodes
    BY DEF RemoteApplies, local, owners, closedCodes
  <1>3. CASE m.key \in applied
    BY <1>2, <1>3 DEF RemoteApplies, P!promiseVars, owners, closedCodes
  <1>4. CASE m.key \notin applied
    <2>1. credit[m.user][m.code] = 0
      BY <1>1, <1>4 DEF IInv, Credits
    <2>2. credit' = [credit EXCEPT ![m.user][m.code] = 1]
      BY <1>1, <1>4, <2>1 DEF RemoteApplies, IInv, TypeOK
    <2> QED
      BY <1>1, <1>2, <2>1, <2>2 DEF P!Pay, owners, closedCodes
  <1> QED
    BY <1>3, <1>4

\* No other step shows: it leaves every owner, code and balance alone.
LEMMA OtherStepsStutter ==
  ASSUME IInv, [Next]_vars,
         \A r \in Requests, u \in Users, c \in Codes : ~MarkRedeemedLocally(r, u, c),
         \A c \in Codes : ~DisableCode(c), \A m \in calls : ~RemoteApplies(m)
  PROVE  UNCHANGED P!promiseVars
  <1>1. ASSUME UNCHANGED <<code, credit>>, StatusStep \/ UNCHANGED redemption
        PROVE  UNCHANGED P!promiseVars
    BY <1>1, StatusKeepsOwner DEF P!promiseVars
  <1>2. CASE UNCHANGED vars
    BY <1>1, <1>2 DEF vars
  <1>3. ASSUME NEW c \in Codes, Starts(c) PROVE UNCHANGED P!promiseVars
    BY <1>1, <1>3 DEF Starts, ClaimNext, AdminLoads, local, remote
  <1>4. ASSUME NEW c \in Codes, CodeExpires(c) \/ Queue(c) PROVE UNCHANGED P!promiseVars
    BY <1>1, <1>4 DEF CodeExpires, Queue, Requeue, Retry, ComesDue, LockExpires, queueRest, remote
  <1>5. ASSUME NEW u \in Users, SetUserStatus(u) PROVE UNCHANGED P!promiseVars
    BY <1>1, <1>5 DEF SetUserStatus, remote
  <1>6. ASSUME NEW p \in Procs, MarkSynced(p) \/ WorkerMarksRedemption(p) \/ HandlerMarksRedemption(p)
        PROVE  UNCHANGED P!promiseVars
    <2>1. /\ proc[p].code \in Codes /\ Redeemed(proc[p].code)
          /\ At(p, "answered") => proc[p].code \in applied
      BY <1>6 DEF MarkSynced, WorkerMarksRedemption, HandlerMarksRedemption, At, IInv, ProcsGood,
             Paid
    <2>2. StatusStep
      BY <1>6, <2>1 DEF MarkSynced, WorkerMarksRedemption, HandlerMarksRedemption, StatusStep
    <2> QED
      BY <1>1, <1>6, <2>2 DEF MarkSynced, WorkerMarksRedemption, HandlerMarksRedemption, remote
  <1>7. ASSUME NEW p \in Procs, Progress(p) PROVE UNCHANGED P!promiseVars
    BY <1>1, <1>6, <1>7 DEF Progress, WorkerLoads, AdminTakes, SendCall, CallAnswered,
       MarkOperationSucceeded, MarkOperationFailed, RequestCounts, RequestMarksKey, local, remote
  <1>8. ASSUME NEW p \in Procs, Failure(p) PROVE UNCHANGED P!promiseVars
    BY <1>1, <1>8 DEF Failure, RequestKeyFails, StatementFails, Vanishes, SyncFails, KeyFails,
       WorkerLoadFails, MarkSyncedFails, local, remote
  <1>9. ASSUME NEW m \in calls, RemoteLoses(m) PROVE UNCHANGED P!promiseVars
    BY <1>1, <1>9 DEF RemoteLoses, local, remote
  <1> QED
    BY <1>2, <1>3, <1>4, <1>5, <1>7, <1>8, <1>9 DEF Next

\* Redeeming, disabling and crediting, as the code does them with all their
\* retries, are the steps of RedemptionPromise and nothing else is.
THEOREM Refinement == Spec => ImplementsPromise
  <1>1. Init => P!PromiseInit
    BY DEF Init, NoRedemption, P!PromiseInit
  <1>2. IInv /\ [Next]_vars => [P!PromiseNext]_(P!promiseVars)
    <2> SUFFICES ASSUME IInv, [Next]_vars PROVE P!PromiseNext \/ UNCHANGED P!promiseVars
      OBVIOUS
    <2>1. ASSUME NEW r \in Requests, NEW u \in Users, NEW c \in Codes, MarkRedeemedLocally(r, u, c)
          PROVE  P!PromiseNext
      BY <2>1, RedeemTakes DEF P!PromiseNext
    <2>2. ASSUME NEW c \in Codes, DisableCode(c) PROVE P!PromiseNext
      BY <2>2, DisableCloses DEF P!PromiseNext
    <2>3. ASSUME NEW m \in calls, RemoteApplies(m) PROVE P!PromiseNext \/ UNCHANGED P!promiseVars
      <3>1. m.code \in Codes /\ m.user \in Users
        BY DEF IInv, TypeOK, CallRecord
      <3> QED
        BY <2>3, <3>1, ApplyPays DEF P!PromiseNext
    <2> QED
      BY <2>1, <2>2, <2>3, OtherStepsStutter
  <1> QED
    BY <1>1, <1>2, Invariance, PTL DEF Spec, ImplementsPromise, P!Promise
=============================================================================
