-------------------------- MODULE KeyRotationProofs --------------------------
(***************************************************************************)
(* The administrators' key handlers, for every set of keys, groups,        *)
(* requests and worker slots.                                              *)
(*                                                                         *)
(* The three invariants rest on one rule of the code: a key is disabled    *)
(* here before anybody touches it at Sub2API.  Targets and Jobs say so for *)
(* the requests and the workers, Rows for the operations.  Fresh says that *)
(* the key a rotation is about to store is nobody's yet, so that storing   *)
(* it revives no disabled key.                                             *)
(***************************************************************************)
EXTENDS KeyRotation, TLAPS

\* a request between creating its key and storing it
Carries(x) == x.then = "insert" /\ x.pc \notin {"idle", "account", "create"}

Fresh ==
    \A r \in Requests : Carries(req[r]) =>
        /\ req[r].new \in Keys
        /\ stored[req[r].new] = "none" /\ remote[req[r].new] = "active"
        /\ \A q \in Requests : Carries(req[q]) /\ req[q].new = req[r].new => q = r

OnIt(r, k) == req[r].pc \in {"remote", "enqueue"} /\ req[r].cur = k

Targets ==
    \A r \in Requests :
        /\ req[r].pc \in {"remote", "enqueue"}
             => req[r].cur \in Keys /\ stored[req[r].cur] = "disabled"
        /\ \A k \in req[r].todo : stored[k] # "none"
        /\ req[r].pc = "insert" => req[r].then = "insert"

Jobs ==
    \A w \in Workers :
        /\ job[w].pc # "idle" => job[w].key \in Keys /\ stored[job[w].key] = "disabled"
        /\ job[w].pc = "disabled" => remote[job[w].key] = "disabled"

Rows ==
    \A k \in Keys :
        /\ row[k].status # "absent" => stored[k] = "disabled"
        /\ row[k].status = "absent" => row[k].lock = "none"

Known == \A k \in Keys : remote[k] = "none" => stored[k] = "none"

IInv == /\ TypeOK /\ Fresh /\ Targets /\ Jobs /\ Rows /\ Known
        /\ DisabledKeysAreChased /\ SucceededMeansDisabled /\ ActiveKeysWork

-----------------------------------------------------------------------------
\* The SQL statements of module OperationRow that are run here make rows of rows.
LEMMA RowTyping ==
  ASSUME NEW x \in Row
  PROVE  /\ \A b \in BOOLEAN : CreateFailed(x, b) \in Row
         /\ Claimed(x) \in Row
         /\ Requeued(x) \in Row
         /\ MarkSucceeded(x) \in Row
         /\ \A b, due, dead \in BOOLEAN : MarkFailed(x, b, dead, due) \in Row
         /\ Retried(x) \in Row
  <1>1. x.attempts + 1 \in Nat /\ x.attempts + RetryGrant \in Nat
    BY RowAssumption DEF Row
  <1>2. (x.attempts < x.max) \in BOOLEAN
    OBVIOUS
  <1>3. AbsentRow \in Row
    BY RowAssumption DEF AbsentRow, Row
  <1> USE DEF Row, Statuses
  <1>4. ASSUME NEW b \in BOOLEAN  PROVE CreateFailed(x, b) \in Row
    BY <1>3 DEF CreateFailed, Inserted
  <1>5. Claimed(x) \in Row
    BY <1>1 DEF Claimed
  <1>6. Requeued(x) \in Row
    BY <1>2 DEF Requeued
  <1>7. MarkSucceeded(x) \in Row
    BY DEF MarkSucceeded
  <1>8. ASSUME NEW b \in BOOLEAN, NEW due \in BOOLEAN, NEW dead \in BOOLEAN
        PROVE  MarkFailed(x, b, dead, due) \in Row
    BY DEF MarkFailed
  <1>9. Retried(x) \in Row
    BY <1>1 DEF Retried
  <1>10. QED  BY <1>4, <1>5, <1>6, <1>7, <1>8, <1>9

\* The status that each of them leaves behind.
LEMMA RowStatuses ==
  ASSUME NEW x \in Row
  PROVE  /\ Claimed(x).status = "running"
         /\ Requeued(x).status \in {"failed", "dead_letter"}
         /\ MarkSucceeded(x).status = "succeeded"
         /\ \A b, due, dead \in BOOLEAN :
               MarkFailed(x, b, dead, due).status \in {"failed", "dead_letter"}
         /\ Retried(x).status = "pending"
  BY DEF Row, Claimed, Requeued, MarkSucceeded, MarkFailed, Retried

-----------------------------------------------------------------------------
(***************************************************************************)
(* Most steps disable at most one key on one side, write at most one       *)
(* operation, and move at most one request and one job.                    *)
(***************************************************************************)
StoredStep ==
    \E k \in Keys : stored[k] # "none" /\ stored' = [stored EXCEPT ![k] = "disabled"]

RemoteStep ==
    \E k \in Keys : stored[k] = "disabled" /\ remote' = [remote EXCEPT ![k] = "disabled"]

RowStep ==
    \E k \in Keys, x \in Row :
        /\ stored[k] = "disabled" /\ row' = [row EXCEPT ![k] = x]
        /\ x.status # "absent"
        /\ x.status = "succeeded" => remote[k] = "disabled"

\* a request that drops a key leaves it disabled, queued or lost
ReqStep(r) ==
    \E x \in Request :
        /\ r \in Requests /\ req' = [req EXCEPT ![r] = x]
        /\ x.pc \in {"remote", "enqueue"} => x.cur \in Keys /\ stored'[x.cur] = "disabled"
        /\ \A k \in x.todo : stored[k] # "none"
        /\ x.pc = "insert" => x.then = "insert"
        /\ Carries(x) => Carries(req[r]) /\ x.new = req[r].new
        /\ \A k \in Keys : OnIt(r, k) =>
             \/ x.pc \in {"remote", "enqueue"} /\ x.cur = k
             \/ k \in lost' \/ remote'[k] = "disabled" \/ Queued(k)'
        /\ \A k \in Keys : stored'[k] # stored[k] => x.pc = "remote" /\ x.cur = k

JobStep(w) ==
    \E x \in Job :
        /\ w \in Workers /\ job' = [job EXCEPT ![w] = x]
        /\ x.pc # "idle" => x.key \in Keys /\ stored[x.key] = "disabled"
        /\ x.pc = "disabled" => remote'[x.key] = "disabled"

Scalars ==
    /\ user' \in {"active", "disabled"}
    /\ account' \in {"active", "disabled"}
    /\ UNCHANGED group
    /\ lost' \in SUBSET Keys /\ lost \subseteq lost'
    /\ failures' \in 0..MaxFailures /\ retries' \in 0..MaxRetries

Ordinary(r, w) ==
    /\ Scalars
    /\ StoredStep \/ UNCHANGED stored
    /\ RemoteStep \/ UNCHANGED remote
    /\ RowStep \/ UNCHANGED row
    /\ ReqStep(r) \/ UNCHANGED <<req, stored>>
    /\ JobStep(w) \/ UNCHANGED job

\* Such a step keeps the invariant.
LEMMA OrdinaryKeeps ==
  ASSUME IInv, NEW r, NEW w, Ordinary(r, w)
  PROVE  IInv'
  <1>1. /\ stored' \in [Keys -> KeyStatuses]
        /\ \A k \in Keys : /\ stored[k] = "none" <=> stored'[k] = "none"
                           /\ stored[k] = "disabled" => stored'[k] = "disabled"
                           /\ stored'[k] = "active" => stored[k] = "active"
    BY DEF Ordinary, StoredStep, IInv, TypeOK, KeyStatuses
  <1>2. /\ remote' \in [Keys -> KeyStatuses]
        /\ \A k \in Keys : /\ remote'[k] = remote[k] \/ (stored[k] = "disabled" /\ remote'[k] = "disabled")
    BY DEF Ordinary, RemoteStep, IInv, TypeOK, KeyStatuses
  <1>3. /\ row' \in [Keys -> Row]
        /\ \A k \in Keys : \/ row'[k] = row[k]
                           \/ /\ stored[k] = "disabled" /\ row'[k].status # "absent"
                              /\ row'[k].status = "succeeded" => remote[k] = "disabled"
    BY DEF Ordinary, RowStep, IInv, TypeOK
  <1>4. req' \in [Requests -> Request] /\ job' \in [Workers -> Job]
    BY DEF Ordinary, ReqStep, JobStep, IInv, TypeOK
  <1>5. TypeOK'
    BY <1>1, <1>2, <1>3, <1>4 DEF Ordinary, Scalars, IInv, TypeOK
  <1>6. Known' /\ ActiveKeysWork' /\ Rows' /\ SucceededMeansDisabled'
    BY <1>1, <1>2, <1>3 DEF IInv, Known, ActiveKeysWork, Rows, SucceededMeansDisabled
  <1>7. Targets'
    <2> SUFFICES ASSUME NEW q \in Requests
                 PROVE  /\ req'[q].pc \in {"remote", "enqueue"}
                             => req'[q].cur \in Keys /\ stored'[req'[q].cur] = "disabled"
                        /\ \A k \in req'[q].todo : stored'[k] # "none"
                        /\ req'[q].pc = "insert" => req'[q].then = "insert"
      BY DEF Targets
    <2>1. CASE req'[q] = req[q]
      <3>1. req[q].todo \subseteq Keys
        BY DEF IInv, TypeOK, Request
      <3> QED
        BY <1>1, <2>1, <3>1 DEF IInv, Targets
    <2>2. CASE ReqStep(r) /\ q = r
      <3>1. req'[q].todo \subseteq Keys
        BY <1>4 DEF Request
      <3> QED
        BY <1>1, <2>2, <3>1 DEF ReqStep, IInv, TypeOK
    <2> QED
      BY <2>1, <2>2 DEF Ordinary, ReqStep, IInv, TypeOK
  <1>8. Fresh'
    <2>1. ASSUME NEW q \in Requests, Carries(req'[q])
          PROVE  Carries(req[q]) /\ req'[q].new = req[q].new
      BY <2>1 DEF Ordinary, ReqStep, IInv, TypeOK
    <2> QED
      BY <1>1, <1>2, <2>1 DEF IInv, Fresh
  <1>9. Jobs'
    <2>1. CASE UNCHANGED job
      BY <1>1, <1>2, <2>1 DEF IInv, Jobs
    <2>2. CASE JobStep(w)
      BY <1>1, <1>2, <2>2 DEF JobStep, IInv, Jobs, TypeOK
    <2> QED
      BY <2>1, <2>2 DEF Ordinary
  <1>10. DisabledKeysAreChased'
    <2> SUFFICES ASSUME NEW k \in Keys, stored'[k] = "disabled", remote'[k] = "active",
                        k \notin lost', ~Queued(k)'
                 PROVE  \E q \in Requests : OnIt(q, k)'
      BY DEF DisabledKeysAreChased, OnIt
    <2>1. CASE stored[k] # "disabled"
      BY <2>1 DEF Ordinary, ReqStep, OnIt, IInv, TypeOK
    <2>2. CASE stored[k] = "disabled"
      <3>1. k \notin lost /\ remote[k] = "active" /\ ~Queued(k)
        BY <1>2, <1>3 DEF Ordinary, Scalars, Queued
      <3>2. PICK q \in Requests : OnIt(q, k)
        BY <2>2, <3>1 DEF IInv, DisabledKeysAreChased, OnIt
      <3>3. CASE req'[q] = req[q]
        BY <3>2, <3>3 DEF OnIt
      <3>4. CASE ReqStep(r) /\ q = r
        BY <3>2, <3>4 DEF ReqStep, OnIt, IInv, TypeOK
      <3> QED
        BY <3>3, <3>4 DEF Ordinary, ReqStep, IInv, TypeOK
    <2> QED
      BY <2>1, <2>2
  <1> QED
    BY <1>5, <1>6, <1>7, <1>8, <1>9, <1>10 DEF IInv

-----------------------------------------------------------------------------
\* The values that never change, and those that a failing call changes.
LEMMA Unmoved ==
  ASSUME IInv, UNCHANGED <<userVars, group>>, lost' \in SUBSET Keys, lost \subseteq lost',
         UNCHANGED bounds \/ Fails
  PROVE  Scalars
  <1>1. failures' \in 0..MaxFailures /\ retries' \in 0..MaxRetries
    BY KeyAssumption DEF IInv, TypeOK, Fails, bounds
  <1> QED
    BY <1>1 DEF Scalars, IInv, TypeOK, userVars

\* A request that starts has no key in hand.
LEMMA KeepsStart ==
  ASSUME IInv, NEW r \in Requests, Start(r) PROVE IInv'
  <1> DEFINE w == CHOOSE w : TRUE
  <1> HIDE DEF w
  <1>0. At(r, "idle")
    BY DEF Start, RotateUserAPIKey, ChangeUserGatewayGroup, DisableAPIKey, UpdateUser
  <1>1. \A k \in Keys : ~OnIt(r, k)
    BY <1>0 DEF At, OnIt
  <1>2. ASSUME NEW g \in Groups, RotateUserAPIKey(r, g) \/ ChangeUserGatewayGroup(r, g)
        PROVE  IInv'
    <2>1. PICK scope \in SUBSET Groups :
            req' = [req EXCEPT ![r] = [NoRequest EXCEPT !.pc = "account", !.then = "insert",
                                         !.group = g, !.scope = scope]]
      BY <1>2 DEF RotateUserAPIKey, ChangeUserGatewayGroup
    <2> DEFINE x == [NoRequest EXCEPT !.pc = "account", !.then = "insert", !.group = g,
                                      !.scope = scope]
    <2>2. UNCHANGED <<userVars, stored, remote, group, row, job, lost, bounds>>
      BY <1>2 DEF RotateUserAPIKey, ChangeUserGatewayGroup
    <2>3. x \in Request /\ x.pc = "account" /\ x.todo = {}
      BY DEF Request, NoRequest, PC
    <2>4. ReqStep(r)
      BY <1>1, <2>1, <2>2, <2>3 DEF ReqStep, Carries
    <2>5. Scalars
      BY <2>2, Unmoved DEF IInv, TypeOK
    <2> QED
      BY <2>2, <2>4, <2>5, OrdinaryKeeps DEF Ordinary
  <1>3. ASSUME NEW k \in Keys, DisableAPIKey(r, k) PROVE IInv'
    <2>1. StoredStep /\ \A j \in Keys : stored'[j] # stored[j] => j = k
      BY <1>3 DEF DisableAPIKey, StoredStep, IInv, TypeOK
    <2>2. stored'[k] = "disabled"
      BY <1>3 DEF DisableAPIKey, IInv, TypeOK
    <2> DEFINE x == [NoRequest EXCEPT !.pc = "remote", !.cur = k]
    <2>3. x \in Request /\ x.pc = "remote" /\ x.cur = k /\ x.todo = {} /\ x.then = "idle"
      BY DEF Request, NoRequest, PC
    <2>4. req' = [req EXCEPT ![r] = x]
      BY <1>3 DEF DisableAPIKey
    <2>5. ReqStep(r)
      BY <1>1, <2>1, <2>2, <2>3, <2>4 DEF ReqStep, Carries
    <2>6. Scalars
      BY <1>3, Unmoved DEF DisableAPIKey, IInv, TypeOK
    <2> QED
      BY <1>3, <2>1, <2>5, <2>6, OrdinaryKeeps DEF DisableAPIKey, Ordinary
  <1>4. ASSUME NEW status \in {"active", "disabled"}, NEW cascade \in BOOLEAN,
               UpdateUser(r, status, cascade)
        PROVE  IInv'
    <2>1. PICK pc \in {"list", "status"} :
            req' = [req EXCEPT ![r] = [NoRequest EXCEPT !.pc = pc, !.then = "status",
                                         !.scope = Groups, !.status = status]]
      BY <1>4 DEF UpdateUser
    <2> DEFINE x == [NoRequest EXCEPT !.pc = pc, !.then = "status", !.scope = Groups,
                                      !.status = status]
    <2>2. x \in Request /\ x.pc = pc /\ x.todo = {} /\ x.then = "status"
      BY DEF Request, NoRequest, PC
    <2>3. ReqStep(r)
      BY <1>1, <1>4, <2>1, <2>2 DEF UpdateUser, ReqStep, Carries
    <2>4. Scalars
      BY <1>4 DEF UpdateUser, Scalars, bounds, IInv, TypeOK
    <2> QED
      BY <1>4, <2>3, <2>4, OrdinaryKeeps DEF UpdateUser, Ordinary
  <1> QED
    BY <1>2, <1>3, <1>4 DEF Start

\* The ways in which a request goes on.
LEMMA RequestMoves ==
  ASSUME IInv, NEW r \in Requests, UNCHANGED stored,
         \A k \in Keys : OnIt(r, k) => k \in lost' \/ remote'[k] = "disabled" \/ Queued(k)'
  PROVE  /\ Leave(r) => ReqStep(r)
         /\ Continue(r) /\ ~At(r, "account") /\ ~At(r, "create") /\ ~At(r, "idle") => ReqStep(r)
         /\ \A pc \in {"create", "next", "status"} :
              Goto(r, pc) /\ (pc = "create" \/ Carries(req[r]) \/ req[r].then # "insert") => ReqStep(r)
         /\ Goto(r, "insert") /\ Carries(req[r]) => ReqStep(r)
  <1>1. req[r] \in Request /\ NoRequest \in Request
    BY DEF IInv, TypeOK, Request, NoRequest, PC
  <1>2. ASSUME Leave(r) PROVE ReqStep(r)
    BY <1>1, <1>2 DEF Leave, ReqStep, NoRequest, Carries
  <1>3. ASSUME Continue(r), ~At(r, "account"), ~At(r, "create"), ~At(r, "idle") PROVE ReqStep(r)
    <2> DEFINE x == [req[r] EXCEPT !.pc = "next", !.cur = NoKey, !.retryable = FALSE]
    <2>1. x \in Request /\ req' = [req EXCEPT ![r] = x]
      BY <1>1, <1>3 DEF Continue, Request, PC, IInv, TypeOK
    <2>2. x.pc = "next" /\ x.todo = req[r].todo /\ x.new = req[r].new /\ x.then = req[r].then
      BY <1>1 DEF Request
    <2> QED
      BY <1>3, <2>1, <2>2 DEF ReqStep, At, Carries, IInv, Targets
  <1>4. ASSUME NEW pc \in {"create", "next", "status", "insert"}, Goto(r, pc),
               pc = "create" \/ Carries(req[r]) \/ (pc # "insert" /\ req[r].then # "insert")
        PROVE  ReqStep(r)
    <2> DEFINE x == [req[r] EXCEPT !.pc = pc]
    <2>1. x \in Request /\ req' = [req EXCEPT ![r] = x]
      BY <1>1, <1>4 DEF Goto, Request, PC, IInv, TypeOK
    <2>2. x.pc = pc /\ x.todo = req[r].todo /\ x.new = req[r].new /\ x.then = req[r].then
      BY <1>1 DEF Request
    <2> QED
      BY <1>4, <2>1, <2>2 DEF ReqStep, Carries, IInv, Targets
  <1> QED
    BY <1>2, <1>3, <1>4

\* Reading, moving on and the calls that do not reach a key.
LEMMA KeepsReads ==
  ASSUME IInv, NEW r \in Requests,
         \/ EnsureSub2APIAccount(r) \/ ActiveGatewayAPIKeyRecords(r) \/ AllDisabled(r)
         \/ SyncUserStatusRemote(r) \/ StatusSyncFails(r) \/ LocalStepFails(r)
  PROVE  IInv'
  <1> DEFINE w == CHOOSE w : TRUE
  <1> HIDE DEF w
  <1>0. UNCHANGED <<stored, remote, group, row, job, lost>>
    BY DEF EnsureSub2APIAccount, ActiveGatewayAPIKeyRecords, AllDisabled, SyncUserStatusRemote,
           StatusSyncFails, LocalStepFails
  <1>1. \A k \in Keys : ~OnIt(r, k)
    BY DEF EnsureSub2APIAccount, ActiveGatewayAPIKeyRecords, AllDisabled, SyncUserStatusRemote,
           StatusSyncFails, LocalStepFails, At, OnIt
  <1>2. Scalars
    <2>1. CASE EnsureSub2APIAccount(r) \/ SyncUserStatusRemote(r)
      <3>1. req[r].status \in {"active", "disabled"}
        BY DEF IInv, TypeOK, Request
      <3> QED
        BY <1>0, <2>1, <3>1 DEF EnsureSub2APIAccount, SyncUserStatusRemote, Scalars, bounds, IInv,
               TypeOK
    <2>2. CASE \/ ActiveGatewayAPIKeyRecords(r) \/ AllDisabled(r) \/ StatusSyncFails(r)
               \/ LocalStepFails(r)
      BY <1>0, <2>2, Unmoved DEF ActiveGatewayAPIKeyRecords, AllDisabled, StatusSyncFails,
         LocalStepFails, IInv, TypeOK
    <2> QED
      BY <2>1, <2>2
  <1>3. req[r] \in Request
    BY DEF IInv, TypeOK
  <1>4. ReqStep(r)
    <2>1. CASE EnsureSub2APIAccount(r)
      BY <1>0, <1>1, <2>1, RequestMoves DEF EnsureSub2APIAccount
    <2>2. CASE ActiveGatewayAPIKeyRecords(r)
      <3> DEFINE todo == {k \in Keys : stored[k] = "active" /\ group[k] \in req[r].scope}
                 x == [req[r] EXCEPT !.pc = "next", !.todo = todo]
      <3>1. x \in Request /\ req' = [req EXCEPT ![r] = x]
        BY <1>3, <2>2 DEF ActiveGatewayAPIKeyRecords, Request, PC, IInv, TypeOK
      <3>2. x.pc = "next" /\ x.todo = todo /\ x.new = req[r].new /\ x.then = req[r].then
        BY <1>3 DEF Request
      <3>3. Carries(x) => Carries(req[r])
        BY <2>2, <3>2 DEF ActiveGatewayAPIKeyRecords, At, Carries
      <3> QED
        BY <1>0, <1>1, <3>1, <3>2, <3>3 DEF ReqStep
    <2>3. CASE AllDisabled(r)
      <3>1. req[r].then \in {"idle", "insert", "status"}
        BY <1>3 DEF Request
      <3>2. req[r].then = "insert" => Carries(req[r])
        BY <2>3 DEF AllDisabled, At, Carries
      <3> QED
        BY <1>0, <1>1, <2>3, <3>1, <3>2, RequestMoves DEF AllDisabled
    <2>4. CASE SyncUserStatusRemote(r) \/ StatusSyncFails(r)
      BY <1>0, <1>1, <2>4, RequestMoves DEF SyncUserStatusRemote, StatusSyncFails
    <2>5. CASE LocalStepFails(r)
      <3>1. CASE At(r, "list") /\ Goto(r, "next")
        <4>1. Carries(req[r]) \/ req[r].then # "insert"
          BY <3>1 DEF At, Carries
        <4> QED
          BY <1>0, <1>1, <3>1, <4>1, RequestMoves
      <3>2. ASSUME At(r, "next"), NEW k \in req[r].todo, req' = [req EXCEPT ![r].todo = @ \ {k}]
            PROVE  ReqStep(r)
        <4> DEFINE x == [req[r] EXCEPT !.todo = @ \ {k}]
        <4>1. x \in Request /\ req' = [req EXCEPT ![r] = x]
          BY <1>3, <3>2 DEF Request, IInv, TypeOK
        <4>2. /\ x.pc = req[r].pc /\ x.todo \subseteq req[r].todo /\ x.new = req[r].new
              /\ x.then = req[r].then
          BY <1>3 DEF Request
        <4> QED
          BY <1>0, <1>1, <3>2, <4>1, <4>2 DEF ReqStep, At, Carries, IInv, Targets
      <3> QED
        BY <2>5, <3>1, <3>2 DEF LocalStepFails
    <2> QED
      BY <2>1, <2>2, <2>3, <2>4, <2>5
  <1> QED
    BY <1>0, <1>2, <1>4, OrdinaryKeeps DEF Ordinary

\* Disabling a row takes the key in hand.
LEMMA KeepsDisableLocally ==
  ASSUME IInv, NEW r \in Requests, NEW k \in Keys, DisableLocally(r, k) PROVE IInv'
  <1> DEFINE w == CHOOSE w : TRUE
             x == [req[r] EXCEPT !.pc = "remote", !.cur = k, !.todo = @ \ {k}]
  <1> HIDE DEF w
  <1>1. req[r] \in Request
    BY DEF IInv, TypeOK
  <1>2. x \in Request /\ req' = [req EXCEPT ![r] = x]
    BY <1>1 DEF DisableLocally, Request, PC, IInv, TypeOK
  <1>3. /\ x.pc = "remote" /\ x.cur = k /\ x.todo \subseteq req[r].todo /\ x.new = req[r].new
        /\ x.then = req[r].then
    BY <1>1 DEF Request
  <1>4. stored[k] # "none" /\ \A j \in Keys : ~OnIt(r, j)
    BY DEF DisableLocally, At, OnIt, IInv, Targets
  <1>5. StoredStep /\ stored'[k] = "disabled" /\ \A j \in Keys : stored'[j] # stored[j] => j = k
    BY <1>4 DEF DisableLocally, StoredStep, IInv, TypeOK
  <1>6. Carries(x) => Carries(req[r])
    BY <1>3 DEF DisableLocally, At, Carries
  <1>7. ReqStep(r)
    BY <1>2, <1>3, <1>4, <1>5, <1>6 DEF ReqStep, IInv, Targets
  <1>8. Scalars
    BY Unmoved DEF DisableLocally, IInv, TypeOK
  <1> QED
    BY <1>5, <1>7, <1>8, OrdinaryKeeps DEF DisableLocally, Ordinary

\* The key in hand is disabled at Sub2API, enqueued or lost.
LEMMA KeepsKeyInHand ==
  ASSUME IInv, NEW r \in Requests,
         \/ DisableSub2APIKey(r) \/ EnqueueDisableAPIKeyRetry(r) \/ EnqueueFails(r)
  PROVE  IInv'
  <1> DEFINE w == CHOOSE w : TRUE
  <1> HIDE DEF w
  <1>1. PICK k \in Keys : /\ k = req[r].cur /\ stored[k] = "disabled"
                          /\ At(r, "remote") \/ At(r, "enqueue")
    BY DEF DisableSub2APIKey, EnqueueDisableAPIKeyRetry, EnqueueFails, At, IInv, Targets
  <1>2. \A j \in Keys : OnIt(r, j) => j = k
    BY <1>1 DEF OnIt
  <1>3. UNCHANGED <<userVars, stored, group, job>> /\ Continue(r)
    BY DEF DisableSub2APIKey, EnqueueDisableAPIKeyRetry, EnqueueFails
  <1>4. Scalars
    BY <1>1, <1>3, Unmoved DEF DisableSub2APIKey, EnqueueDisableAPIKeyRetry, EnqueueFails, IInv,
           TypeOK
  <1>5. CASE DisableSub2APIKey(r)
    <2>1. RemoteStep /\ remote'[k] = "disabled"
      BY <1>1, <1>5 DEF DisableSub2APIKey, RemoteStep, IInv, TypeOK
    <2>2. ReqStep(r)
      BY <1>1, <1>2, <1>3, <2>1, RequestMoves DEF At
    <2> QED
      BY <1>3, <1>4, <1>5, <2>1, <2>2, OrdinaryKeeps DEF DisableSub2APIKey, Ordinary
  <1>6. CASE EnqueueDisableAPIKeyRetry(r)
    <2>1. req[r].retryable \in BOOLEAN /\ row[k] \in Row
      BY <1>1 DEF IInv, TypeOK, Request
    <2> DEFINE x == CreateFailed(row[k], req[r].retryable)
    <2>2. x \in Row
      BY <2>1, RowTyping
    <2>3. x.status \in {"failed", "dead_letter"} \/ (x = row[k] /\ x.status # "absent")
      BY <2>1 DEF CreateFailed, Inserted, AbsentRow
    <2>4. row' = [row EXCEPT ![k] = x]
      BY <1>1, <1>6 DEF EnqueueDisableAPIKeyRetry
    <2>5. x.status = "succeeded" => remote[k] = "disabled"
      BY <1>1, <2>3 DEF IInv, SucceededMeansDisabled
    <2>6. RowStep
      BY <1>1, <2>2, <2>3, <2>4, <2>5 DEF RowStep
    <2>7. Queued(k)' \/ remote'[k] = "disabled"
      BY <1>1, <1>6, <2>3, <2>4, <2>5 DEF EnqueueDisableAPIKeyRetry, Queued, IInv, TypeOK
    <2>8. ReqStep(r)
      BY <1>1, <1>2, <1>3, <2>7, RequestMoves DEF At
    <2> QED
      BY <1>3, <1>4, <1>6, <2>6, <2>8, OrdinaryKeeps DEF EnqueueDisableAPIKeyRetry, Ordinary
  <1>7. CASE EnqueueFails(r)
    <2>1. k \in lost'
      BY <1>1, <1>7 DEF EnqueueFails
    <2>2. ReqStep(r)
      BY <1>1, <1>2, <1>3, <2>1, RequestMoves DEF At
    <2> QED
      BY <1>3, <1>4, <1>7, <2>2, OrdinaryKeeps DEF EnqueueFails, Ordinary
  <1> QED
    BY <1>5, <1>6, <1>7

\* A failed call at Sub2API keeps the key in hand; a lost request does not.
LEMMA KeepsLosses ==
  ASSUME IInv, NEW r \in Requests,
         Disconnect(r) \/ \E retryable \in BOOLEAN : DisableSub2APIKeyFails(r, retryable)
  PROVE  IInv'
  <1> DEFINE w == CHOOSE w : TRUE
  <1> HIDE DEF w
  <1>1. req[r] \in Request
    BY DEF IInv, TypeOK
  <1>2. CASE Disconnect(r)
    <2>1. /\ lost \subseteq lost' /\ lost' \in SUBSET Keys
          /\ \A k \in Keys : OnIt(r, k) => k \in lost'
      BY <1>2 DEF Disconnect, At, OnIt, IInv, TypeOK, Targets
    <2>2. Scalars
      BY <1>2, <2>1, Unmoved DEF Disconnect
    <2>3. ReqStep(r)
      BY <1>2, <2>1, RequestMoves DEF Disconnect
    <2> QED
      BY <1>2, <2>2, <2>3, OrdinaryKeeps DEF Disconnect, Ordinary
  <1>3. ASSUME NEW retryable \in BOOLEAN, DisableSub2APIKeyFails(r, retryable) PROVE IInv'
    <2> DEFINE x == [req[r] EXCEPT !.pc = "enqueue", !.retryable = retryable]
    <2>1. x \in Request /\ req' = [req EXCEPT ![r] = x]
      BY <1>1, <1>3 DEF DisableSub2APIKeyFails, Request, PC, IInv, TypeOK
    <2>2. /\ x.pc = "enqueue" /\ x.cur = req[r].cur /\ x.todo = req[r].todo /\ x.new = req[r].new
          /\ x.then = req[r].then
      BY <1>1 DEF Request
    <2>3. req[r].cur \in Keys /\ stored[req[r].cur] = "disabled"
      BY <1>3 DEF DisableSub2APIKeyFails, At, IInv, Targets
    <2>4. RemoteStep \/ UNCHANGED remote
      BY <1>3, <2>3 DEF DisableSub2APIKeyFails, RemoteStep
    <2>5. Carries(x) => Carries(req[r])
      BY <1>3, <2>2 DEF DisableSub2APIKeyFails, At, Carries
    <2>6. ReqStep(r)
      BY <1>3, <2>1, <2>2, <2>3, <2>5 DEF DisableSub2APIKeyFails, ReqStep, OnIt, IInv, Targets
    <2>7. Scalars
      BY <1>3, Unmoved DEF DisableSub2APIKeyFails, IInv, TypeOK
    <2> QED
      BY <1>3, <2>4, <2>6, <2>7, OrdinaryKeeps DEF DisableSub2APIKeyFails, Ordinary
  <1> QED
    BY <1>2, <1>3

-----------------------------------------------------------------------------
(***************************************************************************)
(* The steps that make a key                                               *)
(***************************************************************************)
\* Sub2API makes a key that nobody knows yet.
LEMMA MadeKey ==
  ASSUME IInv, NEW k \in Keys, NEW g \in Groups \cup {NoGroup}, Made(k, g)
  PROVE  /\ stored[k] = "none" /\ remote'[k] = "active"
         /\ remote' \in [Keys -> KeyStatuses] /\ group' \in [Keys -> Groups \cup {NoGroup}]
         /\ \A j \in Keys : j # k => remote'[j] = remote[j]
         /\ \A r \in Requests : Carries(req[r]) => req[r].new # k
  BY DEF Made, IInv, TypeOK, KeyStatuses, Known, Fresh

\* A new key changes nothing for the old ones.
LEMMA MadeKeeps ==
  ASSUME IInv, NEW k \in Keys, NEW g \in Groups \cup {NoGroup}, Made(k, g),
         UNCHANGED <<stored, row, job, lost>>
  PROVE  Jobs' /\ Rows' /\ Known' /\ SucceededMeansDisabled' /\ ActiveKeysWork'
  <1>1. /\ stored[k] = "none" /\ remote'[k] = "active" /\ remote[k] = "none"
        /\ \A j \in Keys : j # k => remote'[j] = remote[j]
    BY MadeKey DEF Made
  <1> QED
    BY <1>1 DEF IInv, Jobs, Rows, Known, SucceededMeansDisabled, ActiveKeysWork

\* A rotation creates its key.
LEMMA KeepsCreate ==
  ASSUME IInv, NEW r \in Requests, NEW k \in Keys, CreateRemoteGatewayAPIKey(r, k) PROVE IInv'
  <1> DEFINE x == [req[r] EXCEPT !.pc = "list", !.new = k]
  <1>1. req[r] \in Request /\ req[r].pc = "create" /\ req[r].group \in Groups \cup {NoGroup}
    BY DEF CreateRemoteGatewayAPIKey, At, IInv, TypeOK, Request
  <1>2. /\ x \in Request /\ req' = [req EXCEPT ![r] = x] /\ x.pc = "list" /\ x.new = k
        /\ x.todo = req[r].todo
    BY <1>1 DEF CreateRemoteGatewayAPIKey, Request, PC, IInv, TypeOK
  <1>3. Made(k, req[r].group) /\ UNCHANGED <<userVars, stored, row, job, lost, bounds>>
    BY DEF CreateRemoteGatewayAPIKey
  <1>4. /\ stored[k] = "none" /\ remote'[k] = "active" /\ remote' \in [Keys -> KeyStatuses]
        /\ group' \in [Keys -> Groups \cup {NoGroup}]
        /\ \A j \in Keys : j # k => remote'[j] = remote[j]
        /\ \A q \in Requests : Carries(req[q]) => req[q].new # k
    BY <1>1, <1>3, MadeKey
  <1>5. req'[r] = x /\ \A q \in Requests : q # r => req'[q] = req[q]
    BY <1>2 DEF IInv, TypeOK
  <1>6. TypeOK'
    BY <1>2, <1>3, <1>4 DEF IInv, TypeOK, userVars, bounds
  <1>7. Jobs' /\ Rows' /\ Known' /\ SucceededMeansDisabled' /\ ActiveKeysWork'
    BY <1>1, <1>3, MadeKeeps
  <1>8. Targets'
    BY <1>2, <1>3, <1>5 DEF IInv, Targets
  <1>9. Fresh'
    <2> SUFFICES ASSUME NEW q \in Requests, Carries(req'[q])
                 PROVE  /\ req'[q].new \in Keys
                        /\ stored'[req'[q].new] = "none" /\ remote'[req'[q].new] = "active"
                        /\ \A p \in Requests : Carries(req'[p]) /\ req'[p].new = req'[q].new => p = q
      BY DEF Fresh
    <2>1. CASE q = r
      <3>1. \A p \in Requests : Carries(req'[p]) /\ req'[p].new = k => p = r
        BY <1>4, <1>5
      <3>2. req'[q].new = k
        BY <1>2, <1>5, <2>1
      <3> QED
        BY <1>3, <1>4, <2>1, <3>1, <3>2
    <2>2. CASE q # r
      <3>1. /\ req'[q] = req[q] /\ req[q].new \in Keys /\ req[q].new # k
            /\ stored[req[q].new] = "none" /\ remote[req[q].new] = "active"
            /\ \A p \in Requests : Carries(req[p]) /\ req[p].new = req[q].new => p = q
        BY <1>4, <1>5, <2>2 DEF IInv, Fresh
      <3> QED
        BY <1>2, <1>3, <1>4, <1>5, <3>1
    <2> QED
      BY <2>1, <2>2
  <1>10. DisabledKeysAreChased'
    <2>1. ASSUME NEW j \in Keys, stored'[j] = "disabled", remote'[j] = "active",
                 j \notin lost', ~Queued(j)'
          PROVE  \E q \in Requests : req'[q].pc \in {"remote", "enqueue"} /\ req'[q].cur = j
      <3>1. stored[j] = "disabled" /\ remote[j] = "active" /\ j \notin lost /\ ~Queued(j)
        BY <1>3, <1>4, <2>1 DEF Queued
      <3>2. PICK q \in Requests : req[q].pc \in {"remote", "enqueue"} /\ req[q].cur = j
        BY <3>1 DEF IInv, DisabledKeysAreChased
      <3> QED
        BY <1>1, <1>5, <3>2
    <2> QED
      BY <2>1 DEF DisabledKeysAreChased
  <1> QED
    BY <1>6, <1>7, <1>8, <1>9, <1>10 DEF IInv

\* The key whose creation was not answered is nobody's.
LEMMA KeepsCreateFails ==
  ASSUME IInv, NEW r \in Requests, CreateFails(r) PROVE IInv'
  <1> DEFINE w == CHOOSE w : TRUE
  <1> HIDE DEF w
  <1>1. /\ Leave(r) /\ Fails /\ UNCHANGED <<userVars, stored, row, job, lost>>
        /\ req[r].pc \in {"account", "create"} /\ req[r].group \in Groups \cup {NoGroup}
    BY DEF CreateFails, At, IInv, TypeOK, Request
  <1>2. CASE UNCHANGED <<remote, group>>
    <2>1. Scalars
      BY <1>1, <1>2, Unmoved DEF IInv, TypeOK
    <2>2. ReqStep(r)
      BY <1>1, RequestMoves DEF OnIt
    <2> QED
      BY <1>1, <1>2, <2>1, <2>2, OrdinaryKeeps DEF Ordinary
  <1>3. ASSUME NEW k \in Keys, Made(k, req[r].group) PROVE IInv'
    <2>1. /\ stored[k] = "none" /\ remote' \in [Keys -> KeyStatuses]
          /\ group' \in [Keys -> Groups \cup {NoGroup}]
          /\ \A j \in Keys : j # k => remote'[j] = remote[j]
          /\ \A q \in Requests : Carries(req[q]) => req[q].new # k
      BY <1>1, <1>3, MadeKey
    <2>2. /\ req' \in [Requests -> Request] /\ req'[r] = NoRequest
          /\ \A q \in Requests : q # r => req'[q] = req[q]
      BY <1>1 DEF Leave, IInv, TypeOK, Request, NoRequest, PC
    <2>3. failures' \in 0..MaxFailures /\ retries' \in 0..MaxRetries
      BY <1>1, KeyAssumption DEF IInv, TypeOK, Fails
    <2>4. TypeOK'
      BY <1>1, <2>1, <2>2, <2>3 DEF IInv, TypeOK, userVars
    <2>5. Jobs' /\ Rows' /\ Known' /\ SucceededMeansDisabled' /\ ActiveKeysWork'
      BY <1>1, <1>3, MadeKeeps
    <2>6. NoRequest.pc = "idle" /\ NoRequest.todo = {} /\ ~Carries(NoRequest)
      BY DEF NoRequest, Carries
    <2>7. Targets'
      BY <1>1, <2>2, <2>6 DEF IInv, Targets
    <2>8. Fresh'
      <3>1. \A q \in Requests : Carries(req'[q]) => req'[q] = req[q]
        BY <2>2, <2>6
      <3> QED
        BY <1>1, <2>1, <3>1 DEF IInv, Fresh
    <2>9. DisabledKeysAreChased'
      <3>1. ASSUME NEW j \in Keys, stored'[j] = "disabled", remote'[j] = "active",
                   j \notin lost', ~Queued(j)'
            PROVE  \E q \in Requests : req'[q].pc \in {"remote", "enqueue"} /\ req'[q].cur = j
        <4>1. stored[j] = "disabled" /\ remote[j] = "active" /\ j \notin lost /\ ~Queued(j)
          BY <1>1, <2>1, <3>1 DEF Queued
        <4>2. PICK q \in Requests : req[q].pc \in {"remote", "enqueue"} /\ req[q].cur = j
          BY <4>1 DEF IInv, DisabledKeysAreChased
        <4> QED
          BY <1>1, <2>2, <4>2
      <3> QED
        BY <3>1 DEF DisabledKeysAreChased
    <2> QED
      BY <2>4, <2>5, <2>7, <2>8, <2>9 DEF IInv
  <1> QED
    BY <1>2, <1>3 DEF CreateFails

\* A rotation stores its key, which is nobody else's and not yet disabled.
LEMMA KeepsInsert ==
  ASSUME IInv, NEW r \in Requests, InsertAdminGatewayAPIKey(r) PROVE IInv'
  <1> DEFINE w == CHOOSE w : TRUE
  <1> HIDE DEF w
  <1>1. /\ Leave(r) /\ UNCHANGED <<userVars, remote, group, row, job, lost, bounds>>
        /\ req[r].pc = "insert" /\ Carries(req[r])
    BY DEF InsertAdminGatewayAPIKey, At, IInv, Targets, Carries
  <1>2. CASE UNCHANGED stored
    <2>1. Scalars
      BY <1>1, Unmoved DEF IInv, TypeOK
    <2>2. ReqStep(r)
      BY <1>1, <1>2, RequestMoves DEF OnIt
    <2> QED
      BY <1>1, <1>2, <2>1, <2>2, OrdinaryKeeps DEF Ordinary
  <1>3. CASE stored' = [stored EXCEPT ![req[r].new] = "active"]
    <2>1. PICK k \in Keys :
            /\ k = req[r].new /\ stored[k] = "none" /\ remote[k] = "active"
            /\ \A q \in Requests : Carries(req[q]) /\ req[q].new = k => q = r
      BY <1>1 DEF IInv, Fresh
    <2>2. /\ stored' \in [Keys -> KeyStatuses] /\ stored'[k] = "active"
          /\ \A j \in Keys : j # k => stored'[j] = stored[j]
      BY <1>3, <2>1 DEF IInv, TypeOK, KeyStatuses
    <2>3. /\ req' \in [Requests -> Request] /\ req'[r] = NoRequest
          /\ \A q \in Requests : q # r => req'[q] = req[q]
      BY <1>1 DEF Leave, IInv, TypeOK, Request, NoRequest, PC
    <2>4. TypeOK'
      BY <1>1, <2>2, <2>3 DEF IInv, TypeOK, userVars, bounds
    <2>5. Rows' /\ Known' /\ SucceededMeansDisabled' /\ ActiveKeysWork'
      BY <1>1, <2>1, <2>2 DEF IInv, Rows, Known, SucceededMeansDisabled, ActiveKeysWork
    <2>6. Jobs'
      BY <1>1, <2>1, <2>2 DEF IInv, Jobs
    <2>7. NoRequest.pc = "idle" /\ NoRequest.todo = {} /\ ~Carries(NoRequest)
      BY DEF NoRequest, Carries
    <2>8. Targets'
      <3>1. \A q \in Requests : req[q].todo \subseteq Keys
        BY DEF IInv, TypeOK, Request
      <3> QED
        BY <2>1, <2>2, <2>3, <2>7, <3>1 DEF IInv, Targets
    <2>9. Fresh'
      <3>1. \A q \in Requests : Carries(req'[q]) => req'[q] = req[q] /\ q # r
        BY <2>3, <2>7
      <3> QED
        BY <1>1, <2>1, <2>2, <3>1 DEF IInv, Fresh
    <2>10. DisabledKeysAreChased'
      <3>1. ASSUME NEW j \in Keys, stored'[j] = "disabled", remote'[j] = "active",
                   j \notin lost', ~Queued(j)'
            PROVE  \E q \in Requests : req'[q].pc \in {"remote", "enqueue"} /\ req'[q].cur = j
        <4>1. stored[j] = "disabled" /\ remote[j] = "active" /\ j \notin lost /\ ~Queued(j)
          BY <1>1, <2>2, <3>1 DEF Queued
        <4>2. PICK q \in Requests : req[q].pc \in {"remote", "enqueue"} /\ req[q].cur = j
          BY <4>1 DEF IInv, DisabledKeysAreChased
        <4> QED
          BY <1>1, <2>3, <4>2
      <3> QED
        BY <3>1 DEF DisabledKeysAreChased
    <2> QED
      BY <2>4, <2>5, <2>6, <2>8, <2>9, <2>10 DEF IInv
  <1> QED
    BY <1>2, <1>3 DEF InsertAdminGatewayAPIKey

-----------------------------------------------------------------------------
(***************************************************************************)
(* The worker and the queue                                                *)
(***************************************************************************)
\* A worker disables a key only for an operation, whose key is disabled here.
LEMMA KeepsWork ==
  ASSUME IInv, NEW w \in Workers,
         \/ Execute(w) \/ ExecutionSucceeds(w) \/ WorkerVanishes(w)
         \/ \E retryable \in BOOLEAN : ExecutionFails(w, retryable)
  PROVE  IInv'
  <1> DEFINE r == CHOOSE r : TRUE
  <1> HIDE DEF r
  <1>1. PICK k \in Keys : k = job[w].key /\ stored[k] = "disabled" /\ row[k] \in Row
    BY DEF Execute, ExecutionSucceeds, WorkerVanishes, ExecutionFails, IInv, Jobs, TypeOK
  <1>2. UNCHANGED keyRest
    BY DEF Execute, ExecutionSucceeds, WorkerVanishes, ExecutionFails
  <1>3. Scalars
    BY <1>2, Unmoved DEF keyRest, Execute, ExecutionSucceeds, WorkerVanishes, ExecutionFails, IInv,
           TypeOK
  <1>4. job' = [job EXCEPT ![w] = NoJob] => JobStep(w)
    <2>1. NoJob \in Job /\ NoJob.pc = "idle"
      BY DEF NoJob, Job
    <2> QED
      BY <2>1 DEF JobStep
  <1>5. CASE Execute(w)
    <2> DEFINE x == [job[w] EXCEPT !.pc = "disabled"]
    <2>1. RemoteStep /\ remote'[k] = "disabled"
      BY <1>1, <1>5 DEF Execute, RemoteStep, IInv, TypeOK
    <2>2. x \in Job /\ job' = [job EXCEPT ![w] = x] /\ x.key = k
      BY <1>1, <1>5 DEF Execute, Job, IInv, TypeOK
    <2>3. JobStep(w)
      BY <1>1, <2>1, <2>2 DEF JobStep
    <2> QED
      BY <1>2, <1>3, <1>5, <2>1, <2>3, OrdinaryKeeps DEF Execute, keyRest, Ordinary
  <1>6. CASE ExecutionSucceeds(w)
    <2>1. remote[k] = "disabled"
      BY <1>1, <1>6 DEF ExecutionSucceeds, IInv, Jobs
    <2>2. RowStep
      BY <1>1, <1>6, <2>1, RowTyping, RowStatuses DEF ExecutionSucceeds, RowStep
    <2> QED
      BY <1>2, <1>3, <1>4, <1>6, <2>2, OrdinaryKeeps DEF ExecutionSucceeds, keyRest, Ordinary
  <1>7. CASE WorkerVanishes(w)
    BY <1>2, <1>3, <1>4, <1>7, OrdinaryKeeps DEF WorkerVanishes, keyRest, Ordinary
  <1>8. ASSUME NEW retryable \in BOOLEAN, ExecutionFails(w, retryable) PROVE IInv'
    <2>1. RemoteStep \/ UNCHANGED remote
      BY <1>1, <1>8 DEF ExecutionFails, RemoteStep
    <2>2. PICK dead \in BOOLEAN : row' = [row EXCEPT ![k] = MarkFailed(row[k], retryable, dead, dead)]
      BY <1>1, <1>8 DEF ExecutionFails
    <2>3. /\ MarkFailed(row[k], retryable, dead, dead) \in Row
          /\ MarkFailed(row[k], retryable, dead, dead).status \in {"failed", "dead_letter"}
      BY <1>1, RowTyping, RowStatuses
    <2>4. RowStep
      BY <1>1, <2>2, <2>3 DEF RowStep
    <2>5. job' = [job EXCEPT ![w] = NoJob]
      BY <1>8 DEF ExecutionFails
    <2> QED
      BY <1>2, <1>3, <1>4, <2>1, <2>4, <2>5, OrdinaryKeeps DEF keyRest, Ordinary
  <1> QED
    BY <1>5, <1>6, <1>7, <1>8

\* A worker claims an operation, whose key is disabled here.
LEMMA KeepsClaimNext ==
  ASSUME IInv, NEW w \in Workers, NEW k \in Keys, ClaimNext(w, k) PROVE IInv'
  <1> DEFINE r == CHOOSE r : TRUE
             x == [pc |-> "executing", key |-> k,
                   attempts |-> row[k].attempts + 1, max |-> row[k].max]
  <1> HIDE DEF r
  <1>1. row[k] \in Row /\ stored[k] = "disabled"
    BY DEF ClaimNext, Claimable, IInv, TypeOK, Rows
  <1>2. RowStep
    BY <1>1, RowTyping, RowStatuses DEF ClaimNext, RowStep
  <1>3. x \in Job
    BY <1>1 DEF Row, Job
  <1>4. JobStep(w)
    BY <1>1, <1>3 DEF ClaimNext, JobStep
  <1>5. Scalars
    BY Unmoved DEF ClaimNext, keyRest, IInv, TypeOK
  <1> QED
    BY <1>2, <1>4, <1>5, OrdinaryKeeps DEF ClaimNext, keyRest, Ordinary

\* The queue and the clock write an operation that is there already.
LEMMA KeepsQueue ==
  ASSUME IInv, NEW k \in Keys, Requeue(k) \/ Retry(k) \/ ComesDue(k) \/ LockExpires(k)
  PROVE  IInv'
  <1> DEFINE r == CHOOSE r : TRUE
             w == CHOOSE w : TRUE
  <1> HIDE DEF r, w
  <1>1. row[k] \in Row /\ row[k].status # "absent" /\ stored[k] = "disabled"
    BY DEF Requeue, Retry, ComesDue, LockExpires, Stale, CanRetry, IInv, TypeOK, Rows
  <1>2. PICK x \in Row :
          /\ row' = [row EXCEPT ![k] = x]
          /\ x.status = row[k].status \/ x.status \in {"failed", "dead_letter", "pending"}
    <2>1. CASE Requeue(k) \/ Retry(k)
      <3>1. /\ Requeued(row[k]) \in Row /\ Requeued(row[k]).status \in {"failed", "dead_letter"}
            /\ Retried(row[k]) \in Row /\ Retried(row[k]).status = "pending"
        BY <1>1, RowTyping, RowStatuses
      <3>2. row' \in {[row EXCEPT ![k] = Requeued(row[k])], [row EXCEPT ![k] = Retried(row[k])]}
        BY <2>1 DEF Requeue, Retry
      <3> QED
        BY <3>1, <3>2
    <2>2. CASE ComesDue(k) \/ LockExpires(k)
      <3>1. /\ [row[k] EXCEPT !.due = TRUE] \in Row /\ [row[k] EXCEPT !.lock = "stale"] \in Row
            /\ [row[k] EXCEPT !.due = TRUE].status = row[k].status
            /\ [row[k] EXCEPT !.lock = "stale"].status = row[k].status
        BY <1>1 DEF Row
      <3> QED
        BY <2>2, <3>1 DEF ComesDue, LockExpires
    <2> QED
      BY <2>1, <2>2
  <1>3. RowStep
    BY <1>1, <1>2 DEF RowStep, IInv, SucceededMeansDisabled
  <1>4. UNCHANGED <<queueRest>> /\ retries' \in 0..MaxRetries /\ failures' = failures
    BY KeyAssumption DEF Requeue, Retry, ComesDue, LockExpires, bounds, IInv, TypeOK
  <1>5. Scalars
    BY <1>4 DEF Scalars, queueRest, keyRest, userVars, IInv, TypeOK
  <1> QED
    BY <1>3, <1>4, <1>5, OrdinaryKeeps DEF queueRest, keyRest, Ordinary

-----------------------------------------------------------------------------
\* Every step keeps the invariant.
LEMMA Inductive == IInv /\ [Next]_vars => IInv'
  <1> SUFFICES ASSUME IInv, [Next]_vars PROVE IInv'
    OBVIOUS
  <1>1. CASE UNCHANGED vars
    BY <1>1 DEF vars, IInv, TypeOK, Fresh, Targets, Jobs, Rows, Known, DisabledKeysAreChased,
                Queued, SucceededMeansDisabled, ActiveKeysWork
  <1>2. ASSUME NEW r \in Requests, Step(r) PROVE IInv'
    BY <1>2, KeepsReads, KeepsInsert, KeepsCreate, KeepsDisableLocally, KeepsKeyInHand DEF Step
  <1>3. ASSUME NEW r \in Requests, Trouble(r) PROVE IInv'
    BY <1>3, KeepsReads, KeepsCreateFails, KeepsKeyInHand, KeepsLosses DEF Trouble
  <1> QED
    BY <1>1, <1>2, <1>3, KeepsStart, KeepsWork, KeepsClaimNext, KeepsQueue DEF Next, Work

\* The strengthened invariant holds in every reachable state.
THEOREM Invariance == Spec => []IInv
  <1>1. Init => IInv
    <2> SUFFICES ASSUME Init PROVE IInv
      OBVIOUS
    <2>1. AbsentRow \in Row /\ NoRequest \in Request /\ NoJob \in Job
      BY RowAssumption DEF AbsentRow, Row, Statuses, NoRequest, Request, PC, NoJob, Job
    <2>2. TypeOK
      <3>1. stored \in [Keys -> KeyStatuses] /\ remote = stored
        BY DEF Init, KeyStatuses
      <3>2. failures \in 0..MaxFailures /\ retries \in 0..MaxRetries
        BY KeyAssumption DEF Init
      <3>3. row \in [Keys -> Row] /\ req \in [Requests -> Request] /\ job \in [Workers -> Job]
        BY <2>1 DEF Init
      <3>4. group \in [Keys -> Groups \cup {NoGroup}] /\ lost \subseteq Keys
        BY DEF Init
      <3>5. user \in {"active", "disabled"} /\ account \in {"active", "disabled"}
        BY DEF Init
      <3> QED
        BY <3>1, <3>2, <3>3, <3>4, <3>5 DEF TypeOK
    <2>3. NoRequest.pc = "idle" /\ NoRequest.todo = {} /\ NoJob.pc = "idle"
      BY DEF NoRequest, NoJob
    <2>4. Fresh /\ Targets /\ Jobs
      BY <2>3 DEF Init, Fresh, Carries, Targets, Jobs
    <2>5. Rows /\ Known /\ SucceededMeansDisabled /\ ActiveKeysWork /\ DisabledKeysAreChased
      BY DEF Init, AbsentRow, Rows, Known, SucceededMeansDisabled, ActiveKeysWork,
             DisabledKeysAreChased
    <2> QED
      BY <2>2, <2>4, <2>5 DEF IInv
  <1> QED
    BY <1>1, Inductive, PTL DEF Spec

\* The keys, requests, jobs and operations stay well-typed.
THEOREM TypeCorrect == Spec => []TypeOK
  BY Invariance, PTL DEF IInv

\* No key that a handler has disabled here stays alive at Sub2API without a
\* request, an operation or a lost request that accounts for it.
THEOREM DisabledKeysStayChased == Spec => []DisabledKeysAreChased
  BY Invariance, PTL DEF IInv

\* An operation disable_api_key_remote that is marked succeeded has disabled
\* its key, whichever handlers and workers disable it at the same time.
THEOREM SuccessIsTrue == Spec => []SucceededMeansDisabled
  BY Invariance, PTL DEF IInv

\* A key that gateway_api_keys hands out as active was never disabled at
\* Sub2API.
THEOREM HandedOutKeysWork == Spec => []ActiveKeysWork
  BY Invariance, PTL DEF IInv
=============================================================================
