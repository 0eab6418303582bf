---------------------------- MODULE UserAccounts ----------------------------
(***************************************************************************)
(* What the administrator writes about one user, and where it is kept: the *)
(* row of users, the rows of gateway_accounts that mirror the user of      *)
(* Sub2API, the wallet's ledger, and the user of Sub2API itself.           *)
(*                                                                         *)
(* UpdateUser and UpdateUserConcurrency write here, then there, then the   *)
(* mirror; GrantUserBalance writes the ledger, then credits Sub2API; what  *)
(* fails there becomes an operation, which the worker runs later by the    *)
(* same code.  SyncSub2APIUsers copies the other way.                      *)
(*                                                                         *)
(* External: Sub2API (the update of a user, and a credit applied once per  *)
(* idempotency key).  A user's keys are in KeyRotation, a redemption's way *)
(* to Sub2API in RedemptionSync and the queue's rows in OperationRow.  One *)
(* gateway group is configured, so a group is never missing.  The lock     *)
(* EnsureSub2APIAccount takes is in GatewayCredential and not here: it can *)
(* expire under its holder, and SyncUserPolicyRemote's own writes do not   *)
(* take it.                                                                *)
(***************************************************************************)
EXTENDS Integers, Sequences, FiniteSets

CONSTANTS
    Handlers,        \* requests in progress at a time
    Worker,          \* the process that runs queued operations
    None,            \* nothing there
    Keys,            \* idempotency keys a grant can carry; None: it carries none
    Amounts,         \* amounts of a grant or of a code
    Levels,          \* concurrency an administrator can choose (1 to 500 in the code)
    ManagedLevel,    \* ManagedUserConcurrency, the level of a new account
    Traffic,         \* mixes of the kinds of request that arrive together
    MaxRequests,     \* bound: requests that arrive
    MaxAccounts,     \* bound: rows of gateway_accounts
    MaxFaults        \* bound: failing calls and requests that die

Kinds == {"status", "level", "grant", "redeem", "sync", "delete"}

ASSUME AccountAssumption ==
    /\ Worker \notin Handlers
    /\ Amounts \subseteq Nat \ {0}
    /\ Levels \cup {ManagedLevel} \subseteq Nat \ {0}
    /\ None \notin Keys \cup Handlers
    /\ Traffic \subseteq SUBSET Kinds
    /\ MaxRequests \in Nat /\ MaxAccounts \in Nat /\ MaxFaults \in Nat

Statuses == {"active", "disabled"}
Transactions == 1 .. MaxRequests
Processes == Handlers \cup {Worker}

VARIABLES
    user,      \* users.status, or "deleted"
    accounts,  \* gateway_accounts, in the order of their ids
    remote,    \* the user of Sub2API
    ledger,    \* wallet_transactions, in the order of their commits
    ops,       \* gateway_operations, by what their idempotency key is made of
    owed,      \* redemptions not yet credited at Sub2API
    rowLock,   \* who holds SELECT ... FOR UPDATE on the row of users
    proc,      \* the processes
    traffic,   \* the kinds that have arrived
    causes,    \* ghost: what went wrong that the code tells nobody
    requests, faults

vars == <<user, accounts, remote, ledger, ops, owed, rowLock, proc, traffic, causes,
          requests, faults>>
bounds == <<traffic, requests, faults>>

\* What a call to Sub2API is about, and what the key of its retry is made of: the
\* values of a policy (a status or a level), the transaction of a grant.
Call(status, level, tx) == [status |-> status, level |-> level, tx |-> tx]
NoCall == Call("", 0, 0)
Policies == {Call(s, 0, 0) : s \in Statuses} \cup {Call("", l, 0) : l \in Levels}
OpKeys == Policies \cup {Call("", 0, t) : t \in Transactions}
IsStatus(call) == call.status # ""

NoUser == [status |-> "disabled", level |-> 0, balance |-> 0, credited |-> {}, no |-> 0]
NewUser == [NoUser EXCEPT !.status = "active", !.level = ManagedLevel]
NewAccount == [status |-> "active", level |-> ManagedLevel]
Idle == [pc |-> "idle", call |-> NoCall, key |-> None, amount |-> 0,
         sync |-> TRUE, sum |-> 0, snap |-> NoUser, no |-> 0, level |-> 0]
NoOp == [status |-> "none", amount |-> 0, no |-> 0]

Init ==
    /\ user = "active"
    /\ \/ accounts = << >> /\ remote = NoUser
       \/ accounts = <<NewAccount>> /\ remote = NewUser
    /\ ledger = << >>
    /\ ops = [k \in OpKeys |-> NoOp]
    /\ owed = {}
    /\ rowLock = None
    /\ proc = [p \in Processes |-> Idle]
    /\ traffic = {}
    /\ causes = {}
    /\ requests = 0
    /\ faults = 0

-----------------------------------------------------------------------------
At(p, pc) == proc[p].pc = pc
Goto(p, pc) == proc' = [proc EXCEPT ![p].pc = pc]
Fault == faults < MaxFaults /\ faults' = faults + 1 /\ UNCHANGED <<traffic, requests>>
Arrives(h, kind) ==
    /\ At(h, "idle")
    /\ requests < MaxRequests
    /\ requests' = requests + 1
    /\ traffic' = traffic \cup {kind}
    /\ \E mix \in Traffic : traffic' \subseteq mix
    /\ UNCHANGED faults

Exists == user # "deleted"
RemoteExists == remote.level # 0
ActiveRows == {i \in DOMAIN accounts : accounts[i].status = "active"}

\* coalesce(sum(amount), 0)
Balance(rows) ==
    LET sum[n \in 0 .. Len(rows)] == IF n = 0 THEN 0 ELSE sum[n - 1] + rows[n].amount
    IN sum[Len(rows)]

-----------------------------------------------------------------------------
(***************************************************************************)
(* The end of a call                                                       *)
(***************************************************************************)
IsGrant(p) == proc[p].call.tx # 0

Done(p) ==
    /\ proc' = [proc EXCEPT ![p] = Idle]
    /\ ops' = IF p = Worker THEN [ops EXCEPT ![proc[p].call].status = "succeeded"] ELSE ops

\* CreateFailed: ON CONFLICT (idempotency_key) the old row stays as it is.  A
\* row that waits will send what this call wanted sent, for the newest request
\* that wants it; any other will not.
Enqueued(op, status, p) ==
    CASE op.status = "none" -> [status |-> status, amount |-> proc[p].amount, no |-> proc[p].no]
      [] op.status = "failed" -> [op EXCEPT !.no = IF @ < proc[p].no THEN proc[p].no ELSE @]
      [] OTHER -> op

\* enqueueUserPolicyRetry, enqueueBalanceGrantRetry: dead_letter when the error
\* is not classified as retryable; user_id refers to the row of users.  The callers
\* drop the error of the INSERT, which runs in the request's own context: a request
\* that was cancelled loses the call and its retry together.
QueueRetry(p, more) ==
    /\ proc' = [proc EXCEPT ![p] = Idle]
    /\ \/ \E status \in {"failed", "dead_letter"} :
             LET op == ops[proc[p].call]
             IN /\ ops' = IF Exists THEN [ops EXCEPT ![proc[p].call] = Enqueued(op, status, p)]
                          ELSE ops
                /\ causes' = causes \cup more
                     \cup (IF op.status = "none" /\ status = "dead_letter" THEN {"dead"} ELSE {})
                     \cup (IF op.status \notin {"none", "failed"} THEN {"absorbed"} ELSE {})
       \/ UNCHANGED ops /\ causes' = causes \cup more \cup {"unqueued"}

\* the runner's MarkFailed
MarkFailed(p, more) ==
    \E status \in {"failed", "dead_letter"} :
       /\ proc' = [proc EXCEPT ![p] = Idle]
       /\ ops' = [ops EXCEPT ![proc[p].call].status = status]
       /\ causes' = causes \cup more \cup (IF status = "dead_letter" THEN {"dead"} ELSE {})

Errs(p, more) == IF p = Worker THEN MarkFailed(p, more) ELSE QueueRetry(p, more)

\* the level EnsureSub2APIAccount has sent is not the one of the newest row
Unmirrored(p) ==
    IF accounts # << >> /\ accounts[Len(accounts)].level # proc[p].level THEN {"stale"} ELSE {}

\* a call to Postgres or to Sub2API fails without an effect
CallFails(p) ==
    /\ proc[p].pc \in {"load", "check", "ensure", "policy", "create", "bind", "send", "save", "credit"}
    /\ Fault
    /\ Errs(p, IF At(p, "bind") THEN Unmirrored(p) ELSE {})
    /\ UNCHANGED <<user, accounts, remote, ledger, owed, rowLock>>

-----------------------------------------------------------------------------
(***************************************************************************)
(* UpdateUser and UpdateUserConcurrency                                    *)
(***************************************************************************)
\* UpdateUser: UpdateStatus waits for whoever has locked the row
UpdateUser(h, status) ==
    /\ Arrives(h, "status") /\ Exists /\ rowLock = None
    /\ user' = status
    /\ proc' = [proc EXCEPT ![h] = [Idle EXCEPT !.pc = "load", !.call = Call(status, 0, 0),
                                                !.no = requests + 1]]
    /\ UNCHANGED <<accounts, remote, ledger, ops, owed, rowLock, causes>>

UpdateUserConcurrency(h, level) ==
    /\ Arrives(h, "level") /\ user = "active"
    /\ proc' = [proc EXCEPT ![h] = [Idle EXCEPT !.pc = "load", !.call = Call("", level, 0)]]
    /\ UNCHANGED <<user, accounts, remote, ledger, ops, owed, rowLock, causes>>

\* SyncUserPolicyRemote up to the account: with a group EnsureSub2APIAccount;
\* without one any row will do; without a row there is nothing to disable
LoadAccount(p) ==
    /\ At(p, "load")
    /\ IF ~Exists
       THEN Errs(p, {})
       ELSE IF IsStatus(proc[p].call) /\ accounts # << >>
       THEN Goto(p, "send") /\ UNCHANGED <<ops, causes>>
       ELSE IF proc[p].call.status = "disabled"
       THEN Done(p) /\ causes' = causes \cup {"missed"}
       ELSE Goto(p, "ensure") /\ UNCHANGED <<ops, causes>>
    /\ UNCHANGED <<user, accounts, remote, ledger, owed, rowLock, bounds>>

\* somebody has sent Sub2API a level and not yet written the mirror
Writing(q) ==
    proc[q].pc \in {"mirror", "bind"} \/ (At(q, "save") /\ ~IsStatus(proc[q].call))

Overlap(p) == IF \E q \in Processes \ {p} : Writing(q) THEN {"overlap"} ELSE {}

\* EnsureSub2APIAccount reads the active row: the level it sends is that row's, or
\* the one of a new account
EnsureAccount(p) ==
    /\ At(p, "ensure")
    /\ \/ \E i \in ActiveRows :
             proc' = [proc EXCEPT ![p].pc = "policy", ![p].level = accounts[i].level]
       \/ /\ ActiveRows = {}
          /\ proc' = [proc EXCEPT ![p].pc = "create", ![p].level = ManagedLevel]
    /\ UNCHANGED <<user, accounts, remote, ledger, ops, owed, rowLock, causes, bounds>>

\* its call to Sub2API, where a user without an active row is found by his email or
\* created
EnsuredRemote(p) ==
    IF RemoteExists THEN [remote EXCEPT !.level = proc[p].level] ELSE NewUser

EnsurePolicy(p) ==
    /\ At(p, "policy")
    /\ remote' = EnsuredRemote(p)
    /\ causes' = causes \cup Overlap(p) \cup Unmirrored(p)
    /\ Goto(p, "mirror")
    /\ UNCHANGED <<user, accounts, ledger, ops, owed, rowLock, bounds>>

EnsureUser(p) ==
    /\ At(p, "create")
    /\ remote' = EnsuredRemote(p)
    /\ causes' = causes \cup Overlap(p)
    /\ Goto(p, "bind")
    /\ UNCHANGED <<user, accounts, ledger, ops, owed, rowLock, bounds>>

EnsureAnswerLost(p) ==
    /\ At(p, "policy") \/ At(p, "create")
    /\ Fault
    /\ remote' = EnsuredRemote(p)
    /\ Errs(p, Overlap(p) \cup Unmirrored(p))
    /\ UNCHANGED <<user, accounts, ledger, owed, rowLock>>

\* the account is there: on to what it was wanted for
Onward(p) ==
    proc' = [proc EXCEPT ![p].pc = IF IsGrant(p) THEN "credit" ELSE "send", ![p].level = 0]

\* the UPDATE of the rows by the level read before: all of them when the default
\* group changes too, else those that are active
MirroredLevel(level, all) ==
    [i \in DOMAIN accounts |-> IF all \/ i \in ActiveRows THEN [accounts[i] EXCEPT !.level = level]
                               ELSE accounts[i]]

MirrorLevel(p) ==
    /\ At(p, "mirror")
    /\ \E all \in BOOLEAN : accounts' = MirroredLevel(proc[p].level, all)
    /\ Onward(p)
    /\ UNCHANGED <<user, remote, ledger, ops, owed, rowLock, causes, bounds>>

\* ... whose error is ignored
MirrorFails(p) ==
    /\ At(p, "mirror") /\ Fault
    /\ Onward(p)
    /\ UNCHANGED <<user, accounts, remote, ledger, ops, owed, rowLock, causes>>

\* mutant: the foreign key on users is missing
BoundAnyway == IF ActiveRows = {} THEN Append(accounts, NewAccount) ELSE accounts

\* mutant: no row is looked for
BoundAgain == IF Exists THEN Append(accounts, NewAccount) ELSE accounts

\* the INSERT: only the active row of a user is looked for, so that a disabled one
\* gets a twin; an active one that has come since stays alone; a deleted user has none
Bound ==
    IF ActiveRows = {} /\ Exists
    THEN Append(accounts, NewAccount) ELSE accounts

BindAccount(p) ==
    /\ At(p, "bind")
    /\ ActiveRows = {} => Len(accounts) < MaxAccounts
    /\ accounts' = Bound
    /\ IF Exists
       THEN /\ Onward(p)
            /\ causes' = causes \cup (IF ActiveRows # {} THEN Unmirrored(p) ELSE {})
            /\ UNCHANGED ops
       ELSE Errs(p, {})
    /\ UNCHANGED <<user, remote, ledger, owed, rowLock, bounds>>

\* what client.UpdateUser does; a status older than the last one sent overtakes it
SentRemote(p) ==
    IF IsStatus(proc[p].call)
    THEN [remote EXCEPT !.status = proc[p].call.status, !.no = proc[p].no]
    ELSE [remote EXCEPT !.level = proc[p].call.level]

SendCauses(p) ==
    IF ~IsStatus(proc[p].call) THEN Overlap(p)
    ELSE IF proc[p].no < remote.no THEN {"overtaken"} ELSE {}

SendPolicy(p) ==
    /\ At(p, "send")
    /\ remote' = SentRemote(p)
    /\ causes' = causes \cup SendCauses(p)
    /\ Goto(p, "save")
    /\ UNCHANGED <<user, accounts, ledger, ops, owed, rowLock, bounds>>

\* the update is made and its answer is lost
SendAnswerLost(p) ==
    /\ At(p, "send") /\ Fault
    /\ remote' = SentRemote(p)
    /\ Errs(p, SendCauses(p))
    /\ UNCHANGED <<user, accounts, ledger, owed, rowLock>>

\* mutant: the level is not written
MirroredStatus(call) ==
    [i \in DOMAIN accounts |-> IF IsStatus(call) THEN [accounts[i] EXCEPT !.status = call.status]
                               ELSE accounts[i]]

\* UPDATE gateway_accounts: every row of the user, whatever its status
Mirrored(call) ==
    [i \in DOMAIN accounts |-> IF IsStatus(call) THEN [accounts[i] EXCEPT !.status = call.status]
                               ELSE [accounts[i] EXCEPT !.level = call.level]]

\* idx_gateway_accounts_provider_user_active: one active row
Unique(rows) == Cardinality({i \in DOMAIN rows : rows[i].status = "active"}) <= 1

SaveMirror(p) ==
    /\ At(p, "save")
    /\ LET rows == Mirrored(proc[p].call)
       IN IF Unique(rows)
          THEN accounts' = rows /\ Done(p) /\ UNCHANGED causes
          ELSE Errs(p, {}) /\ UNCHANGED accounts
    /\ UNCHANGED <<user, remote, ledger, owed, rowLock, bounds>>

-----------------------------------------------------------------------------
(***************************************************************************)
(* GrantUserBalance                                                        *)
(***************************************************************************)
GrantUserBalance(h, amount, key, sync) ==
    /\ Arrives(h, "grant") /\ user = "active"
    /\ proc' = [proc EXCEPT ![h] = [Idle EXCEPT !.pc = "lock", !.amount = amount, !.key = key,
                                                !.sync = sync, !.no = requests + 1]]
    /\ UNCHANGED <<user, accounts, remote, ledger, ops, owed, rowLock, causes>>

Row(p, kind, amount, after) ==
    [id |-> proc[p].no, kind |-> kind, amount |-> amount, after |-> after,
     key |-> proc[p].key, sync |-> proc[p].sync]

\* mutant: the ledger is read without a lock on the user
LockNothing(h) == rowLock = None /\ UNCHANGED rowLock

\* SELECT id FROM users ... FOR UPDATE
LockUser(h) == rowLock = None /\ rowLock' = h

\* mutant: the reference is not looked up
NotLookedUp(key) == {}

\* loadAdminBalanceGrantByReference; a grant without a key is never found
Granted(key) == {i \in DOMAIN ledger : key # None /\ ledger[i].key = key}

\* the answer, when Sub2API is not to be told; else SyncAdminBalanceGrantRemote
AfterGrant(h, id) ==
    proc' = [proc EXCEPT ![h] = IF proc[h].sync
                                THEN [Idle EXCEPT !.pc = "check", !.call = Call("", 0, id),
                                                  !.amount = proc[h].amount]
                                ELSE Idle]

\* insertAdminBalanceGrant up to the sum: a grant of this key is returned as it is
ReadLedger(h) ==
    /\ At(h, "lock")
    /\ IF Granted(proc[h].key) # {}
       THEN /\ rowLock = None /\ UNCHANGED rowLock
            /\ \E i \in Granted(proc[h].key) : AfterGrant(h, ledger[i].id)
       ELSE /\ LockUser(h)
            /\ proc' = [proc EXCEPT ![h].pc = "insert", ![h].sum = Balance(ledger)]
    /\ UNCHANGED <<user, accounts, remote, ledger, ops, owed, causes, bounds>>

\* ... and its INSERT, whatever the user's status is by now; ON CONFLICT DO NOTHING
InsertGrant(h) ==
    /\ At(h, "insert")
    /\ rowLock' = None
    /\ LET row == Row(h, "grant", proc[h].amount, proc[h].sum + proc[h].amount)
           twins == Granted(proc[h].key)
       IN IF Exists
          THEN /\ ledger' = IF twins = {} THEN Append(ledger, row) ELSE ledger
               /\ \E id \in IF twins = {} THEN {row.id} ELSE {ledger[i].id : i \in twins} :
                     AfterGrant(h, id)
          ELSE UNCHANGED ledger /\ proc' = [proc EXCEPT ![h] = Idle]
    /\ UNCHANGED <<user, accounts, remote, ops, owed, causes, bounds>>

\* SyncAdminBalanceGrantRemote up to the account
CheckUser(p) ==
    /\ At(p, "check")
    /\ IF user = "active" THEN Goto(p, "ensure") /\ UNCHANGED <<ops, causes>>
       ELSE Errs(p, {})
    /\ UNCHANGED <<user, accounts, remote, ledger, owed, rowLock, bounds>>

\* client.UpdateUserBalance under the key of the transaction: the amount is the
\* request's, which need not be the one in the ledger
Credited(id, amount) ==
    IF id \in remote.credited THEN remote
    ELSE [remote EXCEPT !.balance = @ + amount, !.credited = @ \cup {id}]

CreditGrant(p) ==
    /\ At(p, "credit")
    /\ remote' = Credited(proc[p].call.tx, proc[p].amount)
    /\ Done(p)
    /\ UNCHANGED <<user, accounts, ledger, owed, rowLock, causes, bounds>>

CreditAnswerLost(p) ==
    /\ At(p, "credit") /\ Fault
    /\ remote' = Credited(proc[p].call.tx, proc[p].amount)
    /\ Errs(p, {})
    /\ UNCHANGED <<user, accounts, ledger, owed, rowLock>>

-----------------------------------------------------------------------------
(***************************************************************************)
(* The other writers of the ledger: they lock nothing before they read it. *)
(* An INSERT waits for the lock of a grant all the same, through its       *)
(* foreign key on users.                                                   *)
(***************************************************************************)
\* markRedeemedLocally up to the sum
Redeem(h, amount) ==
    /\ Arrives(h, "redeem") /\ user = "active"
    /\ proc' = [proc EXCEPT ![h] = [Idle EXCEPT !.pc = "redeem", !.amount = amount,
                                        !.sum = Balance(ledger), !.no = requests + 1]]
    /\ UNCHANGED <<user, accounts, remote, ledger, ops, owed, rowLock, causes>>

MarkRedeemedLocally(h) ==
    /\ At(h, "redeem") /\ rowLock = None
    /\ proc' = [proc EXCEPT ![h] = Idle]
    /\ IF Exists
       THEN /\ ledger' = Append(ledger, Row(h, "redeem", proc[h].amount,
                                            proc[h].sum + proc[h].amount))
            /\ owed' = owed \cup {[id |-> proc[h].no, amount |-> proc[h].amount]}
       ELSE UNCHANGED <<ledger, owed>>
    /\ UNCHANGED <<user, accounts, remote, ops, rowLock, causes, bounds>>

\* RedemptionSync brings it to Sub2API
CreditRedemption(r) ==
    /\ user = "active" /\ RemoteExists
    /\ remote' = Credited(r.id, r.amount)
    /\ owed' = owed \ {r}
    /\ UNCHANGED <<user, accounts, ledger, ops, rowLock, proc, causes, bounds>>

\* SyncSub2APIUsers: a page of Sub2API's users ...
SyncSub2APIUsers(h) ==
    /\ Arrives(h, "sync") /\ RemoteExists
    /\ proc' = [proc EXCEPT ![h] = [Idle EXCEPT !.pc = "match", !.snap = remote,
                                                !.no = requests + 1]]
    /\ UNCHANGED <<user, accounts, remote, ledger, ops, owed, rowLock, causes>>

\* ... SyncSub2APIUser for each, up to the sum; a user not known here is skipped
ReadBalance(h) ==
    /\ At(h, "match")
    /\ proc' = [proc EXCEPT ![h] = IF Exists THEN [@ EXCEPT !.pc = "adjust", !.sum = Balance(ledger)]
                                   ELSE Idle]
    /\ UNCHANGED <<user, accounts, remote, ledger, ops, owed, rowLock, causes, bounds>>

\* the newest row becomes a copy of what was read from Sub2API
Copied(snap) ==
    LET row == [status |-> snap.status, level |-> snap.level]
    IN IF accounts = << >> THEN <<row>> ELSE [accounts EXCEPT ![Len(accounts)] = row]

Stale(snap) ==
    IF snap.status # remote.status \/ snap.level # remote.level THEN {"stale"} ELSE {}

\* the difference is booked; the transaction fails on a second active row or
\* on a user who is gone
AdjustBalance(h) ==
    /\ At(h, "adjust") /\ rowLock = None
    /\ accounts = << >> => Len(accounts) < MaxAccounts
    /\ LET snap == proc[h].snap
           delta == snap.balance - proc[h].sum
       IN IF Exists /\ Unique(Copied(snap))
          THEN /\ accounts' = Copied(snap)
               /\ ledger' = IF delta = 0 THEN ledger
                            ELSE Append(ledger, Row(h, "sync", delta, snap.balance))
               /\ causes' = causes \cup Stale(snap) \cup Overlap(h)
          ELSE UNCHANGED <<accounts, ledger, causes>>
    /\ proc' = [proc EXCEPT ![h] = Idle]
    /\ UNCHANGED <<user, remote, ops, owed, rowLock, bounds>>

-----------------------------------------------------------------------------
\* ON DELETE CASCADE
DeleteRows == accounts' = << >> /\ ledger' = << >> /\ owed' = {}

\* DeleteUser: here only, Sub2API keeps the user
DeleteUser(h) ==
    /\ Arrives(h, "delete") /\ Exists /\ rowLock = None
    /\ user' = "deleted"
    /\ DeleteRows
    /\ UNCHANGED <<remote, ops, rowLock, proc, causes>>

\* a request dies with its server: nothing knows what it had still to do
Crash(h) ==
    /\ ~At(h, "idle") /\ Fault
    /\ proc' = [proc EXCEPT ![h] = Idle]
    /\ rowLock' = IF rowLock = h THEN None ELSE rowLock
    /\ causes' = causes \cup {"crashed"}
    /\ UNCHANGED <<user, accounts, remote, ledger, ops, owed>>

\* the worker claims a due operation and runs it by the same code
Claim(k) ==
    /\ At(Worker, "idle") /\ ops[k].status = "failed"
    /\ ops' = [ops EXCEPT ![k].status = "running"]
    /\ proc' = [proc EXCEPT ![Worker] =
          IF k \in Policies THEN [Idle EXCEPT !.pc = "load", !.call = k, !.no = ops[k].no]
          ELSE [Idle EXCEPT !.pc = "check", !.call = k, !.amount = ops[k].amount]]
    /\ UNCHANGED <<user, accounts, remote, ledger, owed, rowLock, causes, bounds>>

-----------------------------------------------------------------------------
Step(p) ==
    \/ CallFails(p)
    \/ LoadAccount(p)
    \/ EnsureAccount(p)
    \/ EnsurePolicy(p)
    \/ EnsureUser(p)
    \/ EnsureAnswerLost(p)
    \/ MirrorLevel(p)
    \/ MirrorFails(p)
    \/ BindAccount(p)
    \/ SendPolicy(p)
    \/ SendAnswerLost(p)
    \/ SaveMirror(p)
    \/ CheckUser(p)
    \/ CreditGrant(p)
    \/ CreditAnswerLost(p)

Request(h) ==
    \/ \E status \in Statuses : UpdateUser(h, status)
    \/ \E level \in Levels : UpdateUserConcurrency(h, level)
    \/ \E amount \in Amounts, key \in Keys \cup {None}, sync \in BOOLEAN :
          GrantUserBalance(h, amount, key, sync)
    \/ \E amount \in Amounts : Redeem(h, amount)
    \/ SyncSub2APIUsers(h)
    \/ DeleteUser(h)
    \/ ReadLedger(h)
    \/ InsertGrant(h)
    \/ MarkRedeemedLocally(h)
    \/ ReadBalance(h)
    \/ AdjustBalance(h)
    \/ Crash(h)

Next ==
    \/ \E p \in Processes : Step(p)
    \/ \E h \in Handlers : Request(h)
    \/ \E k \in OpKeys : Claim(k)
    \/ \E r \in owed : CreditRedemption(r)

Spec == Init /\ [][Next]_vars

-----------------------------------------------------------------------------
(***************************************************************************)
(* Properties                                                              *)
(***************************************************************************)
Causes == {"dead", "absorbed", "unqueued", "missed", "overlap", "overtaken", "stale", "crashed"}
Pcs == {"idle", "load", "ensure", "policy", "create", "mirror", "bind", "send", "save",
        "lock", "insert", "check", "credit", "redeem", "match", "adjust"}
Rows == [status : Statuses, level : Levels \cup {ManagedLevel}]

\* Types; the partial unique index allows one active account.
TypeOK ==
    /\ user \in Statuses \cup {"deleted"}
    /\ accounts \in Seq(Rows) /\ Unique(accounts)
    /\ remote.status \in Statuses /\ remote.balance \in Int
    /\ remote.credited \subseteq Transactions
    /\ \A i \in DOMAIN ledger : ledger[i].id \in Transactions /\ ledger[i].after \in Int
    /\ \A k \in OpKeys : ops[k].status \in {"none", "failed", "running", "succeeded", "dead_letter"}
    /\ rowLock \in Handlers \cup {None}
    /\ \A p \in Processes : proc[p].pc \in Pcs
    /\ causes \subseteq Causes

\* Nobody is at work and the worker has nothing left to do.
Quiet ==
    /\ \A p \in Processes : At(p, "idle")
    /\ \A k \in OpKeys : ops[k].status \notin {"failed", "running"}

\* UpdateUser, SyncUserPolicyRemote, EnsureSub2APIAccount and SyncSub2APIUser: once
\* everything has come to rest, Sub2API has the status of the row of users and the
\* active account mirrors the level at Sub2API, unless one of these happened: an
\* operation was given up; a retry found an old operation with the same values, or
\* could not be queued; a server died; of the status: the disabling found no account
\* yet, or a status was sent after a newer one; of the level: two writers overlapped
\* between Sub2API and the mirror, or what was copied or sent had been read before
\* another change.
CopiesDivergeForACause ==
    LET known == {"dead", "absorbed", "unqueued", "crashed"} IN
    Quiet =>
       /\ Exists /\ RemoteExists /\ remote.status # user
             => causes \cap (known \cup {"missed", "overtaken"}) # {}
       /\ (\E i \in ActiveRows : accounts[i].level # remote.level)
             => causes \cap (known \cup {"overlap", "stale"}) # {}

\* insertAdminBalanceGrant: balance_after of a grant is the sum of the ledger up
\* to its row, whatever redemptions and copies are written at the same time.
GrantBalanceIsExact ==
    \A i \in DOMAIN ledger :
       ledger[i].kind = "grant" => ledger[i].after = Balance(SubSeq(ledger, 1, i))

\* GrantUserBalance: requests with one idempotency key, repeated, concurrent or
\* retried by the worker, write one row and credit Sub2API once; and a grant that is
\* to reach Sub2API is credited there, or a request or an operation will see to it,
\* or a dead letter shows it, or the server died, or the request could not queue its
\* retry, whose error the code drops.
GrantedExactlyOnce ==
    /\ \A k \in Keys : Cardinality({i \in DOMAIN ledger : ledger[i].key = k}) <= 1
    /\ \A i, j \in DOMAIN ledger :
          /\ i # j
          /\ {ledger[i].id, ledger[j].id} \subseteq remote.credited
          => ledger[i].key = None \/ ledger[i].key # ledger[j].key
    /\ \A i \in DOMAIN ledger :
          ledger[i].kind = "grant" /\ ledger[i].sync =>
             \/ ledger[i].id \in remote.credited
             \/ \E p \in Processes : proc[p].call.tx = ledger[i].id
             \/ ops[Call("", 0, ledger[i].id)].status \in {"failed", "running", "dead_letter"}
             \/ causes \cap {"crashed", "unqueued"} # {}

\* DeleteUser: nothing about a deleted user is written any more by requests and
\* operations that were under way.
DeletedLeavesNothing ==
    user = "deleted" => accounts = << >> /\ ledger = << >> /\ owed = {}
=============================================================================
