------------------------- MODULE UserAccountsProofs -------------------------
(***************************************************************************)
(* A user's status, level, ledger and account, here and at Sub2API, for    *)
(* every set of requests, keys, amounts and levels and for every bound.    *)
(*                                                                         *)
(* Grants: the INSERT itself finds the row of its key or writes the only   *)
(* one (Keyed); a grant that is not credited is carried by a request or an *)
(* operation, and an operation succeeds only after the credit (Followed,   *)
(* Succeeded).  Level: the newest account alone can be active (Accounts),  *)
(* and one writer at a time is between Sub2API and the mirror unless an    *)
(* overlap was recorded (Alone), so the newest account has the level of    *)
(* Sub2API or somebody is about to write it (LevelFollows).  Status: Story *)
(* numbers the requests that set it; what Sub2API has is the newest one's, *)
(* or that one is still on its way.  Ledger: a grant that has read it      *)
(* holds the user's row, which everyone who writes to it waits for (Held), *)
(* so that balance_after is the sum up to its row (Booked).                *)
(***************************************************************************)
EXTENDS UserAccounts, FiniteSetTheorems, SequenceTheorems, WellFoundedInduction, TLAPS

\* What a process is at while it carries a policy, a grant, or nothing for Sub2API yet.
Grants == {Call("", 0, t) : t \in Transactions}
Carrying == {"load", "ensure", "policy", "create", "mirror", "bind", "send", "save",
             "check", "credit"}

ProcShaped(r) ==
    r = [pc |-> r.pc, call |-> r.call, key |-> r.key, amount |-> r.amount, sync |-> r.sync,
         sum |-> r.sum, snap |-> r.snap, no |-> r.no, level |-> r.level]

Stage(r) ==
    /\ r.pc \in Pcs /\ r.no \in Nat
    /\ r.pc \in {"load", "send", "save"} => r.call \in Policies
    /\ r.pc \in {"check", "credit"} => r.call \in Grants
    /\ r.pc \in {"ensure", "policy", "create", "mirror", "bind"} => r.call \in OpKeys
    /\ r.pc \in {"policy", "create", "mirror", "bind"} => r.level \in Nat \ {0}
    /\ r.pc \in {"create", "bind"} => r.level = ManagedLevel
    /\ r.pc \notin Carrying => r.call = NoCall
    /\ r.pc \in {"lock", "insert", "redeem", "match", "adjust"} => r.no \in Transactions
    /\ r.pc \in {"redeem", "match", "adjust"} => r.key = None
    /\ r.pc \in {"match", "adjust"} => r.snap.level \in Nat \ {0} /\ r.snap.status \in Statuses

OpShaped(op) ==
    /\ op = [status |-> op.status, amount |-> op.amount, no |-> op.no] /\ op.no \in Nat
    /\ op.status \in {"none", "failed", "running", "succeeded", "dead_letter"}

Procs == DOMAIN proc = Processes /\ \A p \in Processes : ProcShaped(proc[p]) /\ Stage(proc[p])

Ops == DOMAIN ops = OpKeys /\ \A k \in OpKeys : OpShaped(ops[k])

\* Only the newest account is active.
AccountRow == [status : Statuses, level : Nat \ {0}]
Accounts ==
    /\ accounts \in Seq(AccountRow)
    /\ \A i \in DOMAIN accounts : accounts[i].status = "active" => i = Len(accounts)

Ledger ==
    /\ \E S : ledger \in Seq(S)
    /\ \A i \in DOMAIN ledger : ledger[i].id \in Transactions

\* Before there is a user of Sub2API nothing is known of him; once there he stays.
RemoteFit(u) ==
    /\ u = [status |-> u.status, level |-> u.level, balance |-> u.balance,
            credited |-> u.credited, no |-> u.no]
    /\ u.level \in Nat /\ u.no \in Nat /\ u.status \in Statuses
    /\ u.level = 0 => u.credited = {} /\ u.no = 0

Remote ==
    /\ RemoteFit(remote)
    /\ remote.level = 0 =>
          /\ accounts = << >>
          /\ \A p \in Processes :
                proc[p].pc \notin {"policy", "mirror", "bind", "send", "save", "credit",
                                    "match", "adjust"}

\* The worker runs an operation that is running.
Working ==
    /\ proc[Worker].pc \in Carrying \cup {"idle"}
    /\ proc[Worker].pc # "idle" =>
          /\ ops[proc[Worker].call].status = "running"
          /\ IsStatus(proc[Worker].call) => ops[proc[Worker].call].no = proc[Worker].no

Basic ==
    /\ Procs /\ Ops /\ Accounts /\ Ledger /\ Remote /\ Working
    /\ requests \in Nat /\ user \in Statuses \cup {"deleted"} /\ DeletedLeavesNothing

\* A row's idempotency key is its own.
Keyed ==
    \A i, j \in DOMAIN ledger : ledger[i].key = ledger[j].key => ledger[i].key = None \/ i = j

\* An operation that has succeeded has credited its grant.
Succeeded ==
    \A t \in Transactions : ops[Call("", 0, t)].status = "succeeded" => t \in remote.credited

\* A grant that is to reach Sub2API is there, or on its way, or known not to be.
Due(x) == x.kind = "grant" /\ x.sync

Pursued(n) ==
    \/ n \in remote.credited
    \/ \E p \in Processes : proc[p].call.tx = n
    \/ ops[Call("", 0, n)].status \in {"failed", "running", "dead_letter"}
    \/ causes \cap {"crashed", "unqueued"} # {}

Followed == \A i \in DOMAIN ledger : Due(ledger[i]) => Pursued(ledger[i].id)

GivenUp == causes \cap {"dead", "absorbed", "unqueued", "crashed"} # {}

\* The newest account, the only one that can be active, has this level.
Newest(level) == accounts = << >> \/ accounts[Len(accounts)].level = level

\* One writer at a time is between Sub2API and the mirror, and knows what Sub2API has; what
\* EnsureSub2APIAccount sent is the level of the newest account unless it was found stale.
Writes(r) == r.pc \in {"mirror", "bind"} \/ (r.pc = "save" /\ ~IsStatus(r.call))

Alone ==
    "overlap" \in causes \/ user = "deleted" \/
       /\ \A p, q \in Processes : Writes(proc[p]) /\ Writes(proc[q]) => p = q
       /\ \A p \in Processes :
             /\ proc[p].pc = "save" /\ ~IsStatus(proc[p].call) => remote.level = proc[p].call.level
             /\ proc[p].pc \in {"mirror", "bind"} => remote.level = proc[p].level
             /\ proc[p].pc = "mirror" => Newest(proc[p].level) \/ "stale" \in causes

\* The newest account mirrors the level, or somebody is about to make it do so.
Owes(r) == r.pc = "bind" \/ (r.pc = "save" /\ ~IsStatus(r.call))

LevelFollows ==
    \/ GivenUp \/ causes \cap {"overlap", "stale"} # {}
    \/ Newest(remote.level)
    \/ \E p \in Processes : Owes(proc[p])
    \/ \E k \in Policies : ~IsStatus(k) /\ ops[k].status \in {"failed", "running"}

\* The status a request asked for, by its number; last is the newest such request.
Underway == {"load", "ensure", "policy", "create", "mirror", "bind", "send"}

Waiting(status, n) ==
    \/ \E p \in Processes : /\ proc[p].pc \in Underway
                            /\ proc[p].call = Call(status, 0, 0) /\ proc[p].no = n
    \/ ops[Call(status, 0, 0)].status = "failed" /\ ops[Call(status, 0, 0)].no = n

Story(asked, last) ==
    /\ last <= requests /\ asked[last] = user /\ asked[0] = "active"
    /\ remote.no <= last /\ (remote.level # 0 => asked[remote.no] = remote.status)
    /\ \A p \in Processes :
          IsStatus(proc[p].call) => proc[p].no <= last /\ asked[proc[p].no] = proc[p].call.status
    /\ \A s \in Statuses :
          LET op == ops[Call(s, 0, 0)]
          IN op.status \in {"failed", "running"} => op.no <= last /\ asked[op.no] = s
    /\ remote.no = last \/ Waiting(asked[last], last)

StatusFollows ==
    \/ user = "deleted" \/ GivenUp \/ causes \cap {"missed", "overtaken"} # {}
    \/ \E asked \in [Nat -> Statuses], last \in Nat : Story(asked, last)

AccountInv ==
    Basic /\ Keyed /\ Succeeded /\ Followed /\ Alone /\ LevelFollows /\ StatusFollows

\* What calls look like.
LEMMA StatusCall ==
    ASSUME NEW s \in Statuses
    PROVE  /\ Call(s, 0, 0) \in Policies /\ Call(s, 0, 0) \in OpKeys
           /\ IsStatus(Call(s, 0, 0)) /\ Call(s, 0, 0).status = s /\ Call(s, 0, 0).tx = 0
BY DEF Policies, OpKeys, Call, IsStatus, Statuses

LEMMA LevelCall ==
    ASSUME NEW l \in Levels
    PROVE  /\ Call("", l, 0) \in Policies /\ ~IsStatus(Call("", l, 0))
           /\ Call("", l, 0).tx = 0
BY DEF Policies, Call, IsStatus

LEMMA GrantCall ==
    ASSUME NEW t \in Transactions
    PROVE  /\ Call("", 0, t) \in Grants /\ Call("", 0, t) \in OpKeys /\ t # 0 /\ t \in Nat
           /\ Call("", 0, t).tx = t /\ ~IsStatus(Call("", 0, t))
<1>1. t # 0 /\ t \in Nat
  BY AccountAssumption DEF Transactions
<1>2. Call("", 0, t) \in Grants /\ Call("", 0, t) \in OpKeys
  BY DEF Grants, OpKeys
<1>3. Call("", 0, t).tx = t /\ Call("", 0, t).status = ""
  BY DEF Call
<1> QED BY <1>1, <1>2, <1>3 DEF IsStatus

LEMMA NoneCalled == NoCall.tx = 0 /\ ~IsStatus(NoCall)
BY DEF NoCall, Call, IsStatus

LEMMA Policy ==
    ASSUME NEW k \in Policies
    PROVE  /\ k \in OpKeys /\ k.tx = 0
           /\ IsStatus(k) => k.status \in Statuses /\ k = Call(k.status, 0, 0)
           /\ ~IsStatus(k) => k.level \in Nat \ {0}
<1>1. k \in OpKeys
  BY DEF OpKeys
<1>2. CASE \E s \in Statuses : k = Call(s, 0, 0)
  BY <1>1, <1>2, StatusCall
<1>3. CASE \E l \in Levels : k = Call("", l, 0)
  <2>1. PICK l \in Levels : k = Call("", l, 0)
    BY <1>3
  <2>2. k.level = l
    BY <2>1 DEF Call
  <2>3. l \in Nat \ {0}
    BY AccountAssumption
  <2> QED BY <1>1, <2>1, <2>2, <2>3, LevelCall
<1> QED BY <1>2, <1>3 DEF Policies

LEMMA Grant ==
    ASSUME NEW k \in Grants
    PROVE  /\ k \in OpKeys /\ k.tx \in Transactions /\ k = Call("", 0, k.tx) /\ k.tx # 0
           /\ ~IsStatus(k) /\ k \notin Policies
<1>1. PICK t \in Transactions : k = Call("", 0, t)
  BY DEF Grants
<1>2. k.tx = t /\ t # 0 /\ ~IsStatus(k) /\ k \in OpKeys
  BY <1>1, GrantCall
<1> QED BY <1>1, <1>2, Policy

LEMMA OpKey ==
    ASSUME NEW k \in OpKeys
    PROVE  k \in Policies \/ k \in Grants
BY DEF OpKeys, Grants

LEMMA IdleIsFit ==
    ProcShaped(Idle) /\ Stage(Idle) /\ Idle.pc = "idle" /\ Idle.call = NoCall
    /\ Idle.no = 0
BY DEF ProcShaped, Stage, Idle, Carrying, Pcs

LEMMA ErrsMeans ==
    ASSUME Procs, Ops, NEW p \in Processes, NEW more, Errs(p, more),
           NEW c, c = proc[p].call, c \in OpKeys
    PROVE  /\ proc' = [proc EXCEPT ![p] = Idle]
           /\ Ops' /\ \A k \in OpKeys : k # c => ops'[k] = ops[k]
           /\ causes \subseteq causes' /\ more \subseteq causes'
           /\ p = Worker => /\ ops'[c].status \in {"failed", "dead_letter"} /\ ops'[c].no = ops[c].no
                            /\ ops'[c].status = "dead_letter" => "dead" \in causes'
           /\ p # Worker /\ Exists =>
                 \/ /\ ops[c].status = "none" /\ ops'[c].status \in {"failed", "dead_letter"}
                    /\ ops'[c].no = proc[p].no
                    /\ ops'[c].status = "dead_letter" => "dead" \in causes'
                 \/ /\ ops[c].status = "failed" /\ ops'[c].status = "failed"
                    /\ ops'[c].no \in {ops[c].no, proc[p].no}
                    /\ ops[c].no <= ops'[c].no /\ proc[p].no <= ops'[c].no
                 \/ /\ ops[c].status \notin {"none", "failed"} /\ ops'[c] = ops[c]
                    /\ "absorbed" \in causes'
                 \/ ops'[c] = ops[c] /\ "unqueued" \in causes'
           /\ p # Worker /\ ~Exists => ops' = ops
<1>0. /\ ops[c] = [status |-> ops[c].status, amount |-> ops[c].amount, no |-> ops[c].no]
      /\ ops[c].no \in Nat /\ proc[p].no \in Nat /\ DOMAIN ops = OpKeys
      /\ ops[c].status \in {"none", "failed", "running", "succeeded", "dead_letter"}
      /\ \A k \in OpKeys : OpShaped(ops[k])
  BY DEF Ops, OpShaped, Procs, Stage
<1>1. CASE p = Worker
  <2>1. PICK status \in {"failed", "dead_letter"} :
           /\ proc' = [proc EXCEPT ![p] = Idle]
           /\ ops' = [ops EXCEPT ![c].status = status]
           /\ causes' = causes \cup more \cup (IF status = "dead_letter" THEN {"dead"} ELSE {})
    BY <1>1 DEF Errs, MarkFailed
  <2>2. /\ DOMAIN ops' = OpKeys /\ \A k \in OpKeys : k # c => ops'[k] = ops[k]
        /\ ops'[c] = [ops[c] EXCEPT !.status = status]
    BY <1>0, <2>1
  <2>3. ops'[c] = [status |-> status, amount |-> ops[c].amount, no |-> ops[c].no]
    BY <1>0, <2>2
  <2>4. Ops'
    BY <1>0, <2>2, <2>3 DEF Ops, OpShaped
  <2> QED BY <1>0, <1>1, <2>1, <2>2, <2>3, <2>4
<1>2. CASE p # Worker /\ UNCHANGED ops /\ causes' = causes \cup more \cup {"unqueued"}
  <2>1. proc' = [proc EXCEPT ![p] = Idle]
    BY <1>2 DEF Errs, QueueRetry
  <2> QED BY <1>0, <1>2, <2>1 DEF Ops
<1>3. CASE p # Worker /\ ~(UNCHANGED ops /\ causes' = causes \cup more \cup {"unqueued"})
  <2>1. PICK status \in {"failed", "dead_letter"} :
           /\ proc' = [proc EXCEPT ![p] = Idle]
           /\ ops' = IF Exists THEN [ops EXCEPT ![c] = Enqueued(ops[c], status, p)] ELSE ops
           /\ causes' = causes \cup more
                \cup (IF ops[c].status = "none" /\ status = "dead_letter" THEN {"dead"} ELSE {})
                \cup (IF ops[c].status \notin {"none", "failed"} THEN {"absorbed"} ELSE {})
    BY <1>3 DEF Errs, QueueRetry
  <2>2. CASE ~Exists
    BY <1>0, <1>3, <2>1, <2>2 DEF Ops
  <2>3. CASE Exists
    <3>1. /\ DOMAIN ops' = OpKeys /\ \A k \in OpKeys : k # c => ops'[k] = ops[k]
          /\ ops'[c] = Enqueued(ops[c], status, p)
      BY <1>0, <2>1, <2>3
    <3>2. CASE ops[c].status = "none"
      <4>1. ops'[c] = [status |-> status, amount |-> proc[p].amount, no |-> proc[p].no]
        BY <3>1, <3>2 DEF Enqueued
      <4>2. Ops'
        BY <1>0, <3>1, <4>1 DEF Ops, OpShaped
      <4> QED BY <1>0, <1>3, <2>1, <2>3, <3>1, <3>2, <4>1, <4>2
    <3>3. CASE ops[c].status = "failed"
      <4>1. ops'[c] = [ops[c] EXCEPT !.no = IF @ < proc[p].no THEN proc[p].no ELSE @]
        BY <3>1, <3>3 DEF Enqueued
      <4>2. ops'[c] = [status |-> "failed", amount |-> ops[c].amount,
                       no |-> IF ops[c].no < proc[p].no THEN proc[p].no ELSE ops[c].no]
        BY <1>0, <3>3, <4>1
      <4>3. Ops'
        BY <1>0, <3>1, <4>2 DEF Ops, OpShaped
      <4> QED BY <1>0, <1>3, <2>1, <2>3, <3>1, <3>3, <4>2, <4>3
    <3>4. CASE ops[c].status \notin {"none", "failed"}
      <4>1. ops'[c] = ops[c]
        BY <3>1, <3>4 DEF Enqueued
      <4>2. Ops'
        BY <1>0, <3>1, <4>1 DEF Ops
      <4> QED BY <1>0, <1>3, <2>1, <2>3, <3>1, <3>4, <4>1, <4>2
    <3> QED BY <3>2, <3>3, <3>4
  <2> QED BY <2>2, <2>3
<1> QED BY <1>1, <1>2, <1>3

\* One process goes from one state to another and nothing else is written.
LEMMA MoveKeeps ==
    ASSUME AccountInv, NEW p \in Processes, NEW r,
           proc' = [proc EXCEPT ![p] = r], ProcShaped(r), Stage(r),
           requests' \in {requests, requests + 1},
           UNCHANGED <<user, accounts, remote, ledger, ops, causes, owed>>,
           p = Worker => r.pc \in Carrying /\ proc[p].pc # "idle" /\ r.call = proc[p].call
                            /\ r.no = proc[p].no,
           r.pc \notin {"mirror", "bind", "save"}, proc[p].pc \notin {"mirror", "bind", "save"},
           r.pc \in {"policy", "send", "credit", "match", "adjust"} => remote.level # 0,
           proc[p].call.tx # 0 => r.call.tx = proc[p].call.tx,
           IsStatus(r.call) \/ IsStatus(proc[p].call) =>
              r.call = proc[p].call /\ r.no = proc[p].no /\ r.pc \in Underway
    PROVE  AccountInv'
<1> USE DEF AccountInv
<1>1. /\ DOMAIN proc = Processes /\ DOMAIN proc' = Processes /\ proc'[p] = r
      /\ \A q \in Processes : q # p => proc'[q] = proc[q]
  BY DEF Basic, Procs
<1>2. requests \in Nat /\ requests' \in Nat /\ requests <= requests'
  BY DEF Basic
<1>3. Procs'
  BY <1>1 DEF Basic, Procs
<1>4. Ops' /\ Accounts' /\ Ledger' /\ DeletedLeavesNothing' /\ Keyed' /\ Succeeded'
  BY DEF Basic, Ops, Accounts, Ledger, DeletedLeavesNothing, Keyed, Succeeded
<1>5. Remote'
  BY <1>1 DEF Basic, Remote
<1>6. Working'
  BY <1>1 DEF Basic, Working
<1>7. Followed'
  <2>1. ASSUME NEW n, n # 0, Pursued(n)
        PROVE  Pursued(n)'
    BY <1>1, <2>1 DEF Pursued
  <2>2. \A i \in DOMAIN ledger : ledger[i].id # 0
    BY GrantCall DEF Basic, Ledger
  <2> QED BY <2>1, <2>2 DEF Followed
<1>8. Alone'
  BY <1>1 DEF Alone, Writes, Newest
<1>9. LevelFollows'
  <2>1. ASSUME NEW q \in Processes, Owes(proc[q])
        PROVE  Owes(proc'[q])
    BY <1>1, <2>1 DEF Owes
  <2> QED BY <2>1 DEF LevelFollows, GivenUp, Newest
<1>10. StatusFollows'
  <2>1. ASSUME NEW asked \in [Nat -> Statuses], NEW last \in Nat, Story(asked, last)
        PROVE  Story(asked, last)'
    <3>1. ASSUME NEW q \in Processes, IsStatus(proc'[q].call)
          PROVE  proc'[q].no <= last /\ asked[proc'[q].no] = proc'[q].call.status
      BY <1>1, <2>1, <3>1 DEF Story
    <3>2. Waiting(asked[last], last) => Waiting(asked[last], last)'
      <4>1. IsStatus(Call(asked[last], 0, 0))
        BY StatusCall
      <4> QED BY <1>1, <4>1 DEF Waiting, Underway
    <3> QED BY <1>2, <2>1, <3>1, <3>2 DEF Story
  <2> QED BY <2>1 DEF StatusFollows, GivenUp
<1> QED BY <1>2, <1>3, <1>4, <1>5, <1>6, <1>7, <1>8, <1>9, <1>10 DEF Basic

\* UpdateUser begins a new chapter of the story.
LEMMA UpdateUserKeeps ==
    ASSUME AccountInv, NEW h \in Handlers, NEW status \in Statuses,
           UpdateUser(h, status)
    PROVE  AccountInv'
<1> USE DEF AccountInv
<1>0. h \in Processes /\ h # Worker
  BY AccountAssumption DEF Processes
<1>1. PICK r : r = [Idle EXCEPT !.pc = "load", !.call = Call(status, 0, 0), !.no = requests + 1]
  OBVIOUS
<1>2. /\ proc' = [proc EXCEPT ![h] = r] /\ proc[h].pc = "idle" /\ requests' = requests + 1
      /\ user' = status /\ user # "deleted"
      /\ UNCHANGED <<accounts, remote, ledger, ops, causes, owed>>
  BY <1>1 DEF UpdateUser, Arrives, At, Exists
<1>3. r = [pc |-> "load", call |-> Call(status, 0, 0), key |-> None, amount |-> 0, sync |-> TRUE,
           sum |-> 0, snap |-> NoUser, no |-> requests + 1, level |-> 0]
  BY <1>1 DEF Idle
<1>4. /\ r.pc = "load" /\ r.call = Call(status, 0, 0) /\ r.no = requests + 1 /\ ProcShaped(r)
  BY <1>3 DEF ProcShaped
<1>5. requests \in Nat /\ requests' \in Nat /\ r.call \in Policies /\ IsStatus(r.call)
      /\ r.call.tx = 0 /\ r.call.status = status
  <2>1. requests \in Nat /\ requests' \in Nat
    BY <1>2 DEF Basic
  <2> QED BY <1>4, <2>1, StatusCall
<1>6. Stage(r)
  BY <1>4, <1>5 DEF Stage, Carrying, Pcs
<1>7. /\ DOMAIN proc = Processes /\ DOMAIN proc' = Processes /\ proc'[h] = r
      /\ \A q \in Processes : q # h => proc'[q] = proc[q]
      /\ proc[h].call = NoCall
  BY <1>0, <1>2 DEF Basic, Procs, Stage, Carrying
<1>8. Procs'
  BY <1>4, <1>6, <1>7 DEF Basic, Procs
<1>9. Ops' /\ Accounts' /\ Ledger' /\ DeletedLeavesNothing' /\ Keyed' /\ Succeeded'
  BY <1>2 DEF Basic, Ops, Accounts, Ledger, DeletedLeavesNothing, Keyed, Succeeded, Statuses
<1>10. Remote'
  BY <1>2, <1>4, <1>7 DEF Basic, Remote
<1>11. Working'
  BY <1>0, <1>2, <1>7 DEF Basic, Working
<1>12. Followed'
  <2>1. ASSUME NEW n, n # 0, Pursued(n)
        PROVE  Pursued(n)'
    BY <1>2, <1>7, <2>1, NoneCalled DEF Pursued
  <2>2. \A i \in DOMAIN ledger : ledger[i].id # 0
    BY GrantCall DEF Basic, Ledger
  <2> QED BY <1>2, <2>1, <2>2 DEF Followed
<1>13. Alone'
  BY <1>2, <1>4, <1>7 DEF Alone, Writes, Newest
<1>14. LevelFollows'
  <2>1. ASSUME NEW q \in Processes, Owes(proc[q])
        PROVE  Owes(proc'[q])
    BY <1>2, <1>7, <2>1 DEF Owes
  <2> QED BY <1>2, <2>1 DEF LevelFollows, GivenUp, Newest
<1>15. StatusFollows'
  <2>1. ASSUME NEW asked \in [Nat -> Statuses], NEW last \in Nat, Story(asked, last)
        PROVE  \E b \in [Nat -> Statuses], m \in Nat : Story(b, m)'
    <3>0. PICK m \in Nat : m = requests + 1 /\ m = requests'
      BY <1>2, <1>5
    <3>1. PICK b : b = [asked EXCEPT ![m] = status]
      OBVIOUS
    <3>2. /\ b \in [Nat -> Statuses] /\ b[m] = status
          /\ \A n \in Nat : n <= last => b[n] = asked[n] /\ n <= m
          /\ last <= requests
      BY <1>5, <2>1, <3>0, <3>1 DEF Story
    <3>3. \A q \in Processes : IsStatus(proc'[q].call) =>
             proc'[q].no <= m /\ b[proc'[q].no] = proc'[q].call.status
      <4>1. \A q \in Processes : proc[q].no \in Nat
        BY DEF Basic, Procs, Stage
      <4> QED BY <1>4, <1>5, <1>7, <2>1, <3>0, <3>2, <4>1 DEF Story
    <3>4. \A s \in Statuses : ops[Call(s, 0, 0)].no \in Nat
      BY StatusCall DEF Basic, Ops, OpShaped
    <3>5. \A s \in Statuses :
             ops[Call(s, 0, 0)].status \in {"failed", "running"} =>
                ops[Call(s, 0, 0)].no <= m /\ b[ops[Call(s, 0, 0)].no] = s
      BY <2>1, <3>2, <3>4 DEF Story
    <3>6. Waiting(status, m)'
      BY <1>0, <1>4, <1>7, <3>0 DEF Waiting, Underway
    <3>7. /\ remote.no \in Nat /\ remote.no <= m /\ b[0] = "active"
          /\ (remote.level # 0 => b[remote.no] = remote.status)
      BY <2>1, <3>2 DEF Story, Basic, Remote, RemoteFit
    <3>8. Story(b, m)'
      BY <1>2, <3>0, <3>2, <3>3, <3>5, <3>6, <3>7 DEF Story
    <3> QED BY <3>2, <3>8
  <2> QED BY <1>2, <2>1 DEF StatusFollows, GivenUp
<1> QED BY <1>2, <1>5, <1>8, <1>9, <1>10, <1>11, <1>12, <1>13, <1>14, <1>15 DEF Basic

\* No status was sent: Sub2API keeps the one it has, or has just created its user.
Unsent ==
    /\ remote'.no = remote.no
    /\ \/ remote' = remote
       \/ remote.level # 0 /\ remote'.status = remote.status
       \/ remote.level = 0 /\ remote'.status = "active"

LEMMA UnsentMeans ==
    ASSUME Remote, Unsent, NEW asked, NEW last \in Nat, Story(asked, last)
    PROVE  remote'.level # 0 => asked[remote'.no] = remote'.status
<1>1. remote.level = 0 => remote.no = 0
  BY DEF Remote, RemoteFit
<1> QED BY <1>1 DEF Unsent, Story

\* A process that is not writing the level any more.
LEMMA OverlapMeans ==
    ASSUME NEW p \in Processes, Overlap(p) \subseteq causes'
    PROVE  (\E q \in Processes \ {p} : Writes(proc[q])) => "overlap" \in causes'
<1>1. \A q \in Processes : Writing(q) <=> Writes(proc[q])
  BY DEF Writing, Writes, At
<1> QED BY <1>1 DEF Overlap

\* Whatever a call that ends in an error has done at Sub2API, the operation it leaves behind, or a
\* cause, accounts for it.
LEMMA ErrsKeeps ==
    ASSUME AccountInv, NEW p \in Processes, NEW more, Errs(p, more),
           proc[p].pc \in Carrying,
           UNCHANGED <<user, accounts, ledger, owed, requests>>,
           RemoteFit(remote'), remote'.level # 0 \/ remote' = remote,
           remote.credited \subseteq remote'.credited,
           proc[p].pc = "bind" => remote' = remote /\ Unmirrored(p) \subseteq more,
           \/ user = "deleted"
           \/ remote'.level = remote.level
           \/ /\ Overlap(p) \subseteq more
              /\ \/ ~IsStatus(proc[p].call) /\ proc[p].call \in Policies
                 \/ Newest(remote'.level) \/ "stale" \in more,
           \/ user = "deleted"
           \/ Unsent
           \/ /\ IsStatus(proc[p].call) /\ remote'.status = proc[p].call.status
              /\ remote'.no = proc[p].no
              /\ proc[p].no < remote.no => "overtaken" \in more
    PROVE  AccountInv'
<1> USE DEF AccountInv
<1>1. PICK c : c = proc[p].call
  OBVIOUS
<1>2. Procs /\ Ops /\ Stage(proc[p])
  BY DEF Basic, Procs
<1>3. c \in OpKeys
  BY <1>1, <1>2, Policy, Grant DEF Stage, Carrying
<1>4. /\ proc' = [proc EXCEPT ![p] = Idle]
      /\ Ops' /\ \A k \in OpKeys : k # c => ops'[k] = ops[k]
      /\ causes \subseteq causes' /\ more \subseteq causes'
      /\ p = Worker => /\ ops'[c].status \in {"failed", "dead_letter"} /\ ops'[c].no = ops[c].no
                       /\ ops'[c].status = "dead_letter" => "dead" \in causes'
      /\ p # Worker /\ Exists =>
            \/ /\ ops[c].status = "none" /\ ops'[c].status \in {"failed", "dead_letter"}
               /\ ops'[c].no = proc[p].no
               /\ ops'[c].status = "dead_letter" => "dead" \in causes'
            \/ /\ ops[c].status = "failed" /\ ops'[c].status = "failed"
               /\ ops'[c].no \in {ops[c].no, proc[p].no}
               /\ ops[c].no <= ops'[c].no /\ proc[p].no <= ops'[c].no
            \/ /\ ops[c].status \notin {"none", "failed"} /\ ops'[c] = ops[c]
               /\ "absorbed" \in causes'
            \/ ops'[c] = ops[c] /\ "unqueued" \in causes'
      /\ p # Worker /\ ~Exists => ops' = ops
  BY <1>1, <1>2, <1>3, ErrsMeans
<1>5. /\ DOMAIN proc' = Processes /\ proc'[p] = Idle
      /\ \A q \in Processes : q # p => proc'[q] = proc[q]
  BY <1>2, <1>4 DEF Procs
<1>6. Idle.pc = "idle" /\ Idle.call = NoCall /\ NoCall.tx = 0 /\ ~IsStatus(NoCall)
      /\ ProcShaped(Idle) /\ Stage(Idle)
  BY IdleIsFit, NoneCalled
\* what an operation does not lose
<1>7. \A k \in OpKeys : /\ ops'[k].status = "succeeded" => ops[k].status = "succeeded"
                        /\ k # c \/ p # Worker => (ops[k].status = "running" => ops'[k] = ops[k])
  BY <1>4
<1>8. Exists => \/ ops'[c].status = "failed" \/ GivenUp'
                \/ ops[c].status \notin {"none", "failed"} /\ ops'[c] = ops[c]
  BY <1>4 DEF GivenUp
<1>9. Exists => ops'[c].status = "failed" \/ GivenUp'
  BY <1>4 DEF GivenUp
<1>10. Worker \in Processes
  BY DEF Processes
<1>11. Procs' /\ Ops' /\ Accounts' /\ Ledger' /\ DeletedLeavesNothing' /\ Keyed' /\ requests' \in Nat
       /\ user' \in Statuses \cup {"deleted"}
  BY <1>4, <1>5, <1>6 DEF Basic, Procs, Accounts, Ledger, DeletedLeavesNothing, Keyed
<1>12. Remote'
  BY <1>5, <1>6 DEF Basic, Remote
<1>13. Working'
  <2>1. CASE p = Worker
    BY <1>5, <1>6, <2>1 DEF Working
  <2>2. CASE p # Worker
    <3>1. proc'[Worker] = proc[Worker]
      BY <1>5, <1>10, <2>2
    <3>2. proc[Worker].pc # "idle" => proc[Worker].call \in OpKeys
      BY <1>10, Policy, Grant DEF Basic, Working, Procs, Stage, Carrying
    <3> QED BY <1>7, <2>2, <3>1, <3>2 DEF Basic, Working
  <2> QED BY <2>1, <2>2
<1>14. Succeeded'
  BY <1>7, GrantCall DEF Succeeded
<1>15. Followed'
  <2>1. CASE ~Exists
    <3>1. DOMAIN ledger = {}
      BY <2>1 DEF Basic, DeletedLeavesNothing, Exists
    <3> QED BY <3>1 DEF Followed
  <2>2. CASE Exists
    <3>1. ASSUME NEW t \in Transactions, Pursued(t)
          PROVE  Pursued(t)'
      <4>1. Call("", 0, t) \in OpKeys /\ t # 0 /\ Call("", 0, t).tx = t
        BY GrantCall
      <4>2. CASE proc[p].call.tx = t
        <5>1. c = Call("", 0, t)
          BY <1>1, <1>3, <4>1, <4>2, OpKey, Policy, Grant
        <5>2. ops[c].status \in {"none", "failed", "running", "succeeded", "dead_letter"}
          BY <1>2, <1>3 DEF Ops, OpShaped
        <5>3. \/ ops'[c].status \in {"failed", "running", "dead_letter"}
              \/ ops[c].status = "succeeded" \/ "unqueued" \in causes'
          BY <1>4, <2>2, <5>2
        <5>4. ops[c].status = "succeeded" => t \in remote'.credited
          BY <5>1 DEF Succeeded
        <5> QED BY <5>1, <5>3, <5>4 DEF Pursued
      <4>3. CASE proc[p].call.tx # t
        BY <1>4, <1>5, <2>2, <3>1, <4>1, <4>3 DEF Pursued
      <4> QED BY <4>2, <4>3
    <3> QED BY <3>1 DEF Followed, Basic, Ledger
  <2> QED BY <2>1, <2>2
<1>16. Alone'
  <2>1. CASE remote'.level = remote.level
    BY <1>4, <1>5, <1>6, <2>1 DEF Alone, Writes, Newest
  <2>2. CASE Overlap(p) \subseteq more
    <3>1. (\E q \in Processes \ {p} : Writes(proc[q])) => "overlap" \in causes'
      BY <1>4, <2>2, OverlapMeans
    <3>2. ~Writes(proc'[p])
      BY <1>5, <1>6 DEF Writes
    <3>3. CASE "overlap" \in causes'
      BY <3>3 DEF Alone
    <3>4. CASE \A q \in Processes : ~Writes(proc'[q])
      BY <3>4 DEF Alone, Writes
    <3> QED BY <1>5, <3>1, <3>2, <3>3, <3>4
  <2>3. CASE user = "deleted"
    BY <2>3 DEF Alone
  <2> QED BY <2>1, <2>2, <2>3
<1>17. LevelFollows'
  <2>0. causes \cap {"overlap", "stale"} # {} => causes' \cap {"overlap", "stale"} # {}
    BY <1>4
  <2>1. CASE user = "deleted"
    BY <2>1 DEF Basic, DeletedLeavesNothing, LevelFollows, Newest
  <2>2. CASE Exists /\ ~IsStatus(c) /\ c \in Policies
    BY <1>9, <2>2 DEF LevelFollows
  <2>3. CASE Exists /\ (IsStatus(c) \/ c \notin Policies) /\ remote'.level # remote.level
    <3>1. Newest(remote'.level) \/ "stale" \in more
      BY <1>1, <2>3 DEF Exists
    <3> QED BY <1>4, <3>1 DEF LevelFollows, Newest
  <2>4. CASE Exists /\ proc[p].pc = "bind"
    <3>1. "overlap" \in causes \/ remote.level = proc[p].level
      BY <2>4 DEF Alone, Exists
    <3>2. accounts = << >> \/ accounts[Len(accounts)].level = proc[p].level \/ "stale" \in more
      BY <2>4 DEF Unmirrored
    <3> QED BY <1>4, <2>0, <2>4, <3>1, <3>2 DEF LevelFollows, Newest
  <2>5. CASE /\ Exists /\ (IsStatus(c) \/ c \notin Policies)
             /\ remote'.level = remote.level /\ proc[p].pc # "bind"
    <3>2. \A k \in Policies : ~IsStatus(k) => ops'[k] = ops[k]
      BY <1>4, <2>5, Policy
    <3>3. ~Owes(proc[p])
      BY <1>1, <1>2, <2>5 DEF Stage, Owes
    <3>4. ASSUME NEW q \in Processes, Owes(proc[q])
          PROVE  Owes(proc'[q])
      BY <1>5, <3>3, <3>4
    <3>5. GivenUp => GivenUp'
      BY <1>4 DEF GivenUp
    <3> QED BY <2>0, <2>5, <3>2, <3>4, <3>5 DEF LevelFollows, Newest
  <2> QED BY <2>1, <2>2, <2>3, <2>4, <2>5 DEF Exists
<1>18. StatusFollows'
  <2>1. CASE user = "deleted" \/ GivenUp' \/ causes' \cap {"missed", "overtaken"} # {}
    BY <2>1 DEF StatusFollows
  <2>2. CASE ~(user = "deleted" \/ GivenUp' \/ causes' \cap {"missed", "overtaken"} # {})
    <3>1. PICK asked \in [Nat -> Statuses], last \in Nat : Story(asked, last)
      BY <1>4, <2>2 DEF StatusFollows, GivenUp
    <3>2. Exists /\ ops'[c].status = "failed"
      BY <1>9, <2>2 DEF Exists
    <3>3. \A k \in OpKeys : ops[k].no \in Nat /\ ops'[k].no \in Nat
      BY <1>2, <1>4 DEF Ops, OpShaped
    <3>4. \A q \in Processes : IsStatus(proc'[q].call) =>
             proc'[q].no <= last /\ asked[proc'[q].no] = proc'[q].call.status
      BY <1>5, <1>6, <3>1 DEF Story
    <3>5. CASE ~IsStatus(c)
      <4>1. \A s \in Statuses : ops'[Call(s, 0, 0)] = ops[Call(s, 0, 0)]
        BY <1>4, <3>5, StatusCall
      <4>2. Unsent /\ remote'.no = remote.no
        BY <1>1, <2>2, <3>5 DEF Unsent
      <4>3. Waiting(asked[last], last) => Waiting(asked[last], last)'
        <5>1. asked[last] \in Statuses
          OBVIOUS
        <5>2. \A q \in Processes : proc[q].call = Call(asked[last], 0, 0) => q # p
          BY <1>1, <3>5, <5>1, StatusCall
        <5> QED BY <1>5, <4>1, <5>1, <5>2 DEF Waiting
      <4>4. remote'.level # 0 => asked[remote'.no] = remote'.status
        BY <3>1, <4>2, UnsentMeans DEF Basic
      <4>5. Story(asked, last)'
        BY <3>1, <3>4, <4>1, <4>2, <4>3, <4>4 DEF Story
      <4> QED BY <4>5 DEF StatusFollows
    <3>6. CASE IsStatus(c)
      <4>1. c \in Policies /\ c.status \in Statuses /\ c = Call(c.status, 0, 0)
        BY <1>3, <3>6, OpKey, Grant, Policy
      <4>2. proc[p].no \in Nat /\ proc[p].no <= last /\ asked[proc[p].no] = c.status
        BY <1>1, <1>2, <3>1, <3>6 DEF Story, Stage
      <4>3. p = Worker => ops[c].status = "running" /\ ops[c].no = proc[p].no
        BY <1>1, <3>6 DEF Basic, Working, Carrying
      <4>4. ops[c].status \in {"failed", "running"} => ops[c].no <= last /\ asked[ops[c].no] = c.status
        BY <3>1, <4>1 DEF Story
      <4>5. /\ ops'[c].no <= last /\ asked[ops'[c].no] = c.status /\ proc[p].no <= ops'[c].no
            /\ ops[c].status = "failed" => ops[c].no <= ops'[c].no
        BY <1>3, <1>4, <2>2, <3>2, <3>3, <4>2, <4>3, <4>4 DEF GivenUp
      <4>6. \A s \in Statuses :
               ops'[Call(s, 0, 0)].status \in {"failed", "running"} =>
                  ops'[Call(s, 0, 0)].no <= last /\ asked[ops'[Call(s, 0, 0)].no] = s
        <5>1. ASSUME NEW s \in Statuses, Call(s, 0, 0) # c
              PROVE  ops'[Call(s, 0, 0)] = ops[Call(s, 0, 0)]
          BY <1>4, <5>1, StatusCall
        <5>2. ASSUME NEW s \in Statuses, Call(s, 0, 0) = c
              PROVE  s = c.status
          BY <5>2, StatusCall
        <5> QED BY <3>1, <4>5, <5>1, <5>2 DEF Story
      <4>7. Waiting(asked[last], last) => Waiting(asked[last], last)'
        <5>1. PICK s \in Statuses : s = asked[last]
          OBVIOUS
        <5>2. Call(s, 0, 0) \in OpKeys /\ Call(s, 0, 0).status = s
          BY StatusCall
        <5>3. CASE c # Call(s, 0, 0)
          BY <1>1, <1>4, <1>5, <5>1, <5>2, <5>3 DEF Waiting
        <5>4. CASE c = Call(s, 0, 0)
          <6>1. CASE proc[p].no = last \/ (ops[c].status = "failed" /\ ops[c].no = last)
            <7>1. ops'[c].no = last
              BY <1>3, <3>3, <4>5, <6>1
            <7> QED BY <3>2, <5>1, <5>4, <7>1 DEF Waiting
          <6>2. CASE ~(proc[p].no = last \/ (ops[c].status = "failed" /\ ops[c].no = last))
            BY <1>5, <5>1, <5>4, <6>2 DEF Waiting
          <6> QED BY <6>1, <6>2
        <5> QED BY <5>3, <5>4
      <4>8. /\ remote'.no <= last /\ remote.no <= last /\ remote'.no \in Nat /\ remote.no \in Nat
            /\ remote'.level # 0 => asked[remote'.no] = remote'.status
            /\ remote.no = last => remote'.no = last
        <5>1. CASE Unsent
          <6>1. remote'.level # 0 => asked[remote'.no] = remote'.status
            BY <3>1, <5>1, UnsentMeans DEF Basic
          <6> QED BY <3>1, <5>1, <6>1 DEF Unsent, Story, Basic, Remote, RemoteFit
        <5>2. CASE /\ remote'.status = c.status /\ remote'.no = proc[p].no
                   /\ proc[p].no < remote.no => "overtaken" \in more
          <6>1. ~(proc[p].no < remote.no)
            BY <1>4, <2>2, <5>2
          <6> QED BY <3>1, <4>2, <5>2, <6>1 DEF Story, Basic, Remote, RemoteFit
        <5> QED BY <1>1, <2>2, <5>1, <5>2
      <4>9. Story(asked, last)'
        BY <3>1, <3>4, <4>6, <4>7, <4>8 DEF Story
      <4> QED BY <4>9 DEF StatusFollows
    <3> QED BY <3>5, <3>6
  <2> QED BY <2>1, <2>2
<1> QED BY <1>11, <1>12, <1>13, <1>14, <1>15, <1>16, <1>17, <1>18 DEF Basic

LEMMA GotoMeans ==
    ASSUME Procs, NEW p \in Processes, NEW x, Goto(p, x)
    PROVE  \E r : /\ proc' = [proc EXCEPT ![p] = r] /\ ProcShaped(r)
                  /\ r.pc = x /\ r.call = proc[p].call /\ r.no = proc[p].no
                  /\ r.level = proc[p].level
<1>1. PICK r : r = [proc[p] EXCEPT !.pc = x]
  OBVIOUS
<1>2. ProcShaped(proc[p])
  BY DEF Procs
<1>3. r = [pc |-> x, call |-> proc[p].call, key |-> proc[p].key, amount |-> proc[p].amount,
           sync |-> proc[p].sync, sum |-> proc[p].sum, snap |-> proc[p].snap, no |-> proc[p].no, level |-> proc[p].level]
  BY <1>1, <1>2 DEF ProcShaped
<1>4. r.pc = x /\ r.call = proc[p].call /\ r.no = proc[p].no /\ ProcShaped(r)
      /\ r.level = proc[p].level
  BY <1>3 DEF ProcShaped
<1>5. proc' = [proc EXCEPT ![p] = r]
  BY <1>1 DEF Goto
<1> QED BY <1>4, <1>5

\* A call that goes on to the account or to Sub2API.
LEMMA GotoKeeps ==
    ASSUME AccountInv, NEW p \in Processes, NEW x \in {"ensure", "send"},
           Goto(p, x), proc[p].pc \in {"load", "check"},
           x = "send" => proc[p].pc = "load" /\ remote.level # 0,
           UNCHANGED <<user, accounts, remote, ledger, ops, causes, owed, requests>>
    PROVE  AccountInv'
<1>1. Procs
  BY DEF AccountInv, Basic
<1>2. PICK r : /\ proc' = [proc EXCEPT ![p] = r] /\ ProcShaped(r)
               /\ r.pc = x /\ r.call = proc[p].call /\ r.no = proc[p].no
  BY <1>1, GotoMeans
<1>3. Stage(proc[p])
  BY <1>1 DEF Procs
<1>4. Stage(r)
  <2>1. proc[p].call \in OpKeys
    BY <1>3, Policy, Grant DEF Stage
  <2> QED BY <1>2, <1>3, <2>1 DEF Stage, Carrying, Pcs
<1> QED BY <1>2, <1>4, MoveKeeps DEF Carrying, Underway

\* A call that ends in an error and has written nothing.
LEMMA FailureKeeps ==
    ASSUME AccountInv, NEW p \in Processes, NEW m, Errs(p, m),
           proc[p].pc \in Carrying, proc[p].pc = "bind" => Unmirrored(p) \subseteq m,
           UNCHANGED <<user, accounts, remote, ledger, owed, requests>>
    PROVE  AccountInv'
<1>1. RemoteFit(remote')
  BY DEF AccountInv, Basic, Remote
<1>2. Unsent
  BY DEF Unsent
<1> QED BY <1>1, <1>2, ErrsKeeps

LEMMA CallFailsKeeps ==
    ASSUME AccountInv, NEW p \in Processes, CallFails(p)
    PROVE  AccountInv'
<1>1. PICK m : m = IF At(p, "bind") THEN Unmirrored(p) ELSE {}
  OBVIOUS
<1>2. Errs(p, m)
  BY <1>1 DEF CallFails
<1>3. proc[p].pc \in Carrying /\ UNCHANGED <<user, accounts, remote, ledger, owed, requests>>
  BY DEF CallFails, Fault, Carrying
<1>4. proc[p].pc = "bind" => Unmirrored(p) \subseteq m
  BY <1>1 DEF At
<1> QED BY <1>2, <1>3, <1>4, FailureKeeps

LEMMA CheckUserKeeps ==
    ASSUME AccountInv, NEW p \in Processes, CheckUser(p)
    PROVE  AccountInv'
<1>1. /\ proc[p].pc = "check"
      /\ UNCHANGED <<user, accounts, remote, ledger, owed, requests>>
      /\ \/ Goto(p, "ensure") /\ UNCHANGED <<ops, causes>>
         \/ Errs(p, {})
  BY DEF CheckUser, At, bounds
<1>2. CASE Errs(p, {})
  BY <1>1, <1>2, FailureKeeps DEF Carrying
<1>3. CASE Goto(p, "ensure") /\ UNCHANGED <<ops, causes>>
  BY <1>1, <1>3, GotoKeeps
<1> QED BY <1>1, <1>2, <1>3

\* A call that ends well.
LEMMA DoneMeans ==
    ASSUME Procs, Ops, NEW p \in Processes, Done(p), NEW c, c = proc[p].call, c \in OpKeys
    PROVE  /\ DOMAIN proc' = Processes /\ proc'[p] = Idle
           /\ \A q \in Processes : q # p => proc'[q] = proc[q]
           /\ Procs' /\ Ops' /\ \A k \in OpKeys : k # c => ops'[k] = ops[k]
           /\ p # Worker => ops' = ops
           /\ p = Worker => ops'[c].status = "succeeded"
<1>1. /\ proc' = [proc EXCEPT ![p] = Idle]
      /\ ops' = IF p = Worker THEN [ops EXCEPT ![c].status = "succeeded"] ELSE ops
  BY DEF Done
<1>2. /\ DOMAIN proc' = Processes /\ proc'[p] = Idle
      /\ \A q \in Processes : q # p => proc'[q] = proc[q]
  BY <1>1 DEF Procs
<1>3. Procs'
  BY <1>2, IdleIsFit DEF Procs
<1>4. /\ ops[c] = [status |-> ops[c].status, amount |-> ops[c].amount, no |-> ops[c].no]
      /\ ops[c].no \in Nat /\ DOMAIN ops = OpKeys
      /\ \A k \in OpKeys : OpShaped(ops[k])
  BY DEF Ops, OpShaped
<1>5. CASE p # Worker
  BY <1>1, <1>2, <1>3, <1>5 DEF Ops
<1>6. CASE p = Worker
  <2>1. /\ DOMAIN ops' = OpKeys /\ \A k \in OpKeys : k # c => ops'[k] = ops[k]
        /\ ops'[c] = [ops[c] EXCEPT !.status = "succeeded"]
    BY <1>1, <1>4, <1>6
  <2>2. ops'[c] = [status |-> "succeeded", amount |-> ops[c].amount, no |-> ops[c].no]
    BY <1>4, <2>1
  <2>3. Ops'
    BY <1>4, <2>1, <2>2 DEF Ops, OpShaped
  <2> QED BY <1>2, <1>3, <1>6, <2>1, <2>2, <2>3
<1> QED BY <1>5, <1>6

\* The worker is idle after it, or was not the one.
LEMMA DoneWorking ==
    ASSUME Procs, Working, NEW p \in Processes, NEW c, c = proc[p].call,
           proc'[p] = Idle, \A q \in Processes : q # p => proc'[q] = proc[q],
           p # Worker => ops' = ops
    PROVE  Working'
<1>1. Worker \in Processes
  BY DEF Processes
<1>2. CASE p = Worker
  BY <1>2, IdleIsFit DEF Working
<1>3. CASE p # Worker
  BY <1>1, <1>3 DEF Working
<1> QED BY <1>2, <1>3

LEMMA LoadAccountKeeps ==
    ASSUME AccountInv, NEW p \in Processes, LoadAccount(p)
    PROVE  AccountInv'
<1>1. /\ proc[p].pc = "load"
      /\ UNCHANGED <<user, accounts, remote, ledger, owed, requests>>
      /\ \/ Errs(p, {})
         \/ Goto(p, "send") /\ UNCHANGED <<ops, causes>> /\ accounts # << >>
         \/ /\ Exists /\ proc[p].call.status = "disabled"
            /\ Done(p) /\ causes' = causes \cup {"missed"}
         \/ Goto(p, "ensure") /\ UNCHANGED <<ops, causes>>
  BY DEF LoadAccount, At, bounds
<1>2. CASE Errs(p, {})
  BY <1>1, <1>2, FailureKeeps DEF Carrying
<1>3. CASE Goto(p, "ensure") /\ UNCHANGED <<ops, causes>>
  BY <1>1, <1>3, GotoKeeps
<1>4. CASE Goto(p, "send") /\ UNCHANGED <<ops, causes>> /\ accounts # << >>
  <2>1. remote.level # 0
    BY <1>4 DEF AccountInv, Basic, Remote
  <2> QED BY <1>1, <1>4, <2>1, GotoKeeps
<1>5. CASE /\ Exists /\ proc[p].call.status = "disabled"
           /\ Done(p) /\ causes' = causes \cup {"missed"}
  <2> USE DEF AccountInv
  <2>1. PICK c : c = proc[p].call
    OBVIOUS
  <2>2. Procs /\ Ops /\ Working
    BY DEF Basic
  <2>3. c \in Policies /\ c \in OpKeys /\ IsStatus(c)
    <3>1. c \in Policies
      BY <1>1, <2>1, <2>2 DEF Procs, Stage
    <3> QED BY <1>5, <2>1, <3>1, Policy DEF IsStatus
  <2>4. /\ DOMAIN proc' = Processes /\ proc'[p] = Idle
        /\ \A q \in Processes : q # p => proc'[q] = proc[q]
        /\ Procs' /\ Ops' /\ \A k \in OpKeys : k # c => ops'[k] = ops[k]
        /\ p # Worker => ops' = ops
    BY <1>5, <2>1, <2>2, <2>3, DoneMeans
  <2>5. Working'
    BY <2>1, <2>2, <2>4, DoneWorking
  <2>6. Accounts' /\ Ledger' /\ DeletedLeavesNothing' /\ Keyed'
    BY <1>1 DEF Basic, Accounts, Ledger, DeletedLeavesNothing, Keyed
  <2>7. Idle.pc = "idle" /\ Idle.call = NoCall
    BY IdleIsFit
  <2>8. Remote'
    BY <1>1, <2>4, <2>7 DEF Basic, Remote
  <2>9. \A t \in Transactions : ops'[Call("", 0, t)] = ops[Call("", 0, t)]
    BY <2>3, <2>4, GrantCall, Grant
  <2>10. Succeeded'
    BY <1>1, <2>9 DEF Succeeded
  <2>11. Followed'
    <3>1. ASSUME NEW t \in Transactions, Pursued(t)
          PROVE  Pursued(t)'
      <4>1. c.tx # t
        BY <2>3, Policy, GrantCall
      <4> QED BY <1>1, <1>5, <2>1, <2>4, <2>9, <3>1, <4>1 DEF Pursued
    <3> QED BY <1>1, <3>1 DEF Followed, Basic, Ledger
  <2>12. Alone'
    BY <1>1, <1>5, <2>4, <2>7 DEF Alone, Writes, Newest
  <2>13. LevelFollows'
    <3>1. \A k \in Policies : ~IsStatus(k) => ops'[k] = ops[k]
      BY <2>3, <2>4, Policy
    <3>2. ASSUME NEW q \in Processes, Owes(proc[q])
          PROVE  Owes(proc'[q])
      BY <1>1, <2>4, <3>2 DEF Owes
    <3>3. GivenUp => GivenUp'
      BY <1>5 DEF GivenUp
    <3>4. causes \cap {"overlap", "stale"} # {} => causes' \cap {"overlap", "stale"} # {}
      BY <1>5
    <3> QED BY <1>1, <3>1, <3>2, <3>3, <3>4 DEF LevelFollows, Newest
  <2>14. StatusFollows'
    BY <1>5 DEF StatusFollows
  <2> QED BY <1>1, <2>4, <2>5, <2>6, <2>8, <2>10, <2>11, <2>12, <2>13, <2>14 DEF Basic
<1> QED BY <1>1, <1>2, <1>3, <1>4, <1>5

\* A request that does not yet carry anything for Sub2API goes on.
LEMMA RequestKeeps ==
    ASSUME AccountInv, NEW h \in Handlers, NEW r,
           proc' = [proc EXCEPT ![h] = r], ProcShaped(r), Stage(r), proc[h].pc \notin Carrying,
           r.pc \notin {"mirror", "bind", "save"},
           r.pc \in {"policy", "send", "credit", "match", "adjust"} => remote.level # 0,
           ~IsStatus(r.call), requests' \in {requests, requests + 1},
           UNCHANGED <<user, accounts, remote, ledger, ops, causes, owed>>
    PROVE  AccountInv'
<1>1. h \in Processes /\ h # Worker
  BY AccountAssumption DEF Processes
<1>2. proc[h].call = NoCall
  BY <1>1 DEF AccountInv, Basic, Procs, Stage
<1>3. proc[h].call.tx = 0 /\ ~IsStatus(proc[h].call) /\ proc[h].pc \notin {"mirror", "bind", "save"}
  BY <1>2, NoneCalled DEF Carrying
<1> QED BY <1>1, <1>3, MoveKeeps

LEMMA UpdateUserConcurrencyKeeps ==
    ASSUME AccountInv, NEW h \in Handlers, NEW level \in Levels,
           UpdateUserConcurrency(h, level)
    PROVE  AccountInv'
<1>1. PICK r : r = [Idle EXCEPT !.pc = "load", !.call = Call("", level, 0)]
  OBVIOUS
<1>2. /\ proc' = [proc EXCEPT ![h] = r] /\ proc[h].pc = "idle" /\ requests' = requests + 1
      /\ UNCHANGED <<user, accounts, remote, ledger, ops, causes, owed>>
  BY <1>1 DEF UpdateUserConcurrency, Arrives, At
<1>3. r = [pc |-> "load", call |-> Call("", level, 0), key |-> None, amount |-> 0, sync |-> TRUE,
           sum |-> 0, snap |-> NoUser, no |-> 0, level |-> 0]
  BY <1>1 DEF Idle
<1>4. r.pc = "load" /\ r.call = Call("", level, 0) /\ r.no \in Nat /\ ProcShaped(r)
  BY <1>3 DEF ProcShaped
<1>5. r.call \in Policies /\ ~IsStatus(r.call)
  BY <1>4, LevelCall
<1>6. Stage(r)
  BY <1>4, <1>5 DEF Stage, Carrying, Pcs
<1>7. r.pc \notin {"policy", "send", "credit", "match", "adjust", "mirror", "bind", "save"} /\ proc[h].pc \notin Carrying
  BY <1>2, <1>4 DEF Carrying
<1> QED BY <1>2, <1>4, <1>5, <1>6, <1>7, RequestKeeps

\* The number of a new request.
LEMMA NewNumber ==
    ASSUME AccountInv, NEW h, NEW kind, Arrives(h, kind)
    PROVE  requests + 1 \in Transactions /\ requests' = requests + 1 /\ proc[h].pc = "idle"
<1>1. requests \in Nat /\ MaxRequests \in Nat
  BY AccountAssumption DEF AccountInv, Basic
<1> QED BY <1>1 DEF Arrives, At, Transactions

LEMMA GrantUserBalanceKeeps ==
    ASSUME AccountInv, NEW h \in Handlers, NEW amount, NEW key, NEW sync,
           GrantUserBalance(h, amount, key, sync)
    PROVE  AccountInv'
<1>1. PICK r : r = [Idle EXCEPT !.pc = "lock", !.amount = amount, !.key = key, !.sync = sync,
                                  !.no = requests + 1]
  OBVIOUS
<1>2. /\ proc' = [proc EXCEPT ![h] = r]
      /\ UNCHANGED <<user, accounts, remote, ledger, ops, causes, owed>>
      /\ Arrives(h, "grant")
  BY <1>1 DEF GrantUserBalance
<1>3. r = [pc |-> "lock", call |-> NoCall, key |-> key, amount |-> amount, sync |-> sync,
           sum |-> 0, snap |-> NoUser, no |-> requests + 1, level |-> 0]
  BY <1>1 DEF Idle
<1>4. r.pc = "lock" /\ r.call = NoCall /\ r.no = requests + 1 /\ ProcShaped(r)
  BY <1>3 DEF ProcShaped
<1>5. r.no \in Transactions /\ r.no \in Nat /\ requests' = requests + 1 /\ proc[h].pc = "idle"
  BY <1>2, <1>4, NewNumber, GrantCall
<1>6. Stage(r)
  BY <1>4, <1>5 DEF Stage, Carrying, Pcs
<1> QED BY <1>2, <1>4, <1>5, <1>6, NoneCalled, RequestKeeps DEF Carrying

LEMMA RedeemKeeps ==
    ASSUME AccountInv, NEW h \in Handlers, NEW amount, Redeem(h, amount)
    PROVE  AccountInv'
<1>1. PICK r : r = [Idle EXCEPT !.pc = "redeem", !.amount = amount, !.sum = Balance(ledger),
                                  !.no = requests + 1]
  OBVIOUS
<1>2. /\ proc' = [proc EXCEPT ![h] = r]
      /\ UNCHANGED <<user, accounts, remote, ledger, ops, causes, owed>>
      /\ Arrives(h, "redeem")
  BY <1>1 DEF Redeem
<1>3. r = [pc |-> "redeem", call |-> NoCall, key |-> None, amount |-> amount, sync |-> TRUE,
           sum |-> Balance(ledger), snap |-> NoUser, no |-> requests + 1, level |-> 0]
  BY <1>1 DEF Idle
<1>4. r.pc = "redeem" /\ r.call = NoCall /\ r.no = requests + 1 /\ r.key = None /\ ProcShaped(r)
  BY <1>3 DEF ProcShaped
<1>5. r.no \in Transactions /\ r.no \in Nat /\ requests' = requests + 1 /\ proc[h].pc = "idle"
  BY <1>2, <1>4, NewNumber, GrantCall
<1>6. Stage(r)
  BY <1>4, <1>5 DEF Stage, Carrying, Pcs
<1> QED BY <1>2, <1>4, <1>5, <1>6, NoneCalled, RequestKeeps DEF Carrying

LEMMA SyncSub2APIUsersKeeps ==
    ASSUME AccountInv, NEW h \in Handlers, SyncSub2APIUsers(h)
    PROVE  AccountInv'
<1>1. PICK r : r = [Idle EXCEPT !.pc = "match", !.snap = remote, !.no = requests + 1]
  OBVIOUS
<1>2. /\ proc' = [proc EXCEPT ![h] = r]
      /\ UNCHANGED <<user, accounts, remote, ledger, ops, causes, owed>>
      /\ Arrives(h, "sync") /\ remote.level # 0
  BY <1>1 DEF SyncSub2APIUsers, RemoteExists
<1>3. r = [pc |-> "match", call |-> NoCall, key |-> None, amount |-> 0, sync |-> TRUE,
           sum |-> 0, snap |-> remote, no |-> requests + 1, level |-> 0]
  BY <1>1 DEF Idle
<1>4. r.pc = "match" /\ r.call = NoCall /\ r.no = requests + 1 /\ r.key = None /\ r.snap = remote
      /\ ProcShaped(r)
  BY <1>3 DEF ProcShaped
<1>5. r.no \in Transactions /\ r.no \in Nat /\ requests' = requests + 1 /\ proc[h].pc = "idle"
  BY <1>2, <1>4, NewNumber, GrantCall
<1>6. r.snap.level \in Nat \ {0} /\ r.snap.status \in Statuses
  BY <1>2, <1>4 DEF AccountInv, Basic, Remote, RemoteFit
<1>7. Stage(r)
  BY <1>4, <1>5, <1>6 DEF Stage, Carrying, Pcs
<1> QED BY <1>2, <1>4, <1>5, <1>7, NoneCalled, RequestKeeps DEF Carrying

LEMMA ReadBalanceKeeps ==
    ASSUME AccountInv, NEW h \in Handlers, ReadBalance(h)
    PROVE  AccountInv'
<1>0. h \in Processes /\ proc[h].pc = "match" /\ requests' = requests
      /\ UNCHANGED <<user, accounts, remote, ledger, ops, causes, owed>>
  BY DEF Processes, ReadBalance, At, bounds
<1>1. CASE ~Exists
  <2>1. proc' = [proc EXCEPT ![h] = Idle]
    BY <1>1 DEF ReadBalance
  <2> QED BY <1>0, <2>1, IdleIsFit, NoneCalled, RequestKeeps DEF Carrying
<1>2. CASE Exists
  <2>1. PICK r : r = [proc[h] EXCEPT !.pc = "adjust", !.sum = Balance(ledger)]
    OBVIOUS
  <2>2. proc' = [proc EXCEPT ![h] = r]
    BY <1>2, <2>1 DEF ReadBalance
  <2>3. ProcShaped(proc[h]) /\ Stage(proc[h])
    BY <1>0 DEF AccountInv, Basic, Procs
  <2>4. r = [pc |-> "adjust", call |-> proc[h].call, key |-> proc[h].key,
             amount |-> proc[h].amount, sync |-> proc[h].sync, sum |-> Balance(ledger),
             snap |-> proc[h].snap, no |-> proc[h].no, level |-> proc[h].level]
    BY <2>1, <2>3 DEF ProcShaped
  <2>5. /\ r.pc = "adjust" /\ r.call = proc[h].call /\ r.no = proc[h].no /\ r.key = proc[h].key
        /\ r.snap = proc[h].snap /\ ProcShaped(r)
    BY <2>4 DEF ProcShaped
  <2>6. Stage(r) /\ r.call = NoCall
    BY <1>0, <2>3, <2>5 DEF Stage, Carrying, Pcs
  <2>7. remote.level # 0
    BY <1>0 DEF AccountInv, Basic, Remote
  <2> QED BY <1>0, <2>2, <2>5, <2>6, <2>7, NoneCalled, RequestKeeps DEF Carrying
<1> QED BY <1>1, <1>2

\* After a grant is found or written the request goes on to Sub2API, or ends.
LEMMA AfterGrantMeans ==
    ASSUME Procs, NEW h \in Processes, NEW n \in Transactions,
           AfterGrant(h, n)
    PROVE  \E r : /\ proc' = [proc EXCEPT ![h] = r] /\ ProcShaped(r) /\ Stage(r)
                  /\ r.pc \in {"check", "idle"} /\ ~IsStatus(r.call)
                  /\ proc[h].sync => r.call.tx = n
<1>1. CASE proc[h].sync
  <2>1. PICK r : r = [Idle EXCEPT !.pc = "check", !.call = Call("", 0, n), !.amount = proc[h].amount]
    OBVIOUS
  <2>2. proc' = [proc EXCEPT ![h] = r]
    BY <1>1, <2>1 DEF AfterGrant
  <2>3. r = [pc |-> "check", call |-> Call("", 0, n), key |-> None,
             amount |-> proc[h].amount, sync |-> TRUE, sum |-> 0,
             snap |-> NoUser, no |-> 0, level |-> 0]
    BY <2>1 DEF Idle
  <2>4. r.pc = "check" /\ r.call = Call("", 0, n) /\ r.no = 0 /\ ProcShaped(r)
    BY <2>3 DEF ProcShaped
  <2>5. r.pc = "check" /\ r.call = Call("", 0, n) /\ r.no \in Nat /\ ProcShaped(r)
    BY <2>4, 0 \in Nat
  <2>6. r.call \in Grants /\ r.call.tx = n /\ ~IsStatus(r.call)
    BY <2>5, GrantCall
  <2>7. Stage(r)
    BY <2>5, <2>6 DEF Stage, Carrying, Pcs
  <2> QED BY <2>2, <2>5, <2>6, <2>7
<1>2. CASE ~proc[h].sync
  <2>1. proc' = [proc EXCEPT ![h] = Idle]
    BY <1>2 DEF AfterGrant
  <2> QED BY <1>2, <2>1, IdleIsFit, NoneCalled
<1> QED BY <1>1, <1>2

LEMMA ReadLedgerKeeps ==
    ASSUME AccountInv, NEW h \in Handlers, ReadLedger(h)
    PROVE  AccountInv'
<1>0. h \in Processes /\ proc[h].pc = "lock" /\ requests' = requests
      /\ UNCHANGED <<user, accounts, remote, ledger, ops, causes, owed>>
  BY DEF Processes, ReadLedger, At, bounds
<1>1. CASE Granted(proc[h].key) # {}
  <2>1. PICK i \in Granted(proc[h].key) : AfterGrant(h, ledger[i].id)
    BY <1>1 DEF ReadLedger
  <2>2. PICK n \in Transactions : n = ledger[i].id
    BY DEF AccountInv, Basic, Ledger, Granted
  <2>3. PICK r : /\ proc' = [proc EXCEPT ![h] = r] /\ ProcShaped(r) /\ Stage(r)
                 /\ r.pc \in {"check", "idle"} /\ ~IsStatus(r.call)
                 /\ proc[h].sync => r.call.tx = n
    BY <1>0, <2>1, <2>2, AfterGrantMeans DEF AccountInv, Basic
  <2> QED BY <1>0, <2>3, RequestKeeps DEF Carrying
<1>2. CASE Granted(proc[h].key) = {}
  <2>1. PICK r : r = [proc[h] EXCEPT !.pc = "insert", !.sum = Balance(ledger)]
    OBVIOUS
  <2>2. ProcShaped(proc[h]) /\ Stage(proc[h]) /\ DOMAIN proc = Processes
    BY <1>0 DEF AccountInv, Basic, Procs
  <2>3. proc' = [proc EXCEPT ![h] = r]
    <3>1. proc' = [proc EXCEPT ![h].pc = "insert", ![h].sum = Balance(ledger)]
      BY <1>2 DEF ReadLedger
    <3> QED BY <1>0, <2>1, <2>2, <3>1
  <2>4. r = [pc |-> "insert", call |-> proc[h].call, key |-> proc[h].key,
             amount |-> proc[h].amount, sync |-> proc[h].sync, sum |-> Balance(ledger),
             snap |-> proc[h].snap, no |-> proc[h].no, level |-> proc[h].level]
    BY <2>1, <2>2 DEF ProcShaped
  <2>5. r.pc = "insert" /\ r.call = proc[h].call /\ r.no = proc[h].no /\ ProcShaped(r)
    BY <2>4 DEF ProcShaped
  <2>6. Stage(r) /\ r.call = NoCall
    BY <1>0, <2>2, <2>5 DEF Stage, Carrying, Pcs
  <2> QED BY <1>0, <2>3, <2>5, <2>6, NoneCalled, RequestKeeps DEF Carrying
<1> QED BY <1>1, <1>2

\* What an update of the policy leaves of the user of Sub2API.
LEMMA SentMeans ==
    ASSUME AccountInv, NEW p \in Processes, proc[p].pc = "send",
           remote' = SentRemote(p)
    PROVE  /\ RemoteFit(remote') /\ remote'.level # 0 /\ remote.level # 0
           /\ remote'.credited = remote.credited /\ proc[p].call \in Policies
           /\ IsStatus(proc[p].call) => /\ remote'.level = remote.level /\ remote'.no = proc[p].no
                                        /\ remote'.status = proc[p].call.status
           /\ ~IsStatus(proc[p].call) => /\ remote'.level = proc[p].call.level
                                         /\ remote'.status = remote.status /\ remote'.no = remote.no
<1>1. /\ remote = [status |-> remote.status, level |-> remote.level, balance |-> remote.balance,
                   credited |-> remote.credited, no |-> remote.no]
      /\ remote.level \in Nat /\ remote.no \in Nat /\ remote.status \in Statuses
      /\ remote.level # 0
  BY DEF AccountInv, Basic, Remote, RemoteFit
<1>2. proc[p].call \in Policies /\ proc[p].no \in Nat
  BY DEF AccountInv, Basic, Procs, Stage
<1>3. CASE IsStatus(proc[p].call)
  <2>1. proc[p].call.status \in Statuses
    BY <1>2, <1>3, Policy
  <2>2. remote' = [status |-> proc[p].call.status, level |-> remote.level,
                   balance |-> remote.balance, credited |-> remote.credited, no |-> proc[p].no]
    BY <1>1, <1>3 DEF SentRemote
  <2>3. /\ remote'.status = proc[p].call.status /\ remote'.level = remote.level
        /\ remote'.balance = remote.balance /\ remote'.credited = remote.credited
        /\ remote'.no = proc[p].no
    BY <2>2
  <2>4. RemoteFit(remote')
    BY <1>1, <1>2, <2>1, <2>2, <2>3 DEF RemoteFit
  <2> QED BY <1>1, <1>2, <1>3, <2>3, <2>4
<1>4. CASE ~IsStatus(proc[p].call)
  <2>1. proc[p].call.level \in Nat \ {0}
    BY <1>2, <1>4, Policy
  <2>2. remote' = [status |-> remote.status, level |-> proc[p].call.level,
                   balance |-> remote.balance, credited |-> remote.credited, no |-> remote.no]
    BY <1>1, <1>4 DEF SentRemote
  <2>3. /\ remote'.status = remote.status /\ remote'.level = proc[p].call.level
        /\ remote'.balance = remote.balance /\ remote'.credited = remote.credited
        /\ remote'.no = remote.no
    BY <2>2
  <2>4. RemoteFit(remote')
    BY <1>1, <1>2, <2>1, <2>2, <2>3 DEF RemoteFit
  <2> QED BY <1>1, <1>2, <1>4, <2>1, <2>3, <2>4
<1> QED BY <1>3, <1>4

LEMMA SendAnswerLostKeeps ==
    ASSUME AccountInv, NEW p \in Processes, SendAnswerLost(p)
    PROVE  AccountInv'
<1>1. PICK m : m = SendCauses(p)
  OBVIOUS
<1>2. /\ proc[p].pc = "send" /\ remote' = SentRemote(p) /\ Errs(p, m)
      /\ UNCHANGED <<user, accounts, ledger, owed, requests>>
  BY <1>1 DEF SendAnswerLost, At, Fault
<1>3. /\ RemoteFit(remote') /\ remote'.level # 0 /\ remote.level # 0
      /\ remote'.credited = remote.credited /\ proc[p].call \in Policies
      /\ IsStatus(proc[p].call) => /\ remote'.level = remote.level /\ remote'.no = proc[p].no
                                   /\ remote'.status = proc[p].call.status
      /\ ~IsStatus(proc[p].call) => /\ remote'.status = remote.status /\ remote'.no = remote.no
  BY <1>2, SentMeans
<1>4. /\ ~IsStatus(proc[p].call) => Overlap(p) \subseteq m
      /\ IsStatus(proc[p].call) /\ proc[p].no < remote.no => "overtaken" \in m
  BY <1>1 DEF SendCauses
<1>5. proc[p].pc \in Carrying
  BY <1>2 DEF Carrying
<1>6. ~IsStatus(proc[p].call) => Unsent
  BY <1>3 DEF Unsent
<1>7. proc[p].pc # "bind"
  BY <1>2
<1>8. CASE IsStatus(proc[p].call)
  BY <1>2, <1>3, <1>4, <1>5, <1>7, <1>8, ErrsKeeps
<1>9. CASE ~IsStatus(proc[p].call)
  BY <1>2, <1>3, <1>4, <1>5, <1>6, <1>7, <1>9, ErrsKeeps
<1> QED BY <1>8, <1>9

LEMMA SendPolicyKeeps ==
    ASSUME AccountInv, NEW p \in Processes, SendPolicy(p)
    PROVE  AccountInv'
<1> USE DEF AccountInv
<1>1. /\ proc[p].pc = "send" /\ remote' = SentRemote(p) /\ Goto(p, "save")
      /\ UNCHANGED <<user, accounts, ledger, ops, owed, requests>>
      /\ causes' = causes \cup SendCauses(p)
  BY DEF SendPolicy, At, bounds
<1>2. /\ RemoteFit(remote') /\ remote'.level # 0 /\ remote.level # 0
      /\ remote'.credited = remote.credited /\ proc[p].call \in Policies
      /\ IsStatus(proc[p].call) => /\ remote'.level = remote.level /\ remote'.no = proc[p].no
                                   /\ remote'.status = proc[p].call.status
      /\ ~IsStatus(proc[p].call) => /\ remote'.level = proc[p].call.level
                                    /\ remote'.status = remote.status /\ remote'.no = remote.no
  BY <1>1, SentMeans
<1>3. PICK r : /\ proc' = [proc EXCEPT ![p] = r] /\ ProcShaped(r)
               /\ r.pc = "save" /\ r.call = proc[p].call /\ r.no = proc[p].no
  BY <1>1, GotoMeans DEF Basic
<1>4. /\ DOMAIN proc' = Processes /\ proc'[p] = r
      /\ \A q \in Processes : q # p => proc'[q] = proc[q]
  BY <1>3 DEF Basic, Procs
<1>5. Stage(r)
  BY <1>1, <1>3 DEF Basic, Procs, Stage, Carrying, Pcs
<1>6. Procs'
  BY <1>3, <1>4, <1>5 DEF Basic, Procs
<1>7. Ops' /\ Accounts' /\ Ledger' /\ DeletedLeavesNothing' /\ Keyed' /\ Succeeded'
  BY <1>1, <1>2 DEF Basic, Ops, Accounts, Ledger, DeletedLeavesNothing, Keyed, Succeeded
<1>8. Remote'
  BY <1>2 DEF Remote
<1>9. Working'
  BY <1>1, <1>3, <1>4 DEF Basic, Working, Carrying, Processes
<1>10. \A q \in Processes : proc'[q].call = proc[q].call /\ proc'[q].no = proc[q].no
  BY <1>3, <1>4
<1>11. Followed'
  <2>1. ASSUME NEW n, Pursued(n)
        PROVE  Pursued(n)'
    BY <1>1, <1>2, <1>10, <2>1 DEF Pursued
  <2> QED BY <1>1, <2>1 DEF Followed
<1>12. /\ ~IsStatus(proc[p].call) => Overlap(p) \subseteq causes'
       /\ IsStatus(proc[p].call) /\ proc[p].no < remote.no => "overtaken" \in causes'
       /\ causes \subseteq causes'
  BY <1>1 DEF SendCauses
<1>13. Alone'
  <2>1. CASE IsStatus(proc[p].call)
    BY <1>1, <1>2, <1>3, <1>4, <1>12, <2>1 DEF Alone, Writes, Newest
  <2>2. CASE ~IsStatus(proc[p].call)
    <3>1. (\E q \in Processes \ {p} : Writes(proc[q])) => "overlap" \in causes'
      BY <1>12, <2>2, OverlapMeans
    <3>2. CASE "overlap" \in causes'
      BY <3>2 DEF Alone
    <3>3. CASE \A q \in Processes \ {p} : ~Writes(proc'[q])
      <4>1. \A q \in Processes : Writes(proc'[q]) => q = p
        BY <3>3
      <4>2. \A q \in Processes : proc'[q].pc \in {"mirror", "bind"} \/
                 (proc'[q].pc = "save" /\ ~IsStatus(proc'[q].call)) => q = p
        BY <4>1 DEF Writes
      <4> QED BY <1>2, <1>3, <1>4, <2>2, <4>1, <4>2 DEF Alone
    <3> QED BY <1>4, <3>1, <3>2, <3>3
  <2> QED BY <2>1, <2>2
<1>14. GivenUp => GivenUp'
  BY <1>12 DEF GivenUp
<1>15. LevelFollows'
  <2>1. CASE ~IsStatus(proc[p].call)
    BY <1>3, <1>4, <2>1 DEF LevelFollows, Owes
  <2>2. CASE IsStatus(proc[p].call)
    <3>1. ASSUME NEW q \in Processes, Owes(proc[q])
          PROVE  Owes(proc'[q])
      BY <1>1, <1>4, <3>1 DEF Owes
    <3>2. causes \cap {"overlap", "stale"} # {} => causes' \cap {"overlap", "stale"} # {}
      BY <1>12
    <3> QED BY <1>1, <1>2, <1>14, <2>2, <3>1, <3>2 DEF LevelFollows, Newest
  <2> QED BY <2>1, <2>2
<1>16. StatusFollows'
  <2>1. CASE GivenUp' \/ causes' \cap {"missed", "overtaken"} # {} \/ user = "deleted"
    BY <1>1, <2>1 DEF StatusFollows
  <2>2. CASE ~(GivenUp' \/ causes' \cap {"missed", "overtaken"} # {} \/ user = "deleted")
    <3>1. PICK asked \in [Nat -> Statuses], last \in Nat : Story(asked, last)
      BY <1>12, <1>14, <2>2 DEF StatusFollows
    <3>2. \A q \in Processes : IsStatus(proc'[q].call) =>
             proc'[q].no <= last /\ asked[proc'[q].no] = proc'[q].call.status
      BY <1>10, <3>1 DEF Story
    <3>3. proc[p].no \in Nat /\ remote.no \in Nat
      BY DEF Basic, Procs, Stage, Remote, RemoteFit
    <3>4. CASE IsStatus(proc[p].call)
      <4>1. ~(proc[p].no < remote.no)
        BY <1>12, <2>2, <3>4
      <4>2. proc[p].no <= last /\ asked[proc[p].no] = proc[p].call.status
        BY <3>1, <3>4 DEF Story
      <4>3. remote'.no = last \/ Waiting(asked[last], last)'
        <5>1. CASE remote.no = last
          BY <1>2, <3>3, <3>4, <4>1, <4>2, <5>1
        <5>2. CASE Waiting(asked[last], last) /\ proc[p].no = last
          BY <1>2, <3>4, <5>2
        <5>3. CASE Waiting(asked[last], last) /\ proc[p].no # last
          BY <1>1, <1>4, <5>3 DEF Waiting
        <5> QED BY <3>1, <5>1, <5>2, <5>3 DEF Story
      <4>4. Story(asked, last)'
        BY <1>1, <1>2, <3>1, <3>2, <3>4, <4>2, <4>3 DEF Story
      <4> QED BY <4>4 DEF StatusFollows
    <3>5. CASE ~IsStatus(proc[p].call)
      <4>1. Waiting(asked[last], last) => Waiting(asked[last], last)'
        <5>1. \A q \in Processes : proc[q].call = Call(asked[last], 0, 0) => q # p
          BY <3>5, StatusCall
        <5> QED BY <1>1, <1>4, <5>1 DEF Waiting
      <4>2. Story(asked, last)'
        BY <1>1, <1>2, <3>1, <3>2, <3>5, <4>1 DEF Story
      <4> QED BY <4>2 DEF StatusFollows
    <3> QED BY <3>4, <3>5
  <2> QED BY <2>1, <2>2
<1> QED BY <1>1, <1>6, <1>7, <1>8, <1>9, <1>11, <1>13, <1>15, <1>16 DEF Basic

\* What a credit leaves of the user of Sub2API.
LEMMA CreditedMeans ==
    ASSUME AccountInv, NEW n, NEW amount, remote.level # 0,
           remote' = Credited(n, amount)
    PROVE  /\ RemoteFit(remote') /\ remote'.level = remote.level /\ remote'.no = remote.no
           /\ remote'.status = remote.status /\ remote'.credited = remote.credited \cup {n}
<1>1. /\ remote = [status |-> remote.status, level |-> remote.level, balance |-> remote.balance,
                   credited |-> remote.credited, no |-> remote.no]
      /\ remote.level \in Nat /\ remote.no \in Nat /\ remote.status \in Statuses
  BY DEF AccountInv, Basic, Remote, RemoteFit
<1>2. CASE n \in remote.credited
  BY <1>1, <1>2 DEF Credited, RemoteFit
<1>3. CASE n \notin remote.credited
  <2>1. remote' = [status |-> remote.status, level |-> remote.level,
                   balance |-> remote.balance + amount, credited |-> remote.credited \cup {n},
                   no |-> remote.no]
    BY <1>1, <1>3 DEF Credited
  <2>2. /\ remote'.status = remote.status /\ remote'.level = remote.level
        /\ remote'.balance = remote.balance + amount /\ remote'.no = remote.no
        /\ remote'.credited = remote.credited \cup {n}
    BY <2>1
  <2> QED BY <1>1, <2>1, <2>2 DEF RemoteFit
<1> QED BY <1>2, <1>3

LEMMA CreditAnswerLostKeeps ==
    ASSUME AccountInv, NEW p \in Processes, CreditAnswerLost(p)
    PROVE  AccountInv'
<1>1. PICK m : m = {}
  OBVIOUS
<1>2. PICK n, amount : n = proc[p].call.tx /\ amount = proc[p].amount
  OBVIOUS
<1>3. /\ proc[p].pc = "credit" /\ remote' = Credited(n, amount) /\ Errs(p, m)
      /\ UNCHANGED <<user, accounts, ledger, owed, requests>>
  BY <1>1, <1>2 DEF CreditAnswerLost, At, Fault
<1>4. remote.level # 0
  BY <1>3 DEF AccountInv, Basic, Remote
<1>5. /\ RemoteFit(remote') /\ remote'.level = remote.level /\ remote'.no = remote.no
      /\ remote'.status = remote.status /\ remote'.credited = remote.credited \cup {n}
  BY <1>3, <1>4, CreditedMeans
<1>6. proc[p].pc \in Carrying
  BY <1>3 DEF Carrying
<1>7. Unsent
  BY <1>4, <1>5 DEF Unsent
<1>8. proc[p].pc # "bind" /\ remote.credited \subseteq remote'.credited
  BY <1>3, <1>5
<1> QED BY <1>3, <1>4, <1>5, <1>6, <1>7, <1>8, ErrsKeeps

LEMMA CreditGrantKeeps ==
    ASSUME AccountInv, NEW p \in Processes, CreditGrant(p)
    PROVE  AccountInv'
<1> USE DEF AccountInv
<1>1. PICK n, amount, c : n = proc[p].call.tx /\ amount = proc[p].amount /\ c = proc[p].call
  OBVIOUS
<1>2. /\ proc[p].pc = "credit" /\ remote' = Credited(n, amount) /\ Done(p)
      /\ UNCHANGED <<user, accounts, ledger, owed, causes, requests>>
  BY <1>1 DEF CreditGrant, At, bounds
<1>3. remote.level # 0
  BY <1>2 DEF Basic, Remote
<1>4. /\ RemoteFit(remote') /\ remote'.level = remote.level /\ remote'.no = remote.no
      /\ remote'.status = remote.status /\ remote'.credited = remote.credited \cup {n}
  BY <1>2, <1>3, CreditedMeans
<1>5. c \in Grants
  BY <1>1, <1>2 DEF Basic, Procs, Stage
<1>6. c \in OpKeys /\ c = Call("", 0, n) /\ ~IsStatus(c) /\ c \notin Policies
  BY <1>1, <1>5, Grant
<1>7. /\ DOMAIN proc' = Processes /\ proc'[p] = Idle
      /\ \A q \in Processes : q # p => proc'[q] = proc[q]
      /\ Procs' /\ Ops' /\ \A k \in OpKeys : k # c => ops'[k] = ops[k]
      /\ p # Worker => ops' = ops
  <2>1. Procs /\ Ops
    BY DEF Basic
  <2>2. c = proc[p].call
    BY <1>1
  <2> QED BY <1>2, <1>6, <2>1, <2>2, DoneMeans
<1>8. Working'
  BY <1>1, <1>7, DoneWorking DEF Basic
<1>9. Idle.pc = "idle" /\ ~IsStatus(Idle.call)
  BY IdleIsFit, NoneCalled
<1>10. Accounts' /\ Ledger' /\ DeletedLeavesNothing' /\ Keyed'
  BY <1>2 DEF Basic, Accounts, Ledger, DeletedLeavesNothing, Keyed
<1>11. Remote'
  BY <1>2, <1>3, <1>4, <1>7, <1>9 DEF Basic, Remote
<1>12. \A k \in Policies : ops'[k] = ops[k]
  BY <1>6, <1>7, Policy
<1>13. \A t \in Transactions : t # n => ops'[Call("", 0, t)] = ops[Call("", 0, t)]
  BY <1>1, <1>7, GrantCall
<1>14. Succeeded'
  BY <1>4, <1>13 DEF Succeeded
<1>15. Followed'
  <2>1. ASSUME NEW t \in Transactions, Pursued(t)
        PROVE  Pursued(t)'
    <3>1. CASE t = n
      BY <1>4, <3>1 DEF Pursued
    <3>2. CASE t # n
      BY <1>1, <1>2, <1>4, <1>7, <1>13, <2>1, <3>2 DEF Pursued
    <3> QED BY <3>1, <3>2
  <2> QED BY <1>2, <2>1 DEF Followed, Basic, Ledger
<1>16. Alone'
  BY <1>2, <1>4, <1>7, <1>9 DEF Alone, Writes, Newest
<1>17. LevelFollows'
  <2>1. ASSUME NEW q \in Processes, Owes(proc[q])
        PROVE  Owes(proc'[q])
    BY <1>2, <1>7, <2>1 DEF Owes
  <2> QED BY <1>2, <1>4, <1>12, <2>1 DEF LevelFollows, GivenUp, Newest
<1>18. StatusFollows'
  <2>1. ASSUME NEW asked \in [Nat -> Statuses], NEW last \in Nat, Story(asked, last)
        PROVE  Story(asked, last)'
    <3>1. \A s \in Statuses : ops'[Call(s, 0, 0)] = ops[Call(s, 0, 0)]
      BY <1>12, StatusCall
    <3>2. \A q \in Processes : IsStatus(proc'[q].call) => proc'[q] = proc[q]
      BY <1>7, <1>9
    <3>3. Waiting(asked[last], last) => Waiting(asked[last], last)'
      BY <1>2, <1>7, <3>1 DEF Waiting, Underway
    <3> QED BY <1>2, <1>4, <2>1, <3>1, <3>2, <3>3 DEF Story
  <2> QED BY <1>2, <2>1 DEF StatusFollows, GivenUp
<1> QED BY <1>2, <1>7, <1>8, <1>10, <1>11, <1>14, <1>15, <1>16, <1>17, <1>18 DEF Basic

LEMMA CreditRedemptionKeeps ==
    ASSUME AccountInv, NEW r \in owed, CreditRedemption(r)
    PROVE  AccountInv'
<1> USE DEF AccountInv
<1>1. PICK n, amount : n = r.id /\ amount = r.amount
  OBVIOUS
<1>2. /\ remote.level # 0 /\ remote' = Credited(n, amount) /\ owed' = owed \ {r}
      /\ UNCHANGED <<user, accounts, ledger, ops, proc, causes, requests>>
  BY <1>1 DEF CreditRedemption, RemoteExists, bounds
<1>3. /\ RemoteFit(remote') /\ remote'.level = remote.level /\ remote'.no = remote.no
      /\ remote'.status = remote.status /\ remote'.credited = remote.credited \cup {n}
  BY <1>2, CreditedMeans
<1>4. Procs' /\ Ops' /\ Accounts' /\ Ledger' /\ Working' /\ Keyed'
  BY <1>2 DEF Basic, Procs, Ops, Accounts, Ledger, Working, Keyed
<1>5. DeletedLeavesNothing'
  BY <1>2 DEF Basic, DeletedLeavesNothing
<1>6. Remote'
  BY <1>2, <1>3 DEF Basic, Remote
<1>7. Succeeded'
  BY <1>2, <1>3 DEF Succeeded
<1>8. Followed'
  <2>1. ASSUME NEW t, Pursued(t)
        PROVE  Pursued(t)'
    BY <1>2, <1>3, <2>1 DEF Pursued
  <2> QED BY <1>2, <2>1 DEF Followed
<1>9. Alone' /\ LevelFollows'
  BY <1>2, <1>3 DEF Alone, LevelFollows, GivenUp, Newest
<1>10. StatusFollows'
  <2>1. ASSUME NEW asked \in [Nat -> Statuses], NEW last \in Nat, Story(asked, last)
        PROVE  Story(asked, last)'
    BY <1>2, <1>3, <2>1 DEF Story, Waiting
  <2> QED BY <1>2, <2>1 DEF StatusFollows, GivenUp
<1> QED BY <1>2, <1>4, <1>5, <1>6, <1>7, <1>8, <1>9, <1>10 DEF Basic

LEMMA DeleteUserKeeps ==
    ASSUME AccountInv, NEW h \in Handlers, DeleteUser(h)
    PROVE  AccountInv'
<1> USE DEF AccountInv
<1>1. /\ user' = "deleted" /\ accounts' = << >> /\ ledger' = << >> /\ owed' = {}
      /\ UNCHANGED <<remote, ops, proc, causes>>
  BY DEF DeleteUser, DeleteRows
<1>2. requests' \in Nat
  BY DEF DeleteUser, Arrives, Basic
<1>3. Procs' /\ Ops' /\ Remote' /\ Working' /\ Succeeded' /\ DeletedLeavesNothing'
  BY <1>1 DEF Basic, Procs, Ops, Remote, Working, Succeeded, DeletedLeavesNothing
<1>4. Accounts' /\ Ledger' /\ Keyed' /\ Followed'
  <2>1. DOMAIN accounts' = {} /\ DOMAIN ledger' = {}
    BY <1>1
  <2>2. accounts' \in Seq(AccountRow) /\ ledger' \in Seq({})
    BY <1>1
  <2> QED BY <2>1, <2>2 DEF Accounts, Ledger, Keyed, Followed
<1>5. Alone' /\ LevelFollows' /\ StatusFollows'
  BY <1>1 DEF Alone, LevelFollows, StatusFollows, Newest
<1> QED BY <1>1, <1>2, <1>3, <1>4, <1>5 DEF Basic

LEMMA CrashKeeps ==
    ASSUME AccountInv, NEW h \in Handlers, Crash(h)
    PROVE  AccountInv'
<1> USE DEF AccountInv
<1>1. /\ proc' = [proc EXCEPT ![h] = Idle] /\ causes' = causes \cup {"crashed"}
      /\ UNCHANGED <<user, accounts, remote, ledger, ops, owed, requests>>
  BY DEF Crash, Fault
<1>2. h \in Processes /\ h # Worker /\ Worker \in Processes
  BY AccountAssumption DEF Processes
<1>3. /\ DOMAIN proc' = Processes /\ proc'[h] = Idle
      /\ \A q \in Processes : q # h => proc'[q] = proc[q]
  BY <1>1, <1>2 DEF Basic, Procs
<1>4. Idle.pc = "idle" /\ ProcShaped(Idle) /\ Stage(Idle)
  BY IdleIsFit
<1>5. Procs' /\ Ops' /\ Accounts' /\ Ledger' /\ DeletedLeavesNothing' /\ Keyed' /\ Succeeded'
  BY <1>1, <1>3, <1>4
     DEF Basic, Procs, Ops, Accounts, Ledger, DeletedLeavesNothing, Keyed, Succeeded
<1>6. Remote'
  BY <1>1, <1>3, <1>4 DEF Basic, Remote
<1>7. Working'
  BY <1>1, <1>2, <1>3 DEF Basic, Working
<1>8. "crashed" \in causes' /\ GivenUp'
  BY <1>1 DEF GivenUp
<1>9. Followed' /\ LevelFollows' /\ StatusFollows'
  BY <1>8 DEF Followed, Pursued, LevelFollows, StatusFollows
<1>10. Alone'
  BY <1>1, <1>3, <1>4 DEF Alone, Writes, Newest
<1> QED BY <1>1, <1>5, <1>6, <1>7, <1>9, <1>10 DEF Basic

LEMMA ClaimKeeps ==
    ASSUME AccountInv, NEW k \in OpKeys, Claim(k)
    PROVE  AccountInv'
<1> USE DEF AccountInv
<1>1. /\ proc[Worker].pc = "idle" /\ ops[k].status = "failed"
      /\ ops' = [ops EXCEPT ![k].status = "running"]
      /\ UNCHANGED <<user, accounts, remote, ledger, owed, causes, requests>>
  BY DEF Claim, At, bounds
<1>2. Worker \in Processes
  BY DEF Processes
<1>3. /\ ops[k] = [status |-> ops[k].status, amount |-> ops[k].amount, no |-> ops[k].no]
      /\ ops[k].no \in Nat /\ DOMAIN ops = OpKeys
      /\ \A j \in OpKeys : OpShaped(ops[j])
  BY DEF Basic, Ops, OpShaped
<1>4. /\ DOMAIN ops' = OpKeys /\ \A j \in OpKeys : j # k => ops'[j] = ops[j]
      /\ ops'[k] = [ops[k] EXCEPT !.status = "running"]
  BY <1>1, <1>3
<1>5. ops'[k] = [status |-> "running", amount |-> ops[k].amount, no |-> ops[k].no]
  BY <1>3, <1>4
<1>6. Ops' /\ ops'[k].status = "running" /\ ops'[k].no = ops[k].no
  BY <1>3, <1>4, <1>5 DEF Ops, OpShaped
<1>7. \E r : /\ proc' = [proc EXCEPT ![Worker] = r] /\ ProcShaped(r) /\ Stage(r) /\ r.call = k
             /\ r.pc = IF k \in Policies THEN "load" ELSE "check"
             /\ k \in Policies => r.no = ops[k].no
  <2>1. CASE k \in Policies
    <3>1. PICK r : r = [Idle EXCEPT !.pc = "load", !.call = k, !.no = ops[k].no]
      OBVIOUS
    <3>2. proc' = [proc EXCEPT ![Worker] = r]
      BY <2>1, <3>1 DEF Claim
    <3>3. r = [pc |-> "load", call |-> k, key |-> None, amount |-> 0, sync |-> TRUE,
               sum |-> 0, snap |-> NoUser, no |-> ops[k].no, level |-> 0]
      BY <3>1 DEF Idle
    <3>4. r.pc = "load" /\ r.call = k /\ r.no = ops[k].no /\ ProcShaped(r)
      BY <3>3 DEF ProcShaped
    <3>5. Stage(r)
      BY <1>3, <2>1, <3>4 DEF Stage, Carrying, Pcs
    <3> QED BY <2>1, <3>2, <3>4, <3>5
  <2>2. CASE k \notin Policies
    <3>1. PICK r : r = [Idle EXCEPT !.pc = "check", !.call = k, !.amount = ops[k].amount]
      OBVIOUS
    <3>2. proc' = [proc EXCEPT ![Worker] = r]
      BY <2>2, <3>1 DEF Claim
    <3>3. r = [pc |-> "check", call |-> k, key |-> None, amount |-> ops[k].amount, sync |-> TRUE,
               sum |-> 0, snap |-> NoUser, no |-> 0, level |-> 0]
      BY <3>1 DEF Idle
    <3>4. r.pc = "check" /\ r.call = k /\ r.no \in Nat /\ ProcShaped(r)
      BY <3>3 DEF ProcShaped
    <3>5. k \in Grants
      BY <2>2, OpKey
    <3>6. Stage(r)
      BY <3>4, <3>5 DEF Stage, Carrying, Pcs
    <3> QED BY <2>2, <3>2, <3>4, <3>6
  <2> QED BY <2>1, <2>2
<1>8. PICK r : /\ proc' = [proc EXCEPT ![Worker] = r] /\ ProcShaped(r) /\ Stage(r) /\ r.call = k
               /\ r.pc = IF k \in Policies THEN "load" ELSE "check"
               /\ k \in Policies => r.no = ops[k].no
  BY <1>7
<1>9. /\ DOMAIN proc' = Processes /\ proc'[Worker] = r
      /\ \A q \in Processes : q # Worker => proc'[q] = proc[q]
      /\ proc[Worker].call = NoCall /\ r.pc \in {"load", "check"}
  BY <1>1, <1>2, <1>8 DEF Basic, Procs, Stage, Carrying
<1>10. IsStatus(k) => k \in Policies /\ r.pc = "load" /\ r.no = ops[k].no
                          /\ k.status \in Statuses /\ k = Call(k.status, 0, 0)
  BY <1>8, OpKey, Grant, Policy
<1>11. Procs'
  BY <1>8, <1>9 DEF Basic, Procs
<1>12. Working'
  BY <1>6, <1>8, <1>9, <1>10 DEF Working, Carrying
<1>13. Accounts' /\ Ledger' /\ DeletedLeavesNothing' /\ Keyed'
  BY <1>1 DEF Basic, Accounts, Ledger, DeletedLeavesNothing, Keyed
<1>14. Remote'
  BY <1>1, <1>9 DEF Basic, Remote
<1>15. Succeeded'
  <2>1. \A t \in Transactions : Call("", 0, t) \in OpKeys
    BY GrantCall
  <2> QED BY <1>1, <1>4, <1>6, <2>1 DEF Succeeded
<1>16. Followed'
  <2>1. ASSUME NEW t \in Transactions, Pursued(t)
        PROVE  Pursued(t)'
    <3>1. Call("", 0, t) \in OpKeys /\ t # 0
      BY GrantCall
    <3>2. \A q \in Processes : proc[q].call.tx = t => proc'[q].call.tx = t
      BY <1>9, <3>1, NoneCalled
    <3> QED BY <1>1, <1>4, <1>6, <2>1, <3>1, <3>2 DEF Pursued
  <2> QED BY <1>1, <2>1 DEF Followed, Basic, Ledger
<1>17. Alone'
  BY <1>1, <1>9 DEF Alone, Writes, Newest
<1>18. LevelFollows'
  <2>1. \A j \in Policies : ops[j].status \in {"failed", "running"} =>
           ops'[j].status \in {"failed", "running"}
    BY <1>4, <1>6, Policy
  <2>2. ASSUME NEW q \in Processes, Owes(proc[q])
        PROVE  Owes(proc'[q])
    BY <1>1, <1>9, <2>2 DEF Owes
  <2> QED BY <1>1, <2>1, <2>2 DEF LevelFollows, GivenUp, Newest
<1>19. StatusFollows'
  <2>1. ASSUME NEW asked \in [Nat -> Statuses], NEW last \in Nat, Story(asked, last)
        PROVE  Story(asked, last)'
    <3>1. ASSUME NEW s \in Statuses
          PROVE  /\ ops'[Call(s, 0, 0)].no = ops[Call(s, 0, 0)].no
                 /\ ops'[Call(s, 0, 0)].status \in {"failed", "running"} =>
                       ops[Call(s, 0, 0)].status \in {"failed", "running"}
                 /\ Call(s, 0, 0) # k => ops'[Call(s, 0, 0)] = ops[Call(s, 0, 0)]
      BY <1>1, <1>4, <1>6, <3>1, StatusCall
    <3>2. IsStatus(k) => ops[k].no <= last /\ asked[ops[k].no] = k.status
      BY <1>1, <1>10, <2>1 DEF Story
    <3>3. \A q \in Processes : IsStatus(proc'[q].call) =>
             proc'[q].no <= last /\ asked[proc'[q].no] = proc'[q].call.status
      BY <1>8, <1>9, <1>10, <2>1, <3>2 DEF Story
    <3>4. Waiting(asked[last], last) => Waiting(asked[last], last)'
      <4>1. PICK s \in Statuses : s = asked[last]
        OBVIOUS
      <4>2. CASE ops[Call(s, 0, 0)].status = "failed" /\ ops[Call(s, 0, 0)].no = last
        <5>1. CASE Call(s, 0, 0) = k
          <6>1. IsStatus(k)
            BY <5>1, StatusCall
          <6> QED BY <1>2, <1>8, <1>9, <1>10, <4>1, <4>2, <5>1, <6>1 DEF Waiting, Underway
        <5>2. CASE Call(s, 0, 0) # k
          BY <3>1, <4>1, <4>2, <5>2 DEF Waiting
        <5> QED BY <5>1, <5>2
      <4>3. CASE \E q \in Processes : /\ proc[q].pc \in Underway
                                      /\ proc[q].call = Call(s, 0, 0) /\ proc[q].no = last
        BY <1>1, <1>9, <4>1, <4>3 DEF Waiting, Underway
      <4> QED BY <4>1, <4>2, <4>3 DEF Waiting
    <3> QED BY <1>1, <2>1, <3>1, <3>3, <3>4 DEF Story
  <2> QED BY <1>1, <2>1 DEF StatusFollows, GivenUp
<1> QED BY <1>1, <1>6, <1>11, <1>12, <1>13, <1>14, <1>15, <1>16, <1>17, <1>18, <1>19 DEF Basic

\* What EnsureSub2APIAccount leaves of the user of Sub2API.
LEMMA EnsuredMeans ==
    ASSUME AccountInv, NEW p \in Processes, proc[p].pc \in {"policy", "create"},
           remote' = EnsuredRemote(p)
    PROVE  /\ RemoteFit(remote') /\ remote'.level = proc[p].level /\ remote'.level # 0
           /\ remote'.credited = remote.credited /\ Unsent
<1>1. /\ remote = [status |-> remote.status, level |-> remote.level, balance |-> remote.balance,
                   credited |-> remote.credited, no |-> remote.no]
      /\ remote.level \in Nat /\ remote.no \in Nat /\ remote.status \in Statuses
      /\ remote.level = 0 => remote.credited = {} /\ remote.no = 0 /\ proc[p].pc = "create"
  BY DEF AccountInv, Basic, Remote, RemoteFit
<1>2. PICK l : l = proc[p].level
  OBVIOUS
<1>3. l \in Nat \ {0} /\ (proc[p].pc = "create" => l = ManagedLevel)
  BY <1>2 DEF AccountInv, Basic, Procs, Stage
<1>4. CASE remote.level # 0
  <2>1. remote' = [remote EXCEPT !.level = l]
    BY <1>2, <1>4 DEF EnsuredRemote, RemoteExists
  <2>2. remote' = [status |-> remote.status, level |-> l, balance |-> remote.balance,
                   credited |-> remote.credited, no |-> remote.no]
    BY <1>1, <2>1
  <2>3. /\ remote'.status = remote.status /\ remote'.level = l /\ remote'.balance = remote.balance
        /\ remote'.credited = remote.credited /\ remote'.no = remote.no
    BY <2>2
  <2>4. RemoteFit(remote')
    BY <1>1, <1>3, <2>2, <2>3 DEF RemoteFit
  <2> QED BY <1>2, <1>3, <1>4, <2>3, <2>4 DEF Unsent
<1>5. CASE remote.level = 0
  <2>1. remote' = NewUser
    BY <1>5 DEF EnsuredRemote, RemoteExists
  <2>2. remote' = [status |-> "active", level |-> ManagedLevel, balance |-> 0, credited |-> {},
                   no |-> 0]
    BY <2>1 DEF NewUser, NoUser
  <2>3. /\ remote'.status = "active" /\ remote'.level = ManagedLevel /\ remote'.balance = 0
        /\ remote'.credited = {} /\ remote'.no = 0
    BY <2>2
  <2>4. RemoteFit(remote')
    BY <1>1, <1>3, <1>5, <2>2, <2>3 DEF RemoteFit, Statuses
  <2> QED BY <1>1, <1>2, <1>3, <1>5, <2>3, <2>4 DEF Unsent
<1> QED BY <1>4, <1>5

\* The row that is written, if one is, is the newest and the only active one.
LEMMA BoundMeans ==
    ASSUME AccountInv, Exists, accounts' = Bound
    PROVE  /\ Accounts' /\ accounts' # << >>
           /\ ActiveRows # {} => accounts' = accounts
           /\ ActiveRows = {} => accounts'[Len(accounts')].level = ManagedLevel
<1>1. accounts \in Seq(AccountRow)
      /\ \A i \in DOMAIN accounts : accounts[i].status = "active" => i = Len(accounts)
  BY DEF AccountInv, Basic, Accounts
<1>2. CASE ActiveRows # {}
  <2>1. accounts' = accounts /\ accounts # << >>
    BY <1>2 DEF Bound, ActiveRows
  <2> QED BY <1>1, <1>2, <2>1 DEF Accounts
<1>3. CASE ActiveRows = {}
  <2>1. accounts' = Append(accounts, NewAccount)
    BY <1>3 DEF Bound
  <2>2. NewAccount \in AccountRow /\ NewAccount.level = ManagedLevel
    BY AccountAssumption DEF NewAccount, AccountRow, Statuses
  <2>3. /\ accounts' \in Seq(AccountRow) /\ Len(accounts') = Len(accounts) + 1
        /\ accounts'[Len(accounts')] = NewAccount
        /\ \A i \in 1 .. Len(accounts) : accounts'[i] = accounts[i]
        /\ accounts' # << >> /\ Len(accounts) \in Nat
    BY <1>1, <2>1, <2>2
  <2>4. \A i \in DOMAIN accounts : accounts[i].status # "active"
    BY <1>3 DEF ActiveRows
  <2>5. ASSUME NEW i \in DOMAIN accounts', accounts'[i].status = "active"
        PROVE  i = Len(accounts')
    <3>1. i \in 1 .. Len(accounts') /\ DOMAIN accounts = 1 .. Len(accounts)
      BY <1>1, <2>3
    <3> QED BY <2>3, <2>4, <2>5, <3>1
  <2> QED BY <1>3, <2>2, <2>3, <2>5 DEF Accounts
<1> QED BY <1>2, <1>3

LEMMA EnsureAccountKeeps ==
    ASSUME AccountInv, NEW p \in Processes, EnsureAccount(p)
    PROVE  AccountInv'
<1>1. /\ proc[p].pc = "ensure"
      /\ UNCHANGED <<user, accounts, remote, ledger, ops, causes, owed, requests>>
  BY DEF EnsureAccount, At, bounds
<1>2. ProcShaped(proc[p]) /\ Stage(proc[p]) /\ DOMAIN proc = Processes
  BY DEF AccountInv, Basic, Procs
<1>3. \E x \in {"policy", "create"}, l \in Nat \ {0} :
         /\ proc' = [proc EXCEPT ![p].pc = x, ![p].level = l]
         /\ x = "policy" => remote.level # 0
         /\ x = "create" => l = ManagedLevel
  <2>1. CASE \E i \in ActiveRows :
                proc' = [proc EXCEPT ![p].pc = "policy", ![p].level = accounts[i].level]
    <3>1. PICK i \in ActiveRows :
                proc' = [proc EXCEPT ![p].pc = "policy", ![p].level = accounts[i].level]
      BY <2>1
    <3>2. accounts \in Seq(AccountRow) /\ i \in DOMAIN accounts
      BY DEF AccountInv, Basic, Accounts, ActiveRows
    <3>3. accounts[i] \in AccountRow /\ accounts # << >>
      BY <3>2
    <3>4. accounts[i].level \in Nat \ {0}
      BY <3>3 DEF AccountRow
    <3>5. remote.level # 0
      BY <3>3 DEF AccountInv, Basic, Remote
    <3> QED BY <3>1, <3>4, <3>5
  <2>2. CASE proc' = [proc EXCEPT ![p].pc = "create", ![p].level = ManagedLevel]
    BY <2>2, AccountAssumption
  <2> QED BY <2>1, <2>2 DEF EnsureAccount
<1>4. PICK x \in {"policy", "create"}, l \in Nat \ {0} :
         /\ proc' = [proc EXCEPT ![p].pc = x, ![p].level = l]
         /\ x = "policy" => remote.level # 0
         /\ x = "create" => l = ManagedLevel
  BY <1>3
<1>5. PICK r : r = [proc[p] EXCEPT !.pc = x, !.level = l]
  OBVIOUS
<1>6. proc' = [proc EXCEPT ![p] = r]
  BY <1>2, <1>4, <1>5
<1>7. r = [pc |-> x, call |-> proc[p].call, key |-> proc[p].key, amount |-> proc[p].amount,
           sync |-> proc[p].sync, sum |-> proc[p].sum, snap |-> proc[p].snap,
           no |-> proc[p].no, level |-> l]
  BY <1>2, <1>5 DEF ProcShaped
<1>8. /\ r.pc = x /\ r.call = proc[p].call /\ r.no = proc[p].no /\ r.level = l /\ ProcShaped(r)
  BY <1>7 DEF ProcShaped
<1>9. Stage(r)
  BY <1>1, <1>2, <1>4, <1>8 DEF Stage, Carrying, Pcs
<1> QED BY <1>1, <1>4, <1>6, <1>8, <1>9, MoveKeeps DEF Carrying, Underway

\* Its call to Sub2API: the level sent is now the caller's to mirror.
LEMMA EnsureSentKeeps ==
    ASSUME AccountInv, NEW p \in Processes, NEW x \in {"mirror", "bind"},
           proc[p].pc = (IF x = "mirror" THEN "policy" ELSE "create"),
           remote' = EnsuredRemote(p), Goto(p, x), causes \subseteq causes',
           Overlap(p) \subseteq causes', x = "mirror" => Unmirrored(p) \subseteq causes',
           UNCHANGED <<user, accounts, ledger, ops, owed, requests>>
    PROVE  AccountInv'
<1> USE DEF AccountInv
<1>1. /\ RemoteFit(remote') /\ remote'.level = proc[p].level /\ remote'.level # 0
      /\ remote'.credited = remote.credited /\ Unsent
  BY EnsuredMeans
<1>2. PICK r : /\ proc' = [proc EXCEPT ![p] = r] /\ ProcShaped(r)
               /\ r.pc = x /\ r.call = proc[p].call /\ r.no = proc[p].no /\ r.level = proc[p].level
  BY GotoMeans DEF Basic
<1>3. /\ DOMAIN proc' = Processes /\ proc'[p] = r
      /\ \A q \in Processes : q # p => proc'[q] = proc[q]
  BY <1>2 DEF Basic, Procs
<1>4. Stage(r)
  BY <1>2 DEF Basic, Procs, Stage, Carrying, Pcs
<1>5. Procs'
  BY <1>2, <1>3, <1>4 DEF Basic, Procs
<1>6. Ops' /\ Accounts' /\ Ledger' /\ DeletedLeavesNothing' /\ Keyed' /\ Succeeded'
  BY <1>1 DEF Basic, Ops, Accounts, Ledger, DeletedLeavesNothing, Keyed, Succeeded
<1>7. Remote'
  BY <1>1 DEF Remote
<1>8. Working'
  BY <1>2, <1>3 DEF Basic, Working, Carrying, Processes
<1>9. \A q \in Processes : proc'[q].call = proc[q].call /\ proc'[q].no = proc[q].no
  BY <1>2, <1>3
<1>10. Followed'
  <2>1. ASSUME NEW n, Pursued(n)
        PROVE  Pursued(n)'
    BY <1>1, <1>9, <2>1 DEF Pursued
  <2> QED BY <2>1 DEF Followed
<1>11. x = "mirror" => \/ accounts = << >> \/ accounts[Len(accounts)].level = proc[p].level
                       \/ "stale" \in causes'
  BY DEF Unmirrored
<1>12. Alone'
  <2>1. (\E q \in Processes \ {p} : Writes(proc[q])) => "overlap" \in causes'
    BY OverlapMeans
  <2>2. CASE "overlap" \in causes'
    BY <2>2 DEF Alone
  <2>3. CASE \A q \in Processes \ {p} : ~Writes(proc[q])
    <3>1. \A q \in Processes : Writes(proc'[q]) => q = p
      BY <1>3, <2>3
    <3>2. \A q \in Processes :
             \/ proc'[q].pc \in {"mirror", "bind"}
             \/ proc'[q].pc = "save" /\ ~IsStatus(proc'[q].call)
             => q = p
      BY <3>1 DEF Writes
    <3> QED BY <1>1, <1>2, <1>3, <1>11, <3>1, <3>2 DEF Alone, Newest
  <2> QED BY <2>1, <2>2, <2>3
<1>13. LevelFollows'
  <2>1. CASE x = "bind"
    BY <1>2, <1>3, <2>1 DEF LevelFollows, Owes
  <2>2. CASE x = "mirror"
    BY <1>1, <1>11, <2>2 DEF LevelFollows, Newest
  <2> QED BY <2>1, <2>2
<1>14. StatusFollows'
  <2>1. ASSUME NEW asked \in [Nat -> Statuses], NEW last \in Nat, Story(asked, last)
        PROVE  Story(asked, last)'
    <3>1. remote'.level # 0 => asked[remote'.no] = remote'.status
      BY <1>1, <2>1, UnsentMeans DEF Basic
    <3>2. Waiting(asked[last], last) => Waiting(asked[last], last)'
      BY <1>2, <1>3 DEF Waiting, Underway
    <3>3. \A q \in Processes : IsStatus(proc'[q].call) =>
             proc'[q].no <= last /\ asked[proc'[q].no] = proc'[q].call.status
      BY <1>9, <2>1 DEF Story
    <3> QED BY <1>1, <2>1, <3>1, <3>2, <3>3 DEF Story, Unsent
  <2>2. GivenUp => GivenUp'
    BY DEF GivenUp
  <2>3. causes \cap {"missed", "overtaken"} # {} => causes' \cap {"missed", "overtaken"} # {}
    OBVIOUS
  <2> QED BY <2>1, <2>2, <2>3 DEF StatusFollows
<1> QED BY <1>5, <1>6, <1>7, <1>8, <1>10, <1>12, <1>13, <1>14 DEF Basic

LEMMA EnsurePolicyKeeps ==
    ASSUME AccountInv, NEW p \in Processes, EnsurePolicy(p)
    PROVE  AccountInv'
<1>1. /\ proc[p].pc = "policy" /\ remote' = EnsuredRemote(p) /\ Goto(p, "mirror")
      /\ causes \subseteq causes' /\ Overlap(p) \subseteq causes' /\ Unmirrored(p) \subseteq causes'
      /\ UNCHANGED <<user, accounts, ledger, ops, owed, requests>>
  BY DEF EnsurePolicy, At, bounds
<1>2. PICK x \in {"mirror", "bind"} : x = "mirror"
  OBVIOUS
<1>3. proc[p].pc = (IF x = "mirror" THEN "policy" ELSE "create") /\ Goto(p, x)
  BY <1>1, <1>2
<1> QED BY <1>1, <1>3, EnsureSentKeeps

LEMMA EnsureUserKeeps ==
    ASSUME AccountInv, NEW p \in Processes, EnsureUser(p)
    PROVE  AccountInv'
<1>1. /\ proc[p].pc = "create" /\ remote' = EnsuredRemote(p) /\ Goto(p, "bind")
      /\ causes \subseteq causes' /\ Overlap(p) \subseteq causes'
      /\ UNCHANGED <<user, accounts, ledger, ops, owed, requests>>
  BY DEF EnsureUser, At, bounds
<1>2. PICK x \in {"mirror", "bind"} : x = "bind"
  OBVIOUS
<1>3. proc[p].pc = (IF x = "mirror" THEN "policy" ELSE "create") /\ Goto(p, x) /\ x # "mirror"
  BY <1>1, <1>2
<1> QED BY <1>1, <1>3, EnsureSentKeeps

LEMMA EnsureAnswerLostKeeps ==
    ASSUME AccountInv, NEW p \in Processes, EnsureAnswerLost(p)
    PROVE  AccountInv'
<1>1. PICK m : m = Overlap(p) \cup Unmirrored(p)
  OBVIOUS
<1>2. /\ proc[p].pc \in {"policy", "create"} /\ remote' = EnsuredRemote(p) /\ Errs(p, m)
      /\ UNCHANGED <<user, accounts, ledger, owed, requests>>
  BY <1>1 DEF EnsureAnswerLost, At, Fault
<1>3. /\ RemoteFit(remote') /\ remote'.level = proc[p].level /\ remote'.level # 0
      /\ remote'.credited = remote.credited /\ Unsent
  BY <1>2, EnsuredMeans
<1>4. Overlap(p) \subseteq m /\ (Newest(remote'.level) \/ "stale" \in m)
  BY <1>1, <1>3 DEF Newest, Unmirrored
<1>5. proc[p].pc \in Carrying /\ proc[p].pc # "bind" /\ remote.credited \subseteq remote'.credited
  BY <1>2, <1>3 DEF Carrying
<1> QED BY <1>2, <1>3, <1>4, <1>5, ErrsKeeps

\* On to what the account was wanted for: the newest one mirrors the level, or nobody knows.
LEMMA OnwardKeeps ==
    ASSUME AccountInv, NEW p \in Processes, proc[p].pc \in {"mirror", "bind"}, Onward(p),
           Accounts', DeletedLeavesNothing', causes \subseteq causes',
           UNCHANGED <<user, remote, ledger, ops, owed, requests>>,
           \/ user = "deleted" \/ "overlap" \in causes \/ "stale" \in causes'
           \/ accounts' = << >> \/ accounts'[Len(accounts')].level = remote.level
    PROVE  AccountInv'
<1> USE DEF AccountInv
<1>1. ProcShaped(proc[p]) /\ Stage(proc[p]) /\ DOMAIN proc = Processes
  BY DEF Basic, Procs
<1>2. PICK x : x = IF IsGrant(p) THEN "credit" ELSE "send"
  OBVIOUS
<1>3. PICK r : r = [proc[p] EXCEPT !.pc = x, !.level = 0]
  OBVIOUS
<1>4. proc' = [proc EXCEPT ![p] = r]
  BY <1>1, <1>2, <1>3 DEF Onward
<1>5. r = [pc |-> x, call |-> proc[p].call, key |-> proc[p].key, amount |-> proc[p].amount,
           sync |-> proc[p].sync, sum |-> proc[p].sum, snap |-> proc[p].snap,
           no |-> proc[p].no, level |-> 0]
  BY <1>1, <1>3 DEF ProcShaped
<1>6. r.pc = x /\ r.call = proc[p].call /\ r.no = proc[p].no /\ ProcShaped(r)
  BY <1>5 DEF ProcShaped
<1>7. x \in {"credit", "send"}
  BY <1>2
<1>8. Stage(r)
  <2>1. proc[p].call \in OpKeys /\ proc[p].no \in Nat
    BY <1>1 DEF Stage
  <2>2. CASE IsGrant(p)
    <3>1. r.call \in Grants /\ r.pc = "credit"
      BY <1>2, <1>6, <2>1, <2>2, OpKey, Policy DEF IsGrant
    <3> QED BY <1>6, <2>1, <3>1 DEF Stage, Carrying, Pcs
  <2>3. CASE ~IsGrant(p)
    <3>1. r.call \in Policies /\ r.pc = "send"
      BY <1>2, <1>6, <2>1, <2>3, OpKey, Grant DEF IsGrant
    <3> QED BY <1>6, <2>1, <3>1 DEF Stage, Carrying, Pcs
  <2> QED BY <2>2, <2>3
<1>9. /\ DOMAIN proc' = Processes /\ proc'[p] = r
      /\ \A q \in Processes : q # p => proc'[q] = proc[q]
  BY <1>1, <1>4
<1>10. Procs'
  BY <1>6, <1>8, <1>9 DEF Basic, Procs
<1>11. Ops' /\ Ledger' /\ Keyed' /\ Succeeded'
  BY DEF Basic, Ops, Ledger, Keyed, Succeeded
<1>12. Remote'
  BY <1>6, <1>7 DEF Basic, Remote
<1>13. Working'
  BY <1>6, <1>7, <1>9 DEF Basic, Working, Carrying, Processes
<1>14. \A q \in Processes : proc'[q].call = proc[q].call /\ proc'[q].no = proc[q].no
  BY <1>6, <1>9
<1>15. Followed'
  <2>1. ASSUME NEW n, Pursued(n)
        PROVE  Pursued(n)'
    BY <1>14, <2>1 DEF Pursued
  <2> QED BY <2>1 DEF Followed
<1>16. Writes(proc[p]) /\ ~Writes(proc'[p])
  BY <1>6, <1>7, <1>9 DEF Writes
<1>17. Alone'
  <2>1. \/ "overlap" \in causes \/ user = "deleted"
        \/ \A q \in Processes : ~Writes(proc'[q])
    BY <1>9, <1>16 DEF Alone
  <2> QED BY <2>1 DEF Alone, Writes
<1>18. LevelFollows'
  BY DEF LevelFollows, Newest, DeletedLeavesNothing
<1>19. StatusFollows'
  <2>1. ASSUME NEW asked \in [Nat -> Statuses], NEW last \in Nat, Story(asked, last)
        PROVE  Story(asked, last)'
    <3>1. Waiting(asked[last], last) => Waiting(asked[last], last)'
      <4>1. Call(asked[last], 0, 0).tx = 0
        BY StatusCall
      <4>2. proc[p].call = Call(asked[last], 0, 0) => r.pc = "send"
        BY <1>2, <1>6, <4>1 DEF IsGrant
      <4> QED BY <1>6, <1>9, <4>2 DEF Waiting, Underway
    <3>2. \A q \in Processes : IsStatus(proc'[q].call) =>
             proc'[q].no <= last /\ asked[proc'[q].no] = proc'[q].call.status
      BY <1>14, <2>1 DEF Story
    <3> QED BY <2>1, <3>1, <3>2 DEF Story
  <2>2. GivenUp => GivenUp'
    BY DEF GivenUp
  <2>3. causes \cap {"missed", "overtaken"} # {} => causes' \cap {"missed", "overtaken"} # {}
    OBVIOUS
  <2> QED BY <2>1, <2>2, <2>3 DEF StatusFollows
<1> QED BY <1>10, <1>11, <1>12, <1>13, <1>15, <1>17, <1>18, <1>19 DEF Basic

\* The UPDATE by the level read before leaves the statuses, and the newest row at its level or at
\* that one.
LEMMA MirroredLevelMeans ==
    ASSUME AccountInv, NEW l \in Nat \ {0}, NEW all \in BOOLEAN,
           accounts' = MirroredLevel(l, all)
    PROVE  /\ Accounts' /\ (accounts' = << >> <=> accounts = << >>)
           /\ accounts # << >> =>
                 accounts'[Len(accounts')].level \in {accounts[Len(accounts)].level, l}
<1>1. accounts \in Seq(AccountRow) /\ Len(accounts) \in Nat /\ DOMAIN accounts = 1 .. Len(accounts)
      /\ \A i \in DOMAIN accounts : accounts[i].status = "active" => i = Len(accounts)
  BY DEF AccountInv, Basic, Accounts
<1>2. ASSUME NEW i \in DOMAIN accounts
      PROVE  /\ accounts'[i] \in AccountRow /\ accounts'[i].status = accounts[i].status
             /\ accounts'[i].level \in {accounts[i].level, l}
  <2>1. accounts[i] \in AccountRow
    BY <1>1
  <2>2. accounts[i] = [status |-> accounts[i].status, level |-> accounts[i].level]
        /\ accounts[i].status \in Statuses /\ accounts[i].level \in Nat \ {0}
    BY <2>1 DEF AccountRow
  <2>3. CASE accounts'[i] = [accounts[i] EXCEPT !.level = l]
    <3>1. accounts'[i] = [status |-> accounts[i].status, level |-> l]
      BY <2>2, <2>3
    <3> QED BY <2>2, <3>1 DEF AccountRow
  <2>4. CASE accounts'[i] = accounts[i]
    BY <2>1, <2>4
  <2> QED BY <2>3, <2>4 DEF MirroredLevel
<1>3. accounts' \in [1 .. Len(accounts) -> AccountRow]
  <2>1. DOMAIN accounts' = 1 .. Len(accounts) /\ accounts' = [i \in DOMAIN accounts |-> accounts'[i]]
    BY <1>1 DEF MirroredLevel
  <2> QED BY <1>1, <1>2, <2>1
<1>4. accounts' \in Seq(AccountRow) /\ Len(accounts') = Len(accounts)
  BY <1>1, <1>3
<1>5. accounts' = << >> <=> accounts = << >>
  BY <1>1, <1>4
<1>6. accounts # << >> => Len(accounts) \in DOMAIN accounts
  BY <1>1
<1>7. Accounts'
  BY <1>1, <1>2, <1>3, <1>4 DEF Accounts
<1> QED BY <1>2, <1>4, <1>5, <1>6, <1>7

\* Who is between Sub2API and the mirror knows what Sub2API has.
LEMMA WriterKnows ==
    ASSUME AccountInv, NEW p \in Processes, proc[p].pc \in {"mirror", "bind"}
    PROVE  \/ user = "deleted" \/ "overlap" \in causes
           \/ /\ remote.level = proc[p].level
              /\ proc[p].pc = "mirror" => Newest(proc[p].level) \/ "stale" \in causes
BY DEF AccountInv, Alone

LEMMA MirrorLevelKeeps ==
    ASSUME AccountInv, NEW p \in Processes, MirrorLevel(p)
    PROVE  AccountInv'
<1>1. /\ proc[p].pc = "mirror" /\ Onward(p)
      /\ UNCHANGED <<user, remote, ledger, ops, owed, causes, requests>>
  BY DEF MirrorLevel, At, bounds
<1>2. PICK l : l = proc[p].level
  OBVIOUS
<1>3. l \in Nat \ {0}
  BY <1>1, <1>2 DEF AccountInv, Basic, Procs, Stage
<1>4. PICK all \in BOOLEAN : accounts' = MirroredLevel(l, all)
  BY <1>2 DEF MirrorLevel
<1>5. /\ Accounts' /\ (accounts' = << >> <=> accounts = << >>)
      /\ accounts # << >> => accounts'[Len(accounts')].level \in {accounts[Len(accounts)].level, l}
  BY <1>3, <1>4, MirroredLevelMeans
<1>6. DeletedLeavesNothing'
  BY <1>1, <1>5 DEF AccountInv, Basic, DeletedLeavesNothing
<1>7. \/ user = "deleted" \/ "overlap" \in causes \/ "stale" \in causes'
      \/ accounts' = << >> \/ accounts'[Len(accounts')].level = remote.level
  BY <1>1, <1>2, <1>5, WriterKnows DEF Newest
<1> QED BY <1>1, <1>5, <1>6, <1>7, OnwardKeeps

LEMMA MirrorFailsKeeps ==
    ASSUME AccountInv, NEW p \in Processes, MirrorFails(p)
    PROVE  AccountInv'
<1>1. /\ proc[p].pc = "mirror" /\ Onward(p)
      /\ UNCHANGED <<user, accounts, remote, ledger, ops, owed, causes, requests>>
  BY DEF MirrorFails, At, Fault
<1>2. Accounts' /\ DeletedLeavesNothing'
  BY <1>1 DEF AccountInv, Basic, Accounts, DeletedLeavesNothing
<1>3. \/ user = "deleted" \/ "overlap" \in causes \/ "stale" \in causes'
      \/ accounts' = << >> \/ accounts'[Len(accounts')].level = remote.level
  BY <1>1, WriterKnows DEF Newest
<1> QED BY <1>1, <1>2, <1>3, OnwardKeeps

LEMMA BindAccountKeeps ==
    ASSUME AccountInv, NEW p \in Processes, BindAccount(p)
    PROVE  AccountInv'
<1>1. /\ proc[p].pc = "bind" /\ accounts' = Bound
      /\ UNCHANGED <<user, remote, ledger, owed, requests>>
  BY DEF BindAccount, At, bounds
<1>2. CASE user = "deleted"
  <2>1. accounts = << >> /\ ~Exists
    BY <1>2 DEF AccountInv, Basic, DeletedLeavesNothing, Exists
  <2>2. accounts' = accounts
    BY <1>1, <2>1 DEF Bound
  <2>3. PICK m : m = {}
    OBVIOUS
  <2>4. Errs(p, m)
    BY <2>1, <2>3 DEF BindAccount
  <2>5. proc[p].pc \in Carrying /\ Unmirrored(p) \subseteq m
    BY <1>1, <2>1 DEF Carrying, Unmirrored
  <2> QED BY <1>1, <2>2, <2>4, <2>5, FailureKeeps
<1>3. CASE user # "deleted"
  <2>1. /\ Onward(p) /\ Exists /\ ops' = ops /\ causes \subseteq causes'
        /\ ActiveRows # {} => Unmirrored(p) \subseteq causes'
    BY <1>3 DEF BindAccount, Exists
  <2>2. /\ Accounts' /\ accounts' # << >>
        /\ ActiveRows # {} => accounts' = accounts
        /\ ActiveRows = {} => accounts'[Len(accounts')].level = ManagedLevel
    BY <1>1, <2>1, BoundMeans
  <2>3. DeletedLeavesNothing'
    BY <1>1, <1>3 DEF DeletedLeavesNothing
  <2>4. proc[p].level = ManagedLevel
    BY <1>1 DEF AccountInv, Basic, Procs, Stage
  <2>5. "overlap" \in causes \/ remote.level = proc[p].level
    BY <1>1, <1>3, WriterKnows
  <2>6. CASE ActiveRows = {}
    <3>1. "overlap" \in causes \/ accounts'[Len(accounts')].level = remote.level
      BY <2>2, <2>4, <2>5, <2>6
    <3> QED BY <1>1, <2>1, <2>2, <2>3, <3>1, OnwardKeeps
  <2>7. CASE ActiveRows # {}
    <3>1. \/ "overlap" \in causes \/ "stale" \in causes'
          \/ accounts'[Len(accounts')].level = remote.level
      BY <2>1, <2>2, <2>5, <2>7 DEF Unmirrored
    <3> QED BY <1>1, <2>1, <2>2, <2>3, <3>1, OnwardKeeps
  <2> QED BY <2>6, <2>7
<1> QED BY <1>2, <1>3

\* UPDATE of every row: the partial unique index refuses a second active one.
LEMMA MirroredMeans ==
    ASSUME AccountInv, NEW c \in Policies, accounts' = Mirrored(c),
           Unique(accounts')
    PROVE  /\ Accounts' /\ (accounts' = << >> <=> accounts = << >>)
           /\ Len(accounts') = Len(accounts)
           /\ \A i \in DOMAIN accounts : accounts'[i].level = IF IsStatus(c) THEN accounts[i].level
                                                              ELSE c.level
<1>1. accounts \in Seq(AccountRow) /\ Len(accounts) \in Nat /\ DOMAIN accounts = 1 .. Len(accounts)
      /\ \A i \in DOMAIN accounts : accounts[i].status = "active" => i = Len(accounts)
  BY DEF AccountInv, Basic, Accounts
<1>2. ASSUME NEW i \in DOMAIN accounts
      PROVE  /\ accounts'[i] \in AccountRow
             /\ IsStatus(c) => accounts'[i].status = c.status /\ accounts'[i].level = accounts[i].level
             /\ ~IsStatus(c) => accounts'[i].status = accounts[i].status /\ accounts'[i].level = c.level
  <2>1. accounts[i] \in AccountRow
    BY <1>1
  <2>2. accounts[i] = [status |-> accounts[i].status, level |-> accounts[i].level]
        /\ accounts[i].status \in Statuses /\ accounts[i].level \in Nat \ {0}
    BY <2>1 DEF AccountRow
  <2>3. CASE IsStatus(c)
    <3>1. accounts'[i] = [accounts[i] EXCEPT !.status = c.status]
      BY <2>3 DEF Mirrored
    <3>2. accounts'[i] = [status |-> c.status, level |-> accounts[i].level]
      BY <2>2, <3>1
    <3>3. c.status \in Statuses
      BY <2>3, Policy
    <3> QED BY <2>2, <2>3, <3>2, <3>3 DEF AccountRow
  <2>4. CASE ~IsStatus(c)
    <3>1. accounts'[i] = [accounts[i] EXCEPT !.level = c.level]
      BY <2>4 DEF Mirrored
    <3>2. accounts'[i] = [status |-> accounts[i].status, level |-> c.level]
      BY <2>2, <3>1
    <3>3. c.level \in Nat \ {0}
      BY <2>4, Policy
    <3> QED BY <2>2, <2>4, <3>2, <3>3 DEF AccountRow
  <2> QED BY <2>3, <2>4
<1>3. accounts' \in [1 .. Len(accounts) -> AccountRow]
  <2>1. DOMAIN accounts' = 1 .. Len(accounts) /\ accounts' = [i \in DOMAIN accounts |-> accounts'[i]]
    BY <1>1 DEF Mirrored
  <2> QED BY <1>1, <1>2, <2>1
<1>4. accounts' \in Seq(AccountRow) /\ Len(accounts') = Len(accounts)
  BY <1>1, <1>3
<1>5. accounts' = << >> <=> accounts = << >>
  BY <1>1, <1>4
<1>6. ASSUME NEW i \in DOMAIN accounts', accounts'[i].status = "active"
      PROVE  i = Len(accounts')
  <2>0. i \in DOMAIN accounts /\ i \in 1 .. Len(accounts)
    BY <1>1, <1>3
  <2>1. CASE ~IsStatus(c)
    BY <1>1, <1>2, <1>4, <1>6, <2>0, <2>1
  <2>2. CASE IsStatus(c)
    <3>1. c.status = "active"
      BY <1>2, <1>6, <2>0, <2>2
    <3>2. {j \in DOMAIN accounts' : accounts'[j].status = "active"} = 1 .. Len(accounts)
      BY <1>1, <1>2, <1>3, <2>2, <3>1
    <3>3. Cardinality(1 .. Len(accounts)) <= 1
      <4>1. Cardinality({j \in DOMAIN accounts' : accounts'[j].status = "active"}) <= 1
        BY DEF Unique
      <4>2. Cardinality(1 .. Len(accounts)) <= 1
        BY <3>2, <4>1
      <4> QED BY <4>2 DEF Cardinality, Cardinality
    <3>4. Cardinality(1 .. Len(accounts)) = Len(accounts)
      <4>1. Cardinality(1 .. Len(accounts)) = IF 1 > Len(accounts) THEN 0 ELSE Len(accounts) - 1 + 1
        BY <1>1, FS_Interval
      <4> QED BY <1>1, <4>1
    <3> QED BY <1>1, <1>4, <2>0, <3>3, <3>4
  <2> QED BY <2>1, <2>2
<1> QED BY <1>2, <1>4, <1>5, <1>6 DEF Accounts

LEMMA SaveMirrorKeeps ==
    ASSUME AccountInv, NEW p \in Processes, SaveMirror(p)
    PROVE  AccountInv'
<1> USE DEF AccountInv
<1>1. PICK c : c = proc[p].call
  OBVIOUS
<1>2. /\ proc[p].pc = "save" /\ UNCHANGED <<user, remote, ledger, owed, requests>>
      /\ \/ Errs(p, {}) /\ UNCHANGED accounts
         \/ accounts' = Mirrored(c) /\ Unique(accounts') /\ Done(p) /\ UNCHANGED causes
  BY <1>1 DEF SaveMirror, At, bounds
<1>3. CASE Errs(p, {}) /\ UNCHANGED accounts
  BY <1>2, <1>3, FailureKeeps DEF Carrying
<1>4. CASE accounts' = Mirrored(c) /\ Unique(accounts') /\ Done(p) /\ UNCHANGED causes
  <2>1. Procs /\ Ops /\ Working /\ remote.level # 0
    BY <1>2 DEF Basic, Remote
  <2>2. c \in Policies
    BY <1>1, <1>2, <2>1 DEF Procs, Stage
  <2>3. c \in OpKeys /\ c.tx = 0
    BY <2>2, Policy
  <2>4. /\ DOMAIN proc' = Processes /\ proc'[p] = Idle
        /\ \A q \in Processes : q # p => proc'[q] = proc[q]
        /\ Procs' /\ Ops' /\ \A k \in OpKeys : k # c => ops'[k] = ops[k]
        /\ p # Worker => ops' = ops
        /\ p = Worker => ops'[c].status = "succeeded"
    BY <1>1, <1>4, <2>1, <2>3, DoneMeans
  <2>5. Working'
    BY <1>1, <2>1, <2>4, DoneWorking
  <2>6. /\ Accounts' /\ (accounts' = << >> <=> accounts = << >>)
        /\ Len(accounts') = Len(accounts)
        /\ \A i \in DOMAIN accounts : accounts'[i].level = IF IsStatus(c) THEN accounts[i].level
                                                           ELSE c.level
    BY <1>4, <2>2, MirroredMeans
  <2>7. Idle.pc = "idle" /\ ~IsStatus(Idle.call)
    BY IdleIsFit, NoneCalled
  <2>8. Ledger' /\ DeletedLeavesNothing' /\ Keyed'
    BY <1>2, <2>6 DEF Basic, Ledger, DeletedLeavesNothing, Keyed
  <2>9. Remote'
    BY <1>2, <2>1 DEF Basic, Remote
  <2>10. \A t \in Transactions : ops'[Call("", 0, t)] = ops[Call("", 0, t)]
    BY <2>2, <2>4, GrantCall, Grant
  <2>11. Succeeded'
    BY <1>2, <2>10 DEF Succeeded
  <2>12. Followed'
    <3>1. ASSUME NEW t \in Transactions, Pursued(t)
          PROVE  Pursued(t)'
      <4>1. c.tx # t
        BY <2>3, GrantCall
      <4> QED BY <1>1, <1>2, <1>4, <2>4, <2>10, <3>1, <4>1 DEF Pursued
    <3> QED BY <1>2, <3>1 DEF Followed, Basic, Ledger
  <2>13. Alone'
    <3>1. CASE IsStatus(c)
      <4>1. accounts # << >> => accounts'[Len(accounts')].level = accounts[Len(accounts)].level
        <5>1. accounts # << >> => Len(accounts) \in DOMAIN accounts
          BY DEF Basic, Accounts
        <5> QED BY <2>6, <3>1, <5>1
      <4>2. \A level : Newest(level) => accounts' = << >> \/ accounts'[Len(accounts')].level = level
        BY <2>6, <4>1 DEF Newest
      <4>3. \A q \in Processes : Writes(proc'[q]) => proc'[q] = proc[q]
        BY <2>4, <2>7 DEF Writes
      <4> QED BY <1>2, <1>4, <2>4, <2>7, <4>2, <4>3 DEF Alone, Writes, Newest
    <3>2. CASE ~IsStatus(c)
      <4>1. Writes(proc[p])
        BY <1>1, <1>2, <3>2 DEF Writes
      <4>2. "overlap" \in causes \/ user = "deleted" \/ \A q \in Processes : ~Writes(proc'[q])
        BY <2>4, <2>7, <4>1 DEF Alone, Writes
      <4> QED BY <1>2, <1>4, <4>2 DEF Alone, Writes
    <3> QED BY <3>1, <3>2
  <2>14. LevelFollows'
    <3>1. CASE IsStatus(c)
      <4>1. accounts # << >> => accounts'[Len(accounts')].level = accounts[Len(accounts)].level
        <5>1. accounts # << >> => Len(accounts) \in DOMAIN accounts
          BY DEF Basic, Accounts
        <5> QED BY <2>6, <3>1, <5>1
      <4>2. \A k \in Policies : ~IsStatus(k) => ops'[k] = ops[k]
        BY <2>4, <3>1, Policy
      <4>3. ASSUME NEW q \in Processes, Owes(proc[q])
            PROVE  Owes(proc'[q])
        BY <1>1, <1>2, <2>4, <3>1, <4>3 DEF Owes
      <4> QED BY <1>2, <1>4, <2>6, <4>1, <4>2, <4>3 DEF LevelFollows, GivenUp, Newest
    <3>2. CASE ~IsStatus(c)
      <4>1. accounts = << >> \/ accounts'[Len(accounts')].level = c.level
        <5>1. accounts # << >> => Len(accounts) \in DOMAIN accounts
          BY DEF Basic, Accounts
        <5> QED BY <2>6, <3>2, <5>1
      <4>2. user = "deleted" => accounts = << >>
        BY DEF Basic, DeletedLeavesNothing
      <4>3. "overlap" \in causes \/ user = "deleted" \/ remote.level = c.level
        BY <1>1, <1>2, <3>2 DEF Alone
      <4> QED BY <1>2, <1>4, <2>6, <4>1, <4>2, <4>3 DEF LevelFollows, Newest
    <3> QED BY <3>1, <3>2
  <2>15. StatusFollows'
    <3>1. ASSUME NEW asked \in [Nat -> Statuses], NEW last \in Nat, Story(asked, last)
          PROVE  Story(asked, last)'
      <4>1. ASSUME NEW s \in Statuses
            PROVE  ops'[Call(s, 0, 0)] = ops[Call(s, 0, 0)] \/
                      (ops'[Call(s, 0, 0)].status = "succeeded" /\ ops[Call(s, 0, 0)].status = "running")
        <5>1. p = Worker => ops[c].status = "running"
          BY <1>1, <1>2, <2>1 DEF Working
        <5> QED BY <2>4, <4>1, <5>1, StatusCall
      <4>2. \A q \in Processes : IsStatus(proc'[q].call) => proc'[q] = proc[q]
        BY <2>4, <2>7
      <4>3. Waiting(asked[last], last) => Waiting(asked[last], last)'
        <5>1. PICK s \in Statuses : s = asked[last]
          OBVIOUS
        <5> QED BY <1>2, <2>4, <4>1, <5>1 DEF Waiting, Underway
      <4>4. \A s \in Statuses :
               ops'[Call(s, 0, 0)].status \in {"failed", "running"} =>
                  ops'[Call(s, 0, 0)].no <= last /\ asked[ops'[Call(s, 0, 0)].no] = s
        BY <3>1, <4>1 DEF Story
      <4> QED BY <1>2, <3>1, <4>2, <4>3, <4>4 DEF Story
    <3> QED BY <1>2, <1>4, <3>1 DEF StatusFollows, GivenUp
  <2> QED BY <1>2, <2>4, <2>5, <2>6, <2>8, <2>9, <2>11, <2>12, <2>13, <2>14, <2>15 DEF Basic
<1> QED BY <1>2, <1>3, <1>4

\* A request that writes the ledger, or copies the user of Sub2API, and goes on to Sub2API or ends.
LEMMA WriterKeeps ==
    ASSUME AccountInv, NEW h \in Handlers, NEW r,
           proc' = [proc EXCEPT ![h] = r], ProcShaped(r), Stage(r), proc[h].pc \notin Carrying,
           r.pc \in {"check", "idle"}, ~IsStatus(r.call), causes \subseteq causes',
           UNCHANGED <<user, remote, ops, requests>>,
           Ledger', Keyed', Followed', Accounts', DeletedLeavesNothing',
           remote.level = 0 => accounts' = << >>,
           accounts' = accounts \/ accounts'[Len(accounts')].level = remote.level
              \/ causes' \cap {"stale"} # {},
           accounts' = accounts \/ "overlap" \in causes' \/ \A q \in Processes : ~Writes(proc[q])
    PROVE  AccountInv'
<1> USE DEF AccountInv
<1>1. h \in Processes /\ h # Worker /\ Worker \in Processes
  BY AccountAssumption DEF Processes
<1>2. /\ DOMAIN proc' = Processes /\ proc'[h] = r
      /\ \A q \in Processes : q # h => proc'[q] = proc[q]
      /\ proc[h].call = NoCall /\ proc[h].pc \notin Underway \cup {"save"}
  BY <1>1 DEF Basic, Procs, Stage, Carrying, Underway
<1>3. Procs' /\ Ops'
  BY <1>2 DEF Basic, Procs, Ops
<1>4. Remote'
  BY <1>2 DEF Basic, Remote
<1>5. Working'
  BY <1>1, <1>2 DEF Basic, Working
<1>6. Succeeded'
  BY DEF Succeeded
<1>7. Alone'
  <2>1. \A q \in Processes : Writes(proc'[q]) => proc'[q] = proc[q]
    BY <1>2 DEF Writes
  <2>2. CASE accounts' = accounts
    BY <2>1, <2>2 DEF Alone, Writes, Newest
  <2>3. CASE \A q \in Processes : ~Writes(proc[q])
    <3>1. \A q \in Processes : ~Writes(proc'[q])
      BY <2>1, <2>3
    <3> QED BY <3>1 DEF Alone, Writes
  <2>4. CASE "overlap" \in causes'
    BY <2>4 DEF Alone
  <2> QED BY <2>2, <2>3, <2>4
<1>8. GivenUp => GivenUp'
  BY DEF GivenUp
<1>9. LevelFollows'
  <2>1. CASE accounts' = accounts
    <3>1. ASSUME NEW q \in Processes, Owes(proc[q])
          PROVE  Owes(proc'[q])
      BY <1>2, <3>1 DEF Owes, Underway
    <3>2. causes \cap {"overlap", "stale"} # {} => causes' \cap {"overlap", "stale"} # {}
      OBVIOUS
    <3> QED BY <1>8, <2>1, <3>1, <3>2 DEF LevelFollows, Newest
  <2>2. CASE accounts'[Len(accounts')].level = remote.level \/ causes' \cap {"stale"} # {}
    BY <2>2 DEF LevelFollows, Newest
  <2> QED BY <2>1, <2>2
<1>10. StatusFollows'
  <2>1. ASSUME NEW asked \in [Nat -> Statuses], NEW last \in Nat, Story(asked, last)
        PROVE  Story(asked, last)'
    <3>1. \A q \in Processes : IsStatus(proc'[q].call) => proc'[q] = proc[q]
      BY <1>2
    <3>2. Waiting(asked[last], last) => Waiting(asked[last], last)'
      BY <1>2 DEF Waiting
    <3> QED BY <2>1, <3>1, <3>2 DEF Story
  <2>2. causes \cap {"missed", "overtaken"} # {} => causes' \cap {"missed", "overtaken"} # {}
    OBVIOUS
  <2> QED BY <1>8, <2>1, <2>2 DEF StatusFollows
<1> QED BY <1>3, <1>4, <1>5, <1>6, <1>7, <1>9, <1>10 DEF Basic

\* An INSERT into the ledger.
LEMMA Inserted ==
    ASSUME Ledger, Keyed, NEW row, ledger' = Append(ledger, row), row.id \in Transactions,
           \A i \in DOMAIN ledger : ledger[i].key = row.key => row.key = None
    PROVE  /\ Ledger' /\ Keyed'
           /\ \A i \in DOMAIN ledger' : ledger'[i] = row \/ (i \in DOMAIN ledger /\ ledger'[i] = ledger[i])
<1>1. PICK S : ledger \in Seq(S)
  BY DEF Ledger
<1>2. ledger \in Seq(S \cup {row}) /\ DOMAIN ledger = 1 .. Len(ledger) /\ Len(ledger) \in Nat
  BY <1>1
<1>3. /\ ledger' \in Seq(S \cup {row}) /\ DOMAIN ledger' = 1 .. Len(ledger) + 1
      /\ ledger'[Len(ledger) + 1] = row /\ \A i \in 1 .. Len(ledger) : ledger'[i] = ledger[i]
  BY <1>2
<1>4. ASSUME NEW i \in DOMAIN ledger'
      PROVE  \/ i = Len(ledger) + 1 /\ ledger'[i] = row
             \/ i \in DOMAIN ledger /\ ledger'[i] = ledger[i]
  <2>1. i = Len(ledger) + 1 \/ i \in 1 .. Len(ledger)
    BY <1>2, <1>3
  <2> QED BY <1>2, <1>3, <2>1
<1>5. Ledger'
  BY <1>3, <1>4 DEF Ledger
<1>6. Keyed'
  <2>1. SUFFICES ASSUME NEW i \in DOMAIN ledger', NEW j \in DOMAIN ledger',
                        ledger'[i].key = ledger'[j].key, ledger'[i].key # None
                 PROVE  i = j
    BY DEF Keyed
  <2> QED BY <1>4, <2>1 DEF Keyed
<1> QED BY <1>4, <1>5, <1>6

\* Every grant keeps being pursued while nothing happens to it and a row is written.
LEMMA FollowedAfter ==
    ASSUME AccountInv, NEW h \in Processes, proc[h].call = NoCall, NEW r,
           proc' = [proc EXCEPT ![h] = r], UNCHANGED <<remote, ops>>, causes \subseteq causes',
           NEW row, Due(row) => row.id = r.call.tx,
           \A i \in DOMAIN ledger' :
              ledger'[i] = row \/ (i \in DOMAIN ledger /\ ledger'[i] = ledger[i])
    PROVE  Followed'
<1>1. /\ DOMAIN proc = Processes /\ proc'[h] = r
      /\ \A q \in Processes : q # h => proc'[q] = proc[q]
  BY DEF AccountInv, Basic, Procs
<1>2. ASSUME NEW t \in Transactions, Pursued(t)
      PROVE  Pursued(t)'
  <2>1. \A q \in Processes : proc[q].call.tx = t => proc'[q].call.tx = t
    BY <1>1, NoneCalled, GrantCall
  <2> QED BY <1>2, <2>1 DEF Pursued
<1>3. ASSUME NEW i \in DOMAIN ledger', Due(ledger'[i])
      PROVE  Pursued(ledger[i].id)'
  <2>1. CASE ledger'[i] = row
    BY <1>1, <1>3, <2>1 DEF Pursued
  <2>2. CASE i \in DOMAIN ledger /\ ledger'[i] = ledger[i]
    <3>1. PICK t \in Transactions : t = ledger[i].id /\ t = ledger'[i].id
      BY <2>2 DEF AccountInv, Basic, Ledger
    <3>2. Pursued(t)
      BY <1>3, <2>2, <3>1 DEF AccountInv, Followed
    <3>3. Pursued(t)'
      BY <1>2, <3>2
    <3> QED BY <3>1, <3>3 DEF Pursued
  <2> QED BY <2>1, <2>2
<1> QED BY <1>3 DEF Followed

LEMMA MarkRedeemedLocallyKeeps ==
    ASSUME AccountInv, NEW h \in Handlers, MarkRedeemedLocally(h)
    PROVE  AccountInv'
<1> USE DEF AccountInv
<1>1. /\ proc[h].pc = "redeem" /\ proc' = [proc EXCEPT ![h] = Idle] /\ h \in Processes
      /\ UNCHANGED <<user, accounts, remote, ops, causes, requests>>
  BY DEF MarkRedeemedLocally, At, bounds, Processes
<1>2. proc[h].key = None /\ proc[h].no \in Transactions /\ proc[h].call = NoCall
      /\ DOMAIN proc = Processes
  BY <1>1 DEF Basic, Procs, Stage, Carrying
<1>3. CASE ~Exists
  <2>1. UNCHANGED <<ledger, owed>>
    BY <1>3 DEF MarkRedeemedLocally
  <2> QED BY <1>1, <2>1, IdleIsFit, NoneCalled, RequestKeeps DEF Carrying
<1>4. CASE Exists
  <2>1. PICK row : row = Row(h, "redeem", proc[h].amount, proc[h].sum + proc[h].amount)
    OBVIOUS
  <2>2. ledger' = Append(ledger, row)
    BY <1>4, <2>1 DEF MarkRedeemedLocally
  <2>3. row.id \in Transactions /\ row.key = None /\ ~Due(row)
    BY <1>2, <2>1 DEF Row, Due
  <2>4. /\ Ledger' /\ Keyed'
        /\ \A i \in DOMAIN ledger' : ledger'[i] = row \/ (i \in DOMAIN ledger /\ ledger'[i] = ledger[i])
    BY <2>2, <2>3, Inserted DEF Basic
  <2>5. Followed'
    BY <1>1, <1>2, <2>3, <2>4, FollowedAfter
  <2>6. Accounts' /\ DeletedLeavesNothing'
    BY <1>1, <1>4 DEF Basic, Accounts, DeletedLeavesNothing, Exists
  <2>7. remote.level = 0 => accounts' = << >>
    BY <1>1 DEF Basic, Remote
  <2> QED BY <1>1, <2>4, <2>5, <2>6, <2>7, IdleIsFit, NoneCalled, WriterKeeps DEF Carrying
<1> QED BY <1>3, <1>4

LEMMA InsertGrantKeeps ==
    ASSUME AccountInv, NEW h \in Handlers, InsertGrant(h)
    PROVE  AccountInv'
<1> USE DEF AccountInv
<1>1. /\ proc[h].pc = "insert" /\ h \in Processes
      /\ UNCHANGED <<user, accounts, remote, ops, owed, causes, requests>>
  BY DEF InsertGrant, At, bounds, Processes
<1>2. proc[h].no \in Transactions /\ proc[h].call = NoCall /\ Procs
  BY <1>1 DEF Basic, Procs, Stage, Carrying
<1>3. CASE ~Exists
  <2>1. ledger' = ledger /\ proc' = [proc EXCEPT ![h] = Idle]
    BY <1>3 DEF InsertGrant
  <2> QED BY <1>1, <2>1, IdleIsFit, NoneCalled, RequestKeeps DEF Carrying
<1>4. CASE Exists /\ Granted(proc[h].key) # {}
  <2>1. /\ ledger' = ledger
        /\ \E n \in {ledger[i].id : i \in Granted(proc[h].key)} : AfterGrant(h, n)
    BY <1>4 DEF InsertGrant
  <2>2. PICK n \in {ledger[i].id : i \in Granted(proc[h].key)} : AfterGrant(h, n)
    BY <2>1
  <2>3. n \in Transactions
    BY DEF Basic, Ledger, Granted
  <2>4. PICK r : /\ proc' = [proc EXCEPT ![h] = r] /\ ProcShaped(r) /\ Stage(r)
                 /\ r.pc \in {"check", "idle"} /\ ~IsStatus(r.call)
                 /\ proc[h].sync => r.call.tx = n
    BY <1>1, <1>2, <2>2, <2>3, AfterGrantMeans
  <2> QED BY <1>1, <2>1, <2>4, RequestKeeps DEF Carrying
<1>5. CASE Exists /\ Granted(proc[h].key) = {}
  <2>1. PICK row : row = Row(h, "grant", proc[h].amount, proc[h].sum + proc[h].amount)
    OBVIOUS
  <2>2. row = [id |-> proc[h].no, kind |-> "grant", amount |-> proc[h].amount,
               after |-> proc[h].sum + proc[h].amount, key |-> proc[h].key, sync |-> proc[h].sync]
    BY <2>1 DEF Row
  <2>3. row.id = proc[h].no /\ row.key = proc[h].key /\ row.sync = proc[h].sync
    BY <2>2
  <2>4. ledger' = Append(ledger, row) /\ AfterGrant(h, row.id)
    BY <1>5, <2>1 DEF InsertGrant
  <2>5. PICK n \in Transactions : n = row.id /\ AfterGrant(h, n)
    BY <1>2, <2>3, <2>4
  <2>6. PICK r : /\ proc' = [proc EXCEPT ![h] = r] /\ ProcShaped(r) /\ Stage(r)
                 /\ r.pc \in {"check", "idle"} /\ ~IsStatus(r.call)
                 /\ proc[h].sync => r.call.tx = n
    BY <1>1, <1>2, <2>5, AfterGrantMeans
  <2>7. \A i \in DOMAIN ledger : ledger[i].key = row.key => row.key = None
    BY <1>5, <2>3 DEF Granted
  <2>8. /\ Ledger' /\ Keyed'
        /\ \A i \in DOMAIN ledger' :
              ledger'[i] = row \/ (i \in DOMAIN ledger /\ ledger'[i] = ledger[i])
    BY <2>4, <2>5, <2>7, Inserted DEF Basic
  <2>9. Due(row) => row.id = r.call.tx
    BY <2>3, <2>5, <2>6 DEF Due
  <2>10. Followed'
    BY <1>1, <1>2, <2>6, <2>8, <2>9, FollowedAfter
  <2>11. Accounts' /\ DeletedLeavesNothing'
    BY <1>1, <1>5 DEF Basic, Accounts, DeletedLeavesNothing, Exists
  <2>12. remote.level = 0 => accounts' = << >>
    BY <1>1 DEF Basic, Remote
  <2> QED BY <1>1, <2>6, <2>8, <2>10, <2>11, <2>12, WriterKeeps DEF Carrying
<1> QED BY <1>3, <1>4, <1>5

\* The newest row becomes a copy; the others are not active.
LEMMA CopiedMeans ==
    ASSUME AccountInv, NEW snap, snap.level \in Nat \ {0}, snap.status \in Statuses,
           accounts' = Copied(snap)
    PROVE  Accounts' /\ accounts' # << >> /\ accounts'[Len(accounts')].level = snap.level
<1>1. PICK row : row = [status |-> snap.status, level |-> snap.level]
  OBVIOUS
<1>2. row \in AccountRow /\ row.level = snap.level
  BY <1>1 DEF AccountRow
<1>3. accounts \in Seq(AccountRow) /\ Len(accounts) \in Nat /\ DOMAIN accounts = 1 .. Len(accounts)
      /\ \A i \in DOMAIN accounts : accounts[i].status = "active" => i = Len(accounts)
  BY DEF AccountInv, Basic, Accounts
<1>4. CASE accounts = << >>
  <2>1. accounts' = <<row>>
    BY <1>1, <1>4 DEF Copied
  <2>2. accounts' \in Seq(AccountRow) /\ Len(accounts') = 1 /\ accounts'[1] = row
        /\ DOMAIN accounts' = 1 .. 1 /\ accounts' # << >>
    BY <1>2, <2>1
  <2> QED BY <1>2, <2>2 DEF Accounts
<1>5. CASE accounts # << >>
  <2>1. accounts' = [accounts EXCEPT ![Len(accounts)] = row]
    BY <1>1, <1>5 DEF Copied
  <2>2. Len(accounts) \in DOMAIN accounts
    BY <1>3, <1>5
  <2>3. accounts' \in [1 .. Len(accounts) -> AccountRow] /\ accounts'[Len(accounts)] = row
        /\ \A i \in DOMAIN accounts : i # Len(accounts) => accounts'[i] = accounts[i]
    BY <1>2, <1>3, <2>1, <2>2
  <2>4. accounts' \in Seq(AccountRow) /\ Len(accounts') = Len(accounts)
        /\ DOMAIN accounts' = DOMAIN accounts /\ accounts' # << >>
    BY <1>3, <2>2, <2>3
  <2> QED BY <1>2, <1>3, <2>3, <2>4 DEF Accounts
<1> QED BY <1>4, <1>5

LEMMA AdjustBalanceKeeps ==
    ASSUME AccountInv, NEW h \in Handlers, AdjustBalance(h)
    PROVE  AccountInv'
<1> USE DEF AccountInv
<1>1. /\ proc[h].pc = "adjust" /\ proc' = [proc EXCEPT ![h] = Idle] /\ h \in Processes
      /\ UNCHANGED <<user, remote, ops, owed, requests>>
  BY DEF AdjustBalance, At, bounds, Processes
<1>2. PICK snap, delta : snap = proc[h].snap /\ delta = snap.balance - proc[h].sum
  OBVIOUS
<1>3. /\ proc[h].key = None /\ proc[h].no \in Transactions /\ proc[h].call = NoCall
      /\ snap.level \in Nat \ {0} /\ snap.status \in Statuses
  BY <1>1, <1>2 DEF Basic, Procs, Stage, Carrying
<1>4. CASE UNCHANGED <<accounts, ledger, causes>>
  BY <1>1, <1>4, IdleIsFit, NoneCalled, RequestKeeps DEF Carrying
<1>5. CASE /\ Exists /\ accounts' = Copied(snap)
           /\ ledger' = IF delta = 0 THEN ledger
                        ELSE Append(ledger, Row(h, "sync", delta, snap.balance))
           /\ causes' = causes \cup Stale(snap) \cup Overlap(h)
  <2>1. Accounts' /\ accounts' # << >> /\ accounts'[Len(accounts')].level = snap.level
    BY <1>3, <1>5, CopiedMeans
  <2>2. accounts'[Len(accounts')].level = remote.level \/ causes' \cap {"stale"} # {}
    BY <1>5, <2>1 DEF Stale
  <2>3. causes \subseteq causes'
    BY <1>5
  <2>4. remote.level # 0
    BY <1>1 DEF Basic, Remote
  <2>5. DeletedLeavesNothing'
    BY <1>1, <1>5 DEF DeletedLeavesNothing, Exists
  <2>6. PICK row : row = Row(h, "sync", delta, snap.balance)
    OBVIOUS
  <2>7. row.id \in Transactions /\ row.key = None /\ ~Due(row)
    BY <1>3, <2>6 DEF Row, Due
  <2>8. /\ Ledger' /\ Keyed'
        /\ \A i \in DOMAIN ledger' :
              ledger'[i] = row \/ (i \in DOMAIN ledger /\ ledger'[i] = ledger[i])
    <3>1. CASE ledger' = ledger
      BY <3>1 DEF Basic, Ledger, Keyed
    <3>2. CASE ledger' = Append(ledger, row)
      BY <2>7, <3>2, Inserted DEF Basic
    <3> QED BY <1>5, <2>6, <3>1, <3>2
  <2>9. Followed'
    BY <1>1, <1>3, <2>3, <2>7, <2>8, FollowedAfter
  <2>10. "overlap" \in causes' \/ \A q \in Processes : ~Writes(proc[q])
    <3>1. Overlap(h) \subseteq causes'
      BY <1>5
    <3>2. (\E q \in Processes \ {h} : Writes(proc[q])) => "overlap" \in causes'
      BY <1>1, <3>1, OverlapMeans
    <3>3. ~Writes(proc[h])
      BY <1>1 DEF Writes
    <3> QED BY <3>2, <3>3
  <2> QED BY <1>1, <2>1, <2>2, <2>3, <2>4, <2>5, <2>8, <2>9, <2>10, IdleIsFit, NoneCalled, WriterKeeps
          DEF Carrying
<1> QED BY <1>2, <1>4, <1>5 DEF AdjustBalance

LEMMA NewUserMeans ==
    NewUser = [status |-> "active", level |-> ManagedLevel, balance |-> 0, credited |-> {},
                 no |-> 0]
<1>1. ASSUME NEW u, u = NewUser
      PROVE  u = [status |-> "active", level |-> ManagedLevel, balance |-> 0, credited |-> {},
                  no |-> 0]
  BY <1>1 DEF NewUser, NoUser
<1> QED BY <1>1

LEMMA AccountInit ==
    ASSUME Init
    PROVE  AccountInv
<1> USE DEF Init
<1>1. \A p \in Processes : proc[p] = Idle
  OBVIOUS
<1>2. Worker \in Processes
  BY DEF Processes
<1>3. Procs
  BY <1>1, IdleIsFit DEF Procs
<1>4. \A k \in OpKeys : OpShaped(ops[k]) /\ ops[k].status = "none"
  BY DEF NoOp, OpShaped
<1>5. Ops
  BY <1>4 DEF Ops
<1>6. \/ accounts = << >> /\ remote = NoUser
      \/ accounts = <<NewAccount>> /\ remote = NewUser
  OBVIOUS
<1>7. NewAccount \in AccountRow /\ ManagedLevel \in Nat \ {0} /\ NewAccount.level = ManagedLevel
  BY AccountAssumption DEF NewAccount, AccountRow, Statuses
<1>8. RemoteFit(NoUser) /\ NoUser.level = 0 /\ NoUser.no = 0
  BY DEF NoUser, RemoteFit, Statuses
<1>9. NewUser = [status |-> "active", level |-> ManagedLevel, balance |-> 0, credited |-> {},
                   no |-> 0]
  BY NewUserMeans
<1>10. /\ NewUser.status = "active" /\ NewUser.level = ManagedLevel /\ NewUser.no = 0
       /\ RemoteFit(NewUser)
  BY <1>7, <1>9 DEF RemoteFit, Statuses
<1>11. Accounts
  <2>1. CASE accounts = << >>
    BY <2>1 DEF Accounts
  <2>2. CASE accounts = <<NewAccount>>
    <3>1. accounts \in Seq(AccountRow) /\ Len(accounts) = 1 /\ DOMAIN accounts = 1 .. 1
      BY <1>7, <2>2
    <3> QED BY <3>1 DEF Accounts
  <2> QED BY <1>6, <2>1, <2>2
<1>12. DOMAIN ledger = {} /\ ledger \in Seq({})
  OBVIOUS
<1>13. Ledger /\ Keyed /\ Followed
  BY <1>12 DEF Ledger, Keyed, Followed
<1>14. \A p \in Processes : proc[p].pc = "idle" /\ ~IsStatus(proc[p].call)
  BY <1>1, IdleIsFit, NoneCalled
<1>15. Remote
  BY <1>6, <1>7, <1>8, <1>10, <1>14 DEF Remote
<1>16. Working
  BY <1>2, <1>14 DEF Working
<1>17. DeletedLeavesNothing /\ requests \in Nat /\ user \in Statuses \cup {"deleted"}
  BY DEF DeletedLeavesNothing, Statuses
<1>18. Succeeded
  BY <1>4, GrantCall DEF Succeeded
<1>19. Alone
  BY <1>14 DEF Alone, Writes
<1>20. LevelFollows
  <2>1. CASE accounts = << >>
    BY <2>1 DEF LevelFollows, Newest
  <2>2. CASE accounts = <<NewAccount>> /\ remote = NewUser
    <3>1. accounts[Len(accounts)] = NewAccount
      BY <2>2
    <3> QED BY <1>7, <1>10, <2>2, <3>1 DEF LevelFollows, Newest
  <2> QED BY <1>6, <2>1, <2>2
<1>21. StatusFollows
  <2>1. PICK asked : asked = [n \in Nat |-> "active"]
    OBVIOUS
  <2>2. asked \in [Nat -> Statuses] /\ asked[0] = "active"
    BY <2>1 DEF Statuses
  <2>3. remote.no = 0 /\ (remote.level # 0 => remote.status = "active")
    BY <1>6, <1>8, <1>10
  <2>4. \A s \in Statuses : ops[Call(s, 0, 0)].status = "none"
    BY <1>4, StatusCall
  <2>5. Story(asked, 0)
    BY <1>14, <2>2, <2>3, <2>4 DEF Story
  <2> QED BY <2>2, <2>5 DEF StatusFollows
<1> QED BY <1>3, <1>5, <1>11, <1>13, <1>15, <1>16, <1>17, <1>18, <1>19, <1>20, <1>21
        DEF AccountInv, Basic

LEMMA AccountNext ==
    ASSUME AccountInv, [Next]_vars
    PROVE  AccountInv'
<1>1. CASE UNCHANGED vars
  <2>1. UNCHANGED <<user, accounts, remote, ledger, ops, owed, proc, causes, requests>>
    BY <1>1 DEF vars
  <2>2. Basic'
    BY <2>1 DEF AccountInv, Basic, Procs, Ops, Accounts, Ledger, Remote, Working,
               DeletedLeavesNothing
  <2>3. Keyed' /\ Succeeded' /\ Followed' /\ Alone' /\ LevelFollows'
    BY <2>1 DEF AccountInv, Keyed, Succeeded, Followed, Pursued, Alone, LevelFollows, GivenUp,
              Newest
  <2>4. StatusFollows'
    BY <2>1 DEF AccountInv, StatusFollows, Story, Waiting, GivenUp
  <2> QED BY <2>2, <2>3, <2>4 DEF AccountInv
<1>2. ASSUME NEW p \in Processes, Step(p)
      PROVE  AccountInv'
  BY <1>2, CallFailsKeeps, LoadAccountKeeps, EnsureAccountKeeps, EnsurePolicyKeeps,
     EnsureUserKeeps, EnsureAnswerLostKeeps, MirrorLevelKeeps, MirrorFailsKeeps,
     BindAccountKeeps, SendPolicyKeeps, SendAnswerLostKeeps, SaveMirrorKeeps, CheckUserKeeps, CreditGrantKeeps,
     CreditAnswerLostKeeps DEF Step
<1>3. ASSUME NEW h \in Handlers, Request(h)
      PROVE  AccountInv'
  <2>1. CASE \/ \E status \in Statuses : UpdateUser(h, status)
             \/ \E level \in Levels : UpdateUserConcurrency(h, level)
    BY <2>1, UpdateUserKeeps, UpdateUserConcurrencyKeeps
  <2>2. CASE \/ \E amount \in Amounts, key \in Keys \cup {None}, sync \in BOOLEAN :
                   GrantUserBalance(h, amount, key, sync)
             \/ \E amount \in Amounts : Redeem(h, amount)
    BY <2>2, GrantUserBalanceKeeps, RedeemKeeps
  <2>3. CASE SyncSub2APIUsers(h) \/ DeleteUser(h) \/ ReadLedger(h) \/ InsertGrant(h)
    BY <2>3, SyncSub2APIUsersKeeps, DeleteUserKeeps, ReadLedgerKeeps, InsertGrantKeeps
  <2>4. CASE MarkRedeemedLocally(h) \/ ReadBalance(h) \/ AdjustBalance(h) \/ Crash(h)
    BY <2>4, MarkRedeemedLocallyKeeps, ReadBalanceKeeps, AdjustBalanceKeeps, CrashKeeps
  <2> QED BY <1>3, <2>1, <2>2, <2>3, <2>4 DEF Request
<1> QED BY <1>1, <1>2, <1>3, ClaimKeeps, CreditRedemptionKeeps DEF Next

LEMMA AccountAlways ==
    Spec => []AccountInv
<1>1. Init => AccountInv
  BY AccountInit
<1>2. AccountInv /\ [Next]_vars => AccountInv'
  BY AccountNext
<1> QED BY <1>1, <1>2, PTL DEF Spec

\* DeleteUser: requests and operations that were under way write nothing more about a deleted user.
THEOREM DeletedAlwaysLeavesNothing ==
    Spec => []DeletedLeavesNothing
<1>1. AccountInv => DeletedLeavesNothing
  BY DEF AccountInv, Basic
<1> QED BY <1>1, AccountAlways, PTL

\* GrantUserBalance: one row and one credit for a key, and no grant for Sub2API is silently lost.
THEOREM AlwaysGrantedExactlyOnce ==
    Spec => []GrantedExactlyOnce
<1>1. ASSUME AccountInv
      PROVE  GrantedExactlyOnce
  <2>1. ASSUME NEW k \in Keys
        PROVE  Cardinality({i \in DOMAIN ledger : ledger[i].key = k}) <= 1
    <3>1. PICK S : S = {i \in DOMAIN ledger : ledger[i].key = k}
      OBVIOUS
    <3>2. \A i, j \in S : i = j
      BY <1>1, <3>1, AccountAssumption DEF AccountInv, Keyed
    <3>3. Cardinality(S) <= 1
      <4>1. CASE S = {}
        BY <4>1, FS_EmptySet
      <4>2. CASE S # {}
        <5>1. PICK i \in S : S = {i}
          BY <3>2, <4>2
        <5>2. Cardinality({i}) = 1
          BY FS_Singleton
        <5> QED BY <5>1, <5>2
      <4> QED BY <4>1, <4>2
    <3>4. Cardinality(S) <= 1
      BY <3>3 DEF Cardinality, Cardinality
    <3> QED BY <3>1, <3>4
  <2>2. \A i, j \in DOMAIN ledger :
           i # j => ledger[i].key = None \/ ledger[i].key # ledger[j].key
    BY <1>1 DEF AccountInv, Keyed
  <2>3. \A i \in DOMAIN ledger :
           ledger[i].kind = "grant" /\ ledger[i].sync =>
              \/ ledger[i].id \in remote.credited
              \/ \E p \in Processes : proc[p].call.tx = ledger[i].id
              \/ ops[Call("", 0, ledger[i].id)].status \in {"failed", "running", "dead_letter"}
              \/ causes \cap {"crashed", "unqueued"} # {}
    BY <1>1 DEF AccountInv, Followed, Due, Pursued
  <2> QED BY <2>1, <2>2, <2>3 DEF GrantedExactlyOnce
<1> QED BY <1>1, AccountAlways, PTL

\* UpdateUser, UpdateUserConcurrency and the worker: at rest Sub2API has the status of the row of
\* users and the active account its level, unless the code ran into one of the named causes.
THEOREM CopiesAlwaysDivergeForACause ==
    Spec => []CopiesDivergeForACause
<1> DEFINE known == {"dead", "absorbed", "unqueued", "crashed"}
<1>1. ASSUME AccountInv, Quiet
      PROVE  /\ Exists /\ RemoteExists /\ remote.status # user
                   => causes \cap (known \cup {"missed", "overtaken"}) # {}
             /\ (\E i \in ActiveRows : accounts[i].level # remote.level)
                   => causes \cap (known \cup {"overlap", "stale"}) # {}
  <2>1. /\ \A p \in Processes : proc[p].pc = "idle"
        /\ \A k \in OpKeys : ops[k].status \notin {"failed", "running"}
    BY <1>1 DEF Quiet, At
  <2>2. ASSUME Exists, RemoteExists, remote.status # user
        PROVE  causes \cap (known \cup {"missed", "overtaken"}) # {}
    <3>1. ASSUME NEW asked \in [Nat -> Statuses], NEW last \in Nat, Story(asked, last)
          PROVE  remote.status = user
      <4>1. PICK s \in Statuses : s = asked[last]
        OBVIOUS
      <4>2. ~Waiting(s, last)
        BY <2>1, StatusCall DEF Waiting, Underway
      <4>3. remote.no = last
        BY <3>1, <4>1, <4>2 DEF Story
      <4> QED BY <2>2, <3>1, <4>3 DEF Story, RemoteExists
    <3>2. GivenUp \/ causes \cap {"missed", "overtaken"} # {}
      BY <1>1, <2>2, <3>1 DEF AccountInv, StatusFollows, Exists
    <3> QED BY <3>2 DEF GivenUp
  <2>3. ASSUME NEW i \in ActiveRows, accounts[i].level # remote.level
        PROVE  causes \cap (known \cup {"overlap", "stale"}) # {}
    <3>1. i = Len(accounts) /\ accounts # << >>
      BY <1>1 DEF AccountInv, Basic, Accounts, ActiveRows
    <3>2. \A k \in Policies : ops[k].status \notin {"failed", "running"}
      BY <2>1 DEF OpKeys
    <3>3. GivenUp \/ causes \cap {"overlap", "stale"} # {}
      BY <1>1, <2>1, <2>3, <3>1, <3>2 DEF AccountInv, LevelFollows, Newest, Owes
    <3> QED BY <3>3 DEF GivenUp
  <2> QED BY <2>2, <2>3
<1>2. AccountInv => CopiesDivergeForACause
  BY <1>1 DEF CopiesDivergeForACause
<1> QED BY <1>2, AccountAlways, PTL

----------------------------------------------------------------------------
\* Induction over the natural numbers, for a set of them.
LEMMA EveryNumber ==
    ASSUME NEW T \in SUBSET Nat, 0 \in T, \A n \in T : n + 1 \in T
    PROVE  T = Nat
<1> SUFFICES ASSUME NEW n \in Nat, n \notin T
             PROVE  FALSE
  OBVIOUS
<1> DEFINE U == Nat \ T
<1>0. U \subseteq Nat /\ U # {}
  OBVIOUS
<1>1. PICK m \in U : \A k \in U : ~(<<k, m>> \in OpToRel(<, Nat))
  <2> HIDE DEF U
  <2> QED BY <1>0, WFMin, NatLessThanWellFounded
<1>2. \A k \in U : ~(k < m)
  BY <1>0, <1>1 DEF OpToRel
<1>3. m \in Nat /\ m \notin T /\ m # 0
  OBVIOUS
<1>6. m - 1 \in Nat /\ m - 1 < m
  BY <1>3
<1>4. m - 1 \in T
  BY <1>2, <1>6
<1>5. (m - 1) + 1 \in T
  BY <1>4
<1> QED BY <1>3, <1>5

\* The function by which Balance adds up the first n rows.
Sums(rows, n, f) ==
    f = [k \in 0 .. n |-> IF k = 0 THEN 0 ELSE f[k - 1] + rows[k].amount]

LEMMA SumsMeans ==
    ASSUME NEW rows, NEW n \in Nat, NEW f, Sums(rows, n, f)
    PROVE  f[0] = 0 /\ \A k \in 0 .. n : k + 1 <= n => f[k + 1] = f[k] + rows[k + 1].amount
<1> DEFINE g == [k \in 0 .. n |-> IF k = 0 THEN 0 ELSE f[k - 1] + rows[k].amount]
<1>1. f = g
  BY DEF Sums
<1>2. g[0] = 0
  OBVIOUS
<1>3. ASSUME NEW k \in 0 .. n, k + 1 <= n
      PROVE  g[k + 1] = f[k] + rows[k + 1].amount
  <2>1. k + 1 \in 0 .. n /\ k + 1 # 0 /\ (k + 1) - 1 = k
    BY <1>3
  <2> QED BY <2>1
<1> HIDE DEF g
<1> QED BY <1>1, <1>2, <1>3

\* There is one.
LEMMA SumsExist ==
    ASSUME NEW rows, NEW n \in Nat
    PROVE  \E f : Sums(rows, n, f)
<1> DEFINE T == {m \in Nat : \E f : Sums(rows, m, f)}
<1>1. 0 \in T
  <2> DEFINE g == [k \in 0 .. 0 |-> 0]
  <2>1. g = [k \in 0 .. 0 |-> IF k = 0 THEN 0 ELSE g[k - 1] + rows[k].amount]
    OBVIOUS
  <2>2. Sums(rows, 0, g)
    BY <2>1 DEF Sums
  <2> QED BY <2>2
<1>2. ASSUME NEW m \in T
      PROVE  m + 1 \in T
  <2>1. m \in Nat
    OBVIOUS
  <2>2. PICK f : Sums(rows, m, f)
    OBVIOUS
  <2> DEFINE g == [k \in 0 .. m + 1 |-> IF k = m + 1 THEN f[m] + rows[m + 1].amount ELSE f[k]]
             h == [k \in 0 .. m + 1 |-> IF k = 0 THEN 0 ELSE g[k - 1] + rows[k].amount]
  <2>3. f[0] = 0 /\ \A k \in 0 .. m : k + 1 <= m => f[k + 1] = f[k] + rows[k + 1].amount
    BY <2>1, <2>2, SumsMeans
  <2>4. ASSUME NEW k \in 0 .. m + 1
        PROVE  g[k] = h[k]
    <3>1. CASE k = 0
      <4>1. k # m + 1
        BY <2>1, <3>1
      <4> QED BY <2>3, <3>1, <4>1
    <3>2. CASE k \in 1 .. m
      <4>1. /\ k - 1 \in 0 .. m /\ k - 1 \in 0 .. m + 1 /\ k - 1 # m + 1 /\ (k - 1) + 1 = k
            /\ k # m + 1 /\ k # 0 /\ (k - 1) + 1 <= m
        BY <2>1, <3>2
      <4>2. f[k] = f[k - 1] + rows[k].amount
        BY <2>3, <4>1
      <4>3. g[k] = f[k] /\ g[k - 1] = f[k - 1] /\ h[k] = g[k - 1] + rows[k].amount
        BY <4>1
      <4> QED BY <4>2, <4>3
    <3>3. CASE k = m + 1
      <4>1. k - 1 = m /\ m \in 0 .. m + 1 /\ m # m + 1 /\ k # 0
        BY <2>1, <3>3
      <4>2. g[k] = f[m] + rows[k].amount /\ g[k - 1] = f[m] /\ h[k] = g[k - 1] + rows[k].amount
        BY <3>3, <4>1
      <4> QED BY <4>2
    <3> QED BY <2>1, <3>1, <3>2, <3>3
  <2>5. g = h
    BY <2>4
  <2>6. Sums(rows, m + 1, g)
    BY <2>5 DEF Sums
  <2> QED BY <2>1, <2>6
<1> HIDE DEF T
<1>3. T = Nat
  BY <1>1, <1>2, EveryNumber DEF T
<1> QED BY <1>3 DEF T

\* The sums of equal amounts are equal.
SameAmounts(r, s, n) == \A k \in 1 .. n : r[k].amount = s[k].amount

LEMMA SumsAgree ==
    ASSUME NEW r, NEW s, NEW m \in Nat, NEW n \in Nat, m <= n, NEW f, NEW g,
           Sums(r, m, f), Sums(s, n, g), SameAmounts(r, s, m)
    PROVE  \A k \in 0 .. m : f[k] = g[k]
<1> DEFINE T == {k \in Nat : k <= m => f[k] = g[k]}
<1>1. 0 \in T
  <2>1. f[0] = 0
    BY SumsMeans
  <2>2. g[0] = 0
    BY SumsMeans
  <2> QED BY <2>1, <2>2
<1>2. ASSUME NEW k \in T
      PROVE  k + 1 \in T
  <2>1. CASE k + 1 <= m
    <3>1. k \in 0 .. m /\ k \in 0 .. n /\ k + 1 <= n /\ k + 1 \in 1 .. m
      BY <2>1
    <3>2. f[k + 1] = f[k] + r[k + 1].amount
      BY <3>1, <2>1, SumsMeans
    <3>3. g[k + 1] = g[k] + s[k + 1].amount
      BY <3>1, SumsMeans
    <3> QED BY <3>1, <3>2, <3>3 DEF SameAmounts
  <2> QED BY <2>1
<1> HIDE DEF T
<1>3. T = Nat
  BY <1>1, <1>2, EveryNumber DEF T
<1> QED BY <1>3 DEF T

LEMMA SumsAreNumbers ==
    ASSUME NEW rows, NEW n \in Nat, NEW f, Sums(rows, n, f),
           \A k \in 1 .. n : rows[k].amount \in Int
    PROVE  \A k \in 0 .. n : f[k] \in Int
<1> DEFINE T == {k \in Nat : k <= n => f[k] \in Int}
<1>1. 0 \in T
  BY SumsMeans
<1>2. ASSUME NEW k \in T
      PROVE  k + 1 \in T
  <2>1. CASE k + 1 <= n
    <3>1. k \in 0 .. n /\ k + 1 \in 1 .. n
      BY <2>1
    <3>2. f[k + 1] = f[k] + rows[k + 1].amount
      BY <3>1, <2>1, SumsMeans
    <3> QED BY <3>1, <3>2
  <2> QED BY <2>1
<1> HIDE DEF T
<1>3. T = Nat
  BY <1>1, <1>2, EveryNumber DEF T
<1> QED BY <1>3 DEF T

\* Balance takes the last of these sums.
LEMMA BalanceMeans ==
    ASSUME NEW rows, Len(rows) \in Nat
    PROVE  \E f : Sums(rows, Len(rows), f) /\ Balance(rows) = f[Len(rows)]
<1> DEFINE f == CHOOSE g : Sums(rows, Len(rows), g)
<1>1. Sums(rows, Len(rows), f)
  <2>1. \E g : Sums(rows, Len(rows), g)
    BY SumsExist
  <2> QED BY <2>1
<1>2. Balance(rows) = f[Len(rows)]
  BY DEF Balance, Sums
<1> HIDE DEF f
<1> QED BY <1>1, <1>2

\* A balance is a number; nothing adds up to 0; a row adds its amount; equal rows add up alike.
LEMMA BalanceIsANumber ==
    ASSUME NEW rows, Len(rows) \in Nat, \A k \in 1 .. Len(rows) : rows[k].amount \in Int
    PROVE  Balance(rows) \in Int
<1>1. PICK f : Sums(rows, Len(rows), f) /\ Balance(rows) = f[Len(rows)]
  BY BalanceMeans
<1> QED BY <1>1, SumsAreNumbers

LEMMA BalanceOfNothing == Balance(<<>>) = 0
<1>1. Len(<<>>) = 0
  OBVIOUS
<1>2. PICK f : Sums(<<>>, 0, f) /\ Balance(<<>>) = f[0]
  BY <1>1, BalanceMeans
<1> QED BY <1>2, SumsMeans

LEMMA BalanceOfOneMore ==
    ASSUME NEW rows, NEW more, NEW n \in Nat, Len(rows) = n, Len(more) = n + 1,
           \A k \in 1 .. n : rows[k] = more[k]
    PROVE  Balance(more) = Balance(rows) + more[n + 1].amount
<1>1. PICK f : Sums(rows, n, f) /\ Balance(rows) = f[n]
  BY BalanceMeans
<1>2. PICK g : Sums(more, n + 1, g) /\ Balance(more) = g[n + 1]
  BY BalanceMeans
<1>3. n + 1 \in Nat /\ n <= n + 1 /\ n \in 0 .. n /\ n \in 0 .. n + 1 /\ n + 1 <= n + 1
  OBVIOUS
<1>4. SameAmounts(rows, more, n)
  BY DEF SameAmounts
<1>5. \A k \in 0 .. n : f[k] = g[k]
  BY <1>1, <1>2, <1>3, <1>4, SumsAgree
<1>6. g[n + 1] = g[n] + more[n + 1].amount
  BY <1>2, <1>3, SumsMeans
<1> QED BY <1>1, <1>2, <1>3, <1>5, <1>6

LEMMA BalanceOfMore ==
    ASSUME NEW S, NEW rows \in Seq(S), NEW row \in S
    PROVE  Balance(Append(rows, row)) = Balance(rows) + row.amount
<1> DEFINE more == Append(rows, row)
<1>1. Len(rows) \in Nat
  BY LenProperties
<1>2. PICK n \in Nat : Len(rows) = n
  BY <1>1
<1>3. Len(more) = n + 1 /\ more[n + 1] = row /\ \A k \in 1 .. n : rows[k] = more[k]
  BY <1>2, AppendProperties
<1> HIDE DEF more
<1>4. Balance(more) = Balance(rows) + more[n + 1].amount
  BY <1>2, <1>3, BalanceOfOneMore
<1> QED BY <1>3, <1>4 DEF more

----------------------------------------------------------------------------
(***************************************************************************)
(* The ledger and the types.                                               *)
(***************************************************************************)
Grades == Levels \cup {ManagedLevel}

\* Amounts are numbers and levels are those an administrator or the code can choose.
Numbers(r) ==
    /\ r.amount \in Int /\ r.sum \in Int
    /\ r.pc \in {"policy", "create", "mirror", "bind"} => r.level \in Grades
    /\ r.pc \in {"match", "adjust"} => r.snap.level \in Grades /\ r.snap.balance \in Int

ProcsNumbered == \A p \in Processes : Numbers(proc[p])
OpsNumbered == \A k \in OpKeys : ops[k].amount \in Int
RemoteNumbered(u) ==
    u.level \in Grades \cup {0} /\ u.balance \in Int /\ u.credited \subseteq Transactions
OwedNumbered == \A r \in owed : r.id \in Transactions /\ r.amount \in Int
AccountsNumbered == \A i \in DOMAIN accounts : accounts[i].level \in Grades

\* Rows of the ledger, and what is left of balance_after when more are appended.
Booked(rows) ==
    \A i \in DOMAIN rows :
       /\ rows[i].amount \in Int /\ rows[i].after \in Int
       /\ rows[i].kind = "grant" => rows[i].after = Balance(SubSeq(rows, 1, i))

\* A grant that has read the ledger holds the row of the user, and nobody has written since.
Held ==
    /\ rowLock \in Handlers \cup {None}
    /\ \A p \in Processes :
          proc[p].pc = "insert" => rowLock = p /\ proc[p].sum = Balance(ledger)

LedgerInv ==
    /\ ProcsNumbered /\ OpsNumbered /\ RemoteNumbered(remote) /\ OwedNumbered
    /\ AccountsNumbered /\ Booked(ledger) /\ Held /\ causes \subseteq Causes

LEMMA GradesAreNumbers == Grades \subseteq Nat \ {0} /\ Levels \subseteq Grades
BY AccountAssumption DEF Grades

\* One process moves.
LEMMA NumbersKept ==
    ASSUME Procs, ProcsNumbered, NEW p \in Processes, NEW r, proc' = [proc EXCEPT ![p] = r],
           Numbers(r)
    PROVE  ProcsNumbered'
BY DEF Procs, ProcsNumbered

LEMMA HeldOn ==
    ASSUME Procs, Held, NEW p \in Processes, NEW r, proc' = [proc EXCEPT ![p] = r],
           r.pc # "insert", UNCHANGED <<ledger, rowLock>>
    PROVE  Held'
BY DEF Procs, Held

LEMMA HeldNoMore ==
    ASSUME Procs, Held, Working, NEW p \in Processes, NEW r, proc' = [proc EXCEPT ![p] = r],
           r.pc # "insert", rowLock \in {None, p}, rowLock' = None
    PROVE  Held'
<1>1. proc[Worker].pc # "insert"
  BY DEF Working, Carrying
<1>2. \A q \in Processes : proc[q].pc = "insert" => q = p
  BY <1>1, AccountAssumption DEF Held, Processes
<1>3. \A q \in Processes : proc'[q].pc # "insert"
  BY <1>2 DEF Procs
<1> QED BY <1>3 DEF Held

LEMMA IdleNumbers == Numbers(Idle) /\ Idle.pc # "insert"
BY DEF Numbers, Idle

\* A process moves; the ledger and the lock stay.
LEMMA Moved ==
    ASSUME Procs, LedgerInv, NEW p \in Processes, NEW r, proc' = [proc EXCEPT ![p] = r],
           Numbers(r), r.pc # "insert", OpsNumbered', RemoteNumbered(remote'),
           AccountsNumbered', UNCHANGED <<ledger, rowLock, owed>>, causes' \subseteq Causes
    PROVE  LedgerInv'
<1>1. ProcsNumbered'
  BY NumbersKept DEF LedgerInv
<1>2. Held'
  BY HeldOn DEF LedgerInv
<1>3. OwedNumbered' /\ Booked(ledger)' /\ RemoteNumbered(remote)'
  BY DEF LedgerInv, OwedNumbered, Booked, RemoteNumbered
<1> QED BY <1>1, <1>2, <1>3 DEF LedgerInv

\* A process moves and the ledger changes.
LEMMA Written ==
    ASSUME Procs, Working, LedgerInv, NEW p \in Processes, NEW r,
           proc' = [proc EXCEPT ![p] = r], Numbers(r), r.pc # "insert",
           rowLock \in {None, p}, rowLock' = None, Booked(ledger'), OwedNumbered',
           AccountsNumbered', UNCHANGED <<ops, remote>>, causes' \subseteq Causes
    PROVE  LedgerInv'
<1>1. ProcsNumbered'
  BY NumbersKept DEF LedgerInv
<1>2. Held'
  BY HeldNoMore DEF LedgerInv
<1>3. OpsNumbered' /\ Booked(ledger)' /\ RemoteNumbered(remote)'
  BY DEF LedgerInv, OpsNumbered, Booked, RemoteNumbered
<1> QED BY <1>1, <1>2, <1>3 DEF LedgerInv

\* Of a call that fails.
LEMMA ErrsNumbers ==
    ASSUME Procs, Ops, LedgerInv, NEW p \in Processes, NEW more, Errs(p, more),
           proc[p].call \in OpKeys, more \subseteq Causes
    PROVE  proc' = [proc EXCEPT ![p] = Idle] /\ OpsNumbered' /\ causes' \subseteq Causes
<1>1. PICK c : c = proc[p].call
  OBVIOUS
<1>0. /\ DOMAIN ops = OpKeys /\ c \in OpKeys /\ proc[p].amount \in Int
      /\ \A k \in OpKeys : ops[k].amount \in Int
      /\ ops[c] = [status |-> ops[c].status, amount |-> ops[c].amount, no |-> ops[c].no]
      /\ causes \subseteq Causes
  BY <1>1 DEF Ops, OpShaped, LedgerInv, OpsNumbered, ProcsNumbered, Numbers
<1>2. CASE p = Worker
  <2>1. PICK status \in {"failed", "dead_letter"} :
           /\ proc' = [proc EXCEPT ![p] = Idle]
           /\ ops' = [ops EXCEPT ![c].status = status]
           /\ causes' = causes \cup more \cup (IF status = "dead_letter" THEN {"dead"} ELSE {})
    BY <1>1, <1>2 DEF Errs, MarkFailed
  <2>2. OpsNumbered'
    BY <1>0, <2>1 DEF OpsNumbered
  <2> QED BY <1>0, <2>1, <2>2 DEF Causes
<1>3. CASE p # Worker /\ UNCHANGED ops /\ causes' = causes \cup more \cup {"unqueued"}
  <2>1. proc' = [proc EXCEPT ![p] = Idle]
    BY <1>3 DEF Errs, QueueRetry
  <2> QED BY <1>0, <1>3, <2>1 DEF OpsNumbered, Causes
<1>4. CASE p # Worker /\ ~(UNCHANGED ops /\ causes' = causes \cup more \cup {"unqueued"})
  <2>1. PICK status \in {"failed", "dead_letter"} :
           /\ proc' = [proc EXCEPT ![p] = Idle]
           /\ ops' = IF Exists THEN [ops EXCEPT ![c] = Enqueued(ops[c], status, p)] ELSE ops
           /\ causes' = causes \cup more
                \cup (IF ops[c].status = "none" /\ status = "dead_letter" THEN {"dead"} ELSE {})
                \cup (IF ops[c].status \notin {"none", "failed"} THEN {"absorbed"} ELSE {})
    BY <1>1, <1>4 DEF Errs, QueueRetry
  <2>2. Enqueued(ops[c], status, p).amount \in Int
    BY <1>0 DEF Enqueued
  <2>3. OpsNumbered'
    BY <1>0, <2>1, <2>2 DEF OpsNumbered
  <2> QED BY <1>0, <2>1, <2>3 DEF Causes
<1> QED BY <1>2, <1>3, <1>4

LEMMA DoneNumbers ==
    ASSUME Procs, Ops, LedgerInv, NEW p \in Processes, Done(p),
           p = Worker => proc[p].call \in OpKeys
    PROVE  proc' = [proc EXCEPT ![p] = Idle] /\ OpsNumbered'
BY DEF Done, LedgerInv, OpsNumbered, Ops, OpShaped

\* A process that goes on with what it has.
LEMMA WentOn ==
    ASSUME Procs, LedgerInv, NEW p \in Processes, NEW pc, Goto(p, pc),
           pc \notin {"insert", "match", "adjust"},
           pc \in {"policy", "create", "mirror", "bind"} => proc[p].pc \in {"policy", "create"}
    PROVE  \E r : proc' = [proc EXCEPT ![p] = r] /\ Numbers(r) /\ r.pc # "insert"
<1>1. proc' = [proc EXCEPT ![p] = [proc[p] EXCEPT !.pc = pc]]
  BY DEF Goto, Procs
<1>2. Numbers([proc[p] EXCEPT !.pc = pc]) /\ [proc[p] EXCEPT !.pc = pc].pc = pc
  BY DEF Procs, ProcShaped, LedgerInv, ProcsNumbered, Numbers
<1> QED BY <1>1, <1>2

\* Rows that are appended, and what is left of the ledger as it was.
LEMMA BookedOneMore ==
    ASSUME NEW S, NEW rows \in Seq(S), NEW row \in S, Booked(rows), row.amount \in Int,
           row.after \in Int, row.kind = "grant" => row.after = Balance(rows) + row.amount
    PROVE  Booked(Append(rows, row))
<1>1. PICK more : more = Append(rows, row)
  OBVIOUS
<1>2. /\ more \in Seq(S) /\ Len(more) = Len(rows) + 1 /\ more[Len(more)] = row
      /\ \A i \in 1 .. Len(rows) : more[i] = rows[i]
  BY <1>1
<1>3. \A i \in DOMAIN more : i = Len(more) \/ i \in 1 .. Len(rows)
  BY <1>2
<1>4. ASSUME NEW i \in 1 .. Len(rows)
      PROVE  SubSeq(more, 1, i) = SubSeq(rows, 1, i)
  BY <1>2
<1>5. SubSeq(more, 1, Len(more)) = more
  BY <1>2
<1>6. Balance(more) = Balance(rows) + row.amount
  BY <1>1, BalanceOfMore
<1>7. Balance(rows) \in Int
  BY BalanceIsANumber DEF Booked
<1>8. ASSUME NEW i \in 1 .. Len(rows)
      PROVE  /\ more[i].amount \in Int /\ more[i].after \in Int
             /\ more[i].kind = "grant" => more[i].after = Balance(SubSeq(more, 1, i))
  <2>1. i \in DOMAIN rows /\ more[i] = rows[i]
    BY <1>2
  <2>2. /\ rows[i].amount \in Int /\ rows[i].after \in Int
        /\ rows[i].kind = "grant" => rows[i].after = Balance(SubSeq(rows, 1, i))
    BY <2>1 DEF Booked
  <2> QED BY <1>4, <2>1, <2>2, Zenon
<1>9. row.kind = "grant" => row.after = Balance(SubSeq(more, 1, Len(more)))
  BY <1>5, <1>6
<1>10. ASSUME NEW i \in DOMAIN more
       PROVE  /\ more[i].amount \in Int /\ more[i].after \in Int
              /\ more[i].kind = "grant" => more[i].after = Balance(SubSeq(more, 1, i))
  <2>1. CASE i \in 1 .. Len(rows)
    BY <1>8, <2>1
  <2>2. CASE i = Len(more)
    BY <1>2, <1>9, <2>2
  <2> QED BY <1>3, <2>1, <2>2
<1>11. Booked(more)
  BY <1>10 DEF Booked
<1> QED BY <1>1, <1>11

\* Both invariants, and what they say of a process.
Whole == AccountInv /\ LedgerInv

LEMMA WholeMeans ==
    ASSUME Whole
    PROVE  /\ Procs /\ Ops /\ Working /\ Accounts /\ Ledger /\ Remote /\ LedgerInv
           /\ causes \subseteq Causes /\ OpsNumbered /\ RemoteNumbered(remote) /\ OwedNumbered
           /\ AccountsNumbered /\ Booked(ledger)
           /\ requests \in Nat
BY DEF Whole, AccountInv, Basic, LedgerInv

LEMMA AmountsOf ==
    ASSUME Whole, NEW p \in Processes
    PROVE  proc[p].amount \in Int /\ proc[p].sum \in Int /\ ProcShaped(proc[p])
BY DEF Whole, AccountInv, Basic, Procs, LedgerInv, ProcsNumbered, Numbers

LEMMA WorkersCall ==
    ASSUME Whole, NEW p \in Processes, proc[p].pc \in Carrying
    PROVE  proc[p].call \in OpKeys
BY OpKey, Policy, Grant DEF Whole, AccountInv, Basic, Procs, Stage, Carrying

LEMMA HandlersAre ==
    ASSUME NEW h \in Handlers
    PROVE  h \in Processes /\ h # Worker /\ h # None
BY AccountAssumption DEF Processes

LEMMA LedgerIsANumber ==
    ASSUME Whole
    PROVE  Balance(ledger) \in Int
<1>1. Booked(ledger) /\ Ledger
  BY WholeMeans
<1>2. Len(ledger) \in Nat /\ DOMAIN ledger = 1 .. Len(ledger)
  BY <1>1 DEF Ledger
<1> QED BY <1>1, <1>2, BalanceIsANumber DEF Booked

LEMMA IfFails ==
    ASSUME Whole, NEW p \in Processes, NEW more, Errs(p, more), proc[p].pc \in Carrying,
           more \subseteq Causes, RemoteNumbered(remote'), AccountsNumbered',
           UNCHANGED <<ledger, rowLock, owed>>
    PROVE  LedgerInv'
<1>1. Procs /\ Ops /\ LedgerInv
  BY WholeMeans
<1>2. proc[p].call \in OpKeys
  BY WorkersCall
<1>3. proc' = [proc EXCEPT ![p] = Idle] /\ OpsNumbered' /\ causes' \subseteq Causes
  BY <1>1, <1>2, ErrsNumbers
<1> QED BY <1>1, <1>3, IdleNumbers, Moved

LEMMA IfDone ==
    ASSUME Whole, NEW p \in Processes, Done(p), proc[p].pc \in Carrying,
           RemoteNumbered(remote'), AccountsNumbered', causes' \subseteq Causes,
           UNCHANGED <<ledger, rowLock, owed>>
    PROVE  LedgerInv'
<1>1. Procs /\ Ops /\ LedgerInv
  BY WholeMeans
<1>2. proc[p].call \in OpKeys
  BY WorkersCall
<1>3. proc' = [proc EXCEPT ![p] = Idle] /\ OpsNumbered'
  BY <1>1, <1>2, DoneNumbers
<1> QED BY <1>1, <1>3, IdleNumbers, Moved

LEMMA IfGoneOn ==
    ASSUME Whole, NEW p \in Processes, NEW pc, Goto(p, pc),
           pc \notin {"insert", "match", "adjust"}, UNCHANGED ops,
           pc \in {"policy", "create", "mirror", "bind"} => proc[p].pc \in {"policy", "create"},
           RemoteNumbered(remote'), AccountsNumbered', causes' \subseteq Causes,
           UNCHANGED <<ledger, rowLock, owed>>
    PROVE  LedgerInv'
<1>1. Procs /\ LedgerInv
  BY WholeMeans
<1>2. PICK r : proc' = [proc EXCEPT ![p] = r] /\ Numbers(r) /\ r.pc # "insert"
  BY <1>1, WentOn
<1>3. OpsNumbered'
  BY <1>1 DEF LedgerInv, OpsNumbered
<1> QED BY <1>1, <1>2, <1>3, Moved

\* Nothing else changes.
LEMMA IfMoved ==
    ASSUME Whole, NEW p \in Processes, NEW r, proc' = [proc EXCEPT ![p] = r], Numbers(r),
           r.pc # "insert",
           UNCHANGED <<accounts, remote, ledger, ops, owed, rowLock, causes>>
    PROVE  LedgerInv'
<1>1. Procs /\ LedgerInv
  BY WholeMeans
<1>2. OpsNumbered' /\ RemoteNumbered(remote') /\ AccountsNumbered' /\ causes' \subseteq Causes
  BY <1>1 DEF LedgerInv, OpsNumbered, RemoteNumbered, AccountsNumbered
<1> QED BY <1>1, <1>2, Moved

LEMMA SameAccounts ==
    ASSUME Whole, UNCHANGED accounts
    PROVE  AccountsNumbered'
BY DEF Whole, LedgerInv, AccountsNumbered

LEMMA UnmirroredIsACause == \A p : Unmirrored(p) \subseteq Causes
BY DEF Unmirrored, Causes

LEMMA CallFailsNumbers ==
    ASSUME Whole, NEW p \in Processes, CallFails(p)
    PROVE  LedgerInv'
<1>1. PICK more : more = IF At(p, "bind") THEN Unmirrored(p) ELSE {}
  OBVIOUS
<1>2. /\ proc[p].pc \in Carrying /\ Errs(p, more)
      /\ UNCHANGED <<accounts, remote, ledger, owed, rowLock>>
  BY <1>1 DEF CallFails, Carrying
<1>3. RemoteNumbered(remote') /\ AccountsNumbered' /\ more \subseteq Causes
  BY <1>1, <1>2, WholeMeans, SameAccounts, UnmirroredIsACause
<1> QED BY <1>2, <1>3, IfFails

LEMMA LoadAccountNumbers ==
    ASSUME Whole, NEW p \in Processes, LoadAccount(p)
    PROVE  LedgerInv'
<1>1. proc[p].pc \in Carrying /\ UNCHANGED <<accounts, remote, ledger, owed, rowLock>>
  BY DEF LoadAccount, At, Carrying
<1>2. RemoteNumbered(remote') /\ AccountsNumbered' /\ causes \subseteq Causes
  BY <1>1, WholeMeans, SameAccounts
<1>3. CASE Errs(p, {})
  BY <1>1, <1>2, <1>3, IfFails
<1>4. CASE Done(p) /\ causes' = causes \cup {"missed"}
  <2>1. causes' \subseteq Causes
    BY <1>2, <1>4 DEF Causes
  <2> QED BY <1>1, <1>2, <1>4, <2>1, IfDone
<1>5. CASE Goto(p, "send") /\ UNCHANGED <<ops, causes>>
  <2>1. causes' \subseteq Causes
    BY <1>2, <1>5
  <2> QED BY <1>1, <1>2, <1>5, <2>1, IfGoneOn
<1>6. CASE Goto(p, "ensure") /\ UNCHANGED <<ops, causes>>
  <2>1. causes' \subseteq Causes
    BY <1>2, <1>6
  <2> QED BY <1>1, <1>2, <1>6, <2>1, IfGoneOn
<1> QED BY <1>3, <1>4, <1>5, <1>6 DEF LoadAccount

LEMMA CheckUserNumbers ==
    ASSUME Whole, NEW p \in Processes, CheckUser(p)
    PROVE  LedgerInv'
<1>1. proc[p].pc \in Carrying /\ UNCHANGED <<accounts, remote, ledger, owed, rowLock>>
  BY DEF CheckUser, At, Carrying
<1>2. RemoteNumbered(remote') /\ AccountsNumbered' /\ causes \subseteq Causes
  BY <1>1, WholeMeans, SameAccounts
<1>3. CASE Errs(p, {})
  BY <1>1, <1>2, <1>3, IfFails
<1>4. CASE Goto(p, "ensure") /\ UNCHANGED <<ops, causes>>
  <2>1. causes' \subseteq Causes
    BY <1>2, <1>4
  <2> QED BY <1>1, <1>2, <1>4, <2>1, IfGoneOn
<1> QED BY <1>3, <1>4 DEF CheckUser

LEMMA OverlapIsACause == \A p : Overlap(p) \subseteq Causes
BY DEF Overlap, Causes

LEMMA EnsuredNumbers ==
    ASSUME Whole, NEW p \in Processes, proc[p].pc \in {"policy", "create"}
    PROVE  RemoteNumbered(EnsuredRemote(p))
<1>1. /\ remote = [status |-> remote.status, level |-> remote.level, balance |-> remote.balance,
                   credited |-> remote.credited, no |-> remote.no]
      /\ RemoteNumbered(remote)
  BY WholeMeans DEF Remote, RemoteFit
<1>2. proc[p].level \in Grades
  BY DEF Whole, LedgerInv, ProcsNumbered, Numbers
<1>3. CASE RemoteExists
  <2>1. EnsuredRemote(p) = [remote EXCEPT !.level = proc[p].level]
    BY <1>3 DEF EnsuredRemote
  <2> QED BY <1>1, <1>2, <2>1 DEF RemoteNumbered
<1>4. CASE ~RemoteExists
  <2>1. EnsuredRemote(p) = NewUser
    BY <1>4 DEF EnsuredRemote
  <2> QED BY <2>1 DEF RemoteNumbered, Grades, NewUser, NoUser
<1> QED BY <1>3, <1>4

LEMMA EnsureAccountNumbers ==
    ASSUME Whole, NEW p \in Processes, EnsureAccount(p)
    PROVE  LedgerInv'
<1>1. UNCHANGED <<accounts, remote, ledger, ops, owed, rowLock, causes>>
  BY DEF EnsureAccount
<1>2. Procs /\ AccountsNumbered
  BY WholeMeans
<1>3. \E x \in {"policy", "create"}, l \in Grades :
         proc' = [proc EXCEPT ![p].pc = x, ![p].level = l]
  BY <1>2 DEF EnsureAccount, ActiveRows, AccountsNumbered, Grades
<1>4. PICK x \in {"policy", "create"}, l \in Grades :
         proc' = [proc EXCEPT ![p].pc = x, ![p].level = l]
  BY <1>3
<1>5. PICK r : r = [proc[p] EXCEPT !.pc = x, !.level = l]
  OBVIOUS
<1>6. proc' = [proc EXCEPT ![p] = r]
  BY <1>2, <1>4, <1>5 DEF Procs
<1>7. r = [pc |-> x, call |-> proc[p].call, key |-> proc[p].key, amount |-> proc[p].amount,
           sync |-> proc[p].sync, sum |-> proc[p].sum, snap |-> proc[p].snap,
           no |-> proc[p].no, level |-> l]
  <2>1. ProcShaped(proc[p])
    BY <1>2 DEF Procs
  <2> QED BY <1>5, <2>1 DEF ProcShaped
<1>8. r.pc = x /\ r.amount = proc[p].amount /\ r.sum = proc[p].sum /\ r.level = l
  BY <1>7
<1>9. Numbers(r) /\ r.pc # "insert"
  BY <1>8, AmountsOf DEF Numbers
<1> QED BY <1>1, <1>6, <1>9, IfMoved

LEMMA EnsurePolicyNumbers ==
    ASSUME Whole, NEW p \in Processes, EnsurePolicy(p)
    PROVE  LedgerInv'
<1>1. /\ proc[p].pc = "policy" /\ UNCHANGED <<accounts, ledger, ops, owed, rowLock>>
      /\ remote' = EnsuredRemote(p) /\ causes' = causes \cup Overlap(p) \cup Unmirrored(p)
      /\ Goto(p, "mirror")
  BY DEF EnsurePolicy, At
<1>2. RemoteNumbered(remote') /\ AccountsNumbered' /\ causes \subseteq Causes
  BY <1>1, WholeMeans, EnsuredNumbers, SameAccounts
<1>3. causes' \subseteq Causes
  BY <1>1, <1>2, OverlapIsACause, UnmirroredIsACause
<1> QED BY <1>1, <1>2, <1>3, IfGoneOn

LEMMA EnsureUserNumbers ==
    ASSUME Whole, NEW p \in Processes, EnsureUser(p)
    PROVE  LedgerInv'
<1>1. /\ proc[p].pc = "create" /\ UNCHANGED <<accounts, ledger, ops, owed, rowLock>>
      /\ remote' = EnsuredRemote(p) /\ causes' = causes \cup Overlap(p) /\ Goto(p, "bind")
  BY DEF EnsureUser, At
<1>2. RemoteNumbered(remote') /\ AccountsNumbered' /\ causes \subseteq Causes
  BY <1>1, WholeMeans, EnsuredNumbers, SameAccounts
<1>3. causes' \subseteq Causes
  BY <1>1, <1>2, OverlapIsACause
<1> QED BY <1>1, <1>2, <1>3, IfGoneOn

LEMMA EnsureAnswerLostNumbers ==
    ASSUME Whole, NEW p \in Processes, EnsureAnswerLost(p)
    PROVE  LedgerInv'
<1>1. PICK more : more = Overlap(p) \cup Unmirrored(p)
  OBVIOUS
<1>2. /\ proc[p].pc \in {"policy", "create"} /\ proc[p].pc \in Carrying
      /\ UNCHANGED <<accounts, ledger, owed, rowLock>>
      /\ remote' = EnsuredRemote(p) /\ Errs(p, more)
  BY <1>1 DEF EnsureAnswerLost, At, Carrying
<1>3. RemoteNumbered(remote') /\ AccountsNumbered' /\ more \subseteq Causes
  BY <1>1, <1>2, EnsuredNumbers, SameAccounts, OverlapIsACause, UnmirroredIsACause
<1> QED BY <1>2, <1>3, IfFails

LEMMA IfOnward ==
    ASSUME Whole, NEW p \in Processes, Onward(p), AccountsNumbered', causes' \subseteq Causes,
           UNCHANGED <<remote, ledger, ops, owed, rowLock>>
    PROVE  LedgerInv'
<1>1. Procs /\ LedgerInv /\ RemoteNumbered(remote)
  BY WholeMeans
<1>2. PICK x : x = IF IsGrant(p) THEN "credit" ELSE "send"
  OBVIOUS
<1>3. PICK r : r = [proc[p] EXCEPT !.pc = x, !.level = 0]
  OBVIOUS
<1>4. proc' = [proc EXCEPT ![p] = r]
  BY <1>1, <1>2, <1>3 DEF Onward, Procs
<1>5. r = [pc |-> x, call |-> proc[p].call, key |-> proc[p].key, amount |-> proc[p].amount,
           sync |-> proc[p].sync, sum |-> proc[p].sum, snap |-> proc[p].snap,
           no |-> proc[p].no, level |-> 0]
  <2>1. ProcShaped(proc[p])
    BY <1>1 DEF Procs
  <2> QED BY <1>3, <2>1 DEF ProcShaped
<1>6. r.pc \in {"credit", "send"} /\ r.amount = proc[p].amount /\ r.sum = proc[p].sum
  BY <1>2, <1>5
<1>7. Numbers(r) /\ r.pc # "insert"
  BY <1>6, AmountsOf DEF Numbers
<1>8. OpsNumbered' /\ RemoteNumbered(remote')
  BY <1>1 DEF LedgerInv, OpsNumbered
<1> QED BY <1>1, <1>4, <1>7, <1>8, Moved

LEMMA MirroredLevelNumbers ==
    ASSUME Whole, NEW l \in Grades, NEW all \in BOOLEAN, accounts' = MirroredLevel(l, all)
    PROVE  AccountsNumbered'
<1>1. accounts \in Seq(AccountRow) /\ AccountsNumbered
  BY WholeMeans DEF Accounts
<1>2. ASSUME NEW i \in DOMAIN accounts
      PROVE  accounts'[i].level \in Grades
  <2>1. accounts[i] \in AccountRow /\ accounts[i].level \in Grades
    BY <1>1 DEF AccountsNumbered
  <2>2. accounts[i] = [status |-> accounts[i].status, level |-> accounts[i].level]
    BY <2>1 DEF AccountRow
  <2>3. accounts'[i] = [accounts[i] EXCEPT !.level = l] \/ accounts'[i] = accounts[i]
    BY DEF MirroredLevel
  <2> QED BY <2>1, <2>2, <2>3
<1>3. DOMAIN accounts' = DOMAIN accounts
  BY DEF MirroredLevel
<1> QED BY <1>2, <1>3 DEF AccountsNumbered

LEMMA MirrorLevelNumbers ==
    ASSUME Whole, NEW p \in Processes, MirrorLevel(p)
    PROVE  LedgerInv'
<1>1. /\ proc[p].pc = "mirror" /\ Onward(p)
      /\ UNCHANGED <<remote, ledger, ops, owed, rowLock, causes>>
  BY DEF MirrorLevel, At
<1>2. proc[p].level \in Grades
  BY <1>1 DEF Whole, LedgerInv, ProcsNumbered, Numbers
<1>3. PICK l \in Grades, all \in BOOLEAN : accounts' = MirroredLevel(l, all)
  BY <1>2 DEF MirrorLevel
<1>4. AccountsNumbered' /\ causes' \subseteq Causes
  BY <1>1, <1>3, MirroredLevelNumbers, WholeMeans
<1> QED BY <1>1, <1>4, IfOnward

LEMMA MirrorFailsNumbers ==
    ASSUME Whole, NEW p \in Processes, MirrorFails(p)
    PROVE  LedgerInv'
<1>1. Onward(p) /\ UNCHANGED <<accounts, remote, ledger, ops, owed, rowLock, causes>>
  BY DEF MirrorFails
<1>2. AccountsNumbered' /\ causes' \subseteq Causes
  BY <1>1, SameAccounts, WholeMeans
<1> QED BY <1>1, <1>2, IfOnward

LEMMA BoundNumbers ==
    ASSUME Whole, accounts' = Bound
    PROVE  AccountsNumbered'
<1>1. accounts \in Seq(AccountRow) /\ AccountsNumbered
  BY WholeMeans DEF Accounts
<1>2. CASE accounts' = accounts
  BY <1>1, <1>2 DEF AccountsNumbered
<1>3. CASE accounts' = Append(accounts, NewAccount)
  <2>1. NewAccount \in AccountRow /\ NewAccount.level \in Grades
    BY AccountAssumption DEF NewAccount, AccountRow, Statuses, Grades
  <2>2. /\ DOMAIN accounts' = 1 .. Len(accounts) + 1 /\ accounts'[Len(accounts) + 1] = NewAccount
        /\ \A i \in 1 .. Len(accounts) : accounts'[i] = accounts[i]
        /\ DOMAIN accounts = 1 .. Len(accounts) /\ Len(accounts) \in Nat
    BY <1>1, <1>3, <2>1
  <2>3. \A i \in DOMAIN accounts' : i = Len(accounts) + 1 \/ i \in 1 .. Len(accounts)
    BY <2>2
  <2> QED BY <1>1, <2>1, <2>2, <2>3 DEF AccountsNumbered
<1> QED BY <1>2, <1>3 DEF Bound

LEMMA BindAccountNumbers ==
    ASSUME Whole, NEW p \in Processes, BindAccount(p)
    PROVE  LedgerInv'
<1>1. /\ proc[p].pc \in Carrying /\ UNCHANGED <<remote, ledger, owed, rowLock>>
      /\ accounts' = Bound
  BY DEF BindAccount, At, Carrying
<1>2. RemoteNumbered(remote') /\ AccountsNumbered' /\ causes \subseteq Causes
  BY <1>1, WholeMeans, BoundNumbers
<1>3. CASE Exists
  <2>1. /\ Onward(p) /\ UNCHANGED ops
        /\ causes' = causes \cup (IF ActiveRows # {} THEN Unmirrored(p) ELSE {})
    BY <1>3 DEF BindAccount
  <2>2. causes' \subseteq Causes
    BY <1>2, <2>1, UnmirroredIsACause
  <2> QED BY <1>1, <1>2, <2>1, <2>2, IfOnward
<1>4. CASE ~Exists
  <2>1. Errs(p, {})
    BY <1>4 DEF BindAccount
  <2> QED BY <1>1, <1>2, <2>1, IfFails
<1> QED BY <1>3, <1>4

LEMMA LevelOf ==
    ASSUME NEW c \in Policies, ~IsStatus(c)
    PROVE  c.level \in Levels
<1>1. CASE \E s \in Statuses : c = Call(s, 0, 0)
  BY <1>1, StatusCall
<1>2. CASE \E l \in Levels : c = Call("", l, 0)
  <2>1. PICK l \in Levels : c = Call("", l, 0)
    BY <1>2
  <2> QED BY <2>1 DEF Call
<1> QED BY <1>1, <1>2 DEF Policies

LEMMA SentNumbers ==
    ASSUME Whole, NEW p \in Processes, proc[p].pc = "send"
    PROVE  RemoteNumbered(SentRemote(p)) /\ SendCauses(p) \subseteq Causes
<1>1. /\ remote = [status |-> remote.status, level |-> remote.level, balance |-> remote.balance,
                   credited |-> remote.credited, no |-> remote.no]
      /\ RemoteNumbered(remote)
  BY WholeMeans DEF Remote, RemoteFit
<1>2. proc[p].call \in Policies
  BY WholeMeans DEF Procs, Stage
<1>3. ~IsStatus(proc[p].call) => proc[p].call.level \in Levels
  BY <1>2, LevelOf
<1>4. RemoteNumbered(SentRemote(p))
  BY <1>1, <1>3 DEF SentRemote, RemoteNumbered, Grades
<1>5. SendCauses(p) \subseteq Causes
  BY OverlapIsACause DEF SendCauses, Causes
<1> QED BY <1>4, <1>5

LEMMA SendPolicyNumbers ==
    ASSUME Whole, NEW p \in Processes, SendPolicy(p)
    PROVE  LedgerInv'
<1>1. /\ proc[p].pc = "send" /\ UNCHANGED <<accounts, ledger, ops, owed, rowLock>>
      /\ remote' = SentRemote(p) /\ causes' = causes \cup SendCauses(p) /\ Goto(p, "save")
  BY DEF SendPolicy, At
<1>2. /\ RemoteNumbered(remote') /\ AccountsNumbered' /\ causes \subseteq Causes
      /\ SendCauses(p) \subseteq Causes
  BY <1>1, WholeMeans, SentNumbers, SameAccounts
<1>3. causes' \subseteq Causes
  BY <1>1, <1>2
<1> QED BY <1>1, <1>2, <1>3, IfGoneOn

LEMMA SendAnswerLostNumbers ==
    ASSUME Whole, NEW p \in Processes, SendAnswerLost(p)
    PROVE  LedgerInv'
<1>1. /\ proc[p].pc = "send" /\ proc[p].pc \in Carrying
      /\ UNCHANGED <<accounts, ledger, owed, rowLock>>
      /\ remote' = SentRemote(p) /\ Errs(p, SendCauses(p))
  BY DEF SendAnswerLost, At, Carrying
<1>2. PICK more : more = SendCauses(p)
  OBVIOUS
<1>3. RemoteNumbered(remote') /\ AccountsNumbered' /\ more \subseteq Causes /\ Errs(p, more)
  BY <1>1, <1>2, SentNumbers, SameAccounts
<1> QED BY <1>1, <1>3, IfFails

LEMMA MirroredNumbers ==
    ASSUME Whole, NEW c \in Policies, accounts' = Mirrored(c)
    PROVE  AccountsNumbered'
<1>1. accounts \in Seq(AccountRow) /\ AccountsNumbered
  BY WholeMeans DEF Accounts
<1>2. ~IsStatus(c) => c.level \in Grades
  BY LevelOf DEF Grades
<1>3. ASSUME NEW i \in DOMAIN accounts
      PROVE  accounts'[i].level \in Grades
  <2>1. accounts[i] \in AccountRow /\ accounts[i].level \in Grades
    BY <1>1 DEF AccountsNumbered
  <2>2. accounts[i] = [status |-> accounts[i].status, level |-> accounts[i].level]
    BY <2>1 DEF AccountRow
  <2>3. accounts'[i] = IF IsStatus(c) THEN [accounts[i] EXCEPT !.status = c.status]
                       ELSE [accounts[i] EXCEPT !.level = c.level]
    BY DEF Mirrored
  <2> QED BY <1>2, <2>1, <2>2, <2>3
<1>4. DOMAIN accounts' = DOMAIN accounts
  BY DEF Mirrored
<1> QED BY <1>3, <1>4 DEF AccountsNumbered

LEMMA SaveMirrorNumbers ==
    ASSUME Whole, NEW p \in Processes, SaveMirror(p)
    PROVE  LedgerInv'
<1>1. /\ proc[p].pc = "save" /\ proc[p].pc \in Carrying
      /\ UNCHANGED <<remote, ledger, owed, rowLock>>
  BY DEF SaveMirror, At, Carrying
<1>2. RemoteNumbered(remote') /\ causes \subseteq Causes
  BY <1>1, WholeMeans
<1>3. CASE Errs(p, {}) /\ UNCHANGED accounts
  <2>1. AccountsNumbered'
    BY <1>3, SameAccounts
  <2> QED BY <1>1, <1>2, <1>3, <2>1, IfFails
<1>4. CASE accounts' = Mirrored(proc[p].call) /\ Done(p) /\ UNCHANGED causes
  <2>1. PICK c \in Policies : c = proc[p].call
    BY <1>1, WholeMeans DEF Procs, Stage
  <2>2. AccountsNumbered' /\ causes' \subseteq Causes
    BY <1>2, <1>4, <2>1, MirroredNumbers
  <2> QED BY <1>1, <1>2, <1>4, <2>2, IfDone
<1> QED BY <1>3, <1>4 DEF SaveMirror

LEMMA CreditedNumbers ==
    ASSUME Whole, NEW n \in Transactions, NEW amount \in Int
    PROVE  RemoteNumbered(Credited(n, amount))
<1>1. /\ remote = [status |-> remote.status, level |-> remote.level, balance |-> remote.balance,
                   credited |-> remote.credited, no |-> remote.no]
      /\ RemoteNumbered(remote)
  BY WholeMeans DEF Remote, RemoteFit
<1> QED BY <1>1 DEF Credited, RemoteNumbered

LEMMA GrantCreditedNumbers ==
    ASSUME Whole, NEW p \in Processes, proc[p].pc = "credit",
           remote' = Credited(proc[p].call.tx, proc[p].amount)
    PROVE  RemoteNumbered(remote')
<1>1. proc[p].call \in Grants
  BY WholeMeans DEF Procs, Stage
<1>2. PICK n \in Transactions, amount \in Int : n = proc[p].call.tx /\ amount = proc[p].amount
  BY <1>1, Grant, AmountsOf
<1> QED BY <1>2, CreditedNumbers

LEMMA CreditGrantNumbers ==
    ASSUME Whole, NEW p \in Processes, CreditGrant(p)
    PROVE  LedgerInv'
<1>1. /\ proc[p].pc = "credit" /\ proc[p].pc \in Carrying
      /\ UNCHANGED <<accounts, ledger, owed, rowLock, causes>> /\ Done(p)
      /\ remote' = Credited(proc[p].call.tx, proc[p].amount)
  BY DEF CreditGrant, At, Carrying
<1>2. RemoteNumbered(remote') /\ AccountsNumbered' /\ causes' \subseteq Causes
  BY <1>1, WholeMeans, GrantCreditedNumbers, SameAccounts
<1> QED BY <1>1, <1>2, IfDone

LEMMA CreditAnswerLostNumbers ==
    ASSUME Whole, NEW p \in Processes, CreditAnswerLost(p)
    PROVE  LedgerInv'
<1>1. /\ proc[p].pc = "credit" /\ proc[p].pc \in Carrying
      /\ UNCHANGED <<accounts, ledger, owed, rowLock>> /\ Errs(p, {})
      /\ remote' = Credited(proc[p].call.tx, proc[p].amount)
  BY DEF CreditAnswerLost, At, Carrying
<1>2. RemoteNumbered(remote') /\ AccountsNumbered'
  BY <1>1, GrantCreditedNumbers, SameAccounts
<1> QED BY <1>1, <1>2, IfFails

LEMMA UpdateUserNumbers ==
    ASSUME Whole, NEW h \in Handlers, NEW status \in Statuses, UpdateUser(h, status)
    PROVE  LedgerInv'
<1>1. PICK r : r = [Idle EXCEPT !.pc = "load", !.call = Call(status, 0, 0), !.no = requests + 1]
  OBVIOUS
<1>2. /\ proc' = [proc EXCEPT ![h] = r] /\ h \in Processes
      /\ UNCHANGED <<accounts, remote, ledger, ops, owed, rowLock, causes>>
  BY <1>1 DEF UpdateUser, Processes
<1>3. Numbers(r) /\ r.pc # "insert"
  BY <1>1 DEF Numbers, Idle
<1> QED BY <1>2, <1>3, IfMoved

LEMMA UpdateUserConcurrencyNumbers ==
    ASSUME Whole, NEW h \in Handlers, NEW level \in Levels, UpdateUserConcurrency(h, level)
    PROVE  LedgerInv'
<1>1. PICK r : r = [Idle EXCEPT !.pc = "load", !.call = Call("", level, 0)]
  OBVIOUS
<1>2. /\ proc' = [proc EXCEPT ![h] = r] /\ h \in Processes
      /\ UNCHANGED <<accounts, remote, ledger, ops, owed, rowLock, causes>>
  BY <1>1 DEF UpdateUserConcurrency, Processes
<1>3. Numbers(r) /\ r.pc # "insert"
  BY <1>1 DEF Numbers, Idle
<1> QED BY <1>2, <1>3, IfMoved

LEMMA AmountsAreNumbers == Amounts \subseteq Int
BY AccountAssumption

LEMMA GrantUserBalanceNumbers ==
    ASSUME Whole, NEW h \in Handlers, NEW amount \in Amounts, NEW key, NEW sync,
           GrantUserBalance(h, amount, key, sync)
    PROVE  LedgerInv'
<1>1. PICK r : r = [Idle EXCEPT !.pc = "lock", !.amount = amount, !.key = key, !.sync = sync,
                                !.no = requests + 1]
  OBVIOUS
<1>2. /\ proc' = [proc EXCEPT ![h] = r] /\ h \in Processes
      /\ UNCHANGED <<accounts, remote, ledger, ops, owed, rowLock, causes>>
  BY <1>1 DEF GrantUserBalance, Processes
<1>3. Numbers(r) /\ r.pc # "insert"
  BY <1>1, AmountsAreNumbers DEF Numbers, Idle
<1> QED BY <1>2, <1>3, IfMoved

LEMMA RedeemNumbers ==
    ASSUME Whole, NEW h \in Handlers, NEW amount \in Amounts, Redeem(h, amount)
    PROVE  LedgerInv'
<1>1. PICK r : r = [Idle EXCEPT !.pc = "redeem", !.amount = amount, !.sum = Balance(ledger),
                                !.no = requests + 1]
  OBVIOUS
<1>2. /\ proc' = [proc EXCEPT ![h] = r] /\ h \in Processes
      /\ UNCHANGED <<accounts, remote, ledger, ops, owed, rowLock, causes>>
  BY <1>1 DEF Redeem, Processes
<1>3. Numbers(r) /\ r.pc # "insert"
  BY <1>1, AmountsAreNumbers, LedgerIsANumber DEF Numbers, Idle
<1> QED BY <1>2, <1>3, IfMoved

LEMMA SyncSub2APIUsersNumbers ==
    ASSUME Whole, NEW h \in Handlers, SyncSub2APIUsers(h)
    PROVE  LedgerInv'
<1>1. PICK r : r = [Idle EXCEPT !.pc = "match", !.snap = remote, !.no = requests + 1]
  OBVIOUS
<1>2. /\ proc' = [proc EXCEPT ![h] = r] /\ h \in Processes /\ remote.level # 0
      /\ UNCHANGED <<accounts, remote, ledger, ops, owed, rowLock, causes>>
  BY <1>1 DEF SyncSub2APIUsers, Processes, RemoteExists
<1>3. remote.level \in Grades /\ remote.balance \in Int
  BY <1>2, WholeMeans DEF RemoteNumbered
<1>4. Numbers(r) /\ r.pc # "insert"
  BY <1>1, <1>3 DEF Numbers, Idle
<1> QED BY <1>2, <1>4, IfMoved

LEMMA ReadBalanceNumbers ==
    ASSUME Whole, NEW h \in Handlers, ReadBalance(h)
    PROVE  LedgerInv'
<1>1. /\ proc[h].pc = "match" /\ h \in Processes
      /\ UNCHANGED <<accounts, remote, ledger, ops, owed, rowLock, causes>>
  BY DEF ReadBalance, At, Processes
<1>2. CASE ~Exists
  <2>1. proc' = [proc EXCEPT ![h] = Idle]
    BY <1>2 DEF ReadBalance
  <2> QED BY <1>1, <2>1, IdleNumbers, IfMoved
<1>3. CASE Exists
  <2>1. PICK r : r = [proc[h] EXCEPT !.pc = "adjust", !.sum = Balance(ledger)]
    OBVIOUS
  <2>2. proc' = [proc EXCEPT ![h] = r]
    BY <1>3, <2>1 DEF ReadBalance
  <2>3. ProcShaped(proc[h]) /\ Numbers(proc[h]) /\ Balance(ledger) \in Int
    BY <1>1, AmountsOf, LedgerIsANumber, WholeMeans DEF LedgerInv, ProcsNumbered
  <2>4. r = [pc |-> "adjust", call |-> proc[h].call, key |-> proc[h].key,
             amount |-> proc[h].amount, sync |-> proc[h].sync, sum |-> Balance(ledger),
             snap |-> proc[h].snap, no |-> proc[h].no, level |-> proc[h].level]
    BY <2>1, <2>3 DEF ProcShaped
  <2>5. Numbers(r) /\ r.pc # "insert"
    BY <1>1, <2>3, <2>4 DEF Numbers
  <2> QED BY <1>1, <2>2, <2>5, IfMoved
<1> QED BY <1>2, <1>3

\* The state of a request after its grant.
LEMMA AfterGrantNumbers ==
    ASSUME Whole, NEW h \in Processes, NEW n, AfterGrant(h, n)
    PROVE  \E r : proc' = [proc EXCEPT ![h] = r] /\ Numbers(r) /\ r.pc # "insert"
<1>1. CASE ~proc[h].sync
  <2>1. proc' = [proc EXCEPT ![h] = Idle]
    BY <1>1 DEF AfterGrant
  <2> QED BY <2>1, IdleNumbers
<1>2. CASE proc[h].sync
  <2>1. PICK r : r = [Idle EXCEPT !.pc = "check", !.call = Call("", 0, n), !.amount = proc[h].amount]
    OBVIOUS
  <2>2. proc' = [proc EXCEPT ![h] = r]
    BY <1>2, <2>1 DEF AfterGrant
  <2>3. ProcShaped(proc[h]) /\ proc[h].amount \in Int
    BY AmountsOf
  <2>4. r = [pc |-> "check", call |-> Call("", 0, n), key |-> None,
             amount |-> proc[h].amount, sync |-> TRUE, sum |-> 0,
             snap |-> NoUser, no |-> 0, level |-> 0]
    BY <2>1 DEF Idle
  <2>5. r.pc = "check" /\ r.amount = proc[h].amount /\ r.sum = 0
    BY <2>4, Zenon
  <2>6. Numbers(r) /\ r.pc # "insert"
    BY <2>3, <2>5 DEF Numbers
  <2> QED BY <2>2, <2>6
<1> QED BY <1>1, <1>2

LEMMA ReadLedgerNumbers ==
    ASSUME Whole, NEW h \in Handlers, ReadLedger(h)
    PROVE  LedgerInv'
<1>1. /\ proc[h].pc = "lock" /\ h \in Processes
      /\ UNCHANGED <<accounts, remote, ledger, ops, owed, causes>>
  BY DEF ReadLedger, At, Processes
<1>2. CASE Granted(proc[h].key) # {}
  <2>1. PICK n : AfterGrant(h, n)
    BY <1>2 DEF ReadLedger
  <2>2. PICK r : proc' = [proc EXCEPT ![h] = r] /\ Numbers(r) /\ r.pc # "insert"
    BY <1>1, <2>1, AfterGrantNumbers
  <2>3. UNCHANGED rowLock
    BY <1>2 DEF ReadLedger
  <2> QED BY <1>1, <2>2, <2>3, IfMoved
<1>3. CASE Granted(proc[h].key) = {}
  <2>1. PICK r : r = [proc[h] EXCEPT !.pc = "insert", !.sum = Balance(ledger)]
    OBVIOUS
  <2>2. proc' = [proc EXCEPT ![h] = r] /\ rowLock = None /\ rowLock' = h
    BY <1>3, <2>1 DEF ReadLedger, LockUser
  <2>3. /\ ProcShaped(proc[h]) /\ proc[h].amount \in Int /\ Balance(ledger) \in Int
        /\ Procs /\ LedgerInv /\ Working
    BY <1>1, AmountsOf, LedgerIsANumber, WholeMeans
  <2>4. r = [pc |-> "insert", call |-> proc[h].call, key |-> proc[h].key,
             amount |-> proc[h].amount, sync |-> proc[h].sync, sum |-> Balance(ledger),
             snap |-> proc[h].snap, no |-> proc[h].no, level |-> proc[h].level]
    BY <2>1, <2>3 DEF ProcShaped
  <2>5. Numbers(r)
    BY <2>3, <2>4 DEF Numbers
  <2>6. ProcsNumbered'
    BY <1>1, <2>2, <2>3, <2>5, NumbersKept DEF LedgerInv
  <2>7. Held'
    <3>1. Held /\ proc[Worker].pc # "insert"
      BY <2>3 DEF LedgerInv, Working, Carrying
    <3>2. \A q \in Processes : proc[q].pc # "insert"
      BY <2>2, <3>1, HandlersAre DEF Held, Processes
    <3>3. /\ proc'[h].sum = Balance(ledger) /\ ledger' = ledger
          /\ \A q \in Processes : q # h => proc'[q] = proc[q]
      BY <1>1, <2>2, <2>3, <2>4 DEF Procs
    <3> QED BY <2>2, <3>2, <3>3 DEF Held
  <2> QED BY <1>1, <2>3, <2>6, <2>7
          DEF LedgerInv, OpsNumbered, RemoteNumbered, OwedNumbered, AccountsNumbered, Booked
<1> QED BY <1>2, <1>3

\* A row more in the ledger.
LEMMA RowBooked ==
    ASSUME Whole, NEW row, ledger' = Append(ledger, row), row.amount \in Int, row.after \in Int,
           row.kind = "grant" => row.after = Balance(ledger) + row.amount
    PROVE  Booked(ledger')
<1>1. Ledger /\ Booked(ledger)
  BY WholeMeans
<1>2. PICK S : ledger \in Seq(S)
  BY <1>1 DEF Ledger
<1>3. PICK T, rows : T = S \cup {row} /\ rows = ledger
  OBVIOUS
<1>4. rows \in Seq(T) /\ row \in T
  BY <1>2, <1>3
<1>5. Booked(Append(rows, row))
  BY <1>1, <1>3, <1>4, BookedOneMore
<1> QED BY <1>3, <1>5

LEMMA InsertGrantNumbers ==
    ASSUME Whole, NEW h \in Handlers, InsertGrant(h)
    PROVE  LedgerInv'
<1>1. /\ proc[h].pc = "insert" /\ h \in Processes /\ rowLock' = None
      /\ UNCHANGED <<accounts, remote, ops, owed, causes>>
  BY DEF InsertGrant, At, Processes
<1>2. /\ Procs /\ Working /\ LedgerInv /\ Booked(ledger) /\ causes' \subseteq Causes
      /\ OwedNumbered' /\ AccountsNumbered'
  BY <1>1, WholeMeans DEF OwedNumbered, AccountsNumbered
<1>3. /\ rowLock = h /\ proc[h].sum = Balance(ledger) /\ proc[h].amount \in Int
      /\ Balance(ledger) \in Int
  BY <1>1, <1>2, AmountsOf, LedgerIsANumber DEF LedgerInv, Held
<1>4. CASE ~Exists
  <2>1. ledger' = ledger /\ proc' = [proc EXCEPT ![h] = Idle]
    BY <1>4 DEF InsertGrant
  <2> QED BY <1>1, <1>2, <1>3, <2>1, IdleNumbers, Written
<1>5. CASE Exists
  <2>1. PICK row, n : /\ row = Row(h, "grant", proc[h].amount, proc[h].sum + proc[h].amount)
                      /\ ledger' = IF Granted(proc[h].key) = {} THEN Append(ledger, row) ELSE ledger
                      /\ AfterGrant(h, n)
    BY <1>5 DEF InsertGrant
  <2>2. PICK r : proc' = [proc EXCEPT ![h] = r] /\ Numbers(r) /\ r.pc # "insert"
    BY <1>1, <2>1, AfterGrantNumbers
  <2>3. row.amount = proc[h].amount /\ row.after = proc[h].sum + proc[h].amount
    BY <2>1 DEF Row
  <2>4. row.amount \in Int /\ row.after \in Int /\ row.after = Balance(ledger) + row.amount
    BY <1>3, <2>3
  <2>5. Booked(ledger')
    BY <1>2, <2>1, <2>4, RowBooked
  <2> QED BY <1>1, <1>2, <1>3, <2>2, <2>5, Written
<1> QED BY <1>4, <1>5

LEMMA MarkRedeemedLocallyNumbers ==
    ASSUME Whole, NEW h \in Handlers, MarkRedeemedLocally(h)
    PROVE  LedgerInv'
<1>1. /\ proc[h].pc = "redeem" /\ h \in Processes /\ rowLock = None /\ rowLock' = None
      /\ UNCHANGED <<accounts, remote, ops, causes>> /\ proc' = [proc EXCEPT ![h] = Idle]
  BY DEF MarkRedeemedLocally, At, Processes
<1>2. /\ Procs /\ Working /\ LedgerInv /\ Booked(ledger) /\ causes' \subseteq Causes
      /\ OwedNumbered /\ AccountsNumbered'
  BY <1>1, WholeMeans DEF AccountsNumbered
<1>3. proc[h].amount \in Int /\ proc[h].sum \in Int /\ proc[h].no \in Transactions
  BY <1>1, <1>2, AmountsOf DEF Procs, Stage
<1>4. CASE ~Exists
  <2>1. ledger' = ledger /\ owed' = owed
    BY <1>4 DEF MarkRedeemedLocally
  <2>2. OwedNumbered'
    BY <1>2, <2>1 DEF OwedNumbered
  <2> QED BY <1>1, <1>2, <2>1, <2>2, IdleNumbers, Written
<1>5. CASE Exists
  <2>1. PICK row : row = Row(h, "redeem", proc[h].amount, proc[h].sum + proc[h].amount)
    OBVIOUS
  <2>2. /\ ledger' = Append(ledger, row)
        /\ owed' = owed \cup {[id |-> proc[h].no, amount |-> proc[h].amount]}
    BY <1>5, <2>1 DEF MarkRedeemedLocally
  <2>3. /\ row.amount = proc[h].amount /\ row.after = proc[h].sum + proc[h].amount
        /\ row.kind # "grant"
    BY <2>1 DEF Row
  <2>4. Booked(ledger')
    BY <1>3, <2>2, <2>3, RowBooked
  <2>5. OwedNumbered'
    BY <1>2, <1>3, <2>2 DEF OwedNumbered
  <2> QED BY <1>1, <1>2, <2>4, <2>5, IdleNumbers, Written
<1> QED BY <1>4, <1>5

LEMMA CreditRedemptionNumbers ==
    ASSUME Whole, NEW r \in owed, CreditRedemption(r)
    PROVE  LedgerInv'
<1>1. /\ remote' = Credited(r.id, r.amount) /\ owed' = owed \ {r}
      /\ UNCHANGED <<accounts, ledger, ops, rowLock, proc, causes>>
  BY DEF CreditRedemption
<1>2. LedgerInv /\ OwedNumbered
  BY WholeMeans
<1>3. PICK n \in Transactions, amount \in Int : n = r.id /\ amount = r.amount
  BY <1>2 DEF OwedNumbered
<1>4. RemoteNumbered(remote')
  BY <1>1, <1>3, CreditedNumbers
<1>5. OwedNumbered'
  BY <1>1, <1>2 DEF OwedNumbered
<1>6. ProcsNumbered' /\ Held' /\ OpsNumbered' /\ AccountsNumbered' /\ Booked(ledger')
      /\ causes' \subseteq Causes
  BY <1>1, <1>2 DEF LedgerInv, ProcsNumbered, Held, OpsNumbered, AccountsNumbered, Booked
<1> QED BY <1>4, <1>5, <1>6 DEF LedgerInv

LEMMA CopiedNumbers ==
    ASSUME Whole, NEW snap, snap.level \in Grades, snap.status \in Statuses,
           accounts' = Copied(snap)
    PROVE  AccountsNumbered'
<1>1. PICK row : row = [status |-> snap.status, level |-> snap.level]
  OBVIOUS
<1>2. row \in AccountRow /\ row.level \in Grades
  BY <1>1, GradesAreNumbers DEF AccountRow
<1>3. accounts \in Seq(AccountRow) /\ AccountsNumbered
  BY WholeMeans DEF Accounts
<1>4. CASE accounts = << >>
  <2>1. accounts' = <<row>>
    BY <1>1, <1>4 DEF Copied
  <2> QED BY <1>2, <2>1 DEF AccountsNumbered
<1>5. CASE accounts # << >>
  <2>1. accounts' = [accounts EXCEPT ![Len(accounts)] = row]
    BY <1>1, <1>5 DEF Copied
  <2> QED BY <1>2, <1>3, <2>1 DEF AccountsNumbered
<1> QED BY <1>4, <1>5

LEMMA AdjustBalanceNumbers ==
    ASSUME Whole, NEW h \in Handlers, AdjustBalance(h)
    PROVE  LedgerInv'
<1>1. /\ proc[h].pc = "adjust" /\ h \in Processes /\ rowLock = None /\ rowLock' = None
      /\ UNCHANGED <<remote, ops, owed>> /\ proc' = [proc EXCEPT ![h] = Idle]
  BY DEF AdjustBalance, At, Processes
<1>2. /\ Procs /\ Working /\ LedgerInv /\ Booked(ledger) /\ causes \subseteq Causes
      /\ OwedNumbered'
  BY <1>1, WholeMeans DEF OwedNumbered
<1>3. PICK snap, delta : snap = proc[h].snap /\ delta = snap.balance - proc[h].sum
  OBVIOUS
<1>4. /\ snap.level \in Grades /\ snap.balance \in Int /\ proc[h].sum \in Int
      /\ snap.status \in Statuses
  BY <1>1, <1>2, <1>3 DEF LedgerInv, ProcsNumbered, Numbers, Procs, Stage
<1>5. CASE UNCHANGED <<accounts, ledger, causes>>
  <2>1. Booked(ledger') /\ AccountsNumbered' /\ causes' \subseteq Causes
    BY <1>2, <1>5, SameAccounts
  <2> QED BY <1>1, <1>2, <2>1, IdleNumbers, Written
<1>6. CASE /\ Exists /\ accounts' = Copied(snap)
           /\ ledger' = IF delta = 0 THEN ledger
                        ELSE Append(ledger, Row(h, "sync", delta, snap.balance))
           /\ causes' = causes \cup Stale(snap) \cup Overlap(h)
  <2>1. causes' \subseteq Causes
    BY <1>2, <1>6, OverlapIsACause DEF Stale, Causes
  <2>2. AccountsNumbered'
    BY <1>4, <1>6, CopiedNumbers
  <2>3. PICK row : row = Row(h, "sync", delta, snap.balance)
    OBVIOUS
  <2>4. row.amount = delta /\ row.after = snap.balance /\ row.kind # "grant" /\ delta \in Int
    BY <1>3, <1>4, <2>3 DEF Row
  <2>5. Booked(ledger')
    BY <1>2, <1>4, <1>6, <2>3, <2>4, RowBooked
  <2> QED BY <1>1, <1>2, <2>1, <2>2, <2>5, IdleNumbers, Written
<1> QED BY <1>3, <1>5, <1>6 DEF AdjustBalance

LEMMA DeleteUserNumbers ==
    ASSUME Whole, NEW h \in Handlers, DeleteUser(h)
    PROVE  LedgerInv'
<1>1. /\ rowLock = None /\ accounts' = << >> /\ ledger' = << >> /\ owed' = {}
      /\ UNCHANGED <<remote, ops, rowLock, proc, causes>>
  BY DEF DeleteUser, DeleteRows
<1>2. LedgerInv /\ Working
  BY WholeMeans
<1>3. \A p \in Processes : proc[p].pc # "insert"
  BY <1>1, <1>2, HandlersAre DEF LedgerInv, Held, Working, Carrying, Processes
<1>4. Held'
  BY <1>1, <1>3 DEF Held
<1>5. AccountsNumbered' /\ Booked(ledger)' /\ OwedNumbered'
  BY <1>1 DEF AccountsNumbered, Booked, OwedNumbered
<1>6. ProcsNumbered' /\ OpsNumbered' /\ RemoteNumbered(remote)' /\ causes' \subseteq Causes
  BY <1>1, <1>2 DEF LedgerInv, ProcsNumbered, OpsNumbered, RemoteNumbered
<1> QED BY <1>4, <1>5, <1>6 DEF LedgerInv

LEMMA CrashNumbers ==
    ASSUME Whole, NEW h \in Handlers, Crash(h)
    PROVE  LedgerInv'
<1>1. /\ proc' = [proc EXCEPT ![h] = Idle] /\ causes' = causes \cup {"crashed"}
      /\ h \in Processes
      /\ rowLock' = IF rowLock = h THEN None ELSE rowLock
      /\ UNCHANGED <<accounts, remote, ledger, ops, owed>>
  BY DEF Crash, Processes
<1>2. LedgerInv /\ Procs /\ Working /\ Booked(ledger) /\ causes \subseteq Causes
  BY WholeMeans
<1>3. OpsNumbered' /\ RemoteNumbered(remote') /\ AccountsNumbered' /\ OwedNumbered'
  BY <1>1, <1>2 DEF LedgerInv, OpsNumbered, RemoteNumbered, AccountsNumbered, OwedNumbered
<1>4. causes' \subseteq Causes
  BY <1>1, <1>2 DEF Causes
<1>5. CASE rowLock = h
  BY <1>1, <1>2, <1>3, <1>4, <1>5, IdleNumbers, Written
<1>6. CASE rowLock # h
  BY <1>1, <1>2, <1>3, <1>4, <1>6, IdleNumbers, Moved
<1> QED BY <1>5, <1>6

LEMMA ClaimNumbers ==
    ASSUME Whole, NEW k \in OpKeys, Claim(k)
    PROVE  LedgerInv'
<1>1. /\ ops' = [ops EXCEPT ![k].status = "running"] /\ Worker \in Processes
      /\ UNCHANGED <<accounts, remote, ledger, owed, rowLock, causes>>
  BY DEF Claim, Processes
<1>2. LedgerInv /\ Procs /\ Ops /\ OpsNumbered /\ causes' \subseteq Causes
  BY <1>1, WholeMeans
<1>3. OpsNumbered'
  BY <1>1, <1>2 DEF Ops, OpShaped, OpsNumbered
<1>4. \E r : proc' = [proc EXCEPT ![Worker] = r] /\ Numbers(r) /\ r.pc # "insert"
  <2>1. CASE k \in Policies
    <3>1. PICK r : r = [Idle EXCEPT !.pc = "load", !.call = k, !.no = ops[k].no]
      OBVIOUS
    <3>2. proc' = [proc EXCEPT ![Worker] = r]
      BY <2>1, <3>1 DEF Claim
    <3>3. Numbers(r) /\ r.pc # "insert"
      BY <3>1 DEF Numbers, Idle
    <3> QED BY <3>2, <3>3
  <2>2. CASE k \notin Policies
    <3>1. PICK r : r = [Idle EXCEPT !.pc = "check", !.call = k, !.amount = ops[k].amount]
      OBVIOUS
    <3>2. proc' = [proc EXCEPT ![Worker] = r]
      BY <2>2, <3>1 DEF Claim
    <3>3. Numbers(r) /\ r.pc # "insert"
      BY <1>2, <3>1 DEF Numbers, Idle, OpsNumbered
    <3> QED BY <3>2, <3>3
  <2> QED BY <2>1, <2>2
<1>5. PICK r : proc' = [proc EXCEPT ![Worker] = r] /\ Numbers(r) /\ r.pc # "insert"
  BY <1>4
<1>6. RemoteNumbered(remote') /\ AccountsNumbered'
  BY <1>1, <1>2 DEF LedgerInv, RemoteNumbered, AccountsNumbered
<1> QED BY <1>1, <1>2, <1>3, <1>5, <1>6, Moved

LEMMA NumbersInit ==
    Init => LedgerInv
<1> SUFFICES ASSUME Init
             PROVE  LedgerInv
  OBVIOUS
<1>1. ProcsNumbered /\ Held
  BY IdleNumbers DEF Init, ProcsNumbered, Held, Processes
<1>2. OpsNumbered
  BY DEF Init, OpsNumbered, NoOp
<1>3. RemoteNumbered(remote)
  <2>1. remote = NoUser \/ remote = NewUser
    BY DEF Init
  <2>2. RemoteNumbered(NewUser)
    <3>1. /\ NewUser.level = ManagedLevel /\ NewUser.balance = 0 /\ NewUser.credited = {}
      BY NewUserMeans, Zenon
    <3> QED BY <3>1 DEF RemoteNumbered, Grades
  <2>3. RemoteNumbered(NoUser)
    BY DEF RemoteNumbered, NoUser
  <2> QED BY <2>1, <2>2, <2>3
<1>4. OwedNumbered /\ Booked(ledger) /\ causes \subseteq Causes
  BY DEF Init, OwedNumbered, Booked
<1>5. AccountsNumbered
  BY DEF Init, AccountsNumbered, NewAccount, Grades
<1> QED BY <1>1, <1>2, <1>3, <1>4, <1>5 DEF LedgerInv

LEMMA NumbersNext ==
    AccountInv /\ LedgerInv /\ [Next]_vars => LedgerInv'
<1> SUFFICES ASSUME Whole, [Next]_vars
             PROVE  LedgerInv'
  BY DEF Whole
<1>1. CASE UNCHANGED vars
  <2>1. UNCHANGED <<accounts, remote, ledger, ops, owed, rowLock, proc, causes>>
    BY <1>1 DEF vars
  <2> QED BY <2>1, WholeMeans DEF LedgerInv, ProcsNumbered, Held, OpsNumbered, RemoteNumbered,
          AccountsNumbered, OwedNumbered, Booked
<1>2. ASSUME NEW p \in Processes, Step(p)
      PROVE  LedgerInv'
  BY <1>2, CallFailsNumbers, LoadAccountNumbers, EnsureAccountNumbers, EnsurePolicyNumbers,
     EnsureUserNumbers, EnsureAnswerLostNumbers, MirrorLevelNumbers, MirrorFailsNumbers,
     BindAccountNumbers, SendPolicyNumbers, SendAnswerLostNumbers, SaveMirrorNumbers, CheckUserNumbers, CreditGrantNumbers,
     CreditAnswerLostNumbers DEF Step
<1>3. ASSUME NEW h \in Handlers, Request(h)
      PROVE  LedgerInv'
  <2>1. CASE \/ \E status \in Statuses : UpdateUser(h, status)
             \/ \E level \in Levels : UpdateUserConcurrency(h, level)
    BY <2>1, UpdateUserNumbers, UpdateUserConcurrencyNumbers
  <2>2. CASE \/ \E amount \in Amounts, key \in Keys \cup {None}, sync \in BOOLEAN :
                   GrantUserBalance(h, amount, key, sync)
             \/ \E amount \in Amounts : Redeem(h, amount)
    BY <2>2, GrantUserBalanceNumbers, RedeemNumbers
  <2>3. CASE SyncSub2APIUsers(h) \/ DeleteUser(h) \/ ReadLedger(h) \/ InsertGrant(h)
    BY <2>3, SyncSub2APIUsersNumbers, DeleteUserNumbers, ReadLedgerNumbers, InsertGrantNumbers
  <2>4. CASE MarkRedeemedLocally(h) \/ ReadBalance(h) \/ AdjustBalance(h) \/ Crash(h)
    BY <2>4, MarkRedeemedLocallyNumbers, ReadBalanceNumbers, AdjustBalanceNumbers, CrashNumbers
  <2> QED BY <1>3, <2>1, <2>2, <2>3, <2>4 DEF Request
<1> QED BY <1>1, <1>2, <1>3, ClaimNumbers, CreditRedemptionNumbers DEF Next

LEMMA LedgerAlways ==
    Spec => []LedgerInv
<1>1. Init => AccountInv /\ LedgerInv
  BY AccountInit, NumbersInit
<1>2. AccountInv /\ LedgerInv /\ [Next]_vars => AccountInv' /\ LedgerInv'
  BY AccountNext, NumbersNext
<1> QED BY <1>1, <1>2, PTL DEF Spec

\* insertAdminBalanceGrant: a grant's balance_after is the sum of the ledger up to its row, whoever
\* else writes to the ledger of the user.
THEOREM GrantBalanceIsAlwaysExact ==
    Spec => []GrantBalanceIsExact
<1>1. LedgerInv => GrantBalanceIsExact
  BY DEF LedgerInv, Booked, GrantBalanceIsExact
<1> QED BY <1>1, LedgerAlways, PTL

\* The types, and the partial unique index: at most one account of a user is active.
THEOREM AccountsTypeCorrect ==
    Spec => []TypeOK
<1>1. ASSUME AccountInv, LedgerInv
      PROVE  TypeOK
  <2>0. Whole
    BY <1>1 DEF Whole
  <2>1. accounts \in Seq(Rows)
    <3>1. accounts \in Seq(AccountRow) /\ AccountsNumbered
      BY <2>0, WholeMeans DEF Accounts
    <3>2. \A i \in 1 .. Len(accounts) : accounts[i] \in Rows
      <4>1. ASSUME NEW i \in 1 .. Len(accounts)
            PROVE  accounts[i] \in Rows
        <5>1. accounts[i] \in AccountRow /\ accounts[i].level \in Grades
          BY <3>1 DEF AccountsNumbered
        <5> QED BY <5>1 DEF AccountRow, Rows, Grades
      <4> QED BY <4>1
    <3> QED BY <3>1, <3>2
  <2>2. Unique(accounts)
    <3>1. PICK S : S = {i \in DOMAIN accounts : accounts[i].status = "active"}
      OBVIOUS
    <3>2. \A i, j \in S : i = j
      BY <2>0, <3>1, WholeMeans DEF Accounts
    <3>3. CASE S = {}
      BY <3>1, <3>3, FS_EmptySet DEF Unique
    <3>4. CASE S # {}
      <4>1. PICK i \in S : S = {i}
        BY <3>2, <3>4
      <4>2. Cardinality({i}) = 1
        BY FS_Singleton
      <4> QED BY <3>1, <4>1, <4>2 DEF Unique
    <3> QED BY <3>3, <3>4
  <2>3. user \in Statuses \cup {"deleted"}
    BY <1>1 DEF AccountInv, Basic
  <2>4. /\ remote.status \in Statuses /\ remote.balance \in Int
        /\ remote.credited \subseteq Transactions
    BY <2>0, WholeMeans DEF Remote, RemoteFit, RemoteNumbered
  <2>5. \A i \in DOMAIN ledger : ledger[i].id \in Transactions /\ ledger[i].after \in Int
    BY <2>0, WholeMeans DEF Ledger, Booked
  <2>6. \A k \in OpKeys : ops[k].status \in {"none", "failed", "running", "succeeded", "dead_letter"}
    BY <2>0, WholeMeans DEF Ops, OpShaped
  <2>7. rowLock \in Handlers \cup {None} /\ causes \subseteq Causes
    BY <1>1 DEF LedgerInv, Held
  <2>8. \A p \in Processes : proc[p].pc \in Pcs
    BY <2>0, WholeMeans DEF Procs, Stage
  <2> QED BY <2>1, <2>2, <2>3, <2>4, <2>5, <2>6, <2>7, <2>8 DEF TypeOK
<1>2. AccountInv /\ LedgerInv => TypeOK
  BY <1>1
<1> QED BY <1>2, AccountAlways, LedgerAlways, PTL
=============================================================================
