---------------------------- MODULE LoginGuards ----------------------------
(***************************************************************************)
(* The counters in Redis that limit requests and guard the two logins, the *)
(* logins and the registration behind them, and the administrator's second *)
(* factor.                                                                 *)
(*                                                                         *)
(* A limit is a counter: INCR, then EXPIRE in a command of its own when    *)
(* the count is 1, then a comparison with the limit, rule after rule.      *)
(* Guards of the logins are read before the password is compared and       *)
(* written after it, so concurrent logins pass them together.              *)
(*                                                                         *)
(* External: Redis (INCR, EXPIRE, SET, DEL are atomic each), bcrypt and    *)
(* the TOTP library (whether a password or a code is right is an input).   *)
(***************************************************************************)
EXTENDS Naturals, Sequences, FiniteSets

CONSTANTS
    Requests,    \* requests in progress at a time
    Ips, Emails, \* clients and accounts
    Traffic,     \* mixes of kinds of request; kinds with no key in common need not mix
    Limit,       \* the limit of each rule
    None,        \* nothing there
    Secrets,     \* TOTP secrets that can be generated
    MaxArrivals, \* bound: requests that arrive
    MaxFaults    \* bound: failing Redis calls and requests that die

\* register .. provision: requests with a limit only (and what is modelled elsewhere)
AllKinds == {"register", "login", "refresh", "redeem", "read", "provision",
             "admin", "enable", "disable"}

Scopes == {"register.ip", "register.email", "register.pair", "login.ip", "login.pair",
           "fail.pair", "fail.email", "fail.ip", "admin.pair", "admin.ip",
           "refresh.ip", "refresh.family", "redeem.ip", "redeem.user", "redeem.code",
           "read.user", "read.ip", "provision.group"}

ASSUME GuardAssumption ==
    /\ Traffic \subseteq SUBSET AllKinds
    /\ Limit \in [Scopes -> Nat \ {0}]
    /\ None \notin Secrets \cup Ips \cup Emails
    /\ IsFiniteSet(Requests)
    /\ MaxArrivals \in Nat /\ MaxFaults \in Nat

(***************************************************************************)
(* The rules.  A family, a user, a code and a group are the who of their   *)
(* request.                                                                *)
(***************************************************************************)
RegisterRules(ip, who) == <<<<"register.ip", ip, None>>, <<"register.email", None, who>>,
                            <<"register.pair", ip, who>>>>
LoginRules(ip, who) == <<<<"login.ip", ip, None>>, <<"login.pair", ip, who>>>>
RefreshRules(ip, who) == <<<<"refresh.ip", ip, None>>, <<"refresh.family", None, who>>>>
RedeemRules(ip, who) == <<<<"redeem.ip", ip, None>>, <<"redeem.user", None, who>>,
                          <<"redeem.code", None, who>>>>
ReadRules(ip, who) == <<<<"read.user", None, who>>, <<"read.ip", ip, None>>>>
ProvisionRules(who) == <<<<"provision.group", None, who>>>>

RequestRules(kind, ip, who) ==
    CASE kind = "register" -> RegisterRules(ip, who)
      [] kind = "login" -> LoginRules(ip, who)
      [] kind = "refresh" -> RefreshRules(ip, who)
      [] kind = "redeem" -> RedeemRules(ip, who)
      [] kind = "read" -> ReadRules(ip, who)
      [] kind = "provision" -> ProvisionRules(who)
      [] OTHER -> <<>>

LoginFailureRules(ip, who) ==
    <<<<"fail.pair", ip, who>>, <<"fail.email", None, who>>, <<"fail.ip", ip, None>>>>
AdminFailureRules(ip, who) == <<<<"admin.pair", ip, who>>, <<"admin.ip", ip, None>>>>
FailureRules(kind, ip, who) ==
    IF kind = "admin" THEN AdminFailureRules(ip, who) ELSE LoginFailureRules(ip, who)

Elements(s) == {s[i] : i \in DOMAIN s}
Keys == UNION {Elements(RequestRules(kind, ip, who)) \cup
                   (IF kind \in {"login", "admin"} THEN Elements(FailureRules(kind, ip, who)) ELSE {}) :
               kind \in UNION Traffic, ip \in Ips, who \in Emails}
LimitOf(k) == Limit[k[1]]

VARIABLES
    kinds,    \* the mix of this behaviour
    counter,  \* the counter of each key; 0: the key does not exist
    expiry,   \* the keys that have an expiry
    block,    \* the block keys: "fresh" as long as the counter that set it lives
    account,  \* "active": there is an active user
    req,      \* what each request is doing
    totp,     \* totp_secret_encrypted of the administrator, None: not enabled
    setup,    \* the secret SetupTOTP put into Redis
    fresh,    \* secrets not generated yet
    guesses,  \* history: wrong passwords since the key came into being
    orphans,  \* history: keys whose maker did not send the EXPIRE
    proved,   \* history: secrets a code was shown for
    arrivals, \* requests arrived, <= MaxArrivals
    faults    \* faults used up, <= MaxFaults

redis == <<kinds, counter, expiry, block>>
second == <<totp, setup, fresh, proved>>
vars == <<redis, account, req, second, guesses, orphans, arrivals, faults>>

\* pc of a request:
\*   idle     not there
\*   incr     about to increment the counter of the next rule
\*   expire   that made the counter, about to give it its expiry
\*   block    an administrator's login has reached a limit, about to block
\*   check    about to read the guards of its login
\*   compare  about to read the account and compare the password
\*   code     about to verify the code against the secret it has read
\*   clear    logged in, about to clear the failures of the pair
\*   insert   about to insert the user
\*   write    a code was right, about to store or remove the secret
PC == {"idle", "incr", "expire", "block", "check", "compare", "code", "clear", "insert", "write"}
Request == [pc : PC, kind : AllKinds \cup {None}, ip : Ips \cup {None}, who : Emails \cup {None},
            todo : Seq(Keys), failing : BOOLEAN, secret : Secrets \cup {None}]
Idle == [pc |-> "idle", kind |-> None, ip |-> None, who |-> None, todo |-> <<>>,
         failing |-> FALSE, secret |-> None]

Init ==
    /\ kinds \in Traffic
    /\ counter = [k \in Keys |-> 0]
    /\ expiry = {}
    /\ block = [k \in Keys |-> "none"]
    /\ account \in [Emails -> {"active", None}]
    /\ req = [p \in Requests |-> Idle]
    /\ totp = None /\ setup = None /\ fresh = Secrets
    /\ guesses = [k \in Keys |-> 0]
    /\ orphans = {} /\ proved = {}
    /\ arrivals = 0 /\ faults = 0

At(p, pc) == req[p].pc = pc
Goto(p, pc) == req' = [req EXCEPT ![p].pc = pc]
Done(p) == req' = [req EXCEPT ![p] = Idle]
Fault == faults < MaxFaults /\ faults' = faults + 1

(***************************************************************************)
(* Arrival.  After the limits a login reads its guards, a registration     *)
(* inserts the user, the others go on to what other modules describe.      *)
(***************************************************************************)
AfterLimits(kind) ==
    CASE kind \in {"login", "admin"} -> "check"
      [] kind = "register" -> "insert"
      [] OTHER -> "idle"

Arrive(p, kind, ip, who) ==
    LET rules == RequestRules(kind, ip, who) IN
    /\ At(p, "idle") /\ arrivals < MaxArrivals
    /\ kind \notin {"enable", "disable"}
    /\ arrivals' = arrivals + 1
    /\ req' = [req EXCEPT ![p] = [Idle EXCEPT
                  !.pc = IF rules = <<>> THEN AfterLimits(kind) ELSE "incr",
                  !.kind = kind, !.ip = ip, !.who = who, !.todo = rules]]
    /\ UNCHANGED <<redis, account, second, guesses, orphans, faults>>

(***************************************************************************)
(* The loop over the rules, of a limit and of the failures of a login.  A  *)
(* user's request stops at the first rule that is exceeded; an             *)
(* administrator's login blocks on it and goes on.                         *)
(***************************************************************************)
Advance(p) ==
    LET r == req[p] IN
    req' = [req EXCEPT ![p] =
               IF Len(r.todo) > 1 THEN [r EXCEPT !.todo = Tail(r.todo), !.pc = "incr"]
               ELSE IF r.failing \/ AfterLimits(r.kind) = "idle" THEN Idle
               ELSE [r EXCEPT !.todo = <<>>, !.pc = AfterLimits(r.kind)]]

Admin(p) == req[p].kind = "admin"

\* with the count the counter has now
Compared(p, n) ==
    LET k == Head(req[p].todo) IN
    IF Admin(p) THEN IF n >= LimitOf(k) THEN Goto(p, "block") ELSE Advance(p)
    ELSE IF n > LimitOf(k) THEN Done(p) ELSE Advance(p)

\* mutant: the expiry is left to the request that finds the counter there
IncrExpiresLater(p) ==
    LET k == Head(req[p].todo)
        n == counter[k] + 1
    IN
    /\ At(p, "incr")
    /\ counter' = [counter EXCEPT ![k] = n]
    /\ IF n = 2 THEN Goto(p, "expire") ELSE Compared(p, n)
    /\ UNCHANGED <<kinds, expiry, block, account, second, guesses, orphans, arrivals, faults>>

Incr(p) ==
    LET k == Head(req[p].todo)
        n == counter[k] + 1
    IN
    /\ At(p, "incr")
    /\ counter' = [counter EXCEPT ![k] = n]
    /\ IF n = 1 THEN Goto(p, "expire") ELSE Compared(p, n)
    /\ UNCHANGED <<kinds, expiry, block, account, second, guesses, orphans, arrivals, faults>>

\* EXPIRE of a key that is gone does nothing
Expire(p) ==
    LET k == Head(req[p].todo) IN
    /\ At(p, "expire")
    /\ expiry' = IF counter[k] > 0 THEN expiry \cup {k} ELSE expiry
    /\ Compared(p, 1)
    /\ UNCHANGED <<kinds, counter, block, account, second, guesses, orphans, arrivals, faults>>

SetBlock(p) ==
    LET k == Head(req[p].todo) IN
    /\ At(p, "block")
    /\ block' = [block EXCEPT ![k] = IF counter[k] > 0 THEN "fresh" ELSE "stale"]
    /\ Advance(p)
    /\ UNCHANGED <<kinds, counter, expiry, account, second, guesses, orphans, arrivals, faults>>

(***************************************************************************)
(* The logins.                                                             *)
(***************************************************************************)
\* mutant: one failure too many
ExceededLate(k) == counter[k] > LimitOf(k)

Exceeded(k) == counter[k] >= LimitOf(k)
Blocked(p) ==
    \E k \in Elements(FailureRules(req[p].kind, req[p].ip, req[p].who)) :
        IF Admin(p) THEN block[k] # "none" ELSE Exceeded(k)

Check(p) ==
    /\ At(p, "check")
    /\ IF Blocked(p) THEN Done(p) ELSE Goto(p, "compare")
    /\ UNCHANGED <<redis, account, second, guesses, orphans, arrivals, faults>>

RecordFailure(p) ==
    LET rules == FailureRules(req[p].kind, req[p].ip, req[p].who) IN
    /\ req' = [req EXCEPT ![p].todo = rules, ![p].failing = TRUE, ![p].pc = "incr"]
    /\ guesses' = [k \in Keys |-> IF k \in Elements(rules) THEN guesses[k] + 1 ELSE guesses[k]]

\* no such account, not active or the wrong password: a failure.  The record
\* an administrator's login has read tells it whether to ask for a code.
Compare(p) ==
    /\ At(p, "compare")
    /\ \/ RecordFailure(p)
       \/ /\ IF Admin(p) THEN totp = None ELSE account[req[p].who] = "active"
          /\ Goto(p, "clear") /\ UNCHANGED guesses
       \/ /\ Admin(p) /\ totp # None
          /\ req' = [req EXCEPT ![p].secret = totp, ![p].pc = "code"] /\ UNCHANGED guesses
    /\ UNCHANGED <<redis, account, second, orphans, arrivals, faults>>

\* no code: the client is asked for one; a wrong one is a failure
VerifyCode(p) ==
    /\ At(p, "code")
    /\ \/ Done(p) /\ UNCHANGED guesses
       \/ RecordFailure(p)
       \/ Goto(p, "clear") /\ UNCHANGED guesses
    /\ UNCHANGED <<redis, account, second, orphans, arrivals, faults>>

\* mutant: one less instead of none
DeleteOne(S) ==
    /\ counter' = [k \in Keys |-> IF k \in S THEN counter[k] - 1 ELSE counter[k]]
    /\ guesses' = [k \in Keys |-> IF k \in S THEN 0 ELSE guesses[k]]
    /\ expiry' = expiry \ S
    /\ orphans' = orphans \ S

\* the key goes, and with it what is counted against it
Delete(S) ==
    /\ counter' = [k \in Keys |-> IF k \in S THEN 0 ELSE counter[k]]
    /\ guesses' = [k \in Keys |-> IF k \in S THEN 0 ELSE guesses[k]]
    /\ expiry' = expiry \ S
    /\ orphans' = orphans \ S

ClearPairFailure(p) ==
    LET pair == Head(FailureRules(req[p].kind, req[p].ip, req[p].who)) IN
    /\ At(p, "clear")
    /\ Delete({pair})
    /\ block' = [block EXCEPT ![pair] = IF Admin(p) THEN "none" ELSE @]
    /\ Done(p)
    /\ UNCHANGED <<kinds, account, second, arrivals, faults>>

InsertUser(p) ==
    /\ At(p, "insert")
    /\ account' = [account EXCEPT ![req[p].who] = IF @ = None THEN "active" ELSE @]
    /\ Done(p)
    /\ UNCHANGED <<redis, second, guesses, orphans, arrivals, faults>>

(***************************************************************************)
(* The second factor: the administrator has a session.                     *)
(***************************************************************************)
SetupTOTP(s) ==
    /\ "enable" \in kinds /\ s \in fresh
    /\ fresh' = fresh \ {s} /\ setup' = s
    /\ UNCHANGED <<redis, account, req, totp, guesses, orphans, proved, arrivals, faults>>

\* the setup secret is read and the code compared with it
EnableTOTP(p) ==
    /\ "enable" \in kinds /\ At(p, "idle") /\ setup # None
    /\ arrivals < MaxArrivals /\ arrivals' = arrivals + 1
    /\ req' = [req EXCEPT ![p] = [Idle EXCEPT !.kind = "enable", !.secret = setup, !.pc = "write"]]
    /\ proved' = proved \cup {setup}
    /\ UNCHANGED <<redis, account, totp, setup, fresh, guesses, orphans, faults>>

DisableTOTP(p) ==
    /\ "disable" \in kinds /\ At(p, "idle") /\ totp # None
    /\ arrivals < MaxArrivals /\ arrivals' = arrivals + 1
    /\ req' = [req EXCEPT ![p] = [Idle EXCEPT !.kind = "disable", !.pc = "write"]]
    /\ UNCHANGED <<redis, account, second, guesses, orphans, faults>>

\* mutant: the secret is read again
WriteTOTPRead(p) ==
    /\ At(p, "write")
    /\ totp' = IF req[p].kind = "enable" THEN setup ELSE None
    /\ setup' = IF req[p].kind = "enable" THEN None ELSE setup
    /\ Done(p)
    /\ UNCHANGED <<redis, account, fresh, proved, guesses, orphans, arrivals, faults>>

\* the secret it has read is stored and the setup key deleted, whatever it holds now
WriteTOTP(p) ==
    /\ At(p, "write")
    /\ totp' = req[p].secret
    /\ setup' = IF req[p].kind = "enable" THEN None ELSE setup
    /\ Done(p)
    /\ UNCHANGED <<redis, account, fresh, proved, guesses, orphans, arrivals, faults>>

(***************************************************************************)
(* Time and failures.                                                      *)
(***************************************************************************)
\* a block outlives the counter that set it: both last as long, the counter
\* from the first failure, the block from the last.  No request lasts as long.
KeyExpires(k) ==
    /\ k \in expiry
    /\ Delete({k})
    /\ block' = [block EXCEPT ![k] = IF @ = "fresh" THEN "stale" ELSE @]
    /\ UNCHANGED <<kinds, account, req, second, arrivals, faults>>

BlockExpires(k) ==
    /\ block[k] = "stale" \/ (block[k] = "fresh" /\ k \in orphans)
    /\ block' = [block EXCEPT ![k] = "none"]
    /\ UNCHANGED <<kinds, counter, expiry, account, req, second, guesses, orphans, arrivals, faults>>

SetupExpires ==
    /\ setup # None
    /\ setup' = None
    /\ UNCHANGED <<redis, account, req, totp, fresh, proved, guesses, orphans, arrivals, faults>>

\* A Redis call fails and the request is answered 503, or it dies: a counter
\* that was just made has no expiry.  An administrator's login records the
\* failure in memory instead, where nothing reads it as long as there is Redis.
RequestFails(p) ==
    /\ ~At(p, "idle") /\ Fault
    /\ orphans' = IF At(p, "expire") /\ Head(req[p].todo) \notin expiry
                     /\ counter[Head(req[p].todo)] > 0
                  THEN orphans \cup {Head(req[p].todo)} ELSE orphans
    /\ Done(p)
    /\ UNCHANGED <<redis, account, second, guesses, arrivals>>

\* reading the blocks fails: an administrator's login goes on
BlockUnread(p) ==
    /\ At(p, "check") /\ Admin(p) /\ Fault
    /\ Goto(p, "compare")
    /\ UNCHANGED <<redis, account, second, guesses, orphans, arrivals>>

Step(p) ==
    \/ Incr(p) \/ Expire(p) \/ SetBlock(p) \/ Check(p) \/ Compare(p) \/ VerifyCode(p)
    \/ ClearPairFailure(p) \/ InsertUser(p) \/ WriteTOTP(p)

Next ==
    \/ \E p \in Requests :
          \/ \E kind \in kinds, ip \in Ips, who \in Emails : Arrive(p, kind, ip, who)
          \/ Step(p) \/ RequestFails(p) \/ BlockUnread(p)
          \/ EnableTOTP(p)
          \/ DisableTOTP(p)
    \/ \E s \in Secrets : SetupTOTP(s)
    \/ \E k \in Keys : KeyExpires(k) \/ BlockExpires(k)
    \/ SetupExpires

Spec == Init /\ [][Next]_vars

-----------------------------------------------------------------------------
TypeOK ==
    /\ kinds \in Traffic
    /\ counter \in [Keys -> Nat] /\ expiry \subseteq Keys
    /\ block \in [Keys -> {"none", "fresh", "stale"}]
    /\ account \in [Emails -> {"active", None}]
    /\ req \in [Requests -> Request]
    /\ totp \in Secrets \cup {None} /\ setup \in Secrets \cup {None}
    /\ fresh \subseteq Secrets /\ proved \subseteq Secrets
    /\ guesses \in [Keys -> Nat] /\ orphans \subseteq Keys
    /\ arrivals \in 0..MaxArrivals /\ faults \in 0..MaxFaults

\* A counter expires: it has an expiry, or the request that made it is about to
\* set one.  The exception is the request that fails in between: its counter
\* stays, and once it reaches the limit it refuses for ever.
CountersExpire ==
    \A k \in Keys :
        counter[k] > 0 =>
            \/ k \in expiry
            \/ \E p \in Requests : At(p, "expire") /\ Head(req[p].todo) = k
            \/ k \in orphans

\* The wrong passwords of a client and an account, as long as their counter
\* lives, stay below the limit but for those concurrent requests let through
\* together and for failures that were not recorded.  A counter without an
\* expiry outlives the blocks it sets.
Pairs == {k \in Keys : k[1] \in {"fail.pair", "admin.pair"}}
GuessesAreBounded ==
    \A k \in Pairs \ orphans :
        guesses[k] <= LimitOf(k) + (Cardinality(Requests) - 1) + faults

\* The second factor is never a secret nobody has shown a code for.
EnabledSecretIsProved == totp # None => totp \in proved
=============================================================================
