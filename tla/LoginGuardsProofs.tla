-------------------------- MODULE LoginGuardsProofs --------------------------
(***************************************************************************)
(* The counters in Redis, the logins they guard and the second factor, for *)
(* every number of requests, every mix of kinds and every limit.           *)
(*                                                                         *)
(* The bound on the wrong passwords of a pair needs to know where each of  *)
(* them is: in the counter, with a request that has still to count it, or  *)
(* lost with a request that failed (Accounted).  A login of a user reads   *)
(* the counter itself; that of an administrator reads a block instead,     *)
(* which somebody has set, or is about to set, or has failed to set once   *)
(* the counter is at the limit (BlockFollows).  So whoever passes the      *)
(* guard finds the guesses at most as many below the limit as others are   *)
(* under way, and Promised adds those that have passed it already.         *)
(*                                                                         *)
(* The second part is about an instance of RefreshTokens and uses nothing  *)
(* of the first.                                                           *)
(***************************************************************************)
EXTENDS LoginGuards, Integers, FiniteSetTheorems, SequenceTheorems, TLAPS

Looping == {"incr", "expire", "block"}
LoggingIn == {"check", "compare", "code", "clear"}

\* What a request carries at each place, when a code was shown for the secrets P.
SoundFor(r, P) ==
    /\ r \in Request
    /\ r.pc \in Looping \cup LoggingIn =>
          r.kind \in kinds \ {"enable", "disable"} /\ r.ip \in Ips /\ r.who \in Emails
    /\ r.pc \in Looping => r.todo # <<>>
    /\ r.pc \in LoggingIn \/ r.failing => r.kind \in {"login", "admin"}
    /\ r.pc = "insert" => r.who \in Emails
    /\ \A i \in DOMAIN r.todo : r.todo[i][1] = "admin.pair" => r.kind = "admin"
    /\ r.pc = "write" => r.secret \in P \cup {None}

Sound(r) == SoundFor(r, proved)
Requested == \A p \in Requests : Sound(req[p])

\* The pair a login is counted against.
PairOf(r) == Head(FailureRules(r.kind, r.ip, r.who))

\* Requests that have passed the guard of the pair k, that have guessed wrong and have
\* not counted it, and that are to block it.
IsGuessing(r, k) == r.pc \in {"compare", "code"} /\ PairOf(r) = k
IsOwing(r, k) == r.pc = "incr" /\ r.failing /\ Head(r.todo) = k
IsBlocking(r, k) ==
    (r.pc = "block" \/ (r.pc = "expire" /\ LimitOf(k) = 1)) /\ Head(r.todo) = k

Guessing(k) == {p \in Requests : IsGuessing(req[p], k)}
Owing(k) == {p \in Requests : IsOwing(req[p], k)}
Blocking(k) == {p \in Requests : IsBlocking(req[p], k)}

Accounted(k) == guesses[k] <= counter[k] + Cardinality(Owing(k)) + faults

BlockFollows(k) ==
    k[1] = "admin.pair" /\ k \notin orphans /\ block[k] # "fresh" =>
       guesses[k] <= (LimitOf(k) - 1) + Cardinality(Owing(k)) + Cardinality(Blocking(k)) + faults

Promised(k) ==
    k \notin orphans =>
       guesses[k] + Cardinality(Guessing(k)) <= LimitOf(k) + (Cardinality(Requests) - 1) + faults

Bounded == \A k \in Pairs : Accounted(k) /\ BlockFollows(k) /\ Promised(k)

IInv == TypeOK /\ Requested /\ CountersExpire /\ Bounded /\ EnabledSecretIsProved

-----------------------------------------------------------------------------
(***************************************************************************)
(* The rules.                                                              *)
(***************************************************************************)

\* The keys of a request of a kind that arrives, and of the failures of a login.
LEMMA RulesAreKeys ==
    ASSUME TypeOK, NEW kind \in kinds, NEW ip \in Ips, NEW who \in Emails
    PROVE  /\ RequestRules(kind, ip, who) \in Seq(Keys)
           /\ kind \in {"login", "admin"} => FailureRules(kind, ip, who) \in Seq(Keys)
<1>1. kind \in UNION Traffic /\ kind \in AllKinds
  BY GuardAssumption DEF TypeOK
<1> DEFINE KeysOf(x, i, w) ==
              Elements(RequestRules(x, i, w)) \cup
                 (IF x \in {"login", "admin"} THEN Elements(FailureRules(x, i, w)) ELSE {})
<1>2. KeysOf(kind, ip, who) \subseteq Keys
  <2> HIDE DEF KeysOf
  <2>1. KeysOf(kind, ip, who) \in {KeysOf(x, i, w) : x \in UNION Traffic, i \in Ips, w \in Emails}
    BY <1>1
  <2>2. Keys = UNION {KeysOf(x, i, w) : x \in UNION Traffic, i \in Ips, w \in Emails}
    BY DEF Keys, KeysOf
  <2> QED BY <2>1, <2>2
<1>3. /\ Elements(RequestRules(kind, ip, who)) \subseteq Keys
      /\ kind \in {"login", "admin"} => Elements(FailureRules(kind, ip, who)) \subseteq Keys
  BY <1>2
<1>4. /\ <<>> \in Seq(Keys)
      /\ \A a, b, c \in Keys : <<a>> \in Seq(Keys) /\ <<a, b>> \in Seq(Keys) /\ <<a, b, c>> \in Seq(Keys)
  OBVIOUS
<1>5. RequestRules(kind, ip, who) \in Seq(Keys)
  <2>1. CASE kind = "register"
    <3>1. RequestRules(kind, ip, who) = RegisterRules(ip, who)
      BY <2>1 DEF RequestRules
    <3> QED BY <3>1, <1>3, <1>4 DEF RegisterRules, Elements
  <2>2. CASE kind = "login"
    <3>1. RequestRules(kind, ip, who) = LoginRules(ip, who)
      BY <2>2 DEF RequestRules
    <3> QED BY <3>1, <1>3, <1>4 DEF LoginRules, Elements
  <2>3. CASE kind = "refresh"
    <3>1. RequestRules(kind, ip, who) = RefreshRules(ip, who)
      BY <2>3 DEF RequestRules
    <3> QED BY <3>1, <1>3, <1>4 DEF RefreshRules, Elements
  <2>4. CASE kind = "redeem"
    <3>1. RequestRules(kind, ip, who) = RedeemRules(ip, who)
      BY <2>4 DEF RequestRules
    <3> QED BY <3>1, <1>3, <1>4 DEF RedeemRules, Elements
  <2>5. CASE kind = "read"
    <3>1. RequestRules(kind, ip, who) = ReadRules(ip, who)
      BY <2>5 DEF RequestRules
    <3> QED BY <3>1, <1>3, <1>4 DEF ReadRules, Elements
  <2>6. CASE kind = "provision"
    <3>1. RequestRules(kind, ip, who) = ProvisionRules(who)
      BY <2>6 DEF RequestRules
    <3> QED BY <3>1, <1>3, <1>4 DEF ProvisionRules, Elements
  <2>7. CASE kind \in {"admin", "enable", "disable"}
    <3>1. RequestRules(kind, ip, who) = <<>>
      BY <2>7 DEF RequestRules
    <3> QED BY <3>1, <1>4
  <2> QED BY <1>1, <2>1, <2>2, <2>3, <2>4, <2>5, <2>6, <2>7 DEF AllKinds
<1>6. kind \in {"login", "admin"} => FailureRules(kind, ip, who) \in Seq(Keys)
  BY <1>3, <1>4 DEF FailureRules, Elements, AdminFailureRules, LoginFailureRules
<1> QED BY <1>5, <1>6

\* Only the failures of an administrator's login count against an administrator's pair, and the
\* pair comes first.
LEMMA RulesOfPairs ==
    ASSUME NEW kind \in AllKinds, NEW ip, NEW who
    PROVE  /\ \A i \in DOMAIN RequestRules(kind, ip, who) :
                 RequestRules(kind, ip, who)[i][1] # "admin.pair"
           /\ \A i \in DOMAIN FailureRules(kind, ip, who) :
                 /\ FailureRules(kind, ip, who)[i][1] = "admin.pair" => kind = "admin"
                 /\ FailureRules(kind, ip, who)[i][1] \in {"fail.pair", "admin.pair"} =>
                       FailureRules(kind, ip, who)[i] = Head(FailureRules(kind, ip, who))
           /\ FailureRules(kind, ip, who) # <<>>
           /\ Head(FailureRules(kind, ip, who)) \in Elements(FailureRules(kind, ip, who))
           /\ Head(FailureRules(kind, ip, who))[1] = IF kind = "admin" THEN "admin.pair" ELSE "fail.pair"
<1>1. \A i \in DOMAIN RequestRules(kind, ip, who) :
         RequestRules(kind, ip, who)[i][1] # "admin.pair"
  BY DEF RequestRules, RegisterRules, LoginRules, RefreshRules, RedeemRules, ReadRules,
         ProvisionRules
<1>2. CASE kind = "admin"
  BY <1>1, <1>2 DEF FailureRules, AdminFailureRules, Elements
<1>3. CASE kind # "admin"
  BY <1>1, <1>3 DEF FailureRules, LoginFailureRules, Elements
<1> QED BY <1>2, <1>3

\* A pair is a key whose limit is a positive number.
LEMMA PairLimit ==
    ASSUME NEW k \in Pairs
    PROVE  k \in Keys /\ LimitOf(k) \in Nat \ {0}
BY GuardAssumption DEF Pairs, LimitOf, Scopes

-----------------------------------------------------------------------------
(***************************************************************************)
(* Counting requests.                                                      *)
(***************************************************************************)

\* A request that moves joins a set, or leaves it.
LEMMA CountMoved ==
    ASSUME NEW R, IsFiniteSet(R), NEW S \in SUBSET R, NEW T \in SUBSET R, NEW p \in R,
           S \ {p} = T \ {p}
    PROVE  /\ Cardinality(S) \in Nat /\ Cardinality(T) \in Nat
           /\ p \in S /\ p \notin T => Cardinality(S) = Cardinality(T) + 1
           /\ p \notin S /\ p \in T => Cardinality(T) = Cardinality(S) + 1
           /\ (p \in S <=> p \in T) => Cardinality(S) = Cardinality(T)
<1>1. IsFiniteSet(S) /\ IsFiniteSet(T)
  BY FS_Subset
<1>2. Cardinality(S) \in Nat /\ Cardinality(T) \in Nat
  BY <1>1, FS_CardinalityType
<1>3. ASSUME p \in S, p \notin T PROVE Cardinality(S) = Cardinality(T) + 1
  <2>1. S = T \cup {p}
    BY <1>3
  <2> QED BY <2>1, <1>1, <1>3, FS_AddElement
<1>4. ASSUME p \notin S, p \in T PROVE Cardinality(T) = Cardinality(S) + 1
  <2>1. T = S \cup {p}
    BY <1>4
  <2> QED BY <2>1, <1>1, <1>4, FS_AddElement
<1>5. ASSUME p \in S <=> p \in T PROVE S = T
  BY <1>5
<1> QED BY <1>2, <1>3, <1>4, <1>5

\* Three sets of requests that have none in common are no more than there are requests.
LEMMA CountDisjoint ==
    ASSUME NEW R, IsFiniteSet(R), NEW S \in SUBSET R, NEW T \in SUBSET R, NEW U \in SUBSET R,
           S \cap T = {}, (S \cup T) \cap U = {}
    PROVE  Cardinality(S) + Cardinality(T) + Cardinality(U) <= Cardinality(R)
<1>1. IsFiniteSet(S) /\ IsFiniteSet(T) /\ IsFiniteSet(U) /\ IsFiniteSet(S \cup T)
  BY FS_Subset, FS_Union
<1>2. Cardinality(S \cup T) = Cardinality(S) + Cardinality(T) - Cardinality(S \cap T)
  BY <1>1, FS_Union
<1>3. Cardinality((S \cup T) \cup U)
        = Cardinality(S \cup T) + Cardinality(U) - Cardinality((S \cup T) \cap U)
  BY <1>1, FS_Union
<1>4. Cardinality(S \cap T) = 0 /\ Cardinality((S \cup T) \cap U) = 0
  BY FS_EmptySet
<1>5. Cardinality((S \cup T) \cup U) <= Cardinality(R)
  <2>1. (S \cup T) \cup U \subseteq R
    OBVIOUS
  <2> QED BY <2>1, FS_Subset
<1>6. Cardinality(S) \in Nat /\ Cardinality(T) \in Nat /\ Cardinality(U) \in Nat
      /\ Cardinality(R) \in Nat /\ Cardinality(S \cup T) \in Nat
  BY <1>1, FS_CardinalityType
<1> QED BY <1>2, <1>3, <1>4, <1>5, <1>6

-----------------------------------------------------------------------------
(***************************************************************************)
(* One request moves.                                                      *)
(***************************************************************************)
Moves(p, r) == req' = [req EXCEPT ![p] = r]

\* The request after a rule, and after the comparison with the limit.
Advanced(r) ==
    IF Len(r.todo) > 1 THEN [r EXCEPT !.todo = Tail(r.todo), !.pc = "incr"]
    ELSE IF r.failing \/ AfterLimits(r.kind) = "idle" THEN Idle
    ELSE [r EXCEPT !.todo = <<>>, !.pc = AfterLimits(r.kind)]

After(r, n) ==
    IF r.kind = "admin" THEN IF n >= LimitOf(Head(r.todo)) THEN [r EXCEPT !.pc = "block"] ELSE Advanced(r)
    ELSE IF n > LimitOf(Head(r.todo)) THEN Idle ELSE Advanced(r)

\* Nothing is left of a request that is over.
LEMMA IdleIsSound ==
    /\ Sound(Idle) /\ Idle.pc = "idle"
    /\ \A k : ~IsGuessing(Idle, k) /\ ~IsOwing(Idle, k) /\ ~IsBlocking(Idle, k)
<1>1. Idle \in Request
  BY DEF Idle, Request, PC
<1>2. Idle.pc = "idle" /\ Idle.todo = <<>> /\ Idle.failing = FALSE
  BY DEF Idle
<1> QED BY <1>1, <1>2 DEF Sound, SoundFor, Looping, LoggingIn, IsGuessing, IsOwing, IsBlocking

\* The next rule finds the request as sound as the last one did; a request in the loop
\* has not passed a guard and blocks nothing.
LEMMA AdvancedIsSound ==
    ASSUME NEW r, Sound(r), r.pc \in Looping
    PROVE  /\ Sound(Advanced(r))
           /\ \A k : ~IsGuessing(Advanced(r), k) /\ ~IsBlocking(Advanced(r), k)
           /\ Advanced(r).pc # "expire"
<1>1. /\ r \in Request /\ r.todo \in Seq(Keys) /\ r.todo # <<>>
      /\ r.kind \in kinds \ {"enable", "disable"} /\ r.ip \in Ips /\ r.who \in Emails
  BY DEF Sound, SoundFor, Request
<1>2. CASE Len(r.todo) > 1
  <2>1. Advanced(r) = [r EXCEPT !.todo = Tail(r.todo), !.pc = "incr"]
    BY <1>2 DEF Advanced
  <2>2. /\ Tail(r.todo) \in Seq(Keys) /\ Tail(r.todo) # <<>>
        /\ \A i \in DOMAIN Tail(r.todo) : i + 1 \in DOMAIN r.todo /\ Tail(r.todo)[i] = r.todo[i + 1]
    <3>1. /\ Tail(r.todo) \in Seq(Keys) /\ Len(Tail(r.todo)) = Len(r.todo) - 1
          /\ \A i \in 1 .. Len(Tail(r.todo)) : Tail(r.todo)[i] = r.todo[i + 1]
      BY <1>1, HeadTailProperties
    <3>2. /\ DOMAIN r.todo = 1 .. Len(r.todo) /\ Len(r.todo) \in Nat
          /\ DOMAIN Tail(r.todo) = 1 .. Len(Tail(r.todo))
      BY <1>1, <3>1, LenProperties
    <3>3. Tail(r.todo) # <<>>
      <4> DEFINE n == Len(r.todo)
                 m == Len(Tail(r.todo))
      <4>0. n \in Nat /\ n > 1 /\ m = n - 1
        BY <1>2, <3>1, <3>2
      <4> HIDE DEF n, m
      <4>1. m # 0
        BY <4>0
      <4> QED BY <4>1, <3>1, EmptySeq DEF m
    <3> QED BY <1>2, <3>1, <3>2, <3>3
  <2>3. Advanced(r) \in Request
    BY <2>1, <2>2, <1>1 DEF Request, PC
  <2>4. /\ Advanced(r).pc = "incr" /\ Advanced(r).todo = Tail(r.todo) /\ Advanced(r).kind = r.kind
        /\ Advanced(r).ip = r.ip /\ Advanced(r).who = r.who /\ Advanced(r).failing = r.failing
    BY <2>1, <1>1 DEF Request
  <2> HIDE DEF Advanced
  <2> QED BY <2>2, <2>3, <2>4, <1>1 DEF Sound, SoundFor, Looping, LoggingIn, IsGuessing, IsBlocking
<1>3. CASE ~(Len(r.todo) > 1) /\ (r.failing \/ AfterLimits(r.kind) = "idle")
  <2>1. Advanced(r) = Idle
    BY <1>3 DEF Advanced
  <2> QED BY <2>1, IdleIsSound
<1>4. CASE ~(Len(r.todo) > 1) /\ ~r.failing /\ AfterLimits(r.kind) # "idle"
  <2>1. Advanced(r) = [r EXCEPT !.todo = <<>>, !.pc = AfterLimits(r.kind)]
    BY <1>4 DEF Advanced
  <2>2. \/ r.kind \in {"login", "admin"} /\ AfterLimits(r.kind) = "check"
        \/ r.kind = "register" /\ AfterLimits(r.kind) = "insert"
    BY <1>4 DEF AfterLimits
  <2>3. Advanced(r) \in Request
    <3>1. AfterLimits(r.kind) \in PC /\ <<>> \in Seq(Keys)
      BY <2>2 DEF PC
    <3> QED BY <2>1, <3>1, <1>1 DEF Request
  <2>4. /\ Advanced(r).pc = AfterLimits(r.kind) /\ Advanced(r).todo = <<>> /\ Advanced(r).kind = r.kind
        /\ Advanced(r).ip = r.ip /\ Advanced(r).who = r.who /\ Advanced(r).failing = FALSE
    BY <2>1, <1>1, <1>4 DEF Request
  <2> HIDE DEF Advanced
  <2> QED BY <2>2, <2>3, <2>4, <1>1 DEF Sound, SoundFor, Looping, LoggingIn, IsGuessing, IsBlocking
<1> QED BY <1>2, <1>3, <1>4

\* A counter that reached the limit sends an administrator's login to the block.
LEMMA AfterIsSound ==
    ASSUME NEW r, Sound(r), r.pc \in {"incr", "expire"}, NEW n \in Nat \ {0}
    PROVE  /\ Sound(After(r, n))
           /\ \A k : ~IsGuessing(After(r, n), k)
           /\ After(r, n).pc # "expire"
           /\ r.kind = "admin" /\ n >= LimitOf(Head(r.todo)) => IsBlocking(After(r, n), Head(r.todo))
<1>1. Sound(Advanced(r)) /\ \A k : ~IsGuessing(Advanced(r), k) /\ Advanced(r).pc # "expire"
  BY AdvancedIsSound DEF Looping
<1>2. CASE r.kind = "admin" /\ n >= LimitOf(Head(r.todo))
  <2>1. After(r, n) = [r EXCEPT !.pc = "block"]
    BY <1>2 DEF After
  <2>2. After(r, n) \in Request
    BY <2>1 DEF Sound, SoundFor, Request, PC
  <2>3. /\ After(r, n).pc = "block" /\ After(r, n).todo = r.todo /\ After(r, n).kind = r.kind
        /\ After(r, n).ip = r.ip /\ After(r, n).who = r.who /\ After(r, n).failing = r.failing
    BY <2>1 DEF Sound, SoundFor, Request
  <2> HIDE DEF After
  <2> QED BY <2>2, <2>3 DEF Sound, SoundFor, Looping, LoggingIn, IsGuessing, IsBlocking
<1>3. CASE ~(r.kind = "admin" /\ n >= LimitOf(Head(r.todo)))
  BY <1>1, <1>3, IdleIsSound DEF After
<1> QED BY <1>2, <1>3

\* What Compared, Advance, Goto and Done do to the request.
LEMMA WhatMoves ==
    ASSUME TypeOK, NEW p \in Requests
    PROVE  /\ \A n : Compared(p, n) => Moves(p, After(req[p], n))
           /\ Advance(p) => Moves(p, Advanced(req[p]))
           /\ \A pc : Goto(p, pc) => Moves(p, [req[p] EXCEPT !.pc = pc])
           /\ Done(p) => Moves(p, Idle)
<1>1. /\ Advance(p) => Moves(p, Advanced(req[p]))
      /\ \A pc : Goto(p, pc) => Moves(p, [req[p] EXCEPT !.pc = pc])
      /\ Done(p) => Moves(p, Idle)
  BY DEF Advance, Goto, Done, Moves, Advanced, TypeOK
<1>2. ASSUME NEW n, Compared(p, n) PROVE Moves(p, After(req[p], n))
  BY <1>1, <1>2 DEF Compared, After, Admin
<1> QED BY <1>1, <1>2

\* The others stay as they are.
LEMMA RequestedMoves ==
    ASSUME TypeOK, Requested, NEW p \in Requests, NEW r, Moves(p, r), SoundFor(r, proved'),
           kinds' = kinds, proved \subseteq proved'
    PROVE  Requested' /\ req' \in [Requests -> Request]
<1>1. r \in Request
  BY DEF Sound, SoundFor
<1>2. ASSUME NEW q \in Requests PROVE Sound(req[q])'
  <2>1. CASE q = p
    <3>1. req'[q] = r
      BY <2>1 DEF Moves, TypeOK
    <3> QED BY <3>1 DEF Sound, SoundFor
  <2>2. CASE q # p
    <3>1. req'[q] = req[q]
      BY <2>2 DEF Moves, TypeOK
    <3> QED BY <3>1 DEF Requested, Sound, SoundFor
  <2> QED BY <2>1, <2>2
<1> QED BY <1>1, <1>2 DEF Requested, Moves, TypeOK

\* What a move of p does to a set S of requests that becomes T.
Counted(S, T, was, is) ==
    /\ Cardinality(S) \in Nat /\ Cardinality(T) \in Nat
    /\ was /\ ~is => Cardinality(S) = Cardinality(T) + 1
    /\ ~was /\ is => Cardinality(T) = Cardinality(S) + 1
    /\ (was <=> is) => Cardinality(S) = Cardinality(T)

LEMMA CountsMove ==
    ASSUME TypeOK, NEW p \in Requests, NEW r, Moves(p, r), NEW k
    PROVE  /\ Counted(Guessing(k), Guessing(k)', IsGuessing(req[p], k), IsGuessing(r, k))
           /\ Counted(Owing(k), Owing(k)', IsOwing(req[p], k), IsOwing(r, k))
           /\ Counted(Blocking(k), Blocking(k)', IsBlocking(req[p], k), IsBlocking(r, k))
<1>0. IsFiniteSet(Requests) /\ req'[p] = r /\ \A q \in Requests \ {p} : req'[q] = req[q]
  BY GuardAssumption DEF Moves, TypeOK
<1>1. Counted(Guessing(k), Guessing(k)', IsGuessing(req[p], k), IsGuessing(r, k))
  <2>1. /\ Guessing(k)' = {q \in Requests : IsGuessing(req'[q], k)}
        /\ Guessing(k) \in SUBSET Requests
    BY DEF Guessing, IsGuessing
  <2>2. /\ Guessing(k) \ {p} = Guessing(k)' \ {p} /\ Guessing(k)' \in SUBSET Requests
        /\ p \in Guessing(k) <=> IsGuessing(req[p], k)
        /\ p \in Guessing(k)' <=> IsGuessing(r, k)
    BY <1>0, <2>1 DEF Guessing, IsGuessing
  <2> QED BY <1>0, <2>1, <2>2, CountMoved DEF Counted
<1>2. Counted(Owing(k), Owing(k)', IsOwing(req[p], k), IsOwing(r, k))
  <2>1. /\ Owing(k)' = {q \in Requests : IsOwing(req'[q], k)}
        /\ Owing(k) \in SUBSET Requests
    BY DEF Owing, IsOwing
  <2>2. /\ Owing(k) \ {p} = Owing(k)' \ {p} /\ Owing(k)' \in SUBSET Requests
        /\ p \in Owing(k) <=> IsOwing(req[p], k)
        /\ p \in Owing(k)' <=> IsOwing(r, k)
    BY <1>0, <2>1 DEF Owing, IsOwing
  <2> QED BY <1>0, <2>1, <2>2, CountMoved DEF Counted
<1>3. Counted(Blocking(k), Blocking(k)', IsBlocking(req[p], k), IsBlocking(r, k))
  <2>1. /\ Blocking(k)' = {q \in Requests : IsBlocking(req'[q], k)}
        /\ Blocking(k) \in SUBSET Requests
    BY DEF Blocking, IsBlocking
  <2>2. /\ Blocking(k) \ {p} = Blocking(k)' \ {p} /\ Blocking(k)' \in SUBSET Requests
        /\ p \in Blocking(k) <=> IsBlocking(req[p], k)
        /\ p \in Blocking(k)' <=> IsBlocking(r, k)
    BY <1>0, <2>1 DEF Blocking, IsBlocking
  <2> QED BY <1>0, <2>1, <2>2, CountMoved DEF Counted
<1> QED BY <1>1, <1>2, <1>3

\* Whoever reads the guard is not among those who have passed it or are counting.
LEMMA RoomForOneMore ==
    ASSUME NEW p \in Requests, NEW k, req[p].pc = "check"
    PROVE  Cardinality(Guessing(k)) + Cardinality(Owing(k)) + Cardinality(Blocking(k)) + 1
             <= Cardinality(Requests)
<1>1. IsFiniteSet(Requests) /\ IsFiniteSet(Requests \ {p})
      /\ Cardinality(Requests \ {p}) = Cardinality(Requests) - 1
  BY GuardAssumption, FS_RemoveElement
<1>2. /\ Guessing(k) \in SUBSET (Requests \ {p}) /\ Owing(k) \in SUBSET (Requests \ {p})
      /\ Blocking(k) \in SUBSET (Requests \ {p})
      /\ Guessing(k) \cap Owing(k) = {} /\ (Guessing(k) \cup Owing(k)) \cap Blocking(k) = {}
  BY DEF Guessing, Owing, Blocking, IsGuessing, IsOwing, IsBlocking
<1>3. /\ Cardinality(Guessing(k)) \in Nat /\ Cardinality(Owing(k)) \in Nat
      /\ Cardinality(Blocking(k)) \in Nat /\ Cardinality(Requests) \in Nat
  BY <1>1, <1>2, FS_Subset, FS_CardinalityType
<1>4. Cardinality(Guessing(k)) + Cardinality(Owing(k)) + Cardinality(Blocking(k))
         <= Cardinality(Requests \ {p})
  BY <1>1, <1>2, CountDisjoint
<1> QED BY <1>1, <1>3, <1>4

\* A request that is over before it counts or blocks costs a fault; one that passes the
\* guard unread costs one too.
LEMMA BoundedMoves ==
    ASSUME TypeOK, Bounded, NEW p \in Requests, NEW r, Moves(p, r),
           guesses' = guesses, counter' = counter, block' = block, orphans \subseteq orphans',
           faults' \in Nat, faults' >= faults,
           \A k \in Pairs :
              /\ IsGuessing(r, k) => IsGuessing(req[p], k) \/ faults' > faults
              /\ IsOwing(req[p], k) => IsOwing(r, k) \/ faults' > faults
              /\ k[1] = "admin.pair" /\ IsBlocking(req[p], k) => IsBlocking(r, k) \/ faults' > faults
    PROVE  Bounded'
<1> SUFFICES ASSUME NEW k \in Pairs PROVE (Accounted(k) /\ BlockFollows(k) /\ Promised(k))'
  BY DEF Bounded, Pairs
<1>1. /\ k \in Keys /\ LimitOf(k) \in Nat \ {0} /\ counter[k] \in Nat /\ guesses[k] \in Nat
      /\ faults \in Nat /\ Cardinality(Requests) \in Nat
  BY PairLimit, GuardAssumption, FS_CardinalityType DEF TypeOK
<1>2. /\ Counted(Guessing(k), Guessing(k)', IsGuessing(req[p], k), IsGuessing(r, k))
      /\ Counted(Owing(k), Owing(k)', IsOwing(req[p], k), IsOwing(r, k))
      /\ Counted(Blocking(k), Blocking(k)', IsBlocking(req[p], k), IsBlocking(r, k))
  BY CountsMove
<1>3. ~(IsOwing(req[p], k) /\ IsBlocking(req[p], k))
  BY DEF IsOwing, IsBlocking
<1>4. Accounted(k) /\ BlockFollows(k) /\ Promised(k)
  BY DEF Bounded
<1>5. Accounted(k)'
  BY <1>1, <1>2, <1>4 DEF Accounted, Counted
<1>6. BlockFollows(k)'
  BY <1>1, <1>2, <1>3, <1>4 DEF BlockFollows, Counted
<1>7. Promised(k)'
  BY <1>1, <1>2, <1>4 DEF Promised, Counted
<1> QED BY <1>5, <1>6, <1>7

\* Whoever leaves the place before EXPIRE leaves an expiry behind, an orphan or no counter.
LEMMA CountersMove ==
    ASSUME TypeOK, CountersExpire, NEW p \in Requests, NEW r, Moves(p, r),
           counter' = counter, expiry \subseteq expiry', orphans \subseteq orphans',
           At(p, "expire") /\ counter[Head(req[p].todo)] > 0 =>
              Head(req[p].todo) \in expiry' \cup orphans'
    PROVE  CountersExpire'
<1> SUFFICES ASSUME NEW k \in Keys, counter[k] > 0
             PROVE  k \in expiry' \/ (\E q \in Requests : At(q, "expire") /\ Head(req[q].todo) = k)'
                    \/ k \in orphans'
  BY DEF CountersExpire
<1>1. CASE k \in expiry \cup orphans
  BY <1>1
<1>2. CASE \E q \in Requests : At(q, "expire") /\ Head(req[q].todo) = k
  <2>1. PICK q \in Requests : At(q, "expire") /\ Head(req[q].todo) = k
    BY <1>2
  <2>2. CASE q = p
    BY <2>1, <2>2
  <2>3. CASE q # p
    <3>1. req'[q] = req[q]
      BY <2>3 DEF Moves, TypeOK
    <3> QED BY <2>1, <3>1 DEF At
  <2> QED BY <2>2, <2>3
<1> QED BY <1>1, <1>2 DEF CountersExpire

\* Steps that touch no counter, guess nothing and block nothing.
LEMMA QuietMoves ==
    ASSUME IInv, NEW p \in Requests, NEW r, Moves(p, r), SoundFor(r, proved'),
           UNCHANGED <<redis, guesses, orphans, faults>>, proved \subseteq proved',
           \A k \in Pairs : IsGuessing(r, k) => IsGuessing(req[p], k),
           ~(req[p].pc \in Looping)
    PROVE  Requested' /\ CountersExpire' /\ Bounded' /\ req' \in [Requests -> Request]
<1>1. faults \in Nat /\ faults' = faults /\ kinds' = kinds /\ counter' = counter /\ block' = block
      /\ guesses' = guesses /\ orphans' = orphans /\ expiry' = expiry
  BY GuardAssumption DEF IInv, TypeOK, redis
<1>2. Requested' /\ req' \in [Requests -> Request]
  BY <1>1, RequestedMoves DEF IInv
<1>3. CountersExpire'
  BY <1>1, CountersMove DEF IInv, Looping, At
<1>4. Bounded'
  <2>1. \A k : ~IsOwing(req[p], k) /\ ~IsBlocking(req[p], k)
    BY DEF IsOwing, IsBlocking, Looping
  <2> QED BY <1>1, <2>1, BoundedMoves DEF IInv
<1> QED BY <1>2, <1>3, <1>4

-----------------------------------------------------------------------------
(***************************************************************************)
(* The steps.                                                              *)
(***************************************************************************)
LEMMA ArriveKeeps ==
    ASSUME IInv, NEW p \in Requests, NEW kind \in kinds, NEW ip \in Ips, NEW who \in Emails,
           Arrive(p, kind, ip, who)
    PROVE  IInv'
<1> DEFINE rules == RequestRules(kind, ip, who)
           r == [Idle EXCEPT !.pc = IF rules = <<>> THEN AfterLimits(kind) ELSE "incr",
                             !.kind = kind, !.ip = ip, !.who = who, !.todo = rules]
<1>1. /\ Moves(p, r) /\ req[p].pc = "idle" /\ kind \notin {"enable", "disable"}
      /\ UNCHANGED <<redis, account, second, guesses, orphans, faults>>
      /\ arrivals < MaxArrivals /\ arrivals' = arrivals + 1
  BY DEF Arrive, Moves, At
<1>2. rules \in Seq(Keys) /\ kind \in AllKinds
      /\ \A i \in DOMAIN rules : rules[i][1] # "admin.pair"
  <2>1. kind \in AllKinds
    BY GuardAssumption DEF IInv, TypeOK
  <2> QED BY <2>1, RulesAreKeys, RulesOfPairs DEF IInv
<1>3. /\ r.kind = kind /\ r.ip = ip /\ r.who = who /\ r.todo = rules /\ r.failing = FALSE
      /\ r.pc = IF rules = <<>> THEN AfterLimits(kind) ELSE "incr"
      /\ r.secret = None
  BY DEF Idle
<1>4. /\ AfterLimits(kind) \in {"check", "insert", "idle"}
      /\ AfterLimits(kind) = "check" => kind \in {"login", "admin"}
  BY DEF AfterLimits
<1>5. r \in Request
  BY <1>2, <1>4 DEF Idle, Request, PC
<1> HIDE DEF rules, r
<1>6. SoundFor(r, proved')
  BY <1>1, <1>2, <1>3, <1>4, <1>5 DEF Sound, SoundFor, Looping, LoggingIn, redis
<1>7. \A k \in Pairs : ~IsGuessing(r, k)
  BY <1>3, <1>4 DEF IsGuessing
<1>8. Requested' /\ CountersExpire' /\ Bounded' /\ req' \in [Requests -> Request]
  BY <1>1, <1>6, <1>7, QuietMoves DEF second, Looping
<1>9. TypeOK'
  BY <1>1, <1>8, GuardAssumption DEF IInv, TypeOK, redis, second
<1> QED BY <1>1, <1>8, <1>9 DEF IInv, EnabledSecretIsProved, second

LEMMA DoneKeeps ==
    ASSUME IInv, NEW p \in Requests, Done(p), ~(req[p].pc \in Looping),
           UNCHANGED <<redis, guesses, orphans, faults>>, proved \subseteq proved'
    PROVE  Requested' /\ CountersExpire' /\ Bounded' /\ req' \in [Requests -> Request]
<1>1. Moves(p, Idle)
  BY WhatMoves DEF IInv
<1>2. SoundFor(Idle, proved') /\ \A k \in Pairs : ~IsGuessing(Idle, k)
  <2>1. Sound(Idle) /\ Idle.pc = "idle" /\ Idle.todo = <<>> /\ Idle.failing = FALSE
    BY IdleIsSound DEF Idle
  <2> QED BY <2>1, IdleIsSound DEF Sound, SoundFor, Looping, LoggingIn
<1> QED BY <1>1, <1>2, QuietMoves

\* The rule a request in the loop is at.
LEMMA HeadIsKey ==
    ASSUME IInv, NEW p \in Requests, req[p].pc \in Looping
    PROVE  /\ Sound(req[p]) /\ Head(req[p].todo) \in Keys
           /\ Head(req[p].todo)[1] = "admin.pair" => req[p].kind = "admin"
<1>1. Sound(req[p]) /\ req[p].todo \in Seq(Keys) /\ req[p].todo # <<>>
  BY DEF IInv, Requested, Sound, SoundFor, Request
<1>2. Head(req[p].todo) \in Keys /\ Head(req[p].todo) = req[p].todo[1] /\ 1 \in DOMAIN req[p].todo
  BY <1>1
<1> QED BY <1>1, <1>2 DEF Sound, SoundFor

\* One more in the counter, one less to be counted; at the limit an administrator's login is
\* on its way to the block.
LEMMA IncrKeeps ==
    ASSUME IInv, NEW p \in Requests, Incr(p)
    PROVE  IInv'
<1> DEFINE k == Head(req[p].todo)
           n == counter[k] + 1
           r == IF n = 1 THEN [req[p] EXCEPT !.pc = "expire"] ELSE After(req[p], n)
<1>1. /\ req[p].pc = "incr" /\ Sound(req[p]) /\ k \in Keys /\ counter[k] \in Nat /\ n \in Nat \ {0}
      /\ k[1] = "admin.pair" => req[p].kind = "admin"
  BY HeadIsKey DEF Incr, At, IInv, TypeOK, Looping
<1>2. /\ counter' = [counter EXCEPT ![k] = n]
      /\ UNCHANGED <<kinds, expiry, block, account, second, guesses, orphans, arrivals, faults>>
  BY DEF Incr
<1>3. Moves(p, r)
  BY WhatMoves DEF Incr, IInv
<1>4. /\ Sound(r) /\ \A x : ~IsGuessing(r, x)
      /\ n = 1 => r.pc = "expire" /\ r.todo = req[p].todo
      /\ n # 1 => /\ r.pc # "expire"
                  /\ req[p].kind = "admin" /\ n >= LimitOf(k) => IsBlocking(r, k)
  <2>1. CASE n = 1
    <3>1. r = [req[p] EXCEPT !.pc = "expire"]
      BY <2>1
    <3>2. r \in Request
      BY <3>1, <1>1 DEF Sound, SoundFor, Request, PC
    <3>3. /\ r.pc = "expire" /\ r.todo = req[p].todo /\ r.kind = req[p].kind
          /\ r.ip = req[p].ip /\ r.who = req[p].who /\ r.failing = req[p].failing
      BY <3>1, <1>1 DEF Sound, SoundFor, Request
    <3> HIDE DEF r
    <3> QED BY <2>1, <3>2, <3>3, <1>1 DEF Sound, SoundFor, Looping, LoggingIn, IsGuessing
  <2>2. CASE n # 1
    <3>1. r = After(req[p], n)
      BY <2>2
    <3> QED BY <2>2, <3>1, <1>1, AfterIsSound
  <2> QED BY <2>1, <2>2
<1> HIDE DEF r
<1>5. Requested' /\ req' \in [Requests -> Request]
  <2>1. SoundFor(r, proved')
    BY <1>2, <1>4 DEF Sound, SoundFor, second
  <2> QED BY <1>2, <1>3, <2>1, RequestedMoves DEF IInv, second
<1>6. CountersExpire'
  <2> SUFFICES ASSUME NEW x \in Keys, counter'[x] > 0
               PROVE  x \in expiry \/ (\E q \in Requests : At(q, "expire") /\ Head(req[q].todo) = x)'
                      \/ x \in orphans
    BY <1>2 DEF CountersExpire
  <2>1. CASE x = k /\ n = 1
    <3>1. req'[p] = r
      BY <1>3 DEF Moves, IInv, TypeOK
    <3> QED BY <2>1, <3>1, <1>4 DEF At
  <2>2. CASE ~(x = k /\ n = 1)
    <3>1. counter[x] > 0
      BY <2>2, <1>1, <1>2 DEF IInv, TypeOK
    <3>2. CASE \E q \in Requests : At(q, "expire") /\ Head(req[q].todo) = x
      <4>1. PICK q \in Requests : At(q, "expire") /\ Head(req[q].todo) = x
        BY <3>2
      <4>2. req'[q] = req[q]
        BY <1>1, <1>3, <4>1 DEF Moves, IInv, TypeOK, At
      <4> QED BY <4>1, <4>2 DEF At
    <3> QED BY <3>1, <3>2 DEF IInv, CountersExpire
  <2> QED BY <2>1, <2>2
<1>7. Bounded'
  <2> SUFFICES ASSUME NEW x \in Pairs PROVE (Accounted(x) /\ BlockFollows(x) /\ Promised(x))'
    BY DEF Bounded, Pairs
  <2>1. /\ x \in Keys /\ LimitOf(x) \in Nat \ {0} /\ counter[x] \in Nat /\ guesses[x] \in Nat
        /\ faults \in Nat /\ Cardinality(Requests) \in Nat
    BY PairLimit, GuardAssumption, FS_CardinalityType DEF IInv, TypeOK
  <2>2. /\ Counted(Guessing(x), Guessing(x)', IsGuessing(req[p], x), IsGuessing(r, x))
        /\ Counted(Owing(x), Owing(x)', IsOwing(req[p], x), IsOwing(r, x))
        /\ Counted(Blocking(x), Blocking(x)', IsBlocking(req[p], x), IsBlocking(r, x))
    BY <1>3, CountsMove DEF IInv
  <2>3. Accounted(x) /\ BlockFollows(x) /\ Promised(x)
    BY DEF IInv, Bounded
  <2>4. ~IsGuessing(req[p], x) /\ ~IsGuessing(r, x) /\ ~IsBlocking(req[p], x)
        /\ (IsOwing(req[p], x) => x = k)
    BY <1>1, <1>4 DEF IsGuessing, IsBlocking, IsOwing
  <2>5. /\ counter'[x] \in Nat /\ counter'[x] >= counter[x] /\ x = k => counter'[x] = n
        /\ n = counter[k] + 1
    BY <1>1, <1>2, <2>1 DEF IInv, TypeOK
  <2> HIDE DEF n
  <2>6. Accounted(x)'
    BY <1>2, <2>1, <2>2, <2>3, <2>4, <2>5 DEF Accounted, Counted
  <2>7. Promised(x)'
    BY <1>2, <2>1, <2>2, <2>3, <2>4 DEF Promised, Counted
  <2>8. BlockFollows(x)'
    <3>1. CASE ~IsOwing(req[p], x)
      BY <3>1, <1>2, <2>1, <2>2, <2>3, <2>4 DEF BlockFollows, Counted
    <3>2. CASE x = k /\ k[1] = "admin.pair" /\ n >= LimitOf(k)
      <4>1. IsBlocking(r, k)
        <5>1. CASE n = 1
          <6>1. LimitOf(k) = 1
            BY <3>2, <5>1, <2>1
          <6> QED BY <5>1, <6>1, <1>4 DEF IsBlocking
        <5> QED BY <5>1, <1>1, <1>4, <3>2
      <4> QED BY <4>1, <3>2, <1>2, <2>1, <2>2, <2>3, <2>4 DEF BlockFollows, Counted
    <3>3. CASE x = k /\ n < LimitOf(k)
      BY <3>3, <1>2, <2>1, <2>2, <2>5, <2>6 DEF BlockFollows, Accounted, Counted
    <3>4. n \in Nat
      BY <1>1
    <3> QED BY <3>1, <3>2, <3>3, <3>4, <2>1, <2>4 DEF BlockFollows
  <2> QED BY <2>6, <2>7, <2>8
<1>8. TypeOK'
  BY <1>1, <1>2, <1>5 DEF IInv, TypeOK, second
<1> QED BY <1>2, <1>5, <1>6, <1>7, <1>8 DEF IInv, EnabledSecretIsProved, second

LEMMA ExpireKeeps ==
    ASSUME IInv, NEW p \in Requests, Expire(p)
    PROVE  IInv'
<1> DEFINE k == Head(req[p].todo)
           r == After(req[p], 1)
<1>1. /\ req[p].pc = "expire" /\ Sound(req[p]) /\ k \in Keys
      /\ k[1] = "admin.pair" => req[p].kind = "admin"
  BY HeadIsKey DEF Expire, At, IInv, Looping
<1>2. /\ expiry' = IF counter[k] > 0 THEN expiry \cup {k} ELSE expiry
      /\ UNCHANGED <<kinds, counter, block, account, second, guesses, orphans, arrivals, faults>>
      /\ Moves(p, r)
  BY WhatMoves DEF Expire, IInv
<1>3. /\ Sound(r) /\ \A x : ~IsGuessing(r, x)
      /\ req[p].kind = "admin" /\ 1 >= LimitOf(k) => IsBlocking(r, k)
  BY <1>1, AfterIsSound
<1> HIDE DEF r
<1>4. Requested' /\ req' \in [Requests -> Request]
  <2>1. SoundFor(r, proved')
    BY <1>2, <1>3 DEF Sound, SoundFor, second
  <2> QED BY <1>2, <2>1, RequestedMoves DEF IInv, second
<1>5. CountersExpire'
  BY <1>2, CountersMove DEF IInv
<1>6. Bounded'
  <2>1. \A x \in Pairs :
           /\ ~IsOwing(req[p], x)
           /\ x[1] = "admin.pair" /\ IsBlocking(req[p], x) => IsBlocking(r, x)
    BY <1>1, <1>3, PairLimit DEF IsOwing, IsBlocking
  <2>2. /\ faults' \in Nat /\ faults' >= faults /\ orphans \subseteq orphans'
        /\ guesses' = guesses /\ counter' = counter /\ block' = block
    BY <1>2 DEF IInv, TypeOK
  <2>3. \A x \in Pairs :
           /\ IsGuessing(r, x) => IsGuessing(req[p], x) \/ faults' > faults
           /\ IsOwing(req[p], x) => IsOwing(r, x) \/ faults' > faults
           /\ x[1] = "admin.pair" /\ IsBlocking(req[p], x) => IsBlocking(r, x) \/ faults' > faults
    BY <1>3, <2>1
  <2>4. TypeOK /\ Bounded /\ Moves(p, r)
    BY <1>2 DEF IInv
  <2> QED BY <2>2, <2>3, <2>4, BoundedMoves
<1>7. TypeOK'
  BY <1>1, <1>2, <1>4 DEF IInv, TypeOK, second
<1> QED BY <1>2, <1>4, <1>5, <1>6, <1>7 DEF IInv, EnabledSecretIsProved, second

\* A block that is set while the counter is gone holds back nobody for its sake.
LEMMA SetBlockKeeps ==
    ASSUME IInv, NEW p \in Requests, SetBlock(p)
    PROVE  IInv'
<1> DEFINE k == Head(req[p].todo)
           r == Advanced(req[p])
<1>1. req[p].pc = "block" /\ Sound(req[p]) /\ k \in Keys
  BY HeadIsKey DEF SetBlock, At, IInv, Looping
<1>2. /\ block' = [block EXCEPT ![k] = IF counter[k] > 0 THEN "fresh" ELSE "stale"]
      /\ UNCHANGED <<kinds, counter, expiry, account, second, guesses, orphans, arrivals, faults>>
      /\ Moves(p, r)
  BY WhatMoves DEF SetBlock, IInv
<1>3. Sound(r) /\ \A x : ~IsGuessing(r, x) /\ ~IsBlocking(r, x)
  BY <1>1, AdvancedIsSound DEF Looping
<1> HIDE DEF r
<1>4. Requested' /\ req' \in [Requests -> Request]
  <2>1. SoundFor(r, proved')
    BY <1>2, <1>3 DEF Sound, SoundFor, second
  <2> QED BY <1>2, <2>1, RequestedMoves DEF IInv, second
<1>5. CountersExpire'
  BY <1>1, <1>2, CountersMove DEF IInv, At
<1>6. Bounded'
  <2> SUFFICES ASSUME NEW x \in Pairs PROVE (Accounted(x) /\ BlockFollows(x) /\ Promised(x))'
    BY DEF Bounded, Pairs
  <2>1. /\ x \in Keys /\ LimitOf(x) \in Nat \ {0} /\ counter[x] \in Nat /\ guesses[x] \in Nat
        /\ faults \in Nat /\ Cardinality(Requests) \in Nat
    BY PairLimit, GuardAssumption, FS_CardinalityType DEF IInv, TypeOK
  <2>2. /\ Counted(Guessing(x), Guessing(x)', IsGuessing(req[p], x), IsGuessing(r, x))
        /\ Counted(Owing(x), Owing(x)', IsOwing(req[p], x), IsOwing(r, x))
        /\ Counted(Blocking(x), Blocking(x)', IsBlocking(req[p], x), IsBlocking(r, x))
    BY <1>2, CountsMove DEF IInv
  <2>3. Accounted(x) /\ BlockFollows(x) /\ Promised(x)
    BY DEF IInv, Bounded
  <2>4. ~IsGuessing(req[p], x) /\ ~IsGuessing(r, x) /\ ~IsOwing(req[p], x)
        /\ (IsBlocking(req[p], x) => x = k)
    BY <1>1, <1>3 DEF IsGuessing, IsBlocking, IsOwing
  <2>5. Accounted(x)'
    BY <1>2, <2>1, <2>2, <2>3, <2>4 DEF Accounted, Counted
  <2>6. Promised(x)'
    BY <1>2, <2>1, <2>2, <2>3, <2>4 DEF Promised, Counted
  <2>7. BlockFollows(x)'
    <3>1. CASE x # k
      <4>1. block'[x] = block[x]
        BY <3>1, <1>2, <2>1 DEF IInv, TypeOK
      <4> QED BY <3>1, <4>1, <1>2, <1>3, <2>1, <2>2, <2>3, <2>4 DEF BlockFollows, Counted
    <3>2. CASE x = k /\ counter[k] > 0
      <4>1. block'[x] = "fresh"
        BY <3>2, <1>2, <2>1 DEF IInv, TypeOK
      <4> QED BY <4>1 DEF BlockFollows
    <3>3. CASE x = k /\ counter[k] = 0
      BY <3>3, <1>2, <2>1, <2>2, <2>5 DEF BlockFollows, Accounted, Counted
    <3> QED BY <3>1, <3>2, <3>3, <2>1
  <2> QED BY <2>5, <2>6, <2>7
<1>7. TypeOK'
  BY <1>1, <1>2, <1>4 DEF IInv, TypeOK, second
<1> QED BY <1>2, <1>4, <1>5, <1>6, <1>7 DEF IInv, EnabledSecretIsProved, second

\* A login at any place between its limits and its end.
LEMMA LoginIsKnown ==
    ASSUME IInv, NEW p \in Requests, req[p].pc \in LoggingIn
    PROVE  /\ Sound(req[p])
           /\ FailureRules(req[p].kind, req[p].ip, req[p].who) \in Seq(Keys)
           /\ PairOf(req[p]) \in Pairs
           /\ PairOf(req[p]) \in Elements(FailureRules(req[p].kind, req[p].ip, req[p].who))
           /\ PairOf(req[p])[1] = IF req[p].kind = "admin" THEN "admin.pair" ELSE "fail.pair"
           /\ \A k \in Pairs : k \in Elements(FailureRules(req[p].kind, req[p].ip, req[p].who)) =>
                               k = PairOf(req[p])
           /\ \A i \in DOMAIN FailureRules(req[p].kind, req[p].ip, req[p].who) :
                 FailureRules(req[p].kind, req[p].ip, req[p].who)[i][1] = "admin.pair" =>
                    req[p].kind = "admin"
<1> DEFINE kind == req[p].kind
           ip == req[p].ip
           who == req[p].who
<1>1. Sound(req[p]) /\ kind \in kinds /\ kind \in {"login", "admin"} /\ ip \in Ips /\ who \in Emails
      /\ kind \in AllKinds
  BY GuardAssumption DEF IInv, Requested, Sound, SoundFor, TypeOK, AllKinds
<1> HIDE DEF kind, ip, who
<1>2. FailureRules(kind, ip, who) \in Seq(Keys)
  BY <1>1, RulesAreKeys DEF IInv
<1>3. /\ \A i \in DOMAIN FailureRules(kind, ip, who) :
            /\ FailureRules(kind, ip, who)[i][1] = "admin.pair" => kind = "admin"
            /\ FailureRules(kind, ip, who)[i][1] \in {"fail.pair", "admin.pair"} =>
                  FailureRules(kind, ip, who)[i] = Head(FailureRules(kind, ip, who))
      /\ FailureRules(kind, ip, who) # <<>>
      /\ Head(FailureRules(kind, ip, who)) \in Elements(FailureRules(kind, ip, who))
      /\ Head(FailureRules(kind, ip, who))[1] = IF kind = "admin" THEN "admin.pair" ELSE "fail.pair"
  BY <1>1, RulesOfPairs
<1>4. Head(FailureRules(kind, ip, who)) \in Keys
  BY <1>2, <1>3, HeadTailProperties
<1>5. Head(FailureRules(kind, ip, who)) \in Pairs
  BY <1>3, <1>4 DEF Pairs
<1>6. ASSUME NEW k \in Pairs, k \in Elements(FailureRules(kind, ip, who))
      PROVE  k = Head(FailureRules(kind, ip, who))
  BY <1>3, <1>6 DEF Pairs, Elements
<1> QED BY <1>1, <1>2, <1>3, <1>5, <1>6 DEF PairOf, kind, ip, who

\* The guard lets through as many as there are requests, counted from below the limit.
LEMMA CheckKeeps ==
    ASSUME IInv, NEW p \in Requests, Check(p)
    PROVE  IInv'
<1>1. /\ req[p].pc = "check" /\ req[p].pc \in LoggingIn /\ ~(req[p].pc \in Looping)
      /\ UNCHANGED <<redis, account, second, guesses, orphans, arrivals, faults>>
  BY DEF Check, At, LoggingIn, Looping
<1>2. Requested' /\ CountersExpire' /\ Bounded' /\ req' \in [Requests -> Request]
  <2>1. CASE Blocked(p)
    BY <1>1, <2>1, DoneKeeps DEF Check, second
  <2>2. CASE ~Blocked(p)
    <3> DEFINE r == [req[p] EXCEPT !.pc = "compare"]
               pair == PairOf(req[p])
    <3>1. Moves(p, r)
      BY <2>2, WhatMoves DEF Check, IInv
    <3>2. /\ Sound(req[p]) /\ pair \in Pairs
          /\ pair \in Elements(FailureRules(req[p].kind, req[p].ip, req[p].who))
          /\ pair[1] = IF req[p].kind = "admin" THEN "admin.pair" ELSE "fail.pair"
      BY <1>1, LoginIsKnown
    <3>3. /\ r \in Request /\ r.pc = "compare" /\ r.kind = req[p].kind /\ r.ip = req[p].ip
          /\ r.who = req[p].who /\ r.todo = req[p].todo /\ r.failing = req[p].failing
      BY <3>2 DEF Sound, SoundFor, Request, PC
    <3> HIDE DEF r
    <3>4. SoundFor(r, proved')
      BY <1>1, <3>2, <3>3 DEF Sound, SoundFor, Looping, LoggingIn, second
    <3>5. Requested' /\ req' \in [Requests -> Request]
      BY <1>1, <3>1, <3>4, RequestedMoves DEF IInv, redis, second
    <3>6. CountersExpire'
      BY <1>1, <3>1, CountersMove DEF IInv, redis, At
    <3>7. Bounded'
      <4> SUFFICES ASSUME NEW x \in Pairs PROVE (Accounted(x) /\ BlockFollows(x) /\ Promised(x))'
        BY DEF Bounded, Pairs
      <4>1. /\ x \in Keys /\ LimitOf(x) \in Nat \ {0} /\ counter[x] \in Nat /\ guesses[x] \in Nat
            /\ faults \in Nat /\ Cardinality(Requests) \in Nat
        BY PairLimit, GuardAssumption, FS_CardinalityType DEF IInv, TypeOK
      <4>2. /\ Counted(Guessing(x), Guessing(x)', IsGuessing(req[p], x), IsGuessing(r, x))
            /\ Counted(Owing(x), Owing(x)', IsOwing(req[p], x), IsOwing(r, x))
            /\ Counted(Blocking(x), Blocking(x)', IsBlocking(req[p], x), IsBlocking(r, x))
        BY <3>1, CountsMove DEF IInv
      <4>3. Accounted(x) /\ BlockFollows(x) /\ Promised(x)
        BY DEF IInv, Bounded
      <4>4. /\ ~IsOwing(req[p], x) /\ ~IsOwing(r, x) /\ ~IsBlocking(req[p], x) /\ ~IsBlocking(r, x)
            /\ ~IsGuessing(req[p], x) /\ (IsGuessing(r, x) => x = pair)
        BY <1>1, <3>3 DEF IsOwing, IsBlocking, IsGuessing, PairOf
      <4>5. /\ counter' = counter /\ guesses' = guesses /\ faults' = faults /\ block' = block
            /\ orphans' = orphans
        BY <1>1 DEF redis
      <4>6. Accounted(x)' /\ BlockFollows(x)'
        BY <4>1, <4>2, <4>3, <4>4, <4>5 DEF Accounted, BlockFollows, Counted
      <4>7. CASE ~IsGuessing(r, x)
        BY <4>1, <4>2, <4>3, <4>4, <4>5, <4>6, <4>7 DEF Promised, Counted
      <4>8. CASE IsGuessing(r, x)
        <5>1. x = pair
          BY <4>4, <4>8
        <5>2. Cardinality(Guessing(x)) + Cardinality(Owing(x)) + Cardinality(Blocking(x)) + 1
                <= Cardinality(Requests)
          BY <1>1, RoomForOneMore
        <5>3. x \notin orphans =>
                 guesses[x] <= (LimitOf(x) - 1) + Cardinality(Owing(x)) + Cardinality(Blocking(x)) + faults
          <6>1. CASE req[p].kind = "admin"
            <7>1. block[x] = "none" /\ x[1] = "admin.pair"
              BY <2>2, <3>2, <5>1, <6>1 DEF Blocked, Admin
            <7> QED BY <7>1, <4>3 DEF BlockFollows
          <6>2. CASE req[p].kind # "admin"
            <7>1. ~(counter[x] >= LimitOf(x))
              BY <2>2, <3>2, <5>1, <6>2 DEF Blocked, Admin, Exceeded
            <7> QED BY <7>1, <4>1, <4>2, <4>3 DEF Accounted, Counted
          <6> QED BY <6>1, <6>2
        <5>4. Promised(x)'
          BY <4>1, <4>2, <4>4, <4>5, <4>8, <5>2, <5>3 DEF Promised, Counted
        <5> QED BY <4>6, <5>4
      <4> QED BY <4>7, <4>8
    <3> QED BY <3>5, <3>6, <3>7
  <2> QED BY <2>1, <2>2
<1>3. TypeOK'
  BY <1>1, <1>2 DEF IInv, TypeOK, redis, second
<1> QED BY <1>1, <1>2, <1>3 DEF IInv, EnabledSecretIsProved, second

\* A wrong password or code: the guess is owed to the counter from now on.
LEMMA RecordFailureKeeps ==
    ASSUME IInv, NEW p \in Requests, req[p].pc \in {"compare", "code"}, RecordFailure(p),
           UNCHANGED <<redis, second, orphans, faults>>
    PROVE  Requested' /\ CountersExpire' /\ Bounded' /\ req' \in [Requests -> Request]
           /\ guesses' \in [Keys -> Nat]
<1> DEFINE rules == FailureRules(req[p].kind, req[p].ip, req[p].who)
           r == [req[p] EXCEPT !.todo = rules, !.failing = TRUE, !.pc = "incr"]
           pair == PairOf(req[p])
<1>1. /\ Moves(p, r)
      /\ guesses' = [k \in Keys |-> IF k \in Elements(rules) THEN guesses[k] + 1 ELSE guesses[k]]
  BY DEF RecordFailure, Moves, IInv, TypeOK
<1>2. /\ Sound(req[p]) /\ rules \in Seq(Keys) /\ pair \in Pairs /\ pair \in Elements(rules)
      /\ \A k \in Pairs : k \in Elements(rules) => k = pair
      /\ \A i \in DOMAIN rules : rules[i][1] = "admin.pair" => req[p].kind = "admin"
  BY LoginIsKnown DEF LoggingIn
<1>3. Head(rules) = pair /\ rules # <<>>
  BY <1>2 DEF PairOf, Elements
<1> HIDE DEF rules, pair
<1>4. /\ r \in Request /\ r.pc = "incr" /\ r.todo = rules /\ r.failing = TRUE /\ r.kind = req[p].kind
      /\ r.ip = req[p].ip /\ r.who = req[p].who
  BY <1>2 DEF Sound, SoundFor, Request, PC
<1> HIDE DEF r
<1>5. SoundFor(r, proved')
  BY <1>2, <1>3, <1>4 DEF Sound, SoundFor, Looping, LoggingIn, second
<1>6. Requested' /\ req' \in [Requests -> Request]
  BY <1>1, <1>5, RequestedMoves DEF IInv, redis, second
<1>7. CountersExpire'
  BY <1>1, CountersMove DEF IInv, redis, At
<1>8. guesses' \in [Keys -> Nat]
  BY <1>1 DEF IInv, TypeOK
<1>9. Bounded'
  <2> SUFFICES ASSUME NEW x \in Pairs PROVE (Accounted(x) /\ BlockFollows(x) /\ Promised(x))'
    BY DEF Bounded, Pairs
  <2>1. /\ x \in Keys /\ LimitOf(x) \in Nat \ {0} /\ counter[x] \in Nat /\ guesses[x] \in Nat
        /\ faults \in Nat /\ Cardinality(Requests) \in Nat
    BY PairLimit, GuardAssumption, FS_CardinalityType DEF IInv, TypeOK
  <2>2. /\ Counted(Guessing(x), Guessing(x)', IsGuessing(req[p], x), IsGuessing(r, x))
        /\ Counted(Owing(x), Owing(x)', IsOwing(req[p], x), IsOwing(r, x))
        /\ Counted(Blocking(x), Blocking(x)', IsBlocking(req[p], x), IsBlocking(r, x))
    BY <1>1, CountsMove DEF IInv
  <2>3. Accounted(x) /\ BlockFollows(x) /\ Promised(x)
    BY DEF IInv, Bounded
  <2>4. /\ ~IsOwing(req[p], x) /\ ~IsBlocking(req[p], x) /\ ~IsBlocking(r, x) /\ ~IsGuessing(r, x)
        /\ IsOwing(r, x) <=> x = pair
        /\ IsGuessing(req[p], x) <=> x = pair
    BY <1>3, <1>4 DEF IsOwing, IsBlocking, IsGuessing, pair
  <2>5. guesses'[x] = IF x = pair THEN guesses[x] + 1 ELSE guesses[x]
    BY <1>1, <1>2, <2>1
  <2>6. counter' = counter /\ faults' = faults /\ block' = block /\ orphans' = orphans
    BY DEF redis
  <2>7. Accounted(x)'
    BY <2>1, <2>2, <2>3, <2>4, <2>5, <2>6 DEF Accounted, Counted
  <2>8. BlockFollows(x)'
    BY <2>1, <2>2, <2>3, <2>4, <2>5, <2>6 DEF BlockFollows, Counted
  <2>9. Promised(x)'
    BY <2>1, <2>2, <2>3, <2>4, <2>5, <2>6 DEF Promised, Counted
  <2> QED BY <2>7, <2>8, <2>9
<1> QED BY <1>6, <1>7, <1>8, <1>9

\* A login goes on to the next place of its own.
LEMMA LoginMoves ==
    ASSUME IInv, NEW p \in Requests, req[p].pc \in {"compare", "code"}, NEW r,
           \/ r = [req[p] EXCEPT !.pc = "clear"]
           \/ \E x \in Secrets \cup {None} : r = [req[p] EXCEPT !.secret = x, !.pc = "code"],
           Moves(p, r), UNCHANGED <<redis, second, guesses, orphans, faults>>
    PROVE  Requested' /\ CountersExpire' /\ Bounded' /\ req' \in [Requests -> Request]
<1>1. Sound(req[p])
  BY DEF IInv, Requested
<1>2. /\ r \in Request /\ r.pc \in {"clear", "code"} /\ r.kind = req[p].kind /\ r.ip = req[p].ip
      /\ r.who = req[p].who /\ r.todo = req[p].todo /\ r.failing = req[p].failing
  <2>1. CASE r = [req[p] EXCEPT !.pc = "clear"]
    BY <1>1, <2>1 DEF Sound, SoundFor, Request, PC
  <2>2. CASE \E x \in Secrets \cup {None} : r = [req[p] EXCEPT !.secret = x, !.pc = "code"]
    <3>1. PICK x \in Secrets \cup {None} : r = [req[p] EXCEPT !.secret = x, !.pc = "code"]
      BY <2>2
    <3> QED BY <1>1, <3>1 DEF Sound, SoundFor, Request, PC
  <2> QED BY <2>1, <2>2
<1>3. SoundFor(r, proved')
  BY <1>1, <1>2 DEF Sound, SoundFor, Looping, LoggingIn, second
<1>4. \A k \in Pairs : IsGuessing(r, k) => IsGuessing(req[p], k)
  BY <1>2 DEF IsGuessing, PairOf
<1> QED BY <1>3, <1>4, QuietMoves DEF second, Looping

LEMMA CompareKeeps ==
    ASSUME IInv, NEW p \in Requests, Compare(p)
    PROVE  IInv'
<1>1. req[p].pc = "compare" /\ UNCHANGED <<redis, account, second, orphans, arrivals, faults>>
  BY DEF Compare, At
<1>2. /\ Requested' /\ CountersExpire' /\ Bounded' /\ req' \in [Requests -> Request]
      /\ guesses' \in [Keys -> Nat]
  <2>1. CASE RecordFailure(p)
    BY <1>1, <2>1, RecordFailureKeeps
  <2>2. CASE Goto(p, "clear") /\ UNCHANGED guesses
    <3>1. Moves(p, [req[p] EXCEPT !.pc = "clear"])
      BY <2>2, WhatMoves DEF IInv
    <3> QED BY <1>1, <2>2, <3>1, LoginMoves DEF IInv, TypeOK
  <2>3. CASE req' = [req EXCEPT ![p].secret = totp, ![p].pc = "code"] /\ UNCHANGED guesses
    <3>1. Moves(p, [req[p] EXCEPT !.secret = totp, !.pc = "code"]) /\ totp \in Secrets \cup {None}
      BY <2>3 DEF IInv, TypeOK, Moves
    <3> QED BY <1>1, <2>3, <3>1, LoginMoves DEF IInv, TypeOK
  <2> QED BY <2>1, <2>2, <2>3 DEF Compare
<1>3. TypeOK'
  BY <1>1, <1>2 DEF IInv, TypeOK, redis, second
<1> QED BY <1>1, <1>2, <1>3 DEF IInv, EnabledSecretIsProved, second

LEMMA VerifyCodeKeeps ==
    ASSUME IInv, NEW p \in Requests, VerifyCode(p)
    PROVE  IInv'
<1>1. req[p].pc = "code" /\ UNCHANGED <<redis, account, second, orphans, arrivals, faults>>
  BY DEF VerifyCode, At
<1>2. /\ Requested' /\ CountersExpire' /\ Bounded' /\ req' \in [Requests -> Request]
      /\ guesses' \in [Keys -> Nat]
  <2>1. CASE RecordFailure(p)
    BY <1>1, <2>1, RecordFailureKeeps
  <2>2. CASE Goto(p, "clear") /\ UNCHANGED guesses
    <3>1. Moves(p, [req[p] EXCEPT !.pc = "clear"])
      BY <2>2, WhatMoves DEF IInv
    <3> QED BY <1>1, <2>2, <3>1, LoginMoves DEF IInv, TypeOK
  <2>3. CASE Done(p) /\ UNCHANGED guesses
    BY <1>1, <2>3, DoneKeeps DEF second, Looping, IInv, TypeOK
  <2> QED BY <2>1, <2>2, <2>3 DEF VerifyCode
<1>3. TypeOK'
  BY <1>1, <1>2 DEF IInv, TypeOK, redis, second
<1> QED BY <1>1, <1>2, <1>3 DEF IInv, EnabledSecretIsProved, second

\* With a key everything that was counted against it goes.
LEMMA DeleteKeeps ==
    ASSUME IInv, NEW S, S \subseteq Keys, Delete(S), faults' = faults,
           \A k \in Keys \ S : block'[k] = block[k],
           \A q \in Requests : req'[q] = req[q] \/ (req[q].pc = "clear" /\ req'[q] = Idle)
    PROVE  /\ CountersExpire' /\ Bounded'
           /\ counter' \in [Keys -> Nat] /\ guesses' \in [Keys -> Nat]
           /\ expiry' \subseteq Keys /\ orphans' \subseteq Keys
<1>1. /\ counter' = [k \in Keys |-> IF k \in S THEN 0 ELSE counter[k]]
      /\ guesses' = [k \in Keys |-> IF k \in S THEN 0 ELSE guesses[k]]
      /\ expiry' = expiry \ S /\ orphans' = orphans \ S
  BY DEF Delete
<1>2. /\ counter' \in [Keys -> Nat] /\ guesses' \in [Keys -> Nat]
      /\ expiry' \subseteq Keys /\ orphans' \subseteq Keys
  BY <1>1 DEF IInv, TypeOK
<1>3. CountersExpire'
  <2> SUFFICES ASSUME NEW k \in Keys, counter'[k] > 0
               PROVE  k \in expiry' \/ (\E q \in Requests : At(q, "expire") /\ Head(req[q].todo) = k)'
                      \/ k \in orphans'
    BY DEF CountersExpire
  <2>1. k \notin S /\ counter[k] > 0
    BY <1>1
  <2>2. CASE k \in expiry \cup orphans
    BY <1>1, <2>1, <2>2
  <2>3. CASE \E q \in Requests : At(q, "expire") /\ Head(req[q].todo) = k
    <3>1. PICK q \in Requests : At(q, "expire") /\ Head(req[q].todo) = k
      BY <2>3
    <3>2. req'[q] = req[q]
      BY <3>1 DEF At
    <3> QED BY <3>1, <3>2 DEF At
  <2> QED BY <2>1, <2>2, <2>3 DEF IInv, CountersExpire
<1>4. Bounded'
  <2> SUFFICES ASSUME NEW x \in Pairs PROVE (Accounted(x) /\ BlockFollows(x) /\ Promised(x))'
    BY DEF Bounded, Pairs
  <2>1. /\ x \in Keys /\ LimitOf(x) \in Nat \ {0} /\ counter[x] \in Nat /\ guesses[x] \in Nat
        /\ faults \in Nat /\ Cardinality(Requests) \in Nat
    BY PairLimit, GuardAssumption, FS_CardinalityType DEF IInv, TypeOK
  <2>2. ASSUME NEW q \in Requests
        PROVE  /\ IsGuessing(req'[q], x) <=> IsGuessing(req[q], x)
               /\ IsOwing(req'[q], x) <=> IsOwing(req[q], x)
               /\ IsBlocking(req'[q], x) <=> IsBlocking(req[q], x)
    <3>1. CASE req'[q] = req[q]
      BY <3>1
    <3>2. CASE req[q].pc = "clear" /\ req'[q] = Idle
      <4>1. ~IsGuessing(req[q], x) /\ ~IsOwing(req[q], x) /\ ~IsBlocking(req[q], x)
        BY <3>2 DEF IsGuessing, IsOwing, IsBlocking
      <4>2. ~IsGuessing(Idle, x) /\ ~IsOwing(Idle, x) /\ ~IsBlocking(Idle, x)
        BY IdleIsSound
      <4> QED BY <3>2, <4>1, <4>2
    <3> QED BY <3>1, <3>2
  <2>3. Guessing(x)' = Guessing(x) /\ Owing(x)' = Owing(x) /\ Blocking(x)' = Blocking(x)
    <3>1. /\ Guessing(x)' = {q \in Requests : IsGuessing(req'[q], x)}
          /\ Owing(x)' = {q \in Requests : IsOwing(req'[q], x)}
          /\ Blocking(x)' = {q \in Requests : IsBlocking(req'[q], x)}
      BY DEF Guessing, Owing, Blocking, IsGuessing, IsOwing, IsBlocking
    <3> QED BY <2>2, <3>1 DEF Guessing, Owing, Blocking
  <2>4. /\ Cardinality(Guessing(x)) \in Nat /\ Cardinality(Owing(x)) \in Nat
        /\ Cardinality(Blocking(x)) \in Nat /\ Cardinality(Guessing(x)) <= Cardinality(Requests)
    <3>1. Guessing(x) \subseteq Requests /\ Owing(x) \subseteq Requests /\ Blocking(x) \subseteq Requests
      BY DEF Guessing, Owing, Blocking
    <3> QED BY <3>1, GuardAssumption, FS_Subset, FS_CardinalityType
  <2>5. Accounted(x) /\ BlockFollows(x) /\ Promised(x)
    BY DEF IInv, Bounded
  <2>6. CASE x \in S
    <3>1. guesses'[x] = 0 /\ counter'[x] = 0
      BY <1>1, <2>1, <2>6
    <3> QED BY <3>1, <2>1, <2>3, <2>4 DEF Accounted, BlockFollows, Promised
  <2>7. CASE x \notin S
    <3>1. /\ guesses'[x] = guesses[x] /\ counter'[x] = counter[x] /\ block'[x] = block[x]
          /\ x \in orphans' <=> x \in orphans
      BY <1>1, <2>1, <2>7
    <3> QED BY <3>1, <2>3, <2>5 DEF Accounted, BlockFollows, Promised
  <2> QED BY <2>6, <2>7
<1> QED BY <1>2, <1>3, <1>4

LEMMA ClearPairFailureKeeps ==
    ASSUME IInv, NEW p \in Requests, ClearPairFailure(p)
    PROVE  IInv'
<1> DEFINE pair == PairOf(req[p])
<1>1. /\ req[p].pc = "clear" /\ Delete({pair})
      /\ block' = [block EXCEPT ![pair] = IF Admin(p) THEN "none" ELSE @]
      /\ Done(p) /\ UNCHANGED <<kinds, account, second, arrivals, faults>>
  BY DEF ClearPairFailure, At, PairOf
<1>2. pair \in Keys
  BY <1>1, LoginIsKnown DEF LoggingIn, Pairs
<1> HIDE DEF pair
<1>3. Moves(p, Idle)
  BY <1>1, WhatMoves DEF IInv
<1>4. SoundFor(Idle, proved')
  BY <1>1, IdleIsSound DEF Sound, second
<1>5. Requested' /\ req' \in [Requests -> Request]
  BY <1>1, <1>3, <1>4, RequestedMoves DEF IInv, second
<1>6. \A q \in Requests : req'[q] = req[q] \/ (req[q].pc = "clear" /\ req'[q] = Idle)
  BY <1>1, <1>3 DEF Moves, IInv, TypeOK
<1>7. block' \in [Keys -> {"none", "fresh", "stale"}] /\ \A k \in Keys \ {pair} : block'[k] = block[k]
  BY <1>1, <1>2 DEF IInv, TypeOK
<1>8. /\ CountersExpire' /\ Bounded'
      /\ counter' \in [Keys -> Nat] /\ guesses' \in [Keys -> Nat]
      /\ expiry' \subseteq Keys /\ orphans' \subseteq Keys
  BY <1>1, <1>2, <1>6, <1>7, DeleteKeeps
<1>9. TypeOK'
  BY <1>1, <1>5, <1>7, <1>8 DEF IInv, TypeOK, second
<1> QED BY <1>1, <1>5, <1>8, <1>9 DEF IInv, EnabledSecretIsProved, second

LEMMA KeyExpiresKeeps ==
    ASSUME IInv, NEW k \in Keys, KeyExpires(k)
    PROVE  IInv'
<1>1. /\ Delete({k}) /\ block' = [block EXCEPT ![k] = IF @ = "fresh" THEN "stale" ELSE @]
      /\ UNCHANGED <<kinds, account, req, second, arrivals, faults>>
  BY DEF KeyExpires
<1>2. block' \in [Keys -> {"none", "fresh", "stale"}] /\ \A x \in Keys \ {k} : block'[x] = block[x]
  BY <1>1 DEF IInv, TypeOK
<1>3. /\ CountersExpire' /\ Bounded'
      /\ counter' \in [Keys -> Nat] /\ guesses' \in [Keys -> Nat]
      /\ expiry' \subseteq Keys /\ orphans' \subseteq Keys
  BY <1>1, <1>2, DeleteKeeps
<1>4. Requested'
  BY <1>1 DEF IInv, Requested, Sound, SoundFor, second
<1>5. TypeOK'
  BY <1>1, <1>2, <1>3 DEF IInv, TypeOK, second
<1> QED BY <1>1, <1>3, <1>4, <1>5 DEF IInv, EnabledSecretIsProved, second

\* Only a block whose counter is gone, or an orphan's, expires.
LEMMA BlockExpiresKeeps ==
    ASSUME IInv, NEW k \in Keys, BlockExpires(k)
    PROVE  IInv'
<1>1. /\ block[k] = "stale" \/ (block[k] = "fresh" /\ k \in orphans)
      /\ block' = [block EXCEPT ![k] = "none"]
      /\ UNCHANGED <<kinds, counter, expiry, account, req, second, guesses, orphans, arrivals, faults>>
  BY DEF BlockExpires
<1>2. Requested' /\ CountersExpire' /\ EnabledSecretIsProved'
  BY <1>1 DEF IInv, Requested, Sound, SoundFor, CountersExpire, At, EnabledSecretIsProved, second
<1>3. TypeOK'
  BY <1>1 DEF IInv, TypeOK, second
<1>4. Bounded'
  <2> SUFFICES ASSUME NEW x \in Pairs PROVE (Accounted(x) /\ BlockFollows(x) /\ Promised(x))'
    BY DEF Bounded, Pairs
  <2>1. Accounted(x) /\ BlockFollows(x) /\ Promised(x)
    BY DEF IInv, Bounded
  <2>2. Guessing(x)' = Guessing(x) /\ Owing(x)' = Owing(x) /\ Blocking(x)' = Blocking(x)
    BY <1>1 DEF Guessing, Owing, Blocking, IsGuessing, IsOwing, IsBlocking
  <2>3. x \in Keys
    BY DEF Pairs
  <2>4. x # k => block'[x] = block[x]
    BY <1>1, <2>3 DEF IInv, TypeOK
  <2> QED BY <1>1, <2>1, <2>2, <2>4 DEF Accounted, BlockFollows, Promised
<1> QED BY <1>2, <1>3, <1>4 DEF IInv

LEMMA InsertUserKeeps ==
    ASSUME IInv, NEW p \in Requests, InsertUser(p)
    PROVE  IInv'
<1>1. /\ req[p].pc = "insert" /\ Done(p)
      /\ account' = [account EXCEPT ![req[p].who] = IF @ = None THEN "active" ELSE @]
      /\ UNCHANGED <<redis, second, guesses, orphans, arrivals, faults>>
  BY DEF InsertUser, At
<1>2. Requested' /\ CountersExpire' /\ Bounded' /\ req' \in [Requests -> Request]
  BY <1>1, DoneKeeps DEF second, Looping
<1>3. account' \in [Emails -> {"active", None}]
  BY <1>1 DEF IInv, TypeOK
<1>4. TypeOK'
  BY <1>1, <1>2, <1>3 DEF IInv, TypeOK, redis, second
<1> QED BY <1>1, <1>2, <1>4 DEF IInv, EnabledSecretIsProved, second

\* The secret that is stored is the one the code was compared with.
LEMMA WriteTOTPKeeps ==
    ASSUME IInv, NEW p \in Requests, WriteTOTP(p)
    PROVE  IInv'
<1>1. /\ req[p].pc = "write" /\ Done(p) /\ totp' = req[p].secret
      /\ setup' = IF req[p].kind = "enable" THEN None ELSE setup
      /\ UNCHANGED <<redis, account, fresh, proved, guesses, orphans, arrivals, faults>>
  BY DEF WriteTOTP, At
<1>2. Requested' /\ CountersExpire' /\ Bounded' /\ req' \in [Requests -> Request]
  BY <1>1, DoneKeeps DEF Looping
<1>3. req[p].secret \in proved \cup {None} /\ req[p].secret \in Secrets \cup {None}
  BY <1>1 DEF IInv, Requested, Sound, SoundFor, Request
<1>4. TypeOK'
  BY <1>1, <1>2, <1>3 DEF IInv, TypeOK, redis
<1>5. EnabledSecretIsProved'
  BY <1>1, <1>3 DEF EnabledSecretIsProved
<1> QED BY <1>2, <1>4, <1>5 DEF IInv

LEMMA EnableTOTPKeeps ==
    ASSUME IInv, NEW p \in Requests, EnableTOTP(p)
    PROVE  IInv'
<1> DEFINE r == [Idle EXCEPT !.kind = "enable", !.secret = setup, !.pc = "write"]
<1>1. /\ req[p].pc = "idle" /\ setup # None /\ Moves(p, r) /\ proved' = proved \cup {setup}
      /\ arrivals < MaxArrivals /\ arrivals' = arrivals + 1
      /\ UNCHANGED <<redis, account, totp, setup, fresh, guesses, orphans, faults>>
  BY DEF EnableTOTP, At, Moves
<1>2. setup \in Secrets
  BY <1>1 DEF IInv, TypeOK
<1>3. /\ r \in Request /\ r.pc = "write" /\ r.secret = setup /\ r.failing = FALSE /\ r.todo = <<>>
  <2>1. Idle \in Request /\ Idle.failing = FALSE /\ Idle.todo = <<>> /\ Idle.secret = None
    BY IdleIsSound DEF Sound, SoundFor, Idle
  <2> QED BY <1>2, <2>1 DEF Request, PC, AllKinds
<1> HIDE DEF r
<1>4. SoundFor(r, proved')
  BY <1>1, <1>3 DEF SoundFor, Looping, LoggingIn
<1>5. \A k \in Pairs : ~IsGuessing(r, k)
  BY <1>3 DEF IsGuessing
<1>6. Requested' /\ CountersExpire' /\ Bounded' /\ req' \in [Requests -> Request]
  BY <1>1, <1>4, <1>5, QuietMoves DEF Looping
<1>7. TypeOK'
  BY <1>1, <1>2, <1>6, GuardAssumption DEF IInv, TypeOK, redis
<1> QED BY <1>1, <1>6, <1>7 DEF IInv, EnabledSecretIsProved

LEMMA DisableTOTPKeeps ==
    ASSUME IInv, NEW p \in Requests, DisableTOTP(p)
    PROVE  IInv'
<1> DEFINE r == [Idle EXCEPT !.kind = "disable", !.pc = "write"]
<1>1. /\ req[p].pc = "idle" /\ Moves(p, r)
      /\ arrivals < MaxArrivals /\ arrivals' = arrivals + 1
      /\ UNCHANGED <<redis, account, second, guesses, orphans, faults>>
  BY DEF DisableTOTP, At, Moves
<1>2. /\ r \in Request /\ r.pc = "write" /\ r.secret = None /\ r.failing = FALSE /\ r.todo = <<>>
  <2>1. Idle \in Request /\ Idle.failing = FALSE /\ Idle.todo = <<>> /\ Idle.secret = None
    BY IdleIsSound DEF Sound, SoundFor, Idle
  <2> QED BY <2>1 DEF Request, PC, AllKinds
<1> HIDE DEF r
<1>3. SoundFor(r, proved')
  BY <1>2 DEF SoundFor, Looping, LoggingIn
<1>4. \A k \in Pairs : ~IsGuessing(r, k)
  BY <1>2 DEF IsGuessing
<1>5. Requested' /\ CountersExpire' /\ Bounded' /\ req' \in [Requests -> Request]
  BY <1>1, <1>3, <1>4, QuietMoves DEF Looping, second
<1>6. TypeOK'
  BY <1>1, <1>5, GuardAssumption DEF IInv, TypeOK, redis, second
<1> QED BY <1>1, <1>5, <1>6 DEF IInv, EnabledSecretIsProved, second

\* A request that fails before it counts or blocks is paid for with a fault; one that fails
\* before EXPIRE leaves an orphan.
LEMMA RequestFailsKeeps ==
    ASSUME IInv, NEW p \in Requests, RequestFails(p)
    PROVE  IInv'
<1>1. /\ faults < MaxFaults /\ faults' = faults + 1 /\ Done(p)
      /\ orphans' = IF At(p, "expire") /\ Head(req[p].todo) \notin expiry
                        /\ counter[Head(req[p].todo)] > 0
                     THEN orphans \cup {Head(req[p].todo)} ELSE orphans
      /\ UNCHANGED <<redis, account, second, guesses, arrivals>>
  BY DEF RequestFails, Fault
<1>2. Moves(p, Idle)
  BY <1>1, WhatMoves DEF IInv
<1>3. SoundFor(Idle, proved')
  BY <1>1, IdleIsSound DEF Sound, second
<1>4. Requested' /\ req' \in [Requests -> Request]
  BY <1>1, <1>2, <1>3, RequestedMoves DEF IInv, redis, second
<1>5. faults \in Nat /\ faults' \in Nat /\ faults' > faults /\ faults' >= faults /\ faults' \in 0..MaxFaults
  BY <1>1, GuardAssumption DEF IInv, TypeOK
<1>6. orphans \subseteq orphans' /\ orphans' \subseteq Keys
  BY <1>1, HeadIsKey DEF IInv, TypeOK, At, Looping
<1>7. CountersExpire'
  BY <1>1, <1>2, <1>6, CountersMove DEF IInv, redis
<1>8. Bounded'
  <2>1. guesses' = guesses /\ counter' = counter /\ block' = block /\ TypeOK /\ Bounded
    BY <1>1 DEF IInv, redis
  <2> QED BY <2>1, <1>2, <1>5, <1>6, BoundedMoves
<1>9. TypeOK'
  BY <1>1, <1>4, <1>5, <1>6 DEF IInv, TypeOK, redis, second
<1> QED BY <1>1, <1>4, <1>7, <1>8, <1>9 DEF IInv, EnabledSecretIsProved, second

LEMMA BlockUnreadKeeps ==
    ASSUME IInv, NEW p \in Requests, BlockUnread(p)
    PROVE  IInv'
<1> DEFINE r == [req[p] EXCEPT !.pc = "compare"]
<1>1. /\ req[p].pc = "check" /\ faults < MaxFaults /\ faults' = faults + 1 /\ Moves(p, r)
      /\ UNCHANGED <<redis, account, second, guesses, orphans, arrivals>>
  BY WhatMoves DEF BlockUnread, Fault, At, IInv
<1>2. Sound(req[p])
  BY DEF IInv, Requested
<1>3. /\ r \in Request /\ r.pc = "compare" /\ r.kind = req[p].kind /\ r.ip = req[p].ip
      /\ r.who = req[p].who /\ r.todo = req[p].todo /\ r.failing = req[p].failing
  BY <1>2 DEF Sound, SoundFor, Request, PC
<1> HIDE DEF r
<1>4. SoundFor(r, proved')
  BY <1>1, <1>2, <1>3 DEF Sound, SoundFor, Looping, LoggingIn, second
<1>5. Requested' /\ req' \in [Requests -> Request]
  BY <1>1, <1>4, RequestedMoves DEF IInv, redis, second
<1>6. faults \in Nat /\ faults' \in Nat /\ faults' > faults /\ faults' >= faults /\ faults' \in 0..MaxFaults
  BY <1>1, GuardAssumption DEF IInv, TypeOK
<1>7. CountersExpire'
  BY <1>1, CountersMove DEF IInv, redis, At
<1>8. Bounded'
  <2>1. guesses' = guesses /\ counter' = counter /\ block' = block /\ TypeOK /\ Bounded
        /\ orphans \subseteq orphans' /\ Moves(p, r)
    BY <1>1 DEF IInv, redis
  <2>2. \A k \in Pairs : ~IsOwing(req[p], k) /\ ~IsBlocking(req[p], k)
    BY <1>1 DEF IsOwing, IsBlocking
  <2> QED BY <2>1, <2>2, <1>6, BoundedMoves
<1>9. TypeOK'
  BY <1>1, <1>5, <1>6 DEF IInv, TypeOK, redis, second
<1> QED BY <1>1, <1>5, <1>7, <1>8, <1>9 DEF IInv, EnabledSecretIsProved, second

\* Steps that leave counters, guesses and requests alone.
LEMMA SetupKeeps ==
    ASSUME IInv,
           UNCHANGED <<redis, account, req, totp, proved, guesses, orphans, arrivals, faults>>,
           setup' \in Secrets \cup {None}, fresh' \subseteq Secrets
    PROVE  IInv'
<1>1. /\ kinds' = kinds /\ counter' = counter /\ expiry' = expiry /\ block' = block /\ req' = req
      /\ guesses' = guesses /\ orphans' = orphans /\ proved' = proved /\ faults' = faults /\ totp' = totp
  BY DEF redis
<1>2. TypeOK'
  BY <1>1 DEF IInv, TypeOK
<1>3. Requested' /\ CountersExpire' /\ EnabledSecretIsProved'
  BY <1>1 DEF IInv, Requested, Sound, SoundFor, CountersExpire, At, EnabledSecretIsProved
<1>4. Bounded'
  BY <1>1 DEF IInv, Bounded, Accounted, BlockFollows, Promised, Guessing, Owing, Blocking,
              IsGuessing, IsOwing, IsBlocking, Pairs
<1> QED BY <1>2, <1>3, <1>4 DEF IInv

-----------------------------------------------------------------------------
LEMMA InitIsSound == Init => IInv
<1> SUFFICES ASSUME Init PROVE IInv
  OBVIOUS
<1>1. TypeOK
  BY IdleIsSound, GuardAssumption DEF Init, TypeOK, Sound, SoundFor
<1>2. Requested
  BY IdleIsSound DEF Init, Requested
<1>3. CountersExpire /\ EnabledSecretIsProved
  BY DEF Init, CountersExpire, EnabledSecretIsProved
<1>4. Bounded
  <2> SUFFICES ASSUME NEW x \in Pairs PROVE Accounted(x) /\ BlockFollows(x) /\ Promised(x)
    BY DEF Bounded
  <2>1. x \in Keys /\ LimitOf(x) \in Nat \ {0} /\ guesses[x] = 0 /\ counter[x] = 0 /\ faults = 0
    BY PairLimit DEF Init
  <2>2. Guessing(x) = {} /\ Owing(x) = {} /\ Blocking(x) = {}
    BY IdleIsSound DEF Init, Guessing, Owing, Blocking
  <2>3. Cardinality({}) = 0 /\ Cardinality(Requests) \in Nat
    BY FS_EmptySet, FS_CardinalityType, GuardAssumption
  <2> QED BY <2>1, <2>2, <2>3 DEF Accounted, BlockFollows, Promised
<1> QED BY <1>1, <1>2, <1>3, <1>4 DEF IInv

LEMMA NextKeeps == IInv /\ [Next]_vars => IInv'
<1> SUFFICES ASSUME IInv, [Next]_vars PROVE IInv'
  OBVIOUS
<1>1. ASSUME NEW p \in Requests, NEW kind \in kinds, NEW ip \in Ips, NEW who \in Emails,
             Arrive(p, kind, ip, who)
      PROVE  IInv'
  BY <1>1, ArriveKeeps
<1>2. ASSUME NEW p \in Requests, Step(p) PROVE IInv'
  BY <1>2, IncrKeeps, ExpireKeeps, SetBlockKeeps, CheckKeeps, CompareKeeps, VerifyCodeKeeps,
     ClearPairFailureKeeps, InsertUserKeeps, WriteTOTPKeeps DEF Step
<1>3. ASSUME NEW p \in Requests,
             RequestFails(p) \/ BlockUnread(p) \/ EnableTOTP(p) \/ DisableTOTP(p)
      PROVE  IInv'
  BY <1>3, RequestFailsKeeps, BlockUnreadKeeps, EnableTOTPKeeps, DisableTOTPKeeps
<1>4. ASSUME NEW s \in Secrets, SetupTOTP(s) PROVE IInv'
  <2>1. fresh' \subseteq Secrets
    BY <1>4 DEF SetupTOTP, IInv, TypeOK
  <2> QED BY <1>4, <2>1, SetupKeeps DEF SetupTOTP
<1>5. ASSUME NEW k \in Keys, KeyExpires(k) \/ BlockExpires(k) PROVE IInv'
  BY <1>5, KeyExpiresKeeps, BlockExpiresKeeps
<1>6. ASSUME SetupExpires PROVE IInv'
  <2>1. fresh' \subseteq Secrets
    BY <1>6 DEF SetupExpires, IInv, TypeOK
  <2> QED BY <1>6, <2>1, SetupKeeps DEF SetupExpires
<1>7. ASSUME UNCHANGED vars PROVE IInv'
  <2>1. fresh' \subseteq Secrets /\ setup' \in Secrets \cup {None}
    BY <1>7 DEF vars, second, IInv, TypeOK
  <2> QED BY <1>7, <2>1, SetupKeeps DEF vars, second
<1> QED BY <1>1, <1>2, <1>3, <1>4, <1>5, <1>6, <1>7 DEF Next

\* The inductive invariant holds in every state.
THEOREM Invariance == Spec => []IInv
BY InitIsSound, NextKeeps, PTL DEF Spec

\* Counters, guards, requests and secrets keep their types, whatever kinds of request mix.
THEOREM TypeCorrect == Spec => []TypeOK
<1>1. IInv => TypeOK
  BY DEF IInv
<1> QED BY <1>1, Invariance, PTL

\* A counter in Redis has an expiry or the request that made it is about to set one, unless that
\* request failed between INCR and EXPIRE.
THEOREM CountersAlwaysExpire == Spec => []CountersExpire
<1>1. IInv => CountersExpire
  BY DEF IInv
<1> QED BY <1>1, Invariance, PTL

\* However many logins run at once, the wrong passwords of a client and an account stay below the
\* limit but for those let through together and for failures that were not recorded.
THEOREM GuessesStayBounded == Spec => []GuessesAreBounded
<1>1. IInv => GuessesAreBounded
  <2> SUFFICES ASSUME IInv, NEW k \in Pairs \ orphans
               PROVE  guesses[k] <= LimitOf(k) + (Cardinality(Requests) - 1) + faults
    BY DEF GuessesAreBounded
  <2>1. Promised(k) /\ k \in Keys /\ guesses[k] \in Nat /\ LimitOf(k) \in Nat /\ faults \in Nat
    BY PairLimit DEF IInv, Bounded, TypeOK
  <2>2. Cardinality(Guessing(k)) \in Nat /\ Cardinality(Requests) \in Nat
    <3>1. Guessing(k) \subseteq Requests
      BY DEF Guessing
    <3> QED BY <3>1, GuardAssumption, FS_Subset, FS_CardinalityType
  <2> QED BY <2>1, <2>2 DEF Promised
<1> QED BY <1>1, Invariance, PTL

\* The secret EnableTOTP stores is one a code was shown for, also when SetupTOTP replaces the
\* setup key or it expires in between.
THEOREM EnabledSecretIsAlwaysProved == Spec => []EnabledSecretIsProved
<1>1. IInv => EnabledSecretIsProved
  BY DEF IInv
<1> QED BY <1>1, Invariance, PTL

----------------------------------------------------------------------------
(***************************************************************************)
(* The sessions a login opens: refresh token rotation, RefreshTokens taken *)
(* as an instance, for every set of tokens, sessions and requests.         *)
(* Requests and None are the instance's here; no fact about the guards is  *)
(* used.                                                                   *)
(*                                                                         *)
(* OneActivePerFamily is not inductive: Rotate(r) would break it if the    *)
(* token it presents were no longer active.  Locked says that the request  *)
(* holds the row lock from FOR UPDATE to the commit, and Unsettled that the *)
(* row is then still active, because every writer of an active row needs   *)
(* that lock.  Reserved keeps the replacement of one transaction apart     *)
(* from the rows that exist and from the replacements of the others.       *)
(***************************************************************************)

CONSTANTS Tokens, Families

VARIABLES token, lock, tx, aged, inactive, replayed

R == INSTANCE RefreshTokens

\* a transaction past FOR UPDATE holds the lock of the row it presented
Locked ==
    \A r \in Requests :
        /\ tx[r].pc # "idle" => tx[r].token \in Tokens /\ R!Issued(tx[r].token)
        /\ tx[r].pc \notin {"idle", "waiting"} => lock[tx[r].token] = r

\* a row that a transaction is about to rotate or expire is active
Unsettled ==
    \A r \in Requests :
        tx[r].pc \in {"issuing", "rotating", "expiring"} => token[tx[r].token].status = "active"

\* the rows a revocation has marked are active and locked by it
Marked ==
    \A r \in Requests : \A t \in tx[r].marked : token[t].status = "active" /\ lock[t] = r

\* replacements not yet committed are new and distinct
Reserved ==
    \A r \in Requests :
        /\ tx[r].pc = "rotating" => tx[r].new \in Tokens
        /\ tx[r].pc # "rotating" => tx[r].new = None
        /\ tx[r].new \in Tokens =>
             /\ ~R!Issued(tx[r].new)
             /\ \A s \in Requests : tx[s].new = tx[r].new => s = r

\* a row belongs to a session exactly when it was issued
Belongs == \A t \in Tokens : R!Issued(t) <=> token[t].family \in Families

SessionInv == R!TypeOK /\ Locked /\ Unsettled /\ Marked /\ Reserved /\ Belongs /\ R!OneActivePerFamily

-----------------------------------------------------------------------------
\* The states of a transaction that the proofs name are well-typed.
LEMMA TxTyping ==
  /\ R!NoTx \in R!Tx
  /\ \A x \in R!Tx : \A c \in SUBSET Tokens :
        [x EXCEPT !.pc = "revoking", !.chosen = c] \in R!Tx
  BY DEF R!NoTx, R!Tx
\* The end of a transaction forgets it and releases its locks, no others.
LEMMA Ending ==
  ASSUME R!NoneAssumption, SessionInv, NEW r \in Requests, R!End(r)
  PROVE  /\ tx' \in [Requests -> R!Tx] /\ lock' \in [Tokens -> Requests \cup {None}]
         /\ tx'[r] = R!NoTx
         /\ \A s \in Requests : s # r => tx'[s] = tx[s]
         /\ \A t \in Tokens : lock[t] # r => lock'[t] = lock[t]
  BY TxTyping DEF R!End, R!Release, SessionInv, R!TypeOK

\* Opening a session adds the only token of its family.
LEMMA KeepsIssueTokenPair ==
  ASSUME R!NoneAssumption, SessionInv, NEW f \in Families, NEW t \in Tokens, R!IssueTokenPair(f, t)
  PROVE  SessionInv'
  <1>1. R!TypeOK'
    BY DEF SessionInv, R!TypeOK, R!Row, R!Tx, R!NoTx, R!IssueTokenPair, R!Unused, R!NoneAssumption
  <1>2. Locked'
    BY DEF SessionInv, R!TypeOK, R!Row, R!Tx, R!NoTx, Locked, R!Issued, R!IssueTokenPair,
           R!Unused, R!NoneAssumption
  <1>3. Unsettled'
    BY DEF SessionInv, R!TypeOK, R!Row, R!Tx, R!NoTx, Locked, Unsettled, R!Issued,
           R!IssueTokenPair, R!Unused, R!NoneAssumption
  <1>4. Marked'
    BY DEF SessionInv, R!TypeOK, R!Row, R!Tx, R!NoTx, Locked, Unsettled, Marked, R!Issued,
           R!IssueTokenPair, R!Unused, R!NoneAssumption
  <1>5. Reserved'
    BY DEF SessionInv, R!TypeOK, R!Row, R!Tx, R!NoTx, Reserved, R!Issued, R!IssueTokenPair,
           R!Unused, R!NoneAssumption
  <1>6. Belongs'
    BY DEF SessionInv, R!TypeOK, R!Row, R!Tx, Locked, Belongs, R!Issued, R!IssueTokenPair,
           R!Unused, R!NoneAssumption
  <1>7. R!OneActivePerFamily'
    BY DEF SessionInv, R!TypeOK, R!Row, R!Tx, Locked, Unsettled, Belongs, R!Issued,
           R!OneActivePerFamily, R!IssueTokenPair, R!Unused, R!NoneAssumption
  <1> QED
    BY <1>1, <1>2, <1>3, <1>4, <1>5, <1>6, <1>7 DEF SessionInv

\* Sending a refresh touches no row.
LEMMA KeepsRefresh ==
  ASSUME R!NoneAssumption, SessionInv, NEW r \in Requests, NEW t \in Tokens, R!Refresh(r, t)
  PROVE  SessionInv'
  <1>1. R!TypeOK'
    BY DEF SessionInv, R!TypeOK, R!Row, R!Tx, R!NoTx, R!Refresh, R!NoneAssumption
  <1>2. Locked'
    BY DEF SessionInv, R!TypeOK, R!Row, R!Tx, R!NoTx, Locked, R!Issued, R!Refresh,
           R!NoneAssumption
  <1>3. Unsettled'
    BY DEF SessionInv, R!TypeOK, R!Row, R!Tx, R!NoTx, Locked, Unsettled, R!Issued, R!Refresh,
           R!NoneAssumption
  <1>4. Marked'
    BY DEF SessionInv, R!TypeOK, R!Row, R!Tx, R!NoTx, Locked, Unsettled, Marked, R!Issued,
           R!Refresh, R!NoneAssumption
  <1>5. Reserved'
    BY DEF SessionInv, R!TypeOK, R!Row, R!Tx, R!NoTx, Reserved, R!Issued, R!Refresh,
           R!NoneAssumption
  <1>6. Belongs'
    BY DEF SessionInv, R!TypeOK, R!Row, R!Tx, Locked, Belongs, R!Issued, R!Refresh,
           R!NoneAssumption
  <1>7. R!OneActivePerFamily'
    BY DEF SessionInv, R!TypeOK, R!Row, R!Tx, Locked, Unsettled, Belongs, R!Issued,
           R!OneActivePerFamily, R!Refresh, R!NoneAssumption
  <1> QED
    BY <1>1, <1>2, <1>3, <1>4, <1>5, <1>6, <1>7 DEF SessionInv

\* FOR UPDATE grants a lock nobody holds.
LEMMA KeepsLockToken ==
  ASSUME R!NoneAssumption, SessionInv, NEW r \in Requests, R!LockToken(r)
  PROVE  SessionInv'
  <1>1. R!TypeOK'
    <2>1. R!Verdict(tx[r].token) # "idle" => R!Verdict(tx[r].token) \in {"issuing", "expiring", "reuse"}
      BY DEF R!LockToken, R!Verdict, SessionInv, R!TypeOK, R!Row, R!Tx, Locked, R!Issued
    <2>2. tx' \in [Requests -> R!Tx]
      <3>1. CASE R!Verdict(tx[r].token) = "idle"
        BY <3>1, TxTyping DEF R!LockToken, SessionInv, R!TypeOK
      <3>2. CASE R!Verdict(tx[r].token) # "idle"
        <4> DEFINE v == R!Verdict(tx[r].token)
        <4>1. v \in {"issuing", "expiring", "reuse"}
          BY <2>1, <3>2
        <4>2. tx' = [tx EXCEPT ![r].pc = v]
          BY <3>2 DEF R!LockToken
        <4> HIDE DEF v
        <4> QED
          BY <4>1, <4>2 DEF SessionInv, R!TypeOK, R!Tx
      <3> QED
        BY <3>1, <3>2
    <2> QED
      BY <2>2 DEF R!LockToken, SessionInv, R!TypeOK, Locked
  <1>2. Locked'
    <2>1. \A q \in Requests : q # r => tx'[q] = tx[q]
      BY DEF R!LockToken, SessionInv, R!TypeOK
    <2>2. tx'[r].pc # "idle" => tx'[r].token = tx[r].token /\ lock'[tx[r].token] = r
      BY DEF R!LockToken, R!Verdict, R!NoTx, SessionInv, R!TypeOK, Locked, R!Tx
    <2>3. \A t \in Tokens : lock[t] # None => lock'[t] = lock[t]
      BY DEF R!LockToken, SessionInv, R!TypeOK
    <2>4. tx[r].token \in Tokens /\ R!Issued(tx[r].token) /\ UNCHANGED token
      BY DEF R!LockToken, SessionInv, Locked
    <2> QED
      BY <2>1, <2>2, <2>3, <2>4 DEF SessionInv, Locked, R!Issued, R!NoneAssumption
  <1>3. Unsettled'
    <2>1. tx'[r].pc \in {"issuing", "rotating", "expiring"}
            => tx'[r].token = tx[r].token /\ token[tx[r].token].status = "active"
      <3>1. CASE R!Verdict(tx[r].token) = "idle"
        BY <3>1 DEF R!LockToken, SessionInv, R!TypeOK, R!NoTx
      <3>2. CASE R!Verdict(tx[r].token) # "idle"
        <4>1. tx'[r].pc = R!Verdict(tx[r].token) /\ tx'[r].token = tx[r].token
          BY <3>2 DEF R!LockToken, SessionInv, R!TypeOK, R!Tx
        <4>2. R!Verdict(tx[r].token) \in {"issuing", "expiring"}
                => token[tx[r].token].status = "active"
          <5>1. tx[r].token \in Tokens /\ R!Issued(tx[r].token)
            BY DEF R!LockToken, SessionInv, Locked
          <5>2. token[tx[r].token].status \in {"active", "rotated", "revoked", "expired"}
            BY <5>1 DEF SessionInv, R!TypeOK, R!Row, R!Issued
          <5> QED
            BY <5>2 DEF R!Verdict
        <4>3. R!Verdict(tx[r].token) # "rotating"
          BY DEF R!LockToken, R!Verdict, SessionInv, R!TypeOK, R!Row, Locked, R!Issued
        <4> QED
          BY <4>1, <4>2, <4>3
      <3> QED
        BY <3>1, <3>2
    <2>2. \A s \in Requests : s # r => tx'[s] = tx[s]
      BY DEF R!LockToken, SessionInv, R!TypeOK
    <2> QED
      BY <2>1, <2>2 DEF R!LockToken, SessionInv, Unsettled
  <1>4. Marked'
    BY DEF SessionInv, R!TypeOK, R!Row, R!Tx, R!NoTx, Locked, Unsettled, Marked, R!Issued,
           R!LockToken, R!Verdict, R!NoneAssumption
  <1>5. Reserved'
    <2>1. tx'[r].pc # "rotating" /\ tx'[r].new = None
      <3>1. R!Verdict(tx[r].token) # "rotating"
        BY DEF R!LockToken, R!Verdict, SessionInv, R!TypeOK, R!Row, R!Tx, Locked, R!Issued
      <3> QED
        BY <3>1 DEF R!LockToken, SessionInv, R!TypeOK, R!Tx, R!NoTx, Reserved
    <2>2. \A s \in Requests : s # r => tx'[s] = tx[s]
      BY DEF R!LockToken, SessionInv, R!TypeOK
    <2> QED
      BY <2>1, <2>2 DEF R!LockToken, SessionInv, Reserved, R!Issued, R!NoneAssumption
  <1>6. Belongs'
    BY DEF SessionInv, R!TypeOK, R!Row, R!Tx, Locked, Belongs, R!Issued, R!LockToken, R!Verdict,
           R!NoneAssumption
  <1>7. R!OneActivePerFamily'
    BY DEF SessionInv, R!TypeOK, R!Row, R!Tx, Locked, Unsettled, Belongs, R!Issued,
           R!OneActivePerFamily, R!LockToken, R!Verdict, R!NoneAssumption
  <1> QED
    BY <1>1, <1>2, <1>3, <1>4, <1>5, <1>6, <1>7 DEF SessionInv

\* The replacement is a row nobody else has.
LEMMA KeepsInsertReplacement ==
  ASSUME R!NoneAssumption, SessionInv, NEW r \in Requests, NEW n \in Tokens,
         R!InsertReplacement(r, n)
  PROVE  SessionInv'
  <1>1. R!TypeOK'
    BY DEF SessionInv, R!TypeOK, R!Row, R!Tx, R!NoTx, R!InsertReplacement, R!Unused,
           R!NoneAssumption
  <1>2. Locked'
    BY DEF SessionInv, R!TypeOK, R!Row, R!Tx, R!NoTx, Locked, R!Issued, R!InsertReplacement,
           R!Unused, R!NoneAssumption
  <1>3. Unsettled'
    BY DEF SessionInv, R!TypeOK, R!Row, R!Tx, R!NoTx, Locked, Unsettled, R!Issued,
           R!InsertReplacement, R!Unused, R!NoneAssumption
  <1>4. Marked'
    BY DEF SessionInv, R!TypeOK, R!Row, R!Tx, R!NoTx, Locked, Unsettled, Marked, R!Issued,
           R!InsertReplacement, R!Unused, R!NoneAssumption
  <1>5. Reserved'
    BY DEF SessionInv, R!TypeOK, R!Row, R!Tx, R!NoTx, Reserved, R!Issued, R!InsertReplacement,
           R!Unused, R!NoneAssumption
  <1>6. Belongs'
    BY DEF SessionInv, R!TypeOK, R!Row, R!Tx, Locked, Belongs, R!Issued, R!InsertReplacement,
           R!Unused, R!NoneAssumption
  <1>7. R!OneActivePerFamily'
    BY DEF SessionInv, R!TypeOK, R!Row, R!Tx, Locked, Unsettled, Belongs, R!Issued,
           R!OneActivePerFamily, R!InsertReplacement, R!Unused, R!NoneAssumption
  <1> QED
    BY <1>1, <1>2, <1>3, <1>4, <1>5, <1>6, <1>7 DEF SessionInv

\* A rotation replaces the one active row of its session.
LEMMA KeepsRotate ==
  ASSUME R!NoneAssumption, SessionInv, NEW r \in Requests, R!Rotate(r)
  PROVE  SessionInv'
  <1>1. R!TypeOK'
    <2>1. tx' \in [Requests -> R!Tx] /\ lock' \in [Tokens -> Requests \cup {None}]
      BY Ending DEF R!Rotate
    <2>2. tx[r].token \in Tokens /\ tx[r].new \in Tokens
      BY DEF R!Rotate, SessionInv, Locked, Reserved
    <2>3. token' \in [Tokens -> R!Row]
      BY <2>2 DEF R!Rotate, SessionInv, R!TypeOK, R!Row, R!FamilyOf
    <2> QED
      BY <2>1, <2>3 DEF R!Rotate, SessionInv, R!TypeOK
  <1>2. Locked'
    BY DEF SessionInv, R!TypeOK, R!Row, R!Tx, R!NoTx, Locked, R!Issued, R!Rotate, R!End,
           R!Release, R!FamilyOf, R!NoneAssumption
  <1>3. Unsettled'
    BY DEF SessionInv, R!TypeOK, R!Row, R!Tx, R!NoTx, Locked, Unsettled, R!Issued, R!Rotate,
           R!End, R!Release, R!FamilyOf, R!NoneAssumption
  <1>4. Marked'
    BY DEF SessionInv, R!TypeOK, R!Row, R!Tx, R!NoTx, Locked, Unsettled, Marked, R!Issued,
           R!Rotate, R!End, R!Release, R!FamilyOf, R!NoneAssumption
  <1>5. Reserved'
    BY DEF SessionInv, R!TypeOK, R!Row, R!Tx, R!NoTx, Reserved, R!Issued, R!Rotate, R!End,
           R!Release, R!FamilyOf, R!NoneAssumption
  <1>6. Belongs'
    BY DEF SessionInv, R!TypeOK, R!Row, R!Tx, Locked, Belongs, R!Issued, R!Rotate, R!End,
           R!Release, R!FamilyOf, R!NoneAssumption
  <1>7. R!OneActivePerFamily'
    BY DEF SessionInv, R!TypeOK, R!Row, R!Tx, Locked, Unsettled, Belongs, R!Issued,
           R!OneActivePerFamily, R!Rotate, R!End, R!Release, R!FamilyOf, R!NoneAssumption
  <1> QED
    BY <1>1, <1>2, <1>3, <1>4, <1>5, <1>6, <1>7 DEF SessionInv

\* Expiry writes a row that the request has locked.
LEMMA KeepsExpire ==
  ASSUME R!NoneAssumption, SessionInv, NEW r \in Requests, R!Expire(r)
  PROVE  SessionInv'
  <1>1. R!TypeOK'
    <2>1. tx' \in [Requests -> R!Tx] /\ lock' \in [Tokens -> Requests \cup {None}]
      BY Ending DEF R!Expire
    <2>2. token' \in [Tokens -> R!Row]
      BY DEF R!Expire, SessionInv, R!TypeOK, R!Row, Locked
    <2> QED
      BY <2>1, <2>2 DEF R!Expire, SessionInv, R!TypeOK
  <1>2. Locked'
    BY DEF SessionInv, R!TypeOK, R!Row, R!Tx, R!NoTx, Locked, R!Issued, R!Expire, R!End,
           R!Release, R!NoneAssumption
  <1>3. Unsettled'
    BY DEF SessionInv, R!TypeOK, R!Row, R!Tx, R!NoTx, Locked, Unsettled, R!Issued, R!Expire,
           R!End, R!Release, R!NoneAssumption
  <1>4. Marked'
    BY DEF SessionInv, R!TypeOK, R!Row, R!Tx, R!NoTx, Locked, Unsettled, Marked, R!Issued,
           R!Expire, R!End, R!Release, R!NoneAssumption
  <1>5. Reserved'
    <2>1. \A t \in Tokens : R!Issued(t) => R!Issued(t)'
      BY DEF R!Expire, SessionInv, R!TypeOK, R!Row, R!Issued
    <2>2. \A t \in Tokens : ~R!Issued(t) => ~R!Issued(t)'
      BY DEF R!Expire, SessionInv, R!TypeOK, R!Row, R!Issued, Locked
    <2> QED
      BY <2>2, Ending DEF R!Expire, SessionInv, Reserved, R!NoTx, R!NoneAssumption
  <1>6. Belongs'
    BY DEF SessionInv, R!TypeOK, R!Row, R!Tx, Locked, Belongs, R!Issued, R!Expire, R!End,
           R!Release, R!NoneAssumption
  <1>7. R!OneActivePerFamily'
    BY DEF SessionInv, R!TypeOK, R!Row, R!Tx, Locked, Unsettled, Belongs, R!Issued,
           R!OneActivePerFamily, R!Expire, R!End, R!Release, R!NoneAssumption
  <1> QED
    BY <1>1, <1>2, <1>3, <1>4, <1>5, <1>6, <1>7 DEF SessionInv

\* Choosing rows touches none of them.
LEMMA KeepsChooseActive ==
  ASSUME R!NoneAssumption, SessionInv, NEW r \in Requests, R!ChooseActive(r)
  PROVE  SessionInv'
  <1>1. R!TypeOK'
    <2>1. R!ActiveIn(R!FamilyOf(r)) \subseteq Tokens
      BY DEF R!ActiveIn
    <2>2. tx' \in [Requests -> R!Tx]
      <3> DEFINE chosen == R!ActiveIn(R!FamilyOf(r))
      <3>1. tx' = [tx EXCEPT ![r].pc = "revoking", ![r].chosen = chosen] /\ chosen \in SUBSET Tokens
        BY <2>1 DEF R!ChooseActive
      <3> HIDE DEF chosen
      <3>2. tx'[r] = [tx[r] EXCEPT !.pc = "revoking", !.chosen = chosen]
        BY <3>1 DEF SessionInv, R!TypeOK
      <3>3. tx'[r] \in R!Tx
        BY <3>1, <3>2, TxTyping DEF SessionInv, R!TypeOK
      <3> QED
        BY <3>1, <3>3 DEF SessionInv, R!TypeOK
    <2> QED
      BY <2>2 DEF R!ChooseActive, SessionInv, R!TypeOK
  <1>2. Locked'
    BY DEF SessionInv, R!TypeOK, R!Row, R!Tx, R!NoTx, Locked, R!Issued, R!ChooseActive,
           R!ActiveIn, R!NoneAssumption
  <1>3. Unsettled'
    BY DEF SessionInv, R!TypeOK, R!Row, R!Tx, R!NoTx, Locked, Unsettled, R!Issued,
           R!ChooseActive, R!ActiveIn, R!NoneAssumption
  <1>4. Marked'
    BY DEF SessionInv, R!TypeOK, R!Row, R!Tx, R!NoTx, Locked, Unsettled, Marked, R!Issued,
           R!ChooseActive, R!ActiveIn, R!NoneAssumption
  <1>5. Reserved'
    BY DEF SessionInv, R!TypeOK, R!Row, R!Tx, R!NoTx, Reserved, R!Issued, R!ChooseActive,
           R!ActiveIn, R!NoneAssumption
  <1>6. Belongs'
    BY DEF SessionInv, R!TypeOK, R!Row, R!Tx, Locked, Belongs, R!Issued, R!ChooseActive,
           R!ActiveIn, R!NoneAssumption
  <1>7. R!OneActivePerFamily'
    BY DEF SessionInv, R!TypeOK, R!Row, R!Tx, Locked, Unsettled, Belongs, R!Issued,
           R!OneActivePerFamily, R!ChooseActive, R!ActiveIn, R!NoneAssumption
  <1> QED
    BY <1>1, <1>2, <1>3, <1>4, <1>5, <1>6, <1>7 DEF SessionInv

\* The revocation locks rows nobody holds.
LEMMA KeepsLockChosen ==
  ASSUME R!NoneAssumption, SessionInv, NEW r \in Requests, NEW t \in Tokens, R!LockChosen(r, t)
  PROVE  SessionInv'
  <1>1. R!TypeOK'
    <2>1. tx' \in [Requests -> R!Tx]
      BY DEF R!LockChosen, SessionInv, R!TypeOK, R!Tx
    <2>2. lock' \in [Tokens -> Requests \cup {None}]
      BY DEF R!LockChosen, SessionInv, R!TypeOK
    <2> QED
      BY <2>1, <2>2 DEF R!LockChosen, SessionInv, R!TypeOK
  <1>2. Locked'
    <2>1. \A s \in Requests : tx'[s].pc = tx[s].pc /\ tx'[s].token = tx[s].token
      BY DEF R!LockChosen, SessionInv, R!TypeOK, R!Tx
    <2>2. \A u \in Tokens : lock[u] # None => lock'[u] = lock[u]
      BY DEF R!LockChosen, SessionInv, R!TypeOK
    <2> QED
      BY <2>1, <2>2 DEF R!LockChosen, SessionInv, Locked, R!Issued, R!NoneAssumption
  <1>3. Unsettled'
    <2>1. \A s \in Requests : tx'[s].pc = tx[s].pc /\ tx'[s].token = tx[s].token
      BY DEF R!LockChosen, SessionInv, R!TypeOK, R!Tx
    <2> QED
      BY <2>1 DEF R!LockChosen, SessionInv, Unsettled
  <1>4. Marked'
    <2>1. \A s \in Requests : s # r => tx'[s] = tx[s]
      BY DEF R!LockChosen, SessionInv, R!TypeOK
    <2>2. \A u \in Tokens : lock[u] # None => lock'[u] = lock[u]
      BY DEF R!LockChosen, SessionInv, R!TypeOK
    <2>3. \A s \in Requests : tx[s].marked \subseteq Tokens
      BY DEF SessionInv, R!TypeOK, R!Tx
    <2>4. ASSUME NEW u \in tx'[r].marked
          PROVE  token[u].status = "active" /\ lock'[u] = r
      <3>1. CASE token[t].status = "active"
        <4>1. u \in tx[r].marked \/ u = t
          BY <2>4, <3>1 DEF R!LockChosen, SessionInv, R!TypeOK, R!Tx
        <4>2. lock'[t] = r
          BY <3>1 DEF R!LockChosen, SessionInv, R!TypeOK
        <4> QED
          BY <2>2, <2>3, <3>1, <4>1, <4>2 DEF SessionInv, Marked, R!NoneAssumption
      <3>2. CASE token[t].status # "active"
        <4>1. tx'[r].marked = tx[r].marked /\ lock' = lock
          BY <3>2 DEF R!LockChosen, SessionInv, R!TypeOK, R!Tx
        <4> QED
          BY <4>1 DEF SessionInv, Marked
      <3> QED
        BY <3>1, <3>2
    <2> QED
      BY <2>1, <2>2, <2>3, <2>4 DEF R!LockChosen, SessionInv, Marked, R!NoneAssumption
  <1>5. Reserved'
    <2>1. \A s \in Requests : tx'[s].pc = tx[s].pc /\ tx'[s].new = tx[s].new
      BY DEF R!LockChosen, SessionInv, R!TypeOK, R!Tx
    <2> QED
      BY <2>1 DEF R!LockChosen, SessionInv, Reserved, R!Issued
  <1>6. Belongs'
    BY DEF SessionInv, R!TypeOK, R!Row, R!Tx, Locked, Belongs, R!Issued, R!LockChosen,
           R!NoneAssumption
  <1>7. R!OneActivePerFamily'
    BY DEF SessionInv, R!TypeOK, R!Row, R!Tx, Locked, Unsettled, Belongs, R!Issued,
           R!OneActivePerFamily, R!LockChosen, R!NoneAssumption
  <1> QED
    BY <1>1, <1>2, <1>3, <1>4, <1>5, <1>6, <1>7 DEF SessionInv

\* The revocation writes rows that it has locked.
LEMMA KeepsRevokeFamily ==
  ASSUME R!NoneAssumption, SessionInv, NEW r \in Requests, R!RevokeFamily(r)
  PROVE  SessionInv'
  <1>1. R!TypeOK'
    <2>1. tx' \in [Requests -> R!Tx] /\ lock' \in [Tokens -> Requests \cup {None}]
      BY Ending DEF R!RevokeFamily
    <2>2. token' \in [Tokens -> R!Row]
      BY DEF R!RevokeFamily, SessionInv, R!TypeOK, R!Row
    <2>3. R!FamilyOf(r) \in Families
      BY DEF R!RevokeFamily, SessionInv, Locked, Belongs, R!FamilyOf
    <2> QED
      BY <2>1, <2>2, <2>3 DEF R!RevokeFamily, SessionInv, R!TypeOK
  <1>2. Locked'
    BY DEF SessionInv, R!TypeOK, R!Row, R!Tx, R!NoTx, Locked, R!Issued, R!RevokeFamily, R!End,
           R!Release, R!FamilyOf, R!NoneAssumption
  <1>3. Unsettled'
    <2>1. \A t \in Tokens :
            /\ R!Issued(t) <=> R!Issued(t)'
            /\ token'[t].family = token[t].family
            /\ lock[t] # r => token'[t] = token[t]
      BY DEF R!RevokeFamily, SessionInv, R!TypeOK, R!Row, R!Issued, Marked
    <2> QED
      <3> SUFFICES ASSUME NEW s \in Requests
             PROVE  (tx[s].pc \in {"issuing", "rotating", "expiring"} =>
                       token[tx[s].token].status = "active")'
        BY DEF Unsettled
      <3>2. CASE s = r
        BY <3>2, Ending DEF R!RevokeFamily, R!NoTx
      <3>3. CASE s # r
        <4>1. tx'[s] = tx[s]
          BY <3>3, Ending DEF R!RevokeFamily
        <4> SUFFICES ASSUME tx[s].pc \in {"issuing", "rotating", "expiring"}
                     PROVE  token'[tx[s].token].status = "active"
          BY <4>1
        <4>2. tx[s].token \in Tokens /\ lock[tx[s].token] # r
          BY <3>3 DEF SessionInv, Locked
        <4> QED
          BY <2>1, <4>2 DEF SessionInv, Unsettled
      <3> QED
        BY <3>2, <3>3
  <1>4. Marked'
    BY DEF SessionInv, R!TypeOK, R!Row, R!Tx, R!NoTx, Locked, Unsettled, Marked, R!Issued,
           R!RevokeFamily, R!End, R!Release, R!FamilyOf, R!NoneAssumption
  <1>5. Reserved'
    <2>1. \A t \in Tokens :
            /\ R!Issued(t) <=> R!Issued(t)'
            /\ token'[t].family = token[t].family
            /\ lock[t] # r => token'[t] = token[t]
      BY DEF R!RevokeFamily, SessionInv, R!TypeOK, R!Row, R!Issued, Marked
    <2> QED
      <3>1. tx'[r].new = None /\ tx'[r].pc = "idle"
        BY Ending DEF R!RevokeFamily, R!NoTx
      <3>2. \A s \in Requests : s # r => tx'[s] = tx[s]
        BY Ending DEF R!RevokeFamily
      <3> QED
        BY <2>1, <3>1, <3>2 DEF SessionInv, Reserved, R!NoneAssumption
  <1>6. Belongs'
    <2>1. \A t \in Tokens :
            /\ R!Issued(t) <=> R!Issued(t)'
            /\ token'[t].family = token[t].family
            /\ lock[t] # r => token'[t] = token[t]
      BY DEF R!RevokeFamily, SessionInv, R!TypeOK, R!Row, R!Issued, Marked
    <2> QED
      BY <2>1 DEF SessionInv, Belongs
  <1>7. R!OneActivePerFamily'
    BY DEF SessionInv, R!TypeOK, R!Row, R!Tx, Locked, Unsettled, Belongs, R!Issued,
           R!OneActivePerFamily, R!RevokeFamily, R!End, R!Release, R!FamilyOf, R!NoneAssumption
  <1> QED
    BY <1>1, <1>2, <1>3, <1>4, <1>5, <1>6, <1>7 DEF SessionInv

\* A rollback releases the locks of its own transaction.
LEMMA KeepsAbort ==
  ASSUME R!NoneAssumption, SessionInv, NEW r \in Requests, R!Abort(r)
  PROVE  SessionInv'
  <1>1. R!TypeOK'
    BY DEF SessionInv, R!TypeOK, R!Row, R!Tx, R!NoTx, R!Abort, R!End, R!Release, R!NoneAssumption
  <1>2. Locked'
    BY DEF SessionInv, R!TypeOK, R!Row, R!Tx, R!NoTx, Locked, R!Issued, R!Abort, R!End,
           R!Release, R!NoneAssumption
  <1>3. Unsettled'
    BY DEF SessionInv, R!TypeOK, R!Row, R!Tx, R!NoTx, Locked, Unsettled, R!Issued, R!Abort,
           R!End, R!Release, R!NoneAssumption
  <1>4. Marked'
    BY DEF SessionInv, R!TypeOK, R!Row, R!Tx, R!NoTx, Locked, Unsettled, Marked, R!Issued,
           R!Abort, R!End, R!Release, R!NoneAssumption
  <1>5. Reserved'
    BY DEF SessionInv, R!TypeOK, R!Row, R!Tx, R!NoTx, Reserved, R!Issued, R!Abort, R!End,
           R!Release, R!NoneAssumption
  <1>6. Belongs'
    BY DEF SessionInv, R!TypeOK, R!Row, R!Tx, Locked, Belongs, R!Issued, R!Abort, R!End,
           R!Release, R!NoneAssumption
  <1>7. R!OneActivePerFamily'
    BY DEF SessionInv, R!TypeOK, R!Row, R!Tx, Locked, Unsettled, Belongs, R!Issued,
           R!OneActivePerFamily, R!Abort, R!End, R!Release, R!NoneAssumption
  <1> QED
    BY <1>1, <1>2, <1>3, <1>4, <1>5, <1>6, <1>7 DEF SessionInv

\* A logout writes a row nobody has locked.
LEMMA KeepsLogout ==
  ASSUME R!NoneAssumption, SessionInv, NEW t \in Tokens, R!Logout(t)
  PROVE  SessionInv'
  <1>1. R!TypeOK'
    BY DEF SessionInv, R!TypeOK, R!Row, R!Tx, R!NoTx, R!Logout, R!NoneAssumption
  <1>2. Locked'
    BY DEF SessionInv, R!TypeOK, R!Row, R!Tx, R!NoTx, Locked, R!Issued, R!Logout, R!NoneAssumption
  <1>3. Unsettled'
    BY DEF SessionInv, R!TypeOK, R!Row, R!Tx, R!NoTx, Locked, Unsettled, R!Issued, R!Logout,
           R!NoneAssumption
  <1>4. Marked'
    BY DEF SessionInv, R!TypeOK, R!Row, R!Tx, R!NoTx, Locked, Unsettled, Marked, R!Issued,
           R!Logout, R!NoneAssumption
  <1>5. Reserved'
    BY DEF SessionInv, R!TypeOK, R!Row, R!Tx, R!NoTx, Reserved, R!Issued, R!Logout,
           R!NoneAssumption
  <1>6. Belongs'
    BY DEF SessionInv, R!TypeOK, R!Row, R!Tx, Locked, Belongs, R!Issued, R!Logout,
           R!NoneAssumption
  <1>7. R!OneActivePerFamily'
    BY DEF SessionInv, R!TypeOK, R!Row, R!Tx, Locked, Unsettled, Belongs, R!Issued,
           R!OneActivePerFamily, R!Logout, R!NoneAssumption
  <1> QED
    BY <1>1, <1>2, <1>3, <1>4, <1>5, <1>6, <1>7 DEF SessionInv

-----------------------------------------------------------------------------
\* Every step keeps the strengthened invariant.
LEMMA Inductive ==
  ASSUME R!NoneAssumption
  PROVE  SessionInv /\ [R!Next]_R!vars => SessionInv'
  <1> SUFFICES ASSUME SessionInv, [R!Next]_R!vars PROVE SessionInv'
    OBVIOUS
  <1>1. CASE UNCHANGED R!vars
    BY <1>1 DEF R!vars, SessionInv, R!TypeOK, Locked, Unsettled, Marked, Reserved, Belongs,
                R!OneActivePerFamily, R!Issued
  <1>2. ASSUME NEW f \in Families, R!SetUserStatus(f) PROVE SessionInv'
    BY <1>2 DEF R!SetUserStatus, SessionInv, R!TypeOK, Locked, Unsettled, Marked, Reserved,
           Belongs,
                R!OneActivePerFamily, R!Issued
  <1>3. ASSUME NEW t \in Tokens, R!Ages(t) PROVE SessionInv'
    BY <1>3 DEF R!Ages, SessionInv, R!TypeOK, Locked, Unsettled, Marked, Reserved, Belongs,
                R!OneActivePerFamily, R!Issued
  <1>4. ASSUME NEW r \in Requests, R!Statement(r) PROVE SessionInv'
    BY <1>4, KeepsLockToken, KeepsRotate, KeepsExpire, KeepsChooseActive, KeepsRevokeFamily,
       KeepsInsertReplacement, KeepsLockChosen DEF R!Statement
  <1> QED
    BY <1>1, <1>2, <1>3, <1>4, KeepsIssueTokenPair, KeepsLogout, KeepsAbort, KeepsRefresh
       DEF R!Next

\* The strengthened invariant holds initially and is kept.
THEOREM SessionInvariance ==
  ASSUME R!NoneAssumption
  PROVE  R!Spec => []SessionInv
  <1>1. R!Init => SessionInv
    <2> SUFFICES ASSUME R!Init PROVE SessionInv
      OBVIOUS
    <2>1. R!TypeOK
      BY TxTyping DEF R!Init, R!TypeOK, R!Row
    <2>2. Locked /\ Unsettled /\ Marked
      BY DEF R!Init, R!NoTx, Locked, Unsettled, Marked
    <2>3. Reserved
      BY DEF R!Init, R!NoTx, Reserved, R!NoneAssumption
    <2>4. Belongs /\ R!OneActivePerFamily
      BY DEF R!Init, Belongs, R!OneActivePerFamily, R!Issued, R!NoneAssumption
    <2> QED
      BY <2>1, <2>2, <2>3, <2>4 DEF SessionInv
  <1> QED
    BY <1>1, Inductive, PTL DEF R!Spec

\* Rows, locks and transactions of refresh_tokens stay well-typed.
THEOREM SessionTypeCorrect ==
  ASSUME R!NoneAssumption
  PROVE  R!Spec => []R!TypeOK
  BY SessionInvariance, PTL DEF SessionInv

\* rotateRefreshToken cannot fork a login session: whatever refreshes,
\* replays, logouts and rollbacks interleave, it has one working token.
THEOREM SessionNeverForks ==
  ASSUME R!NoneAssumption
  PROVE  R!Spec => []R!OneActivePerFamily
  BY SessionInvariance, PTL DEF SessionInv

\* A row that any step leaves settled is not written again.
LEMMA SettledStep ==
  ASSUME R!NoneAssumption, SessionInv, [R!Next]_R!vars, NEW t \in Tokens, R!Issued(t),
         token[t].status # "active"
  PROVE  token'[t] = token[t]
  <1>1. CASE UNCHANGED token
    BY <1>1
  <1>2. ASSUME NEW f \in Families, NEW u \in Tokens, R!IssueTokenPair(f, u) PROVE token'[t] = token[t]
    BY <1>2 DEF R!IssueTokenPair, R!Unused, SessionInv, R!TypeOK
  <1>3. ASSUME NEW r \in Requests, R!Rotate(r) PROVE token'[t] = token[t]
    BY <1>3 DEF R!Rotate, SessionInv, R!TypeOK, Unsettled, Locked, Reserved
  <1>4. ASSUME NEW r \in Requests, R!Expire(r) PROVE token'[t] = token[t]
    BY <1>4 DEF R!Expire, SessionInv, R!TypeOK, Unsettled
  <1>5. ASSUME NEW r \in Requests, R!RevokeFamily(r) PROVE token'[t] = token[t]
    BY <1>5 DEF R!RevokeFamily, SessionInv, R!TypeOK, Marked
  <1>6. ASSUME NEW u \in Tokens, R!Logout(u) PROVE token'[t] = token[t]
    BY <1>6 DEF R!Logout, SessionInv, R!TypeOK
  <1> QED
    BY <1>1, <1>2, <1>3, <1>4, <1>5, <1>6
    DEF R!Next, R!Statement, R!vars, R!SetUserStatus, R!Ages, R!Refresh, R!LockToken,
        R!InsertReplacement,
        R!ChooseActive, R!LockChosen, R!Abort

\* A rotated, revoked or expired token keeps its row, so that a replay of a
\* rotated token is always recognised.
THEOREM SettledTokens ==
  ASSUME R!NoneAssumption
  PROVE  R!Spec => R!SettledTokensRest
  <1>1. SessionInv /\ [R!Next]_R!vars =>
          [\A t \in Tokens :
             R!Issued(t) /\ token[t].status # "active" => token'[t] = token[t]]_R!vars
    BY SettledStep
  <1> QED
    BY <1>1, SessionInvariance, PTL DEF R!Spec, R!SettledTokensRest

\* A step adds an active token to a known session only in exchange for one.
LEMMA ClosedStep ==
  ASSUME R!NoneAssumption, SessionInv, [R!Next]_R!vars, NEW f \in Families,
         \E t \in Tokens : token[t].family = f, R!ActiveIn(f) = {}
  PROVE  R!ActiveIn(f)' = {}
  <1> SUFFICES ASSUME NEW t \in Tokens, token'[t].family = f, token'[t].status = "active"
               PROVE  FALSE
    BY DEF R!ActiveIn
  <1>1. token[t].status # "active" \/ token[t].family # f
    BY DEF R!ActiveIn
  <1>2. ~R!Issued(t)
    <2>1. CASE token[t].status # "active"
      BY <2>1, SettledStep
    <2>2. CASE token[t].status = "active" /\ token[t].family # f
      <3>1. token'[t].family = token[t].family
        <4>1. CASE UNCHANGED token
          BY <4>1
        <4>2. ASSUME NEW g \in Families, NEW u \in Tokens, R!IssueTokenPair(g, u)
              PROVE  token'[t].family = token[t].family
          BY <4>2, <2>2 DEF R!IssueTokenPair, R!Unused, R!Issued, SessionInv, R!TypeOK
        <4>3. ASSUME NEW r \in Requests, R!Rotate(r) PROVE token'[t].family = token[t].family
          BY <4>3, <2>2 DEF R!Rotate, R!Issued, SessionInv, R!TypeOK, R!Row, Reserved, Locked
        <4>4. ASSUME NEW r \in Requests, R!Expire(r) PROVE token'[t].family = token[t].family
          BY <4>4 DEF R!Expire, SessionInv, R!TypeOK, R!Row
        <4>5. ASSUME NEW r \in Requests, R!RevokeFamily(r) PROVE token'[t].family = token[t].family
          BY <4>5 DEF R!RevokeFamily, SessionInv, R!TypeOK, R!Row
        <4>6. ASSUME NEW u \in Tokens, R!Logout(u) PROVE token'[t].family = token[t].family
          BY <4>6 DEF R!Logout, SessionInv, R!TypeOK, R!Row
        <4> QED
          BY <4>1, <4>2, <4>3, <4>4, <4>5, <4>6
          DEF R!Next, R!Statement, R!vars, R!SetUserStatus, R!Ages, R!Refresh, R!LockToken,
              R!InsertReplacement,
              R!ChooseActive, R!LockChosen, R!Abort
      <3> QED
        BY <3>1, <2>2
    <2> QED
      BY <1>1, <2>1, <2>2
  <1>3. token'[t] # token[t]
    BY <1>2 DEF R!Issued
  <1>4. ASSUME NEW g \in Families, NEW u \in Tokens, R!IssueTokenPair(g, u) PROVE FALSE
    BY <1>3, <1>4 DEF R!IssueTokenPair, SessionInv, R!TypeOK
  <1>5. ASSUME NEW r \in Requests, R!Rotate(r) PROVE FALSE
    <2>1. t = tx[r].new /\ R!FamilyOf(r) = f
      BY <1>2, <1>3, <1>5 DEF R!Rotate, R!Issued, SessionInv, R!TypeOK, R!Row, Locked,
             Unsettled, Reserved
    <2> QED
      BY <2>1, <1>5 DEF R!Rotate, R!FamilyOf, R!ActiveIn, SessionInv, Locked, Unsettled
  <1>6. ASSUME NEW r \in Requests, R!Expire(r) PROVE FALSE
    BY <1>2, <1>3, <1>6 DEF R!Expire, SessionInv, R!TypeOK, R!Issued, Locked
  <1>7. ASSUME NEW r \in Requests, R!RevokeFamily(r) PROVE FALSE
    BY <1>2, <1>3, <1>7 DEF R!RevokeFamily, SessionInv, R!TypeOK, R!Issued, Marked
  <1>8. ASSUME NEW u \in Tokens, R!Logout(u) PROVE FALSE
    BY <1>2, <1>3, <1>8 DEF R!Logout, SessionInv, R!TypeOK, R!Issued
  <1> QED
    BY <1>3, <1>4, <1>5, <1>6, <1>7, <1>8
    DEF R!Next, R!Statement, R!vars, R!SetUserStatus, R!Ages, R!Refresh, R!LockToken,
        R!InsertReplacement,
        R!ChooseActive, R!LockChosen, R!Abort

\* A login session that a logout, an expiry or a revocation has closed is
\* never opened again by a rotation that was under way.
THEOREM ClosedSessions ==
  ASSUME R!NoneAssumption
  PROVE  R!Spec => R!ClosedSessionStaysClosed
  <1>1. SessionInv /\ [R!Next]_R!vars =>
          [\A f \in Families :
             (\E t \in Tokens : token[t].family = f) /\ R!ActiveIn(f) = {} => R!ActiveIn(f)' = {}]_R!vars
    BY ClosedStep
  <1> QED
    BY <1>1, SessionInvariance, PTL DEF R!Spec, R!ClosedSessionStaysClosed
=============================================================================
