------------------------- MODULE GatewayModelsProofs -------------------------
(***************************************************************************)
(* The local copy of Sub2API's groups and models and what administrators   *)
(* and clients make of it, for every set of groups, models, platforms,     *)
(* worlds and requests.                                                    *)
(*                                                                         *)
(* What a sync writes: after each channel the rows are typed, those on     *)
(* offer are the ones the accounts and the channels so far list, at the    *)
(* price of the last channel so far that has a say (After, by induction on *)
(* the channels), beside those the UPDATE did not see (Left); after all of *)
(* them that is what Supported and PriceOf say without an order.  CopyInv  *)
(* carries it to every state, with what the syncs and requests in progress *)
(* hold: of the syncs that list groups one writes at a time and has seen   *)
(* every model, since one without groups adds none meanwhile (Serial).     *)
(*                                                                         *)
(* Syncs: whoever has not outlived its lock holds it (Holding), so no      *)
(* other sync of its kind that holds it too can have written meanwhile     *)
(* (Newest).  Roles: the rows of a group and a purpose were all removed by *)
(* a DELETE or none was (Whole), and a request finds no row of its own     *)
(* before it inserts (Unwritten), so rows of another request left beside   *)
(* the new ones make a second default, which the index refuses.            *)
(***************************************************************************)
EXTENDS GatewayModels, FiniteSetTheorems, SequenceTheorems, WellFoundedInduction, TLAPS

Fetched == {"fetchChannels", "fetchAccounts", "write", "writing"}

Configuring == {"deleteRoles", "insertRoles"}

\* A sync that has not outlived its lock still holds it.
Holding ==
    \A a \in Admins : proc[a].at \in Syncing =>
       /\ proc[a].job \in Jobs /\ (a \in outlived \/ locks[proc[a].job] = a)
       /\ proc[a].at = "writing" => proc[a].job = "models"

\* Numbers of states of Sub2API never run ahead of the clock.
Dated ==
    /\ clock \in Nat /\ modelsBy.since \in 0 .. clock /\ groupsBy.since \in 0 .. clock
    /\ \A a \in Admins : proc[a].at \in Fetched => proc[a].since \in 0 .. clock

\* What a sync that has not outlived its lock has fetched is not older than what a sync of its
\* kind that had not outlived it either has written, and its UPDATE has seen every model.
NotBehind(r) ==
    /\ r.job = "models" => modelsBy.since <= r.since \/ modelsBy.late
    /\ r.job = groupsBy.job => groupsBy.since <= r.since \/ groupsBy.late
    /\ r.at = "writing" => DOMAIN models \subseteq r.seen \/ modelsBy.late

Newest == \A a \in Admins : proc[a].at \in Fetched /\ a \notin outlived => NotBehind(proc[a])

SyncInv ==
    /\ DOMAIN proc = Admins /\ DOMAIN locks = Jobs
    /\ Holding /\ Dated /\ Newest

\* Steps that are no sync's.
LEMMA SyncLeft ==
    ASSUME SyncInv, NEW a \in Admins, NEW r, proc' = [proc EXCEPT ![a] = r],
           r.at \notin Syncing,
           UNCHANGED <<clock, locks, models, groupsBy, modelsBy>>,
           outlived' = outlived \/ outlived' = outlived \ {a}
    PROVE  SyncInv'
<1>1. \A b \in Admins : b # a => proc'[b] = proc[b] /\ (b \in outlived' <=> b \in outlived)
  BY DEF SyncInv
<1>2. proc'[a] = r
  BY DEF SyncInv
<1>3. Fetched \subseteq Syncing
  BY DEF Fetched, Syncing
<1>4. Holding'
  BY <1>1, <1>2 DEF Holding, SyncInv
<1>5. Dated'
  BY <1>1, <1>2, <1>3 DEF Dated, SyncInv
<1>6. Newest'
  BY <1>1, <1>2, <1>3 DEF Newest, SyncInv, NotBehind
<1> QED BY <1>4, <1>5, <1>6 DEF SyncInv

LEMMA SyncSame ==
    ASSUME SyncInv, UNCHANGED <<proc, clock, locks, models, groupsBy, modelsBy, outlived>>
    PROVE  SyncInv'
BY DEF SyncInv, Holding, Dated, Newest, NotBehind

\* A sync goes on, and may write what it has fetched.
LEMMA SyncMoved ==
    ASSUME SyncInv, NEW a \in Admins, proc[a].at \in Syncing, NEW r,
           proc' = [proc EXCEPT ![a] = r], r.at \in Syncing, r.job = proc[a].job,
           r.at = "writing" => r.job = "models",
           r.at \in Fetched => r.since \in 0 .. clock,
           r.at \in Fetched /\ a \notin outlived => NotBehind(r),
           UNCHANGED <<clock, locks, outlived, models, groupsBy, modelsBy>>
    PROVE  SyncInv'
<1>1. \A b \in Admins : b # a => proc'[b] = proc[b]
  BY DEF SyncInv
<1>2. proc'[a] = r
  BY DEF SyncInv
<1>4. Holding'
  BY <1>1, <1>2 DEF Holding, SyncInv
<1>5. Dated'
  BY <1>1, <1>2 DEF Dated, SyncInv
<1>6. Newest'
  BY <1>1, <1>2 DEF Newest, SyncInv, NotBehind
<1> QED BY <1>4, <1>5, <1>6 DEF SyncInv

LEMMA StartSyncKeeps ==
    ASSUME SyncInv, NEW a \in Admins, NEW job \in Jobs, StartSync(a, job)
    PROVE  SyncInv'
<1>1. /\ proc' = [proc EXCEPT ![a] = [at |-> "fetchGroups", job |-> job]] /\ locks[job] = None
      /\ locks' = [locks EXCEPT ![job] = a] /\ proc[a] = Idle
      /\ UNCHANGED <<clock, outlived, models, groupsBy, modelsBy>>
  BY DEF StartSync, Starts, copy
<1>2. \A b \in Admins : b # a => proc'[b] = proc[b]
  BY <1>1 DEF SyncInv
<1>3. proc'[a].at = "fetchGroups" /\ proc'[a].job = job
  BY <1>1 DEF SyncInv
<1>4. \A j \in Jobs : locks'[j] = IF j = job THEN a ELSE locks[j]
  BY <1>1 DEF SyncInv
<1>5. proc'[a].at \notin Fetched
  BY <1>3 DEF Fetched
<1>6. Dated' /\ Newest'
  BY <1>1, <1>2, <1>5 DEF Dated, Newest, NotBehind, SyncInv
<1>7. Holding'
  <2>1. ASSUME NEW b \in Admins, b # a, proc[b].at \in Syncing
        PROVE  /\ proc[b].job \in Jobs /\ (b \in outlived \/ locks'[proc[b].job] = b)
               /\ proc[b].at = "writing" => proc[b].job = "models"
    BY <2>1, <1>1, <1>4, ModelsAssumption DEF Holding, SyncInv
  <2> QED BY <1>1, <1>2, <1>3, <1>4, <2>1 DEF Holding
<1> QED BY <1>1, <1>6, <1>7 DEF SyncInv

LEMMA FetchKeeps ==
    ASSUME SyncInv, NEW a \in Admins, FetchGroups(a) \/ FetchChannels(a) \/ FetchAccounts(a)
    PROVE  SyncInv'
<1>1. UNCHANGED <<clock, locks, outlived, models, groupsBy, modelsBy>>
  BY DEF FetchGroups, FetchChannels, FetchAccounts, copy
<1>2. CASE FetchGroups(a)
  <2> DEFINE r == [at |-> IF proc[a].job = "models" THEN "fetchChannels" ELSE "write",
                   job |-> proc[a].job, groups |-> world.groups, since |-> clock]
  <2>1. proc[a].at = "fetchGroups" /\ proc' = [proc EXCEPT ![a] = r]
    BY <1>2 DEF FetchGroups
  <2>2. r.at \in Fetched /\ r.at # "writing" /\ r.job = proc[a].job /\ r.since = clock
    BY DEF Fetched
  <2>3. r.since \in 0 .. clock /\ NotBehind(r)
    BY <2>2 DEF SyncInv, Dated, NotBehind
  <2>4. r.at \in Syncing /\ proc[a].at \in Syncing
    BY <2>1, <2>2 DEF Syncing, Fetched
  <2> HIDE DEF r
  <2> QED BY <1>1, <2>1, <2>2, <2>3, <2>4, SyncMoved
<1>3. CASE FetchChannels(a)
  <2> DEFINE r == [at |-> "fetchAccounts", job |-> proc[a].job, groups |-> proc[a].groups,
                   since |-> proc[a].since, channels |-> world.channels]
  <2>1. proc[a].at = "fetchChannels" /\ proc' = [proc EXCEPT ![a] = r]
    BY <1>3 DEF FetchChannels, SyncInv
  <2>2. r.at = "fetchAccounts" /\ r.job = proc[a].job /\ r.since = proc[a].since
    OBVIOUS
  <2>3. proc[a].at \in Fetched /\ r.at \in Syncing /\ proc[a].at \in Syncing
    BY <2>1, <2>2 DEF Fetched, Syncing
  <2>4. r.since \in 0 .. clock /\ (a \notin outlived => NotBehind(r))
    BY <2>2, <2>3 DEF SyncInv, Dated, Newest, NotBehind
  <2> HIDE DEF r
  <2> QED BY <1>1, <2>1, <2>2, <2>3, <2>4, SyncMoved
<1>4. CASE FetchAccounts(a)
  <2> DEFINE r == [at |-> "write", job |-> proc[a].job, groups |-> proc[a].groups,
                   since |-> proc[a].since, channels |-> proc[a].channels,
                   accounts |-> world.accounts]
  <2>1. proc[a].at = "fetchAccounts" /\ proc' = [proc EXCEPT ![a] = r]
    BY <1>4 DEF FetchAccounts, SyncInv
  <2>2. r.at = "write" /\ r.job = proc[a].job /\ r.since = proc[a].since
    OBVIOUS
  <2>3. proc[a].at \in Fetched /\ r.at \in Syncing /\ proc[a].at \in Syncing
    BY <2>1, <2>2 DEF Fetched, Syncing
  <2>4. r.since \in 0 .. clock /\ (a \notin outlived => NotBehind(r))
    BY <2>2, <2>3 DEF SyncInv, Dated, Newest, NotBehind
  <2> HIDE DEF r
  <2> QED BY <1>1, <2>1, <2>2, <2>3, <2>4, SyncMoved
<1> QED BY <1>2, <1>3, <1>4

LEMMA MarkStaleKeeps ==
    ASSUME SyncInv, NEW a \in Admins, MarkStale(a)
    PROVE  SyncInv'
<1> DEFINE r == [at |-> "writing", job |-> proc[a].job, groups |-> proc[a].groups,
                 since |-> proc[a].since, channels |-> proc[a].channels,
                 accounts |-> proc[a].accounts, seen |-> DOMAIN models,
                 seenAccounts |-> Known(accounts), seenChannels |-> Known(channels)]
<1>1. /\ proc[a].at = "write" /\ proc[a].job = "models" /\ proc' = [proc EXCEPT ![a] = r]
      /\ UNCHANGED <<clock, locks, outlived, models, groupsBy, modelsBy>>
  BY DEF MarkStale, copy
<1>2. /\ r.at = "writing" /\ r.job = proc[a].job /\ r.since = proc[a].since
      /\ r.seen = DOMAIN models
  OBVIOUS
<1>3. proc[a].at \in Fetched /\ r.at \in Syncing /\ proc[a].at \in Syncing
  BY <1>1, <1>2 DEF Fetched, Syncing
<1>4. r.since \in 0 .. clock /\ (a \notin outlived => NotBehind(r))
  BY <1>2, <1>3 DEF SyncInv, Dated, Newest, NotBehind
<1> HIDE DEF r
<1> QED BY <1>1, <1>2, <1>3, <1>4, SyncMoved

\* What a transaction that writes leaves behind it.
Stamped(a, r, by) ==
    by.since = r.since /\ by.job = r.job /\ (by.late <=> a \in outlived)

LEMMA StampsMean ==
    ASSUME NEW a, WriteGroups(a)
    PROVE  /\ Stamped(a, proc[a], groupsBy')
           /\ proc' = [proc EXCEPT ![a] = [at |-> "unlock", job |-> proc[a].job]]
<1>1. PICK expired \in BOOLEAN : expired <=> a \in outlived
  <2>1. CASE a \in outlived
    BY <2>1, Zenon
  <2>2. CASE a \notin outlived
    BY <2>2, Zenon
  <2> QED BY <2>1, <2>2
<1>2. /\ groupsBy' = [since |-> proc[a].since, job |-> proc[a].job, late |-> expired]
      /\ proc' = [proc EXCEPT ![a] = [at |-> "unlock", job |-> proc[a].job]]
  BY <1>1, Zenon DEF WriteGroups
<1>3. /\ groupsBy'.since = proc[a].since /\ groupsBy'.job = proc[a].job
      /\ groupsBy'.late = expired
  BY <1>2
<1> QED BY <1>1, <1>2, <1>3, Zenon DEF Stamped

LEMMA ModelsStampMeans ==
    ASSUME NEW a, WriteSync(a)
    PROVE  /\ Stamped(a, proc[a], modelsBy')
           /\ modelsBy'.missed = DOMAIN models \ proc[a].seen
           /\ modelsBy'.groups = proc[a].groups /\ modelsBy'.accounts = proc[a].accounts
           /\ modelsBy'.channels = proc[a].channels
<1>1. PICK expired \in BOOLEAN : expired <=> a \in outlived
  <2>1. CASE a \in outlived
    BY <2>1, Zenon
  <2>2. CASE a \notin outlived
    BY <2>2, Zenon
  <2> QED BY <2>1, <2>2
<1>2. modelsBy' = [since |-> proc[a].since, job |-> proc[a].job, late |-> expired,
                   groups |-> proc[a].groups, accounts |-> proc[a].accounts,
                   channels |-> proc[a].channels, missed |-> DOMAIN models \ proc[a].seen]
  BY <1>1, Zenon DEF WriteSync
<1>3. /\ modelsBy'.since = proc[a].since /\ modelsBy'.job = proc[a].job
      /\ modelsBy'.late = expired /\ modelsBy'.missed = DOMAIN models \ proc[a].seen
      /\ modelsBy'.groups = proc[a].groups /\ modelsBy'.accounts = proc[a].accounts
      /\ modelsBy'.channels = proc[a].channels
  BY <1>2
<1> QED BY <1>1, <1>3, Zenon DEF Stamped

\* Two syncs of one kind that hold its lock are one.
LEMMA WritesKeep ==
    ASSUME SyncInv, NEW a \in Admins, WriteSync(a) \/ SyncGroups(a)
    PROVE  /\ SyncInv'
           /\ modelsBy' # modelsBy =>
                 \/ modelsBy'.since >= modelsBy.since /\ modelsBy'.missed = {}
                 \/ modelsBy.late \/ modelsBy'.late
           /\ groupsBy' # groupsBy =>
                 \/ groupsBy'.since >= groupsBy.since \/ groupsBy.late \/ groupsBy'.late
                 \/ groupsBy'.job # groupsBy.job
<1> DEFINE r == proc[a]
<1>1. WriteGroups(a) /\ UNCHANGED <<clock, locks, outlived>>
  BY Zenon DEF WriteSync, SyncGroups
<1>2. /\ r.at \in {"write", "writing"}
      /\ proc' = [proc EXCEPT ![a] = [at |-> "unlock", job |-> r.job]]
      /\ UNCHANGED <<clock, locks, outlived>>
      /\ Stamped(a, r, groupsBy')
  BY <1>1, StampsMean DEF WriteSync, SyncGroups
<1>3. \/ modelsBy' = modelsBy /\ models' = models
      \/ /\ r.at = "writing" /\ Stamped(a, r, modelsBy')
         /\ modelsBy'.missed = DOMAIN models \ r.seen
  <2>1. CASE WriteSync(a)
    BY <2>1, ModelsStampMeans DEF WriteSync
  <2>2. CASE SyncGroups(a)
    BY <2>2 DEF SyncGroups
  <2> QED BY <2>1, <2>2
<1>4. /\ proc[a].at \in Syncing /\ proc[a].at \in Fetched
      /\ \A b \in Admins : b # a => proc'[b] = proc[b]
      /\ proc'[a].at = "unlock" /\ proc'[a].job = r.job
  BY <1>2 DEF Syncing, Fetched, SyncInv
<1>5. /\ proc'[a].at \in Syncing /\ proc'[a].at \notin Fetched /\ Fetched \subseteq Syncing
      /\ "writing" \in Fetched
  BY <1>4 DEF Syncing, Fetched
<1>6. Holding'
  BY <1>2, <1>4, <1>5 DEF Holding, SyncInv
<1>7. Dated'
  BY <1>2, <1>3, <1>4, <1>5 DEF Dated, SyncInv, Stamped
<1>8. Newest'
  <2>1. ASSUME NEW b \in Admins, b # a, proc[b].at \in Fetched, b \notin outlived,
               proc[b].job = r.job
        PROVE  a \in outlived
    BY <1>4, <1>5, <2>1 DEF Holding, SyncInv
  <2>2. ASSUME NEW b \in Admins, b # a, proc[b].at \in Fetched, b \notin outlived
        PROVE  NotBehind(proc[b])'
    <3>1. NotBehind(proc[b]) /\ proc'[b] = proc[b]
      BY <1>4, <2>2 DEF Newest, SyncInv
    <3>2. proc[b].job = "models" => modelsBy'.since <= proc[b].since \/ modelsBy'.late
      <4>1. r.at = "writing" => r.job = "models"
        BY <1>4 DEF Holding, SyncInv
      <4> QED BY <1>3, <2>1, <2>2, <3>1, <4>1 DEF NotBehind, Stamped
    <3>3. proc[b].job = groupsBy'.job => groupsBy'.since <= proc[b].since \/ groupsBy'.late
      BY <1>2, <2>1, <2>2 DEF Stamped
    <3>4. proc[b].at = "writing" => DOMAIN models' \subseteq proc[b].seen \/ modelsBy'.late
      <4>1. CASE modelsBy' = modelsBy /\ models' = models
        BY <3>1, <4>1 DEF NotBehind
      <4>2. CASE r.at = "writing" /\ Stamped(a, r, modelsBy') /\ proc[b].at = "writing"
        <5>1. r.job = "models" /\ proc[b].job = "models"
          BY <1>4, <1>5, <2>2, <4>2 DEF Holding, SyncInv
        <5> QED BY <2>1, <2>2, <4>2, <5>1 DEF Stamped
      <4> QED BY <1>3, <4>1, <4>2
    <3> QED BY <3>1, <3>2, <3>3, <3>4 DEF NotBehind
  <2> QED BY <1>2, <1>4, <1>5, <2>2 DEF Newest
<1>9. modelsBy' # modelsBy =>
         \/ modelsBy'.since >= modelsBy.since /\ modelsBy'.missed = {}
         \/ modelsBy.late \/ modelsBy'.late
  <2> SUFFICES ASSUME modelsBy' # modelsBy, a \notin outlived, ~modelsBy.late
               PROVE  modelsBy'.since >= modelsBy.since /\ modelsBy'.missed = {}
    BY <1>3 DEF Stamped
  <2>1. /\ r.at = "writing" /\ r.job = "models" /\ modelsBy'.since = r.since
        /\ modelsBy'.missed = DOMAIN models \ r.seen
    BY <1>3, <1>4 DEF Stamped, Holding, SyncInv
  <2>2. NotBehind(r)
    BY <1>4 DEF Newest, SyncInv
  <2>3. modelsBy.since <= r.since /\ DOMAIN models \subseteq r.seen
    BY <2>1, <2>2 DEF NotBehind
  <2>4. modelsBy.since \in Nat /\ r.since \in Nat
    BY <1>4 DEF Dated, SyncInv
  <2> QED BY <2>1, <2>3, <2>4
<1>10. groupsBy'.since >= groupsBy.since \/ groupsBy.late \/ groupsBy'.late
          \/ groupsBy'.job # groupsBy.job
  BY <1>2, <1>4 DEF Newest, SyncInv, NotBehind, Dated, Stamped
<1> QED BY <1>2, <1>6, <1>7, <1>8, <1>9, <1>10 DEF SyncInv

LEMMA UnlockKeeps ==
    ASSUME SyncInv, NEW a \in Admins, Unlock(a)
    PROVE  SyncInv'
<1>1. /\ proc[a].at = "unlock" /\ proc' = [proc EXCEPT ![a] = Idle]
      /\ locks' = [locks EXCEPT ![proc[a].job] = IF @ = a THEN None ELSE @]
      /\ outlived' = outlived \ {a} /\ UNCHANGED <<clock, models, groupsBy, modelsBy>>
  BY DEF Unlock, Released, Ends, copy
<1>2. proc[a].job \in Jobs
  BY <1>1 DEF SyncInv, Holding, Syncing
<1>3. /\ \A b \in Admins : b # a => proc'[b] = proc[b]
      /\ proc'[a].at = "idle"
      /\ \A b \in Admins : b # a => (b \in outlived' <=> b \in outlived)
      /\ \A j \in Jobs : locks'[j] = locks[j] \/ locks[j] = a
  BY <1>1, <1>2 DEF SyncInv, Idle
<1>4. "idle" \notin Syncing /\ "idle" \notin Fetched
  BY DEF Syncing, Fetched
<1>5. Holding'
  BY <1>3, <1>4 DEF Holding, SyncInv
<1>6. Dated' /\ Newest'
  BY <1>1, <1>3, <1>4 DEF Dated, Newest, NotBehind, SyncInv
<1> QED BY <1>1, <1>5, <1>6 DEF SyncInv

LEMMA SyncFailsKeeps ==
    ASSUME SyncInv, NEW a \in Admins, SyncFails(a)
    PROVE  SyncInv'
<1> DEFINE r == [at |-> "unlock", job |-> proc[a].job]
<1>1. /\ proc[a].at \in {"fetchGroups", "fetchChannels", "fetchAccounts", "write", "writing"}
      /\ proc' = [proc EXCEPT ![a] = r]
      /\ UNCHANGED <<clock, locks, outlived, models, groupsBy, modelsBy>>
  BY DEF SyncFails, copy, SyncInv
<1>2. /\ r.at \in Syncing /\ r.at \notin Fetched /\ r.at # "writing" /\ r.job = proc[a].job
      /\ proc[a].at \in Syncing
  BY <1>1 DEF Syncing, Fetched
<1> HIDE DEF r
<1> QED BY <1>1, <1>2, SyncMoved

LEMMA ExpireLockKeeps ==
    ASSUME SyncInv, NEW job \in Jobs, ExpireLock(job)
    PROVE  SyncInv'
<1>1. /\ outlived' = outlived \cup {a \in {locks[job]} : Runs(a, job)}
      /\ locks' = [locks EXCEPT ![job] = None]
      /\ UNCHANGED <<proc, clock, models, groupsBy, modelsBy>>
  BY DEF ExpireLock, copy
<1>2. /\ \A a \in outlived : a \in outlived'
      /\ \A j \in Jobs : j # job => locks'[j] = locks[j]
  BY <1>1 DEF SyncInv
<1>3. ASSUME NEW a \in Admins, proc[a].at \in Syncing
      PROVE  /\ proc[a].job \in Jobs /\ (a \in outlived' \/ locks'[proc[a].job] = a)
             /\ proc[a].at = "writing" => proc[a].job = "models"
  <2>1. /\ proc[a].job \in Jobs /\ (a \in outlived \/ locks[proc[a].job] = a)
        /\ proc[a].at = "writing" => proc[a].job = "models"
    BY <1>3 DEF SyncInv, Holding
  <2>2. CASE proc[a].job = job /\ locks[job] = a
    BY <1>1, <1>3, <2>1, <2>2 DEF Runs
  <2> QED BY <1>2, <2>1, <2>2
<1>4. Holding'
  BY <1>1, <1>3 DEF Holding
<1>5. Dated' /\ Newest'
  BY <1>1, <1>2 DEF Dated, Newest, NotBehind, SyncInv
<1> QED BY <1>1, <1>4, <1>5 DEF SyncInv

LEMMA ChangeWorldKeeps ==
    ASSUME SyncInv, ChangeWorld
    PROVE  SyncInv'
<1>1. clock' = clock + 1 /\ UNCHANGED <<proc, locks, outlived, models, groupsBy, modelsBy>>
  BY DEF ChangeWorld, copy
<1>2. clock \in Nat /\ 0 .. clock \subseteq 0 .. clock' /\ clock' \in Nat
  BY <1>1 DEF SyncInv, Dated
<1>3. Dated'
  BY <1>1, <1>2 DEF SyncInv, Dated
<1> QED BY <1>1, <1>3 DEF SyncInv, Holding, Newest, NotBehind

\* What syncs rely on is kept by every step; only their transactions write groups and models.
LEMMA SyncKept ==
    ASSUME SyncInv, [Next]_vars
    PROVE  /\ SyncInv'
           /\ modelsBy' # modelsBy =>
                 \/ modelsBy'.since >= modelsBy.since /\ modelsBy'.missed = {}
                 \/ modelsBy.late \/ modelsBy'.late
           /\ groupsBy' # groupsBy =>
                 \/ groupsBy'.since >= groupsBy.since \/ groupsBy.late \/ groupsBy'.late
                 \/ groupsBy'.job # groupsBy.job
<1> DEFINE Calm == SyncInv' /\ modelsBy' = modelsBy /\ groupsBy' = groupsBy
<1>1. ASSUME NEW a \in Admins, \E job \in Jobs : StartSync(a, job)
      PROVE  Calm
  BY <1>1, StartSyncKeeps DEF StartSync, copy
<1>2. ASSUME NEW a \in Admins,
             FetchGroups(a) \/ FetchChannels(a) \/ FetchAccounts(a) \/ MarkStale(a)
      PROVE  Calm
  BY <1>2, FetchKeeps, MarkStaleKeeps DEF FetchGroups, FetchChannels, FetchAccounts, MarkStale,
                                          copy
<1>3. ASSUME NEW a \in Admins, Unlock(a) \/ SyncFails(a)
      PROVE  Calm
  BY <1>3, UnlockKeeps, SyncFailsKeeps DEF Unlock, SyncFails, copy
<1>4. ASSUME NEW a \in Admins, CreateGroup(a) \/ ReplacePurposes(a) \/ UNCHANGED vars
      PROVE  Calm
  BY <1>4, SyncSame DEF CreateGroup, ReplacePurposes, copy, vars
<1>5. ASSUME NEW a \in Admins,
             Die(a) \/ InsertRoles(a) \/ Respond(a)
      PROVE  Calm
  <2>1. /\ proc' = [proc EXCEPT ![a] = Idle] /\ UNCHANGED <<clock, locks, models, groupsBy, modelsBy>>
        /\ outlived' = outlived \/ outlived' = outlived \ {a}
    BY <1>5 DEF Die, InsertRoles, Respond, Ends, copy
  <2>2. Idle.at \notin Syncing
    BY DEF Idle, Syncing
  <2> QED BY <2>1, <2>2, SyncLeft
<1>6. ASSUME NEW a \in Admins, StartConfig(a) \/ StartProvider(a)
      PROVE  Calm
  <2>1. CASE StartConfig(a)
    <3>1. PICK g \in Groups, c \in Configs :
             /\ Starts(a, "config", [at |-> "deleteRoles", group |-> g, config |-> c,
                                       purposes |-> ActiveKeys, by |-> requests])
             /\ UNCHANGED <<world, clock, copy, console, locks, traffic, outlived, answer, faults>>
      BY <2>1 DEF StartConfig
    <3> DEFINE r == [at |-> "deleteRoles", group |-> g, config |-> c,
                     purposes |-> ActiveKeys, by |-> requests]
    <3>2. proc' = [proc EXCEPT ![a] = r] /\ r.at \notin Syncing
      BY <3>1 DEF Starts, Syncing
    <3>3. UNCHANGED <<clock, locks, models, groupsBy, modelsBy, outlived>>
      BY <3>1 DEF copy
    <3> HIDE DEF r
    <3> QED BY <3>2, <3>3, SyncLeft
  <2>2. CASE StartProvider(a)
    <3>1. PICK g \in Groups :
             /\ Starts(a, "provider", [at |-> "readModels", group |-> g])
             /\ UNCHANGED <<world, clock, copy, console, locks, traffic, outlived, answer, faults>>
      BY <2>2 DEF StartProvider
    <3> DEFINE r == [at |-> "readModels", group |-> g]
    <3>2. proc' = [proc EXCEPT ![a] = r] /\ r.at \notin Syncing
      BY <3>1 DEF Starts, Syncing
    <3>3. UNCHANGED <<clock, locks, models, groupsBy, modelsBy, outlived>>
      BY <3>1 DEF copy
    <3> HIDE DEF r
    <3> QED BY <3>2, <3>3, SyncLeft
  <2> QED BY <1>6, <2>1, <2>2
<1>7. ASSUME NEW a \in Admins, DeleteRoles(a) \/ ReadModels(a) \/ ReadConfigs(a)
      PROVE  Calm
  <2>1. UNCHANGED <<clock, locks, models, groupsBy, modelsBy, outlived>>
    BY <1>7 DEF DeleteRoles, ReadModels, ReadConfigs, copy
  <2>2. \E r : proc' = [proc EXCEPT ![a] = r] /\ r.at \in {"insertRoles", "readConfigs", "respond"}
    BY <1>7 DEF DeleteRoles, ReadModels, ReadConfigs, SyncInv
  <2>3. \A x \in {"insertRoles", "readConfigs", "respond"} : x \notin Syncing
    BY DEF Syncing
  <2> QED BY <2>1, <2>2, <2>3, SyncLeft
<1>8. CASE (\E job \in Jobs : ExpireLock(job)) \/ ChangeWorld
  BY <1>8, ExpireLockKeeps, ChangeWorldKeeps DEF ExpireLock, ChangeWorld, copy
<1>9. CASE UNCHANGED vars
  BY <1>9, SyncSame DEF copy, vars
<1>10. CASE \E a \in Admins : WriteSync(a) \/ SyncGroups(a)
  BY <1>10, WritesKeep
<1>11. CASE Calm
  BY <1>11
<1> HIDE DEF Calm
<1> QED BY <1>1, <1>2, <1>3, <1>4, <1>5, <1>6, <1>7, <1>8, <1>9, <1>10, <1>11 DEF Next

LEMMA SyncInit ==
    ASSUME Init
    PROVE  SyncInv
<1>1. /\ proc = [a \in Admins |-> Idle] /\ locks = [j \in Jobs |-> None] /\ clock = 0
      /\ groupsBy.since = 0 /\ modelsBy.since = 0
  BY DEF Init
<1>2. \A a \in Admins : proc[a].at \notin Syncing /\ proc[a].at \notin Fetched
  BY <1>1 DEF Idle, Syncing, Fetched
<1> QED BY <1>1, <1>2 DEF SyncInv, Holding, Dated, Newest

\* SyncGroups and SyncModels write an older state of Sub2API over a newer one, or miss models of
\* another sync, only when a lock was outlived or, for the groups, when the two are of different
\* kinds, however many of them overlap.
THEOREM OvertakenOnlyForACause ==
    Spec => OvertakenForACause
<1>1. Init => SyncInv
  BY SyncInit
<1>2. SyncInv /\ [Next]_vars =>
         /\ SyncInv'
         /\ modelsBy' # modelsBy =>
               \/ modelsBy'.since >= modelsBy.since /\ modelsBy'.missed = {}
               \/ modelsBy.late \/ modelsBy'.late
         /\ groupsBy' # groupsBy =>
               \/ groupsBy'.since >= groupsBy.since \/ groupsBy.late \/ groupsBy'.late
               \/ groupsBy'.job # groupsBy.job
  BY SyncKept
<1>3. SyncInv /\ [Next]_vars =>
         [/\ modelsBy' # modelsBy =>
                \/ modelsBy'.since >= modelsBy.since /\ modelsBy'.missed = {}
                \/ modelsBy.late \/ modelsBy'.late
          /\ groupsBy' # groupsBy =>
                \/ groupsBy'.since >= groupsBy.since \/ groupsBy.late \/ groupsBy'.late
                \/ groupsBy'.job # groupsBy.job]_vars
  BY <1>2
<1>4. SyncInv /\ [Next]_vars => SyncInv'
  BY <1>2
<1> QED BY <1>1, <1>3, <1>4, PTL DEF Spec, OvertakenForACause

Busy == Configuring \cup {"respond"}

Same(x, y) == x.group = y.group /\ x.purpose = y.purpose

\* The rows of a group and a purpose are one request's, and one of them is the default.
OfOne(rows) ==
    /\ UniqueRoles(rows)
    /\ \A x, y \in rows : Same(x, y) => x.by = y.by
    /\ \A x \in rows : \E d \in rows : Same(x, d) /\ d.default

\* The rows carry numbers of requests that have arrived, and a sort order.
Numbered(rows, n) == \A x \in rows : x.by \in Nat /\ x.by < n /\ x.sort \in Nat

\* A request that has not inserted yet has no row.
Unwritten(r, rows) == \A x \in rows : x.by # r.by

\* What UpdateOfficialModelConfig has checked before its transaction.
Asked(r, n) ==
    /\ r.config \in Configs /\ r.purposes \subseteq Purposes /\ r.by \in Nat /\ r.by < n

\* What a DELETE has removed it has removed as a whole.
Whole(gone, rows) == \A x, y \in rows : Same(x, y) => (x \in gone <=> y \in gone)

Removing(r) ==
    r.at = "insertRoles" =>
       /\ Numbered(r.gone, requests) /\ Whole(r.gone, roles)
       /\ \A b \in Admins : proc[b].at \in Configuring => Unwritten(proc[b], r.gone)

RolesInv ==
    /\ DOMAIN proc = Admins /\ requests \in Nat /\ enabled \subseteq Purposes
    /\ OfOne(roles) /\ Numbered(roles, requests)
    /\ \A a \in Admins : proc[a].at \in Configuring =>
          /\ Asked(proc[a], requests) /\ Unwritten(proc[a], roles)
          /\ \A b \in Admins : proc[b].at \in Configuring /\ b # a => proc[b].by # proc[a].by
    /\ \A a \in Admins : Removing(proc[a])
    /\ \A a \in Admins : proc[a].at = "respond" => \A x \in proc[a].configs : x.sort \in Nat
    /\ ProviderIsUsable

\* Steps of other requests than those.
LEMMA RolesLeft ==
    ASSUME RolesInv, DOMAIN proc' = Admins, requests' \in {requests, requests + 1},
           \A b \in Admins : proc'[b] = proc[b] \/ proc'[b].at \notin Busy,
           enabled' \subseteq Purposes, UNCHANGED <<roles, answer>>
    PROVE  RolesInv'
<1>1. /\ requests' \in Nat /\ requests <= requests' /\ requests \in Nat
      /\ \A n \in Nat : n < requests => n < requests'
  BY DEF RolesInv
<1>2. /\ \A b \in Admins : proc'[b].at \in Configuring => proc'[b] = proc[b]
      /\ \A b \in Admins : proc'[b].at = "respond" => proc'[b] = proc[b]
      /\ "insertRoles" \in Configuring
  BY DEF Busy, Configuring
<1>3. OfOne(roles') /\ Numbered(roles', requests')
  BY <1>1 DEF RolesInv, Numbered
<1>4. \A a \in Admins : proc'[a].at \in Configuring =>
          /\ Asked(proc'[a], requests') /\ Unwritten(proc'[a], roles')
          /\ \A b \in Admins : proc'[b].at \in Configuring /\ b # a => proc'[b].by # proc'[a].by
  BY <1>1, <1>2 DEF RolesInv, Asked
<1>5. \A a \in Admins : Removing(proc[a])'
  <2> SUFFICES ASSUME NEW a \in Admins, proc'[a].at = "insertRoles"
               PROVE  /\ Numbered(proc'[a].gone, requests') /\ Whole(proc'[a].gone, roles')
                      /\ \A b \in Admins : proc'[b].at \in Configuring =>
                            Unwritten(proc'[b], proc'[a].gone)
    BY DEF Removing
  <2>1. proc'[a] = proc[a]
    BY <1>2
  <2>2. /\ Numbered(proc[a].gone, requests) /\ Whole(proc[a].gone, roles)
        /\ \A b \in Admins : proc[b].at \in Configuring => Unwritten(proc[b], proc[a].gone)
    BY <2>1 DEF RolesInv, Removing
  <2>3. Numbered(proc[a].gone, requests')
    BY <1>1, <2>2 DEF Numbered
  <2> QED BY <1>2, <2>1, <2>2, <2>3
<1>6. \A a \in Admins : proc'[a].at = "respond" => \A x \in proc'[a].configs : x.sort \in Nat
  BY <1>2 DEF RolesInv
<1>7. ProviderIsUsable'
  BY DEF RolesInv, ProviderIsUsable
<1> QED BY <1>1, <1>3, <1>4, <1>5, <1>6, <1>7 DEF RolesInv

\* ActiveKeys are purposes.
LEMMA KeysArePurposes ==
    ASSUME RolesInv
    PROVE  ActiveKeys \subseteq Purposes
BY ModelsAssumption DEF RolesInv, ActiveKeys

LEMMA StartConfigKeeps ==
    ASSUME RolesInv, NEW a \in Admins, StartConfig(a)
    PROVE  RolesInv'
<1>1. PICK g \in Groups, c \in Configs :
         /\ Starts(a, "config", [at |-> "deleteRoles", group |-> g, config |-> c,
                                   purposes |-> ActiveKeys, by |-> requests])
         /\ UNCHANGED <<world, clock, copy, console, locks, traffic, outlived, answer, faults>>
  BY DEF StartConfig
<1>2. PICK r : r = [at |-> "deleteRoles", group |-> g, config |-> c,
                    purposes |-> ActiveKeys, by |-> requests]
  OBVIOUS
<1>3. /\ proc' = [proc EXCEPT ![a] = r] /\ requests' = requests + 1
      /\ UNCHANGED <<roles, enabled, answer>>
  BY <1>1, <1>2 DEF Starts, console
<1>4. r.at = "deleteRoles" /\ r.config = c /\ r.purposes = ActiveKeys /\ r.by = requests
  BY <1>2
<1>5. /\ requests \in Nat /\ requests' \in Nat /\ DOMAIN proc' = Admins
      /\ \A n \in Nat : n < requests => n < requests' /\ n # requests
  BY <1>3 DEF RolesInv
<1>6. /\ proc'[a] = r /\ \A b \in Admins : b # a => proc'[b] = proc[b]
  BY <1>3 DEF RolesInv
<1>7. OfOne(roles') /\ Numbered(roles', requests')
  BY <1>3, <1>5 DEF RolesInv, Numbered
<1>8. Asked(r, requests') /\ Unwritten(r, roles)
  BY <1>3, <1>4, <1>5, KeysArePurposes DEF RolesInv, Asked, Unwritten, Numbered
<1>9. \A b \in Admins : b # a /\ proc'[b].at \in Configuring =>
         proc'[b].by < requests /\ proc'[b].by \in Nat /\ proc'[b].by # r.by
  BY <1>4, <1>5, <1>6 DEF RolesInv, Asked
<1>10. ASSUME NEW b \in Admins, proc'[b].at \in Configuring
       PROVE  /\ Asked(proc'[b], requests') /\ Unwritten(proc'[b], roles')
              /\ \A e \in Admins : proc'[e].at \in Configuring /\ e # b => proc'[e].by # proc'[b].by
  <2>1. CASE b = a
    BY <1>3, <1>6, <1>8, <1>9, <2>1
  <2>2. CASE b # a
    <3>1. Asked(proc[b], requests) /\ Unwritten(proc[b], roles)
      BY <1>6, <1>10, <2>2 DEF RolesInv
    <3>2. Asked(proc'[b], requests') /\ Unwritten(proc'[b], roles')
      BY <1>3, <1>5, <1>6, <2>2, <3>1 DEF Asked
    <3>3. ASSUME NEW e \in Admins, proc'[e].at \in Configuring, e # b
          PROVE  proc'[e].by # proc'[b].by
      BY <1>6, <1>9, <1>10, <2>2, <3>3 DEF RolesInv
    <3> QED BY <3>2, <3>3
  <2> QED BY <2>1, <2>2
<1>11. ASSUME NEW b \in Admins
       PROVE  Removing(proc[b])'
  <2> SUFFICES ASSUME proc'[b].at = "insertRoles"
               PROVE  /\ Numbered(proc'[b].gone, requests') /\ Whole(proc'[b].gone, roles')
                      /\ \A e \in Admins : proc'[e].at \in Configuring =>
                            Unwritten(proc'[e], proc'[b].gone)
    BY DEF Removing
  <2>1. b # a /\ proc'[b] = proc[b]
    BY <1>4, <1>6
  <2>2. /\ Numbered(proc[b].gone, requests) /\ Whole(proc[b].gone, roles)
        /\ \A e \in Admins : proc[e].at \in Configuring => Unwritten(proc[e], proc[b].gone)
    BY <2>1 DEF RolesInv, Removing
  <2>3. Numbered(proc[b].gone, requests') /\ Unwritten(r, proc[b].gone)
    BY <1>4, <1>5, <2>2 DEF Numbered, Unwritten
  <2> QED BY <1>3, <1>6, <2>1, <2>2, <2>3
<1>12. \A b \in Admins : proc'[b].at = "respond" => \A x \in proc'[b].configs : x.sort \in Nat
  BY <1>4, <1>6 DEF RolesInv
<1>13. ProviderIsUsable' /\ enabled' \subseteq Purposes
  BY <1>3 DEF RolesInv, ProviderIsUsable
<1> QED BY <1>5, <1>7, <1>10, <1>11, <1>12, <1>13 DEF RolesInv

LEMMA DeleteRolesKeeps ==
    ASSUME RolesInv, NEW a \in Admins, DeleteRoles(a)
    PROVE  RolesInv'
<1>1. PICK gone : gone = {x \in roles : x.group = proc[a].group /\ x.purpose \in proc[a].purposes}
  OBVIOUS
<1>2. PICK r : r = [at |-> "insertRoles", group |-> proc[a].group, config |-> proc[a].config,
                    purposes |-> proc[a].purposes, by |-> proc[a].by, gone |-> gone]
  OBVIOUS
<1>3. /\ proc' = [proc EXCEPT ![a] = r] /\ proc[a].at = "deleteRoles"
      /\ UNCHANGED <<roles, enabled, answer, requests>>
  BY <1>1, <1>2 DEF DeleteRoles, console
<1>4. /\ r.at = "insertRoles" /\ r.config = proc[a].config /\ r.purposes = proc[a].purposes
      /\ r.by = proc[a].by /\ r.gone = gone
  BY <1>2
<1>5. /\ proc'[a] = r /\ \A b \in Admins : b # a => proc'[b] = proc[b]
      /\ DOMAIN proc' = Admins
  BY <1>3 DEF RolesInv
<1>6. \A b \in Admins : (proc'[b].at \in Configuring <=> proc[b].at \in Configuring)
  BY <1>3, <1>4, <1>5 DEF Configuring
<1>7. \A b \in Admins : proc'[b].at \in Configuring =>
         /\ proc'[b].by = proc[b].by /\ proc'[b].config = proc[b].config
         /\ proc'[b].purposes = proc[b].purposes
  BY <1>4, <1>5
<1>8. \A b \in Admins : proc'[b].at \in Configuring =>
          /\ Asked(proc'[b], requests') /\ Unwritten(proc'[b], roles')
          /\ \A e \in Admins : proc'[e].at \in Configuring /\ e # b => proc'[e].by # proc'[b].by
  BY <1>3, <1>6, <1>7 DEF RolesInv, Asked, Unwritten
<1>9. gone \subseteq roles /\ Whole(gone, roles) /\ Numbered(gone, requests)
  BY <1>1 DEF Whole, Same, RolesInv, Numbered
<1>10. ASSUME NEW b \in Admins
       PROVE  Removing(proc[b])'
  <2> SUFFICES ASSUME proc'[b].at = "insertRoles"
               PROVE  /\ Numbered(proc'[b].gone, requests') /\ Whole(proc'[b].gone, roles')
                      /\ \A e \in Admins : proc'[e].at \in Configuring =>
                            Unwritten(proc'[e], proc'[b].gone)
    BY DEF Removing
  <2>1. CASE b = a
    <3>1. \A e \in Admins : proc'[e].at \in Configuring => Unwritten(proc'[e], gone)
      BY <1>3, <1>8, <1>9 DEF Unwritten
    <3> QED BY <1>3, <1>4, <1>5, <1>9, <2>1, <3>1
  <2>2. CASE b # a
    BY <1>3, <1>5, <1>6, <1>7, <2>2 DEF RolesInv, Removing, Unwritten
  <2> QED BY <2>1, <2>2
<1>11. \A b \in Admins : proc'[b].at = "respond" => \A x \in proc'[b].configs : x.sort \in Nat
  BY <1>4, <1>5 DEF RolesInv
<1>12. ProviderIsUsable' /\ enabled' \subseteq Purposes /\ requests' \in Nat
       /\ OfOne(roles') /\ Numbered(roles', requests')
  BY <1>3 DEF RolesInv, ProviderIsUsable
<1> QED BY <1>5, <1>8, <1>10, <1>11, <1>12 DEF RolesInv

\* Where there are rows there is a default.
Defaulted(rows) == \A x \in rows : \E d \in rows : Same(x, d) /\ d.default

\* The rows a request inserts.
LEMMA RowsInserted ==
    ASSUME NEW r, NEW n, Asked(r, n)
    PROVE  /\ \A x \in RolesOf(r) : x.by = r.by /\ x.sort \in Nat
           /\ Defaulted(RolesOf(r))
<1> DEFINE ms(q) == r.config[q].models
           row(q, i, b) == [group |-> r.group, purpose |-> q, model |-> ms(q)[i], sort |-> i,
                            default |-> b, by |-> r.by]
           cell(q, i) == row(q, i, ms(q)[i] = DefaultOf(r.config[q]))
<1>0. RolesOf(r) = UNION {{cell(q, i) : i \in DOMAIN ms(q)} : q \in r.purposes}
  BY Zenon DEF RolesOf
<1>1. ASSUME NEW q \in r.purposes
      PROVE  /\ ms(q) \in Seq(Models) /\ DOMAIN ms(q) = 1 .. Len(ms(q)) /\ Len(ms(q)) \in Nat
  BY <1>1, ModelsAssumption DEF Asked
<1>2. ASSUME NEW x \in RolesOf(r)
      PROVE  \E q \in r.purposes : \E i \in DOMAIN ms(q), b \in BOOLEAN : x = row(q, i, b)
  <2>1. PICK q \in r.purposes : \E i \in DOMAIN ms(q) :
           x = cell(q, i)
    <3> HIDE DEF cell
    <3> QED BY <1>0, <1>2
  <2>3. PICK i \in DOMAIN ms(q) : x = cell(q, i)
    BY <2>1, Zenon
  <2>2. PICK b \in BOOLEAN : b = (ms(q)[i] = DefaultOf(r.config[q]))
    BY Zenon
  <2> QED BY <2>3, <2>2, Zenon
<1>3. ASSUME NEW q \in r.purposes, NEW i \in DOMAIN ms(q), ms(q)[i] = DefaultOf(r.config[q])
      PROVE  row(q, i, TRUE) \in RolesOf(r)
  <2>1. (ms(q)[i] = DefaultOf(r.config[q])) = TRUE
    BY <1>3, Zenon
  <2>2. cell(q, i) \in RolesOf(r)
    <3> HIDE DEF cell
    <3> QED BY <1>0
  <2> QED BY <2>1, <2>2, Zenon
<1>4. ASSUME NEW q \in r.purposes, NEW i \in DOMAIN ms(q)
      PROVE  \E j \in DOMAIN ms(q) : ms(q)[j] = DefaultOf(r.config[q])
  <2>1. ms(q) # <<>> /\ 1 \in DOMAIN ms(q) /\ Head(ms(q)) = ms(q)[1]
    BY <1>1, <1>4
  <2>2. CASE r.config[q].default \in Range(ms(q))
    BY <2>1, <2>2 DEF DefaultOf, Range
  <2>3. CASE r.config[q].default \notin Range(ms(q))
    BY <2>1, <2>3 DEF DefaultOf
  <2> QED BY <2>2, <2>3
<1>5. ASSUME NEW q \in r.purposes, NEW i \in DOMAIN ms(q), NEW b \in BOOLEAN
      PROVE  /\ row(q, i, b).by = r.by /\ row(q, i, b).sort = i /\ row(q, i, b).group = r.group
             /\ row(q, i, b).purpose = q /\ row(q, i, b).default = b
  OBVIOUS
<1>6. ASSUME NEW x \in RolesOf(r)
      PROVE  x.by = r.by /\ x.sort \in Nat
  <2>1. PICK q \in r.purposes : \E i \in DOMAIN ms(q), b \in BOOLEAN : x = row(q, i, b)
    BY <1>2, <1>6
  <2>2. PICK i \in DOMAIN ms(q), b \in BOOLEAN : x = row(q, i, b)
    BY <2>1
  <2> HIDE DEF row
  <2> QED BY <1>1, <1>5, <2>2
<1>7. ASSUME NEW x \in RolesOf(r)
      PROVE  \E d \in RolesOf(r) : Same(x, d) /\ d.default
  <2>1. PICK q \in r.purposes : \E i \in DOMAIN ms(q), b \in BOOLEAN : x = row(q, i, b)
    BY <1>2, <1>7
  <2>0. PICK i \in DOMAIN ms(q), b \in BOOLEAN : x = row(q, i, b)
    BY <2>1
  <2>2. PICK j \in DOMAIN ms(q) : ms(q)[j] = DefaultOf(r.config[q])
    BY <1>4, <2>0
  <2>3. row(q, j, TRUE) \in RolesOf(r)
    BY <1>3, <2>2
  <2>4. Same(x, row(q, j, TRUE)) /\ row(q, j, TRUE).default = TRUE
    BY <2>0 DEF Same
  <2> HIDE DEF row
  <2> QED BY <2>3, <2>4, Zenon
<1> QED BY <1>6, <1>7 DEF Defaulted

\* Rows that are still there when a request inserts its own leave it no default to add: the index
\* over the defaults refuses the second one.
LEMMA NothingBeside ==
    ASSUME NEW rows, NEW gone, NEW mine, OfOne(rows), Whole(gone, rows),
           Defaulted(mine),
           NEW k, \A x \in mine : x.by = k, \A x \in rows : x.by # k,
           UniqueRoles((rows \ gone) \cup mine),
           NEW x \in rows, x \notin gone, NEW y \in mine
    PROVE  ~Same(x, y)
<1> SUFFICES ASSUME Same(x, y) PROVE FALSE
  OBVIOUS
<1>1. PICK d \in rows : Same(x, d) /\ d.default
  BY DEF OfOne
<1>2. d \notin gone
  BY <1>1 DEF Whole
<1>3. PICK e \in mine : Same(y, e) /\ e.default
  BY DEF Defaulted
<1>4. d # e /\ d.group = e.group /\ d.purpose = e.purpose
  BY <1>1, <1>3 DEF Same
<1>5. d \in (rows \ gone) \cup mine /\ e \in (rows \ gone) \cup mine
  BY <1>2
<1>6. ~(d.default /\ e.default)
  BY <1>4, <1>5 DEF UniqueRoles
<1> QED BY <1>1, <1>3, <1>6, Zenon

LEMMA InsertRolesKeeps ==
    ASSUME RolesInv, NEW a \in Admins, InsertRoles(a)
    PROVE  RolesInv'
<1>1. PICK mine : mine = RolesOf(proc[a])
  OBVIOUS
<1>2. PICK gone : gone = proc[a].gone
  OBVIOUS
<1>3. PICK rows : rows = (roles \ gone) \cup mine
  OBVIOUS
<1>4. /\ proc[a].at = "insertRoles" /\ proc' = [proc EXCEPT ![a] = Idle]
      /\ roles' = IF UniqueRoles(rows) THEN rows ELSE roles
      /\ UNCHANGED <<enabled, answer, requests>>
  BY <1>1, <1>2, <1>3 DEF InsertRoles, Ends
<1>5. /\ DOMAIN proc' = Admins /\ proc'[a].at = "idle"
      /\ \A b \in Admins : b # a => proc'[b] = proc[b]
  BY <1>4 DEF RolesInv, Idle
<1>6. proc'[a].at \notin Busy /\ proc[a].at \in Configuring /\ "insertRoles" \in Configuring
      /\ "idle" \notin Configuring
  BY <1>4, <1>5 DEF Busy, Configuring
<1>7. CASE ~UniqueRoles(rows)
  BY <1>4, <1>5, <1>6, <1>7, RolesLeft DEF RolesInv
<1>8. CASE UniqueRoles(rows)
  <2>1. PICK k : k = proc[a].by
    OBVIOUS
  <2>2. /\ Asked(proc[a], requests) /\ Unwritten(proc[a], roles) /\ requests \in Nat
        /\ Whole(gone, roles) /\ OfOne(roles) /\ Numbered(roles, requests)
    BY <1>2, <1>4, <1>6 DEF RolesInv, Removing
  <2>3. /\ \A x \in mine : x.by = k /\ x.sort \in Nat
        /\ Defaulted(mine)
    BY <1>1, <2>1, <2>2, RowsInserted
  <2>4. k \in Nat /\ k < requests /\ \A x \in roles : x.by # k
    BY <2>1, <2>2 DEF Asked, Unwritten
  <2>5. \A x \in roles : x \notin gone => \A y \in mine : ~Same(x, y)
    <3>1. \A x \in mine : x.by = k
      BY <2>3
    <3> QED BY <1>3, <1>8, <2>2, <2>3, <2>4, <3>1, NothingBeside
  <2>6. roles' = rows
    BY <1>4, <1>8
  <2>7. OfOne(rows)
    <3>1. ASSUME NEW x \in rows, NEW y \in rows, Same(x, y)
          PROVE  x.by = y.by
      <4>1. Same(y, x)
        BY <3>1 DEF Same
      <4> QED BY <1>3, <2>2, <2>3, <2>5, <3>1, <4>1 DEF OfOne
    <3>2. ASSUME NEW x \in rows
          PROVE  \E d \in rows : Same(x, d) /\ d.default
      <4>1. CASE x \in mine
        BY <1>3, <2>3, <4>1, Zenon DEF Defaulted
      <4>2. CASE x \in roles /\ x \notin gone
        <5>1. PICK d \in roles : Same(x, d) /\ d.default
          BY <2>2, <4>2, Zenon DEF OfOne
        <5>2. d \in rows
          BY <1>3, <2>2, <4>2, <5>1 DEF Whole
        <5> QED BY <5>1, <5>2
      <4> QED BY <1>3, <3>2, <4>1, <4>2
    <3> QED BY <1>8, <3>1, <3>2 DEF OfOne
  <2>8. Numbered(rows, requests)
    BY <1>3, <2>2, <2>3, <2>4 DEF Numbered
  <2>9. ASSUME NEW b \in Admins, proc'[b].at \in Configuring
        PROVE  /\ Asked(proc'[b], requests') /\ Unwritten(proc'[b], roles')
               /\ \A e \in Admins :
                     proc'[e].at \in Configuring /\ e # b => proc'[e].by # proc'[b].by
    <3>1. b # a /\ proc'[b] = proc[b]
      BY <1>5, <1>6, <2>9
    <3>2. Asked(proc[b], requests) /\ Unwritten(proc[b], roles) /\ proc[b].by # k
      BY <1>6, <2>1, <2>9, <3>1 DEF RolesInv
    <3>3. Unwritten(proc[b], rows)
      BY <1>3, <2>3, <3>2 DEF Unwritten
    <3>4. ASSUME NEW e \in Admins, proc'[e].at \in Configuring, e # b
          PROVE  proc'[e].by # proc'[b].by
      BY <1>5, <1>6, <2>9, <3>1, <3>4 DEF RolesInv
    <3> QED BY <1>4, <2>6, <3>1, <3>2, <3>3, <3>4
  <2>10. ASSUME NEW b \in Admins
         PROVE  Removing(proc[b])'
    <3> SUFFICES ASSUME proc'[b].at = "insertRoles"
                 PROVE  /\ Numbered(proc'[b].gone, requests') /\ Whole(proc'[b].gone, roles')
                        /\ \A e \in Admins : proc'[e].at \in Configuring =>
                              Unwritten(proc'[e], proc'[b].gone)
      BY DEF Removing
    <3>1. b # a /\ proc'[b] = proc[b]
      BY <1>5
    <3>2. PICK w : w = proc[b].gone
      OBVIOUS
    <3>3. /\ Numbered(w, requests) /\ Whole(w, roles) /\ Unwritten(proc[a], w)
          /\ \A e \in Admins : proc[e].at \in Configuring => Unwritten(proc[e], w)
      BY <1>6, <3>1, <3>2 DEF RolesInv, Removing
    <3>4. \A x \in mine : x \notin w
      BY <2>1, <2>3, <3>3 DEF Unwritten
    <3>5. ASSUME NEW x \in rows, NEW y \in rows, Same(x, y)
          PROVE  x \in w <=> y \in w
      <4>1. Same(y, x)
        BY <3>5 DEF Same
      <4>2. x \in mine <=> y \in mine
        BY <1>3, <2>5, <3>5, <4>1
      <4> QED BY <1>3, <3>3, <3>4, <3>5, <4>2 DEF Whole
    <3>6. Whole(w, rows)
      BY <3>5 DEF Whole
    <3>7. \A e \in Admins : proc'[e].at \in Configuring => proc'[e] = proc[e]
      BY <1>5, <1>6
    <3> QED BY <1>4, <2>6, <3>1, <3>2, <3>3, <3>6, <3>7
  <2>11. \A b \in Admins : proc'[b].at = "respond" => \A x \in proc'[b].configs : x.sort \in Nat
    BY <1>5 DEF RolesInv
  <2>12. ProviderIsUsable' /\ enabled' \subseteq Purposes
    BY <1>4 DEF RolesInv, ProviderIsUsable
  <2> QED BY <1>4, <1>5, <2>2, <2>6, <2>7, <2>8, <2>9, <2>10, <2>11, <2>12 DEF RolesInv
<1> QED BY <1>7, <1>8

\* officialPurposeConfigs reads rows that have a sort order.
LEMMA ReadConfigsKeeps ==
    ASSUME RolesInv, NEW a \in Admins, ReadConfigs(a)
    PROVE  RolesInv'
<1>1. PICK mine : mine = {x \in roles : x.group = proc[a].group /\ x.purpose \in enabled}
  OBVIOUS
<1>2. PICK r : r = [at |-> "respond", group |-> proc[a].group, models |-> proc[a].models,
                    configs |-> mine]
  OBVIOUS
<1>3. proc' = [proc EXCEPT ![a] = r] /\ UNCHANGED <<roles, enabled, answer, requests>>
  BY <1>1, <1>2 DEF ReadConfigs, console
<1>4. r.at = "respond" /\ r.configs = mine
  BY <1>2
<1>5. /\ proc'[a] = r /\ \A b \in Admins : b # a => proc'[b] = proc[b]
      /\ DOMAIN proc' = Admins
  BY <1>3 DEF RolesInv
<1>6. \A b \in Admins : proc'[b].at \in Configuring => b # a
  BY <1>4, <1>5 DEF Configuring
<1>7. "insertRoles" \in Configuring
  BY DEF Configuring
<1>8. \A b \in Admins : proc'[b].at \in Configuring =>
          /\ Asked(proc'[b], requests') /\ Unwritten(proc'[b], roles')
          /\ \A e \in Admins : proc'[e].at \in Configuring /\ e # b => proc'[e].by # proc'[b].by
  BY <1>3, <1>5, <1>6 DEF RolesInv
<1>9. \A b \in Admins : Removing(proc[b])'
  BY <1>3, <1>5, <1>6, <1>7 DEF RolesInv, Removing
<1>10. \A x \in mine : x.sort \in Nat
  BY <1>1 DEF RolesInv, Numbered
<1>11. \A b \in Admins : proc'[b].at = "respond" => \A x \in proc'[b].configs : x.sort \in Nat
  BY <1>4, <1>5, <1>10 DEF RolesInv
<1>12. ProviderIsUsable' /\ enabled' \subseteq Purposes /\ requests' \in Nat
       /\ OfOne(roles') /\ Numbered(roles', requests')
  BY <1>3 DEF RolesInv, ProviderIsUsable
<1> QED BY <1>5, <1>8, <1>9, <1>11, <1>12 DEF RolesInv

\* selectedConfiguredModel selects one of the rows it is given.
LEMMA SelectedIsListed ==
    ASSUME NEW rows, NEW listed, listed # {}, \A x \in listed : x.sort \in Nat
    PROVE  \E x \in listed : Selected(rows, listed) = x.model
<1>1. CASE \E x \in listed : x.default
  <2>1. (CHOOSE x \in listed : x.default) \in listed
    BY <1>1, Zenon
  <2>2. Selected(rows, listed) = (CHOOSE x \in listed : x.default).model
    BY <1>1, Zenon DEF Selected
  <2> QED BY <2>1, <2>2
<1>2. CASE ~\E x \in listed : x.default
  <2>1. PICK T : T = {x.sort : x \in listed}
    OBVIOUS
  <2>2. T \subseteq Nat /\ T # {}
    BY <2>1
  <2>3. PICK m \in T : \A k \in T : ~(<<k, m>> \in OpToRel(<, Nat))
    BY <2>2, WFMin, NatLessThanWellFounded
  <2>4. \A k \in T : ~(k < m)
    BY <2>2, <2>3 DEF OpToRel
  <2>5. \E x \in listed : \A y \in listed : x.sort <= y.sort
    BY <2>1, <2>2, <2>4
  <2>6. (CHOOSE x \in listed : \A y \in listed : x.sort <= y.sort) \in listed
    BY <2>5, Zenon
  <2>7. Selected(rows, listed) = (CHOOSE x \in listed : \A y \in listed : x.sort <= y.sort).model
    BY <1>2, Zenon DEF Selected, FirstModel
  <2> QED BY <2>6, <2>7
<1> QED BY <1>1, <1>2

\* The providers for the purposes name models read and select one of them.
LEMMA PurposeProvidersMean ==
    ASSUME NEW r, \A x \in r.configs : x.sort \in Nat, NEW p \in PurposeProviders(r)
    PROVE  p.models # {} /\ p.models \subseteq r.models /\ p.selected \in p.models
<1> DEFINE rows(q) == {x \in r.configs : x.purpose = q}
           listed(q) == {x \in rows(q) : x.model \in r.models}
           provider(q) == [purpose |-> q, models |-> {x.model : x \in listed(q)},
                           selected |-> Selected(rows(q), listed(q))]
<1>1. PurposeProviders(r) = {provider(q) : q \in {q \in ActiveKeys : listed(q) # {}}}
  BY DEF PurposeProviders
<1>2. PICK q : listed(q) # {} /\ p = provider(q)
  <2> HIDE DEF provider, listed
  <2> QED BY <1>1
<1>3. PICK ls : ls = listed(q)
  OBVIOUS
<1>4. p.models = {x.model : x \in ls} /\ p.selected = Selected(rows(q), ls)
  <2> HIDE DEF listed, rows
  <2> QED BY <1>2, <1>3
<1>5. ls # {} /\ \A x \in ls : x.model \in r.models /\ x \in r.configs
  BY <1>2, <1>3
<1>6. PICK x \in ls : Selected(rows(q), ls) = x.model
  <2>1. \A x \in ls : x.sort \in Nat
    BY <1>5
  <2> HIDE DEF rows
  <2> QED BY <1>5, <2>1, SelectedIsListed
<1> HIDE DEF rows, listed, provider
<1> QED BY <1>4, <1>5, <1>6

\* No purpose has a provider when no model was on offer.
LEMMA NoModelsNoProviders ==
    ASSUME NEW r, r.models = {}
    PROVE  PurposeProviders(r) = {}
BY DEF PurposeProviders

\* The legacy provider: it selects one of the models if there is one.
LEMMA LegacyMeans ==
    ASSUME NEW listed, NEW selected \in LegacySelections(listed), NEW p,
           p = Legacy(listed, selected)
    PROVE  p.models = listed /\ (listed # {} => p.selected \in listed)
<1>1. p.models = listed /\ p.selected = selected
  BY DEF Legacy
<1> QED BY <1>1 DEF LegacySelections

\* What is answered, and what ProviderIsUsable says of it.
Answered(r, legacy, all) ==
    /\ \E selected \in LegacySelections(r.models) : legacy = Legacy(r.models, selected)
    /\ all = IF PurposeProviders(r) = {} THEN {legacy} ELSE PurposeProviders(r)

Usable(read, legacy, all) ==
    \A p \in all \cup {legacy} :
       /\ p.models \subseteq read
       /\ p.models # {} => p.selected \in p.models
       /\ p.models = {} => read = {} /\ all = {legacy}

LEMMA AnswerIsUsable ==
    ASSUME NEW r, \A x \in r.configs : x.sort \in Nat, NEW legacy, NEW all,
           Answered(r, legacy, all)
    PROVE  Usable(r.models, legacy, all)
<1>1. legacy.models = r.models /\ (r.models # {} => legacy.selected \in r.models)
  BY LegacyMeans DEF Answered
<1>2. r.models = {} => all = {legacy}
  BY NoModelsNoProviders DEF Answered
<1>3. ASSUME NEW p \in PurposeProviders(r)
      PROVE  p.models # {} /\ p.models \subseteq r.models /\ p.selected \in p.models
  BY PurposeProvidersMean
<1> QED BY <1>1, <1>2, <1>3 DEF Answered, Usable

LEMMA RespondKeeps ==
    ASSUME RolesInv, NEW a \in Admins, Respond(a)
    PROVE  RolesInv'
<1>0. PICK r : r = proc[a]
  OBVIOUS
<1>1. /\ proc[a].at = "respond" /\ proc' = [proc EXCEPT ![a] = Idle]
      /\ UNCHANGED <<roles, enabled, requests>>
  BY DEF Respond, Ends, console
<1>2. /\ DOMAIN proc' = Admins /\ proc'[a].at = "idle"
      /\ \A b \in Admins : b # a => proc'[b] = proc[b]
  BY <1>1 DEF RolesInv, Idle
<1>3. "idle" \notin Busy
  BY DEF Busy, Configuring
<1>4. PICK legacy, all :
         /\ Answered(r, legacy, all)
         /\ answer' = [read |-> r.models, provider |-> legacy, providers |-> all]
  BY <1>0, Zenon DEF Respond, Answered
<1>5. ProviderIsUsable'
  <2>1. answer'.read = r.models /\ answer'.provider = legacy /\ answer'.providers = all
    BY <1>4
  <2>2. \A x \in r.configs : x.sort \in Nat
    BY <1>0, <1>1 DEF RolesInv
  <2>3. Usable(r.models, legacy, all)
    BY <1>4, <2>2, AnswerIsUsable
  <2> QED BY <2>1, <2>3 DEF ProviderIsUsable, Usable
\* The rest is as if nothing had been answered.
<1>6. /\ \A b \in Admins : proc'[b].at \in Configuring => proc'[b] = proc[b]
      /\ \A b \in Admins : proc'[b].at = "respond" => proc'[b] = proc[b]
      /\ "insertRoles" \in Configuring
  BY <1>2, <1>3 DEF Busy, Configuring
<1>7. \A b \in Admins : proc'[b].at \in Configuring =>
          /\ Asked(proc'[b], requests') /\ Unwritten(proc'[b], roles')
          /\ \A e \in Admins : proc'[e].at \in Configuring /\ e # b => proc'[e].by # proc'[b].by
  BY <1>1, <1>6 DEF RolesInv
<1>8. \A b \in Admins : Removing(proc[b])'
  BY <1>1, <1>6 DEF RolesInv, Removing
<1>9. \A b \in Admins : proc'[b].at = "respond" => \A x \in proc'[b].configs : x.sort \in Nat
  BY <1>6 DEF RolesInv
<1>10. /\ enabled' \subseteq Purposes /\ requests' \in Nat
       /\ OfOne(roles') /\ Numbered(roles', requests')
  BY <1>1 DEF RolesInv
<1> QED BY <1>2, <1>5, <1>7, <1>8, <1>9, <1>10 DEF RolesInv

LEMMA RolesKept ==
    ASSUME RolesInv, [Next]_vars
    PROVE  RolesInv'
<1> DEFINE Elsewhere ==
              /\ DOMAIN proc' = Admins /\ requests' \in {requests, requests + 1}
              /\ \A b \in Admins : proc'[b] = proc[b] \/ proc'[b].at \notin Busy
              /\ enabled' \subseteq Purposes /\ UNCHANGED <<roles, answer>>
<1>0. /\ DOMAIN proc = Admins /\ enabled \subseteq Purposes
      /\ \A s \in Busy : s \in {"deleteRoles", "insertRoles", "respond"}
  BY DEF RolesInv, Busy, Configuring
<1>1. ASSUME NEW a \in Admins, NEW r, proc' = [proc EXCEPT ![a] = r], r.at \notin Busy,
             requests' \in {requests, requests + 1}, UNCHANGED <<roles, enabled, answer>>
      PROVE  Elsewhere
  BY <1>0, <1>1
<1>2. ASSUME NEW a \in Admins, NEW job \in Jobs, StartSync(a, job)
      PROVE  RolesInv'
  <2>1. [at |-> "fetchGroups", job |-> job].at \notin Busy
    BY <1>0
  <2> QED BY <1>1, <1>2, <2>1, RolesLeft DEF StartSync, Starts, console
<1>3. ASSUME NEW a \in Admins, FetchGroups(a) \/ FetchChannels(a) \/ FetchAccounts(a)
                                  \/ SyncGroups(a) \/ MarkStale(a) \/ WriteSync(a)
                                  \/ SyncFails(a) \/ ReadModels(a)
      PROVE  RolesInv'
  <2>1. \E r : /\ proc' = [proc EXCEPT ![a] = r]
               /\ r.at \in {"fetchChannels", "fetchAccounts", "write", "writing", "unlock",
                            "readConfigs"}
    BY <1>0, <1>3 DEF FetchGroups, FetchChannels, FetchAccounts, SyncGroups, MarkStale,
                      WriteSync, WriteGroups, SyncFails, ReadModels
  <2>2. UNCHANGED <<roles, enabled, answer, requests>>
    BY <1>3 DEF FetchGroups, FetchChannels, FetchAccounts, SyncGroups, MarkStale, WriteSync,
                WriteGroups, SyncFails, ReadModels, console
  <2> QED BY <1>0, <1>1, <2>1, <2>2, RolesLeft
<1>4. ASSUME NEW a \in Admins, Unlock(a) \/ Die(a)
      PROVE  RolesInv'
  <2>1. /\ proc' = [proc EXCEPT ![a] = Idle]
        /\ UNCHANGED <<roles, enabled, answer, requests>>
    BY <1>4 DEF Unlock, Die, Ends, console
  <2>2. Idle.at \notin Busy
    BY <1>0 DEF Idle
  <2> QED BY <1>1, <2>1, <2>2, RolesLeft
<1>5. ASSUME NEW a \in Admins, CreateGroup(a) \/ ReplacePurposes(a)
      PROVE  RolesInv'
  <2>1. /\ UNCHANGED <<proc, roles, answer>> /\ requests' = requests + 1
        /\ enabled' \subseteq Purposes
    BY <1>0, <1>5 DEF CreateGroup, ReplacePurposes, console
  <2> QED BY <1>0, <2>1, RolesLeft
<1>6. ASSUME NEW a \in Admins, StartProvider(a)
      PROVE  RolesInv'
  <2>1. PICK g \in Groups :
           /\ Starts(a, "provider", [at |-> "readModels", group |-> g])
           /\ UNCHANGED <<world, clock, copy, console, locks, traffic, outlived, answer, faults>>
    BY <1>6 DEF StartProvider
  <2>2. [at |-> "readModels", group |-> g].at \notin Busy
    BY <1>0
  <2> QED BY <1>1, <2>1, <2>2, RolesLeft DEF Starts, console
<1>7. ASSUME \/ \E job \in Jobs : ExpireLock(job)
             \/ ChangeWorld \/ UNCHANGED vars
      PROVE  RolesInv'
  <2>1. UNCHANGED <<proc, roles, enabled, answer, requests>>
    BY <1>7 DEF ExpireLock, ChangeWorld, console, vars
  <2> QED BY <1>0, <2>1, RolesLeft
<1> HIDE DEF Elsewhere
<1> QED BY <1>2, <1>3, <1>4, <1>5, <1>6, <1>7, StartConfigKeeps, DeleteRolesKeeps,
           InsertRolesKeeps, ReadConfigsKeeps, RespondKeeps DEF Next

LEMMA RolesInit ==
    ASSUME Init
    PROVE  RolesInv
<1>1. /\ proc = [a \in Admins |-> Idle] /\ roles = {} /\ enabled = Purposes /\ requests = 0
      /\ answer = [read |-> {}, provider |-> Legacy({}, DefaultModel),
                   providers |-> {Legacy({}, DefaultModel)}]
  BY DEF Init
<1>2. \A a \in Admins : proc[a].at = "idle"
  BY <1>1 DEF Idle
<1>3. OfOne(roles) /\ Numbered(roles, requests)
  BY <1>1 DEF OfOne, Numbered, UniqueRoles
<1>4. ProviderIsUsable
  <2>1. PICK legacy : legacy = Legacy({}, DefaultModel)
    OBVIOUS
  <2>2. legacy.models = {}
    BY <2>1 DEF Legacy
  <2>3. answer.read = {} /\ answer.provider = legacy /\ answer.providers = {legacy}
    BY <1>1, <2>1
  <2> QED BY <2>2, <2>3 DEF ProviderIsUsable
<1> QED BY <1>1, <1>2, <1>3, <1>4 DEF RolesInv, Configuring, Removing

LEMMA RolesAlways ==
    Spec => []RolesInv
<1>1. Init => RolesInv
  BY RolesInit
<1>2. RolesInv /\ [Next]_vars => RolesInv'
  BY RolesKept
<1> QED BY <1>1, <1>2, PTL DEF Spec

\* Requests to UpdateOfficialModelConfig that delete and insert at the same time never mix their
\* models, and leave every purpose that has models exactly one default.
THEOREM PurposeIsAlwaysOneRequest ==
    Spec => []PurposeIsOneRequest
<1>1. RolesInv => PurposeIsOneRequest
  <2> SUFFICES ASSUME RolesInv, NEW x \in roles
               PROVE  LET same == {y \in roles : y.group = x.group /\ y.purpose = x.purpose}
                      IN /\ \A y \in same : y.by = x.by
                         /\ Cardinality({y \in same : y.default}) = 1
    BY DEF PurposeIsOneRequest
  <2> DEFINE same == {y \in roles : y.group = x.group /\ y.purpose = x.purpose}
  <2>1. \A y \in same : y.by = x.by
    BY DEF RolesInv, OfOne, Same
  <2>2. PICK d \in roles : Same(x, d) /\ d.default
    BY DEF RolesInv, OfOne
  <2>3. \A y \in same : y.default => y = d
    BY <2>2 DEF Same, RolesInv, OfOne, UniqueRoles
  <2>4. {y \in same : y.default} = {d}
    <3>1. d \in same
      BY <2>2 DEF Same
    <3> HIDE DEF same
    <3> QED BY <2>2, <2>3, <3>1, Zenon
  <2>5. Cardinality({d}) = 1
    BY FS_Singleton DEF Cardinality, Cardinality
  <2> QED BY <2>1, <2>4, <2>5
<1> QED BY <1>1, RolesAlways, PTL

\* OfficialProvider answers with providers, the legacy one included, whose models were all active
\* when they were read, and selects one of them; only when none was active it answers with the
\* legacy provider alone, without models.  So it is whatever was written between its reads.
THEOREM ProviderIsAlwaysUsable ==
    Spec => []ProviderIsUsable
<1>1. RolesInv => ProviderIsUsable
  BY DEF RolesInv
<1> QED BY <1>1, RolesAlways, PTL

----------------------------------------------------------------------------
(* What a sync writes: the lists it fetched, whatever the rows were.      *)

\* Induction over the natural numbers, for a set of them.
LEMMA EveryNumber ==
    ASSUME NEW T \in SUBSET Nat, 0 \in T, \A n \in T : n + 1 \in T
    PROVE  T = Nat
<1> SUFFICES ASSUME NEW n \in Nat, n \notin T
             PROVE  FALSE
  OBVIOUS
<1> DEFINE U == Nat \ T
<1>0. U \subseteq Nat /\ U # {}
  OBVIOUS
<1>1. PICK m \in U : \A k \in U : ~(<<k, m>> \in OpToRel(<, Nat))
  <2> HIDE DEF U
  <2> QED BY <1>0, WFMin, NatLessThanWellFounded
<1>2. \A k \in U : ~(k < m)
  BY <1>0, <1>1 DEF OpToRel
<1>3. m \in Nat /\ m \notin T /\ m # 0
  OBVIOUS
<1>6. m - 1 \in Nat /\ m - 1 < m
  BY <1>3
<1>4. m - 1 \in T
  BY <1>2, <1>6
<1>5. (m - 1) + 1 \in T
  BY <1>4
<1> QED BY <1>3, <1>5

\* The rows that SyncModels makes, one channel after the other.
Writes(rows, seen, listed, items, chs, n, f) ==
    f = [k \in 0 .. n |-> IF k = 0 THEN WriteAccounts(Stale(rows, seen), items, listed)
                          ELSE WriteChannel(f[k - 1], chs[k], listed)]

LEMMA WritesMean ==
    ASSUME NEW rows, NEW seen, NEW listed, NEW items, NEW chs, NEW n \in Nat, NEW f,
           Writes(rows, seen, listed, items, chs, n, f)
    PROVE  /\ f[0] = WriteAccounts(Stale(rows, seen), items, listed)
           /\ \A k \in 0 .. n : k + 1 <= n => f[k + 1] = WriteChannel(f[k], chs[k + 1], listed)
<1> DEFINE g == [k \in 0 .. n |-> IF k = 0 THEN WriteAccounts(Stale(rows, seen), items, listed)
                                  ELSE WriteChannel(f[k - 1], chs[k], listed)]
<1>1. f = g
  BY DEF Writes
<1>2. g[0] = WriteAccounts(Stale(rows, seen), items, listed)
  OBVIOUS
<1>3. ASSUME NEW k \in 0 .. n, k + 1 <= n
      PROVE  g[k + 1] = WriteChannel(f[k], chs[k + 1], listed)
  <2>1. k + 1 \in 0 .. n /\ k + 1 # 0 /\ (k + 1) - 1 = k
    BY <1>3
  <2> QED BY <2>1
<1> HIDE DEF g
<1> QED BY <1>1, <1>2, <1>3

LEMMA WritesExist ==
    ASSUME NEW rows, NEW seen, NEW listed, NEW items, NEW chs, NEW n \in Nat
    PROVE  \E f : Writes(rows, seen, listed, items, chs, n, f)
<1> DEFINE T == {m \in Nat : \E f : Writes(rows, seen, listed, items, chs, m, f)}
           base == WriteAccounts(Stale(rows, seen), items, listed)
<1>1. 0 \in T
  <2> DEFINE g == [k \in 0 .. 0 |-> base]
  <2>1. g = [k \in 0 .. 0 |-> IF k = 0 THEN base ELSE WriteChannel(g[k - 1], chs[k], listed)]
    <3> HIDE DEF base
    <3> QED OBVIOUS
  <2>2. Writes(rows, seen, listed, items, chs, 0, g)
    BY <2>1 DEF Writes
  <2> QED BY <2>2
<1>2. ASSUME NEW m \in T
      PROVE  m + 1 \in T
  <2>1. m \in Nat
    OBVIOUS
  <2>2. PICK f : Writes(rows, seen, listed, items, chs, m, f)
    OBVIOUS
  <2>0. PICK next : next = WriteChannel(f[m], chs[m + 1], listed)
    OBVIOUS
  <2> DEFINE g == [k \in 0 .. m + 1 |-> IF k = m + 1 THEN next ELSE f[k]]
             h == [k \in 0 .. m + 1 |->
                     IF k = 0 THEN base ELSE WriteChannel(g[k - 1], chs[k], listed)]
  <2>3. /\ f[0] = base
        /\ \A k \in 0 .. m : k + 1 <= m => f[k + 1] = WriteChannel(f[k], chs[k + 1], listed)
    BY <2>1, <2>2, WritesMean
  <2> HIDE DEF base
  <2>4. ASSUME NEW k \in 0 .. m + 1
        PROVE  g[k] = h[k]
    <3>1. CASE k = 0
      <4>1. k # m + 1
        BY <2>1, <3>1
      <4> QED BY <2>3, <3>1, <4>1
    <3>2. CASE k \in 1 .. m
      <4>1. /\ k - 1 \in 0 .. m /\ k - 1 \in 0 .. m + 1 /\ k - 1 # m + 1 /\ (k - 1) + 1 = k
            /\ k # m + 1 /\ k # 0 /\ (k - 1) + 1 <= m
        BY <2>1, <3>2
      <4>2. f[k] = WriteChannel(f[k - 1], chs[k], listed)
        BY <2>3, <4>1
      <4>3. g[k] = f[k] /\ g[k - 1] = f[k - 1] /\ h[k] = WriteChannel(g[k - 1], chs[k], listed)
        BY <4>1
      <4> QED BY <4>2, <4>3
    <3>3. CASE k = m + 1
      <4>1. k - 1 = m /\ m \in 0 .. m + 1 /\ m # m + 1 /\ k # 0
        BY <2>1, <3>3
      <4>2. g[k] = next /\ g[k - 1] = f[m] /\ h[k] = WriteChannel(g[k - 1], chs[k], listed)
        BY <3>3, <4>1
      <4> QED BY <2>0, <3>3, <4>2
    <3> QED BY <2>1, <3>1, <3>2, <3>3
  <2>5. g = h
    BY <2>4
  <2>6. Writes(rows, seen, listed, items, chs, m + 1, g)
    BY <2>5 DEF Writes, base
  <2> QED BY <2>1, <2>6
<1> HIDE DEF T
<1>3. T = Nat
  BY <1>1, <1>2, EveryNumber DEF T
<1> QED BY <1>3 DEF T

LEMMA SyncedModelsMeans ==
    ASSUME NEW rows, NEW seen, NEW listed, NEW items, NEW chs, Len(chs) \in Nat
    PROVE  \E f : /\ Writes(rows, seen, listed, items, chs, Len(chs), f)
                  /\ SyncedModels(rows, seen, listed, items, chs) = f[Len(chs)]
<1> DEFINE f == CHOOSE g : Writes(rows, seen, listed, items, chs, Len(chs), g)
<1>1. Writes(rows, seen, listed, items, chs, Len(chs), f)
  <2>1. \E g : Writes(rows, seen, listed, items, chs, Len(chs), g)
    BY WritesExist
  <2> QED BY <2>1
<1>2. SyncedModels(rows, seen, listed, items, chs) = f[Len(chs)]
  BY DEF SyncedModels, Writes
<1> HIDE DEF f
<1> QED BY <1>1, <1>2

----------------------------------------------------------------------------
\* A row of gateway_group_models, and whether it is on offer.
RowFit(row) == row = [status |-> row.status, channel |-> row.channel, price |-> row.price]
Offers(rows, k) == k \in DOMAIN rows /\ rows[k].status = "active"

\* The models a channel lists for the groups it reaches.
New(ch, listed) ==
    {k \in Reached(ch, listed) \X {c.platform : c \in Candidates(ch)}
              \X {c.model : c \in Candidates(ch)} : Found(ch, listed, k) # {}}

\* What a channel says of a price.
PriceAt(ch, k) ==
    IF Lookup(ch, k[2], k[3]) # None THEN Lookup(ch, k[2], k[3])
    ELSE (CHOOSE c \in Lists(ch, k) : TRUE).price

Priced(ch, listed, k) ==
    /\ k[1] \in Reached(ch, listed) /\ k[2] = listed[k[1]].platform
    /\ Lookup(ch, k[2], k[3]) # None

AsListed(rows, ch, listed, k) ==
    IF k \in New(ch, listed) THEN Row(ch.id, (CHOOSE c \in Found(ch, listed, k) : TRUE).price)
    ELSE rows[k]

LEMMA WriteChannelMeans ==
    ASSUME NEW rows, NEW ch, NEW listed
    PROVE  /\ DOMAIN WriteChannel(rows, ch, listed) = DOMAIN rows \cup New(ch, listed)
           /\ \A k \in DOMAIN rows \cup New(ch, listed) :
                 WriteChannel(rows, ch, listed)[k] =
                    IF AsListed(rows, ch, listed, k).status = "active" /\ Priced(ch, listed, k)
                    THEN Row(ch.id, Lookup(ch, k[2], k[3])) ELSE AsListed(rows, ch, listed, k)
<1> DEFINE new == New(ch, listed)
           written == [k \in DOMAIN rows \cup new |-> AsListed(rows, ch, listed, k)]
<1>1. WriteChannel(rows, ch, listed) =
         [k \in DOMAIN written |->
            IF written[k].status = "active" /\ Priced(ch, listed, k)
            THEN Row(ch.id, Lookup(ch, k[2], k[3])) ELSE written[k]]
  BY DEF WriteChannel, New, AsListed, Priced
<1>2. DOMAIN written = DOMAIN rows \cup new
  OBVIOUS
<1>3. \A k \in DOMAIN rows \cup new : written[k] = AsListed(rows, ch, listed, k)
  OBVIOUS
<1> HIDE DEF written
<1> QED BY <1>1, <1>2, <1>3

LEMMA WriteChannelRow ==
    ASSUME NEW rows, NEW ch, NEW listed, NEW k, NEW out, out = WriteChannel(rows, ch, listed)
    PROVE  /\ k \in DOMAIN out <=> k \in DOMAIN rows \/ k \in New(ch, listed)
           /\ k \in DOMAIN out =>
                 out[k] =
                    IF AsListed(rows, ch, listed, k).status = "active" /\ Priced(ch, listed, k)
                    THEN Row(ch.id, Lookup(ch, k[2], k[3])) ELSE AsListed(rows, ch, listed, k)
<1>1. DOMAIN out = DOMAIN rows \cup New(ch, listed)
  BY WriteChannelMeans
<1>2. \A j \in DOMAIN rows \cup New(ch, listed) :
         out[j] = IF AsListed(rows, ch, listed, j).status = "active" /\ Priced(ch, listed, j)
                  THEN Row(ch.id, Lookup(ch, j[2], j[3])) ELSE AsListed(rows, ch, listed, j)
  BY WriteChannelMeans
<1> QED BY <1>1, <1>2

LEMMA RowMeans ==
    ASSUME NEW channel, NEW price
    PROVE  /\ Row(channel, price).status = "active" /\ Row(channel, price).channel = channel
           /\ Row(channel, price).price = price /\ RowFit(Row(channel, price))
BY DEF Row, RowFit

LEMMA ChannelOffers ==
    ASSUME NEW rows, NEW ch, NEW listed, NEW k
    PROVE  Offers(WriteChannel(rows, ch, listed), k) <=> Offers(rows, k) \/ k \in New(ch, listed)
<1>1. PICK out : out = WriteChannel(rows, ch, listed)
  OBVIOUS
<1>2. /\ k \in DOMAIN out <=> k \in DOMAIN rows \/ k \in New(ch, listed)
      /\ k \in DOMAIN out =>
            out[k] = IF AsListed(rows, ch, listed, k).status = "active" /\ Priced(ch, listed, k)
                     THEN Row(ch.id, Lookup(ch, k[2], k[3])) ELSE AsListed(rows, ch, listed, k)
  BY <1>1, WriteChannelRow
<1>3. Row(ch.id, Lookup(ch, k[2], k[3])).status = "active"
  BY RowMeans
<1>4. k \in DOMAIN out =>
         (out[k].status = "active" <=> AsListed(rows, ch, listed, k).status = "active")
  BY <1>2, <1>3
<1>5. CASE k \in New(ch, listed)
  <2>1. AsListed(rows, ch, listed, k).status = "active"
    BY <1>5, RowMeans DEF AsListed
  <2> QED BY <1>1, <1>2, <1>4, <1>5, <2>1 DEF Offers
<1>6. CASE k \notin New(ch, listed)
  <2>1. AsListed(rows, ch, listed, k) = rows[k]
    BY <1>6 DEF AsListed
  <2> QED BY <1>1, <1>2, <1>4, <1>6, <2>1 DEF Offers
<1> QED BY <1>5, <1>6

\* A model on offer belongs to an active group of its own platform.
Belongs(listed, k) ==
    k = <<k[1], k[2], k[3]>> /\ k[1] \in Active(listed) /\ k[2] = listed[k[1]].platform

LEMMA NewBelongs ==
    ASSUME NEW ch, NEW listed, NEW k \in New(ch, listed)
    PROVE  Belongs(listed, k) /\ k[1] \in Reached(ch, listed)
<1>1. k[1] \in Reached(ch, listed) /\ k = <<k[1], k[2], k[3]>>
  BY DEF New
<1>2. PICK c : c \in Found(ch, listed, k)
  BY DEF New
<1>3. k[2] = listed[k[1]].platform
  BY <1>2 DEF Found
<1>4. k[1] \in Active(listed)
  BY <1>1 DEF Reached
<1> QED BY <1>1, <1>3, <1>4 DEF Belongs

LEMMA FoundIsListed ==
    ASSUME NEW ch, NEW listed, NEW k, Belongs(listed, k), k[1] \in Reached(ch, listed)
    PROVE  /\ Found(ch, listed, k) = Lists(ch, k)
           /\ k \in New(ch, listed) <=> Lists(ch, k) # {}
<1>1. Found(ch, listed, k) = Lists(ch, k)
  BY DEF Found, Lists, Belongs
<1>2. ASSUME Lists(ch, k) # {}
      PROVE  k \in New(ch, listed)
  <2>1. PICK c \in Candidates(ch) : <<c.platform, c.model>> = <<k[2], k[3]>>
    BY <1>2 DEF Lists
  <2>2. k = <<k[1], c.platform, c.model>>
    BY <2>1 DEF Belongs
  <2>3. k \in Reached(ch, listed) \X {d.platform : d \in Candidates(ch)}
                 \X {d.model : d \in Candidates(ch)}
    BY <2>1, <2>2
  <2> QED BY <1>1, <1>2, <2>3 DEF New
<1>3. k \in New(ch, listed) => Lists(ch, k) # {}
  BY <1>1 DEF New
<1> QED BY <1>1, <1>2, <1>3

\* A channel that has a say sets the price, another one leaves it.
LEMMA ChannelPrices ==
    ASSUME NEW rows, NEW ch, NEW listed, NEW k, Belongs(listed, k),
           Offers(WriteChannel(rows, ch, listed), k)
    PROVE  WriteChannel(rows, ch, listed)[k].price =
              IF Speaks(ch, listed, k) THEN PriceAt(ch, k) ELSE rows[k].price
<1>1. PICK out : out = WriteChannel(rows, ch, listed)
  OBVIOUS
<1>2. out[k] = IF AsListed(rows, ch, listed, k).status = "active" /\ Priced(ch, listed, k)
               THEN Row(ch.id, Lookup(ch, k[2], k[3])) ELSE AsListed(rows, ch, listed, k)
  <2>1. k \in DOMAIN out
    BY <1>1 DEF Offers
  <2> QED BY <1>1, <2>1, WriteChannelRow
<1>3. Offers(rows, k) \/ k \in New(ch, listed)
  BY ChannelOffers
<1>4. AsListed(rows, ch, listed, k).status = "active"
  BY <1>3, RowMeans DEF AsListed, Offers
<1>5. CASE k[1] \notin Reached(ch, listed)
  <2>1. ~Speaks(ch, listed, k) /\ ~Priced(ch, listed, k) /\ k \notin New(ch, listed)
    BY <1>5, NewBelongs DEF Speaks, Reached, Priced
  <2> QED BY <1>1, <1>2, <2>1 DEF AsListed
<1>6. CASE k[1] \in Reached(ch, listed)
  <2>1. Found(ch, listed, k) = Lists(ch, k) /\ (k \in New(ch, listed) <=> Lists(ch, k) # {})
    BY <1>6, FoundIsListed
  <2>2. /\ Priced(ch, listed, k) <=> Lookup(ch, k[2], k[3]) # None
        /\ Speaks(ch, listed, k) <=> Lookup(ch, k[2], k[3]) # None \/ Lists(ch, k) # {}
    BY <1>6 DEF Priced, Speaks, Belongs, Reached
  <2>3. CASE Lookup(ch, k[2], k[3]) # None
    <3>1. out[k].price = Lookup(ch, k[2], k[3])
      BY <1>2, <1>4, <2>2, <2>3, RowMeans
    <3> QED BY <1>1, <2>2, <2>3, <3>1 DEF PriceAt
  <2>4. CASE Lookup(ch, k[2], k[3]) = None /\ Lists(ch, k) # {}
    <3>1. out[k] = Row(ch.id, (CHOOSE c \in Found(ch, listed, k) : TRUE).price)
      BY <1>2, <2>1, <2>2, <2>4 DEF AsListed
    <3>2. out[k].price = (CHOOSE c \in Lists(ch, k) : TRUE).price
      BY <2>1, <3>1, RowMeans
    <3> QED BY <1>1, <2>2, <2>4, <3>2 DEF PriceAt
  <2>5. CASE Lookup(ch, k[2], k[3]) = None /\ Lists(ch, k) = {}
    BY <1>1, <1>2, <2>1, <2>2, <2>5 DEF AsListed
  <2> QED BY <2>3, <2>4, <2>5
<1> QED BY <1>5, <1>6

\* What the accounts serve, before any channel.
Served(listed, items) == UNION {Serves(x, listed) : x \in items}

LEMMA ServedBelongs ==
    ASSUME NEW listed, NEW items, NEW k \in Served(listed, items)
    PROVE  Belongs(listed, k) /\ k[3] \in Models
<1>1. PICK x \in items : k \in Serves(x, listed)
  BY DEF Served
<1>2. PICK g \in Active(listed), m \in Models :
         k = <<g, x.platform, m>> /\ listed[g].platform = x.platform
  BY <1>1 DEF Serves
<1> QED BY <1>2 DEF Belongs

\* What the accounts make of the rows of the last time.
AllFit(rows) == \A k \in DOMAIN rows : RowFit(rows[k])

\* The rows that the UPDATE does not see and that stay on offer.
Left(rows, seen) == {k \in DOMAIN rows \ seen : rows[k].status = "active"}

Unoffered(row) == [status |-> "inactive", channel |-> row.channel, price |-> row.price]

FromAccounts(rows, seen, served, out) ==
    /\ DOMAIN out = DOMAIN rows \cup served
    /\ \A k : Offers(out, k) <=> k \in served \/ k \in Left(rows, seen)
    /\ \A k \in served : out[k] = Row(None, None)
    /\ \A k \in DOMAIN rows : k \notin served => out[k] \in {rows[k], Unoffered(rows[k])}

LEMMA AccountsMean ==
    ASSUME NEW rows, NEW seen, NEW listed, NEW items, AllFit(rows)
    PROVE  FromAccounts(rows, seen, Served(listed, items),
                        WriteAccounts(Stale(rows, seen), items, listed))
<1>1. PICK served, stale : served = Served(listed, items) /\ stale = Stale(rows, seen)
  OBVIOUS
<1>2. PICK out : out = WriteAccounts(stale, items, listed)
  OBVIOUS
<1>3. out = [k \in DOMAIN stale \cup served |->
               IF k \in served THEN Row(None, None) ELSE stale[k]]
  BY <1>1, <1>2 DEF WriteAccounts, Served
<1>4. DOMAIN stale = DOMAIN rows
  BY <1>1 DEF Stale
<1>5. ASSUME NEW k \in DOMAIN rows
      PROVE  stale[k] = IF k \in seen THEN Unoffered(rows[k]) ELSE rows[k]
  <2>1. stale[k] = IF k \in seen THEN [rows[k] EXCEPT !.status = "inactive"] ELSE rows[k]
    BY <1>1 DEF Stale
  <2>2. RowFit(rows[k])
    BY DEF AllFit
  <2> QED BY <2>1, <2>2 DEF RowFit, Unoffered
<1>6. ASSUME NEW k \in DOMAIN rows
      PROVE  stale[k].status = "active" <=> k \in Left(rows, seen)
  <2>1. Unoffered(rows[k]).status = "inactive"
    BY DEF Unoffered
  <2> QED BY <1>5, <2>1 DEF Left
<1>7. ASSUME NEW k
      PROVE  Offers(out, k) <=> k \in served \/ k \in Left(rows, seen)
  <2>1. CASE k \in served
    BY <1>3, <2>1, RowMeans DEF Offers
  <2>2. CASE k \notin served
    <3>1. k \in Left(rows, seen) => k \in DOMAIN rows
      BY DEF Left
    <3> QED BY <1>3, <1>4, <1>6, <2>2, <3>1 DEF Offers
  <2> QED BY <2>1, <2>2
<1>8. DOMAIN out = DOMAIN rows \cup served
  BY <1>3, <1>4
<1>9. \A k \in served : out[k] = Row(None, None)
  BY <1>3
<1>10. ASSUME NEW k \in DOMAIN rows, k \notin served
       PROVE  out[k] \in {rows[k], Unoffered(rows[k])}
  BY <1>3, <1>4, <1>5, <1>10
<1> QED BY <1>1, <1>2, <1>7, <1>8, <1>9, <1>10 DEF FromAccounts

\* What is on offer, and at which price, after the first n channels.
OnOffer(listed, items, chs, n) ==
    Served(listed, items) \cup UNION {New(chs[i], listed) : i \in 1 .. n}

Speakers(listed, chs, n, k) == {i \in 1 .. n : Speaks(chs[i], listed, k)}
LastOf(S) == CHOOSE i \in S : \A j \in S : j <= i
PriceTo(listed, chs, n, k) ==
    IF Speakers(listed, chs, n, k) = {} THEN None
    ELSE PriceAt(chs[LastOf(Speakers(listed, chs, n, k))], k)

LEMMA OnOfferBelongs ==
    ASSUME NEW listed, NEW items, NEW chs, NEW n, NEW k \in OnOffer(listed, items, chs, n)
    PROVE  Belongs(listed, k)
BY ServedBelongs, NewBelongs DEF OnOffer

LEMMA OneMore ==
    ASSUME NEW listed, NEW items, NEW chs, NEW n \in Nat, NEW k
    PROVE  k \in OnOffer(listed, items, chs, n + 1) <=>
              k \in OnOffer(listed, items, chs, n) \/ k \in New(chs[n + 1], listed)
<1>1. 1 .. n + 1 = (1 .. n) \cup {n + 1}
  OBVIOUS
<1> QED BY <1>1 DEF OnOffer

LEMMA PriceOneMore ==
    ASSUME NEW listed, NEW chs, NEW n \in Nat, NEW k
    PROVE  PriceTo(listed, chs, n + 1, k) =
              IF Speaks(chs[n + 1], listed, k) THEN PriceAt(chs[n + 1], k)
              ELSE PriceTo(listed, chs, n, k)
<1>1. PICK S, T : S = Speakers(listed, chs, n, k) /\ T = Speakers(listed, chs, n + 1, k)
  OBVIOUS
<1>2. CASE Speaks(chs[n + 1], listed, k)
  <2>1. n + 1 \in T /\ \A j \in T : j <= n + 1 /\ j \in Nat
    BY <1>1, <1>2 DEF Speakers
  <2>2. \A i \in T : (\A j \in T : j <= i) => i = n + 1
    BY <2>1
  <2>3. LastOf(T) = n + 1
    BY <2>1, <2>2 DEF LastOf
  <2> QED BY <1>1, <1>2, <2>1, <2>3 DEF PriceTo
<1>3. CASE ~Speaks(chs[n + 1], listed, k)
  <2>1. 1 .. n + 1 = (1 .. n) \cup {n + 1}
    OBVIOUS
  <2>2. S = T
    BY <1>1, <1>3, <2>1 DEF Speakers
  <2> QED BY <1>1, <1>3, <2>2 DEF PriceTo
<1> QED BY <1>2, <1>3

\* A row of the table as it is typed: one that was there before, or of a group that is listed.
Typed(row) == RowFit(row) /\ row.status \in Status /\ row.channel \in Ids \cup {None}

Placed(rows, listed, k) ==
    k \in DOMAIN rows \/ (k \in Groups \X Platforms \X Models /\ k[1] \in DOMAIN listed)

\* The lists that SyncModels fetches.
Fetchable(listed, items, chs) ==
    /\ \E gs \in SUBSET Groups : listed \in [gs -> GroupRows]
    /\ Len(chs) \in Nat /\ DOMAIN chs = 1 .. Len(chs)
    /\ \A i \in DOMAIN chs : LET ch == chs[i] IN
          ch.id \in Ids /\ \A e \in Range(ch.pricing) : e.models \subseteq Models

LEMMA CandidatesAreModels ==
    ASSUME NEW ch, \A e \in Range(ch.pricing) : e.models \subseteq Models
    PROVE  \A c \in Candidates(ch) : c.model \in Models
BY DEF Candidates

LEMMA BelongsPlaced ==
    ASSUME NEW rows, NEW listed, NEW k, Belongs(listed, k), k[3] \in Models,
           \E gs \in SUBSET Groups : listed \in [gs -> GroupRows]
    PROVE  Placed(rows, listed, k)
<1>1. PICK gs \in SUBSET Groups : listed \in [gs -> GroupRows]
  OBVIOUS
<1>2. k[1] \in gs
  BY <1>1 DEF Belongs, Active
<1>3. listed[k[1]] \in GroupRows
  BY <1>1, <1>2
<1>4. k[2] \in Platforms
  BY <1>3 DEF Belongs, GroupRows
<1> QED BY <1>1, <1>2, <1>4 DEF Belongs, Placed

LEMMA NewPlaced ==
    ASSUME NEW rows, NEW listed, NEW items, NEW chs, Fetchable(listed, items, chs),
           NEW i \in DOMAIN chs, NEW k \in New(chs[i], listed)
    PROVE  Placed(rows, listed, k)
<1>1. Belongs(listed, k)
  BY NewBelongs
<1>2. \A c \in Candidates(chs[i]) : c.model \in Models
  BY CandidatesAreModels DEF Fetchable
<1>3. k[3] \in Models
  BY <1>2 DEF New
<1> QED BY <1>1, <1>3, BelongsPlaced DEF Fetchable

LEMMA RowTyped ==
    ASSUME NEW channel \in Ids \cup {None}, NEW price
    PROVE  Typed(Row(channel, price))
<1>1. PICK row : row = Row(channel, price)
  OBVIOUS
<1>2. row.status = "active" /\ row.channel = channel /\ row.price = price
  BY <1>1, RowMeans
<1>3. row = [status |-> row.status, channel |-> row.channel, price |-> row.price]
  BY <1>1, <1>2 DEF Row
<1> QED BY <1>1, <1>2, <1>3 DEF Typed, RowFit, Status

\* A channel leaves every row typed.
LEMMA ChannelTypes ==
    ASSUME NEW rows, NEW ch, NEW listed, NEW k \in DOMAIN WriteChannel(rows, ch, listed),
           ch.id \in Ids, k \in DOMAIN rows => Typed(rows[k])
    PROVE  Typed(WriteChannel(rows, ch, listed)[k])
<1>1. \A p : Typed(Row(ch.id, p))
  BY RowTyped
<1>2. PICK out : out = WriteChannel(rows, ch, listed)
  OBVIOUS
<1>3. k \in DOMAIN rows \/ k \in New(ch, listed)
  <2>1. DOMAIN WriteChannel(rows, ch, listed) = DOMAIN rows \cup New(ch, listed)
    BY WriteChannelMeans
  <2> QED BY <2>1, Zenon
<1>4. Typed(AsListed(rows, ch, listed, k))
  BY <1>1, <1>3 DEF AsListed
<1>5. out[k] = IF AsListed(rows, ch, listed, k).status = "active" /\ Priced(ch, listed, k)
               THEN Row(ch.id, Lookup(ch, k[2], k[3])) ELSE AsListed(rows, ch, listed, k)
  BY <1>2, WriteChannelRow
<1> QED BY <1>1, <1>2, <1>4, <1>5

\* What holds after the first n channels.
After(rows, seen, listed, items, chs, n, out) ==
    /\ \A k \in DOMAIN out : Typed(out[k]) /\ Placed(rows, listed, k)
    /\ DOMAIN rows \subseteq DOMAIN out
    /\ \A k : Offers(out, k) <=> k \in OnOffer(listed, items, chs, n) \/ k \in Left(rows, seen)
    /\ \A k \in OnOffer(listed, items, chs, n) : out[k].price = PriceTo(listed, chs, n, k)

LEMMA AfterAccounts ==
    ASSUME NEW rows, NEW seen, NEW listed, NEW items, NEW chs, Fetchable(listed, items, chs),
           \A k \in DOMAIN rows : Typed(rows[k])
    PROVE  After(rows, seen, listed, items, chs, 0,
                 WriteAccounts(Stale(rows, seen), items, listed))
<1>1. PICK out : out = WriteAccounts(Stale(rows, seen), items, listed)
  OBVIOUS
<1>2. PICK served : served = Served(listed, items)
  OBVIOUS
<1>3. AllFit(rows)
  BY DEF Typed, AllFit
<1>4. FromAccounts(rows, seen, served, out)
  BY <1>1, <1>2, <1>3, AccountsMean
<1>5. OnOffer(listed, items, chs, 0) = served
  <2>1. 1 .. 0 = {}
    OBVIOUS
  <2>2. UNION {New(chs[i], listed) : i \in {}} = {}
    OBVIOUS
  <2> QED BY <1>2, <2>1, <2>2 DEF OnOffer
<1>6. ASSUME NEW k \in DOMAIN out
      PROVE  Typed(out[k]) /\ Placed(rows, listed, k)
  <2>1. CASE k \in served
    <3>1. Typed(Row(None, None))
      BY RowTyped
    <3>2. Placed(rows, listed, k)
      BY <1>2, <2>1, ServedBelongs, BelongsPlaced DEF Fetchable
    <3> QED BY <1>4, <2>1, <3>1, <3>2 DEF FromAccounts
  <2>2. CASE k \in DOMAIN rows /\ k \notin served
    <3>1. PICK row : row = rows[k]
      OBVIOUS
    <3>2. Typed(row)
      BY <2>2, <3>1
    <3>3. out[k] \in {row, Unoffered(row)}
      BY <1>4, <2>2, <3>1 DEF FromAccounts
    <3>4. Typed(Unoffered(row))
      BY <3>2 DEF Typed, RowFit, Status, Unoffered
    <3> QED BY <2>2, <3>2, <3>3, <3>4 DEF Placed
  <2> QED BY <1>4, <2>1, <2>2 DEF FromAccounts
<1>7. ASSUME NEW k \in served
      PROVE  out[k].price = PriceTo(listed, chs, 0, k)
  <2>1. out[k].price = None
    BY <1>4, RowMeans DEF FromAccounts
  <2>2. Speakers(listed, chs, 0, k) = {}
    BY DEF Speakers
  <2> QED BY <2>1, <2>2 DEF PriceTo
<1> QED BY <1>1, <1>4, <1>5, <1>6, <1>7 DEF After, FromAccounts

LEMMA AfterOneMore ==
    ASSUME NEW rows, NEW seen, NEW listed, NEW items, NEW chs, Fetchable(listed, items, chs),
           NEW n \in Nat, n + 1 <= Len(chs), NEW before,
           After(rows, seen, listed, items, chs, n, before)
    PROVE  After(rows, seen, listed, items, chs, n + 1, WriteChannel(before, chs[n + 1], listed))
<1>1. PICK ch, out : ch = chs[n + 1] /\ out = WriteChannel(before, ch, listed)
  OBVIOUS
<1>2. n + 1 \in DOMAIN chs /\ ch.id \in Ids
  BY <1>1 DEF Fetchable
<1>3. DOMAIN out = DOMAIN before \cup New(ch, listed)
  BY <1>1, WriteChannelMeans, Zenon
<1>4. ASSUME NEW k \in DOMAIN out
      PROVE  Typed(out[k]) /\ Placed(rows, listed, k)
  <2>1. Typed(out[k])
    BY <1>1, <1>2, ChannelTypes DEF After
  <2>2. CASE k \in DOMAIN before
    BY <2>1, <2>2 DEF After
  <2>3. CASE k \in New(ch, listed)
    BY <1>1, <1>2, <2>1, <2>3, NewPlaced
  <2> QED BY <1>3, <2>2, <2>3
<1>5. DOMAIN rows \subseteq DOMAIN out
  BY <1>3 DEF After
<1>6. ASSUME NEW k
      PROVE  Offers(out, k) <=>
                k \in OnOffer(listed, items, chs, n + 1) \/ k \in Left(rows, seen)
  <2>1. Offers(out, k) <=> Offers(before, k) \/ k \in New(ch, listed)
    BY <1>1, ChannelOffers
  <2>2. k \in OnOffer(listed, items, chs, n + 1) <=>
           k \in OnOffer(listed, items, chs, n) \/ k \in New(ch, listed)
    BY <1>1, OneMore
  <2> QED BY <2>1, <2>2 DEF After
<1>7. ASSUME NEW k \in OnOffer(listed, items, chs, n + 1)
      PROVE  out[k].price = PriceTo(listed, chs, n + 1, k)
  <2>1. Belongs(listed, k) /\ Offers(out, k)
    BY <1>6, <1>7, OnOfferBelongs
  <2>2. out[k].price = IF Speaks(ch, listed, k) THEN PriceAt(ch, k) ELSE before[k].price
    BY <1>1, <2>1, ChannelPrices
  <2>3. PriceTo(listed, chs, n + 1, k) =
           IF Speaks(ch, listed, k) THEN PriceAt(ch, k) ELSE PriceTo(listed, chs, n, k)
    BY <1>1, PriceOneMore
  <2>4. CASE ~Speaks(ch, listed, k)
    <3>1. k \notin New(ch, listed)
      <4>1. ASSUME k \in New(ch, listed)
            PROVE  Lists(ch, k) # {} /\ k[1] \in Reached(ch, listed)
        BY <2>1, <4>1, NewBelongs, FoundIsListed
      <4> QED BY <2>4, <4>1 DEF Speaks, Reached
    <3>2. k \in OnOffer(listed, items, chs, n)
      BY <1>1, <1>7, <3>1, OneMore
    <3> QED BY <2>2, <2>3, <2>4, <3>2 DEF After
  <2> QED BY <2>2, <2>3, <2>4
<1> QED BY <1>1, <1>4, <1>5, <1>6, <1>7 DEF After

LEMMA AfterAll ==
    ASSUME NEW rows, NEW seen, NEW listed, NEW items, NEW chs, Fetchable(listed, items, chs),
           \A k \in DOMAIN rows : Typed(rows[k])
    PROVE  After(rows, seen, listed, items, chs, Len(chs),
                 SyncedModels(rows, seen, listed, items, chs))
<1>1. PICK n \in Nat : n = Len(chs)
  BY DEF Fetchable
<1>2. PICK f : /\ Writes(rows, seen, listed, items, chs, n, f)
               /\ SyncedModels(rows, seen, listed, items, chs) = f[n]
  BY <1>1, SyncedModelsMeans
<1>3. /\ f[0] = WriteAccounts(Stale(rows, seen), items, listed)
      /\ \A k \in 0 .. n : k + 1 <= n => f[k + 1] = WriteChannel(f[k], chs[k + 1], listed)
  BY <1>2, WritesMean
<1> DEFINE T == {k \in Nat : k <= n => After(rows, seen, listed, items, chs, k, f[k])}
<1>4. 0 \in T
  BY <1>3, AfterAccounts
<1>5. ASSUME NEW k \in T
      PROVE  k + 1 \in T
  <2>1. CASE k + 1 <= n
    <3>1. k \in Nat /\ k <= n /\ k \in 0 .. n /\ k + 1 <= Len(chs)
      BY <1>1, <2>1
    <3>2. After(rows, seen, listed, items, chs, k, f[k])
      BY <3>1
    <3>3. f[k + 1] = WriteChannel(f[k], chs[k + 1], listed)
      BY <1>3, <2>1, <3>1
    <3> HIDE DEF T
    <3>4. After(rows, seen, listed, items, chs, k + 1, WriteChannel(f[k], chs[k + 1], listed))
      BY <3>1, <3>2, AfterOneMore
    <3> QED BY <3>1, <3>3, <3>4 DEF T
  <2> QED BY <2>1
<1> HIDE DEF T
<1>6. T = Nat
  BY <1>4, <1>5, EveryNumber DEF T
<1>7. After(rows, seen, listed, items, chs, n, f[n])
  BY <1>6 DEF T
<1> QED BY <1>1, <1>2, <1>7

\* The writes in the order of the channels make what is said without an order.
LEMMA ChannelSupports ==
    ASSUME NEW ch, NEW listed, NEW k
    PROVE  k \in New(ch, listed) <=> ch.status = "active" /\ k \in Listed(ch, listed)
<1>1. ASSUME k \in New(ch, listed)
      PROVE  ch.status = "active" /\ k \in Listed(ch, listed)
  <2>1. Belongs(listed, k) /\ k[1] \in Reached(ch, listed)
    BY <1>1, NewBelongs
  <2>2. PICK c \in Candidates(ch) : <<c.platform, c.model>> = <<k[2], k[3]>>
    <3>1. Lists(ch, k) # {}
      BY <1>1, <2>1, FoundIsListed
    <3> QED BY <3>1 DEF Lists
  <2>3. ch.status = "active" /\ k[1] \in ch.groups \cap Active(listed)
    BY <2>1 DEF Reached
  <2>4. k = <<k[1], c.platform, c.model>> /\ k[2] = listed[k[1]].platform
    BY <2>1, <2>2 DEF Belongs
  <2> QED BY <2>2, <2>3, <2>4 DEF Listed
<1>2. ASSUME ch.status = "active", k \in Listed(ch, listed)
      PROVE  k \in New(ch, listed)
  <2>1. PICK g \in ch.groups \cap Active(listed), c \in Candidates(ch) :
           k = <<g, c.platform, c.model>> /\ k[2] = listed[k[1]].platform
    BY <1>2 DEF Listed
  <2>2. k[1] = g /\ k[2] = listed[g].platform /\ k = <<k[1], k[2], k[3]>>
    BY <2>1
  <2>3. <<c.platform, c.model>> = <<k[2], k[3]>>
    BY <2>1
  <2>4. Belongs(listed, k) /\ k[1] \in Reached(ch, listed)
    BY <1>2, <2>1, <2>2 DEF Belongs, Reached
  <2>5. Lists(ch, k) # {}
    BY <2>3 DEF Lists
  <2> QED BY <2>4, <2>5, FoundIsListed
<1> QED BY <1>1, <1>2

LEMMA AllSupported ==
    ASSUME NEW listed, NEW items, NEW chs, DOMAIN chs = 1 .. Len(chs)
    PROVE  OnOffer(listed, items, chs, Len(chs)) = Supported(listed, items, chs)
<1>1. ASSUME NEW k
      PROVE  k \in Supported(listed, items, chs) <=>
                \/ k \in Served(listed, items)
                \/ \E ch \in Range(chs) : ch.status = "active" /\ k \in Listed(ch, listed)
  BY DEF Supported, Served
<1>2. ASSUME NEW k
      PROVE  (\E i \in 1 .. Len(chs) : k \in New(chs[i], listed)) <=>
             \E ch \in Range(chs) : ch.status = "active" /\ k \in Listed(ch, listed)
  <2>1. \A ch : k \in New(ch, listed) <=> ch.status = "active" /\ k \in Listed(ch, listed)
    BY ChannelSupports
  <2> QED BY <2>1 DEF Range
<1> QED BY <1>1, <1>2 DEF OnOffer

LEMMA LastPrice ==
    ASSUME NEW listed, NEW chs, NEW k, DOMAIN chs = 1 .. Len(chs)
    PROVE  PriceTo(listed, chs, Len(chs), k) = PriceOf(listed, chs, k)
BY DEF PriceTo, PriceOf, PriceAt, Speakers, LastOf

\* What CatalogIsTheSnapshot says of some rows and some lists.
IsSnapshot(rows, listed, items, chs, missed) ==
    LET active == {k \in DOMAIN rows : rows[k].status = "active"} \ missed
    IN /\ active = Supported(listed, items, chs)
       /\ \A k \in active : rows[k].price = PriceOf(listed, chs, k)
       /\ missed # {} => listed = <<>>

AllTyped(rows) == \A k \in DOMAIN rows : Typed(rows[k])

\* Lists without groups put nothing on offer.
LEMMA NoGroupsNoModels ==
    ASSUME NEW items, NEW chs, NEW n
    PROVE  OnOffer(<<>>, items, chs, n) = {}
<1>1. Active(<<>>) = {}
  BY DEF Active
<1>2. ASSUME NEW k \in OnOffer(<<>>, items, chs, n)
      PROVE  FALSE
  BY <1>1, OnOfferBelongs DEF Belongs
<1> QED BY <1>2

\* SyncModels makes the snapshot of its lists, whatever the rows were before, if its UPDATE has
\* seen them all or its lists have no groups.
LEMMA SyncMakesTheSnapshot ==
    ASSUME NEW rows, NEW seen, NEW listed, NEW items, NEW chs, Fetchable(listed, items, chs),
           AllTyped(rows), DOMAIN rows \subseteq seen \/ listed = <<>>,
           NEW out, out = SyncedModels(rows, seen, listed, items, chs)
    PROVE  /\ IsSnapshot(out, listed, items, chs, DOMAIN rows \ seen) /\ AllTyped(out)
           /\ \A k \in DOMAIN out : Placed(rows, listed, k)
           /\ DOMAIN rows \subseteq DOMAIN out
<1>1. After(rows, seen, listed, items, chs, Len(chs), out)
  BY AfterAll DEF AllTyped
<1>2. PICK supported, missed :
         supported = Supported(listed, items, chs) /\ missed = DOMAIN rows \ seen
  OBVIOUS
<1>3. DOMAIN chs = 1 .. Len(chs)
  BY DEF Fetchable
<1>4. OnOffer(listed, items, chs, Len(chs)) = supported
  BY <1>2, <1>3, AllSupported
<1>5. /\ \A k : Offers(out, k) <=> k \in supported \/ k \in Left(rows, seen)
      /\ \A k \in supported : out[k].price = PriceOf(listed, chs, k)
  BY <1>1, <1>3, <1>4, LastPrice DEF After
<1>6. Left(rows, seen) \subseteq missed
  BY <1>2 DEF Left
<1>7. missed # {} => listed = <<>> /\ supported = {}
  BY <1>2, <1>4, NoGroupsNoModels
<1>8. {k \in DOMAIN out : out[k].status = "active"} \ missed = supported
  BY <1>5, <1>6, <1>7 DEF Offers
<1>9. IsSnapshot(out, listed, items, chs, missed)
  BY <1>2, <1>5, <1>7, <1>8 DEF IsSnapshot
<1> QED BY <1>1, <1>2, <1>9 DEF After, AllTyped

\* What the lists of Sub2API are made of.
IsGroups(listed) == \E gs \in SUBSET Groups : listed \in [gs -> GroupRows]
IsAccounts(items) == \A x \in items : x.status \in Status
IsChannels(chs) ==
    /\ Len(chs) \in Nat /\ DOMAIN chs = 1 .. Len(chs)
    /\ \A i \in DOMAIN chs : LET ch == chs[i] IN
          /\ ch.id \in Ids /\ ch.status \in Status
          /\ \A e \in Range(ch.pricing) : e.models \subseteq Models

\* What a sync has fetched so far, and what a request to UpdateOfficialModelConfig asks for.
Holds(r) ==
    /\ r.at \in Fetched => IsGroups(r.groups)
    /\ r.at \in {"fetchAccounts", "writing"} \/ (r.at = "write" /\ r.job = "models") =>
          IsChannels(r.channels)
    /\ r.at = "writing" \/ (r.at = "write" /\ r.job = "models") => IsAccounts(r.accounts)

Asks(r) ==
    r.at \in Configuring =>
       r.group \in Groups /\ r.config \in Configs /\ r.purposes \subseteq Purposes

\* The tables: the key of a model is of a group that has a row.
Keyed(rows, gs) == \A k \in DOMAIN rows : k \in Groups \X Platforms \X Models /\ gs[k[1]] # None

TablesFit ==
    /\ groups \in [Groups -> GroupRows \cup {None}]
    /\ accounts \in [Ids -> Status \cup {None}] /\ channels \in [Ids -> Status \cup {None}]
    /\ AllTyped(models) /\ Keyed(models, groups) /\ CatalogIsTheSnapshot

RolesFit(rows) ==
    \A x \in rows : x.group \in Groups /\ x.purpose \in Purposes /\ x.model \in Models

LocksFit(table) == DOMAIN table = Jobs /\ \A j \in Jobs : table[j] \in Admins \cup {None}

\* Of the transactions that list groups one writes at a time, and its UPDATE has seen every model.
Serial ==
    /\ \A a, b \in Admins : HoldsGroups(a) /\ HoldsGroups(b) => a = b
    /\ \A a \in Admins : HoldsGroups(a) => DOMAIN models \subseteq proc[a].seen

CopyInv ==
    /\ Serial
    /\ DOMAIN proc = Admins /\ world \in Worlds
    /\ \A a \in Admins : Holds(proc[a]) /\ Asks(proc[a])
    /\ TablesFit /\ RolesFit(roles) /\ enabled \subseteq Purposes /\ LocksFit(locks)

LEMMA WorldMeans ==
    ASSUME NEW s \in Worlds
    PROVE  IsGroups(s.groups) /\ IsAccounts(s.accounts) /\ IsChannels(s.channels)
<1>1. IsWorld(s)
  BY ModelsAssumption
<1>2. PICK chs : chs = s.channels
  OBVIOUS
<1>3. chs \in Seq(Range(chs))
  BY <1>1, <1>2 DEF IsWorld
<1>4. Len(chs) \in Nat /\ DOMAIN chs = 1 .. Len(chs)
  BY <1>3
<1>5. ASSUME NEW i \in DOMAIN chs
      PROVE  LET ch == chs[i] IN
                /\ ch.id \in Ids /\ ch.status \in Status
                /\ \A e \in Range(ch.pricing) : e.models \subseteq Models
  <2>1. chs[i] \in Range(chs)
    BY DEF Range
  <2> QED BY <1>1, <1>2, <2>1 DEF IsWorld
<1>6. IsChannels(chs)
  BY <1>4, <1>5 DEF IsChannels
<1> QED BY <1>1, <1>2, <1>6 DEF IsWorld, IsGroups, IsAccounts

\* Groups stay typed, and none loses its row.
LEMMA GroupsMean ==
    ASSUME NEW rows \in [Groups -> GroupRows \cup {None}], NEW listed, IsGroups(listed),
           NEW out, out = SyncedGroups(rows, listed)
    PROVE  /\ out \in [Groups -> GroupRows \cup {None}]
           /\ \A g \in Groups : rows[g] # None \/ g \in DOMAIN listed => out[g] # None
<1>1. PICK gs \in SUBSET Groups : listed \in [gs -> GroupRows]
  BY DEF IsGroups
<1>2. ASSUME NEW row \in GroupRows
      PROVE  [row EXCEPT !.status = "inactive"] \in GroupRows
  BY DEF GroupRows, Status
<1>3. ASSUME NEW g \in Groups
      PROVE  /\ out[g] \in GroupRows \cup {None}
             /\ rows[g] # None \/ g \in DOMAIN listed => out[g] \in GroupRows
  <2>1. out[g] = IF g \in DOMAIN listed THEN listed[g]
                 ELSE IF rows[g] = None \/ listed = <<>> THEN rows[g]
                 ELSE [rows[g] EXCEPT !.status = "inactive"]
    BY DEF SyncedGroups
  <2>2. PICK row \in GroupRows \cup {None} : row = rows[g]
    OBVIOUS
  <2>3. row # None => [row EXCEPT !.status = "inactive"] \in GroupRows
    BY <1>2
  <2>4. g \in DOMAIN listed => listed[g] \in GroupRows
    BY <1>1
  <2> QED BY <2>1, <2>2, <2>3, <2>4
<1>4. DOMAIN out = Groups
  BY DEF SyncedGroups
<1>5. out = [g \in DOMAIN out |-> out[g]]
  BY DEF SyncedGroups
<1> QED BY <1>3, <1>4, <1>5, ModelsAssumption

LEMMA StatusMeans ==
    ASSUME NEW rows \in [Ids -> Status \cup {None}], NEW seen, NEW items, IsAccounts(items)
    PROVE  SyncedStatus(rows, seen, items) \in [Ids -> Status \cup {None}]
<1>1. ASSUME NEW i \in Ids, \E x \in items : x.id = i
      PROVE  (CHOOSE x \in items : x.id = i).status \in Status
  BY <1>1 DEF IsAccounts
<1> QED BY <1>1 DEF SyncedStatus, Status

\* Steps that leave the tables alone.
LEMMA CopyMoved ==
    ASSUME CopyInv, NEW a \in Admins, NEW r, proc' = [proc EXCEPT ![a] = r],
           Holds(r), Asks(r), r.at # "writing", LocksFit(locks'),
           UNCHANGED <<world, copy, console>>
    PROVE  CopyInv'
<1>1. DOMAIN proc' = Admins /\ \A b \in Admins : proc'[b] = IF b = a THEN r ELSE proc[b]
  BY DEF CopyInv
<1>2. \A b \in Admins : Holds(proc'[b]) /\ Asks(proc'[b])
  BY <1>1 DEF CopyInv
<1>3. TablesFit'
  BY DEF CopyInv, TablesFit, CatalogIsTheSnapshot, copy
<1>4. Serial'
  BY <1>1 DEF CopyInv, Serial, HoldsGroups, copy
<1> QED BY <1>1, <1>2, <1>3, <1>4 DEF CopyInv, console

LEMMA CopySame ==
    ASSUME CopyInv, UNCHANGED <<proc, copy, roles>>, world' \in Worlds, enabled' \subseteq Purposes,
           LocksFit(locks')
    PROVE  CopyInv'
<1>1. TablesFit'
  BY DEF CopyInv, TablesFit, CatalogIsTheSnapshot, copy
<1>2. Serial'
  BY DEF CopyInv, Serial, HoldsGroups, copy
<1> QED BY <1>1, <1>2 DEF CopyInv

\* A request that fetched nothing and asks for no models.
LEMMA NothingHeld ==
    ASSUME NEW r, r.at \notin Fetched, r.at \notin Configuring
    PROVE  Holds(r) /\ Asks(r)
BY DEF Holds, Asks, Fetched

LEMMA LocksKept ==
    ASSUME CopyInv, NEW j \in Jobs, NEW x \in Admins \cup {None}
    PROVE  LocksFit([locks EXCEPT ![j] = x]) /\ LocksFit(locks)
BY DEF CopyInv, LocksFit

LEMMA StartSyncKeepsCopy ==
    ASSUME CopyInv, NEW a \in Admins, NEW job \in Jobs, StartSync(a, job)
    PROVE  CopyInv'
<1>1. PICK r : r = [at |-> "fetchGroups", job |-> job]
  OBVIOUS
<1>2. /\ proc' = [proc EXCEPT ![a] = r] /\ locks' = [locks EXCEPT ![job] = a]
      /\ UNCHANGED <<world, copy, console>>
  BY <1>1 DEF StartSync, Starts
<1>3. r.at = "fetchGroups"
  BY <1>1
<1>4. Holds(r) /\ Asks(r) /\ r.at # "writing"
  BY <1>3, NothingHeld DEF Fetched, Configuring
<1>5. LocksFit([locks EXCEPT ![job] = a])
  BY LocksKept
<1> QED BY <1>2, <1>4, <1>5, CopyMoved

LEMMA FetchKeepsCopy ==
    ASSUME CopyInv, NEW a \in Admins, FetchGroups(a) \/ FetchChannels(a) \/ FetchAccounts(a)
    PROVE  CopyInv'
<1>1. UNCHANGED <<world, copy, console, locks>> /\ LocksFit(locks)
  BY DEF FetchGroups, FetchChannels, FetchAccounts, CopyInv
<1>2. Holds(proc[a])
  BY DEF CopyInv
<1>3. IsGroups(world.groups) /\ IsAccounts(world.accounts) /\ IsChannels(world.channels)
  BY WorldMeans DEF CopyInv
<1>4. CASE FetchGroups(a)
  <2>1. PICK r : r = [at |-> IF proc[a].job = "models" THEN "fetchChannels" ELSE "write",
                      job |-> proc[a].job, groups |-> world.groups, since |-> clock]
    OBVIOUS
  <2>2. proc' = [proc EXCEPT ![a] = r]
    BY <1>4, <2>1 DEF FetchGroups
  <2>3. /\ r.at = IF r.job = "models" THEN "fetchChannels" ELSE "write"
        /\ r.groups = world.groups
    BY <2>1
  <2>4. Holds(r) /\ Asks(r) /\ r.at # "writing"
    BY <1>3, <2>3 DEF Holds, Asks, Configuring
  <2> QED BY <1>1, <2>2, <2>4, CopyMoved
<1>5. CASE FetchChannels(a)
  <2>1. PICK r : r = [at |-> "fetchAccounts", job |-> proc[a].job, groups |-> proc[a].groups,
                      since |-> proc[a].since, channels |-> world.channels]
    OBVIOUS
  <2>2. proc[a].at = "fetchChannels" /\ proc' = [proc EXCEPT ![a] = r]
    BY <1>5, <2>1 DEF FetchChannels, CopyInv
  <2>3. r.at = "fetchAccounts" /\ r.groups = proc[a].groups /\ r.channels = world.channels
    BY <2>1
  <2>4. Holds(r) /\ Asks(r) /\ r.at # "writing"
    BY <1>2, <1>3, <2>2, <2>3 DEF Holds, Asks, Configuring, Fetched
  <2> QED BY <1>1, <2>2, <2>4, CopyMoved
<1>6. CASE FetchAccounts(a)
  <2>1. PICK r : r = [at |-> "write", job |-> proc[a].job, groups |-> proc[a].groups,
                      since |-> proc[a].since, channels |-> proc[a].channels,
                      accounts |-> world.accounts]
    OBVIOUS
  <2>2. proc[a].at = "fetchAccounts" /\ proc' = [proc EXCEPT ![a] = r]
    BY <1>6, <2>1 DEF FetchAccounts, CopyInv
  <2>3. /\ r.at = "write" /\ r.groups = proc[a].groups /\ r.channels = proc[a].channels
        /\ r.accounts = world.accounts
    BY <2>1
  <2>4. Holds(r) /\ Asks(r) /\ r.at # "writing"
    BY <1>2, <1>3, <2>2, <2>3 DEF Holds, Asks, Configuring, Fetched
  <2> QED BY <1>1, <2>2, <2>4, CopyMoved
<1> QED BY <1>4, <1>5, <1>6

\* The rows of the groups, at the commit of a sync.
LEMMA GroupsWritten ==
    ASSUME CopyInv, NEW a \in Admins, proc[a].at \in Fetched, WriteGroups(a),
           UNCHANGED <<world, console, locks>>
    PROVE  /\ DOMAIN proc' = Admins /\ \A b \in Admins : b # a => proc'[b] = proc[b]
           /\ proc'[a].at = "unlock"
           /\ \A b \in Admins : Holds(proc'[b]) /\ Asks(proc'[b])
           /\ groups' \in [Groups -> GroupRows \cup {None}]
           /\ \A g \in Groups : groups[g] # None \/ g \in DOMAIN proc[a].groups => groups'[g] # None
<1>1. PICK r, u : r = proc[a] /\ u = [at |-> "unlock", job |-> r.job]
  OBVIOUS
<1>2. groups' = SyncedGroups(groups, r.groups) /\ proc' = [proc EXCEPT ![a] = u]
  BY <1>1 DEF WriteGroups
<1>3. u.at = "unlock"
  BY <1>1
<1>4. Holds(u) /\ Asks(u)
  BY <1>3, NothingHeld DEF Fetched, Configuring
<1>5. Holds(r) /\ TablesFit
  BY <1>1 DEF CopyInv
<1>6. IsGroups(r.groups)
  BY <1>1, <1>5 DEF Holds
<1>7. /\ groups' \in [Groups -> GroupRows \cup {None}]
      /\ \A g \in Groups : groups[g] # None \/ g \in DOMAIN r.groups => groups'[g] # None
  BY <1>2, <1>5, <1>6, GroupsMean DEF TablesFit
<1> QED BY <1>1, <1>2, <1>3, <1>4, <1>7 DEF CopyInv

\* The transaction of SyncGroups.
LEMMA SyncGroupsKeepsCopy ==
    ASSUME CopyInv, NEW a \in Admins, SyncGroups(a)
    PROVE  CopyInv'
<1>1. /\ proc[a].at \in Fetched /\ WriteGroups(a)
      /\ UNCHANGED <<world, console, locks, models, accounts, channels, modelsBy>>
  BY DEF SyncGroups, Fetched
<1>2. /\ DOMAIN proc' = Admins /\ \A b \in Admins : b # a => proc'[b] = proc[b]
      /\ proc'[a].at = "unlock"
      /\ \A b \in Admins : Holds(proc'[b]) /\ Asks(proc'[b])
      /\ groups' \in [Groups -> GroupRows \cup {None}]
      /\ \A g \in Groups : groups[g] # None => groups'[g] # None
  BY <1>1, GroupsWritten
<1>3. TablesFit
  BY DEF CopyInv
<1>4. Keyed(models, groups')
  BY <1>2, <1>3 DEF TablesFit, Keyed
<1>5. TablesFit'
  BY <1>1, <1>2, <1>3, <1>4 DEF TablesFit, CatalogIsTheSnapshot
<1>6. Serial'
  BY <1>1, <1>2 DEF CopyInv, Serial, HoldsGroups
<1> QED BY <1>1, <1>2, <1>5, <1>6 DEF CopyInv, console

\* The UPDATE begins: if it waits for no rows of groups, nobody else has any.
LEMMA MarkStaleKeepsCopy ==
    ASSUME CopyInv, NEW a \in Admins, MarkStale(a)
    PROVE  CopyInv'
<1>1. PICK q : q = proc[a]
  OBVIOUS
<1>2. PICK r : r = [at |-> "writing", job |-> q.job, groups |-> q.groups, since |-> q.since,
                    channels |-> q.channels, accounts |-> q.accounts, seen |-> DOMAIN models,
                    seenAccounts |-> Known(accounts), seenChannels |-> Known(channels)]
  OBVIOUS
<1>3. /\ q.at = "write" /\ q.job = "models" /\ FreeFor(a) /\ proc' = [proc EXCEPT ![a] = r]
      /\ UNCHANGED <<world, copy, console, locks>>
  BY <1>1, <1>2 DEF MarkStale
<1>4. /\ r.at = "writing" /\ r.groups = q.groups /\ r.channels = q.channels
      /\ r.accounts = q.accounts /\ r.seen = DOMAIN models
  BY <1>2
<1>5. DOMAIN proc' = Admins /\ \A b \in Admins : proc'[b] = IF b = a THEN r ELSE proc[b]
  BY <1>3 DEF CopyInv
<1>6. Holds(r) /\ Asks(r)
  <2>1. Holds(q)
    BY <1>1 DEF CopyInv
  <2> QED BY <1>3, <1>4, <2>1 DEF Holds, Asks, Fetched, Configuring
<1>7. \A b \in Admins : Holds(proc'[b]) /\ Asks(proc'[b])
  BY <1>5, <1>6 DEF CopyInv
<1>8. TablesFit'
  BY <1>3 DEF CopyInv, TablesFit, CatalogIsTheSnapshot, copy
<1>9. Serial'
  <2>1. models' = models
    BY <1>3 DEF copy
  <2>2. r.groups # <<>> => \A b \in Admins : ~HoldsGroups(b)
    BY <1>1, <1>3, <1>4 DEF FreeFor
  <2>3. \A b \in Admins : b # a => (HoldsGroups(b)' <=> HoldsGroups(b))
    BY <1>5 DEF HoldsGroups
  <2>4. HoldsGroups(a)' <=> r.groups # <<>>
    BY <1>4, <1>5 DEF HoldsGroups
  <2>5. \A b \in Admins : HoldsGroups(b)' => DOMAIN models' \subseteq proc'[b].seen
    BY <1>4, <1>5, <2>1, <2>3 DEF CopyInv, Serial
  <2>6. ASSUME NEW b \in Admins, NEW c \in Admins, HoldsGroups(b)', HoldsGroups(c)'
        PROVE  b = c
    BY <2>2, <2>3, <2>4, <2>6 DEF CopyInv, Serial
  <2> QED BY <2>5, <2>6 DEF Serial
<1> QED BY <1>3, <1>5, <1>7, <1>8, <1>9 DEF CopyInv, console

\* The rest of SyncModels: the rows of the models that its UPDATE has seen are all made anew.
LEMMA WriteSyncKeepsCopy ==
    ASSUME CopyInv, NEW a \in Admins, WriteSync(a)
    PROVE  CopyInv'
<1>1. PICK r : r = proc[a]
  OBVIOUS
<1>2. /\ r.at = "writing" /\ proc[a].at \in Fetched /\ WriteGroups(a)
      /\ UNCHANGED <<world, console, locks>>
  BY <1>1 DEF WriteSync, Fetched
<1>3. /\ DOMAIN proc' = Admins /\ \A b \in Admins : b # a => proc'[b] = proc[b]
      /\ proc'[a].at = "unlock"
      /\ \A b \in Admins : Holds(proc'[b]) /\ Asks(proc'[b])
      /\ groups' \in [Groups -> GroupRows \cup {None}]
      /\ \A g \in Groups : groups[g] # None \/ g \in DOMAIN r.groups => groups'[g] # None
  BY <1>1, <1>2, GroupsWritten
<1>4. Holds(r) /\ TablesFit /\ Serial
  BY <1>1 DEF CopyInv
<1>5. PICK listed, items, chs, seen :
         listed = r.groups /\ items = r.accounts /\ chs = r.channels /\ seen = r.seen
  OBVIOUS
<1>6. IsGroups(listed) /\ IsAccounts(items) /\ IsChannels(chs)
  BY <1>2, <1>4, <1>5 DEF Holds, Fetched
<1>7. Fetchable(listed, items, chs)
  BY <1>6 DEF Fetchable, IsGroups, IsChannels
<1>8. AllTyped(models) /\ Keyed(models, groups)
  BY <1>4 DEF TablesFit
<1>9. DOMAIN models \subseteq seen \/ listed = <<>>
  BY <1>1, <1>2, <1>4, <1>5 DEF Serial, HoldsGroups
<1>10. /\ IsSnapshot(models', listed, items, chs, DOMAIN models \ seen) /\ AllTyped(models')
       /\ \A k \in DOMAIN models' : Placed(models, listed, k)
  <2>1. PICK rows, out : rows = models /\ out = models'
    OBVIOUS
  <2>2. AllTyped(rows) /\ out = SyncedModels(rows, seen, listed, items, chs)
    BY <1>1, <1>5, <1>8, <2>1 DEF WriteSync
  <2>3. DOMAIN rows \subseteq seen \/ listed = <<>>
    BY <1>9, <2>1
  <2>4. /\ IsSnapshot(out, listed, items, chs, DOMAIN rows \ seen) /\ AllTyped(out)
        /\ \A k \in DOMAIN out : Placed(rows, listed, k)
    BY <1>7, <2>2, <2>3, SyncMakesTheSnapshot
  <2> QED BY <2>1, <2>4
<1>11. ASSUME NEW k \in DOMAIN models'
       PROVE  k \in DOMAIN models \/ (k \in Groups \X Platforms \X Models /\ k[1] \in DOMAIN listed)
  BY <1>10 DEF Placed
<1>12. Keyed(models', groups')
  <2> SUFFICES ASSUME NEW k \in DOMAIN models'
               PROVE  k \in Groups \X Platforms \X Models /\ groups'[k[1]] # None
    BY DEF Keyed
  <2>1. CASE k \in DOMAIN models
    <3>1. k \in Groups \X Platforms \X Models /\ groups[k[1]] # None
      BY <1>8, <2>1 DEF Keyed
    <3> QED BY <1>3, <3>1
  <2>2. CASE k \in Groups \X Platforms \X Models /\ k[1] \in DOMAIN listed
    BY <1>3, <1>5, <2>2
  <2> QED BY <1>11, <2>1, <2>2
<1>13. CatalogIsTheSnapshot'
  <2>1. /\ modelsBy'.groups = listed /\ modelsBy'.accounts = items /\ modelsBy'.channels = chs
        /\ modelsBy'.missed = DOMAIN models \ seen
    BY <1>1, <1>5, ModelsStampMeans
  <2> QED BY <1>10, <2>1 DEF CatalogIsTheSnapshot, IsSnapshot
<1>14. IsAccounts(Range(chs))
  BY <1>6 DEF IsAccounts, IsChannels, Range
<1>15. accounts' \in [Ids -> Status \cup {None}]
  <2>1. PICK known : accounts' = SyncedStatus(accounts, known, items)
    BY <1>1, <1>5 DEF WriteSync
  <2> QED BY <1>4, <1>6, <2>1, StatusMeans DEF TablesFit
<1>16. channels' \in [Ids -> Status \cup {None}]
  <2>1. PICK known : channels' = SyncedStatus(channels, known, Range(chs))
    BY <1>1, <1>5 DEF WriteSync
  <2> QED BY <1>4, <1>14, <2>1, StatusMeans DEF TablesFit
<1>17. TablesFit'
  BY <1>3, <1>10, <1>12, <1>13, <1>15, <1>16 DEF TablesFit
\* Another transaction that lists groups sees every model still: this one lists none, so that
\* it has no models to add.
<1>18. ASSUME NEW b \in Admins, HoldsGroups(b)'
       PROVE  HoldsGroups(b) /\ DOMAIN models' \subseteq proc'[b].seen
  <2>1. b # a /\ proc'[b] = proc[b] /\ HoldsGroups(b)
    BY <1>3, <1>18 DEF HoldsGroups
  <2>2. listed = <<>>
    BY <1>1, <1>2, <1>4, <1>5, <2>1 DEF Serial, HoldsGroups
  <2>3. DOMAIN models' \subseteq DOMAIN models
    BY <1>11, <2>2
  <2> QED BY <1>4, <2>1, <2>3 DEF Serial
<1>19. Serial'
  BY <1>4, <1>18 DEF Serial
<1> QED BY <1>2, <1>3, <1>17, <1>19 DEF CopyInv, console

LEMMA CreateGroupKeepsCopy ==
    ASSUME CopyInv, NEW a \in Admins, CreateGroup(a)
    PROVE  CopyInv'
<1>1. PICK g \in Groups, row \in GroupRows : groups' = [groups EXCEPT ![g] = row]
  BY DEF CreateGroup, GroupRows, Status
<1>2. UNCHANGED <<world, models, accounts, channels, modelsBy, roles, enabled, locks, proc>>
  BY DEF CreateGroup, console
<1>3. /\ groups' \in [Groups -> GroupRows \cup {None}]
      /\ \A h \in Groups : groups[h] # None => groups'[h] # None
  BY <1>1, ModelsAssumption DEF CopyInv, TablesFit
<1>4. Keyed(models, groups')
  BY <1>3 DEF CopyInv, TablesFit, Keyed
<1>5. TablesFit'
  BY <1>2, <1>3, <1>4 DEF CopyInv, TablesFit, CatalogIsTheSnapshot
<1>6. Serial'
  BY <1>2 DEF CopyInv, Serial, HoldsGroups
<1> QED BY <1>2, <1>5, <1>6 DEF CopyInv

\* Requests to UpdateOfficialModelConfig keep what they ask for until they insert it.
LEMMA StartConfigKeepsCopy ==
    ASSUME CopyInv, NEW a \in Admins, StartConfig(a)
    PROVE  CopyInv'
<1>1. PICK g \in Groups, c \in Configs :
         /\ Starts(a, "config", [at |-> "deleteRoles", group |-> g, config |-> c,
                                 purposes |-> ActiveKeys, by |-> requests])
         /\ UNCHANGED <<world, clock, copy, console, locks, traffic, outlived, answer, faults>>
  BY DEF StartConfig
<1>2. PICK keys : keys = ActiveKeys
  OBVIOUS
<1>3. keys \subseteq Purposes
  BY <1>2, ModelsAssumption DEF ActiveKeys, CopyInv
<1>4. PICK r : r = [at |-> "deleteRoles", group |-> g, config |-> c, purposes |-> keys,
                    by |-> requests]
  OBVIOUS
<1>5. proc' = [proc EXCEPT ![a] = r]
  BY <1>1, <1>2, <1>4 DEF Starts
<1>6. r.at = "deleteRoles" /\ r.group = g /\ r.config = c /\ r.purposes = keys
  BY <1>4
<1>7. Holds(r) /\ Asks(r) /\ r.at # "writing"
  BY <1>3, <1>6 DEF Holds, Asks, Fetched
<1>8. LocksFit(locks')
  BY <1>1 DEF CopyInv
<1> QED BY <1>1, <1>5, <1>7, <1>8, CopyMoved

LEMMA DeleteRolesKeepsCopy ==
    ASSUME CopyInv, NEW a \in Admins, DeleteRoles(a)
    PROVE  CopyInv'
<1>1. PICK q : q = proc[a]
  OBVIOUS
<1>2. PICK gone : gone = {x \in roles : x.group = q.group /\ x.purpose \in q.purposes}
  OBVIOUS
<1>3. PICK r : r = [at |-> "insertRoles", group |-> q.group, config |-> q.config,
                    purposes |-> q.purposes, by |-> q.by, gone |-> gone]
  OBVIOUS
<1>4. /\ q.at = "deleteRoles" /\ proc' = [proc EXCEPT ![a] = r]
      /\ UNCHANGED <<world, copy, console, locks>>
  BY <1>1, <1>2, <1>3 DEF DeleteRoles
<1>5. r.at = "insertRoles" /\ r.group = q.group /\ r.config = q.config /\ r.purposes = q.purposes
  BY <1>3
<1>6. Asks(q) /\ LocksFit(locks)
  BY <1>1 DEF CopyInv
<1>7. Holds(r) /\ Asks(r) /\ r.at # "writing"
  BY <1>4, <1>5, <1>6 DEF Holds, Asks, Fetched, Configuring
<1> QED BY <1>4, <1>6, <1>7, CopyMoved

LEMMA RolesOfFit ==
    ASSUME NEW r, r.group \in Groups, r.config \in Configs, r.purposes \subseteq Purposes
    PROVE  RolesFit(RolesOf(r))
<1> SUFFICES ASSUME NEW x \in RolesOf(r)
             PROVE  x.group \in Groups /\ x.purpose \in Purposes /\ x.model \in Models
  BY DEF RolesFit
<1>1. PICK q \in r.purposes : \E i \in DOMAIN r.config[q].models :
         x = [group |-> r.group, purpose |-> q, model |-> r.config[q].models[i], sort |-> i,
              default |-> r.config[q].models[i] = DefaultOf(r.config[q]), by |-> r.by]
  BY Zenon DEF RolesOf
<1>2. PICK i \in DOMAIN r.config[q].models :
         x = [group |-> r.group, purpose |-> q, model |-> r.config[q].models[i], sort |-> i,
              default |-> r.config[q].models[i] = DefaultOf(r.config[q]), by |-> r.by]
  BY <1>1, Zenon
<1>3. x.group = r.group /\ x.purpose = q /\ x.model = r.config[q].models[i]
  BY <1>2, Zenon
<1>4. PICK ms : ms = r.config[q].models
  OBVIOUS
<1>5. ms \in Seq(Models)
  BY <1>1, <1>4, ModelsAssumption
<1>6. ms[i] \in Models
  BY <1>1, <1>4, <1>5
<1> QED BY <1>1, <1>3, <1>4, <1>6

LEMMA InsertRolesKeepsCopy ==
    ASSUME CopyInv, NEW a \in Admins, InsertRoles(a)
    PROVE  CopyInv'
<1>1. PICK r, gone : r = proc[a] /\ gone = proc[a].gone
  OBVIOUS
<1>2. /\ r.at = "insertRoles" /\ proc' = [proc EXCEPT ![a] = Idle]
      /\ roles' \in {(roles \ gone) \cup RolesOf(r), roles}
      /\ UNCHANGED <<world, copy, enabled, locks>>
  BY <1>1 DEF InsertRoles, Ends
<1>3. Asks(r) /\ RolesFit(roles) /\ LocksFit(locks)
  BY <1>1 DEF CopyInv
<1>4. RolesFit(RolesOf(r))
  BY <1>2, <1>3, RolesOfFit DEF Asks, Configuring
<1>5. RolesFit(roles')
  BY <1>2, <1>3, <1>4 DEF RolesFit
<1>6. Holds(Idle) /\ Asks(Idle) /\ Idle.at # "writing"
  BY DEF Idle, Holds, Asks, Fetched, Configuring
<1>7. /\ DOMAIN proc' = Admins
      /\ \A b \in Admins : Holds(proc'[b]) /\ Asks(proc'[b])
  BY <1>2, <1>6 DEF CopyInv
<1>8. TablesFit'
  BY <1>2 DEF CopyInv, TablesFit, CatalogIsTheSnapshot, copy
<1>9. Serial'
  BY <1>2, <1>6 DEF CopyInv, Serial, HoldsGroups, copy
<1> QED BY <1>2, <1>3, <1>5, <1>7, <1>8, <1>9 DEF CopyInv

\* The locks and the copy after every step.
LEMMA CopyKept ==
    ASSUME SyncInv, CopyInv, [Next]_vars
    PROVE  CopyInv'
<1>1. LocksFit(locks)
  BY DEF CopyInv
<1>2. Holds(Idle) /\ Asks(Idle) /\ Idle.at # "writing"
  BY DEF Idle, Holds, Asks, Fetched, Configuring
<1>3. ASSUME NEW a \in Admins, Unlock(a)
      PROVE  CopyInv'
  <2>1. /\ proc[a].at = "unlock" /\ proc' = [proc EXCEPT ![a] = Idle]
        /\ UNCHANGED <<world, copy, console>>
        /\ locks' = [locks EXCEPT ![proc[a].job] = IF @ = a THEN None ELSE @]
    BY <1>3 DEF Unlock, Released, Ends
  <2>2. PICK job \in Jobs : job = proc[a].job
    BY <2>1 DEF SyncInv, Holding, Syncing
  <2>3. LocksFit(locks')
    BY <1>1, <2>1, <2>2 DEF LocksFit
  <2> QED BY <1>2, <2>1, <2>3, CopyMoved
<1>4. ASSUME NEW a \in Admins, SyncFails(a)
      PROVE  CopyInv'
  <2>1. PICK r : r = [at |-> "unlock", job |-> proc[a].job]
    OBVIOUS
  <2>2. proc' = [proc EXCEPT ![a] = r] /\ UNCHANGED <<world, copy, console, locks>>
    BY <1>4, <2>1 DEF SyncFails, CopyInv
  <2>3. r.at = "unlock"
    BY <2>1
  <2>4. Holds(r) /\ Asks(r) /\ r.at # "writing"
    BY <2>3, NothingHeld DEF Fetched, Configuring
  <2> QED BY <1>1, <2>2, <2>4, CopyMoved
<1>5. ASSUME NEW a \in Admins, Die(a) \/ Respond(a)
      PROVE  CopyInv'
  <2>1. proc' = [proc EXCEPT ![a] = Idle] /\ UNCHANGED <<world, copy, console, locks>>
    BY <1>5 DEF Die, Respond, Ends
  <2> QED BY <1>1, <1>2, <2>1, CopyMoved
<1>6. ASSUME NEW a \in Admins, StartProvider(a)
      PROVE  CopyInv'
  <2>1. PICK g \in Groups :
           /\ Starts(a, "provider", [at |-> "readModels", group |-> g])
           /\ UNCHANGED <<world, clock, copy, console, locks, traffic, outlived, answer, faults>>
    BY <1>6 DEF StartProvider
  <2>2. PICK r : r = [at |-> "readModels", group |-> g]
    OBVIOUS
  <2>3. proc' = [proc EXCEPT ![a] = r] /\ r.at = "readModels"
    BY <2>1, <2>2 DEF Starts
  <2>4. Holds(r) /\ Asks(r) /\ r.at # "writing"
    BY <2>3, NothingHeld DEF Fetched, Configuring
  <2> QED BY <1>1, <2>1, <2>3, <2>4, CopyMoved
<1>7. ASSUME NEW a \in Admins, ReadModels(a) \/ ReadConfigs(a)
      PROVE  CopyInv'
  <2>1. /\ \E r : proc' = [proc EXCEPT ![a] = r] /\ r.at \in {"readConfigs", "respond"}
        /\ UNCHANGED <<world, copy, console, locks>>
    BY <1>7 DEF ReadModels, ReadConfigs, CopyInv
  <2>2. PICK r : proc' = [proc EXCEPT ![a] = r] /\ r.at \in {"readConfigs", "respond"}
    BY <2>1
  <2>3. Holds(r) /\ Asks(r) /\ r.at # "writing"
    BY <2>2, NothingHeld DEF Fetched, Configuring
  <2> QED BY <1>1, <2>1, <2>2, <2>3, CopyMoved
<1>8. ASSUME NEW a \in Admins, ReplacePurposes(a)
      PROVE  CopyInv'
  <2>1. /\ UNCHANGED <<proc, copy, roles, world, locks>> /\ enabled' \subseteq Purposes
    BY <1>8 DEF ReplacePurposes
  <2>2. world' \in Worlds
    BY <2>1 DEF CopyInv
  <2> QED BY <1>1, <2>1, <2>2, CopySame
<1>9. ASSUME NEW job \in Jobs, ExpireLock(job)
      PROVE  CopyInv'
  <2>1. UNCHANGED <<proc, copy, console, world>> /\ locks' = [locks EXCEPT ![job] = None]
    BY <1>9 DEF ExpireLock
  <2>2. LocksFit(locks') /\ world' \in Worlds /\ enabled' \subseteq Purposes
    BY <1>1, <2>1 DEF LocksFit, CopyInv, console
  <2> QED BY <2>1, <2>2, CopySame DEF console
<1>10. ASSUME ChangeWorld \/ UNCHANGED vars
       PROVE  CopyInv'
  <2>1. UNCHANGED <<proc, copy, console, locks>> /\ (world' \in Worlds \/ world' = world)
    BY <1>10 DEF ChangeWorld, vars
  <2>2. world' \in Worlds /\ enabled' \subseteq Purposes
    BY <2>1 DEF CopyInv, console
  <2> QED BY <1>1, <2>1, <2>2, CopySame DEF console
<1> QED BY <1>3, <1>4, <1>5, <1>6, <1>7, <1>8, <1>9, <1>10, StartSyncKeepsCopy, FetchKeepsCopy,
           SyncGroupsKeepsCopy, MarkStaleKeepsCopy, WriteSyncKeepsCopy, CreateGroupKeepsCopy,
           StartConfigKeepsCopy, DeleteRolesKeepsCopy, InsertRolesKeepsCopy DEF Next

LEMMA CopyInit ==
    ASSUME Init
    PROVE  CopyInv
<1>1. PICK listed, items, chs :
         listed = world.groups /\ items = world.accounts /\ chs = world.channels
  OBVIOUS
<1>2. /\ world \in Worlds
      /\ groups = SyncedGroups([g \in Groups |-> None], listed)
      /\ models = SyncedModels(<<>>, {}, listed, items, chs)
      /\ accounts = SyncedStatus([i \in Ids |-> None], {}, items)
      /\ channels = SyncedStatus([i \in Ids |-> None], {}, Range(chs))
      /\ modelsBy.groups = listed /\ modelsBy.accounts = items /\ modelsBy.channels = chs
      /\ modelsBy.missed = {}
      /\ roles = {} /\ enabled = Purposes /\ locks = [j \in Jobs |-> None]
      /\ proc = [a \in Admins |-> Idle]
  BY <1>1 DEF Init
<1>3. IsGroups(listed) /\ IsAccounts(items) /\ IsChannels(chs)
  BY <1>1, <1>2, WorldMeans
<1>4. Fetchable(listed, items, chs)
  BY <1>3 DEF Fetchable, IsGroups, IsChannels
<1>5. AllTyped(<<>>) /\ DOMAIN <<>> = {} /\ DOMAIN <<>> \subseteq {}
  BY DEF AllTyped
<1>6. /\ IsSnapshot(models, listed, items, chs, {}) /\ AllTyped(models)
      /\ \A k \in DOMAIN models : Placed(<<>>, listed, k)
  <2>1. PICK rows, seen, out : rows = <<>> /\ seen = {} /\ out = models
    OBVIOUS
  <2>2. DOMAIN rows \subseteq seen /\ DOMAIN rows \ seen = {}
    BY <1>5, <2>1
  <2>3. AllTyped(rows) /\ out = SyncedModels(rows, seen, listed, items, chs)
    BY <1>2, <1>5, <2>1
  <2>4. /\ IsSnapshot(out, listed, items, chs, DOMAIN rows \ seen) /\ AllTyped(out)
        /\ \A k \in DOMAIN out : Placed(rows, listed, k)
    BY <1>4, <2>2, <2>3, SyncMakesTheSnapshot
  <2> QED BY <2>1, <2>2, <2>4
<1>7. /\ groups \in [Groups -> GroupRows \cup {None}]
      /\ \A g \in Groups : g \in DOMAIN listed => groups[g] # None
  <2>1. [g \in Groups |-> None] \in [Groups -> GroupRows \cup {None}]
    OBVIOUS
  <2> QED BY <1>2, <1>3, <2>1, GroupsMean
<1>8. Keyed(models, groups)
  BY <1>6, <1>7 DEF Keyed, Placed
<1>9. IsAccounts(Range(chs))
  BY <1>3 DEF IsAccounts, IsChannels, Range
<1>10. [i \in Ids |-> None] \in [Ids -> Status \cup {None}]
  OBVIOUS
<1>11. accounts \in [Ids -> Status \cup {None}]
  BY <1>2, <1>3, <1>10, StatusMeans
<1>12. channels \in [Ids -> Status \cup {None}]
  BY <1>2, <1>9, <1>10, StatusMeans
<1>13. CatalogIsTheSnapshot
  BY <1>2, <1>6 DEF CatalogIsTheSnapshot, IsSnapshot
<1>14. Holds(Idle) /\ Asks(Idle)
  BY DEF Idle, Holds, Asks, Fetched, Configuring
<1>15. /\ DOMAIN proc = Admins /\ \A a \in Admins : Holds(proc[a]) /\ Asks(proc[a])
       /\ RolesFit(roles) /\ LocksFit(locks) /\ enabled \subseteq Purposes
  BY <1>2, <1>14 DEF RolesFit, LocksFit
<1>16. Serial
  BY <1>2 DEF Serial, HoldsGroups, Idle
<1> QED BY <1>2, <1>6, <1>7, <1>8, <1>11, <1>12, <1>13, <1>15, <1>16 DEF CopyInv, TablesFit

LEMMA CopyAlways ==
    Spec => []CopyInv
<1>1. Init => SyncInv /\ CopyInv
  BY SyncInit, CopyInit
<1>2. SyncInv /\ CopyInv /\ [Next]_vars => SyncInv' /\ CopyInv'
  BY SyncKept, CopyKept
<1> QED BY <1>1, <1>2, PTL DEF Spec

\* What SyncModels leaves on offer is exactly what the lists it fetched say, at the price of the
\* last channel that has a say, whatever the rows were before and whoever wrote meanwhile, but
\* for the models that an UPDATE misses, which only happens when the list of groups is empty.
THEOREM CatalogIsAlwaysTheSnapshot ==
    Spec => []CatalogIsTheSnapshot
<1>1. CopyInv => CatalogIsTheSnapshot
  BY DEF CopyInv, TablesFit
<1> QED BY <1>1, CopyAlways, PTL

\* The tables that SyncGroups, SyncModels and administrators write keep their types, and no model
\* is of a group without a row.
THEOREM ModelsTypeCorrect ==
    Spec => []TypeOK
<1>1. CopyInv => TypeOK
  <2> SUFFICES ASSUME CopyInv
               PROVE  TypeOK
    OBVIOUS
  <2>1. \A g \in Groups : groups[g] \in GroupRows \cup {None}
    BY DEF CopyInv, TablesFit
  <2>2. \A k \in DOMAIN models :
           /\ k \in Groups \X Platforms \X Models /\ groups[k[1]] # None
           /\ models[k].status \in Status /\ models[k].channel \in Ids \cup {None}
    BY DEF CopyInv, TablesFit, Keyed, AllTyped, Typed
  <2>3. \A i \in Ids : {accounts[i], channels[i]} \subseteq Status \cup {None}
    BY DEF CopyInv, TablesFit
  <2>4. /\ \A x \in roles : x.group \in Groups /\ x.purpose \in Purposes /\ x.model \in Models
        /\ enabled \subseteq Purposes /\ \A j \in Jobs : locks[j] \in Admins \cup {None}
    BY DEF CopyInv, RolesFit, LocksFit
  <2> QED BY <2>1, <2>2, <2>3, <2>4 DEF TypeOK
<1> QED BY <1>1, CopyAlways, PTL
==============================================================================
