--------------------------- MODULE GatewayModels ---------------------------
(***************************************************************************)
(* The local copy of what Sub2API offers, and what is built on it: groups, *)
(* models and their prices (SyncGroups, SyncModels), the models a group    *)
(* offers for a purpose (UpdateOfficialModelConfig), the purposes          *)
(* themselves (OfficialCapabilityService.Replace), and the answer a client *)
(* gets from all of it (OfficialProvider).                                 *)
(*                                                                         *)
(* A sync fetches its lists one after the other and writes them in one     *)
(* transaction.  A lock in Redis keeps syncs of one kind apart, for as     *)
(* long as its TTL.  Transactions that list groups are serialised by the   *)
(* rows of gateway_groups, all of which they write.  One whose list is     *)
(* empty is not: it meets another at the rows of the models, which it      *)
(* marks as they were when its UPDATE began.                               *)
(*                                                                         *)
(* External: Sub2API, which changes from one world to another at any time. *)
(***************************************************************************)
EXTENDS ModelSync

CONSTANTS
    Admins,       \* requests in progress at a time
    Groups,       \* external ids of groups
    Platforms,
    Ids,          \* external ids of accounts and channels
    Worlds,       \* what Sub2API can hold: groups, accounts, channels
    Purposes,     \* keys of official_capability_definitions
    BuiltIn,      \* the purposes assumed when none is enabled
    DefaultModel, \* OFFICIAL_PROVIDER_DEFAULT_MODEL, or None
    Configs,      \* models per purpose a request can ask for
    Traffic,      \* mixes of the kinds of request that arrive together
    MaxRequests,  \* bound: requests that arrive
    MaxChanges,   \* bound: changes of Sub2API
    MaxFaults     \* bound: failing calls, dying requests, locks that expire

Status == {"active", "inactive"}
GroupRows == [type : {"standard", "subscription"}, platform : Platforms, status : Status]

\* What Sub2API can hold, once normalised: a status is active or not, and a price is for
\* the models it names.
IsWorld(s) ==
    /\ \E gs \in SUBSET Groups : s.groups \in [gs -> GroupRows]
    /\ \A x \in s.accounts : x.status \in Status
    /\ s.channels \in Seq(Range(s.channels))
    /\ \A ch \in Range(s.channels) :
          /\ ch.id \in Ids /\ ch.status \in Status
          /\ \A e \in Range(ch.pricing) : e.models \subseteq Models

Kinds == {"models", "groups", "group", "purposes", "config", "provider"}
Jobs == {"models", "groups"}
Syncing == {"fetchGroups", "fetchChannels", "fetchAccounts", "write", "writing", "unlock"}

ASSUME ModelsAssumption ==
    /\ None \notin Groups \cup Models \cup Admins \cup Ids
    /\ None \notin GroupRows
    /\ \A s \in Worlds : IsWorld(s)
    /\ BuiltIn \subseteq Purposes /\ DefaultModel \in Models \cup {None}
    /\ Configs \subseteq [Purposes -> [models : Seq(Models), default : Models \cup {None}]]
    /\ Traffic \subseteq SUBSET Kinds
    /\ {MaxRequests, MaxChanges, MaxFaults} \subseteq Nat

VARIABLES
    world,     \* what Sub2API holds
    clock,     \* how often that changed
    groups,    \* gateway_groups
    models,    \* gateway_group_models
    accounts,  \* gateway_upstream_accounts: the status
    channels,  \* gateway_channels: the status
    roles,     \* gateway_group_model_roles
    enabled,   \* official_capability_definitions that are enabled
    locks,     \* the job locks in Redis: whose token
    proc,      \* the requests in progress
    traffic,   \* the kinds that arrive in this behaviour
    outlived,  \* ghost: the syncs whose lock expired under them
    groupsBy,  \* ghost: who wrote the groups
    modelsBy,  \* ghost: who wrote the models, and from which lists
    answer,    \* ghost: what the last client was answered
    requests, faults

copy == <<groups, models, accounts, channels, groupsBy, modelsBy>>
console == <<roles, enabled>>
vars == <<world, clock, copy, console, locks, proc, traffic, outlived, answer, requests, faults>>

Idle == [at |-> "idle"]

Starts(a, kind, state) ==
    /\ proc[a] = Idle /\ kind \in traffic /\ requests < MaxRequests
    /\ requests' = requests + 1
    /\ proc' = [proc EXCEPT ![a] = state]

Ends(a) == proc' = [proc EXCEPT ![a] = Idle]

----------------------------------------------------------------------------
(* SyncGroups and SyncModels.                                              *)

\* tryAdminJobLock: whoever finds the lock taken is refused and is not modelled further.
StartSync(a, job) ==
    /\ locks[job] = None
    /\ Starts(a, job, [at |-> "fetchGroups", job |-> job])
    /\ locks' = [locks EXCEPT ![job] = a]
    /\ UNCHANGED <<world, clock, copy, console, traffic, outlived, answer, faults>>

\* Load, NewSub2APIClient and ListGroups.
FetchGroups(a) ==
    LET job == proc[a].job
    IN /\ proc[a].at = "fetchGroups"
       /\ proc' = [proc EXCEPT ![a] =
            [at |-> IF job = "models" THEN "fetchChannels" ELSE "write", job |-> job,
             groups |-> world.groups, since |-> clock]]
       /\ UNCHANGED <<world, clock, copy, console, locks, traffic, outlived, answer, requests,
                      faults>>

FetchChannels(a) ==
    /\ proc[a].at = "fetchChannels"
    /\ proc' = [proc EXCEPT ![a] = [at |-> "fetchAccounts", job |-> @.job, groups |-> @.groups,
                                    since |-> @.since, channels |-> world.channels]]
    /\ UNCHANGED <<world, clock, copy, console, locks, traffic, outlived, answer, requests, faults>>

FetchAccounts(a) ==
    /\ proc[a].at = "fetchAccounts"
    /\ proc' = [proc EXCEPT ![a] = [at |-> "write", job |-> @.job, groups |-> @.groups,
                                    since |-> @.since, channels |-> @.channels,
                                    accounts |-> world.accounts]]
    /\ UNCHANGED <<world, clock, copy, console, locks, traffic, outlived, answer, requests, faults>>

\* A transaction holds the rows of all groups from its first group on, unless it lists none.
HoldsGroups(a) == proc[a].at = "writing" /\ proc[a].groups # <<>>
FreeFor(a) == proc[a].groups = <<>> \/ \A b \in Admins : ~HoldsGroups(b)

\* syncSub2APIGroupsInTx, seen at the commit.
WriteGroups(a) ==
    LET r == proc[a]
    IN /\ groups' = SyncedGroups(groups, r.groups)
       /\ groupsBy' = [since |-> r.since, job |-> r.job, late |-> a \in outlived]
       /\ proc' = [proc EXCEPT ![a] = [at |-> "unlock", job |-> r.job]]

\* The transaction of SyncGroups.
SyncGroups(a) ==
    /\ proc[a].at = "write" /\ proc[a].job = "groups" /\ FreeFor(a)
    /\ WriteGroups(a)
    /\ UNCHANGED <<world, clock, models, accounts, channels, modelsBy, console, locks, traffic,
                   outlived, answer, requests, faults>>

Known(rows) == {i \in DOMAIN rows : rows[i] # None}

\* The transaction of SyncModels up to the groups; the UPDATE of gateway_group_models begins.
MarkStale(a) ==
    LET r == proc[a]
    IN /\ r.at = "write" /\ r.job = "models" /\ FreeFor(a)
       /\ proc' = [proc EXCEPT ![a] =
            [at |-> "writing", job |-> r.job, groups |-> r.groups, since |-> r.since,
             channels |-> r.channels, accounts |-> r.accounts, seen |-> DOMAIN models,
             seenAccounts |-> Known(accounts), seenChannels |-> Known(channels)]]
       /\ UNCHANGED <<world, clock, copy, console, locks, traffic, outlived, answer, requests,
                      faults>>

\* The rest of it, and the commit.  The UPDATE of the accounts, and that of the channels,
\* begins at some point between.
WriteSync(a) ==
    LET r == proc[a]
    IN /\ r.at = "writing"
       /\ WriteGroups(a)
       /\ models' = SyncedModels(models, r.seen, r.groups, r.accounts, r.channels)
       /\ \E seen \in {r.seenAccounts, Known(accounts)} :
             accounts' = SyncedStatus(accounts, seen, r.accounts)
       /\ \E seen \in {r.seenChannels, Known(channels)} :
             channels' = SyncedStatus(channels, seen, Range(r.channels))
       /\ modelsBy' = [since |-> r.since, job |-> r.job, late |-> a \in outlived,
                       groups |-> r.groups, accounts |-> r.accounts, channels |-> r.channels,
                       missed |-> DOMAIN models \ r.seen]
       /\ UNCHANGED <<world, clock, console, locks, traffic, outlived, answer, requests, faults>>

\* mutant: DEL without comparing the token
Deleted(a, job) == [locks EXCEPT ![job] = None]

\* The script that deletes the lock if it still holds the token.
Released(a, job) == [locks EXCEPT ![job] = IF @ = a THEN None ELSE @]

Unlock(a) ==
    /\ proc[a].at = "unlock"
    /\ locks' = Released(a, proc[a].job)
    /\ outlived' = outlived \ {a}
    /\ Ends(a)
    /\ UNCHANGED <<world, clock, copy, console, traffic, answer, requests, faults>>

\* A call to Sub2API or a statement fails: nothing is written.
SyncFails(a) ==
    /\ proc[a].at \in {"fetchGroups", "fetchChannels", "fetchAccounts", "write", "writing"}
    /\ faults < MaxFaults /\ faults' = faults + 1
    /\ proc' = [proc EXCEPT ![a] = [at |-> "unlock", job |-> @.job]]
    /\ UNCHANGED <<world, clock, copy, console, locks, traffic, outlived, answer, requests>>

Runs(a, job) == proc[a].at \in Syncing /\ proc[a].job = job

\* The TTL of a lock passes, while its sync runs or after its server died.
ExpireLock(job) ==
    /\ locks[job] # None
    /\ faults < MaxFaults /\ faults' = faults + 1
    /\ outlived' = outlived \cup {a \in {locks[job]} : Runs(a, job)}
    /\ locks' = [locks EXCEPT ![job] = None]
    /\ UNCHANGED <<world, clock, copy, console, proc, traffic, answer, requests>>

\* The server dies; a lock it has in Redis stays.
Die(a) ==
    /\ proc[a] # Idle
    /\ faults < MaxFaults /\ faults' = faults + 1
    /\ Ends(a)
    /\ outlived' = outlived \ {a}
    /\ UNCHANGED <<world, clock, copy, console, locks, traffic, answer, requests>>

----------------------------------------------------------------------------
(* What administrators write themselves.                                   *)

\* CreateGatewayGroup: INSERT, or UPDATE of the group that has the external id, once no sync
\* holds it.
CreateGroup(a) ==
    /\ proc[a] = Idle /\ "group" \in traffic /\ requests < MaxRequests
    /\ \A b \in Admins : ~HoldsGroups(b)
    /\ requests' = requests + 1
    /\ \E g \in Groups, t \in {"standard", "subscription"}, p \in Platforms,
          s \in {"active", "inactive"} :
          groups' = [groups EXCEPT ![g] = [type |-> t, platform |-> p, status |-> s]]
    /\ UNCHANGED <<world, clock, models, accounts, channels, groupsBy, modelsBy, console, locks,
                   proc, traffic, outlived, answer, faults>>

\* Replace: every purpose listed is written with its flag, the others are disabled; an
\* empty list changes nothing.  So any set can come to be enabled.
ReplacePurposes(a) ==
    /\ proc[a] = Idle /\ "purposes" \in traffic /\ requests < MaxRequests
    /\ requests' = requests + 1
    /\ enabled' \in SUBSET Purposes
    /\ UNCHANGED <<world, clock, copy, roles, locks, proc, traffic, outlived, answer,
                   faults>>

\* activeOfficialCapabilityKeys
ActiveKeys == IF enabled = {} THEN BuiltIn ELSE enabled

\* The models of a group that are active, whatever the platform.
Available(g) == {k[3] : k \in {k \in DOMAIN models : k[1] = g /\ models[k].status = "active"}}

\* normalizeOfficialPurposeConfig: the default is one of the models, the first if need be.
DefaultOf(c) == IF c.models = <<>> THEN None
                ELSE IF c.default \in Range(c.models) THEN c.default ELSE Head(c.models)

\* UpdateOfficialModelConfig: the purposes are read and the models checked outside the
\* transaction.
StartConfig(a) ==
    \E g \in Groups, c \in Configs :
       /\ groups[g] # None
       /\ \A q \in ActiveKeys : Range(c[q].models) \subseteq Available(g)
       /\ Starts(a, "config", [at |-> "deleteRoles", group |-> g, config |-> c,
                               purposes |-> ActiveKeys, by |-> requests])
       /\ UNCHANGED <<world, clock, copy, console, locks, traffic, outlived, answer, faults>>

\* DELETE removes the rows committed when the statement starts, waiting if another
\* transaction has them, but never rows committed later.
DeleteRoles(a) ==
    LET r == proc[a]
    IN /\ r.at = "deleteRoles"
       /\ proc' = [proc EXCEPT ![a] =
             [at |-> "insertRoles", group |-> r.group, config |-> r.config,
              purposes |-> r.purposes, by |-> r.by,
              gone |-> {x \in roles : x.group = r.group /\ x.purpose \in r.purposes}]]
       /\ UNCHANGED <<world, clock, copy, console, locks, traffic, outlived, answer, requests,
                      faults>>

RolesOf(r) ==
    UNION {{[group |-> r.group, purpose |-> q, model |-> r.config[q].models[i], sort |-> i,
             default |-> r.config[q].models[i] = DefaultOf(r.config[q]), by |-> r.by] :
               i \in DOMAIN r.config[q].models} : q \in r.purposes}

\* mutant: there is no index over the defaults
UniqueModel(rows) ==
    \A x, y \in rows : <<x.group, x.purpose, x.model>> = <<y.group, y.purpose, y.model>> => x = y

\* The unique key of the table and the unique index over its defaults.
UniqueRoles(rows) ==
    \A x, y \in rows :
       x # y /\ x.group = y.group /\ x.purpose = y.purpose =>
          x.model # y.model /\ ~(x.default /\ y.default)

\* The inserts and the commit, or the violation of an index and the rollback.
InsertRoles(a) ==
    LET r == proc[a]
        rows == (roles \ r.gone) \cup RolesOf(r)
    IN /\ r.at = "insertRoles"
       /\ roles' = IF UniqueRoles(rows) THEN rows ELSE roles
       /\ Ends(a)
       /\ UNCHANGED <<world, clock, copy, enabled, locks, traffic, outlived, answer,
                      requests, faults>>

----------------------------------------------------------------------------
(* OfficialProvider.                                                       *)

\* groupHasOfficialCapabilities and its like; the credential is in GatewayCredential.
StartProvider(a) ==
    \E g \in Groups :
       /\ groups[g] # None /\ groups[g].status = "active"
       /\ \E x \in roles : x.group = g /\ x.purpose \in enabled
       /\ Starts(a, "provider", [at |-> "readModels", group |-> g])
       /\ UNCHANGED <<world, clock, copy, console, locks, traffic, outlived, answer, faults>>

\* modelCatalogForGroups
ReadModels(a) ==
    /\ proc[a].at = "readModels"
    /\ proc' = [proc EXCEPT ![a] = [at |-> "readConfigs", group |-> @.group,
                                    models |-> Available(@.group)]]
    /\ UNCHANGED <<world, clock, copy, console, locks, traffic, outlived, answer, requests, faults>>

\* officialPurposeConfigs: the enabled purposes that have rows, in the order of the rows.
ReadConfigs(a) ==
    LET r == proc[a]
        mine == {x \in roles : x.group = r.group /\ x.purpose \in enabled}
    IN /\ r.at = "readConfigs"
       /\ proc' = [proc EXCEPT ![a] = [at |-> "respond", group |-> r.group,
                                       models |-> r.models, configs |-> mine]]
       /\ UNCHANGED <<world, clock, copy, console, locks, traffic, outlived, answer, requests,
                      faults>>

\* The first of a set of rows by sort_order.
FirstModel(rows) == (CHOOSE x \in rows : \A y \in rows : x.sort <= y.sort).model

\* mutant: the default is looked for among the models configured
SelectedConfigured(rows, listed) ==
    IF \E x \in rows : x.default THEN (CHOOSE x \in rows : x.default).model ELSE FirstModel(rows)

\* selectedConfiguredModel among the models of the answer.
Selected(rows, listed) ==
    IF \E x \in listed : x.default THEN (CHOOSE x \in listed : x.default).model
    ELSE FirstModel(listed)

\* legacyOfficialAgentProvider, and what selectProviderModel can return: the default, also
\* when there are no models, or the first model, in the order of the query.
LegacySelections(listed) == IF DefaultModel \in listed \/ listed = {} THEN {DefaultModel} ELSE listed
Legacy(listed, selected) == [purpose |-> "agent", models |-> listed, selected |-> selected]

\* officialCapabilityDefinitions and officialPurposeProvider: a purpose without a model
\* that is active gives no provider.
PurposeProviders(r) ==
    LET rows(q) == {x \in r.configs : x.purpose = q}
        listed(q) == {x \in rows(q) : x.model \in r.models}
    IN {[purpose |-> q, models |-> {x.model : x \in listed(q)},
         selected |-> Selected(rows(q), listed(q))] : q \in {q \in ActiveKeys : listed(q) # {}}}

\* The legacy provider is always sent, and is the only one of the list when there is no other.
Respond(a) ==
    LET r == proc[a]
    IN /\ r.at = "respond"
       /\ \E selected \in LegacySelections(r.models) :
             LET legacy == Legacy(r.models, selected)
             IN answer' = [read |-> r.models, provider |-> legacy,
                           providers |-> IF PurposeProviders(r) = {} THEN {legacy}
                                         ELSE PurposeProviders(r)]
       /\ Ends(a)
       /\ UNCHANGED <<world, clock, copy, console, locks, traffic, outlived, requests, faults>>

----------------------------------------------------------------------------

\* Sub2API changes.
ChangeWorld ==
    /\ clock < MaxChanges /\ clock' = clock + 1
    /\ world' \in Worlds \ {world}
    /\ UNCHANGED <<copy, console, locks, proc, traffic, outlived, answer, requests, faults>>

\* A sync has run once and found groups.
Init ==
    /\ world \in Worlds /\ world.groups # <<>> /\ clock = 0
    /\ groups = SyncedGroups([g \in Groups |-> None], world.groups)
    /\ models = SyncedModels(<<>>, {}, world.groups, world.accounts, world.channels)
    /\ accounts = SyncedStatus([i \in Ids |-> None], {}, world.accounts)
    /\ channels = SyncedStatus([i \in Ids |-> None], {}, Range(world.channels))
    /\ roles = {} /\ enabled = Purposes
    /\ locks = [j \in Jobs |-> None]
    /\ proc = [a \in Admins |-> Idle]
    /\ traffic \in Traffic
    /\ outlived = {}
    /\ groupsBy = [since |-> 0, job |-> "models", late |-> FALSE]
    /\ modelsBy = [since |-> 0, job |-> "models", late |-> FALSE, groups |-> world.groups,
                   accounts |-> world.accounts, channels |-> world.channels, missed |-> {}]
    /\ answer = [read |-> {}, provider |-> Legacy({}, DefaultModel),
                 providers |-> {Legacy({}, DefaultModel)}]
    /\ requests = 0 /\ faults = 0

Next ==
    \/ \E a \in Admins :
          \/ \E job \in Jobs : StartSync(a, job)
          \/ FetchGroups(a) \/ FetchChannels(a) \/ FetchAccounts(a) \/ SyncGroups(a)
          \/ MarkStale(a) \/ WriteSync(a) \/ Unlock(a) \/ SyncFails(a) \/ Die(a)
          \/ CreateGroup(a) \/ ReplacePurposes(a)
          \/ StartConfig(a) \/ DeleteRoles(a) \/ InsertRoles(a)
          \/ StartProvider(a) \/ ReadModels(a) \/ ReadConfigs(a) \/ Respond(a)
    \/ \E job \in Jobs : ExpireLock(job)
    \/ ChangeWorld

Spec == Init /\ [][Next]_vars
----------------------------------------------------------------------------
(* Properties.                                                             *)

\* The tables keep their types, and the key of a model belongs to a group that has a row.
TypeOK ==
    /\ \A g \in Groups : groups[g] \in GroupRows \cup {None}
    /\ \A k \in DOMAIN models :
          /\ k \in Groups \X Platforms \X Models /\ groups[k[1]] # None
          /\ models[k].status \in Status /\ models[k].channel \in Ids \cup {None}
    /\ \A i \in Ids : {accounts[i], channels[i]} \subseteq Status \cup {None}
    /\ \A x \in roles : x.group \in Groups /\ x.purpose \in Purposes /\ x.model \in Models
    /\ enabled \subseteq Purposes
    /\ \A j \in Jobs : locks[j] \in Admins \cup {None}

\* SyncModels: the models on offer are those of the lists one sync fetched, all of them and
\* no others, with the price of the last channel that has a say, whatever was on offer
\* before and however the accounts and channels were written over each other.  Only a sync
\* that found no groups leaves other models beside: those a sync committed after it began.
CatalogIsTheSnapshot ==
    LET s == modelsBy
        active == {k \in DOMAIN models : models[k].status = "active"} \ s.missed
    IN /\ active = Supported(s.groups, s.accounts, s.channels)
       /\ \A k \in active : models[k].price = PriceOf(s.groups, s.channels, k)
       /\ s.missed # {} => s.groups = <<>>

\* tryAdminJobLock, SyncModels, SyncGroups: a sync never writes an older state of Sub2API
\* over a newer one, nor misses models that another sync wrote, unless it or the one
\* before outlived its lock, or the two are a SyncGroups and a SyncModels, which take
\* different locks and both write the groups.
OvertakenForACause ==
    [][/\ modelsBy' # modelsBy =>
             \/ modelsBy'.since >= modelsBy.since /\ modelsBy'.missed = {}
             \/ modelsBy.late \/ modelsBy'.late
       /\ groupsBy' # groupsBy =>
             \/ groupsBy'.since >= groupsBy.since \/ groupsBy.late \/ groupsBy'.late
             \/ groupsBy'.job # groupsBy.job]_vars

\* The models of a group for a purpose are those of one request and one of them is the
\* default, also when two requests delete and insert at the same time.
PurposeIsOneRequest ==
    \A x \in roles :
       LET same == {y \in roles : y.group = x.group /\ y.purpose = x.purpose}
       IN /\ \A y \in same : y.by = x.by
          /\ Cardinality({y \in same : y.default}) = 1

\* OfficialProvider: every provider a client is given, the legacy one included, names only
\* models that were on offer when they were read, names at least one of them and selects
\* one it names, whatever a sync or an administrator wrote between the reads.  When none
\* was on offer the legacy provider is all there is, without models.
ProviderIsUsable ==
    \A p \in answer.providers \cup {answer.provider} :
       /\ p.models \subseteq answer.read
       /\ p.models # {} => p.selected \in p.models
       /\ p.models = {} => answer.read = {} /\ answer.providers = {answer.provider}
=============================================================================
