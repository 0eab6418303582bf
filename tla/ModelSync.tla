----------------------------- MODULE ModelSync -----------------------------
(***************************************************************************)
(* What SyncModels makes of the three lists it fetches from Sub2API: the   *)
(* rows of gateway_groups and gateway_group_models.  A row of the latter   *)
(* is kept under <<group, platform, model>>, its unique key.               *)
(*                                                                         *)
(* Names are compared in lower case and without blanks by the code; here   *)
(* they are model values.  A wildcard ends in a star; Matches says which   *)
(* models it covers.  A price stands for pricing_json and billing_mode.    *)
(***************************************************************************)
EXTENDS Integers, Sequences, FiniteSets, Functions

CONSTANTS
    None,            \* nothing there; of a price: {}, of a channel: 0
    Models,          \* concrete model names
    Matches(_, _)    \* a wildcard covers a model

----------------------------------------------------------------------------
(* Prices of a channel.                                                    *)

\* lookupModelPricing in the index of buildGatewayPricingIndex: an entry that names the
\* model comes before one whose wildcard covers it, the first of each kind wins.
Lookup(ch, p, m) ==
    LET exact == SelectSeq(ch.pricing, LAMBDA e : e.platform = p /\ m \in e.models)
        wild == SelectSeq(ch.pricing, LAMBDA e : e.platform = p /\
                                         \E w \in e.wilds : Matches(w, m))
    IN IF exact # <<>> THEN Head(exact).price
       ELSE IF wild # <<>> THEN Head(wild).price ELSE None

\* supportedGatewayModels: the sources of the mapping with the price of their target or
\* else their own, then the models the prices name.
MappedPrice(ch, e) ==
    LET ofTarget == Lookup(ch, e.platform, e.target)
    IN IF ofTarget # None THEN ofTarget ELSE Lookup(ch, e.platform, e.source)

Candidates(ch) ==
    LET mapped == {[platform |-> e.platform, model |-> e.source, price |-> MappedPrice(ch, e)] :
                      e \in {e \in ch.mapping : e.source \in Models}}
        named == UNION {{[platform |-> e.platform, model |-> m,
                          price |-> Lookup(ch, e.platform, m)] : m \in e.models} :
                           e \in Range(ch.pricing)}
    IN mapped \cup {c \in named : \A d \in mapped : <<d.platform, d.model>> # <<c.platform, c.model>>}

----------------------------------------------------------------------------
(* The rows.                                                               *)

\* mutant: UPDATE without INSERT
UpdatedGroups(rows, listed) ==
    [g \in DOMAIN rows |-> IF rows[g] # None /\ g \in DOMAIN listed THEN listed[g] ELSE rows[g]]

\* upsertGatewayGroup for every group listed; a group that is not listed becomes
\* inactive, unless the list is empty.  rows has None for a group never seen.
SyncedGroups(rows, listed) ==
    [g \in DOMAIN rows |->
        IF g \in DOMAIN listed THEN listed[g]
        ELSE IF rows[g] = None \/ listed = <<>> THEN rows[g]
        ELSE [rows[g] EXCEPT !.status = "inactive"]]

Active(listed) == {g \in DOMAIN listed : listed[g].status = "active"}

\* Rows that are not listed become inactive, also all of them: of accounts and channels, ...
\* seen: the rows committed when the UPDATE starts; it waits for those another
\* transaction has, but never finds one that is committed later.
SyncedStatus(rows, seen, items) ==
    [i \in DOMAIN rows |->
        IF \E x \in items : x.id = i THEN (CHOOSE x \in items : x.id = i).status
        ELSE IF i \in seen THEN "inactive" ELSE rows[i]]

\* mutant: the rows of the last time stay as they are
Kept(rows, seen) == rows

\* ... and every model, before those listed are written.
Stale(rows, seen) ==
    [k \in DOMAIN rows |-> IF k \in seen THEN [rows[k] EXCEPT !.status = "inactive"] ELSE rows[k]]

Row(channel, price) == [status |-> "active", channel |-> channel, price |-> price]

\* What an account serves: its mapping, in the active groups of its own platform.
Serves(account, listed) ==
    IF account.status = "active" /\ account.schedulable
    THEN {<<g, account.platform, m>> :
             g \in {g \in account.groups \cap Active(listed) :
                       listed[g].platform = account.platform},
             m \in account.models \cap Models}
    ELSE {}

\* upsertGatewayGroupModel from the accounts: without channel and price.
WriteAccounts(rows, accounts, listed) ==
    LET served == UNION {Serves(a, listed) : a \in accounts}
    IN [k \in DOMAIN rows \cup served |-> IF k \in served THEN Row(None, None) ELSE rows[k]]

\* The groups a channel reaches.
Reached(ch, listed) == IF ch.status = "active" THEN ch.groups \cap Active(listed) ELSE {}

\* Its candidates for a model of one of them.
Found(ch, listed, k) ==
    {c \in Candidates(ch) : /\ k[1] \in Reached(ch, listed)
                            /\ <<listed[k[1]].platform, c.platform, c.model>> = <<k[2], k[2], k[3]>>}

\* They are written there, and backfillGatewayGroupModelPricing: every active row of the
\* group's platform the channel has a price for gets that price.
WriteChannel(rows, ch, listed) ==
    LET new == {k \in Reached(ch, listed) \X {c.platform : c \in Candidates(ch)}
                         \X {c.model : c \in Candidates(ch)} : Found(ch, listed, k) # {}}
        written == [k \in DOMAIN rows \cup new |->
                       IF k \in new THEN Row(ch.id, (CHOOSE c \in Found(ch, listed, k) : TRUE).price)
                       ELSE rows[k]]
    IN [k \in DOMAIN written |->
           IF /\ written[k].status = "active" /\ k[1] \in Reached(ch, listed)
              /\ k[2] = listed[k[1]].platform /\ Lookup(ch, k[2], k[3]) # None
           THEN Row(ch.id, Lookup(ch, k[2], k[3]))
           ELSE written[k]]

\* The transaction of SyncModels, from what the three calls returned: the rows after each
\* channel, in their order.
SyncedModels(rows, seen, listed, accounts, channels) ==
    LET after[n \in 0 .. Len(channels)] ==
            IF n = 0 THEN WriteAccounts(Stale(rows, seen), accounts, listed)
            ELSE WriteChannel(after[n - 1], channels[n], listed)
    IN after[Len(channels)]

----------------------------------------------------------------------------
(* What they should be, said without the order of the writes.              *)

\* The models on offer: an account serves them, or a channel of the group lists them.
Listed(ch, listed) ==
    {k \in {<<g, c.platform, c.model>> : g \in ch.groups \cap Active(listed), c \in Candidates(ch)} :
        k[2] = listed[k[1]].platform}

Supported(listed, accounts, channels) ==
    (UNION {Serves(a, listed) : a \in accounts})
      \cup (UNION {Listed(ch, listed) : ch \in {ch \in Range(channels) : ch.status = "active"}})

\* The price of a model of a group: of the last channel there that lists or prices it,
\* the price of its own name, or else that of what it is mapped to.
Lists(ch, k) == {c \in Candidates(ch) : <<c.platform, c.model>> = <<k[2], k[3]>>}
Speaks(ch, listed, k) ==
    /\ ch.status = "active" /\ k[1] \in ch.groups \cap Active(listed)
    /\ Lookup(ch, k[2], k[3]) # None \/ Lists(ch, k) # {}

PriceOf(listed, channels, k) ==
    LET speakers == {i \in DOMAIN channels : Speaks(channels[i], listed, k)}
        last == channels[CHOOSE i \in speakers : \A j \in speakers : j <= i]
    IN IF speakers = {} THEN None
       ELSE IF Lookup(last, k[2], k[3]) # None THEN Lookup(last, k[2], k[3])
       ELSE (CHOOSE c \in Lists(last, k) : TRUE).price
=============================================================================
