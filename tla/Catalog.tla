------------------------------ MODULE Catalog ------------------------------
(***************************************************************************)
(* The catalog: products, the batches of redeem codes made from them for   *)
(* an order, and what becomes of a code.                                   *)
(*                                                                         *)
(* A request of an administrator takes several statements, between which   *)
(* others commit: a product is checked against its gateway group and then  *)
(* written; codes are made in one transaction, which takes the advisory    *)
(* lock of the order, looks for the order's batch, reads the product and   *)
(* inserts; a batch is disabled by two statements without a transaction.   *)
(* All reads are READ COMMITTED, so each sees what is committed by then.   *)
(*                                                                         *)
(* Prices, names and notes are left out.  gateway_group_id and             *)
(* external_group_id are one value, the group, whose external id never     *)
(* changes.  The only row of gateway_groups that is ever deleted, the      *)
(* placeholder with external id 0 that the first synchronisation removes   *)
(* (and ON DELETE SET NULL from a product that names it), is not one of    *)
(* the groups.  External: the synchronisation of the groups                *)
(* (GatewayModels) and the key that encrypts the stored codes, which is    *)
(* configuration read at startup.                                          *)
(***************************************************************************)
EXTENDS Integers, Sequences

CONSTANTS
    Admins,        \* requests in progress at a time
    Products,      \* the SKUs
    Groups,        \* rows of gateway_groups
    Refs,          \* order references as they are written
    Orders,        \* order references without case and blanks
    Fold(_),       \* lower(trim(ref)): the order a reference means
    None,          \* nothing there; of a reference: the request has none
    Offers,        \* terms a request can give a product
    OnSale,        \* products that exist from the start
    Forms,         \* what else a request for codes says: reference, count, deadline
    MaxRequests,   \* bound: requests for codes
    MaxEdits,      \* bound: products created, updated, archived; batches disabled
    MaxEvents      \* bound: groups that change, requests that die, answers lost, keys replaced

\* A row of products; forSale stands for status too: what is not active is not sold
\* either way.
Product == [terms : Offers, status : {"active", "archived"}, forSale : BOOLEAN, edit : Nat]

ASSUME CatalogAssumption ==
    /\ None \notin Products \cup Groups \cup Refs \cup Orders \cup Admins \cup Product
    /\ \A r \in Refs : Fold(r) \in Orders
    /\ Offers \subseteq [benefit : {"balance", "subscription"}, value : Nat, days : Nat,
                         group : Groups \cup {None}]
    /\ OnSale \subseteq Products
    /\ Forms \subseteq [ref : Refs \cup {None}, count : 1 .. 500, deadline : BOOLEAN]
    /\ {MaxRequests, MaxEdits, MaxEvents} \subseteq Nat

VARIABLES
    groups,     \* gateway_groups: type and status
    products,   \* products, None until created
    batches,    \* redeem_code_batches, in the order of their commits
    codes,      \* redeem_codes, in the order of their commits
    lock,       \* who holds the advisory lock of an order
    proc,       \* the requests in progress
    secret,     \* the key in use for the stored codes
    late,       \* the deadline some codes carry has passed
    answers,    \* ghost: what requests for codes were answered
    redeemed,   \* ghost: the redemptions: which code, on which terms
    requests, edits, events

vars == <<groups, products, batches, codes, lock, proc, secret, late, answers, redeemed,
          requests, edits, events>>
books == <<batches, codes, answers, redeemed>>
bounds == <<requests, edits, events>>

----------------------------------------------------------------------------
(* The rows of batches and codes, and the requests in progress.            *)

Batch == [order : Orders \cup {None}, product : Products, status : {"active", "disabled"},
          stored : SUBSET (1 .. Len(codes)), secret : Nat, edit : Nat]
Code == [terms : Offers, status : {"unused", "used", "disabled"}, deadline : BOOLEAN,
         batch : 1 .. Len(batches)]

Idle == [at |-> "idle"]

\* Unfinished requests of the catalog, and where they are.
Request ==
    {Idle}
      \cup [at : {"checkGroup", "saveProduct"}, product : Products, terms : Offers,
            forSale : BOOLEAN, creates : BOOLEAN]
      \cup [at : {"lock", "find", "load"}, product : Products, form : Forms]
      \cup [at : {"insert"}, product : Products, form : Forms, read : Product]
      \cup [at : {"disableBatch"}, batch : 1 .. Len(batches)]

Order(ref) == IF ref = None THEN None ELSE Fold(ref)

\* mutant: requests that write the reference differently take different locks.
LockAsWritten(ref) == ref

\* redeemOrderRefLockKey: references that mean one order have one key.
LockKey(ref) == Fold(ref)

\* mutant: the lock is the session's, and the end of the transaction keeps it.
StillLocked(a) == lock

\* The transaction of a ends, and with it its lock.
Unlocked(a) == [k \in DOMAIN lock |-> IF lock[k] = a THEN None ELSE lock[k]]

----------------------------------------------------------------------------
(* Products.                                                               *)

\* validateProductRequest
ValidTerms(t) ==
    \/ t.benefit = "balance" /\ t.value > 0
    \/ t.benefit = "subscription" /\ t.days > 0

\* validateProductGatewayGroup
GroupFits(t) ==
    IF t.group = None THEN t.benefit # "subscription"
    ELSE /\ groups[t.group].status = "active"
         /\ (t.benefit = "subscription") = (groups[t.group].type = "subscription")

\* CreateProduct and UpdateProduct begin; an unknown product, or a SKU that is
\* taken, is refused by the statement that writes.
RequestProduct(a) ==
    /\ proc[a] = Idle /\ edits < MaxEdits
    /\ \E p \in Products, t \in Offers, sale, new \in BOOLEAN :
          /\ ValidTerms(t)
          /\ new = (products[p] = None)
          /\ proc' = [proc EXCEPT ![a] = [at |-> "checkGroup", product |-> p, terms |-> t,
                                          forSale |-> sale, creates |-> new]]
    /\ edits' = edits + 1
    /\ UNCHANGED <<groups, products, books, lock, secret, late, requests, events>>

CheckGroup(a) ==
    /\ proc[a].at = "checkGroup"
    /\ proc' = [proc EXCEPT ![a] = IF GroupFits(@.terms) THEN [@ EXCEPT !.at = "saveProduct"]
                                   ELSE Idle]
    /\ UNCHANGED <<groups, products, books, lock, secret, late, bounds>>

\* INSERT refuses a SKU that exists; UPDATE finds its row whatever its status, and
\* a status left blank is active again.
SaveProduct(a) ==
    LET r == proc[a]
        old == products[r.product]
        row == [terms |-> r.terms, status |-> "active", forSale |-> r.forSale,
                edit |-> IF old = None THEN 0 ELSE old.edit + 1]
    IN /\ r.at = "saveProduct"
       /\ products' = [products EXCEPT ![r.product] =
                          IF r.creates /\ old # None THEN old ELSE row]
       /\ proc' = [proc EXCEPT ![a] = Idle]
       /\ UNCHANGED <<groups, books, lock, secret, late, bounds>>

\* DeleteProduct
ArchiveProduct(p) ==
    /\ products[p] # None /\ edits < MaxEdits
    /\ products' = [products EXCEPT ![p].status = "archived", ![p].forSale = FALSE,
                                    ![p].edit = @ + 1]
    /\ edits' = edits + 1
    /\ UNCHANGED <<groups, books, lock, proc, secret, late, requests, events>>

----------------------------------------------------------------------------
(* Codes for an order.                                                     *)

\* resolveCodeExpiry: a deadline that has passed is refused.
RequestCodes(a) ==
    /\ proc[a] = Idle /\ requests < MaxRequests
    /\ \E p \in Products, f \in Forms :
          /\ f.deadline => ~late
          /\ proc' = [proc EXCEPT ![a] = [at |-> "lock", product |-> p, form |-> f]]
    /\ requests' = requests + 1
    /\ UNCHANGED <<groups, products, books, lock, secret, late, edits, events>>

\* lockRedeemOrderRef; a request without a reference is given one nobody has.
LockOrder(a) ==
    LET ref == proc[a].form.ref
    IN /\ proc[a].at = "lock"
       /\ ref # None => lock[LockKey(ref)] = None
       /\ lock' = IF ref = None THEN lock ELSE [lock EXCEPT ![LockKey(ref)] = a]
       /\ proc' = [proc EXCEPT ![a].at = "find"]
       /\ UNCHANGED <<groups, products, books, secret, late, bounds>>

\* The batches of the order of a reference; the unique index allows one.
BatchesOf(ref) == {i \in DOMAIN batches : ref # None /\ batches[i].order = Fold(ref)}

\* decryptGeneratedCodes fails under another key than the one that encrypted.
Readable(b) == b.secret = secret /\ b.stored # {}

\* What the administrator is answered: the codes, and the product as it was read.
Answer(kind, ref, made, p, row) ==
    [kind |-> kind, order |-> Order(ref), codes |-> made, product |-> p,
     terms |-> row.terms, edit |-> row.edit, key |-> secret]

FindBatch(a) ==
    LET r == proc[a]
        found == BatchesOf(r.form.ref)
    IN /\ r.at = "find"
       /\ IF found = {}
          THEN /\ proc' = [proc EXCEPT ![a].at = "load"]
               /\ UNCHANGED <<lock, answers>>
          ELSE LET i == CHOOSE i \in found : TRUE
                   b == batches[i]
                   p == b.product
               IN /\ answers' = answers \cup
                       {IF Readable(b)
                        THEN Answer("codes", r.form.ref, b.stored, p, products[p])
                        ELSE Answer("exists", r.form.ref, {}, p, products[p])}
                  /\ lock' = Unlocked(a)
                  /\ proc' = [proc EXCEPT ![a] = Idle]
       /\ UNCHANGED <<groups, products, batches, codes, redeemed, secret, late, bounds>>

\* validateProductForGeneration
Sellable(p) ==
    /\ p.status = "active" /\ p.forSale
    /\ ValidTerms(p.terms) /\ GroupFits(p.terms)

\* loadProductForGeneration reads product and group in one statement.
LoadProduct(a) ==
    LET r == proc[a]
        p == products[r.product]
    IN /\ r.at = "load"
       /\ IF p # None /\ Sellable(p)
          THEN /\ proc' = [proc EXCEPT ![a] = [at |-> "insert", product |-> r.product,
                                               form |-> r.form, read |-> p]]
               /\ UNCHANGED lock
          ELSE /\ proc' = [proc EXCEPT ![a] = Idle]
               /\ lock' = Unlocked(a)
       /\ UNCHANGED <<groups, products, books, secret, late, bounds>>

\* The inserts and the commit.  A second batch of an order violates the unique index.
\* The answer may be lost, and then nobody has the codes.
CommitBatch(a) ==
    LET r == proc[a]
        made == Len(codes) + 1 .. Len(codes) + r.form.count
        row == [order |-> Order(r.form.ref), product |-> r.product, status |-> "active",
                stored |-> made, secret |-> secret, edit |-> r.read.edit]
        code == [terms |-> r.read.terms, status |-> "unused", deadline |-> r.form.deadline,
                 batch |-> Len(batches) + 1]
    IN /\ r.at = "insert"
       /\ \E lost \in BOOLEAN :
             /\ lost => events < MaxEvents
             /\ events' = events + (IF lost THEN 1 ELSE 0)
             /\ IF BatchesOf(r.form.ref) # {}
                THEN /\ answers' = answers \cup {Answer("failed", r.form.ref, {}, r.product,
                                                        r.read)}
                     /\ UNCHANGED <<batches, codes>>
                ELSE /\ batches' = Append(batches, row)
                     /\ codes' = codes \o [i \in 1 .. r.form.count |-> code]
                     /\ answers' = IF lost THEN answers
                                   ELSE answers \cup {Answer("codes", r.form.ref, made, r.product,
                                                             r.read)}
       /\ lock' = Unlocked(a)
       /\ proc' = [proc EXCEPT ![a] = Idle]
       /\ UNCHANGED <<groups, products, redeemed, secret, late, requests, edits>>

----------------------------------------------------------------------------
(* What becomes of a code.                                                 *)

Settled(c, s) == [c EXCEPT !.status = s]

DisableCode(i) ==
    /\ edits < MaxEdits
    /\ codes[i].status = "unused"
    /\ codes' = [codes EXCEPT ![i] = Settled(@, "disabled")]
    /\ edits' = edits + 1
    /\ UNCHANGED <<groups, products, batches, lock, proc, secret, late, answers, redeemed,
                   requests, events>>

\* The first statement of DisableRedeemBatch.
Disabled(c, i) == IF c.batch = i /\ c.status = "unused" THEN Settled(c, "disabled") ELSE c

\* mutant: the batch's row is written first.
DisableRowFirst(a) ==
    /\ proc[a] = Idle /\ edits < MaxEdits
    /\ \E i \in DOMAIN batches :
          /\ batches' = [batches EXCEPT ![i].status = "disabled"]
          /\ proc' = [proc EXCEPT ![a] = [at |-> "disableBatch", batch |-> i]]
    /\ edits' = edits + 1
    /\ UNCHANGED <<groups, products, codes, lock, secret, late, answers, redeemed,
                   requests, events>>

DisableCodes(a) ==
    /\ proc[a] = Idle /\ edits < MaxEdits
    /\ \E i \in DOMAIN batches :
          /\ codes' = [c \in DOMAIN codes |-> Disabled(codes[c], i)]
          /\ proc' = [proc EXCEPT ![a] = [at |-> "disableBatch", batch |-> i]]
    /\ edits' = edits + 1
    /\ UNCHANGED <<groups, products, batches, lock, secret, late, answers, redeemed,
                   requests, events>>

\* The second.
DisableBatch(a) ==
    /\ proc[a].at = "disableBatch"
    /\ batches' = [batches EXCEPT ![proc[a].batch].status = "disabled"]
    /\ proc' = [proc EXCEPT ![a] = Idle]
    /\ UNCHANGED <<groups, products, codes, lock, secret, late, answers, redeemed, bounds>>

\* mutant: the redemption takes its terms from the product it joins.
TermsOfProduct(i) == products[batches[codes[i].batch].product].terms

\* markRedeemedLocally: the terms a redemption gets are those of the code's row.
TermsRedeemed(i) == codes[i].terms

\* The row is locked from the first read to the commit, so it is one step.
Redeem(i) ==
    LET t == TermsRedeemed(i)
    IN /\ codes[i].status = "unused"
       /\ codes[i].deadline => ~late
       /\ t.benefit = "subscription" => t.group # None /\ t.days > 0
       /\ codes' = [codes EXCEPT ![i] = Settled(@, "used")]
       /\ redeemed' = redeemed \cup {[code |-> i, terms |-> t]}
       /\ UNCHANGED <<groups, products, batches, lock, proc, secret, late, answers, bounds>>

----------------------------------------------------------------------------
(* The rest of the world.                                                  *)

\* SyncGroups and SyncModels write what Sub2API says of a group.
SyncGroup(g) ==
    /\ events < MaxEvents
    /\ \E t \in {"standard", "subscription"}, s \in {"active", "inactive"} :
          groups' = [groups EXCEPT ![g] = [type |-> t, status |-> s]]
    /\ events' = events + 1
    /\ UNCHANGED <<products, books, lock, proc, secret, late, requests, edits>>

\* A request dies or its statement fails: the transaction rolls back.
Die(a) ==
    /\ proc[a] # Idle /\ events < MaxEvents
    /\ proc' = [proc EXCEPT ![a] = Idle]
    /\ lock' = Unlocked(a)
    /\ events' = events + 1
    /\ UNCHANGED <<groups, products, books, secret, late, requests, edits>>

\* The server starts again with another key; what was in progress is gone.
ChangeSecret ==
    /\ events < MaxEvents
    /\ secret' = secret + 1
    /\ proc' = [a \in Admins |-> Idle]
    /\ lock' = [k \in DOMAIN lock |-> None]
    /\ events' = events + 1
    /\ UNCHANGED <<groups, products, books, late, requests, edits>>

DeadlinePasses ==
    /\ ~late /\ \E i \in DOMAIN codes : codes[i].deadline
    /\ late' = TRUE
    /\ UNCHANGED <<groups, products, books, lock, proc, secret, bounds>>

\* The products on sale fit their groups.
Init ==
    /\ groups \in [Groups -> [type : {"standard", "subscription"}, status : {"active"}]]
    /\ \E terms \in [OnSale -> Offers] :
          /\ \A p \in OnSale : ValidTerms(terms[p]) /\ GroupFits(terms[p])
          /\ products = [p \in Products |->
                           IF p \in OnSale THEN [terms |-> terms[p], status |-> "active",
                                                 forSale |-> TRUE, edit |-> 0] ELSE None]
    /\ batches = <<>> /\ codes = <<>>
    /\ lock = [k \in Orders \cup Refs |-> None]
    /\ proc = [a \in Admins |-> Idle]
    /\ secret = 0 /\ late = FALSE
    /\ answers = {} /\ redeemed = {}
    /\ requests = 0 /\ edits = 0 /\ events = 0

Step(a) ==
    \/ CheckGroup(a) \/ SaveProduct(a)
    \/ LockOrder(a) \/ FindBatch(a) \/ LoadProduct(a) \/ CommitBatch(a)
    \/ DisableBatch(a)

Next ==
    \/ \E a \in Admins :
          \/ RequestProduct(a) \/ RequestCodes(a) \/ DisableCodes(a)
          \/ Step(a) \/ Die(a)
    \/ \E p \in Products : ArchiveProduct(p)
    \/ \E i \in DOMAIN codes : DisableCode(i) \/ Redeem(i)
    \/ \E g \in Groups : SyncGroup(g)
    \/ ChangeSecret \/ DeadlinePasses

Spec == Init /\ [][Next]_vars
----------------------------------------------------------------------------
(* Properties.                                                             *)

\* Every variable keeps its type, and a lock is held only by a request between
\* lockRedeemOrderRef and the end of its transaction.
TypeOK ==
    /\ groups \in [Groups -> [type : {"standard", "subscription"},
                              status : {"active", "inactive"}]]
    /\ products \in [Products -> Product \cup {None}]
    /\ batches \in Seq(Batch) /\ codes \in Seq(Code)
    /\ proc \in [Admins -> Request]
    /\ lock \in [Orders \cup Refs -> Admins \cup {None}]
    /\ \A k \in DOMAIN lock :
          lock[k] # None => proc[lock[k]].at \in {"find", "load", "insert"}
    /\ secret \in Nat /\ late \in BOOLEAN
    /\ requests \in 0 .. MaxRequests /\ edits \in 0 .. MaxEdits /\ events \in 0 .. MaxEvents

\* An order is delivered once: whoever is answered with codes for it, at the first
\* request or at a repeated one, with the reference written in any way, is given
\* the same codes, and no code is given for two orders.  Requests for one order
\* wait for each other, so the later one finds the batch: none runs into the unique
\* index, and none is told that the order exists without its codes unless the key
\* that encrypted them has been replaced.
OrderIsDeliveredOnce ==
    /\ \A x, y \in answers :
          x.kind = "codes" /\ y.kind = "codes" =>
             IF x.order = y.order /\ x.order # None THEN x.codes = y.codes
             ELSE x = y \/ x.codes \cap y.codes = {}
    /\ \A x \in answers :
          /\ x.kind # "failed"
          /\ x.kind = "exists" =>
                \E i \in DOMAIN batches : batches[i].order = x.order /\ batches[i].secret # x.key

\* A code is sold and redeemed as what it was made of, whatever was edited since.  What an
\* answer says of a product holds for the codes it gives, unless the product was edited after
\* they were made; a code is redeemed at most once and stays used, and on the terms of the
\* product as it was read and checked when the code was made.
RedeemedAsSold ==
    /\ \A x \in answers : \A c \in x.codes :
          LET b == batches[codes[c].batch]
          IN /\ b.product = x.product
             /\ b.edit = x.edit => codes[c].terms = x.terms
    /\ \A r \in redeemed :
          /\ codes[r.code].status = "used"
          /\ \A q \in redeemed : q.code = r.code => q = r
          /\ \A x \in answers :
                r.code \in x.codes /\ x.edit = batches[codes[r.code].batch].edit =>
                   r.terms = x.terms

\* Once a batch is shown as disabled none of its codes can be redeemed, also when the
\* request that disabled it raced with redemptions or another one died half-way.
DisabledBatchIsDead ==
    \A i \in DOMAIN codes :
       batches[codes[i].batch].status = "disabled" => codes[i].status # "unused"
=============================================================================
