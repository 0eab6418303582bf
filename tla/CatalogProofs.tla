---------------------------- MODULE CatalogProofs ----------------------------
(***************************************************************************)
(* The catalog, for every number of requests, products, orders and codes.  *)
(*                                                                         *)
(* An order is delivered once because a transaction that has found no      *)
(* batch of its order holds the lock of the order until it commits         *)
(* (Locked, OneBatch).  Stored ties codes to their batches, Answered the   *)
(* answers to the batches they were made from.  A code keeps the terms it  *)
(* was made on, and a product changes its terms only together with its     *)
(* edit, so whatever mentions a product at an edit agrees on the terms     *)
(* (History).  Disabling is what the second statement of                   *)
(* DisableRedeemBatch relies on.                                           *)
(***************************************************************************)
EXTENDS Catalog, FiniteSetTheorems, SequenceTheorems, TLAPS

InTransaction(r) == r.at \in {"find", "load", "insert"}

Locked ==
    \A a \in Admins :
       InTransaction(proc[a]) /\ proc[a].form.ref # None => lock[Fold(proc[a].form.ref)] = a

OneBatch ==
    /\ \A i, j \in DOMAIN batches :
          batches[i].order = batches[j].order => batches[i].order = None \/ i = j
    /\ \A a \in Admins : proc[a].at \in {"load", "insert"} => BatchesOf(proc[a].form.ref) = {}

Stored ==
    /\ \A c \in DOMAIN codes : c \in batches[codes[c].batch].stored
    /\ \A i \in DOMAIN batches :
          batches[i].stored # {} /\ \A c \in batches[i].stored : codes[c].batch = i

\* An answer with codes gives those of one batch, an answer without is about a batch under
\* another key; a batch without an order is answered once.
AnswerOf(x, i) ==
    /\ x.order = batches[i].order
    /\ \/ x.kind = "codes" /\ x.codes = batches[i].stored /\ x.product = batches[i].product
       \/ x.kind = "exists" /\ x.codes = {} /\ x.key # batches[i].secret

Answered ==
    \A x \in answers :
       /\ \E i \in DOMAIN batches : AnswerOf(x, i)
       /\ \A y \in answers : x.kind = "codes" /\ x.order = None /\ y.codes = x.codes => y = x

\* What product, code, answer and request say of the terms of a product at an edit.
Says(p, e, t) ==
    \/ p \in Products /\ products[p] # None /\ e = products[p].edit /\ t = products[p].terms
    \/ \E c \in DOMAIN codes : /\ p = batches[codes[c].batch].product
                               /\ e = batches[codes[c].batch].edit /\ t = codes[c].terms
    \/ \E x \in answers : p = x.product /\ e = x.edit /\ t = x.terms
    \/ \E a \in Admins : /\ proc[a].at = "insert" /\ p = proc[a].product
                         /\ e = proc[a].read.edit /\ t = proc[a].read.terms

History ==
    \A p, e, t : Says(p, e, t) =>
       /\ p \in Products /\ products[p] # None /\ e \in Nat /\ e <= products[p].edit
       /\ \A u : Says(p, e, u) => u = t

Spent ==
    \A r \in redeemed :
       /\ r \in [code : DOMAIN codes, terms : Offers]
       /\ codes[r.code].status = "used" /\ r.terms = codes[r.code].terms

Disabling ==
    \A a \in Admins : proc[a].at = "disableBatch" =>
       \A c \in DOMAIN codes : codes[c].batch = proc[a].batch => codes[c].status # "unused"

CatalogInv ==
    /\ TypeOK /\ Locked /\ OneBatch /\ Stored /\ Answered /\ History /\ Spent /\ Disabling
    /\ DisabledBatchIsDead

-----------------------------------------------------------------------------
\* A code belongs to a batch and is stored with it.
LEMMA CatalogRows ==
    ASSUME TypeOK
    PROVE  /\ Len(batches) \in Nat /\ DOMAIN batches = 1 .. Len(batches)
           /\ Len(codes) \in Nat /\ DOMAIN codes = 1 .. Len(codes)
           /\ \A i \in DOMAIN batches :
                 /\ batches[i] \in Batch /\ batches[i].order \in Orders \cup {None}
                 /\ batches[i].product \in Products /\ batches[i].edit \in Nat
                 /\ batches[i].stored \subseteq DOMAIN codes
           /\ \A c \in DOMAIN codes :
                 codes[c] \in Code /\ codes[c].batch \in DOMAIN batches /\ codes[c].terms \in Offers
<1>1. batches \in Seq(Batch) /\ codes \in Seq(Code)
  BY DEF TypeOK
<1>2. /\ Len(batches) \in Nat /\ DOMAIN batches = 1 .. Len(batches)
      /\ batches \in [1 .. Len(batches) -> Batch]
  BY <1>1, LenProperties
<1>3. /\ Len(codes) \in Nat /\ DOMAIN codes = 1 .. Len(codes)
      /\ codes \in [1 .. Len(codes) -> Code]
  BY <1>1, LenProperties
<1> QED BY <1>2, <1>3 DEF Batch, Code

\* The fields of a request depend on where it is.
LEMMA RequestShapes ==
    ASSUME NEW r \in Request
    PROVE  /\ r.at \in {"idle", "checkGroup", "saveProduct", "lock", "find", "load", "insert",
                        "disableBatch"}
           /\ r.at = "idle" <=> r = Idle
           /\ r.at \in {"checkGroup", "saveProduct"} =>
                 r \in [at : {"checkGroup", "saveProduct"}, product : Products, terms : Offers,
                        forSale : BOOLEAN, creates : BOOLEAN]
           /\ r.at \in {"lock", "find", "load"} =>
                 r \in [at : {"lock", "find", "load"}, product : Products, form : Forms]
           /\ r.at = "insert" =>
                 r \in [at : {"insert"}, product : Products, form : Forms, read : Product]
           /\ r.at = "disableBatch" =>
                 r \in [at : {"disableBatch"}, batch : 1 .. Len(batches)]
BY DEF Request, Idle

-----------------------------------------------------------------------------
(* What a step leaves of each part.                                        *)

HeldInside == \A k \in DOMAIN lock : lock[k] # None => InTransaction(proc[lock[k]])

LockType == lock \in [Orders \cup Refs -> Admins \cup {None}]

\* The rows stay, and of what is written in them only a status changes, that of a code
\* only when it was unused.
BooksKept ==
    /\ Len(batches') = Len(batches) /\ Len(codes') = Len(codes)
    /\ DOMAIN batches' = DOMAIN batches /\ DOMAIN codes' = DOMAIN codes
    /\ \A i \in DOMAIN batches :
          /\ batches'[i].order = batches[i].order /\ batches'[i].product = batches[i].product
          /\ batches'[i].stored = batches[i].stored /\ batches'[i].secret = batches[i].secret
          /\ batches'[i].edit = batches[i].edit
    /\ \A c \in DOMAIN codes :
          /\ codes'[c].terms = codes[c].terms /\ codes'[c].batch = codes[c].batch
          /\ codes[c].status # "unused" => codes'[c].status = codes[c].status

\* A step that writes no books keeps them.
LEMMA UnwrittenBooks ==
    ASSUME batches' = batches, codes' = codes
    PROVE  BooksKept
BY DEF BooksKept

\* The tables and the requests keep their types while no row is added.
LEMMA TablesKept ==
    ASSUME BooksKept
    PROVE  Batch' = Batch /\ Code' = Code /\ Request' = Request
BY DEF BooksKept, Batch, Code, Request, Product, Idle

\* The end of a transaction gives up its lock and no other.
LEMMA LockReleased ==
    ASSUME TypeOK, Locked, NEW a \in Admins, NEW q,
           proc' = [proc EXCEPT ![a] = q], ~InTransaction(q), lock' = Unlocked(a)
    PROVE  LockType' /\ HeldInside' /\ Locked'
<1> USE DEF TypeOK, InTransaction
<1>1. /\ \A b \in Admins : proc'[b] = IF b = a THEN q ELSE proc[b]
      /\ DOMAIN lock' = DOMAIN lock /\ DOMAIN lock = Orders \cup Refs
      /\ \A k \in DOMAIN lock : /\ lock[k] \in Admins \cup {None}
                                /\ lock'[k] = IF lock[k] = a THEN None ELSE lock[k]
      /\ \A k \in DOMAIN lock : lock[k] # None => InTransaction(proc[lock[k]])
  BY DEF Unlocked
<1>2. LockType'
  BY <1>1 DEF LockType, Unlocked
<1>3. HeldInside'
  BY <1>1 DEF HeldInside
<1>4. Locked'
  <2> SUFFICES ASSUME NEW b \in Admins, InTransaction(proc'[b]), proc'[b].form.ref # None
               PROVE  lock'[Fold(proc'[b].form.ref)] = b
    BY DEF Locked
  <2>1. b # a /\ proc'[b] = proc[b]
    BY <1>1
  <2>2. lock[Fold(proc[b].form.ref)] = b
    BY <2>1 DEF Locked
  <2>3. Fold(proc[b].form.ref) \in DOMAIN lock
    <3>1. proc[b] \in Request /\ proc[b].form \in Forms
      BY <2>1, RequestShapes
    <3> QED BY CatalogAssumption, <2>1, <3>1, <1>1
  <2> QED BY <1>1, <2>1, <2>2, <2>3
<1> QED BY <1>2, <1>3, <1>4

\* A request that stays where it is with regard to its transaction needs no lock moved.
LEMMA LockUnmoved ==
    ASSUME TypeOK, Locked, NEW a \in Admins, NEW q,
           proc' = [proc EXCEPT ![a] = q], lock' = lock,
           InTransaction(q) <=> InTransaction(proc[a]),
           InTransaction(q) => q.form = proc[a].form
    PROVE  LockType' /\ HeldInside' /\ Locked'
<1>1. \A b \in Admins : proc'[b] = IF b = a THEN q ELSE proc[b]
  BY DEF TypeOK
<1>2. LockType' /\ HeldInside'
  BY <1>1 DEF TypeOK, LockType, HeldInside, InTransaction
<1>3. Locked'
  BY <1>1 DEF Locked
<1> QED BY <1>2, <1>3

\* Batches of an order, and the codes stored with a batch, are what they were.
LEMMA RowsKept ==
    ASSUME CatalogInv, BooksKept
    PROVE  /\ Stored' /\ \A ref : BatchesOf(ref)' = BatchesOf(ref)
           /\ \A x, i : i \in DOMAIN batches => (AnswerOf(x, i)' <=> AnswerOf(x, i))
           /\ \A i, j \in DOMAIN batches' :
                 batches'[i].order = batches'[j].order => batches'[i].order = None \/ i = j
<1>1. Stored'
  <2>1. /\ \A c \in DOMAIN codes : /\ codes[c].batch \in DOMAIN batches
                                   /\ c \in batches[codes[c].batch].stored
        /\ \A i \in DOMAIN batches : /\ batches[i].stored \subseteq DOMAIN codes
                                     /\ batches[i].stored # {}
                                     /\ \A c \in batches[i].stored : codes[c].batch = i
    BY CatalogRows DEF CatalogInv, Stored
  <2>2. \A c \in DOMAIN codes' : c \in batches'[codes'[c].batch].stored
    BY <2>1 DEF BooksKept
  <2>3. \A i \in DOMAIN batches' :
           batches'[i].stored # {} /\ \A c \in batches'[i].stored : codes'[c].batch = i
    BY <2>1 DEF BooksKept
  <2> QED BY <2>2, <2>3 DEF Stored
<1>2. \A ref : BatchesOf(ref)' = BatchesOf(ref)
  BY DEF BooksKept, BatchesOf
<1>3. \A x, i : i \in DOMAIN batches => (AnswerOf(x, i)' <=> AnswerOf(x, i))
  BY DEF BooksKept, AnswerOf
<1> QED BY <1>1, <1>2, <1>3 DEF CatalogInv, OneBatch, BooksKept

\* Requests that move keep OneBatch if they go on only where they found no batch.
LEMMA OneBatchKept ==
    ASSUME CatalogInv, BooksKept,
           \A b \in Admins : proc'[b].at \in {"load", "insert"} =>
              BatchesOf(proc'[b].form.ref) = {}
    PROVE  OneBatch'
<1>1. \A b \in Admins : proc'[b].at \in {"load", "insert"} => BatchesOf(proc[b].form.ref)' = {}
  BY RowsKept
<1> QED BY <1>1, RowsKept DEF OneBatch

\* Answers stay true.
LEMMA AnsweredKept ==
    ASSUME CatalogInv, BooksKept, answers' = answers
    PROVE  Answered'
<1>1. \A x \in answers : \E i \in DOMAIN batches : AnswerOf(x, i)
  BY DEF CatalogInv, Answered
<1>2. \A x \in answers' : \E i \in DOMAIN batches' : AnswerOf(x, i)'
  BY <1>1, RowsKept DEF BooksKept
<1> QED BY <1>2 DEF CatalogInv, Answered

\* What was redeemed stays redeemed.
LEMMA SpentKept ==
    ASSUME Spent, TypeOK, BooksKept, redeemed' = redeemed
    PROVE  Spent'
BY CatalogRows DEF Spent, BooksKept

\* A disabled batch keeps no unused code while no batch is disabled.
LEMMA DeadKept ==
    ASSUME CatalogInv, BooksKept, batches' = batches
    PROVE  DisabledBatchIsDead'
<1>1. \A c \in DOMAIN codes : batches[codes[c].batch].status = "disabled" => codes[c].status # "unused"
  BY DEF CatalogInv, DisabledBatchIsDead
<1> QED BY <1>1 DEF BooksKept, DisabledBatchIsDead

\* Nor does a batch that is about to be disabled.
LEMMA DisablingKept ==
    ASSUME CatalogInv, BooksKept,
           \A b \in Admins : proc'[b].at = "disableBatch" => proc'[b] = proc[b]
    PROVE  Disabling'
BY DEF CatalogInv, BooksKept, Disabling

\* Terms are agreed on for an edit of a product as long as a step repeats what was said
\* before and counts the edits of a product.
LEMMA SaidBefore ==
    ASSUME TypeOK, History,
           \A p \in Products :
              \/ products'[p] = products[p]
              \/ /\ products'[p] \in Product
                 /\ products[p] # None => products'[p].edit = products[p].edit + 1,
           \A c \in DOMAIN codes' : Says(batches'[codes'[c].batch].product,
                                         batches'[codes'[c].batch].edit, codes'[c].terms),
           \A x \in answers' : Says(x.product, x.edit, x.terms),
           \A b \in Admins : proc'[b].at = "insert" =>
              Says(proc'[b].product, proc'[b].read.edit, proc'[b].read.terms)
    PROVE  History'
<1>1. \A p \in Products : products[p] # None => products[p] \in Product /\ products[p].edit \in Nat
  BY DEF TypeOK, Product
<1>2. \A p \in Products : /\ products[p] # None => products'[p] # None
                          /\ products'[p] # None => products'[p].edit \in Nat
                          /\ products[p] # None => products[p].edit <= products'[p].edit
  BY CatalogAssumption, <1>1 DEF Product
<1>3. ASSUME NEW p, NEW e, NEW t, Says(p, e, t)'
      PROVE  \/ Says(p, e, t)
             \/ p \in Products /\ products'[p] # None /\ e = products'[p].edit /\ t = products'[p].terms
  BY <1>3 DEF Says
<1>4. ASSUME NEW p, NEW e, NEW t, Says(p, e, t)
      PROVE  p \in Products /\ products[p] # None /\ e \in Nat /\ e <= products[p].edit
  BY <1>4 DEF History
<1>5. ASSUME NEW p, NEW e, NEW t, Says(p, e, t)'
      PROVE  p \in Products /\ products'[p] # None /\ e \in Nat /\ e <= products'[p].edit
  <2>1. CASE Says(p, e, t)
    BY <2>1, <1>1, <1>2, <1>4
  <2>2. CASE p \in Products /\ products'[p] # None /\ e = products'[p].edit /\ t = products'[p].terms
    BY <2>2, <1>2
  <2> QED BY <1>5, <1>3, <2>1, <2>2
<1>6. ASSUME NEW p, NEW e, NEW t, NEW u, Says(p, e, t), Says(p, e, u)
      PROVE  u = t
  BY <1>6 DEF History
<1>7. ASSUME NEW p, NEW e, NEW t, NEW u, Says(p, e, t),
             p \in Products /\ products'[p] # None /\ e = products'[p].edit /\ u = products'[p].terms
      PROVE  u = t
  <2>1. products[p] # None /\ e <= products[p].edit
    BY <1>7, <1>4
  <2>2. products'[p] = products[p]
    BY <1>1, <1>7, <2>1
  <2>3. Says(p, e, u)
    BY <1>7, <2>1, <2>2 DEF Says
  <2> QED BY <1>6, <1>7, <2>3
<1>8. ASSUME NEW p, NEW e, NEW t, NEW u, Says(p, e, t)', Says(p, e, u)'
      PROVE  u = t
  <2>1. CASE Says(p, e, t) /\ Says(p, e, u)
    BY <2>1, <1>6
  <2>2. CASE Says(p, e, t) /\ ~Says(p, e, u)
    BY <2>2, <1>3, <1>7, <1>8
  <2>3. CASE ~Says(p, e, t) /\ Says(p, e, u)
    BY <2>3, <1>3, <1>7, <1>8
  <2>4. CASE ~Says(p, e, t) /\ ~Says(p, e, u)
    BY <2>4, <1>3, <1>8
  <2> QED BY <2>1, <2>2, <2>3, <2>4
<1> QED BY <1>5, <1>8 DEF History

-----------------------------------------------------------------------------
(* The steps.                                                              *)

Rest == OneBatch /\ Stored /\ Answered /\ History /\ Spent /\ Disabling /\ DisabledBatchIsDead

\* A step of requests that writes neither products nor books: what it reads into a request
\* is what the product says, and it goes on to the insert only where there is no batch.
LEMMA QuietStep ==
    ASSUME CatalogInv,
           products' = products, batches' = batches, codes' = codes, answers' = answers,
           redeemed' = redeemed,
           \A b \in Admins :
              \/ proc'[b] = proc[b]
              \/ /\ proc'[b].at # "disableBatch"
                 /\ proc'[b].at \in {"load", "insert"} => BatchesOf(proc'[b].form.ref) = {}
                 /\ proc'[b].at = "insert" =>
                       /\ proc'[b].product \in Products /\ products[proc'[b].product] # None
                       /\ proc'[b].read = products[proc'[b].product]
    PROVE  Rest'
<1>1. BooksKept
  BY UnwrittenBooks
<1>2. OneBatch'
  <2>1. \A b \in Admins : proc'[b].at \in {"load", "insert"} => BatchesOf(proc'[b].form.ref) = {}
    BY DEF CatalogInv, OneBatch
  <2> QED BY <1>1, <2>1, OneBatchKept
<1>3. Disabling'
  BY <1>1, DisablingKept
<1>4. History'
  <2>1. \A c \in DOMAIN codes' : Says(batches'[codes'[c].batch].product,
                                      batches'[codes'[c].batch].edit, codes'[c].terms)
    BY DEF Says
  <2>2. \A x \in answers' : Says(x.product, x.edit, x.terms)
    BY DEF Says
  <2>3. \A b \in Admins : proc'[b].at = "insert" =>
           Says(proc'[b].product, proc'[b].read.edit, proc'[b].read.terms)
    <3> SUFFICES ASSUME NEW b \in Admins, proc'[b].at = "insert"
                 PROVE  Says(proc'[b].product, proc'[b].read.edit, proc'[b].read.terms)
      OBVIOUS
    <3>1. CASE proc'[b] = proc[b]
      BY <3>1 DEF Says
    <3>2. CASE proc'[b] # proc[b]
      BY <3>2 DEF Says
    <3> QED BY <3>1, <3>2
  <2> QED BY <2>1, <2>2, <2>3, SaidBefore DEF CatalogInv
<1>5. Stored' /\ Answered' /\ Spent' /\ DisabledBatchIsDead'
  BY <1>1, RowsKept, AnsweredKept, SpentKept, DeadKept DEF CatalogInv
<1> QED BY <1>2, <1>3, <1>4, <1>5 DEF Rest

\* The invariant from its parts, where no row is added.
LEMMA CatalogParts ==
    ASSUME CatalogInv, BooksKept, (batches \in Seq(Batch))', (codes \in Seq(Code))',
           LockType', HeldInside', Locked', Rest',
           proc' \in [Admins -> Request],
           (products \in [Products -> Product \cup {None}])',
           (groups \in [Groups -> [type : {"standard", "subscription"},
                                   status : {"active", "inactive"}]])',
           (secret \in Nat /\ late \in BOOLEAN)',
           (/\ requests \in 0 .. MaxRequests /\ edits \in 0 .. MaxEdits
            /\ events \in 0 .. MaxEvents)'
    PROVE  CatalogInv'
<1>1. (proc \in [Admins -> Request])'
  BY TablesKept
<1>2. TypeOK'
  BY <1>1 DEF TypeOK, LockType, HeldInside, InTransaction
<1> QED BY <1>2 DEF CatalogInv, Rest

\* What the invariant says of the types, for the steps.
LEMMA CatalogTypes ==
    ASSUME CatalogInv
    PROVE  /\ TypeOK /\ Locked /\ batches \in Seq(Batch) /\ codes \in Seq(Code)
           /\ proc \in [Admins -> Request] /\ products \in [Products -> Product \cup {None}]
           /\ groups \in [Groups -> [type : {"standard", "subscription"},
                                     status : {"active", "inactive"}]]
           /\ secret \in Nat /\ late \in BOOLEAN
           /\ requests \in 0 .. MaxRequests /\ edits \in 0 .. MaxEdits /\ events \in 0 .. MaxEvents
           /\ LockType /\ HeldInside
BY DEF CatalogInv, TypeOK, LockType, HeldInside, InTransaction

\* Tables that are not written keep their types.
LEMMA UnwrittenTables ==
    ASSUME CatalogInv, batches' = batches, codes' = codes
    PROVE  BooksKept /\ (batches \in Seq(Batch))' /\ (codes \in Seq(Code))'
BY CatalogTypes, UnwrittenBooks, TablesKept

\* One request moves, and nothing else is written but the locks and the counters.
LEMMA RequestMoves ==
    ASSUME CatalogInv, NEW a \in Admins, NEW q \in Request,
           proc' = [proc EXCEPT ![a] = q],
           UNCHANGED <<groups, products, batches, codes, answers, redeemed, secret, late>>,
           LockType', HeldInside', Locked',
           (/\ requests \in 0 .. MaxRequests /\ edits \in 0 .. MaxEdits
            /\ events \in 0 .. MaxEvents)',
           q.at # "disableBatch",
           q.at \in {"load", "insert"} => BatchesOf(q.form.ref) = {},
           q.at = "insert" => /\ q.product \in Products /\ products[q.product] # None
                              /\ q.read = products[q.product]
    PROVE  CatalogInv'
<1>0. /\ groups' = groups /\ products' = products /\ batches' = batches /\ codes' = codes
      /\ answers' = answers /\ redeemed' = redeemed /\ secret' = secret /\ late' = late
  OBVIOUS
<1>1. /\ \A b \in Admins : proc'[b] = IF b = a THEN q ELSE proc[b]
      /\ proc' \in [Admins -> Request]
  BY CatalogTypes
<1>2. \A b \in Admins :
              \/ proc'[b] = proc[b]
              \/ /\ proc'[b].at # "disableBatch"
                 /\ proc'[b].at \in {"load", "insert"} => BatchesOf(proc'[b].form.ref) = {}
                 /\ proc'[b].at = "insert" =>
                       /\ proc'[b].product \in Products /\ products[proc'[b].product] # None
                       /\ proc'[b].read = products[proc'[b].product]
  BY <1>1
<1>3. Rest'
  BY <1>0, <1>2, QuietStep
<1>4. BooksKept /\ (batches \in Seq(Batch))' /\ (codes \in Seq(Code))'
  BY <1>0, UnwrittenTables
<1> QED BY <1>0, <1>1, <1>3, <1>4, CatalogTypes, CatalogParts

LEMMA RequestProductStep ==
    ASSUME CatalogInv, NEW a \in Admins, RequestProduct(a)
    PROVE  CatalogInv'
<1> PICK p \in Products, t \in Offers, sale, new \in BOOLEAN :
       /\ ValidTerms(t)
       /\ new = (products[p] = None)
       /\ proc' = [proc EXCEPT ![a] = [at |-> "checkGroup", product |-> p, terms |-> t,
                                       forSale |-> sale, creates |-> new]]
  BY Zenon DEF RequestProduct
<1> DEFINE q == [at |-> "checkGroup", product |-> p, terms |-> t, forSale |-> sale, creates |-> new]
<1>1. q \in Request /\ q.at = "checkGroup"
  BY DEF Request
<1>2. /\ UNCHANGED <<groups, products, batches, codes, answers, redeemed, secret, late>>
      /\ lock' = lock /\ requests' = requests /\ events' = events
      /\ edits < MaxEdits /\ edits' = edits + 1 /\ proc[a].at = "idle"
  BY DEF RequestProduct, books, Idle
<1>3. LockType' /\ HeldInside' /\ Locked'
  BY <1>1, <1>2, LockUnmoved, CatalogTypes DEF InTransaction
<1>4. (requests \in 0 .. MaxRequests /\ edits \in 0 .. MaxEdits /\ events \in 0 .. MaxEvents)'
  BY CatalogAssumption, <1>2, CatalogTypes
<1> HIDE DEF q
<1> QED BY <1>1, <1>2, <1>3, <1>4, RequestMoves DEF q

LEMMA CheckGroupStep ==
    ASSUME CatalogInv, NEW a \in Admins, CheckGroup(a)
    PROVE  CatalogInv'
<1> DEFINE q == IF GroupFits(proc[a].terms) THEN [proc[a] EXCEPT !.at = "saveProduct"]
                ELSE Idle
<1>1. /\ UNCHANGED <<groups, products, batches, codes, answers, redeemed, secret, late>>
      /\ UNCHANGED <<requests, edits, events>>
      /\ lock' = lock /\ proc[a].at = "checkGroup" /\ proc' = [proc EXCEPT ![a] = q]
  BY DEF CheckGroup, books, bounds
<1>2. q \in Request /\ q.at \in {"saveProduct", "idle"}
  <2>1. proc[a] \in [at : {"checkGroup", "saveProduct"}, product : Products, terms : Offers,
                     forSale : BOOLEAN, creates : BOOLEAN]
    BY <1>1, CatalogTypes, RequestShapes
  <2>2. /\ [proc[a] EXCEPT !.at = "saveProduct"]
             \in [at : {"checkGroup", "saveProduct"}, product : Products, terms : Offers,
                  forSale : BOOLEAN, creates : BOOLEAN]
        /\ [proc[a] EXCEPT !.at = "saveProduct"].at = "saveProduct"
    BY <2>1
  <2> QED BY <2>2 DEF Request, Idle
<1> HIDE DEF q
<1>3. LockType' /\ HeldInside' /\ Locked'
  BY <1>1, <1>2, LockUnmoved, CatalogTypes DEF InTransaction
<1>4. (requests \in 0 .. MaxRequests /\ edits \in 0 .. MaxEdits /\ events \in 0 .. MaxEvents)'
  BY <1>1, CatalogTypes
<1> QED BY <1>1, <1>2, <1>3, <1>4, RequestMoves

LEMMA RequestCodesStep ==
    ASSUME CatalogInv, NEW a \in Admins, RequestCodes(a)
    PROVE  CatalogInv'
<1> PICK p \in Products, f \in Forms :
       proc' = [proc EXCEPT ![a] = [at |-> "lock", product |-> p, form |-> f]]
  BY DEF RequestCodes
<1> DEFINE q == [at |-> "lock", product |-> p, form |-> f]
<1>1. q \in Request /\ q.at = "lock"
  BY DEF Request
<1>2. /\ UNCHANGED <<groups, products, batches, codes, answers, redeemed, secret, late>>
      /\ lock' = lock /\ edits' = edits /\ events' = events
      /\ requests < MaxRequests /\ requests' = requests + 1 /\ proc[a].at = "idle"
  BY DEF RequestCodes, books, Idle
<1>3. LockType' /\ HeldInside' /\ Locked'
  BY <1>1, <1>2, LockUnmoved, CatalogTypes DEF InTransaction
<1>4. (requests \in 0 .. MaxRequests /\ edits \in 0 .. MaxEdits /\ events \in 0 .. MaxEvents)'
  BY CatalogAssumption, <1>2, CatalogTypes
<1> HIDE DEF q
<1> QED BY <1>1, <1>2, <1>3, <1>4, RequestMoves DEF q

\* The lock of an order is free when a request takes it, so no request that is in its
\* transaction loses its own.
LEMMA LockOrderStep ==
    ASSUME CatalogInv, NEW a \in Admins, LockOrder(a)
    PROVE  CatalogInv'
<1> DEFINE q == [proc[a] EXCEPT !.at = "find"]
           ref == proc[a].form.ref
<1>1. /\ UNCHANGED <<groups, products, batches, codes, answers, redeemed, secret, late>>
      /\ UNCHANGED <<requests, edits, events>>
      /\ proc[a].at = "lock" /\ proc' = [proc EXCEPT ![a] = q]
      /\ ref # None => lock[Fold(ref)] = None
      /\ lock' = IF ref = None THEN lock ELSE [lock EXCEPT ![Fold(ref)] = a]
  BY DEF LockOrder, books, bounds, LockKey
<1>2. proc[a] \in [at : {"lock", "find", "load"}, product : Products, form : Forms]
  BY <1>1, CatalogTypes, RequestShapes
<1>3. q \in Request /\ q.at = "find" /\ q.form = proc[a].form
  <2>1. q \in [at : {"lock", "find", "load"}, product : Products, form : Forms]
    BY <1>2
  <2> QED BY <1>2, <2>1 DEF Request
<1>4. /\ \A b \in Admins : proc'[b] = IF b = a THEN q ELSE proc[b]
      /\ \A b \in Admins : InTransaction(proc[b]) =>
            (proc[b].form.ref # None => Fold(proc[b].form.ref) \in DOMAIN lock)
      /\ ref # None => Fold(ref) \in Orders
      /\ DOMAIN lock = Orders \cup Refs
  <2>1. \A b \in Admins : InTransaction(proc[b]) => proc[b].form \in Forms
    BY CatalogTypes, RequestShapes DEF InTransaction
  <2> QED BY CatalogAssumption, <1>1, <1>2, <2>1, CatalogTypes DEF LockType
<1> HIDE DEF q
<1>5. LockType'
  BY <1>1, <1>4, CatalogTypes DEF LockType
<1>6. HeldInside'
  <2>1. \A k \in DOMAIN lock : lock[k] # None => InTransaction(proc[lock[k]]) /\ lock[k] \in Admins
    BY CatalogTypes DEF HeldInside, LockType
  <2>2. InTransaction(q)
    BY <1>3 DEF InTransaction
  <2>3. \A k \in DOMAIN lock : lock[k] # a
    BY CatalogAssumption, <1>1, <2>1 DEF InTransaction
  <2> QED BY <1>1, <1>4, <2>1, <2>2, <2>3 DEF HeldInside
<1>7. Locked'
  <2> SUFFICES ASSUME NEW b \in Admins, InTransaction(proc'[b]), proc'[b].form.ref # None
               PROVE  lock'[Fold(proc'[b].form.ref)] = b
    BY DEF Locked
  <2>1. CASE b = a
    BY <1>1, <1>3, <1>4, <2>1
  <2>2. CASE b # a
    <3>1. proc'[b] = proc[b] /\ lock[Fold(proc[b].form.ref)] = b /\ b # None
      BY CatalogAssumption, <1>4, <2>2, CatalogTypes DEF Locked
    <3> QED BY <1>1, <1>4, <3>1
  <2> QED BY <2>1, <2>2
<1>8. (requests \in 0 .. MaxRequests /\ edits \in 0 .. MaxEdits /\ events \in 0 .. MaxEvents)'
  BY <1>1, CatalogTypes
<1> HIDE DEF ref
<1> QED BY <1>1, <1>3, <1>5, <1>6, <1>7, <1>8, RequestMoves

\* A product that may be sold is read into the request, and is there.
LEMMA LoadProductStep ==
    ASSUME CatalogInv, NEW a \in Admins, LoadProduct(a)
    PROVE  CatalogInv'
<1>1. /\ UNCHANGED <<groups, products, batches, codes, answers, redeemed, secret, late>>
      /\ UNCHANGED <<requests, edits, events>>
      /\ proc[a].at = "load"
  BY DEF LoadProduct, books, bounds
<1>2. proc[a] \in [at : {"lock", "find", "load"}, product : Products, form : Forms]
  BY <1>1, CatalogTypes, RequestShapes
<1>3. (requests \in 0 .. MaxRequests /\ edits \in 0 .. MaxEdits /\ events \in 0 .. MaxEvents)'
  BY <1>1, CatalogTypes
<1>4. CASE products[proc[a].product] # None /\ Sellable(products[proc[a].product])
  <2> DEFINE q == [at |-> "insert", product |-> proc[a].product, form |-> proc[a].form,
                   read |-> products[proc[a].product]]
  <2>1. proc' = [proc EXCEPT ![a] = q] /\ lock' = lock
    BY <1>4 DEF LoadProduct
  <2>2. products[proc[a].product] \in Product /\ proc[a].product \in Products
    BY <1>2, <1>4, CatalogTypes
  <2>3. /\ q \in Request /\ q.at = "insert" /\ q.form = proc[a].form
        /\ q.product \in Products /\ products[q.product] # None /\ q.read = products[q.product]
    BY <1>2, <1>4, <2>2 DEF Request
  <2>4. BatchesOf(proc[a].form.ref) = {}
    BY <1>1 DEF CatalogInv, OneBatch
  <2> HIDE DEF q
  <2>5. LockType' /\ HeldInside' /\ Locked'
    BY <1>1, <2>1, <2>3, LockUnmoved, CatalogTypes DEF InTransaction
  <2> QED BY <1>1, <1>3, <2>1, <2>3, <2>4, <2>5, RequestMoves
<1>5. CASE ~(products[proc[a].product] # None /\ Sellable(products[proc[a].product]))
  <2>1. proc' = [proc EXCEPT ![a] = Idle] /\ lock' = Unlocked(a)
    BY <1>5 DEF LoadProduct
  <2>2. Idle \in Request /\ Idle.at = "idle"
    BY DEF Request, Idle
  <2>3. LockType' /\ HeldInside' /\ Locked'
    BY <2>1, <2>2, LockReleased, CatalogTypes DEF InTransaction
  <2> QED BY <1>1, <1>3, <2>1, <2>2, <2>3, RequestMoves
<1> QED BY <1>4, <1>5

LEMMA DieStep ==
    ASSUME CatalogInv, NEW a \in Admins, Die(a)
    PROVE  CatalogInv'
<1>1. /\ UNCHANGED <<groups, products, batches, codes, answers, redeemed, secret, late>>
      /\ requests' = requests /\ edits' = edits /\ events < MaxEvents /\ events' = events + 1
      /\ proc' = [proc EXCEPT ![a] = Idle] /\ lock' = Unlocked(a)
  BY DEF Die, books
<1>2. Idle \in Request /\ Idle.at = "idle"
  BY DEF Request, Idle
<1>3. LockType' /\ HeldInside' /\ Locked'
  BY <1>1, <1>2, LockReleased, CatalogTypes DEF InTransaction
<1>4. (requests \in 0 .. MaxRequests /\ edits \in 0 .. MaxEdits /\ events \in 0 .. MaxEvents)'
  BY CatalogAssumption, <1>1, CatalogTypes
<1> QED BY <1>1, <1>2, <1>3, <1>4, RequestMoves

\* A restart ends every request and frees every lock.
LEMMA ChangeSecretStep ==
    ASSUME CatalogInv, ChangeSecret
    PROVE  CatalogInv'
<1>1. /\ groups' = groups /\ products' = products /\ batches' = batches /\ codes' = codes
      /\ answers' = answers /\ redeemed' = redeemed /\ late' = late
      /\ requests' = requests /\ edits' = edits /\ events < MaxEvents /\ events' = events + 1
      /\ secret' = secret + 1
      /\ proc' = [a \in Admins |-> Idle] /\ lock' = [k \in DOMAIN lock |-> None]
  BY DEF ChangeSecret, books
<1>2. Idle \in Request /\ Idle.at = "idle"
  BY DEF Request, Idle
<1>3. proc' \in [Admins -> Request] /\ \A b \in Admins : proc'[b].at = "idle"
  BY <1>1, <1>2
<1>4. LockType' /\ HeldInside' /\ Locked'
  BY <1>1, <1>3, CatalogTypes DEF LockType, HeldInside, Locked, InTransaction
<1>5. Rest'
  BY <1>1, <1>3, QuietStep
<1>6. /\ (requests \in 0 .. MaxRequests /\ edits \in 0 .. MaxEdits /\ events \in 0 .. MaxEvents)'
      /\ secret' \in Nat
  BY CatalogAssumption, <1>1, CatalogTypes
<1>7. BooksKept /\ (batches \in Seq(Batch))' /\ (codes \in Seq(Code))'
  BY <1>1, UnwrittenTables
<1> QED BY <1>1, <1>3, <1>4, <1>5, <1>6, <1>7, CatalogTypes, CatalogParts

\* Groups and the clock change without the catalog.
LEMMA WorldStep ==
    ASSUME CatalogInv,
           (\E g \in Groups : SyncGroup(g)) \/ DeadlinePasses \/ UNCHANGED vars
    PROVE  CatalogInv'
<1>1. /\ products' = products /\ batches' = batches /\ codes' = codes /\ answers' = answers
      /\ redeemed' = redeemed /\ requests' = requests /\ edits' = edits
      /\ secret' = secret /\ proc' = proc /\ lock' = lock
  BY DEF SyncGroup, DeadlinePasses, vars, books, bounds
<1>2. /\ groups' \in [Groups -> [type : {"standard", "subscription"},
                                 status : {"active", "inactive"}]]
      /\ late' \in BOOLEAN /\ events' \in 0 .. MaxEvents
  <2>1. ASSUME NEW g \in Groups, SyncGroup(g)
        PROVE  /\ groups' \in [Groups -> [type : {"standard", "subscription"},
                                       status : {"active", "inactive"}]]
               /\ late' \in BOOLEAN /\ events' \in 0 .. MaxEvents
    BY CatalogAssumption, <2>1, CatalogTypes DEF SyncGroup
  <2> QED BY <2>1, CatalogTypes DEF DeadlinePasses, vars, bounds
<1>3. LockType' /\ HeldInside' /\ Locked'
  BY <1>1, CatalogTypes DEF LockType, HeldInside, Locked
<1>4. Rest'
  BY <1>1, QuietStep
<1>5. BooksKept /\ (batches \in Seq(Batch))' /\ (codes \in Seq(Code))'
  BY <1>1, UnwrittenTables
<1> QED BY <1>1, <1>2, <1>3, <1>4, <1>5, CatalogTypes, CatalogParts

\* A step that writes products, or statuses of codes and batches: what is said of the edits
\* of a product is what was said before, or said of its next edit.
LEMMA WritingStep ==
    ASSUME CatalogInv, BooksKept, answers' = answers,
           \A p \in Products :
              \/ products'[p] = products[p]
              \/ /\ products'[p] \in Product
                 /\ products[p] # None => products'[p].edit = products[p].edit + 1,
           \A b \in Admins : proc'[b] = proc[b] \/ proc'[b].at \in {"idle", "disableBatch"}
    PROVE  OneBatch' /\ Stored' /\ Answered' /\ History'
<1>1. OneBatch'
  <2>1. \A b \in Admins : proc'[b].at \in {"load", "insert"} => BatchesOf(proc'[b].form.ref) = {}
    BY DEF CatalogInv, OneBatch
  <2> QED BY <2>1, OneBatchKept
<1>2. History'
  <2>1. \A c \in DOMAIN codes' : Says(batches'[codes'[c].batch].product,
                                      batches'[codes'[c].batch].edit, codes'[c].terms)
    <3> SUFFICES ASSUME NEW c \in DOMAIN codes
                 PROVE  Says(batches'[codes'[c].batch].product, batches'[codes'[c].batch].edit,
                             codes'[c].terms)
      BY DEF BooksKept
    <3>1. /\ batches'[codes'[c].batch].product = batches[codes[c].batch].product
          /\ batches'[codes'[c].batch].edit = batches[codes[c].batch].edit
          /\ codes'[c].terms = codes[c].terms
      BY CatalogTypes, CatalogRows DEF BooksKept
    <3>2. Says(batches[codes[c].batch].product, batches[codes[c].batch].edit, codes[c].terms)
      BY DEF Says
    <3> QED BY <3>1, <3>2
  <2>2. \A x \in answers' : Says(x.product, x.edit, x.terms)
    BY DEF Says
  <2>3. \A b \in Admins : proc'[b].at = "insert" =>
           Says(proc'[b].product, proc'[b].read.edit, proc'[b].read.terms)
    <3> SUFFICES ASSUME NEW b \in Admins, proc'[b].at = "insert"
                 PROVE  Says(proc'[b].product, proc'[b].read.edit, proc'[b].read.terms)
      OBVIOUS
    <3>1. proc'[b] = proc[b] /\ proc[b].at = "insert"
      OBVIOUS
    <3>2. Says(proc[b].product, proc[b].read.edit, proc[b].read.terms)
      BY <3>1 DEF Says
    <3> QED BY <3>1, <3>2
  <2> QED BY <2>1, <2>2, <2>3, SaidBefore DEF CatalogInv
<1> QED BY <1>1, <1>2, RowsKept, AnsweredKept

\* The next edit of a product.
LEMMA SaveProductStep ==
    ASSUME CatalogInv, NEW a \in Admins, SaveProduct(a)
    PROVE  CatalogInv'
<1> DEFINE p == proc[a].product
           row == [terms |-> proc[a].terms, status |-> "active", forSale |-> proc[a].forSale,
                   edit |-> IF products[p] = None THEN 0 ELSE products[p].edit + 1]
<1>1. /\ groups' = groups /\ batches' = batches /\ codes' = codes /\ answers' = answers
      /\ redeemed' = redeemed /\ secret' = secret /\ late' = late /\ lock' = lock
      /\ requests' = requests /\ edits' = edits /\ events' = events
      /\ proc' = [proc EXCEPT ![a] = Idle] /\ proc[a].at = "saveProduct"
      /\ products' = [products EXCEPT ![p] =
                         IF proc[a].creates /\ products[p] # None THEN products[p] ELSE row]
  BY DEF SaveProduct, books, bounds
<1>2. Idle \in Request /\ Idle.at = "idle"
  BY DEF Request, Idle
<1>3. proc[a] \in [at : {"checkGroup", "saveProduct"}, product : Products, terms : Offers,
                   forSale : BOOLEAN, creates : BOOLEAN]
  BY <1>1, CatalogTypes, RequestShapes
<1>4. p \in Products /\ row \in Product /\ (products[p] # None => row.edit = products[p].edit + 1)
  <2>1. p \in Products /\ proc[a].terms \in Offers /\ proc[a].forSale \in BOOLEAN
    BY <1>3
  <2>2. products[p] # None => products[p].edit \in Nat
    BY <2>1, CatalogTypes DEF Product
  <2> QED BY <2>1, <2>2 DEF Product
<1> HIDE DEF p, row
<1>5. /\ \A b \in Admins : proc'[b] = IF b = a THEN Idle ELSE proc[b]
      /\ proc' \in [Admins -> Request]
  BY <1>1, <1>2, CatalogTypes
<1>6. /\ \A s \in Products : \/ products'[s] = products[s]
                             \/ /\ products'[s] \in Product
                                /\ products[s] # None => products'[s].edit = products[s].edit + 1
      /\ products' \in [Products -> Product \cup {None}]
  BY <1>1, <1>4, CatalogTypes
<1>7. BooksKept /\ (batches \in Seq(Batch))' /\ (codes \in Seq(Code))'
  BY <1>1, UnwrittenTables
<1>8. OneBatch' /\ Stored' /\ Answered' /\ History'
  BY <1>1, <1>2, <1>5, <1>6, <1>7, WritingStep
<1>9. Disabling' /\ Spent' /\ DisabledBatchIsDead'
  BY <1>1, <1>2, <1>5, <1>7, DisablingKept, SpentKept, DeadKept, CatalogTypes DEF CatalogInv
<1>10. LockType' /\ HeldInside' /\ Locked'
  BY <1>1, <1>2, LockUnmoved, CatalogTypes DEF InTransaction
<1>11. Rest'
  BY <1>8, <1>9 DEF Rest
<1>12. (Product)' = Product
  BY DEF Product
<1> QED BY <1>1, <1>5, <1>6, <1>7, <1>10, <1>11, <1>12, CatalogTypes, CatalogParts

LEMMA ArchivedRow ==
    ASSUME NEW r \in Product, NEW no \in BOOLEAN, NEW e \in Nat
    PROVE  /\ [r EXCEPT !.status = "archived", !.forSale = no, !.edit = e] \in Product
           /\ [r EXCEPT !.status = "archived", !.forSale = no, !.edit = e].edit = e
<1>1. [r EXCEPT !.status = "archived", !.forSale = no, !.edit = e] \in Product
  BY DEF Product
<1> QED BY <1>1 DEF Product

LEMMA ArchiveProductStep ==
    ASSUME CatalogInv, NEW p \in Products, ArchiveProduct(p)
    PROVE  CatalogInv'
<1>0. PICK no \in BOOLEAN : no = FALSE
  BY Zenon
<1> DEFINE row == [products[p] EXCEPT !.status = "archived", !.forSale = no,
                                         !.edit = products[p].edit + 1]
<1>1. /\ groups' = groups /\ batches' = batches /\ codes' = codes /\ answers' = answers
      /\ redeemed' = redeemed /\ secret' = secret /\ late' = late /\ lock' = lock
      /\ proc' = proc /\ requests' = requests /\ events' = events
      /\ edits < MaxEdits /\ edits' = edits + 1 /\ products[p] # None
  BY DEF ArchiveProduct, books
<1>2. products[p] \in Product
  BY <1>1, CatalogTypes
<1>3. products' = [products EXCEPT ![p] = row]
  BY <1>0, <1>2, CatalogTypes DEF ArchiveProduct, Product
<1>4. row \in Product /\ row.edit = products[p].edit + 1
  <2>1. products[p].edit + 1 \in Nat
    BY <1>2 DEF Product
  <2> DEFINE r == products[p]
             e == products[p].edit + 1
  <2>2. r \in Product /\ e \in Nat /\ no \in BOOLEAN
    BY <1>0, <1>2, <2>1
  <2> HIDE DEF r, e
  <2>3. /\ [r EXCEPT !.status = "archived", !.forSale = no, !.edit = e] \in Product
        /\ [r EXCEPT !.status = "archived", !.forSale = no, !.edit = e].edit = e
    BY <2>2, ArchivedRow, Zenon
  <2> QED BY <2>3, Zenon DEF r, e
<1> HIDE DEF row
<1>6. /\ \A s \in Products : \/ products'[s] = products[s]
                             \/ /\ products'[s] \in Product
                                /\ products[s] # None => products'[s].edit = products[s].edit + 1
      /\ products' \in [Products -> Product \cup {None}]
  BY <1>3, <1>4, CatalogTypes
<1>7. BooksKept /\ (batches \in Seq(Batch))' /\ (codes \in Seq(Code))'
  BY <1>1, UnwrittenTables
<1>8. OneBatch' /\ Stored' /\ Answered' /\ History'
  BY <1>1, <1>6, <1>7, WritingStep
<1>9. Disabling' /\ Spent' /\ DisabledBatchIsDead'
  BY <1>1, <1>7, DisablingKept, SpentKept, DeadKept, CatalogTypes DEF CatalogInv
<1>10. LockType' /\ HeldInside' /\ Locked'
  BY <1>1, CatalogTypes DEF LockType, HeldInside, Locked
<1>11. Rest'
  BY <1>8, <1>9 DEF Rest
<1>12. (Product)' = Product
  BY DEF Product
<1>13. (requests \in 0 .. MaxRequests /\ edits \in 0 .. MaxEdits /\ events \in 0 .. MaxEvents)'
  BY CatalogAssumption, <1>1, CatalogTypes
<1> QED BY <1>1, <1>6, <1>7, <1>10, <1>11, <1>12, <1>13, CatalogTypes, CatalogParts

\* Codes that are settled keep the books and their type.
LEMMA CodesSettled ==
    ASSUME CatalogInv, batches' = batches,
           DOMAIN codes' = DOMAIN codes, codes' = [c \in DOMAIN codes |-> codes'[c]],
           \A c \in DOMAIN codes :
              \/ codes'[c] = codes[c]
              \/ /\ codes[c].status = "unused"
                 /\ \E s \in {"used", "disabled"} : codes'[c] = Settled(codes[c], s)
    PROVE  BooksKept /\ (batches \in Seq(Batch))' /\ (codes \in Seq(Code))'
<1> DEFINE n == Len(codes)
<1>1. /\ n \in Nat /\ DOMAIN codes = 1 .. n
      /\ \A c \in 1 .. n : codes[c] \in Code
  BY CatalogTypes, CatalogRows
<1>2. \A c \in 1 .. n : /\ codes'[c] \in Code /\ codes'[c].terms = codes[c].terms
                        /\ codes'[c].batch = codes[c].batch
                        /\ codes[c].status # "unused" => codes'[c] = codes[c]
  BY <1>1 DEF Settled, Code
<1>3. codes' \in [1 .. n -> Code] /\ DOMAIN codes' = 1 .. n
  BY <1>1, <1>2
<1>4. codes' \in Seq(Code) /\ Len(codes') = n
  <2> HIDE DEF n
  <2>1. codes' \in Seq(Code)
    BY <1>1, <1>3, SeqDef
  <2> QED BY <1>1, <1>3, <2>1, LenProperties
<1>5. BooksKept
  <2>1. \A c \in DOMAIN codes :
           /\ codes'[c].terms = codes[c].terms /\ codes'[c].batch = codes[c].batch
           /\ codes[c].status # "unused" => codes'[c].status = codes[c].status
    BY <1>1, <1>2
  <2> QED BY <1>4, <2>1 DEF BooksKept
<1> QED BY <1>4, <1>5, TablesKept, CatalogTypes

\* Settling codes, whoever does it, keeps all that is not about redemptions and disabling.
LEMMA SettlingStep ==
    ASSUME CatalogInv, products' = products, batches' = batches,
           answers' = answers,
           DOMAIN codes' = DOMAIN codes, codes' = [c \in DOMAIN codes |-> codes'[c]],
           \A c \in DOMAIN codes :
              \/ codes'[c] = codes[c]
              \/ /\ codes[c].status = "unused"
                 /\ \E s \in {"used", "disabled"} : codes'[c] = Settled(codes[c], s),
           \A b \in Admins : proc'[b] = proc[b] \/ proc'[b].at \in {"idle", "disableBatch"}
    PROVE  /\ BooksKept /\ (batches \in Seq(Batch))' /\ (codes \in Seq(Code))'
           /\ OneBatch' /\ Stored' /\ Answered' /\ History' /\ DisabledBatchIsDead'
<1>1. BooksKept /\ (batches \in Seq(Batch))' /\ (codes \in Seq(Code))'
  BY CodesSettled
<1>2. OneBatch' /\ Stored' /\ Answered' /\ History'
  BY <1>1, WritingStep
<1> QED BY <1>1, <1>2, DeadKept

LEMMA DisableCodeStep ==
    ASSUME CatalogInv, NEW i \in DOMAIN codes, DisableCode(i)
    PROVE  CatalogInv'
<1>1. /\ groups' = groups /\ products' = products /\ batches' = batches /\ answers' = answers
      /\ redeemed' = redeemed /\ secret' = secret /\ late' = late /\ lock' = lock
      /\ proc' = proc /\ requests' = requests /\ events' = events
      /\ edits < MaxEdits /\ edits' = edits + 1 /\ codes[i].status = "unused"
      /\ codes' = [codes EXCEPT ![i] = Settled(codes[i], "disabled")]
  BY DEF DisableCode
<1>2. /\ DOMAIN codes' = DOMAIN codes /\ codes' = [c \in DOMAIN codes |-> codes'[c]]
      /\ \A c \in DOMAIN codes : codes'[c] = IF c = i THEN Settled(codes[i], "disabled")
                                             ELSE codes[c]
  BY <1>1
<1>3. /\ BooksKept /\ (batches \in Seq(Batch))' /\ (codes \in Seq(Code))'
      /\ OneBatch' /\ Stored' /\ Answered' /\ History' /\ DisabledBatchIsDead'
  BY <1>1, <1>2, SettlingStep
<1>4. Disabling' /\ Spent'
  BY <1>1, <1>3, DisablingKept, SpentKept, CatalogTypes DEF CatalogInv
<1>5. Rest'
  BY <1>3, <1>4 DEF Rest
<1>6. LockType' /\ HeldInside' /\ Locked'
  BY <1>1, CatalogTypes DEF LockType, HeldInside, Locked
<1>7. (requests \in 0 .. MaxRequests /\ edits \in 0 .. MaxEdits /\ events \in 0 .. MaxEvents)'
  BY CatalogAssumption, <1>1, CatalogTypes
<1>8. (Product)' = Product
  BY DEF Product
<1> QED BY <1>1, <1>3, <1>5, <1>6, <1>7, <1>8, CatalogTypes, CatalogParts

\* After the first statement of DisableRedeemBatch no code of the batch is unused.
LEMMA DisableCodesStep ==
    ASSUME CatalogInv, NEW a \in Admins, DisableCodes(a)
    PROVE  CatalogInv'
<1> PICK i \in DOMAIN batches :
       /\ codes' = [c \in DOMAIN codes |-> Disabled(codes[c], i)]
       /\ proc' = [proc EXCEPT ![a] = [at |-> "disableBatch", batch |-> i]]
  BY DEF DisableCodes
<1> DEFINE q == [at |-> "disableBatch", batch |-> i]
<1>1. /\ groups' = groups /\ products' = products /\ batches' = batches /\ answers' = answers
      /\ redeemed' = redeemed /\ secret' = secret /\ late' = late /\ lock' = lock
      /\ requests' = requests /\ events' = events
      /\ edits < MaxEdits /\ edits' = edits + 1 /\ proc[a].at = "idle"
  BY DEF DisableCodes, Idle
<1>2. q \in Request /\ q.at = "disableBatch" /\ q.batch = i
  BY CatalogTypes, CatalogRows DEF Request
<1>3. /\ proc' = [proc EXCEPT ![a] = q] /\ proc' \in [Admins -> Request]
      /\ \A b \in Admins : proc'[b] = IF b = a THEN q ELSE proc[b]
  BY <1>2, CatalogTypes
<1> HIDE DEF q
<1>4. /\ DOMAIN codes' = DOMAIN codes /\ codes' = [c \in DOMAIN codes |-> codes'[c]]
      /\ \A c \in DOMAIN codes :
            codes'[c] = IF codes[c].batch = i /\ codes[c].status = "unused"
                        THEN Settled(codes[c], "disabled") ELSE codes[c]
  BY DEF Disabled
<1>5. /\ BooksKept /\ (batches \in Seq(Batch))' /\ (codes \in Seq(Code))'
      /\ OneBatch' /\ Stored' /\ Answered' /\ History' /\ DisabledBatchIsDead'
  BY <1>1, <1>2, <1>3, <1>4, SettlingStep
<1>6. Disabling'
  <2>1. \A c \in DOMAIN codes : codes[c].batch = i => codes'[c].status # "unused"
    <3>1. \A c \in DOMAIN codes : Settled(codes[c], "disabled").status = "disabled"
      BY CatalogTypes, CatalogRows DEF Settled, Code
    <3> QED BY <1>4, <3>1
  <2>2. \A b \in Admins : proc[b].at = "disableBatch" =>
           \A c \in DOMAIN codes : codes[c].batch = proc[b].batch => codes[c].status # "unused"
    BY DEF CatalogInv, Disabling
  <2> QED BY <1>2, <1>3, <1>5, <2>1, <2>2 DEF Disabling, BooksKept
<1>7. Spent'
  BY <1>1, <1>5, SpentKept, CatalogTypes DEF CatalogInv
<1>8. Rest'
  BY <1>5, <1>6, <1>7 DEF Rest
<1>9. LockType' /\ HeldInside' /\ Locked'
  BY <1>1, <1>2, <1>3, LockUnmoved, CatalogTypes DEF InTransaction
<1>10. (requests \in 0 .. MaxRequests /\ edits \in 0 .. MaxEdits /\ events \in 0 .. MaxEvents)'
  BY CatalogAssumption, <1>1, CatalogTypes
<1>11. (Product)' = Product
  BY DEF Product
<1> QED BY <1>1, <1>3, <1>5, <1>8, <1>9, <1>10, <1>11, CatalogTypes, CatalogParts

\* So the second may show the batch as disabled.
LEMMA DisableBatchStep ==
    ASSUME CatalogInv, NEW a \in Admins, DisableBatch(a)
    PROVE  CatalogInv'
<1> DEFINE i == proc[a].batch
           n == Len(batches)
<1>1. /\ groups' = groups /\ products' = products /\ codes' = codes /\ answers' = answers
      /\ redeemed' = redeemed /\ secret' = secret /\ late' = late /\ lock' = lock
      /\ requests' = requests /\ edits' = edits /\ events' = events
      /\ proc[a].at = "disableBatch" /\ proc' = [proc EXCEPT ![a] = Idle]
      /\ batches' = [batches EXCEPT ![i].status = "disabled"]
  BY DEF DisableBatch, bounds
<1>2. Idle \in Request /\ Idle.at = "idle"
  BY DEF Request, Idle
<1>3. /\ \A b \in Admins : proc'[b] = IF b = a THEN Idle ELSE proc[b]
      /\ proc' \in [Admins -> Request]
  BY <1>1, <1>2, CatalogTypes
<1>4. proc[a] \in [at : {"disableBatch"}, batch : 1 .. Len(batches)]
  BY <1>1, CatalogTypes, RequestShapes
<1>5. /\ n \in Nat /\ DOMAIN batches = 1 .. n /\ i \in 1 .. n
      /\ \A j \in 1 .. n : batches[j] \in Batch
      /\ batches \in [1 .. n -> Batch]
  BY <1>4, CatalogTypes, CatalogRows, LenProperties
<1>6. /\ \A j \in 1 .. n : /\ batches'[j] \in Batch /\ batches'[j].order = batches[j].order
                           /\ batches'[j].product = batches[j].product
                           /\ batches'[j].stored = batches[j].stored
                           /\ batches'[j].secret = batches[j].secret
                           /\ batches'[j].edit = batches[j].edit
                           /\ j # i => batches'[j] = batches[j]
      /\ batches' \in [1 .. n -> Batch] /\ DOMAIN batches' = 1 .. n
  <2>1. /\ DOMAIN batches' = 1 .. n /\ batches' = [j \in 1 .. n |-> batches'[j]]
        /\ \A j \in 1 .. n : batches'[j] = IF j = i THEN [batches[i] EXCEPT !.status = "disabled"]
                                           ELSE batches[j]
    <3>1. i \in DOMAIN batches /\ batches' = [batches EXCEPT ![i] = [batches[i] EXCEPT !.status = "disabled"]]
      BY <1>1, <1>5
    <3> HIDE DEF i, n
    <3> QED BY <1>5, <3>1
  <2>2. /\ [batches[i] EXCEPT !.status = "disabled"] \in Batch
        /\ [batches[i] EXCEPT !.status = "disabled"].order = batches[i].order
        /\ [batches[i] EXCEPT !.status = "disabled"].product = batches[i].product
        /\ [batches[i] EXCEPT !.status = "disabled"].stored = batches[i].stored
        /\ [batches[i] EXCEPT !.status = "disabled"].secret = batches[i].secret
        /\ [batches[i] EXCEPT !.status = "disabled"].edit = batches[i].edit
    <3>1. batches[i] \in Batch
      BY <1>5
    <3> QED BY <3>1 DEF Batch
  <2> DEFINE row == [batches[i] EXCEPT !.status = "disabled"]
  <2> HIDE DEF row, i, n
  <2>3. /\ DOMAIN batches' = 1 .. n /\ batches' = [j \in 1 .. n |-> batches'[j]]
        /\ \A j \in 1 .. n : batches'[j] = IF j = i THEN row ELSE batches[j]
    BY <2>1 DEF row
  <2>4. /\ row \in Batch /\ row.order = batches[i].order /\ row.product = batches[i].product
        /\ row.stored = batches[i].stored /\ row.secret = batches[i].secret
        /\ row.edit = batches[i].edit
    BY <2>2 DEF row
  <2> QED BY <1>5, <2>3, <2>4
<1>7. batches' \in Seq(Batch) /\ Len(batches') = n
  <2> HIDE DEF n
  <2>1. batches' \in Seq(Batch)
    BY <1>5, <1>6, SeqDef
  <2> QED BY <1>5, <1>6, <2>1, LenProperties
<1>8. BooksKept
  <2>1. \A j \in DOMAIN batches :
          /\ batches'[j].order = batches[j].order /\ batches'[j].product = batches[j].product
          /\ batches'[j].stored = batches[j].stored /\ batches'[j].secret = batches[j].secret
          /\ batches'[j].edit = batches[j].edit
    BY <1>5, <1>6
  <2> QED BY <1>1, <1>5, <1>6, <1>7, <2>1 DEF BooksKept
<1>9. (batches \in Seq(Batch))' /\ (codes \in Seq(Code))'
  BY <1>1, <1>7, <1>8, TablesKept, CatalogTypes
<1>10. OneBatch' /\ Stored' /\ Answered' /\ History'
  BY <1>1, <1>2, <1>3, <1>8, WritingStep
<1>11. Disabling' /\ Spent'
  BY <1>1, <1>2, <1>3, <1>8, DisablingKept, SpentKept, CatalogTypes DEF CatalogInv
<1>12. DisabledBatchIsDead'
  <2>1. \A c \in DOMAIN codes : codes[c].batch = i => codes[c].status # "unused"
    BY <1>1 DEF CatalogInv, Disabling
  <2>2. \A c \in DOMAIN codes : batches[codes[c].batch].status = "disabled" => codes[c].status # "unused"
    BY DEF CatalogInv, DisabledBatchIsDead
  <2>3. \A c \in DOMAIN codes : codes[c].batch \in 1 .. n
    BY <1>5, CatalogTypes, CatalogRows
  <2>4. \A c \in DOMAIN codes :
           batches'[codes[c].batch].status = "disabled" => codes[c].status # "unused"
    <3> HIDE DEF i, n
    <3> QED BY <1>6, <2>1, <2>2, <2>3
  <2> QED BY <1>1, <2>4 DEF DisabledBatchIsDead
<1>13. Rest'
  BY <1>10, <1>11, <1>12 DEF Rest
<1>14. LockType' /\ HeldInside' /\ Locked'
  BY <1>1, <1>2, LockUnmoved, CatalogTypes DEF InTransaction
<1>15. (Product)' = Product
  BY DEF Product
<1> QED BY <1>1, <1>3, <1>8, <1>9, <1>13, <1>14, <1>15, CatalogTypes, CatalogParts

LEMMA RedeemStep ==
    ASSUME CatalogInv, NEW i \in DOMAIN codes, Redeem(i)
    PROVE  CatalogInv'
<1>1. /\ groups' = groups /\ products' = products /\ batches' = batches /\ answers' = answers
      /\ secret' = secret /\ late' = late /\ lock' = lock /\ proc' = proc
      /\ requests' = requests /\ edits' = edits /\ events' = events
      /\ codes[i].status = "unused"
      /\ codes' = [codes EXCEPT ![i] = Settled(codes[i], "used")]
      /\ redeemed' = redeemed \cup {[code |-> i, terms |-> codes[i].terms]}
  BY DEF Redeem, TermsRedeemed, bounds
<1>2. /\ DOMAIN codes' = DOMAIN codes /\ codes' = [c \in DOMAIN codes |-> codes'[c]]
      /\ \A c \in DOMAIN codes : codes'[c] = IF c = i THEN Settled(codes[i], "used")
                                             ELSE codes[c]
  BY <1>1
<1>3. /\ BooksKept /\ (batches \in Seq(Batch))' /\ (codes \in Seq(Code))'
      /\ OneBatch' /\ Stored' /\ Answered' /\ History' /\ DisabledBatchIsDead'
  BY <1>1, <1>2, SettlingStep
<1>4. Disabling'
  BY <1>1, <1>3, DisablingKept
<1>5. Spent'
  <2> SUFFICES ASSUME NEW r \in redeemed'
               PROVE  /\ r \in [code : DOMAIN codes', terms : Offers]
                      /\ codes'[r.code].status = "used" /\ r.terms = codes'[r.code].terms
    BY DEF Spent
  <2>1. CASE r \in redeemed
    BY <2>1, <1>3 DEF CatalogInv, Spent, BooksKept
  <2>2. CASE r = [code |-> i, terms |-> codes[i].terms]
    BY <2>2, <1>2, CatalogTypes, CatalogRows DEF Settled, Code
  <2> QED BY <1>1, <2>1, <2>2
<1>6. Rest'
  BY <1>3, <1>4, <1>5 DEF Rest
<1>7. LockType' /\ HeldInside' /\ Locked'
  BY <1>1, CatalogTypes DEF LockType, HeldInside, Locked
<1>8. (Product)' = Product
  BY DEF Product
<1> QED BY <1>1, <1>3, <1>6, <1>7, <1>8, CatalogTypes, CatalogParts

\* A batch of the order is answered with its codes, or with none under another key.
LEMMA FindBatchStep ==
    ASSUME CatalogInv, NEW a \in Admins, FindBatch(a)
    PROVE  CatalogInv'
<1> DEFINE ref == proc[a].form.ref
<1>1. /\ groups' = groups /\ products' = products /\ batches' = batches /\ codes' = codes
      /\ redeemed' = redeemed /\ secret' = secret /\ late' = late
      /\ requests' = requests /\ edits' = edits /\ events' = events
      /\ proc[a].at = "find"
  BY DEF FindBatch, bounds
<1>2. proc[a] \in [at : {"lock", "find", "load"}, product : Products, form : Forms]
  BY <1>1, CatalogTypes, RequestShapes
<1>3. (requests \in 0 .. MaxRequests /\ edits \in 0 .. MaxEdits /\ events \in 0 .. MaxEvents)'
  BY <1>1, CatalogTypes
<1>4. CASE BatchesOf(ref) = {}
  <2> DEFINE q == [proc[a] EXCEPT !.at = "load"]
  <2>1. proc' = [proc EXCEPT ![a] = q] /\ lock' = lock /\ answers' = answers
    BY <1>4 DEF FindBatch
  <2>2. q \in Request /\ q.at = "load" /\ q.form = proc[a].form
    <3>1. q \in [at : {"lock", "find", "load"}, product : Products, form : Forms]
      BY <1>2
    <3> QED BY <1>2, <3>1 DEF Request
  <2> HIDE DEF q
  <2>3. LockType' /\ HeldInside' /\ Locked'
    BY <1>1, <2>1, <2>2, LockUnmoved, CatalogTypes DEF InTransaction
  <2> QED BY <1>1, <1>3, <1>4, <2>1, <2>2, <2>3, RequestMoves
<1>5. CASE BatchesOf(ref) # {}
  <2> DEFINE i == CHOOSE i \in BatchesOf(ref) : TRUE
             b == batches[i]
             p == b.product
             x == IF Readable(b) THEN Answer("codes", ref, b.stored, p, products[p])
                  ELSE Answer("exists", ref, {}, p, products[p])
  <2>1. /\ answers' = answers \cup {x} /\ lock' = Unlocked(a)
        /\ proc' = [proc EXCEPT ![a] = Idle]
    BY <1>5 DEF FindBatch
  <2>2. i \in DOMAIN batches /\ ref # None /\ batches[i].order = Fold(ref)
    <3>1. i \in BatchesOf(ref)
      BY <1>5
    <3> QED BY <3>1 DEF BatchesOf
  <2>3. Fold(ref) \in Orders /\ Fold(ref) # None
    BY CatalogAssumption, <1>2, <2>2
  <2>4. /\ x.order = Fold(ref) /\ x.product = p /\ x.key = secret
        /\ x.edit = products[p].edit /\ x.terms = products[p].terms
        /\ \/ x.kind = "codes" /\ x.codes = b.stored
           \/ x.kind = "exists" /\ x.codes = {} /\ ~Readable(b)
    <3> DEFINE y == Answer("codes", ref, b.stored, p, products[p])
               z == Answer("exists", ref, {}, p, products[p])
    <3>1. Order(ref) = Fold(ref)
      BY <2>2 DEF Order
    <3>2. /\ y.order = Order(ref) /\ y.product = p /\ y.key = secret /\ y.kind = "codes"
          /\ y.edit = products[p].edit /\ y.terms = products[p].terms /\ y.codes = b.stored
      BY DEF Answer
    <3>3. /\ z.order = Order(ref) /\ z.product = p /\ z.key = secret /\ z.kind = "exists"
          /\ z.edit = products[p].edit /\ z.terms = products[p].terms /\ z.codes = {}
      BY DEF Answer
    <3>4. CASE Readable(b)
      <4>1. x = y
        BY <3>4
      <4> HIDE DEF x, y, z, p, b, ref
      <4> QED BY <3>1, <3>2, <4>1
    <3>5. CASE ~Readable(b)
      <4>1. x = z
        BY <3>5
      <4> HIDE DEF x, y, z, p, b, ref
      <4> QED BY <3>1, <3>3, <3>5, <4>1
    <3> QED BY <3>4, <3>5
  <2>5. b.stored # {} /\ \A c \in b.stored : c \in DOMAIN codes /\ codes[c].batch = i
    BY <2>2, CatalogTypes, CatalogRows DEF CatalogInv, Stored
  <2>6. AnswerOf(x, i)
    <3>1. Readable(b) <=> secret = b.secret
      BY <2>5 DEF Readable
    <3> HIDE DEF x
    <3> QED BY <2>2, <2>4, <3>1 DEF AnswerOf
  <2>7. Says(x.product, x.edit, x.terms)
    <3>1. PICK c \in DOMAIN codes : codes[c].batch = i
      BY <2>5
    <3>2. Says(p, b.edit, codes[c].terms)
      BY <3>1 DEF Says
    <3>3. p \in Products /\ products[p] # None
      BY <3>2 DEF CatalogInv, History
    <3> HIDE DEF x, p
    <3> QED BY <2>4, <3>3 DEF Says
  <2> HIDE DEF x, p, b, i, ref
  <2>8. BooksKept /\ (batches \in Seq(Batch))' /\ (codes \in Seq(Code))'
    BY <1>1, UnwrittenTables
  <2>9. Answered'
    <3>1. \A y \in answers' : \E j \in DOMAIN batches' : AnswerOf(y, j)'
      <4> SUFFICES ASSUME NEW y \in answers'
                   PROVE  \E j \in DOMAIN batches' : AnswerOf(y, j)'
        OBVIOUS
      <4>1. \E j \in DOMAIN batches : AnswerOf(y, j)
        BY <2>1, <2>2, <2>6 DEF CatalogInv, Answered
      <4> QED BY <1>1, <2>8, <4>1, RowsKept
    <3>2. x.order # None
      BY <2>3, <2>4
    <3>3. ASSUME NEW y \in answers, y.kind = "codes", y.order = None, x.codes = y.codes
          PROVE  FALSE
      <4>1. PICK j \in DOMAIN batches : AnswerOf(y, j)
        BY DEF CatalogInv, Answered
      <4>2. y.codes = batches[j].stored /\ batches[j].order = None
        BY <3>3, <4>1 DEF AnswerOf
      <4>3. batches[j].stored # {} /\ \A c \in batches[j].stored : codes[c].batch = j
        BY DEF CatalogInv, Stored
      <4>4. x.codes = b.stored
        BY <2>4, <3>3, <4>2, <4>3
      <4>5. i = j
        BY <2>5, <3>3, <4>2, <4>3, <4>4
      <4> QED BY <2>2, <2>3, <4>2, <4>5
    <3>4. \A y, z \in answers : y.kind = "codes" /\ y.order = None /\ z.codes = y.codes => z = y
      BY DEF CatalogInv, Answered
    <3>5. \A y, z \in answers' : y.kind = "codes" /\ y.order = None /\ z.codes = y.codes => z = y
      BY <2>1, <3>2, <3>3, <3>4
    <3> QED BY <3>1, <3>5 DEF Answered
  <2>10. Idle \in Request /\ Idle.at = "idle"
    BY DEF Request, Idle
  <2>11. /\ \A d \in Admins : proc'[d] = IF d = a THEN Idle ELSE proc[d]
         /\ proc' \in [Admins -> Request]
    BY <2>1, <2>10, CatalogTypes
  <2>12. OneBatch'
    <3>1. \A d \in Admins : proc'[d].at \in {"load", "insert"} => BatchesOf(proc'[d].form.ref) = {}
      BY <2>10, <2>11 DEF CatalogInv, OneBatch
    <3> QED BY <2>8, <3>1, OneBatchKept
  <2>13. History'
    <3>1. \A c \in DOMAIN codes' : Says(batches'[codes'[c].batch].product,
                                        batches'[codes'[c].batch].edit, codes'[c].terms)
      BY <1>1 DEF Says
    <3>2. \A y \in answers : Says(y.product, y.edit, y.terms)
      BY DEF Says
    <3>3. \A y \in answers' : Says(y.product, y.edit, y.terms)
      BY <2>1, <2>7, <3>2
    <3>4. \A d \in Admins : proc[d].at = "insert" =>
             Says(proc[d].product, proc[d].read.edit, proc[d].read.terms)
      BY DEF Says
    <3>5. \A d \in Admins : proc'[d].at = "insert" =>
             Says(proc'[d].product, proc'[d].read.edit, proc'[d].read.terms)
      BY <2>10, <2>11, <3>4
    <3> QED BY <1>1, <3>1, <3>3, <3>5, SaidBefore DEF CatalogInv
  <2>14. Stored' /\ Disabling' /\ Spent' /\ DisabledBatchIsDead'
    BY <1>1, <2>8, <2>10, <2>11, RowsKept, DisablingKept, SpentKept, DeadKept, CatalogTypes
       DEF CatalogInv
  <2>15. Rest'
    BY <2>9, <2>12, <2>13, <2>14 DEF Rest
  <2>16. LockType' /\ HeldInside' /\ Locked'
    BY <2>1, <2>10, LockReleased, CatalogTypes DEF InTransaction
  <2>17. (Product)' = Product
    BY DEF Product
  <2> QED BY <1>1, <1>3, <2>8, <2>11, <2>15, <2>16, <2>17, CatalogTypes, CatalogParts
<1> QED BY <1>4, <1>5

\* A row added, and a number of equal rows added, to a table.
LEMMA OneMore ==
    ASSUME NEW S, NEW s \in Seq(S), NEW e
    PROVE  /\ DOMAIN Append(s, e) = 1 .. Len(s) + 1 /\ Len(Append(s, e)) = Len(s) + 1
           /\ \A i \in 1 .. Len(s) : Append(s, e)[i] = s[i]
           /\ Append(s, e)[Len(s) + 1] = e
           /\ \A T : S \subseteq T /\ e \in T => Append(s, e) \in Seq(T)
<1> DEFINE S1 == S \cup {e}
<1>1. \A i \in 1 .. Len(s) : s[i] \in S
  BY LenProperties
<1>2. s \in Seq(S1) /\ e \in S1
  BY <1>1, SeqMonotonic
<1> HIDE DEF S1
<1>3. /\ Append(s, e) \in Seq(S1) /\ Len(Append(s, e)) = Len(s) + 1
      /\ \A i \in 1 .. Len(s) : Append(s, e)[i] = s[i]
      /\ Append(s, e)[Len(s) + 1] = e
  BY <1>2, AppendProperties
<1>4. DOMAIN Append(s, e) = 1 .. Len(s) + 1
  BY <1>3, LenProperties
<1>5. ASSUME NEW T, S \subseteq T, e \in T
      PROVE  Append(s, e) \in Seq(T)
  <2>1. s \in Seq(T)
    BY <1>1, <1>5, SeqMonotonic
  <2> QED BY <1>5, <2>1, AppendProperties
<1> QED BY <1>3, <1>4, <1>5

LEMMA ManyMore ==
    ASSUME NEW S, NEW s \in Seq(S), NEW e, NEW k \in Nat, NEW t, t = s \o [i \in 1 .. k |-> e]
    PROVE  /\ DOMAIN t = 1 .. Len(s) + k /\ Len(t) = Len(s) + k
           /\ \A i \in 1 .. Len(s) : t[i] = s[i]
           /\ \A i \in Len(s) + 1 .. Len(s) + k : t[i] = e
           /\ \A T : S \subseteq T /\ e \in T => t \in Seq(T)
<1> DEFINE S1 == S \cup {e}
           more == [i \in 1 .. k |-> e]
           n == Len(s)
<1>1. n \in Nat /\ \A i \in 1 .. n : s[i] \in S
  BY LenProperties
<1>2. \A T : e \in T => more \in [1 .. k -> T]
  OBVIOUS
<1>3. \A T : e \in T => more \in Seq(T) /\ Len(more) = k
  <2> SUFFICES ASSUME NEW T, e \in T
               PROVE  more \in Seq(T) /\ Len(more) = k
    OBVIOUS
  <2>1. more \in [1 .. k -> T]
    BY <1>2
  <2> HIDE DEF more
  <2>2. more \in Seq(T)
    BY <2>1, SeqDef
  <2>3. 1 .. Len(more) = 1 .. k /\ Len(more) \in Nat
    BY <2>1, <2>2, LenProperties
  <2> DEFINE l == Len(more)
  <2> HIDE DEF l
  <2>4. l = k
    <3>1. 1 .. l = 1 .. k /\ l \in Nat
      BY <2>3 DEF l
    <3> QED BY <3>1
  <2> QED BY <2>2, <2>4 DEF l
<1>4. s \in Seq(S1) /\ e \in S1
  BY <1>1, SeqMonotonic
<1>5. \A i \in n + 1 .. n + k : i \in 1 .. n + k /\ ~(i <= n) /\ more[i - n] = e
  BY <1>1
<1> HIDE DEF S1, more, n
<1>6. t = s \o more
  BY DEF more
<1>7. /\ t \in Seq(S1) /\ Len(t) = n + k
      /\ \A i \in 1 .. n + k : t[i] = IF i <= n THEN s[i] ELSE more[i - n]
  <2>1. more \in Seq(S1) /\ Len(more) = k
    BY <1>3, <1>4
  <2> QED BY <1>4, <1>6, <2>1, ConcatProperties DEF n
<1>8. DOMAIN t = 1 .. n + k
  BY <1>7, LenProperties
<1>9. /\ \A i \in 1 .. n : t[i] = s[i]
      /\ \A i \in n + 1 .. n + k : t[i] = e
  BY <1>1, <1>5, <1>7
<1>10. ASSUME NEW T, S \subseteq T, e \in T
       PROVE  t \in Seq(T)
  <2>1. s \in Seq(T) /\ more \in Seq(T)
    BY <1>1, <1>3, <1>10, SeqMonotonic DEF n
  <2> QED BY <1>6, <2>1, ConcatProperties
<1> QED BY <1>7, <1>8, <1>9, <1>10 DEF n

\* The commit of a request that found no batch: there is none, since the request held the lock
\* of the order from there on, and no other request is as far for the same order.
LEMMA CommitBatchStep ==
    ASSUME CatalogInv, NEW a \in Admins, CommitBatch(a)
    PROVE  CatalogInv'
<1> DEFINE r == proc[a]
           ref == r.form.ref
           n == Len(batches)
           m == Len(codes)
           k == r.form.count
           made == m + 1 .. m + k
           row == [order |-> Order(ref), product |-> r.product, status |-> "active",
                   stored |-> made, secret |-> secret, edit |-> r.read.edit]
           code == [terms |-> r.read.terms, status |-> "unused", deadline |-> r.form.deadline,
                    batch |-> n + 1]
           x == Answer("codes", ref, made, r.product, r.read)
<1>1. r.at = "insert" /\ BatchesOf(ref) = {}
  BY DEF CommitBatch, CatalogInv, OneBatch
<1>2. /\ groups' = groups /\ products' = products /\ redeemed' = redeemed
      /\ secret' = secret /\ late' = late /\ requests' = requests /\ edits' = edits
      /\ proc' = [proc EXCEPT ![a] = Idle] /\ lock' = Unlocked(a)
      /\ batches' = Append(batches, row) /\ codes' = codes \o [i \in 1 .. k |-> code]
      /\ answers' \subseteq answers \cup {x}
      /\ answers \subseteq answers'
      /\ events' = events \/ (events < MaxEvents /\ events' = events + 1)
  <2>1. events \in Nat
    BY CatalogTypes
  <2>2. PICK lost \in BOOLEAN :
           /\ lost => events < MaxEvents
           /\ events' = events + (IF lost THEN 1 ELSE 0)
           /\ batches' = Append(batches, row) /\ codes' = codes \o [i \in 1 .. k |-> code]
           /\ answers' = IF lost THEN answers ELSE answers \cup {x}
    <3> HIDE DEF x, row, code
    <3> QED BY <1>1 DEF CommitBatch, x, row, code
  <2>3. events' = events \/ (events < MaxEvents /\ events' = events + 1)
    BY <2>1, <2>2
  <2>4. answers' \subseteq answers \cup {x} /\ answers \subseteq answers'
    <3> HIDE DEF x, row, code
    <3> QED BY <2>2
  <2>5. /\ groups' = groups /\ products' = products /\ redeemed' = redeemed
        /\ secret' = secret /\ late' = late /\ requests' = requests /\ edits' = edits
        /\ proc' = [proc EXCEPT ![a] = Idle] /\ lock' = Unlocked(a)
    BY DEF CommitBatch
  <2> HIDE DEF x, row, code
  <2> QED BY <2>2, <2>3, <2>4, <2>5
<1>3. r \in [at : {"insert"}, product : Products, form : Forms, read : Product]
  BY <1>1, CatalogTypes, RequestShapes
<1>4. /\ r.product \in Products /\ r.form \in Forms /\ ref \in Refs \cup {None} /\ k \in 1 .. 500
      /\ r.form.deadline \in BOOLEAN /\ r.read.terms \in Offers /\ r.read.edit \in Nat
  BY CatalogAssumption, <1>3 DEF Product
<1>5. n \in Nat /\ m \in Nat /\ DOMAIN batches = 1 .. n /\ DOMAIN codes = 1 .. m /\ k \in Nat /\ k > 0
  <2>1. k \in Nat /\ k > 0
    <3> HIDE DEF k
    <3> QED BY <1>4
  <2> QED BY <2>1, CatalogTypes, CatalogRows
<1>6. /\ Order(ref) \in Orders \cup {None}
      /\ Order(ref) # None => ref # None /\ Order(ref) = Fold(ref)
  BY CatalogAssumption, <1>4 DEF Order
<1>7. /\ row \in [order : Orders \cup {None}, product : Products, status : {"active", "disabled"},
                  stored : {made}, secret : Nat, edit : Nat]
      /\ row.order = Order(ref) /\ row.product = r.product /\ row.status = "active"
      /\ row.stored = made /\ row.edit = r.read.edit
  <2> HIDE DEF made
  <2> QED BY <1>4, <1>6, CatalogTypes
<1>8. /\ code \in [terms : Offers, status : {"unused", "used", "disabled"}, deadline : BOOLEAN,
                   batch : {n + 1}]
      /\ code.terms = r.read.terms /\ code.batch = n + 1
  BY <1>4
<1>9. /\ x.kind = "codes" /\ x.order = Order(ref) /\ x.codes = made /\ x.product = r.product
      /\ x.terms = r.read.terms /\ x.edit = r.read.edit
  BY DEF Answer
<1> HIDE DEF row, code, x
<1>10. /\ (batches \in Seq(Batch))' /\ (codes \in Seq(Code))'
       /\ Request \subseteq Request'
       /\ DOMAIN batches' = 1 .. n + 1
       /\ \A i \in 1 .. n : batches'[i] = batches[i]
       /\ batches'[n + 1] = row
       /\ DOMAIN codes' = 1 .. m + k
       /\ \A c \in 1 .. m : codes'[c] = codes[c]
       /\ \A c \in m + 1 .. m + k : codes'[c] = code
  <2> HIDE DEF k, made, r, ref
  <2>1. batches \in Seq(Batch) /\ codes \in Seq(Code)
    BY CatalogTypes
  <2>2. /\ DOMAIN batches' = 1 .. n + 1 /\ Len(batches') = n + 1
        /\ \A i \in 1 .. n : batches'[i] = batches[i]
        /\ batches'[n + 1] = row
        /\ \A T : Batch \subseteq T /\ row \in T => batches' \in Seq(T)
    BY <1>2, <2>1, OneMore
  <2>3. /\ DOMAIN codes' = 1 .. m + k /\ Len(codes') = m + k
        /\ \A c \in 1 .. m : codes'[c] = codes[c]
        /\ \A c \in m + 1 .. m + k : codes'[c] = code
        /\ \A T : Code \subseteq T /\ code \in T => codes' \in Seq(T)
    BY <1>2, <1>5, <2>1, ManyMore
  <2>4. Batch \subseteq (Batch)' /\ row \in (Batch)'
    <3> DEFINE old == 1 .. m
               all == 1 .. Len(codes')
    <3>1. old \subseteq all /\ made \subseteq all
      BY <1>5, <2>3 DEF made
    <3>2. Batch = [order : Orders \cup {None}, product : Products,
                   status : {"active", "disabled"}, stored : SUBSET old, secret : Nat, edit : Nat]
      BY DEF Batch
    <3>3. (Batch)' = [order : Orders \cup {None}, product : Products,
                      status : {"active", "disabled"}, stored : SUBSET all, secret : Nat, edit : Nat]
      BY DEF Batch
    <3> HIDE DEF old, all, m
    <3> QED BY <1>7, <3>1, <3>2, <3>3
  <2>5. Code \subseteq (Code)' /\ code \in (Code)'
    <3>1. 1 .. n \subseteq 1 .. Len(batches') /\ n + 1 \in 1 .. Len(batches')
      BY <1>5, <2>2
    <3> QED BY <1>8, <3>1 DEF Code
  <2>6. Request \subseteq Request'
    BY <1>5, <2>2 DEF Request, Product, Idle
  <2> QED BY <2>2, <2>3, <2>4, <2>5, <2>6
<1>11. /\ \A c \in 1 .. m : codes[c].batch \in 1 .. n
       /\ \A i \in 1 .. n : /\ batches[i].stored \subseteq 1 .. m /\ batches[i].stored # {}
                            /\ \A c \in batches[i].stored : codes[c].batch = i
  BY <1>5, CatalogTypes, CatalogRows DEF CatalogInv, Stored
<1>12. \A c \in made : c \in 1 .. m + k /\ c \notin 1 .. m
  BY <1>5
<1>13. /\ \A c \in DOMAIN codes' : \/ c \in 1 .. m /\ codes'[c] = codes[c]
                                   \/ c \in made /\ codes'[c] = code
       /\ \A i \in DOMAIN batches' : \/ i \in 1 .. n /\ batches'[i] = batches[i]
                                     \/ i = n + 1 /\ batches'[i] = row
       /\ n + 1 \in DOMAIN batches' /\ n + 1 \notin 1 .. n /\ made \subseteq DOMAIN codes' /\ made # {}
       /\ 1 .. n \subseteq DOMAIN batches' /\ 1 .. m \subseteq DOMAIN codes'
  <2>1. /\ \A c \in 1 .. m + k : c \in 1 .. m \/ c \in made
        /\ \A i \in 1 .. n + 1 : i \in 1 .. n \/ i = n + 1
        /\ n + 1 \in 1 .. n + 1 /\ n + 1 \notin 1 .. n /\ made \subseteq 1 .. m + k
        /\ 1 .. n \subseteq 1 .. n + 1 /\ 1 .. m \subseteq 1 .. m + k /\ m + 1 \in made
    BY <1>5
  <2> QED BY <2>1, <1>10
<1> HIDE DEF made
<1>14. Idle \in Request /\ Idle.at = "idle"
  BY DEF Request, Idle
<1>15. /\ \A b \in Admins : proc'[b] = IF b = a THEN Idle ELSE proc[b]
       /\ proc' \in [Admins -> Request]
  BY <1>2, <1>14, CatalogTypes
<1>16. LockType' /\ HeldInside' /\ Locked'
  BY <1>2, <1>14, LockReleased, CatalogTypes DEF InTransaction
<1>17. Stored'
  <2>1. \A c \in DOMAIN codes' : c \in batches'[codes'[c].batch].stored
    <3> SUFFICES ASSUME NEW c \in DOMAIN codes'
                 PROVE  c \in batches'[codes'[c].batch].stored
      OBVIOUS
    <3>1. CASE c \in 1 .. m /\ codes'[c] = codes[c]
      <4>1. c \in batches[codes[c].batch].stored
        BY <1>5, <3>1 DEF CatalogInv, Stored
      <4> HIDE DEF n, m, k, r, ref
      <4> QED BY <1>10, <1>11, <3>1, <4>1
    <3>2. CASE c \in made /\ codes'[c] = code
      BY <1>7, <1>8, <1>10, <3>2
    <3> QED BY <1>13, <3>1, <3>2
  <2>2. \A i \in DOMAIN batches' :
           batches'[i].stored # {} /\ \A c \in batches'[i].stored : codes'[c].batch = i
    <3> SUFFICES ASSUME NEW i \in DOMAIN batches'
                 PROVE  batches'[i].stored # {} /\ \A c \in batches'[i].stored : codes'[c].batch = i
      OBVIOUS
    <3>1. CASE i \in 1 .. n /\ batches'[i] = batches[i]
      <4> HIDE DEF n, m, k, r, ref
      <4> QED BY <1>10, <1>11, <3>1
    <3>2. CASE i = n + 1 /\ batches'[i] = row
      <4>1. \A c \in made : codes'[c] = code
        BY <1>10 DEF made
      <4> HIDE DEF n, m, k, r, ref
      <4> QED BY <1>7, <1>8, <1>13, <3>2, <4>1
    <3> QED BY <1>13, <3>1, <3>2
  <2> QED BY <2>1, <2>2 DEF Stored
<1>18. OneBatch'
  <2>1. \A i \in 1 .. n : batches[i].order = Order(ref) => Order(ref) = None
    BY <1>1, <1>5, <1>6 DEF BatchesOf
  <2>2. \A i, j \in DOMAIN batches' :
           batches'[i].order = batches'[j].order => batches'[i].order = None \/ i = j
    <3>1. \A i, j \in 1 .. n : batches[i].order = batches[j].order => batches[i].order = None \/ i = j
      BY <1>5 DEF CatalogInv, OneBatch
    <3> HIDE DEF n, m, k, r, ref
    <3> QED BY <1>7, <1>13, <2>1, <3>1
  <2>3. \A b \in Admins : proc'[b].at \in {"load", "insert"} => BatchesOf(proc[b].form.ref)' = {}
    <3> SUFFICES ASSUME NEW b \in Admins, proc'[b].at \in {"load", "insert"},
                        NEW i \in DOMAIN batches',
                        proc'[b].form.ref # None, batches'[i].order = Fold(proc'[b].form.ref)
                 PROVE  FALSE
      BY DEF BatchesOf
    <3>1. b # a /\ proc'[b] = proc[b]
      BY <1>14, <1>15
    <3>2. BatchesOf(proc[b].form.ref) = {}
      BY <3>1 DEF CatalogInv, OneBatch
    <3>3. ~(i \in 1 .. n /\ batches'[i] = batches[i])
      BY <1>5, <3>1, <3>2 DEF BatchesOf
    <3>4. Fold(proc[b].form.ref) = Order(ref)
      BY <1>7, <1>13, <3>1, <3>3
    <3>5. proc[b].form.ref \in Refs
      <4>1. proc[b] \in Request /\ proc[b].form \in Forms
        BY <3>1, CatalogTypes, RequestShapes
      <4> QED BY CatalogAssumption, <3>1, <4>1
    <3>6. ref # None /\ Fold(proc[b].form.ref) = Fold(ref)
      BY CatalogAssumption, <1>6, <3>4, <3>5
    <3>7. lock[Fold(ref)] = a
      BY <1>1, <3>6, CatalogTypes DEF Locked, InTransaction
    <3>8. lock[Fold(proc[b].form.ref)] = b
      BY <3>1, CatalogTypes DEF Locked, InTransaction
    <3> QED BY <3>1, <3>6, <3>7, <3>8
  <2> QED BY <2>2, <2>3 DEF OneBatch
<1>19. Answered'
  <2>1. ASSUME NEW y \in answers
        PROVE  \E i \in 1 .. n : AnswerOf(y, i) /\ AnswerOf(y, i)'
    <3>1. PICK i \in 1 .. n : AnswerOf(y, i)
      BY <1>5 DEF CatalogInv, Answered
    <3>2. batches'[i] = batches[i]
      BY <1>10
    <3> QED BY <3>1, <3>2 DEF AnswerOf
  <2>2. ASSUME NEW y, NEW i, y = x, i = n + 1
        PROVE  AnswerOf(y, i)'
    BY <1>7, <1>9, <1>10, <2>2 DEF AnswerOf
  <2>3. \A y \in answers' : \E i \in DOMAIN batches' : AnswerOf(y, i)'
    <3> SUFFICES ASSUME NEW y \in answers'
                 PROVE  \E i \in DOMAIN batches' : AnswerOf(y, i)'
      OBVIOUS
    <3>1. CASE y \in answers
      <4>1. PICK i \in 1 .. n : AnswerOf(y, i)'
        BY <2>1, <3>1
      <4>2. i \in DOMAIN batches'
        BY <1>13
      <4> QED BY <4>1, <4>2
    <3>2. CASE y = x
      BY <1>13, <2>2, <3>2
    <3> QED BY <1>2, <3>1, <3>2
  <2>4. \A y \in answers : y.codes # x.codes
    <3> SUFFICES ASSUME NEW y \in answers
                 PROVE  y.codes # x.codes
      OBVIOUS
    <3>1. PICK i \in 1 .. n : AnswerOf(y, i)
      BY <2>1
    <3>2. y.codes = {} \/ y.codes = batches[i].stored
      BY <3>1 DEF AnswerOf
    <3> HIDE DEF n, m, k, r, ref
    <3> QED BY <1>9, <1>11, <1>12, <1>13, <3>2
  <2>5. \A y, z \in answers : y.kind = "codes" /\ y.order = None /\ z.codes = y.codes => z = y
    BY DEF CatalogInv, Answered
  <2>6. \A y, z \in answers' : y.kind = "codes" /\ y.order = None /\ z.codes = y.codes => z = y
    BY <1>2, <2>4, <2>5
  <2> QED BY <2>3, <2>6 DEF Answered
<1>20. History'
  <2>1. Says(r.product, r.read.edit, r.read.terms)
    BY <1>1 DEF Says
  <2>2. \A c \in 1 .. m : Says(batches[codes[c].batch].product, batches[codes[c].batch].edit,
                               codes[c].terms)
    BY <1>5 DEF Says
  <2>3. \A c \in DOMAIN codes' : Says(batches'[codes'[c].batch].product,
                                      batches'[codes'[c].batch].edit, codes'[c].terms)
    <3> SUFFICES ASSUME NEW c \in DOMAIN codes'
                 PROVE  Says(batches'[codes'[c].batch].product, batches'[codes'[c].batch].edit,
                             codes'[c].terms)
      OBVIOUS
    <3>1. CASE c \in 1 .. m /\ codes'[c] = codes[c]
      <4>1. batches'[codes'[c].batch] = batches[codes[c].batch]
        BY <1>10, <1>11, <3>1
      <4> QED BY <2>2, <3>1, <4>1
    <3>2. CASE c \in made /\ codes'[c] = code
      <4>1. batches'[codes'[c].batch] = row
        BY <1>8, <1>10, <3>2
      <4> QED BY <1>7, <1>8, <2>1, <3>2, <4>1
    <3> QED BY <1>13, <3>1, <3>2
  <2>4. \A y \in answers : Says(y.product, y.edit, y.terms)
    BY DEF Says
  <2>5. \A y \in answers' : Says(y.product, y.edit, y.terms)
    BY <1>2, <1>9, <2>1, <2>4
  <2>6. \A d \in Admins : proc[d].at = "insert" =>
           Says(proc[d].product, proc[d].read.edit, proc[d].read.terms)
    BY DEF Says
  <2>7. \A d \in Admins : proc'[d].at = "insert" =>
           Says(proc'[d].product, proc'[d].read.edit, proc'[d].read.terms)
    BY <1>14, <1>15, <2>6
  <2> QED BY <1>2, <2>3, <2>5, <2>7, SaidBefore DEF CatalogInv
<1>21. Spent'
  <2>1. \A s \in redeemed : /\ s \in [code : 1 .. m, terms : Offers]
                            /\ codes[s.code].status = "used" /\ s.terms = codes[s.code].terms
    BY <1>5 DEF CatalogInv, Spent
  <2>2. \A s \in redeemed : s.code \in 1 .. m /\ s \in [code : DOMAIN codes', terms : Offers]
    BY <1>13, <2>1
  <2>3. \A c \in 1 .. m : codes'[c] = codes[c]
    BY <1>10
  <2> HIDE DEF n, m, k, r, ref
  <2> QED BY <1>2, <2>1, <2>2, <2>3 DEF Spent
<1>22. Disabling'
  <2>1. \A b \in Admins : proc[b].at = "disableBatch" =>
           /\ proc[b].batch \in 1 .. n
           /\ \A c \in 1 .. m : codes[c].batch = proc[b].batch => codes[c].status # "unused"
    <3>1. \A b \in Admins : proc[b].at = "disableBatch" =>
             proc[b] \in [at : {"disableBatch"}, batch : 1 .. Len(batches)]
      BY CatalogTypes, RequestShapes
    <3> QED BY <1>5, <3>1 DEF CatalogInv, Disabling
  <2> HIDE DEF n, m, k, r, ref
  <2> QED BY <1>8, <1>13, <1>14, <1>15, <2>1 DEF Disabling
<1>23. DisabledBatchIsDead'
  <2>1. \A c \in 1 .. m : batches[codes[c].batch].status = "disabled" => codes[c].status # "unused"
    BY <1>5 DEF CatalogInv, DisabledBatchIsDead
  <2>2. \A c \in 1 .. m : batches'[codes[c].batch] = batches[codes[c].batch]
    BY <1>10, <1>11
  <2>3. \A c \in made : batches'[code.batch] = row
    BY <1>8, <1>10
  <2> HIDE DEF n, m, k, r, ref
  <2> QED BY <1>7, <1>13, <2>1, <2>2, <2>3 DEF DisabledBatchIsDead
<1>24. TypeOK'
  <2>1. (proc \in [Admins -> Request])'
    BY <1>10, <1>15
  <2>2. (Product)' = Product
    BY DEF Product
  <2>3. events' \in 0 .. MaxEvents
    BY CatalogAssumption, <1>2, CatalogTypes
  <2> HIDE DEF n, m, k, r, ref
  <2> QED BY <1>2, <1>10, <1>16, <2>1, <2>2, <2>3, CatalogTypes
          DEF TypeOK, LockType, HeldInside, InTransaction
<1> QED BY <1>16, <1>17, <1>18, <1>19, <1>20, <1>21, <1>22, <1>23, <1>24 DEF CatalogInv

LEMMA CatalogInit ==
    ASSUME Init
    PROVE  CatalogInv
<1>1. PICK terms \in [OnSale -> Offers] :
         products = [p \in Products |->
                       IF p \in OnSale THEN [terms |-> terms[p], status |-> "active",
                                             forSale |-> TRUE, edit |-> 0] ELSE None]
  BY DEF Init
<1>2. /\ batches = <<>> /\ codes = <<>> /\ lock = [k \in Orders \cup Refs |-> None]
      /\ proc = [a \in Admins |-> Idle] /\ secret = 0 /\ late = FALSE
      /\ answers = {} /\ redeemed = {} /\ requests = 0 /\ edits = 0 /\ events = 0
      /\ groups \in [Groups -> [type : {"standard", "subscription"}, status : {"active"}]]
  BY DEF Init
<1>3. DOMAIN batches = {} /\ DOMAIN codes = {}
  BY <1>2
<1>4. \A a \in Admins : proc[a].at = "idle" /\ proc[a] \in Request
  BY <1>2 DEF Idle, Request
<1>5. \A p \in Products : products[p] # None => products[p] \in Product
  <2>1. PICK yes \in BOOLEAN : yes = TRUE
    BY Zenon
  <2>2. ASSUME NEW p \in Products, p \in OnSale
        PROVE  products[p] = [terms |-> terms[p], status |-> "active", forSale |-> yes, edit |-> 0]
    BY <1>1, <2>1, <2>2
  <2>3. \A p \in Products : p \notin OnSale => products[p] = None
    BY <1>1
  <2>4. ASSUME NEW p \in Products, p \in OnSale
        PROVE  products[p] \in Product
    <3>1. terms[p] \in Offers
      BY <2>4
    <3>2. [terms |-> terms[p], status |-> "active", forSale |-> yes, edit |-> 0] \in Product
      BY <2>1, <3>1 DEF Product
    <3> QED BY <2>2, <2>4, <3>2
  <2> QED BY <2>3, <2>4
<1>6. products \in [Products -> Product \cup {None}]
  BY <1>1, <1>5
<1>7. TypeOK
  <2>1. batches \in Seq(Batch) /\ codes \in Seq(Code)
    BY <1>2
  <2>2. /\ groups \in [Groups -> [type : {"standard", "subscription"},
                                  status : {"active", "inactive"}]]
        /\ proc \in [Admins -> Request]
        /\ lock \in [Orders \cup Refs -> Admins \cup {None}]
        /\ \A k \in DOMAIN lock : lock[k] = None
    BY <1>2, <1>4
  <2>3. late \in BOOLEAN
    BY <1>2, Zenon
  <2>4. secret \in Nat /\ requests \in 0 .. MaxRequests /\ edits \in 0 .. MaxEdits /\ events \in 0 .. MaxEvents
    BY CatalogAssumption, <1>2
  <2> QED BY <1>6, <2>1, <2>2, <2>3, <2>4 DEF TypeOK
<1>8. Locked /\ Disabling /\ OneBatch
  BY <1>3, <1>4 DEF Locked, Disabling, InTransaction, OneBatch
<1>9. Stored /\ Answered /\ Spent /\ DisabledBatchIsDead
  BY <1>2, <1>3 DEF Stored, Answered, Spent, DisabledBatchIsDead
<1>10. History
  <2>1. ASSUME NEW p, NEW e, NEW t, Says(p, e, t)
        PROVE  p \in Products /\ products[p] # None /\ e = products[p].edit /\ t = products[p].terms
    BY <2>1, <1>2, <1>3, <1>4 DEF Says
  <2>2. \A p \in Products : products[p] # None => products[p].edit \in Nat
    BY <1>5 DEF Product
  <2> QED BY <2>1, <2>2 DEF History
<1> QED BY <1>7, <1>8, <1>9, <1>10 DEF CatalogInv

LEMMA CatalogStep ==
    ASSUME CatalogInv, [Next]_vars
    PROVE  CatalogInv'
<1>1. ASSUME NEW a \in Admins, Step(a)
      PROVE  CatalogInv'
  BY <1>1, CheckGroupStep, SaveProductStep, LockOrderStep, FindBatchStep, LoadProductStep,
     CommitBatchStep, DisableBatchStep DEF Step
<1>2. ASSUME NEW a \in Admins,
             RequestProduct(a) \/ RequestCodes(a) \/ DisableCodes(a) \/ Die(a)
      PROVE  CatalogInv'
  BY <1>2, RequestProductStep, RequestCodesStep, DisableCodesStep, DieStep
<1>3. ASSUME NEW p \in Products, ArchiveProduct(p)
      PROVE  CatalogInv'
  BY <1>3, ArchiveProductStep
<1>4. ASSUME NEW i \in DOMAIN codes, DisableCode(i) \/ Redeem(i)
      PROVE  CatalogInv'
  BY <1>4, DisableCodeStep, RedeemStep
<1>5. CASE (\E g \in Groups : SyncGroup(g)) \/ DeadlinePasses \/ UNCHANGED vars
  BY <1>5, WorldStep
<1>6. CASE ChangeSecret
  BY <1>6, ChangeSecretStep
<1> QED BY <1>1, <1>2, <1>3, <1>4, <1>5, <1>6 DEF Next

LEMMA DeliveredOnce ==
    ASSUME CatalogInv
    PROVE  OrderIsDeliveredOnce
<1>1. ASSUME NEW x \in answers
      PROVE  \E i \in DOMAIN batches : AnswerOf(x, i)
  BY DEF CatalogInv, Answered
<1>2. ASSUME NEW x \in answers, NEW y \in answers, x.kind = "codes", y.kind = "codes"
      PROVE  IF x.order = y.order /\ x.order # None THEN x.codes = y.codes
             ELSE x = y \/ x.codes \cap y.codes = {}
  <2>1. PICK i \in DOMAIN batches : AnswerOf(x, i)
    BY <1>1
  <2>2. PICK j \in DOMAIN batches : AnswerOf(y, j)
    BY <1>1
  <2>3. /\ x.order = batches[i].order /\ x.codes = batches[i].stored
        /\ y.order = batches[j].order /\ y.codes = batches[j].stored
    BY <1>2, <2>1, <2>2 DEF AnswerOf
  <2>4. CASE x.order = y.order /\ x.order # None
    BY <2>3, <2>4 DEF CatalogInv, OneBatch
  <2>5. CASE i # j
    BY <2>3, <2>5 DEF CatalogInv, OneBatch, Stored
  <2>6. CASE i = j /\ x.order = None
    BY <1>2, <2>3, <2>6 DEF CatalogInv, Answered
  <2> QED BY <2>3, <2>4, <2>5, <2>6
<1>3. ASSUME NEW x \in answers
      PROVE  /\ x.kind # "failed"
             /\ x.kind = "exists" =>
                   \E i \in DOMAIN batches : batches[i].order = x.order /\ batches[i].secret # x.key
  BY <1>1 DEF AnswerOf
<1> QED BY <1>2, <1>3 DEF OrderIsDeliveredOnce

LEMMA AsSold ==
    ASSUME CatalogInv
    PROVE  RedeemedAsSold
<1>1. ASSUME NEW x \in answers, NEW c \in x.codes
      PROVE  /\ batches[codes[c].batch].product = x.product
             /\ batches[codes[c].batch].edit = x.edit => codes[c].terms = x.terms
  <2>1. PICK i \in DOMAIN batches : AnswerOf(x, i)
    BY DEF CatalogInv, Answered
  <2>2. x.codes = batches[i].stored /\ x.product = batches[i].product
    BY <1>1, <2>1 DEF AnswerOf
  <2>3. c \in DOMAIN codes /\ codes[c].batch = i
    BY <1>1, <2>2, CatalogTypes, CatalogRows DEF CatalogInv, Stored
  <2>4. Says(batches[i].product, batches[i].edit, codes[c].terms)
    BY <2>3 DEF Says
  <2>5. Says(x.product, x.edit, x.terms)
    BY DEF Says
  <2>6. batches[i].edit = x.edit => codes[c].terms = x.terms
    BY <2>2, <2>4, <2>5 DEF CatalogInv, History
  <2> QED BY <2>2, <2>3, <2>6
<1>2. \A r \in redeemed : /\ r \in [code : DOMAIN codes, terms : Offers]
                          /\ codes[r.code].status = "used" /\ r.terms = codes[r.code].terms
  BY DEF CatalogInv, Spent
<1>3. \A r, q \in redeemed : q.code = r.code => q = r
  BY <1>2
<1>4. ASSUME NEW r \in redeemed, NEW x \in answers, r.code \in x.codes,
             x.edit = batches[codes[r.code].batch].edit
      PROVE  r.terms = x.terms
  <2>1. codes[r.code].terms = x.terms
    BY <1>1, <1>4
  <2> QED BY <1>2, <2>1
<1> QED BY <1>1, <1>2, <1>3, <1>4 DEF RedeemedAsSold

\* The invariant of the catalog holds in every state.
THEOREM CatalogInvariance ==
    Spec => []CatalogInv
<1>1. Init => CatalogInv
  BY CatalogInit
<1>2. CatalogInv /\ [Next]_vars => CatalogInv'
  BY CatalogStep
<1> QED BY <1>1, <1>2, PTL DEF Spec

\* Rows, requests and locks of the catalog keep their types for any number of requests in
\* progress, and a lock is held only inside a transaction (lockRedeemOrderRef).
THEOREM CatalogTypeCorrect ==
    Spec => []TypeOK
<1>1. CatalogInv => TypeOK
  BY DEF CatalogInv
<1> QED BY <1>1, CatalogInvariance, PTL

\* CreateRedeemCodes delivers an order once, whatever requests race for it, however they write
\* its reference, and whichever of them die.
THEOREM OrderIsAlwaysDeliveredOnce ==
    Spec => []OrderIsDeliveredOnce
<1>1. CatalogInv => OrderIsDeliveredOnce
  BY DeliveredOnce
<1> QED BY <1>1, CatalogInvariance, PTL

\* Codes are sold and redeemed on the terms they were made on, through any number of edits.
THEOREM AlwaysRedeemedAsSold ==
    Spec => []RedeemedAsSold
<1>1. CatalogInv => RedeemedAsSold
  BY AsSold
<1> QED BY <1>1, CatalogInvariance, PTL

\* DisableRedeemBatch leaves no code of a disabled batch that can be redeemed.
THEOREM DisabledBatchStaysDead ==
    Spec => []DisabledBatchIsDead
<1>1. CatalogInv => DisabledBatchIsDead
  BY DEF CatalogInv
<1> QED BY <1>1, CatalogInvariance, PTL
=============================================================================
