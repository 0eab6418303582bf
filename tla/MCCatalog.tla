----------------------------- MODULE MCCatalog -----------------------------
(***************************************************************************)
(* An instance of Catalog for TLC: the references r1 and R1 mean one order,*)
(* and the offers are of both kinds, with a group and without.             *)
(***************************************************************************)
EXTENDS Catalog, TLC

CONSTANTS a1, a2, p1, p2, g1, r1, R1

MCAdmins == {a1, a2}
MCProducts == {p1, p2}
MCGroups == {g1}
MCRefs == {r1, R1}
MCFold(ref) == r1
MCOrders == {r1}
MCOnSale == {p1}
MCForms == {[ref |-> r1, count |-> 2, deadline |-> FALSE],
            [ref |-> R1, count |-> 2, deadline |-> FALSE],
            [ref |-> None, count |-> 1, deadline |-> TRUE]}
MCOffers == {[benefit |-> "balance", value |-> 1, days |-> 0, group |-> None],
             [benefit |-> "subscription", value |-> 0, days |-> 30, group |-> g1]}
\* the requests are interchangeable
Symmetric == Permutations(MCAdmins)
=============================================================================
