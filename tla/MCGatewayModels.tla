-------------------------- MODULE MCGatewayModels --------------------------
(***************************************************************************)
(* An instance of GatewayModels for TLC.  In the first world a wildcard    *)
(* and a name price one model, a model is mapped to another one, a later   *)
(* channel lists a model without a price and an account is in a group of   *)
(* another platform; in the second a group is gone and one is inactive,    *)
(* and the channels come in another order; in the third there are no       *)
(* groups.                                                                 *)
(***************************************************************************)
EXTENDS GatewayModels, TLC

CONSTANTS a1, a2, g1, g2, m1, m2, m3, w, x, y, z

MCMatches(wild, m) == m \in {m1, m2}

Group(type, platform, status) == [type |-> type, platform |-> platform, status |-> status]
Account(id, status, schedulable, ms) ==
    [id |-> id, status |-> status, schedulable |-> schedulable, platform |-> "pa",
     groups |-> {g1, g2}, models |-> ms]
Entry(platform, ms, ws, price) ==
    [platform |-> platform, models |-> ms, wilds |-> ws, price |-> price]
Mapping(source, target) == [platform |-> "pa", source |-> source, target |-> target]
Channel(id, gs, mapping, pricing) ==
    [id |-> id, status |-> "active", groups |-> gs, mapping |-> mapping, pricing |-> pricing]

First == Channel(1, {g1}, {Mapping(m3, m1), Mapping(w, m1)},
                 <<Entry("pa", {}, {w}, x), Entry("pa", {m1}, {}, y)>>)
Second == Channel(2, {g1, g2}, {Mapping(m1, m3)}, <<Entry("pb", {m2}, {}, z)>>)

MCWorlds ==
    {[groups |-> g1 :> Group("standard", "pa", "active") @@ g2 :> Group("standard", "pb", "active"),
      accounts |-> {Account(1, "active", TRUE, {m1, m2}), Account(2, "active", FALSE, {m3})},
      channels |-> <<First, Second>>],
     [groups |-> g1 :> Group("standard", "pa", "active"),
      accounts |-> {Account(1, "inactive", TRUE, {m1, m2}), Account(2, "active", TRUE, {m2, m3})},
      channels |-> <<Second, First>>],
     [groups |-> <<>>, accounts |-> {}, channels |-> <<First>>]}

MCAdmins == {a1, a2}
MCGroups == {g1, g2}
MCModels == {m1, m2, m3}
None2 == [models |-> <<>>, default |-> None]
MCConfigs == {[q1 |-> [models |-> <<m1, m2>>, default |-> m2], q2 |-> None2],
              [q1 |-> [models |-> <<m3>>, default |-> m1], q2 |-> [models |-> <<m2>>, default |-> None]]}
MCTraffic == {{"models", "groups"}, {"models", "config", "provider"},
              {"purposes", "config", "provider"}, {"group", "groups", "config"}}
Symmetric == Permutations(MCAdmins)
=============================================================================
