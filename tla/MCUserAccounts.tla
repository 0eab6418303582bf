--------------------------- MODULE MCUserAccounts ---------------------------
(***************************************************************************)
(* An instance of UserAccounts for TLC.                                    *)
(***************************************************************************)
EXTENDS UserAccounts, TLC

CONSTANTS h1, h2, k1

MCHandlers == {h1, h2}
MCKeys == {k1}
MCTraffic == {{"status", "level", "sync", "delete"}, {"level", "grant"}, {"status", "grant"},
              {"grant", "redeem", "sync", "delete"}}
Symmetric == Permutations(MCHandlers)
=============================================================================
