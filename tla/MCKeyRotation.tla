---------------------------- MODULE MCKeyRotation ----------------------------
(* Small instances of KeyRotation for TLC. *)
EXTENDS KeyRotation, TLC

\* keys, groups and requests are interchangeable
Symmetry == Permutations(Keys) \cup Permutations(Groups) \cup Permutations(Requests)
=============================================================================
