--------------------------- MODULE MCRedemptionSync ---------------------------
(* Small instances of RedemptionSync for TLC. *)
EXTENDS RedemptionSync, TLC

\* users are interchangeable
Symmetry == Permutations(Users)
=============================================================================
