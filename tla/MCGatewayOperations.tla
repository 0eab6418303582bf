------------------------- MODULE MCGatewayOperations -------------------------
(* Small instances of GatewayOperations for TLC. *)
EXTENDS GatewayOperations, TLC

\* workers differ only in the identifier written to locked_by
Symmetry == Permutations(Workers)
=============================================================================
