------------------------- MODULE MCGatewayCredential -------------------------
(* Small instances of GatewayCredential for TLC. *)
EXTENDS GatewayCredential, TLC

\* one API server and one worker
Placement == [p \in Procs |-> IF p \in Workers THEN "worker" ELSE "api"]

\* keys and requests are interchangeable
Symmetry == Permutations(Keys) \cup Permutations(Requests)
=============================================================================
