----------------------------- MODULE MCBackups -----------------------------
(* A small instance of Backups for TLC. *)
EXTENDS Backups, TLC

\* keep the newest backup
KeepOne == {[retain |-> 1, days |-> FALSE]}

\* the servers are interchangeable
Symmetry == Permutations(Servers)
=============================================================================
