--------------------------- MODULE MCLoginGuards ---------------------------
(* A small instance of LoginGuards for TLC. *)
EXTENDS LoginGuards, TLC

\* limits of one or two, as low as the rules allow
SmallLimits == [s \in Scopes |-> IF s \in {"fail.pair", "admin.pair", "register.pair"} THEN 1 ELSE 2]
=============================================================================
