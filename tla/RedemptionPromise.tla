-------------------------- MODULE RedemptionPromise --------------------------
(***************************************************************************)
(* What redeeming a code promises, without saying how: an open code goes   *)
(* to at most one user, once it is taken or disabled it is closed for      *)
(* good, and its value reaches the gateway account of that user and of     *)
(* nobody else, at most once.                                              *)
(***************************************************************************)
EXTENDS Integers

CONSTANTS
    Codes,    \* redeem codes
    Users,    \* users
    Nobody    \* not a user

VARIABLES
    owner,    \* code -> the user who redeemed it, or Nobody
    closed,   \* codes an administrator has disabled
    credit    \* user, code -> how often the code's value was credited

promiseVars == <<owner, closed, credit>>

PromiseInit ==
    /\ owner = [c \in Codes |-> Nobody]
    /\ closed = {}
    /\ credit = [u \in Users |-> [c \in Codes |-> 0]]

Take(c, u) ==
    /\ owner[c] = Nobody /\ c \notin closed
    /\ owner' = [owner EXCEPT ![c] = u]
    /\ UNCHANGED <<closed, credit>>

Close(c) ==
    /\ owner[c] = Nobody
    /\ closed' = closed \cup {c}
    /\ UNCHANGED <<owner, credit>>

Pay(c, u) ==
    /\ owner[c] = u /\ credit[u][c] = 0
    /\ credit' = [credit EXCEPT ![u][c] = 1]
    /\ UNCHANGED <<owner, closed>>

PromiseNext ==
    \E c \in Codes : Close(c) \/ \E u \in Users : Take(c, u) \/ Pay(c, u)

Promise == PromiseInit /\ [][PromiseNext]_promiseVars
=============================================================================
