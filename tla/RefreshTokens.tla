---------------------------- MODULE RefreshTokens ----------------------------
(***************************************************************************)
(* Refresh token rotation.  A login opens a family with one active token;  *)
(* a refresh rotates the token it presents: in one transaction it inserts  *)
(* the replacement and marks the old row rotated.  A refresh that presents *)
(* a rotated token is taken for a replay and revokes the family's active   *)
(* tokens.                                                                 *)
(*                                                                         *)
(* Transactions run under PostgreSQL's READ COMMITTED.  FOR UPDATE waits   *)
(* for the row lock and then reads the committed row.  An UPDATE chooses   *)
(* its rows from the state committed when it starts, waits for the lock of *)
(* each, and checks its WHERE clause again on the row it then finds; rows  *)
(* committed meanwhile are not in its choice.                              *)
(***************************************************************************)
EXTENDS Integers, FiniteSets

CONSTANTS
    Tokens,     \* refresh tokens
    Families,   \* login sessions
    Requests,   \* refresh requests
    None        \* no token, no family, no lock holder

ASSUME NoneAssumption == None \notin Tokens \cup Families \cup Requests

VARIABLES
    token,      \* the committed rows of refresh_tokens
    lock,       \* token -> the request whose transaction holds the row lock
    tx,         \* what each request is doing
    aged,       \* tokens past their expires_at
    inactive,   \* families whose user is disabled
    replayed    \* history: families whose reuse was detected and committed

vars == <<token, lock, tx, aged, inactive, replayed>>

Row == [status : {"unissued", "active", "rotated", "revoked", "expired"},
        family : Families \cup {None}]

\* pc of a refresh:
\*   idle     not there
\*   waiting  about to SELECT the presented token FOR UPDATE
\*   issuing  about to insert the replacement
\*   rotating about to mark the presented token rotated and commit
\*   expiring about to mark it expired and commit
\*   reuse    about to start the UPDATE that revokes the family
\*   revoking locking the rows that UPDATE has chosen
Tx == [pc : {"idle", "waiting", "issuing", "rotating", "expiring", "reuse", "revoking"},
       token : Tokens \cup {None}, new : Tokens \cup {None},
       chosen : SUBSET Tokens, marked : SUBSET Tokens]

NoTx == [pc |-> "idle", token |-> None, new |-> None, chosen |-> {}, marked |-> {}]

Init ==
    /\ token = [t \in Tokens |-> [status |-> "unissued", family |-> None]]
    /\ lock = [t \in Tokens |-> None]
    /\ tx = [r \in Requests |-> NoTx]
    /\ aged = {}
    /\ inactive = {}
    /\ replayed = {}

ActiveIn(f) == {t \in Tokens : token[t].family = f /\ token[t].status = "active"}
Issued(t) == token[t].status # "unissued"
FamilyOf(r) == token[tx[r].token].family

\* a token no transaction is about to insert: identifiers are random
Unused(t) == ~Issued(t) /\ \A r \in Requests : tx[r].new # t

-----------------------------------------------------------------------------
\* Register and Login: issueTokenPair opens a family; the user's status was read before
\* the password was compared, and may have changed since
IssueTokenPair(f, t) ==
    /\ Unused(t)
    /\ \A u \in Tokens : token[u].family # f
    /\ token' = [token EXCEPT ![t] = [status |-> "active", family |-> f]]
    /\ UNCHANGED <<lock, tx, aged, inactive, replayed>>

\* a client sends any token it was ever given, now or late
Refresh(r, t) ==
    /\ tx[r].pc = "idle"
    /\ Issued(t)
    /\ tx' = [tx EXCEPT ![r] = [NoTx EXCEPT !.pc = "waiting", !.token = t]]
    /\ UNCHANGED <<token, lock, aged, inactive, replayed>>

\* where rotateRefreshToken goes on with the row it has locked
Verdict(t) ==
    CASE token[t].status = "rotated" -> "reuse"
      [] token[t].status \in {"revoked", "expired"} -> "idle"
      [] token[t].status = "active" /\ t \in aged -> "expiring"
      [] token[t].status = "active" /\ t \notin aged ->
           IF token[t].family \in inactive THEN "idle" ELSE "issuing"

\* mutant: the row is read without FOR UPDATE
ReadToken(r) ==
    LET t == tx[r].token IN
    /\ tx[r].pc = "waiting"
    /\ tx' = [tx EXCEPT ![r] = IF Verdict(t) = "idle" THEN NoTx ELSE [@ EXCEPT !.pc = Verdict(t)]]
    /\ UNCHANGED <<token, lock, aged, inactive, replayed>>

\* SELECT ... FOR UPDATE; a refused request rolls back at once
LockToken(r) ==
    LET t == tx[r].token IN
    /\ tx[r].pc = "waiting"
    /\ lock[t] = None
    /\ IF Verdict(t) = "idle"
         THEN tx' = [tx EXCEPT ![r] = NoTx] /\ UNCHANGED lock
         ELSE tx' = [tx EXCEPT ![r].pc = Verdict(t)] /\ lock' = [lock EXCEPT ![t] = r]
    /\ UNCHANGED <<token, aged, inactive, replayed>>

\* mutant: an aborted transaction keeps its row locks
KeepLocks(r) == UNCHANGED lock

\* the end of a transaction
Release(r) == lock' = [t \in Tokens |-> IF lock[t] = r THEN None ELSE lock[t]]
End(r) == Release(r) /\ tx' = [tx EXCEPT ![r] = NoTx]

\* the replacement is inserted; nobody else sees it before the commit
InsertReplacement(r, n) ==
    /\ tx[r].pc = "issuing"
    /\ Unused(n)
    /\ tx' = [tx EXCEPT ![r].pc = "rotating", ![r].new = n]
    /\ UNCHANGED <<token, lock, aged, inactive, replayed>>

\* UPDATE ... WHERE id = $1 AND status = 'active', and the commit
Rotate(r) ==
    /\ tx[r].pc = "rotating"
    /\ token' = [token EXCEPT ![tx[r].token].status = IF @ = "active" THEN "rotated" ELSE @,
                              ![tx[r].new] = [status |-> "active", family |-> FamilyOf(r)]]
    /\ End(r)
    /\ UNCHANGED <<aged, inactive, replayed>>

Expire(r) ==
    /\ tx[r].pc = "expiring"
    /\ token' = [token EXCEPT ![tx[r].token].status = "expired"]
    /\ End(r)
    /\ UNCHANGED <<aged, inactive, replayed>>

\* UPDATE ... WHERE family_id = $1 AND status = 'active' chooses its rows
ChooseActive(r) ==
    /\ tx[r].pc = "reuse"
    /\ tx' = [tx EXCEPT ![r].pc = "revoking", ![r].chosen = ActiveIn(FamilyOf(r))]
    /\ UNCHANGED <<token, lock, aged, inactive, replayed>>

\* ... locks them one by one, and passes over one that is no longer active
LockChosen(r, t) ==
    /\ tx[r].pc = "revoking"
    /\ t \in tx[r].chosen
    /\ lock[t] = None
    /\ IF token[t].status = "active"
         THEN /\ lock' = [lock EXCEPT ![t] = r]
              /\ tx' = [tx EXCEPT ![r].chosen = @ \ {t}, ![r].marked = @ \cup {t}]
         ELSE /\ tx' = [tx EXCEPT ![r].chosen = @ \ {t}]
              /\ UNCHANGED lock
    /\ UNCHANGED <<token, aged, inactive, replayed>>

RevokeFamily(r) ==
    /\ tx[r].pc = "revoking" /\ tx[r].chosen = {}
    /\ token' = [t \in Tokens |-> IF t \in tx[r].marked
                                    THEN [token[t] EXCEPT !.status = "revoked"] ELSE token[t]]
    /\ replayed' = replayed \cup {FamilyOf(r)}
    /\ End(r)
    /\ UNCHANGED <<aged, inactive>>

\* a statement or the commit fails, or the client disconnects: rollback
Abort(r) ==
    /\ tx[r].pc # "idle"
    /\ End(r)
    /\ UNCHANGED <<token, aged, inactive, replayed>>

\* revokeRefreshToken: one statement, which waits for the row lock
Logout(t) ==
    /\ token[t].status = "active" /\ lock[t] = None
    /\ token' = [token EXCEPT ![t].status = "revoked"]
    /\ UNCHANGED <<lock, tx, aged, inactive, replayed>>

\* thirty days pass
Ages(t) ==
    /\ Issued(t) /\ t \notin aged
    /\ aged' = aged \cup {t}
    /\ UNCHANGED <<token, lock, tx, inactive, replayed>>

\* an administrator disables or enables the family's user
SetUserStatus(f) ==
    /\ inactive' = IF f \in inactive THEN inactive \ {f} ELSE inactive \cup {f}
    /\ UNCHANGED <<token, lock, tx, aged, replayed>>

-----------------------------------------------------------------------------
Statement(r) ==
    \/ LockToken(r) \/ Rotate(r) \/ Expire(r) \/ ChooseActive(r) \/ RevokeFamily(r)
    \/ \E t \in Tokens : InsertReplacement(r, t) \/ LockChosen(r, t)

Next ==
    \/ \E f \in Families : SetUserStatus(f) \/ \E t \in Tokens : IssueTokenPair(f, t)
    \/ \E t \in Tokens : Logout(t) \/ Ages(t)
    \/ \E r \in Requests : \/ Statement(r) \/ Abort(r)
                           \/ \E t \in Tokens : Refresh(r, t)

Spec == Init /\ [][Next]_vars

\* The database runs the statements it is sent and grants a lock that is
\* free again and again to every transaction that waits for it; a request
\* whose replacement cannot be inserted is rolled back.
Fairness == \A r \in Requests : /\ SF_vars(Statement(r))
                                /\ WF_vars(tx[r].pc = "issuing" /\ Abort(r))
FairSpec == Spec /\ Fairness

-----------------------------------------------------------------------------
TypeOK ==
    /\ token \in [Tokens -> Row]
    /\ lock \in [Tokens -> Requests \cup {None}]
    /\ tx \in [Requests -> Tx]
    /\ aged \subseteq Tokens
    /\ inactive \subseteq Families
    /\ replayed \subseteq Families

\* However refreshes, replays and logouts interleave, a login session never
\* has two refresh tokens that work: a rotation cannot fork the session.
OneActivePerFamily ==
    \A s, t \in Tokens :
        /\ token[s].status = "active" /\ token[t].status = "active"
        /\ token[s].family = token[t].family
        => s = t

\* A token that was rotated, revoked or expired keeps that status and its
\* session for good: it never works again, and a rotated one is still known
\* as rotated when it is replayed, even after a logout that presents it.
SettledTokensRest ==
    [][\A t \in Tokens :
         Issued(t) /\ token[t].status # "active" => token'[t] = token[t]]_vars

\* A session none of whose tokens works stays closed: no rotation that was
\* under way when the logout or the revocation committed opens it again.
ClosedSessionStaysClosed ==
    [][\A f \in Families :
         (\E t \in Tokens : token[t].family = f) /\ ActiveIn(f) = {} => ActiveIn(f)' = {}]_vars

\* Two transactions never wait for each other's rows: every refresh ends.
EveryRefreshEnds == \A r \in Requests : tx[r].pc # "idle" ~> tx[r].pc = "idle"

\* docs/implementation-plan.md:652 "Reuse of a previously rotated refresh
\* token revokes the remaining active tokens in that login session family."
ReuseRevokesFamily == \A f \in replayed : ActiveIn(f) = {}
=============================================================================
