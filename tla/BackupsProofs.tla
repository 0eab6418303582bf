---------------------------- MODULE BackupsProofs ----------------------------
(***************************************************************************)
(* The backup centre, for every number of servers, records and seconds.    *)
(*                                                                         *)
(* What makes a completed record restorable is true of every statement     *)
(* that it is completed: the row of the table, but also the rows inside    *)
(* the dumps, which a restore brings back, and the copies a restore holds  *)
(* and writes at its end.  Claimed says so of all of them, and that none   *)
(* is about a record whose dump is still being made.                       *)
(***************************************************************************)
EXTENDS Backups, Integers, FiniteSetTheorems, WellFoundedInduction, TLAPS

Making == {"dump", "digest", "upload", "finish"}

Made == {"load", "persist", "undone"}

\* The records whose dump was taken.
Dumps == {k \in Ids : snap[k] \in Database}

Records ==
    /\ \A i \in Ids : names[i] # None <=> i < next
    /\ \A t \in Seconds : file[t] # None => file[t] \in Dumps /\ names[file[t]] = t
    /\ \A t \in Seconds : object[t] # None => object[t] \in Dumps
    /\ del # None => del.id \in deleted

\* What the fields of an operation hold at each step of it, when n is the next record and D are
\* the dumps.
Shaped(o, n, D) ==
    /\ o.rec # None => o.rec < n /\ o.recRow \in Row /\ o.recRow.status = "completed"
    /\ o.rec # None => o.rec # o.id
    /\ o.temp # None => o.temp \in D
    /\ o.pc = "source" => o.rec # None /\ o.id = None
    /\ o.pc # "source" => o.id \in Ids /\ o.id < n /\ o.row \in Row /\ o.row.restore = "none"
    /\ o.pc \in Making => o.row.status = "running"
    /\ o.pc \in Made => o.rec # None /\ o.row.status = "completed"
    /\ o.pc \notin {"source", "dump"} => o.row.path

Operations ==
    /\ \A s \in Servers : op[s] # None => Shaped(op[s], next, Dumps)
    /\ \A s, t \in Servers :
          op[s] # None /\ op[t] # None /\ op[s].id = op[t].id => s = t \/ op[s].id = None

Exclusive == split \/ \A s \in Servers : op[s] # None => lock = s

\* Who answers for a row whose dump, or whose restore, is in progress.
Maker(i) == \/ \E s \in Servers : op[s] # None /\ op[s].id = i /\ op[s].pc \in Making
            \/ up # Servers \/ i \in stray

Restorer(i) == \/ \E s \in Servers : op[s] # None /\ op[s].rec = i
               \/ up # Servers \/ i \in stray

Owned == \A i \in Ids : db.rows[i] # None =>
            /\ db.rows[i].status = "running" => Maker(i)
            /\ db.rows[i].restore = "running" => Restorer(i)

Verified ==
    \A s \in Servers : op[s] # None /\ op[s].rec # None /\ op[s].pc \in Making \cup {"load"} =>
       \/ Source(s) = None \/ Source(s) = op[s].recRow.sha
       \/ names[op[s].id] = names[op[s].rec] \/ split

\* The dump a row says its file holds, and whether that is so of record i.
DumpOf(r) == IF r.path THEN r.sha ELSE None

Good(i, h) == i \in deleted \/ ~Alone(i) \/ (h = i /\ file[names[i]] = i)

Done(rows, i, h) == rows[i] # None /\ rows[i].status = "completed" /\ h = DumpOf(rows[i])

\* What says that record i is completed: the table, dumps of it, and the copies of rows that
\* servers hold.
Claims(i, h) ==
    \/ i \in Ids /\ Done(db.rows, i, h)
    \/ i \in Ids /\ \E k \in Dumps : Done(snap[k].rows, i, h)
    \/ \E s \in Servers : /\ op[s] # None /\ op[s].rec # None
                          /\ i = op[s].rec /\ h = DumpOf(op[s].recRow)
    \/ \E s \in Servers : /\ op[s] # None /\ op[s].pc \in Made
                          /\ i = op[s].id /\ h = DumpOf(op[s].row)

Pending(i) == \E s \in Servers : op[s] # None /\ op[s].pc \in Making /\ i = op[s].id

Claimed == \A i, h : Claims(i, h) => i \in Ids /\ i < next /\ Good(i, h) /\ ~Pending(i)

Dumped ==
    \A s \in Servers : op[s] # None =>
       /\ op[s].pc = "digest" => Good(op[s].id, op[s].id)
       /\ op[s].pc \in {"upload", "finish"} => Good(op[s].id, DumpOf(op[s].row))

BackupInv ==
    TypeOK /\ Records /\ Operations /\ Exclusive /\ Owned /\ Verified /\ Claimed /\ Dumped

-----------------------------------------------------------------------------
\* Rows that are written into the table.
Table == [Ids -> Row \cup {None}]

RestoreStates == {"none", "running", "completed", "failed"}

LEMMA RowsWritten ==
    ASSUME NEW d \in Database, NEW R \in Table
    PROVE  /\ [d EXCEPT !.rows = R] \in Database /\ [d EXCEPT !.rows = R].rows = R
           /\ [d EXCEPT !.rows = R].s3 = d.s3
BY DEF Table, Database

LEMMA RestoreWritten ==
    ASSUME NEW r \in Row, NEW v \in RestoreStates
    PROVE  /\ [r EXCEPT !.restore = v] \in Row /\ [r EXCEPT !.restore = v].restore = v
           /\ [r EXCEPT !.restore = v].status = r.status
           /\ DumpOf([r EXCEPT !.restore = v]) = DumpOf(r)
BY DEF Row, RestoreStates, DumpOf

LEMMA StatusWritten ==
    ASSUME NEW r \in Row, NEW v \in {"running", "completed", "failed"}
    PROVE  /\ [r EXCEPT !.status = v] \in Row /\ [r EXCEPT !.status = v].status = v
           /\ [r EXCEPT !.status = v].restore = r.restore
           /\ [r EXCEPT !.status = v].path = r.path
           /\ DumpOf([r EXCEPT !.status = v]) = DumpOf(r)
BY DEF Row, DumpOf

LEMMA NewRowIsRow ==
    /\ NewRow \in Row /\ NewRow.status = "running" /\ NewRow.restore = "none"
<1>1. PICK no \in BOOLEAN : no = FALSE
  BY Zenon
<1>2. NewRow = [status |-> "running", restore |-> "none", path |-> no, sha |-> None, key |-> no]
  BY <1>1 DEF NewRow
<1>3. [status |-> "running", restore |-> "none", path |-> no, sha |-> None, key |-> no] \in Row
  BY <1>1 DEF Row
<1> QED BY <1>2, <1>3

\* updateBackupRecord
LEMMA RecordUpdated ==
    ASSUME NEW rows \in Table, NEW i \in Ids, NEW r \in Row
    PROVE  /\ UpdateBackupRecord(rows, i, r) \in Table
           /\ \A j \in Ids :
                 /\ UpdateBackupRecord(rows, i, r)[j] = None <=> rows[j] = None
                 /\ j # i => UpdateBackupRecord(rows, i, r)[j] = rows[j]
           /\ rows[i] # None =>
                 /\ UpdateBackupRecord(rows, i, r)[i].status = r.status
                 /\ UpdateBackupRecord(rows, i, r)[i].restore = rows[i].restore
                 /\ DumpOf(UpdateBackupRecord(rows, i, r)[i]) = DumpOf(r)
<1>1. CASE rows[i] = None
  BY <1>1 DEF UpdateBackupRecord
<1>2. CASE rows[i] # None
  <2> DEFINE q == [r EXCEPT !.restore = rows[i].restore]
             R == [rows EXCEPT ![i] = q]
  <2>1. rows[i].restore \in RestoreStates
    BY <1>2 DEF Table, Row, RestoreStates
  <2>2. /\ q \in Row /\ q.restore = rows[i].restore /\ q.status = r.status
        /\ DumpOf(q) = DumpOf(r)
    BY <2>1, RestoreWritten
  <2>3. q # None
    BY BackupAssumption, <2>2
  <2>4. UpdateBackupRecord(rows, i, r) = R
    BY <1>2 DEF UpdateBackupRecord
  <2> HIDE DEF q
  <2>5. R \in Table /\ R[i] = q /\ \A j \in Ids : j # i => R[j] = rows[j]
    BY <2>2 DEF Table
  <2> HIDE DEF R
  <2> QED BY <1>2, <2>2, <2>3, <2>4, <2>5
<1> QED BY <1>1, <1>2

\* updateRestoreState
LEMMA StateUpdated ==
    ASSUME NEW rows \in Table, NEW i \in Ids,
           NEW v \in RestoreStates
    PROVE  /\ UpdateRestoreState(rows, i, v) \in Table
           /\ \A j \in Ids :
                 /\ UpdateRestoreState(rows, i, v)[j] = None <=> rows[j] = None
                 /\ j # i => UpdateRestoreState(rows, i, v)[j] = rows[j]
           /\ rows[i] # None =>
                 /\ UpdateRestoreState(rows, i, v)[i].status = rows[i].status
                 /\ UpdateRestoreState(rows, i, v)[i].restore = v
                 /\ DumpOf(UpdateRestoreState(rows, i, v)[i]) = DumpOf(rows[i])
<1>1. CASE rows[i] = None
  BY <1>1 DEF UpdateRestoreState
<1>2. CASE rows[i] # None
  <2> DEFINE q == [rows[i] EXCEPT !.restore = v]
             R == [rows EXCEPT ![i] = q]
  <2>1. rows[i] \in Row
    BY <1>2 DEF Table
  <2>2. /\ q \in Row /\ q.restore = v /\ q.status = rows[i].status
        /\ DumpOf(q) = DumpOf(rows[i])
    BY <2>1, RestoreWritten
  <2>3. q # None
    BY BackupAssumption, <2>2
  <2>4. UpdateRestoreState(rows, i, v) = R
    BY <1>2 DEF UpdateRestoreState, Table
  <2> HIDE DEF q
  <2>5. R \in Table /\ R[i] = q /\ \A j \in Ids : j # i => R[j] = rows[j]
    BY <2>2 DEF Table
  <2> HIDE DEF R
  <2> QED BY <1>2, <2>2, <2>3, <2>4, <2>5
<1> QED BY <1>1, <1>2

-----------------------------------------------------------------------------
(* What a step leaves of each part.                                        *)

\* The types of the variables.
LEMMA BackupTypes ==
    ASSUME BackupInv
    PROVE  /\ db \in Database /\ db.rows \in Table /\ snap \in [Ids -> Database \cup {None}]
           /\ file \in [Seconds -> Ids \cup {None}] /\ object \in [Seconds -> Ids \cup {None}]
           /\ names \in [Ids -> Seconds \cup {None}]
           /\ next \in 1..(MaxBackups + 1) /\ next \in Nat /\ now \in Seconds
           /\ op \in [Servers -> Operation \cup {None}]
           /\ up \subseteq Servers /\ lock \in Servers \cup {None}
           /\ del \in [id : Ids, row : Row, removed : BOOLEAN] \cup {None}
           /\ deleted \subseteq Ids /\ stray \subseteq Ids /\ split \in BOOLEAN
           /\ faults \in 0..MaxFaults /\ edits \in 0..MaxEdits
           /\ Ids \subseteq Nat /\ None \notin Ids /\ None \notin Servers /\ None \notin Seconds
           /\ None \notin Row /\ None \notin Operation
<1>1. db \in Database /\ db.rows \in Table
  BY DEF BackupInv, TypeOK, Database, Table
<1> QED BY BackupAssumption, <1>1 DEF BackupInv, TypeOK, Ids, Seconds

\* A record that exists has a name.
LEMMA Named ==
    ASSUME BackupInv, NEW i \in Ids, i < next
    PROVE  names[i] \in Seconds
BY BackupTypes DEF BackupInv, Records

\* A server that is at work, or gets the advisory lock, is alone unless a session was lost.
LEMMA OneOperation ==
    ASSUME BackupInv, NEW s \in Servers, op[s] # None \/ lock = None
    PROVE  split \/ \A t \in Servers : t # s => op[t] = None
BY BackupTypes DEF BackupInv, Exclusive

\* The operation of one server.
LEMMA OneMoves ==
    ASSUME BackupInv, NEW s \in Servers, NEW o \in Operation \cup {None},
           op' = [op EXCEPT ![s] = o]
    PROVE  /\ \A t \in Servers : op'[t] = IF t = s THEN o ELSE op[t]
           /\ op' \in [Servers -> Operation \cup {None}]
BY BackupTypes

LEMMA GoodStays ==
    ASSUME file' = file, names' = names, deleted \subseteq deleted', NEW i, NEW h, Good(i, h)
    PROVE  Good(i, h)'
BY DEF Good, Alone

\* A file that is written or removed for record j is that of no other record, unless the two
\* have one name.
LEMMA GoodBesides ==
    ASSUME BackupInv, NEW j \in Ids, j < next, NEW v,
           file' = [file EXCEPT ![names[j]] = v], names' = names, deleted' = deleted,
           NEW i \in Ids, i < next, i # j, NEW h, Good(i, h)
    PROVE  Good(i, h)'
<1>1. names[i] \in Seconds /\ names[j] \in Seconds
  BY Named
<1>2. CASE names[i] = names[j]
  BY <1>2 DEF Good, Alone
<1>3. CASE names[i] # names[j]
  <2>1. file'[names[i]] = file[names[i]]
    BY <1>1, <1>3, BackupTypes
  <2> QED BY <2>1 DEF Good, Alone
<1> QED BY <1>2, <1>3

\* Files are removed of records that count as deleted from then on.
LEMMA GoodUnlessDeleted ==
    ASSUME BackupInv, NEW S \in SUBSET Ids, NEW rows, RemoveFiles(S, rows),
           names' = names, deleted \subseteq deleted', S \subseteq deleted',
           NEW i \in Ids, i < next, NEW h, Good(i, h)
    PROVE  Good(i, h)'
<1>1. names[i] \in Seconds
  BY Named
<1>2. CASE \E j \in S : names[j] = names[i]
  BY <1>2 DEF Good, Alone
<1>3. CASE ~\E j \in S : names[j] = names[i]
  <2>1. file'[names[i]] = file[names[i]]
    BY <1>1, <1>3 DEF RemoveFiles
  <2> QED BY <2>1 DEF Good, Alone
<1> QED BY <1>2, <1>3

\* The name of a new record is that of no record before it, or both are no longer alone.
LEMMA GoodWhenCreated ==
    ASSUME BackupInv, next \in Ids, names' = [names EXCEPT ![next] = now],
           file' = file, deleted' = deleted,
           NEW i \in Ids, i < next, NEW h, Good(i, h)
    PROVE  Good(i, h)'
<1>1. names[i] \in Seconds /\ names'[i] = names[i] /\ names[next] = None
  <2>1. ~(next < next) /\ i # next
    BY BackupTypes
  <2> QED BY <2>1, Named, BackupTypes DEF BackupInv, Records
<1>2. ASSUME NEW j \in Ids, j # i, names[j] = names[i]
      PROVE  names'[j] = names'[i]
  <2>1. j # next
    BY <1>1, <1>2, BackupTypes
  <2> QED BY <1>1, <1>2, <2>1, BackupTypes
<1>3. ~Alone(i) => ~Alone(i)'
  BY <1>2 DEF Alone
<1> QED BY <1>1, <1>3 DEF Good

\* What operations hold stays in shape while records are only added.
LEMMA ShapedKept ==
    ASSUME NEW n \in Nat, NEW m \in Nat, n <= m, NEW D, NEW E, D \subseteq E,
           NEW o \in Operation, Shaped(o, n, D)
    PROVE  Shaped(o, m, E)
<1>1. Ids \subseteq Nat /\ None \notin Ids
  BY BackupAssumption DEF Ids
<1>2. /\ o.rec # None => o.rec < n
      /\ o.pc # "source" => o.id \in Ids /\ o.id < n
  BY Zenon DEF Shaped
<1>3. o.rec \in Ids \cup {None}
  BY DEF Operation
<1>4. \A k \in Ids : k < n => k < m
  BY <1>1
<1>5. /\ o.rec # None => o.rec < m
      /\ o.pc # "source" => o.id < m
  BY <1>2, <1>3, <1>4
<1> QED BY <1>5, Zenon DEF Shaped

LEMMA OperationsKept ==
    ASSUME BackupInv, next' \in Nat, next <= next', Dumps \subseteq Dumps',
           NEW s \in Servers, NEW o \in Operation \cup {None}, op' = [op EXCEPT ![s] = o],
           o # None => Shaped(o, next', Dumps'),
           o # None /\ o.id # None => \/ op[s] # None /\ o.id = op[s].id
                                      \/ ~(o.id < next)
    PROVE  Operations'
<1>1. \A t \in Servers : op'[t] = IF t = s THEN o ELSE op[t]
  BY OneMoves
<1>2. ASSUME NEW t \in Servers, op'[t] # None
      PROVE  Shaped(op'[t], next', Dumps')
  <2>1. CASE t = s
    BY <1>1, <1>2, <2>1
  <2>2. CASE t # s
    <3>1. op'[t] = op[t] /\ op[t] \in Operation /\ Shaped(op[t], next, Dumps)
      BY <1>1, <1>2, <2>2, BackupTypes DEF BackupInv, Operations
    <3> QED BY <3>1, ShapedKept, BackupTypes
  <2> QED BY <2>1, <2>2
<1>3. ASSUME NEW t \in Servers, op[t] # None, op[t].id # None
      PROVE  op[t].id < next
  <2>1. op[t] \in Operation /\ Shaped(op[t], next, Dumps)
    BY <1>3, BackupTypes DEF BackupInv, Operations
  <2> QED BY <1>3, <2>1 DEF Shaped
<1>4. ASSUME NEW t \in Servers, NEW u \in Servers, op'[t] # None, op'[u] # None,
             op'[t].id = op'[u].id, op'[t].id # None
      PROVE  t = u
  <2>1. \A v, w \in Servers :
           op[v] # None /\ op[w] # None /\ op[v].id = op[w].id => v = w \/ op[v].id = None
    BY DEF BackupInv, Operations
  <2> QED BY <1>1, <1>3, <1>4, <2>1
<1> QED BY <1>2, <1>4 DEF Operations

\* Files and objects only go, records stay.
LEMMA RecordsKept ==
    ASSUME BackupInv, names' = names, next' = next, snap' = snap,
           \A t \in Seconds : file'[t] = file[t] \/ file'[t] = None,
           \A t \in Seconds : object'[t] = object[t] \/ object'[t] = None,
           del' # None => del'.id \in deleted'
    PROVE  Records'
<1>1. Dumps' = Dumps
  BY DEF Dumps
<1> QED BY <1>1 DEF BackupInv, Records

\* A server that is at work keeps the lock until it is done.
LEMMA ExclusiveKept ==
    ASSUME BackupInv, NEW s \in Servers, op[s] # None, NEW o,
           \A t \in Servers : op'[t] = IF t = s THEN o ELSE op[t], split' = split,
           \/ lock' = lock
           \/ o = None /\ lock' = IF lock = s THEN None ELSE lock
    PROVE  Exclusive'
BY BackupTypes DEF BackupInv, Exclusive

LEMMA ExclusiveGained ==
    ASSUME BackupInv, NEW s \in Servers, lock = None, NEW o,
           \A t \in Servers : op'[t] = IF t = s THEN o ELSE op[t], split' = split, lock' = s
    PROVE  Exclusive'
BY OneOperation DEF Exclusive

\* Who answers for a row goes on to do so.
LEMMA MakerStays ==
    ASSUME NEW s, NEW o, \A t \in Servers : op'[t] = IF t = s THEN o ELSE op[t],
           up' = up, stray \subseteq stray', NEW i, Maker(i),
           s \in Servers /\ op[s] # None /\ op[s].id = i /\ op[s].pc \in Making =>
               i \in stray' \/ (o # None /\ o.id = i /\ o.pc \in Making)
    PROVE  Maker(i)'
BY DEF Maker

LEMMA RestorerStays ==
    ASSUME NEW s, NEW o, \A t \in Servers : op'[t] = IF t = s THEN o ELSE op[t],
           up' = up, stray \subseteq stray', NEW i, Restorer(i),
           s \in Servers /\ op[s] # None /\ op[s].rec = i => i \in stray' \/ (o # None /\ o.rec = i)
    PROVE  Restorer(i)'
BY DEF Restorer

\* A server that is at work, or gets the lock, need only look at its own source.
LEMMA VerifiedKept ==
    ASSUME BackupInv, NEW s \in Servers, op[s] # None \/ lock = None, NEW o,
           \A t \in Servers : op'[t] = IF t = s THEN o ELSE op[t], split' = split,
           o # None /\ o.rec # None /\ o.pc \in Making \cup {"load"} =>
               \/ LET source == IF o.temp # None THEN o.temp ELSE file'[names'[o.rec]]
                  IN  source = None \/ source = o.recRow.sha
               \/ names'[o.id] = names'[o.rec]
    PROVE  Verified'
<1>1. CASE split
  BY <1>1 DEF Verified
<1>2. CASE ~split
  <2>1. \A t \in Servers : t # s => op'[t] = None
    BY <1>2, OneOperation
  <2>2. op'[s] = o
    OBVIOUS
  <2> QED BY <2>1, <2>2 DEF Verified, Source, SourceOf, SourceName
<1> QED BY <1>1, <1>2

\* Files that only go do not change what is restored.
LEMMA VerifiedStays ==
    ASSUME BackupInv, names' = names, split' = split,
           \A t \in Servers : op'[t] = op[t] \/ op'[t] = None,
           \A t \in Seconds : file'[t] = file[t] \/ file'[t] = None
    PROVE  Verified'
<1> SUFFICES ASSUME NEW t \in Servers, op'[t] # None, op'[t].rec # None,
                    op'[t].pc \in Making \cup {"load"}
             PROVE  \/ Source(t)' = None \/ Source(t)' = op'[t].recRow.sha
                    \/ names'[op'[t].id] = names'[op'[t].rec] \/ split'
  BY DEF Verified
<1>1. op'[t] = op[t] /\ op[t] \in Operation /\ Shaped(op[t], next, Dumps)
  BY BackupTypes DEF BackupInv, Operations
<1>2. op[t].rec \in Ids /\ op[t].rec < next
  BY <1>1 DEF Shaped, Operation
<1>3. names[op[t].rec] \in Seconds
  BY <1>2, Named
<1>4. \/ Source(t) = None \/ Source(t) = op[t].recRow.sha
      \/ names[op[t].id] = names[op[t].rec] \/ split
  BY <1>1 DEF BackupInv, Verified
<1> QED BY <1>1, <1>3, <1>4 DEF Source, SourceOf, SourceName

\* Everything that says a record is completed did so before, except for one new claim (n, g).
LEMMA ClaimedKept ==
    ASSUME BackupInv, next' \in Nat, next <= next', NEW n, NEW g,
           \A i \in Ids : \A h : Done(db'.rows, i, h) =>
               Claims(i, h) \/ (n # None /\ i = n /\ h = g),
           \A k \in Dumps' : \A i \in Ids : \A h : Done(snap'[k].rows, i, h) =>
               Claims(i, h) \/ (n # None /\ i = n /\ h = g),
           NEW s, NEW o, \A t \in Servers : op'[t] = IF t = s THEN o ELSE op[t],
           o # None /\ o.rec # None => Claims(o.rec, DumpOf(o.recRow)),
           o # None /\ o.pc \in Made => \/ Claims(o.id, DumpOf(o.row))
                                        \/ n # None /\ o.id = n /\ DumpOf(o.row) = g,
           o # None /\ o.pc \in Making => Pending(o.id) \/ ~(o.id < next),
           \A i, h : Claims(i, h) => Good(i, h)',
           n # None => n \in Ids /\ n < next' /\ Good(n, g)' /\ ~Pending(n)'
    PROVE  Claimed'
<1> SUFFICES ASSUME NEW i, NEW h, Claims(i, h)'
             PROVE  i \in Ids /\ i < next' /\ Good(i, h)' /\ ~Pending(i)'
  BY DEF Claimed
<1>1. Claims(i, h) \/ (n # None /\ i = n /\ h = g)
  <2>1. CASE i \in Ids /\ Done(db'.rows, i, h)
    BY <2>1
  <2>2. CASE i \in Ids /\ \E k \in Dumps' : Done(snap'[k].rows, i, h)
    BY <2>2
  <2>3. CASE \E t \in Servers : /\ op'[t] # None /\ op'[t].rec # None
                                /\ i = op'[t].rec /\ h = DumpOf(op'[t].recRow)
    BY <2>3 DEF Claims
  <2>4. CASE \E t \in Servers : /\ op'[t] # None /\ op'[t].pc \in Made
                                /\ i = op'[t].id /\ h = DumpOf(op'[t].row)
    BY <2>4 DEF Claims
  <2> QED BY <2>1, <2>2, <2>3, <2>4 DEF Claims
<1>2. CASE Claims(i, h)
  <2>1. i \in Ids /\ i < next /\ ~Pending(i)
    BY <1>2 DEF BackupInv, Claimed
  <2>2. i < next'
    BY <2>1, BackupTypes
  <2>3. ~Pending(i)'
    BY <2>1 DEF Pending
  <2> QED BY <1>2, <2>1, <2>2, <2>3
<1>3. CASE n # None /\ i = n /\ h = g
  BY <1>3
<1> QED BY <1>1, <1>2, <1>3

\* Dumps that are being made stay what they are, apart from that of server s.
LEMMA DumpedKept ==
    ASSUME BackupInv,
           NEW s, NEW o, \A t \in Servers : op'[t] = IF t = s THEN o ELSE op[t],
           \A i \in Ids : \A h :
               i < next /\ Good(i, h) /\ (s \in Servers /\ op[s] # None => i # op[s].id) =>
                   Good(i, h)',
           o # None => /\ o.pc = "digest" => Good(o.id, o.id)'
                       /\ o.pc \in {"upload", "finish"} => Good(o.id, DumpOf(o.row))'
    PROVE  Dumped'
<1>1. ASSUME NEW t \in Servers, NEW p, p = op'[t], p # None, NEW h,
             \/ p.pc = "digest" /\ h = p.id
             \/ p.pc \in {"upload", "finish"} /\ h = DumpOf(p.row)
      PROVE  Good(p.id, h)'
  <2>1. CASE t = s
    BY <1>1, <2>1
  <2>2. CASE t # s
    <3>1. p = op[t] /\ p \in Operation /\ Shaped(p, next, Dumps)
      BY <1>1, <2>2, BackupTypes DEF BackupInv, Operations
    <3>2. p.id \in Ids /\ p.id < next
      BY <1>1, <3>1, Zenon DEF Shaped
    <3>3. Good(p.id, h)
      BY <1>1, <3>1 DEF BackupInv, Dumped
    <3>4. s \in Servers /\ op[s] # None => p.id # op[s].id
      BY <2>2, <3>1, <3>2, <1>1, BackupTypes DEF BackupInv, Operations
    <3> QED BY <3>2, <3>3, <3>4
  <2> QED BY <2>1, <2>2
<1>2. ASSUME NEW t \in Servers, op'[t] # None
      PROVE  /\ op'[t].pc = "digest" => Good(op[t].id, op[t].id)'
             /\ op'[t].pc \in {"upload", "finish"} => Good(op[t].id, DumpOf(op[t].row))'
  <2>1. PICK p : p = op'[t]
    OBVIOUS
  <2>2. PICK h : h = DumpOf(op'[t].row)
    OBVIOUS
  <2>3. p.pc = "digest" => Good(p.id, p.id)'
    BY <1>1, <1>2, <2>1
  <2>4. p.pc \in {"upload", "finish"} => Good(p.id, h)'
    BY <1>1, <1>2, <2>1, <2>2
  <2> QED BY <2>1, <2>2, <2>3, <2>4 DEF Good, Alone
<1> QED BY <1>2 DEF Dumped

\* The operation of a server that is at work.
LEMMA AtWork ==
    ASSUME BackupInv, NEW s \in Servers, op[s] # None
    PROVE  /\ op[s] \in Operation /\ op[s].pc \in PC
           /\ Shaped(op[s], next, Dumps)
           /\ op[s].rec # None =>
                 /\ op[s].rec \in Ids /\ op[s].rec < next /\ op[s].rec # op[s].id
                 /\ op[s].recRow \in Row /\ op[s].recRow.status = "completed"
                 /\ Claims(op[s].rec, DumpOf(op[s].recRow))
           /\ op[s].pc # "source" =>
                 /\ op[s].id \in Ids /\ op[s].id < next /\ op[s].id # None
                 /\ op[s].row \in Row /\ op[s].row.restore = "none"
           /\ op[s].pc \in Making => op[s].row.status = "running" /\ Pending(op[s].id)
           /\ op[s].pc \notin {"source", "dump"} => op[s].row.path
           /\ op[s].temp \in Dumps \cup {None} /\ op[s].temp \in Ids \cup {None}
<1>1. op[s] \in Operation /\ Shaped(op[s], next, Dumps)
  BY BackupTypes DEF BackupInv, Operations
<1>2. op[s].pc \in PC /\ op[s].rec \in Ids \cup {None} /\ op[s].temp \in Ids \cup {None}
  BY <1>1 DEF Operation
<1>3. op[s].rec # None => Claims(op[s].rec, DumpOf(op[s].recRow))
  BY DEF Claims
<1>4. op[s].pc \in Making => Pending(op[s].id)
  BY DEF Pending
<1>5. None \notin Ids
  BY BackupTypes
<1> QED BY <1>1, <1>2, <1>3, <1>4, <1>5, Zenon DEF Shaped

\* What says that a record is completed is right about it.
LEMMA ClaimsAreGood ==
    ASSUME BackupInv, NEW i, NEW h, Claims(i, h)
    PROVE  i \in Ids /\ i < next /\ Good(i, h) /\ ~Pending(i)
BY DEF BackupInv, Claimed

LEMMA TableClaims ==
    ASSUME NEW i \in Ids, NEW h, Done(db.rows, i, h)
    PROVE  Claims(i, h)
BY DEF Claims

LEMMA DumpsClaim ==
    ASSUME NEW k \in Dumps, NEW i \in Ids, NEW h, Done(snap[k].rows, i, h)
    PROVE  Claims(i, h)
BY DEF Claims

LEMMA SameDumps ==
    ASSUME snap' = snap
    PROVE  /\ Dumps' = Dumps
           /\ \A k \in Dumps' : \A i \in Ids : \A h : Done(snap'[k].rows, i, h) => Claims(i, h)
<1>1. Dumps' = Dumps
  BY DEF Dumps
<1> QED BY <1>1, DumpsClaim

\* createBackupRecord
LEMMA Created ==
    ASSUME BackupInv, CreateBackupRecord, snap' = snap, file' = file,
           object' = object, del' = del, deleted' = deleted
    PROVE  /\ next \in Ids /\ ~(next < next) /\ next < next' /\ next <= next'
           /\ next' \in 1..(MaxBackups + 1) /\ next' \in Nat
           /\ names' \in [Ids -> Seconds \cup {None}]
           /\ \A i \in Ids : i # next => names'[i] = names[i]
           /\ db' \in Database /\ db'.rows[next] = NewRow
           /\ \A i \in Ids : i # next => db'.rows[i] = db.rows[i]
           /\ \A i \in Ids : \A h : Done(db'.rows, i, h) => Claims(i, h)
           /\ \A i \in Ids : \A h : i < next /\ Good(i, h) => Good(i, h)'
           /\ Records'
<1>1. /\ next \in Ids /\ ~(next < next) /\ next < next' /\ next <= next'
      /\ next' \in 1..(MaxBackups + 1) /\ next' \in Nat
  BY BackupAssumption, BackupTypes DEF CreateBackupRecord, Ids
<1>2. names' = [names EXCEPT ![next] = now]
  BY DEF CreateBackupRecord
<1>3. /\ names' \in [Ids -> Seconds \cup {None}]
      /\ \A i \in Ids : names'[i] = IF i = next THEN now ELSE names[i]
  BY <1>1, <1>2, BackupTypes
<1>4. PICK R : R = [db.rows EXCEPT ![next] = NewRow]
  OBVIOUS
<1>5. R \in Table /\ \A i \in Ids : R[i] = IF i = next THEN NewRow ELSE db.rows[i]
  BY <1>1, <1>4, BackupTypes, NewRowIsRow DEF Table
<1>6. db' = [db EXCEPT !.rows = R]
  BY <1>4, BackupTypes DEF CreateBackupRecord, Database
<1>7. db' \in Database /\ db'.rows = R
  BY <1>5, <1>6, BackupTypes, RowsWritten
<1>8. \A i \in Ids : \A h : Done(db'.rows, i, h) => Claims(i, h)
  BY <1>5, <1>7, TableClaims, NewRowIsRow DEF Done
<1>9. \A i \in Ids : \A h : i < next /\ Good(i, h) => Good(i, h)'
  BY <1>1, <1>2, GoodWhenCreated
<1>10. Records'
  <2>1. Dumps' = Dumps
    BY DEF Dumps
  <2>2. \A i \in Ids : names'[i] # None <=> i < next'
    <3>1. \A i \in Ids : i < next' <=> i < next \/ i = next
      BY <1>1, BackupTypes DEF CreateBackupRecord
    <3> QED BY <1>3, <3>1, BackupTypes DEF BackupInv, Records
  <2>3. ASSUME NEW t \in Seconds, file[t] # None
        PROVE  names'[file[t]] = t
    <3>1. file[t] \in Dumps /\ names[file[t]] = t
      BY <2>3 DEF BackupInv, Records
    <3>2. file[t] \in Ids /\ file[t] < next
      BY <3>1, BackupTypes DEF Dumps, BackupInv, Records
    <3> QED BY <1>1, <1>3, <3>1, <3>2, BackupTypes
  <2> QED BY <2>1, <2>2, <2>3 DEF BackupInv, Records
<1> QED BY <1>1, <1>3, <1>5, <1>7, <1>8, <1>9, <1>10

LEMMA StartBackupKeeps ==
    ASSUME BackupInv, NEW s \in Servers, StartBackup(s)
    PROVE  BackupInv'
<1>1. PICK o : o = [pc |-> "dump", id |-> next, row |-> NewRow,
                    rec |-> None, recRow |-> None, temp |-> None]
  OBVIOUS
<1>2. /\ CreateBackupRecord /\ op' = [op EXCEPT ![s] = o]
      /\ s \in up /\ op[s] = None /\ lock = None /\ lock' = s
      /\ snap' = snap /\ file' = file /\ object' = object /\ now' = now /\ up' = up /\ del' = del
      /\ deleted' = deleted /\ stray' = stray /\ split' = split /\ faults' = faults /\ edits' = edits
  BY <1>1 DEF StartBackup, Acquire, store, history, bounds
<1>3. next \in Ids
  BY <1>2, Created
<1>4. /\ o \in Operation /\ o # None /\ o.pc = "dump" /\ o.id = next /\ o.row = NewRow
      /\ o.rec = None /\ o.temp = None
  BY <1>1, <1>3, NewRowIsRow, BackupTypes DEF Operation, PC
<1>5. /\ \A t \in Servers : op'[t] = IF t = s THEN o ELSE op[t]
      /\ op' \in [Servers -> Operation \cup {None}]
  BY <1>2, <1>4, OneMoves
<1>6. /\ Dumps' = Dumps
      /\ \A k \in Dumps' : \A i \in Ids : \A h : Done(snap'[k].rows, i, h) => Claims(i, h)
  BY <1>2, SameDumps
<1>7. TypeOK'
  BY <1>2, <1>5, Created, BackupTypes DEF TypeOK
<1>8. Operations'
  <2>1. Shaped(o, next', Dumps')
    BY <1>2, <1>3, <1>4, NewRowIsRow, Created DEF Shaped, Making, Made
  <2> QED BY <1>2, <1>4, <1>6, <2>1, Created, OperationsKept
<1>9. Exclusive'
  BY <1>2, <1>5, ExclusiveGained
<1>10. Owned'
  <2>1. \A i \in Ids : Maker(i) => Maker(i)'
    BY <1>2, <1>5, MakerStays
  <2>2. \A i \in Ids : Restorer(i) => Restorer(i)'
    BY <1>2, <1>5, RestorerStays
  <2>3. PICK n : n = next
    OBVIOUS
  <2>4. Maker(n)'
    BY <1>4, <1>5, <2>3 DEF Maker, Making
  <2>5. \A i \in Ids : i # n => db'.rows[i] = db.rows[i]
    BY <1>2, <2>3, Created
  <2>6. db'.rows[n].status = "running" /\ db'.rows[n].restore = "none"
    BY <1>2, <2>3, Created, NewRowIsRow
  <2> QED BY <2>1, <2>2, <2>4, <2>5, <2>6 DEF BackupInv, Owned
<1>11. Verified'
  BY <1>2, <1>4, <1>5, VerifiedKept
<1>12. Claimed'
  <2>1. \A i, h : Claims(i, h) => Good(i, h)'
    BY <1>2, Created, ClaimsAreGood
  <2>2. o.pc \in Making => ~(o.id < next)
    BY <1>2, <1>4, Created
  <2>3. o.pc \notin Made
    BY <1>4 DEF Made
  <2> QED BY <1>2, <1>4, <1>5, <1>6, <2>1, <2>2, <2>3, Created, ClaimedKept
<1>13. Dumped'
  BY <1>2, <1>4, <1>5, Created, DumpedKept
<1> QED BY <1>2, <1>7, <1>8, <1>9, <1>10, <1>11, <1>12, <1>13, Created DEF BackupInv

\* Steps of executeBackup write the copy of the row.
LEMMA PathWritten ==
    ASSUME NEW r \in Row
    PROVE  /\ [r EXCEPT !.path = TRUE] \in Row /\ [r EXCEPT !.path = TRUE].path
           /\ [r EXCEPT !.path = TRUE].status = r.status
           /\ [r EXCEPT !.path = TRUE].restore = r.restore
<1>1. PICK yes \in BOOLEAN : yes = TRUE
  BY Zenon
<1>2. /\ [r EXCEPT !.path = yes] \in Row /\ [r EXCEPT !.path = yes].path = yes
      /\ [r EXCEPT !.path = yes].status = r.status
      /\ [r EXCEPT !.path = yes].restore = r.restore
  BY DEF Row
<1> QED BY <1>1, <1>2

LEMMA KeyWritten ==
    ASSUME NEW r \in Row
    PROVE  /\ [r EXCEPT !.key = TRUE] \in Row /\ [r EXCEPT !.key = TRUE].path = r.path
           /\ [r EXCEPT !.key = TRUE].status = r.status
           /\ [r EXCEPT !.key = TRUE].restore = r.restore
           /\ DumpOf([r EXCEPT !.key = TRUE]) = DumpOf(r)
<1>1. PICK yes \in BOOLEAN : yes = TRUE
  BY Zenon
<1>2. /\ [r EXCEPT !.key = yes] \in Row /\ [r EXCEPT !.key = yes].path = r.path
      /\ [r EXCEPT !.key = yes].status = r.status /\ [r EXCEPT !.key = yes].sha = r.sha
      /\ [r EXCEPT !.key = yes].restore = r.restore
  BY DEF Row
<1>3. DumpOf([r EXCEPT !.key = yes]) = DumpOf(r)
  BY <1>2 DEF DumpOf
<1> QED BY <1>1, <1>2, <1>3

LEMMA ShaWritten ==
    ASSUME NEW r \in Row, NEW v \in Ids
    PROVE  /\ [r EXCEPT !.sha = v] \in Row /\ [r EXCEPT !.sha = v].path = r.path
           /\ [r EXCEPT !.sha = v].status = r.status
           /\ [r EXCEPT !.sha = v].restore = r.restore
           /\ r.path => DumpOf([r EXCEPT !.sha = v]) = v
BY DEF Row, DumpOf

\* A server that makes a dump goes on with it, for the same record and the same restore.
LEMMA GoesOn ==
    ASSUME BackupInv, NEW s \in Servers, op[s] # None, op[s].pc \in Making,
           NEW o \in Operation, op' = [op EXCEPT ![s] = o],
           o.id = op[s].id, o.rec = op[s].rec, o.recRow = op[s].recRow, o.temp = op[s].temp,
           o.pc \in Making, o.pc # "dump", o.row \in Row, o.row.restore = "none",
           o.row.status = "running", o.row.path,
           next' = next, Dumps \subseteq Dumps', lock' = lock, split' = split, up' = up,
           stray' = stray
    PROVE  /\ \A t \in Servers : op'[t] = IF t = s THEN o ELSE op[t]
           /\ op' \in [Servers -> Operation \cup {None}]
           /\ Operations' /\ Exclusive'
           /\ \A i \in Ids : Maker(i) => Maker(i)'
           /\ \A i \in Ids : Restorer(i) => Restorer(i)'
<1>1. /\ \A t \in Servers : op'[t] = IF t = s THEN o ELSE op[t]
      /\ op' \in [Servers -> Operation \cup {None}]
  BY OneMoves
<1>2. op[s].pc # "source" /\ o.pc # "source" /\ o.pc \notin Made /\ o # None
  BY BackupTypes DEF Making, Made
<1>3. Shaped(o, next, Dumps')
  <2>1. o.temp # None => o.temp \in Dumps'
    BY AtWork
  <2> QED BY <1>2, <2>1, AtWork DEF Shaped
<1>4. Operations'
  <2>1. Shaped(o, next', Dumps')
    BY <1>3
  <2>2. next' \in Nat /\ next <= next'
    BY BackupTypes
  <2> QED BY <2>1, <2>2, OperationsKept
<1>5. Exclusive'
  BY <1>1, ExclusiveKept
<1>6. \A i \in Ids : Maker(i) => Maker(i)'
  BY <1>1, <1>2, MakerStays
<1>7. \A i \in Ids : Restorer(i) => Restorer(i)'
  BY <1>1, <1>2, RestorerStays
<1> QED BY <1>1, <1>4, <1>5, <1>6, <1>7

\* Nothing new is completed by a row that is running, failed, or only changes its restore state.
LEMMA UpdateClaims ==
    ASSUME NEW R, R \in Table, NEW i \in Ids, NEW r \in Row,
           r.status # "completed", NEW j \in Ids, NEW h,
           Done(UpdateBackupRecord(R, i, r), j, h)
    PROVE  Done(R, j, h)
BY RecordUpdated DEF Done

LEMMA StateClaims ==
    ASSUME NEW R, R \in Table, NEW i \in Ids,
           NEW v \in RestoreStates, NEW j \in Ids, NEW h,
           Done(UpdateRestoreState(R, i, v), j, h)
    PROVE  Done(R, j, h)
<1>1. CASE j # i
  BY <1>1, StateUpdated DEF Done
<1>2. CASE j = i
  <2>1. R[i] # None
    BY <1>2, StateUpdated DEF Done
  <2>2. PICK q : q = UpdateRestoreState(R, i, v)[i]
    OBVIOUS
  <2>3. q.status = R[i].status /\ DumpOf(q) = DumpOf(R[i])
    BY <2>1, <2>2, StateUpdated
  <2> QED BY <1>2, <2>1, <2>2, <2>3 DEF Done
<1> QED BY <1>1, <1>2

LEMMA RunPgDumpKeeps ==
    ASSUME BackupInv, NEW s \in Servers, RunPgDump(s)
    PROVE  BackupInv'
<1>1. op[s] # None /\ op[s].pc = "dump" /\ op[s].pc \in Making
  BY DEF RunPgDump, At, Making
<1>2. PICK q : q = op[s]
  OBVIOUS
<1>3. /\ q \in Operation /\ q.id \in Ids /\ q.id < next /\ q.row \in Row
      /\ q.row.restore = "none" /\ q.row.status = "running"
  BY <1>1, <1>2, AtWork
<1>4. PICK r : r = [q.row EXCEPT !.path = TRUE]
  OBVIOUS
<1>5. r \in Row /\ r.path /\ r.status = "running" /\ r.restore = "none"
  BY <1>3, <1>4, PathWritten
<1>6. PICK o : o = [q EXCEPT !.row = r, !.pc = "digest"]
  OBVIOUS
<1>7. /\ o \in Operation /\ o.pc = "digest" /\ o.row = r /\ o.id = q.id /\ o.rec = q.rec
      /\ o.recRow = q.recRow /\ o.temp = q.temp
  <2>1. "digest" \in PC
    BY DEF PC
  <2> QED BY <1>3, <1>5, <1>6, <2>1 DEF Operation
<1>8. PICK R : R = UpdateBackupRecord(db.rows, q.id, r)
  OBVIOUS
<1>9. /\ R \in Table
      /\ \A j \in Ids : /\ R[j] = None <=> db.rows[j] = None
                        /\ j # q.id => R[j] = db.rows[j]
      /\ db.rows[q.id] # None =>
            R[q.id].status = "running" /\ R[q.id].restore = db.rows[q.id].restore
  <2>1. db.rows \in Table
    BY BackupTypes
  <2> QED BY <1>3, <1>5, <1>8, <2>1, RecordUpdated
<1>10. /\ db' = [db EXCEPT !.rows = R] /\ snap' = [snap EXCEPT ![q.id] = db']
       /\ file' = [file EXCEPT ![names[q.id]] = q.id]
  BY <1>2, <1>4, <1>8 DEF RunPgDump, NameOf
<1>11. op' = [op EXCEPT ![s] = o]
  BY <1>2, <1>4, <1>6, BackupTypes DEF RunPgDump
<1>12. /\ object' = object /\ names' = names /\ next' = next /\ now' = now /\ up' = up /\ lock' = lock
       /\ del' = del /\ deleted' = deleted /\ stray' = stray /\ split' = split
       /\ faults' = faults /\ edits' = edits
  BY DEF RunPgDump, history, bounds
<1>13. db' \in Database /\ db'.rows = R
  BY <1>9, <1>10, RowsWritten, BackupTypes
<1>14. /\ snap' \in [Ids -> Database \cup {None}]
       /\ \A k \in Ids : snap'[k] = IF k = q.id THEN db' ELSE snap[k]
  BY <1>3, <1>10, <1>13, BackupTypes
<1>15. Dumps \subseteq Dumps' /\ q.id \in Dumps' /\ \A k \in Dumps' : k = q.id \/ k \in Dumps
  BY <1>3, <1>13, <1>14 DEF Dumps
<1>16. names[q.id] \in Seconds
  BY <1>3, Named
<1>17. /\ file' \in [Seconds -> Ids \cup {None}]
       /\ \A t \in Seconds : file'[t] = IF t = names[q.id] THEN q.id ELSE file[t]
  BY <1>3, <1>10, <1>16, BackupTypes
<1>18. /\ \A t \in Servers : op'[t] = IF t = s THEN o ELSE op[t]
       /\ op' \in [Servers -> Operation \cup {None}]
       /\ Operations' /\ Exclusive'
       /\ \A i \in Ids : Maker(i) => Maker(i)'
       /\ \A i \in Ids : Restorer(i) => Restorer(i)'
  <2>1. o.pc \in Making /\ o.pc # "dump"
    BY <1>7 DEF Making
  <2> QED BY <1>1, <1>2, <1>3, <1>5, <1>7, <1>11, <1>12, <1>15, <2>1, GoesOn
<1>19. TypeOK'
  BY <1>12, <1>13, <1>14, <1>17, <1>18, BackupTypes DEF TypeOK
<1>20. Records'
  BY <1>3, <1>12, <1>15, <1>17 DEF BackupInv, Records
<1>21. Owned'
  <2>1. \A j \in Ids : db.rows[j] # None =>
           /\ db.rows[j].status = "running" => Maker(j)'
           /\ db.rows[j].restore = "running" => Restorer(j)'
    BY <1>18 DEF BackupInv, Owned
  <2>2. PICK i : i = q.id
    OBVIOUS
  <2>3. Maker(i)'
    BY <1>1, <1>2, <1>3, <1>18, <2>2 DEF Maker
  <2> QED BY <1>9, <1>13, <2>1, <2>2, <2>3 DEF Owned
<1>22. Verified'
  <2>1. ASSUME o.rec # None, names[o.id] # names[o.rec], ~split
        PROVE  LET source == IF o.temp # None THEN o.temp ELSE file'[names'[o.rec]]
               IN  source = None \/ source = o.recRow.sha
    <3>1. q.rec \in Ids /\ q.rec < next
      BY <1>1, <1>2, <1>7, <2>1, AtWork
    <3>2. names[q.rec] \in Seconds
      BY <3>1, Named
    <3>3. file'[names'[q.rec]] = file[names[q.rec]]
      BY <1>7, <1>12, <1>17, <2>1, <3>2
    <3>4. Source(s) = None \/ Source(s) = q.recRow.sha
      BY <1>1, <1>2, <1>7, <2>1 DEF BackupInv, Verified
    <3> QED BY <1>2, <1>7, <3>3, <3>4 DEF Source, SourceOf, SourceName
  <2>2. CASE split
    BY <1>12, <2>2 DEF Verified
  <2>3. CASE ~split
    BY <1>1, <1>12, <1>18, <2>1, <2>3, VerifiedKept
  <2> QED BY <2>2, <2>3
<1>23. \A i \in Ids : \A h : i < next /\ i # q.id /\ Good(i, h) => Good(i, h)'
  BY <1>3, <1>10, <1>12, GoodBesides
<1>24. Claimed'
  <2>1. \A i \in Ids : \A h : Done(db'.rows, i, h) => Claims(i, h)
    BY <1>3, <1>5, <1>8, <1>13, UpdateClaims, TableClaims, BackupTypes
  <2>2. \A k \in Dumps' : \A i \in Ids : \A h : Done(snap'[k].rows, i, h) => Claims(i, h)
    BY <1>14, <1>15, <2>1, DumpsClaim DEF Dumps
  <2>3. Pending(q.id)
    BY <1>1, <1>2, AtWork
  <2>4. \A i, h : Claims(i, h) => Good(i, h)'
    BY <1>23, <2>3, ClaimsAreGood
  <2>5. o.rec # None => Claims(o.rec, DumpOf(o.recRow))
    BY <1>1, <1>2, <1>7, AtWork
  <2>6. o.pc \notin Made
    BY <1>7 DEF Made
  <2>7. next' \in Nat /\ next <= next'
    BY <1>12, BackupTypes
  <2>8. o.pc \in Making => Pending(o.id)
    BY <1>7, <2>3
  <2> QED BY <1>18, <2>1, <2>2, <2>4, <2>5, <2>6, <2>7, <2>8, ClaimedKept
<1>25. Dumped'
  <2>1. PICK i : i = q.id
    OBVIOUS
  <2>2. Good(i, i)'
    BY <1>12, <1>16, <1>17, <2>1 DEF Good
  <2>3. Good(o.id, o.id)'
    BY <1>7, <2>1, <2>2
  <2>4. o.pc = "digest"
    BY <1>7
  <2> QED BY <1>1, <1>2, <1>18, <1>23, <2>3, <2>4, DumpedKept
<1> QED BY <1>18, <1>19, <1>20, <1>21, <1>22, <1>24, <1>25 DEF BackupInv

\* A step of executeBackup after pg_dump.
LEMMA GoesOnKeeps ==
    ASSUME BackupInv, NEW s \in Servers, op[s] # None, op[s].pc \in Making,
           NEW o \in Operation, op' = [op EXCEPT ![s] = o],
           o.id = op[s].id, o.rec = op[s].rec, o.recRow = op[s].recRow, o.temp = op[s].temp,
           o.pc \in {"upload", "finish"}, o.row \in Row, o.row.restore = "none",
           o.row.status = "running", o.row.path, Good(o.id, DumpOf(o.row)),
           next' = next, snap' = snap, lock' = lock, split' = split, up' = up, stray' = stray,
           file' = file, names' = names, now' = now, del' = del, deleted' = deleted,
           faults' = faults, edits' = edits, db' \in Database,
           object' \in [Seconds -> Ids \cup {None}],
           \A t \in Seconds : object'[t] # None => object'[t] \in Dumps,
           \A i \in Ids : \A h : Done(db'.rows, i, h) => Claims(i, h),
           \A i \in Ids : db'.rows[i] # None =>
               /\ db.rows[i] # None
               /\ db'.rows[i].status = "running" => db.rows[i].status = "running" \/ i = op[s].id
               /\ db'.rows[i].restore = "running" => db.rows[i].restore = "running"
    PROVE  BackupInv'
<1>1. o.pc \in Making /\ o.pc # "dump" /\ o.pc # "digest" /\ o.pc \notin Made /\ o # None
  BY BackupTypes DEF Making, Made
<1>2. /\ Dumps' = Dumps
      /\ \A k \in Dumps' : \A i \in Ids : \A h : Done(snap'[k].rows, i, h) => Claims(i, h)
  BY SameDumps
<1>3. /\ \A t \in Servers : op'[t] = IF t = s THEN o ELSE op[t]
      /\ op' \in [Servers -> Operation \cup {None}]
      /\ Operations' /\ Exclusive'
      /\ \A i \in Ids : Maker(i) => Maker(i)'
      /\ \A i \in Ids : Restorer(i) => Restorer(i)'
  BY <1>1, <1>2, GoesOn
<1>4. TypeOK'
  BY <1>3, BackupTypes DEF TypeOK
<1>5. Records'
  BY <1>2 DEF BackupInv, Records
<1>6. Owned'
  <2>1. \A j \in Ids : db.rows[j] # None =>
           /\ db.rows[j].status = "running" => Maker(j)'
           /\ db.rows[j].restore = "running" => Restorer(j)'
    BY <1>3 DEF BackupInv, Owned
  <2>2. PICK i : i = op[s].id
    OBVIOUS
  <2>3. Maker(i)'
    BY <1>1, <1>3, <2>2 DEF Maker
  <2> QED BY <2>1, <2>2, <2>3 DEF Owned
<1>7. Verified'
  <2>1. CASE split
    BY <2>1 DEF Verified
  <2>2. CASE ~split
    <3>1. o.rec # None => \/ Source(s) = None \/ Source(s) = op[s].recRow.sha
                          \/ names[op[s].id] = names[op[s].rec]
      BY <2>2 DEF BackupInv, Verified
    <3> QED BY <1>3, <3>1, VerifiedKept DEF Source, SourceOf, SourceName
  <2> QED BY <2>1, <2>2
<1>8. \A i, h : Good(i, h) => Good(i, h)'
  BY GoodStays
<1>9. Claimed'
  <2>1. \A i, h : Claims(i, h) => Good(i, h)'
    BY <1>8, ClaimsAreGood
  <2>2. o.rec # None => Claims(o.rec, DumpOf(o.recRow))
    BY AtWork
  <2>3. Pending(o.id)
    BY AtWork
  <2>4. next' \in Nat /\ next <= next'
    BY BackupTypes
  <2> QED BY <1>1, <1>2, <1>3, <2>1, <2>2, <2>3, <2>4, ClaimedKept
<1>10. Dumped'
  <2>1. Good(o.id, DumpOf(o.row))'
    BY <1>8
  <2> QED BY <1>1, <1>3, <1>8, <2>1, DumpedKept
<1> QED BY <1>3, <1>4, <1>5, <1>6, <1>7, <1>9, <1>10 DEF BackupInv

LEMMA FileDigestKeeps ==
    ASSUME BackupInv, NEW s \in Servers, FileDigest(s)
    PROVE  BackupInv'
<1>1. op[s] # None /\ op[s].pc = "digest" /\ op[s].pc \in Making
  BY DEF FileDigest, At, Making
<1>2. PICK q : q = op[s]
  OBVIOUS
<1>3. /\ q \in Operation /\ q.id \in Ids /\ q.id < next /\ q.row \in Row
      /\ q.row.restore = "none" /\ q.row.status = "running" /\ q.row.path
  BY <1>1, <1>2, AtWork
<1>4. PICK v : v = file[names[q.id]]
  OBVIOUS
<1>5. v \in Ids
  <2>1. names[q.id] \in Seconds
    BY <1>3, Named
  <2> QED BY <1>2, <1>4, <2>1, BackupTypes DEF FileDigest, NameOf
<1>6. PICK r : r = [q.row EXCEPT !.sha = v]
  OBVIOUS
<1>7. r \in Row /\ r.path /\ r.status = "running" /\ r.restore = "none" /\ DumpOf(r) = v
  BY <1>3, <1>5, <1>6, ShaWritten
<1>8. PICK o : o = [q EXCEPT !.row = r, !.pc = "upload"]
  OBVIOUS
<1>9. /\ o \in Operation /\ o.pc = "upload" /\ o.row = r /\ o.id = q.id /\ o.rec = q.rec
      /\ o.recRow = q.recRow /\ o.temp = q.temp
  <2>1. "upload" \in PC
    BY DEF PC
  <2> QED BY <1>3, <1>7, <1>8, <2>1 DEF Operation
<1>10. op' = [op EXCEPT ![s] = o]
  <2>1. o = [op[s] EXCEPT !.row.sha = v, !.pc = "upload"]
    BY <1>2, <1>3, <1>6, <1>8 DEF Operation
  <2> QED BY <1>2, <1>4, <2>1, BackupTypes DEF FileDigest, NameOf
<1>11. /\ db' = db /\ snap' = snap /\ file' = file /\ object' = object /\ names' = names
       /\ next' = next /\ now' = now /\ up' = up /\ lock' = lock
       /\ del' = del /\ deleted' = deleted /\ stray' = stray /\ split' = split
       /\ faults' = faults /\ edits' = edits
  BY DEF FileDigest, store, history, bounds
<1>12. Good(o.id, DumpOf(o.row))
  <2>1. Good(q.id, q.id)
    BY <1>1, <1>2 DEF BackupInv, Dumped
  <2> QED BY <1>4, <1>7, <1>9, <2>1 DEF Good
<1>13. \A i \in Ids : \A h : Done(db'.rows, i, h) => Claims(i, h)
  BY <1>11, TableClaims
<1>14. /\ db' \in Database /\ object' \in [Seconds -> Ids \cup {None}]
       /\ \A t \in Seconds : object'[t] # None => object'[t] \in Dumps
  BY <1>11, BackupTypes DEF BackupInv, Records
<1> QED BY <1>1, <1>2, <1>7, <1>9, <1>10, <1>11, <1>12, <1>13, <1>14, GoesOnKeeps

LEMMA UploadKeeps ==
    ASSUME BackupInv, NEW s \in Servers, Upload(s)
    PROVE  BackupInv'
<1>1. op[s] # None /\ op[s].pc = "upload" /\ op[s].pc \in Making
  BY DEF Upload, At, Making
<1>2. PICK q : q = op[s]
  OBVIOUS
<1>3. /\ q \in Operation /\ q.id \in Ids /\ q.id < next /\ q.row \in Row
      /\ q.row.restore = "none" /\ q.row.status = "running" /\ q.row.path
  BY <1>1, <1>2, AtWork
<1>4. Good(q.id, DumpOf(q.row))
  BY <1>1, <1>2 DEF BackupInv, Dumped
<1>5. "finish" \in PC
  BY DEF PC
<1>6. /\ snap' = snap /\ file' = file /\ names' = names /\ next' = next /\ now' = now /\ up' = up
      /\ lock' = lock /\ del' = del /\ deleted' = deleted /\ stray' = stray /\ split' = split
      /\ faults' = faults /\ edits' = edits
  BY DEF Upload, history, bounds
<1>7. CASE ~db.s3 /\ op' = [op EXCEPT ![s].pc = "finish"] /\ UNCHANGED <<db, object>>
  <2>1. PICK o : o = [q EXCEPT !.pc = "finish"]
    OBVIOUS
  <2>2. /\ o \in Operation /\ o.pc = "finish" /\ o.row = q.row /\ o.id = q.id /\ o.rec = q.rec
        /\ o.recRow = q.recRow /\ o.temp = q.temp
    BY <1>3, <1>5, <2>1 DEF Operation
  <2>3. op' = [op EXCEPT ![s] = o]
    BY <1>2, <1>7, <2>1
  <2>4. db' = db /\ object' = object
    BY <1>7
  <2>5. \A i \in Ids : \A h : Done(db'.rows, i, h) => Claims(i, h)
    BY <2>4, TableClaims
  <2>6. /\ db' \in Database /\ object' \in [Seconds -> Ids \cup {None}]
        /\ \A t \in Seconds : object'[t] # None => object'[t] \in Dumps
    BY <2>4, BackupTypes DEF BackupInv, Records
  <2> QED BY <1>1, <1>2, <1>3, <1>4, <1>6, <2>2, <2>3, <2>4, <2>5, <2>6, GoesOnKeeps
<1>8. CASE /\ file[names[q.id]] # None
           /\ db' = [db EXCEPT !.rows = UpdateBackupRecord(db.rows, q.id, q.row)]
           /\ object' = [object EXCEPT ![names[q.id]] = file[names[q.id]]]
           /\ op' = [op EXCEPT ![s].row.key = TRUE, ![s].pc = "finish"]
  <2>1. PICK r : r = [q.row EXCEPT !.key = TRUE]
    OBVIOUS
  <2>2. /\ r \in Row /\ r.path /\ r.status = "running" /\ r.restore = "none"
        /\ DumpOf(r) = DumpOf(q.row)
    BY <1>3, <2>1, KeyWritten
  <2>3. PICK o : o = [q EXCEPT !.row = r, !.pc = "finish"]
    OBVIOUS
  <2>4. /\ o \in Operation /\ o.pc = "finish" /\ o.row = r /\ o.id = q.id /\ o.rec = q.rec
        /\ o.recRow = q.recRow /\ o.temp = q.temp
    BY <1>3, <1>5, <2>2, <2>3 DEF Operation
  <2>5. op' = [op EXCEPT ![s] = o]
    <3>1. o = [op[s] EXCEPT !.row.key = TRUE, !.pc = "finish"]
      BY <1>2, <1>3, <2>1, <2>3 DEF Operation
    <3> QED BY <1>8, <3>1
  <2>6. PICK R : R = UpdateBackupRecord(db.rows, q.id, q.row)
    OBVIOUS
  <2>7. /\ R \in Table
        /\ \A j \in Ids : /\ R[j] = None <=> db.rows[j] = None
                          /\ j # q.id => R[j] = db.rows[j]
        /\ db.rows[q.id] # None => R[q.id].restore = db.rows[q.id].restore
    <3>1. db.rows \in Table
      BY BackupTypes
    <3> QED BY <1>3, <2>6, <3>1, RecordUpdated
  <2>8. db' \in Database /\ db'.rows = R
    BY <1>8, <2>6, <2>7, RowsWritten, BackupTypes
  <2>9. \A i \in Ids : \A h : Done(db'.rows, i, h) => Claims(i, h)
    BY <1>3, <2>6, <2>8, UpdateClaims, TableClaims, BackupTypes
  <2>10. names[q.id] \in Seconds
    BY <1>3, Named
  <2>11. /\ object' \in [Seconds -> Ids \cup {None}]
         /\ \A t \in Seconds : object'[t] # None => object'[t] \in Dumps
    BY <1>8, <2>10, BackupTypes DEF BackupInv, Records
  <2>12. \A i \in Ids : db'.rows[i] # None =>
               /\ db.rows[i] # None
               /\ db'.rows[i].status = "running" => db.rows[i].status = "running" \/ i = op[s].id
               /\ db'.rows[i].restore = "running" => db.rows[i].restore = "running"
    BY <1>2, <2>7, <2>8
  <2>13. Good(o.id, DumpOf(o.row))
    BY <1>4, <2>2, <2>4
  <2> QED BY <1>1, <1>2, <1>6, <2>2, <2>4, <2>5, <2>8, <2>9, <2>11, <2>12, <2>13, GoesOnKeeps
<1> QED BY <1>2, <1>7, <1>8 DEF Upload, NameOf

\* A server ends its operation.  It may take away the file of the dump it was making, and
\* store the result of a dump that is finished.
LEMMA ReleaseKeeps ==
    ASSUME BackupInv, NEW s \in Servers, op[s] # None,
           op' = [op EXCEPT ![s] = None], lock' = IF lock = s THEN None ELSE lock,
           next' = next, snap' = snap, names' = names, now' = now, split' = split, del' = del,
           up' \subseteq Servers, up' = up \/ up' # Servers,
           deleted \subseteq deleted', deleted' \subseteq Ids,
           stray \subseteq stray', stray' \subseteq Ids,
           faults' \in 0..MaxFaults, edits' \in 0..MaxEdits, db' \in Database,
           file' \in [Seconds -> Ids \cup {None}], object' \in [Seconds -> Ids \cup {None}],
           \A t \in Seconds : file'[t] = file[t] \/ file'[t] = None,
           \A t \in Seconds : object'[t] = object[t] \/ object'[t] = None,
           \A i \in Ids : \A h :
               i < next /\ Good(i, h) /\ (op[s].pc \in Making \ {"finish"} => i # op[s].id) =>
                   Good(i, h)',
           \A i \in Ids : \A h : Done(db'.rows, i, h) =>
               \/ Claims(i, h)
               \/ op[s].pc = "finish" /\ i = op[s].id /\ h = DumpOf(op[s].row),
           \A i \in Ids : db'.rows[i] # None =>
               /\ db'.rows[i].status = "running" =>
                     /\ db.rows[i] # None /\ db.rows[i].status = "running"
                     /\ i = op[s].id => op[s].pc \notin Making \/ i \in stray' \/ up' # Servers
               /\ db'.rows[i].restore = "running" =>
                     /\ db.rows[i] # None /\ db.rows[i].restore = "running"
                     /\ i = op[s].rec => i \in stray' \/ up' # Servers
    PROVE  BackupInv'
<1>1. /\ \A t \in Servers : op'[t] = IF t = s THEN None ELSE op[t]
      /\ op' \in [Servers -> Operation \cup {None}]
  BY OneMoves
<1>2. /\ Dumps' = Dumps
      /\ \A k \in Dumps' : \A i \in Ids : \A h : Done(snap'[k].rows, i, h) => Claims(i, h)
  BY SameDumps
<1>3. TypeOK'
  <2>1. lock' \in Servers \cup {None}
    BY BackupTypes
  <2> QED BY <1>1, <2>1, BackupTypes DEF TypeOK
<1>4. Records'
  <2>1. del' # None => del'.id \in deleted'
    BY DEF BackupInv, Records
  <2> QED BY <2>1, RecordsKept
<1>5. next' \in Nat /\ next <= next'
  BY BackupTypes
<1>6. Operations'
  BY <1>2, <1>5, OperationsKept
<1>7. Exclusive'
  BY <1>1, ExclusiveKept
<1>8. Owned'
  <2>1. ASSUME NEW i \in Ids, Maker(i),
               i = op[s].id => op[s].pc \notin Making \/ i \in stray' \/ up' # Servers
        PROVE  Maker(i)'
    <3>1. CASE up' # Servers
      BY <3>1 DEF Maker
    <3>2. CASE up' = up /\ up' = Servers
      BY <1>1, <2>1, <3>2, MakerStays
    <3> QED BY <3>1, <3>2
  <2>2. ASSUME NEW i \in Ids, Restorer(i), i = op[s].rec => i \in stray' \/ up' # Servers
        PROVE  Restorer(i)'
    <3>1. CASE up' # Servers
      BY <3>1 DEF Restorer
    <3>2. CASE up' = up /\ up' = Servers
      BY <1>1, <2>2, <3>2, RestorerStays
    <3> QED BY <3>1, <3>2
  <2> QED BY <2>1, <2>2 DEF BackupInv, Owned
<1>9. Verified'
  BY <1>1, VerifiedKept
<1>10. Claimed'
  <2>1. op[s].pc \in Making => Pending(op[s].id)
    BY AtWork
  <2>2. \A i, h : Claims(i, h) => Good(i, h)'
    BY <2>1, ClaimsAreGood
  <2>3. PICK n : n = IF op[s].pc = "finish" THEN op[s].id ELSE None
    OBVIOUS
  <2>4. PICK g : g = DumpOf(op[s].row)
    OBVIOUS
  <2>5. n # None => n = op[s].id /\ op[s].pc = "finish" /\ n \in Ids /\ n < next
    BY <2>3, AtWork
  <2>6. n # None => Good(n, g)'
    BY <2>4, <2>5 DEF BackupInv, Dumped
  <2>7. n # None => ~Pending(n)'
    BY <1>1, <2>5, BackupTypes DEF BackupInv, Operations, Pending
  <2>8. \A i \in Ids : \A h : Done(db'.rows, i, h) =>
           Claims(i, h) \/ (n # None /\ i = n /\ h = g)
    BY <2>3, <2>4, BackupTypes
  <2> QED BY <1>1, <1>2, <1>5, <2>2, <2>5, <2>6, <2>7, <2>8, ClaimedKept
<1>11. Dumped'
  BY <1>1, DumpedKept
<1> QED BY <1>3, <1>4, <1>6, <1>7, <1>8, <1>9, <1>10, <1>11 DEF BackupInv

LEMMA CrashKeeps ==
    ASSUME BackupInv, NEW s \in Servers, Crash(s)
    PROVE  BackupInv'
<1>1. /\ s \in up /\ faults < MaxFaults /\ faults' = faults + 1 /\ up' = up \ {s}
      /\ op' = [op EXCEPT ![s] = None] /\ lock' = IF lock = s THEN None ELSE lock
      /\ db' = db /\ snap' = snap /\ file' = file /\ object' = object /\ names' = names
      /\ next' = next /\ now' = now /\ del' = del
      /\ deleted' = deleted /\ stray' = stray /\ split' = split /\ edits' = edits
  BY DEF Crash, Failure, Release, store, history
<1>2. up' \subseteq Servers /\ up' # Servers
  BY <1>1, BackupTypes
<1>3. faults' \in 0..MaxFaults
  BY BackupAssumption, <1>1, BackupTypes
<1>4. \A i, h : Good(i, h) => Good(i, h)'
  BY <1>1, GoodStays
<1>5. CASE op[s] # None
  <2>1. \A i \in Ids : \A h : Done(db'.rows, i, h) => Claims(i, h)
    BY <1>1, TableClaims
  <2> QED BY <1>1, <1>2, <1>3, <1>4, <1>5, <2>1, BackupTypes, ReleaseKeeps
<1>6. CASE op[s] = None
  <2>1. op' = op /\ lock' \in Servers \cup {None}
    BY <1>1, <1>6, BackupTypes
  <2>2. TypeOK'
    BY <1>1, <1>2, <1>3, <2>1, BackupTypes DEF TypeOK
  <2>3. Dumps' = Dumps
    BY <1>1 DEF Dumps
  <2>4. Records' /\ Operations'
    BY <1>1, <2>1, <2>3 DEF BackupInv, Records, Operations
  <2>5. Exclusive'
    BY <1>1, <1>6, <2>1, BackupTypes DEF BackupInv, Exclusive
  <2>6. Owned'
    BY <1>2 DEF Owned, Maker, Restorer
  <2>7. Verified'
    BY <1>1, <2>1 DEF BackupInv, Verified, Source, SourceOf, SourceName
  <2>8. \A i, h : Claims(i, h)' => Claims(i, h)
    BY <1>1, <2>1, <2>3 DEF Claims
  <2>9. \A i : Pending(i)' => Pending(i)
    BY <2>1 DEF Pending
  <2>10. Claimed'
    BY <1>1, <1>4, <2>8, <2>9, ClaimsAreGood DEF Claimed
  <2>11. Dumped'
    BY <1>1, <2>1 DEF BackupInv, Dumped, Good, Alone
  <2> QED BY <2>2, <2>4, <2>5, <2>6, <2>7, <2>10, <2>11 DEF BackupInv
<1> QED BY <1>5, <1>6

\* The bounds hold.
LEMMA OneFault ==
    ASSUME BackupInv, Failure \/ faults' = faults
    PROVE  faults' \in 0..MaxFaults
BY BackupAssumption, BackupTypes DEF Failure

\* The state of a restore that fails is written, or the write is lost.
LEMMA RestoreFailedRows ==
    ASSUME BackupInv, NEW s \in Servers, op[s] # None, NEW P \in Table, NEW lost, NEW R,
           R = RestoreFailed(P, s, lost)
    PROVE  /\ R \in Table
           /\ \A j \in Ids : R[j] # None =>
                 /\ P[j] # None /\ R[j].status = P[j].status
                 /\ R[j].restore = "running" =>
                       P[j].restore = "running" /\ (j = op[s].rec => j \in lost)
           /\ \A j \in Ids : \A h : Done(R, j, h) => Done(P, j, h)
<1>1. PICK k : k = op[s].rec
  OBVIOUS
<1>2. k \in Ids \/ k = None
  BY <1>1, AtWork
<1>3. None \notin Ids
  BY BackupTypes
<1>4. "failed" \in RestoreStates /\ "failed" # "running"
  BY DEF RestoreStates
<1>5. CASE k = None \/ k \in lost
  BY <1>1, <1>3, <1>5 DEF RestoreFailed, Restoring
<1>6. CASE k # None /\ k \notin lost
  <2>1. k \in Ids /\ R = UpdateRestoreState(P, k, "failed")
    BY <1>1, <1>2, <1>6 DEF RestoreFailed, Restoring
  <2>2. /\ R \in Table
        /\ \A j \in Ids : /\ R[j] = None <=> P[j] = None
                          /\ j # k => R[j] = P[j]
        /\ P[k] # None => R[k].status = P[k].status /\ R[k].restore = "failed"
    BY <1>4, <2>1, StateUpdated
  <2>3. \A j \in Ids : \A h : Done(R, j, h) => Done(P, j, h)
    BY <1>4, <2>1, StateClaims
  <2> QED BY <1>1, <1>4, <2>1, <2>2, <2>3
<1> QED BY <1>5, <1>6

\* What a step that fails may lose are its own rows.
LEMMA LossesAreRows ==
    ASSUME BackupInv, NEW s \in Servers, op[s] # None, NEW lost \in Losses(s)
    PROVE  lost \subseteq Ids
<1>1. op[s].id \in Ids \cup {None} /\ op[s].rec \in Ids \cup {None}
  BY AtWork DEF Operation
<1> QED BY <1>1 DEF Losses

LEMMA ExecuteBackupFailsKeeps ==
    ASSUME BackupInv, NEW s \in Servers, ExecuteBackupFails(s)
    PROVE  BackupInv'
<1>1. op[s] # None /\ op[s].pc \in {"dump", "digest", "upload"}
  BY DEF ExecuteBackupFails
<1>2. op[s].pc \in Making /\ op[s].pc # "source"
  BY <1>1 DEF Making
<1>3. PICK q : q = op[s]
  OBVIOUS
<1>4. /\ q \in Operation /\ q.id \in Ids /\ q.id < next /\ q.row \in Row
      /\ q.row.restore = "none" /\ q.row.status = "running"
      /\ q.rec # None => q.rec \in Ids
  BY <1>1, <1>2, <1>3, AtWork
<1>5. PICK r : r = [q.row EXCEPT !.status = "failed"]
  OBVIOUS
<1>6. r \in Row /\ r.status = "failed"
  BY <1>4, <1>5, StatusWritten
<1>7. PICK lost \in Losses(s) :
         /\ Failure \/ faults' = faults
         /\ stray' = stray \cup lost
         /\ db' = [db EXCEPT !.rows = RestoreFailed(BackupFailed(s, lost), s, lost)]
  BY DEF ExecuteBackupFails
<1>8. lost \subseteq Ids
  BY <1>1, LossesAreRows
<1>9. PICK P : P = BackupFailed(s, lost)
  OBVIOUS
<1>10. /\ P \in Table
       /\ \A j \in Ids : P[j] # None =>
             /\ db.rows[j] # None /\ P[j].restore = db.rows[j].restore
             /\ P[j].status = "running" =>
                   db.rows[j].status = "running" /\ (j = q.id => j \in lost)
       /\ \A j \in Ids : \A h : Done(P, j, h) => Done(db.rows, j, h)
  <2>1. db.rows \in Table
    BY BackupTypes
  <2>2. CASE q.id \in lost
    BY <1>3, <1>9, <2>1, <2>2 DEF BackupFailed
  <2>3. CASE q.id \notin lost
    <3>1. P = UpdateBackupRecord(db.rows, q.id, r)
      BY <1>3, <1>5, <1>9, <2>3 DEF BackupFailed
    <3>2. /\ P \in Table
          /\ \A j \in Ids : /\ P[j] = None <=> db.rows[j] = None
                            /\ j # q.id => P[j] = db.rows[j]
          /\ db.rows[q.id] # None =>
                P[q.id].status = "failed" /\ P[q.id].restore = db.rows[q.id].restore
      BY <1>4, <1>6, <2>1, <3>1, RecordUpdated
    <3>3. \A j \in Ids : \A h : Done(P, j, h) => Done(db.rows, j, h)
      BY <1>4, <1>6, <2>1, <3>1, UpdateClaims
    <3> QED BY <1>4, <3>2, <3>3
  <2> QED BY <2>2, <2>3
<1>11. PICK R : R = RestoreFailed(P, s, lost)
  OBVIOUS
<1>12. /\ R \in Table
       /\ \A j \in Ids : R[j] # None =>
             /\ P[j] # None /\ R[j].status = P[j].status
             /\ R[j].restore = "running" =>
                   P[j].restore = "running" /\ (j = op[s].rec => j \in lost)
       /\ \A j \in Ids : \A h : Done(R, j, h) => Done(P, j, h)
  BY <1>1, <1>10, <1>11, RestoreFailedRows
<1>13. db' \in Database /\ db'.rows = R
  BY <1>7, <1>9, <1>11, <1>12, RowsWritten, BackupTypes
<1>14. /\ op' = [op EXCEPT ![s] = None] /\ lock' = IF lock = s THEN None ELSE lock
       /\ snap' = snap /\ object' = object /\ names' = names /\ next' = next /\ now' = now
       /\ up' = up /\ del' = del /\ deleted' = deleted /\ split' = split /\ edits' = edits
       /\ stray \subseteq stray' /\ stray' \subseteq Ids
  BY <1>7, <1>8, BackupTypes DEF ExecuteBackupFails, Release
<1>15. faults' \in 0..MaxFaults
  BY <1>7, OneFault
<1>16. names[q.id] \in Seconds
  BY <1>4, Named
<1>17. file' = [file EXCEPT ![names[q.id]] = None] \/ file' = file
  BY <1>3 DEF ExecuteBackupFails, NameOf
<1>18. /\ file' \in [Seconds -> Ids \cup {None}]
       /\ \A t \in Seconds : file'[t] = file[t] \/ file'[t] = None
  BY <1>16, <1>17, BackupTypes
<1>19. \A i \in Ids : \A h : i < next /\ i # q.id /\ Good(i, h) => Good(i, h)'
  <2>1. CASE file' = file
    BY <1>14, <2>1, GoodStays
  <2>2. CASE file' = [file EXCEPT ![names[q.id]] = None]
    BY <1>4, <1>14, <2>2, GoodBesides
  <2> QED BY <1>17, <2>1, <2>2
<1>20. \A i \in Ids : \A h : Done(db'.rows, i, h) => Claims(i, h)
  BY <1>10, <1>12, <1>13, TableClaims
<1>21. \A i \in Ids : db'.rows[i] # None =>
           /\ db'.rows[i].status = "running" =>
                 /\ db.rows[i] # None /\ db.rows[i].status = "running"
                 /\ i = op[s].id => i \in stray'
           /\ db'.rows[i].restore = "running" =>
                 /\ db.rows[i] # None /\ db.rows[i].restore = "running"
                 /\ i = op[s].rec => i \in stray'
  BY <1>3, <1>7, <1>10, <1>12, <1>13
<1>22. /\ up' \subseteq Servers /\ deleted \subseteq deleted' /\ deleted' \subseteq Ids
       /\ edits' \in 0..MaxEdits /\ object' \in [Seconds -> Ids \cup {None}]
       /\ \A t \in Seconds : object'[t] = object[t] \/ object'[t] = None
  BY <1>14, BackupTypes
<1>23. \A i \in Ids : \A h :
          i < next /\ Good(i, h) /\ (op[s].pc \in Making \ {"finish"} => i # op[s].id) =>
              Good(i, h)'
  BY <1>1, <1>2, <1>3, <1>19
<1> QED BY <1>1, <1>13, <1>14, <1>15, <1>18, <1>20, <1>21, <1>22, <1>23, ReleaseKeeps

\* A restore that is given up: its state is written unless that is lost, the operation ends.
LEMMA GivenUpKeeps ==
    ASSUME BackupInv, NEW s \in Servers, op[s] # None, NEW lost \in Losses(s),
           db' = [db EXCEPT !.rows = RestoreFailed(db.rows, s, lost)],
           stray' = stray \cup lost,
           op' = [op EXCEPT ![s] = None], lock' = IF lock = s THEN None ELSE lock,
           snap' = snap, file' = file, object' = object, names' = names, next' = next, now' = now,
           up' = up, del' = del, deleted' = deleted, split' = split, edits' = edits,
           faults' \in 0..MaxFaults, op[s].pc \in Making => op[s].id \in lost
    PROVE  BackupInv'
<1>1. stray \subseteq stray' /\ stray' \subseteq Ids
  BY LossesAreRows, BackupTypes
<1>2. db.rows \in Table
  BY BackupTypes
<1>3. PICK R : R = RestoreFailed(db.rows, s, lost)
  OBVIOUS
<1>4. /\ R \in Table
      /\ \A j \in Ids : R[j] # None =>
            /\ db.rows[j] # None /\ R[j].status = db.rows[j].status
            /\ R[j].restore = "running" =>
                  db.rows[j].restore = "running" /\ (j = op[s].rec => j \in lost)
      /\ \A j \in Ids : \A h : Done(R, j, h) => Done(db.rows, j, h)
  BY <1>2, <1>3, RestoreFailedRows
<1>5. db' \in Database /\ db'.rows = R
  BY <1>3, <1>4, RowsWritten, BackupTypes
<1>6. \A i \in Ids : \A h : Done(db'.rows, i, h) => Claims(i, h)
  BY <1>4, <1>5, TableClaims
<1>7. \A i, h : Good(i, h) => Good(i, h)'
  BY GoodStays
<1>8. \A i \in Ids : db'.rows[i] # None =>
           /\ db'.rows[i].status = "running" =>
                 /\ db.rows[i] # None /\ db.rows[i].status = "running"
                 /\ i = op[s].id => op[s].pc \notin Making \/ i \in stray'
           /\ db'.rows[i].restore = "running" =>
                 /\ db.rows[i] # None /\ db.rows[i].restore = "running"
                 /\ i = op[s].rec => i \in stray'
  BY <1>4, <1>5
<1> QED BY <1>1, <1>5, <1>6, <1>7, <1>8, BackupTypes, ReleaseKeeps

LEMMA RestoreRefusedKeeps ==
    ASSUME BackupInv, NEW s \in Servers, RestoreRefused(s)
    PROVE  BackupInv'
<1>1. op[s] # None /\ op[s].pc = "source" /\ op[s].pc \notin Making
  BY DEF RestoreRefused, At, Making
<1>2. PICK lost \in Losses(s) :
         /\ Failure \/ faults' = faults
         /\ stray' = stray \cup lost
         /\ db' = [db EXCEPT !.rows = RestoreFailed(db.rows, s, lost)]
  BY DEF RestoreRefused
<1>3. /\ op' = [op EXCEPT ![s] = None] /\ lock' = IF lock = s THEN None ELSE lock
      /\ snap' = snap /\ file' = file /\ object' = object /\ names' = names /\ next' = next
      /\ now' = now /\ up' = up /\ del' = del /\ deleted' = deleted
      /\ split' = split /\ edits' = edits
  BY DEF RestoreRefused, Release, store
<1>4. faults' \in 0..MaxFaults
  BY <1>2, OneFault
<1> QED BY <1>1, <1>2, <1>3, <1>4, GivenUpKeeps

LEMMA PersistRestoreRecordsKeeps ==
    ASSUME BackupInv, NEW s \in Servers, PersistRestoreRecords(s)
    PROVE  BackupInv'
<1>1. op[s] # None /\ op[s].pc \in Made /\ op[s].pc \notin Making /\ op[s].pc # "source"
  BY DEF PersistRestoreRecords, At, Making, Made
<1>2. PICK q : q = op[s]
  OBVIOUS
<1>3. /\ q \in Operation /\ q.rec # None /\ q.row.status = "completed"
  BY <1>1, <1>2, AtWork DEF Shaped
<1>4. /\ q.id \in Ids /\ q.id < next /\ q.row \in Row /\ q.row.restore = "none"
      /\ q.rec \in Ids /\ q.rec # q.id /\ q.recRow \in Row /\ q.recRow.status = "completed"
      /\ Claims(q.rec, DumpOf(q.recRow))
  BY <1>1, <1>2, <1>3, AtWork
<1>5. Claims(q.id, DumpOf(q.row))
  BY <1>1, <1>2 DEF Claims
<1>6. PICK v \in {"completed", "failed"} : v = IF q.pc = "persist" THEN "completed" ELSE "failed"
  OBVIOUS
<1>7. PICK r : r = [q.recRow EXCEPT !.restore = v]
  OBVIOUS
<1>8. /\ r \in Row /\ r.restore # "running" /\ r.status = "completed"
      /\ DumpOf(r) = DumpOf(q.recRow)
  <2>1. v \in RestoreStates /\ v # "running"
    BY <1>6 DEF RestoreStates
  <2> QED BY <1>4, <1>7, <2>1, RestoreWritten
<1>9. PICK first : first = [db.rows EXCEPT ![q.rec] = r]
  OBVIOUS
<1>10. r = IF q.pc = "persist" THEN [q.recRow EXCEPT !.restore = "completed"]
                               ELSE [q.recRow EXCEPT !.restore = "failed"]
  BY <1>6, <1>7
<1>11. /\ \/ /\ db' = [db EXCEPT !.rows = [first EXCEPT ![q.id] = q.row]]
             /\ stray' = stray /\ faults' = faults
          \/ /\ Failure
             /\ \E lost \in {q.rec, q.id} :
                   /\ db' = [db EXCEPT !.rows = IF lost = q.id THEN first
                                                ELSE [db.rows EXCEPT ![q.id] = q.row]]
                   /\ stray' = stray \cup {lost}
       /\ op' = [op EXCEPT ![s] = None] /\ lock' = IF lock = s THEN None ELSE lock
       /\ snap' = snap /\ file' = file /\ object' = object /\ names' = names /\ next' = next
       /\ now' = now /\ up' = up /\ del' = del /\ deleted' = deleted
       /\ split' = split /\ edits' = edits
  BY <1>2, <1>9, <1>10, Zenon
     DEF PersistRestoreRecords, UpsertBackupRecord, Release, store
<1>12. faults' \in 0..MaxFaults
  BY <1>11, OneFault
<1>13. stray \subseteq stray' /\ stray' \subseteq Ids
  BY <1>4, <1>11, BackupTypes
<1>14. PICK R : /\ db' = [db EXCEPT !.rows = R]
                /\ \/ R = [first EXCEPT ![q.id] = q.row]
                   \/ R = first
                   \/ R = [db.rows EXCEPT ![q.id] = q.row] /\ q.rec \in stray'
  BY <1>11
<1>15. /\ R \in Table
       /\ \A j \in Ids : \/ j = q.rec /\ R[j] = r
                         \/ j = q.id /\ R[j] = q.row
                         \/ R[j] = db.rows[j] /\ (j = q.rec => j \in stray')
  <2>1. db.rows \in Table
    BY BackupTypes
  <2>2. /\ first \in Table
        /\ \A j \in Ids : first[j] = IF j = q.rec THEN r ELSE db.rows[j]
    BY <1>4, <1>8, <1>9, <2>1 DEF Table
  <2>3. ASSUME NEW T \in Table
        PROVE  /\ [T EXCEPT ![q.id] = q.row] \in Table
               /\ \A j \in Ids : [T EXCEPT ![q.id] = q.row][j] = IF j = q.id THEN q.row ELSE T[j]
    BY <1>4 DEF Table
  <2>4. CASE R = [first EXCEPT ![q.id] = q.row]
    BY <1>4, <2>2, <2>4 DEF Table
  <2>5. CASE R = first
    BY <2>2, <2>5
  <2>6. CASE R = [db.rows EXCEPT ![q.id] = q.row] /\ q.rec \in stray'
    BY <2>1, <2>3, <2>6
  <2> QED BY <1>14, <2>4, <2>5, <2>6
<1>16. db' \in Database /\ db'.rows = R
  BY <1>14, <1>15, RowsWritten, BackupTypes
<1>17. \A i \in Ids : \A h : Done(db'.rows, i, h) => Claims(i, h)
  BY <1>4, <1>5, <1>8, <1>15, <1>16, TableClaims DEF Done
<1>18. \A i, h : Good(i, h) => Good(i, h)'
  BY <1>11, GoodStays
<1>19. \A i \in Ids : db'.rows[i] # None =>
           /\ db'.rows[i].status = "running" =>
                 /\ db.rows[i] # None /\ db.rows[i].status = "running"
                 /\ i = op[s].id => op[s].pc \notin Making
           /\ db'.rows[i].restore = "running" =>
                 /\ db.rows[i] # None /\ db.rows[i].restore = "running"
                 /\ i = op[s].rec => i \in stray'
  BY <1>1, <1>2, <1>3, <1>4, <1>8, <1>15, <1>16
<1>20. /\ op' = [op EXCEPT ![s] = None] /\ lock' = IF lock = s THEN None ELSE lock
       /\ snap' = snap /\ file' = file /\ object' = object /\ names' = names /\ next' = next
       /\ now' = now /\ up' = up /\ del' = del /\ deleted' = deleted
       /\ split' = split /\ edits' = edits
  BY <1>11
<1> QED BY <1>1, <1>12, <1>13, <1>16, <1>17, <1>18, <1>19, <1>20, BackupTypes, ReleaseKeeps

LEMMA StorePreRestoreResultKeeps ==
    ASSUME BackupInv, NEW s \in Servers, StorePreRestoreResult(s)
    PROVE  BackupInv'
<1>1. /\ op[s] # None /\ op[s].pc = "finish" /\ op[s].pc \in Making /\ op[s].pc # "source"
      /\ op[s].rec # None
  BY DEF StorePreRestoreResult, At, Restoring, Making
<1>2. PICK q : q = op[s]
  OBVIOUS
<1>3. /\ q \in Operation /\ q.id \in Ids /\ q.id < next /\ q.row \in Row
      /\ q.row.restore = "none" /\ q.row.status = "running" /\ q.row.path
      /\ q.rec \in Ids /\ q.rec # q.id /\ q.rec < next /\ q.recRow \in Row
      /\ q.recRow.status = "completed" /\ Claims(q.rec, DumpOf(q.recRow))
      /\ q.temp \in Dumps \cup {None}
  BY <1>1, <1>2, AtWork
<1>4. /\ snap' = snap /\ file' = file /\ object' = object /\ names' = names /\ next' = next
      /\ now' = now /\ up' = up /\ del' = del /\ deleted' = deleted /\ split' = split
      /\ edits' = edits
  BY DEF StorePreRestoreResult, store
<1>5. \A i, h : Good(i, h) => Good(i, h)'
  BY <1>4, GoodStays
<1>6. PICK r : r = [q.row EXCEPT !.status = "completed"]
  OBVIOUS
<1>7. /\ r \in Row /\ r.path /\ r.status = "completed" /\ r.restore = "none"
      /\ DumpOf(r) = DumpOf(q.row)
  BY <1>3, <1>6 DEF Row, DumpOf
<1>8. CASE /\ op' = [op EXCEPT ![s].row = r, ![s].pc = "load"]
           /\ db' = [db EXCEPT !.rows = UpdateBackupRecord(db.rows, q.id, r)]
           /\ lock' = lock /\ stray' = stray /\ faults' = faults
  <2>1. PICK o : o = [q EXCEPT !.row = r, !.pc = "load"]
    OBVIOUS
  <2>2. /\ o \in Operation /\ o.pc = "load" /\ o.row = r /\ o.id = q.id /\ o.rec = q.rec
        /\ o.recRow = q.recRow /\ o.temp = q.temp
    <3>1. "load" \in PC
      BY DEF PC
    <3> QED BY <1>3, <1>7, <2>1, <3>1 DEF Operation
  <2>3. op' = [op EXCEPT ![s] = o]
    BY <1>2, <1>8, <2>1
  <2>4. /\ \A t \in Servers : op'[t] = IF t = s THEN o ELSE op[t]
        /\ op' \in [Servers -> Operation \cup {None}]
    BY <2>2, <2>3, OneMoves
  <2>5. o.pc \notin Making /\ o.pc \in Made /\ o # None
    BY <2>2, BackupTypes DEF Making, Made
  <2>6. PICK R : R = UpdateBackupRecord(db.rows, q.id, r)
    OBVIOUS
  <2>7. /\ R \in Table
        /\ \A j \in Ids : /\ R[j] = None <=> db.rows[j] = None
                          /\ j # q.id => R[j] = db.rows[j]
        /\ db.rows[q.id] # None =>
              /\ R[q.id].status = "completed" /\ R[q.id].restore = db.rows[q.id].restore
              /\ DumpOf(R[q.id]) = DumpOf(r)
    <3>1. db.rows \in Table
      BY BackupTypes
    <3>2. r \in Row /\ r.status = "completed" /\ q.id \in Ids
      BY <1>3, <1>7
    <3> QED BY <2>6, <3>1, <3>2, RecordUpdated
  <2>8. db' \in Database /\ db'.rows = R
    BY <1>8, <2>6, <2>7, RowsWritten, BackupTypes
  <2>9. /\ Dumps' = Dumps
        /\ \A k \in Dumps' : \A i \in Ids : \A h : Done(snap'[k].rows, i, h) => Claims(i, h)
    BY <1>4, SameDumps
  <2>10. TypeOK'
    BY <1>4, <1>8, <2>4, <2>8, BackupTypes DEF TypeOK
  <2>11. Records'
    BY <1>4, <2>9 DEF BackupInv, Records
  <2>12. next' \in Nat /\ next <= next'
    BY <1>4, BackupTypes
  <2>13. Operations'
    <3>1. Shaped(o, next', Dumps')
      <4>1. /\ o.rec # None /\ o.rec < next' /\ o.rec # o.id /\ o.recRow \in Row
            /\ o.recRow.status = "completed" /\ o.id \in Ids /\ o.id < next'
            /\ o.row \in Row /\ o.row.restore = "none" /\ o.row.status = "completed"
            /\ o.temp # None => o.temp \in Dumps'
            /\ o.pc # "source"
        BY <1>1, <1>2, <1>3, <1>4, <1>7, <2>2, <2>9
      <4>2. o.row.path
        BY <1>7, <2>2
      <4> QED BY <2>5, <4>1, <4>2, Zenon DEF Shaped
    <3> QED BY <1>1, <1>2, <2>2, <2>3, <2>9, <2>12, <3>1, OperationsKept
  <2>14. Exclusive'
    BY <1>1, <1>4, <1>8, <2>4, ExclusiveKept
  <2>15. Owned'
    <3>1. \A i \in Ids : Maker(i) /\ i # q.id => Maker(i)'
      BY <1>2, <1>4, <1>8, <2>4, MakerStays
    <3>2. \A i \in Ids : Restorer(i) => Restorer(i)'
      BY <1>2, <1>4, <1>8, <2>2, <2>4, <2>5, RestorerStays
    <3> QED BY <2>7, <2>8, <3>1, <3>2 DEF BackupInv, Owned
  <2>16. Verified'
    <3>1. CASE split
      BY <1>4, <3>1 DEF Verified
    <3>2. CASE ~split
      <4>1. \/ Source(s) = None \/ Source(s) = op[s].recRow.sha
            \/ names[op[s].id] = names[op[s].rec]
        BY <1>1, <3>2 DEF BackupInv, Verified
      <4> QED BY <1>1, <1>2, <1>4, <2>2, <2>4, <4>1, VerifiedKept
              DEF Source, SourceOf, SourceName
    <3> QED BY <3>1, <3>2
  <2>17. PICK n : n = q.id
    OBVIOUS
  <2>18. PICK g : g = DumpOf(r)
    OBVIOUS
  <2>19. Claimed'
    <3>1. Good(n, g)'
      BY <1>1, <1>2, <1>5, <1>7, <2>17, <2>18 DEF BackupInv, Dumped
    <3>2. \A i, h : Claims(i, h) => Good(i, h)'
      BY <1>5, ClaimsAreGood
    <3>3. \A i \in Ids : \A h : Done(db'.rows, i, h) => Claims(i, h) \/ (i = n /\ h = g)
      BY <2>7, <2>8, <2>17, <2>18, TableClaims DEF Done
    <3>4. ~Pending(n)'
      BY <1>1, <1>2, <1>3, <2>4, <2>5, <2>17, BackupTypes DEF BackupInv, Operations, Pending
    <3>5. n \in Ids /\ n # None /\ n < next'
      BY <1>3, <1>4, <2>17, BackupTypes
    <3>6. Claims(o.rec, DumpOf(o.recRow)) /\ o.id = n /\ DumpOf(o.row) = g
      BY <1>3, <2>2, <2>17, <2>18
    <3> QED BY <2>4, <2>5, <2>9, <2>12, <3>1, <3>2, <3>3, <3>4, <3>5, <3>6, ClaimedKept
  <2>20. Dumped'
    <3>1. o.pc # "digest" /\ o.pc \notin {"upload", "finish"}
      BY <2>2
    <3> QED BY <1>5, <2>4, <3>1, DumpedKept
  <2> QED BY <2>10, <2>11, <2>13, <2>14, <2>15, <2>16, <2>19, <2>20 DEF BackupInv
<1>9. CASE /\ Failure
           /\ \E lost \in {L \in Losses(s) : q.id \in L} :
                 /\ stray' = stray \cup lost
                 /\ db' = [db EXCEPT !.rows = RestoreFailed(db.rows, s, lost)]
           /\ Release(s)
  <2>1. op' = [op EXCEPT ![s] = None] /\ lock' = IF lock = s THEN None ELSE lock
    BY <1>9 DEF Release
  <2>2. faults' \in 0..MaxFaults
    BY <1>9, OneFault
  <2>3. PICK lost \in Losses(s) :
           /\ q.id \in lost /\ stray' = stray \cup lost
           /\ db' = [db EXCEPT !.rows = RestoreFailed(db.rows, s, lost)]
    BY <1>9
  <2> QED BY <1>1, <1>2, <1>4, <2>1, <2>2, <2>3, GivenUpKeeps
<1> QED BY <1>2, <1>6, <1>8, <1>9, Zenon DEF StorePreRestoreResult

LEMMA FilesRemoved ==
    ASSUME BackupInv, NEW S, NEW rows, RemoveFiles(S, rows)
    PROVE  /\ file' \in [Seconds -> Ids \cup {None}]
           /\ object' \in [Seconds -> Ids \cup {None}]
           /\ \A t \in Seconds : file'[t] = file[t] \/ file'[t] = None
           /\ \A t \in Seconds : object'[t] = object[t] \/ object'[t] = None
BY BackupTypes DEF RemoveFiles

LEMMA FinishBackupKeeps ==
    ASSUME BackupInv, NEW s \in Servers, FinishBackup(s)
    PROVE  BackupInv'
<1>1. /\ op[s] # None /\ op[s].pc = "finish" /\ op[s].pc \in Making /\ op[s].pc # "source"
      /\ op[s].rec = None
  BY DEF FinishBackup, At, Restoring, Making
<1>2. PICK q : q = op[s]
  OBVIOUS
<1>3. /\ q \in Operation /\ q.id \in Ids /\ q.id < next /\ q.row \in Row
      /\ q.row.restore = "none" /\ q.row.status = "running" /\ q.row.path
  BY <1>1, <1>2, AtWork
<1>4. PICK r : r = [q.row EXCEPT !.status = "completed"]
  OBVIOUS
<1>5. /\ r \in Row /\ r.status = "completed" /\ DumpOf(r) = DumpOf(q.row)
  BY <1>3, <1>4, StatusWritten
<1>6. PICK P : P = UpdateBackupRecord(db.rows, q.id, r)
  OBVIOUS
<1>7. /\ P \in Table
      /\ \A j \in Ids : /\ P[j] = None <=> db.rows[j] = None
                        /\ j # q.id => P[j] = db.rows[j]
      /\ db.rows[q.id] # None =>
            /\ P[q.id].status = "completed" /\ P[q.id].restore = db.rows[q.id].restore
            /\ DumpOf(P[q.id]) = DumpOf(r)
  <2>1. db.rows \in Table
    BY BackupTypes
  <2> QED BY <1>3, <1>5, <1>6, <2>1, RecordUpdated
<1>8. PICK rows \in {db.rows, UpdateBackupRecord(db.rows, op[s].id,
                                                [op[s].row EXCEPT !.status = "completed"])},
           aged \in 0..(op[s].id - 1) :
        LET S == {j \in ShouldDelete(rows, aged) : ~InProgress(rows[j])} IN
        /\ IF rows = db.rows /\ rows[op[s].id] # None
              THEN Failure /\ stray' = stray \cup {op[s].id} ELSE UNCHANGED <<faults, stray>>
        /\ RemoveFiles(S, rows)
        /\ db' = [db EXCEPT !.rows = [j \in Ids |-> IF j \in S THEN None ELSE rows[j]]]
        /\ deleted' = deleted \cup S
  BY Zenon DEF FinishBackup
<1>9. rows \in {db.rows, P}
  BY <1>2, <1>4, <1>6, <1>8
<1>10. IF rows = db.rows /\ rows[q.id] # None
         THEN Failure /\ stray' = stray \cup {q.id} ELSE faults' = faults /\ stray' = stray
  BY <1>2, <1>8
<1>11. PICK S : S = {j \in ShouldDelete(rows, aged) : ~InProgress(rows[j])}
  OBVIOUS
<1>12. S \subseteq Ids
  BY <1>11 DEF ShouldDelete, Completed
<1>13. PICK R : R = [j \in Ids |-> IF j \in S THEN None ELSE rows[j]]
  OBVIOUS
<1>14. RemoveFiles(S, rows) /\ db' = [db EXCEPT !.rows = R] /\ deleted' = deleted \cup S
  BY <1>8, <1>11, <1>13
<1>15. R \in Table /\ \A j \in Ids : R[j] = None \/ R[j] = rows[j]
  BY <1>7, <1>9, <1>13, BackupTypes DEF Table
<1>16. db' \in Database /\ db'.rows = R
  BY <1>14, <1>15, RowsWritten, BackupTypes
<1>17. /\ op' = [op EXCEPT ![s] = None] /\ lock' = IF lock = s THEN None ELSE lock
       /\ snap' = snap /\ names' = names /\ next' = next /\ now' = now
       /\ up' = up /\ del' = del /\ split' = split /\ edits' = edits
  BY DEF FinishBackup, Release
<1>18. /\ file' \in [Seconds -> Ids \cup {None}]
       /\ object' \in [Seconds -> Ids \cup {None}]
       /\ \A t \in Seconds : file'[t] = file[t] \/ file'[t] = None
       /\ \A t \in Seconds : object'[t] = object[t] \/ object'[t] = None
  BY <1>14, FilesRemoved
<1>19. faults' \in 0..MaxFaults
  BY <1>10, OneFault
<1>20. /\ stray \subseteq stray' /\ stray' \subseteq Ids
       /\ rows = db.rows /\ rows[q.id] # None => q.id \in stray'
  BY <1>3, <1>10, BackupTypes
<1>21. deleted \subseteq deleted' /\ deleted' \subseteq Ids /\ S \subseteq deleted'
  BY <1>12, <1>14, BackupTypes
<1>22. \A i \in Ids : \A h : i < next /\ Good(i, h) => Good(i, h)'
  BY <1>12, <1>14, <1>17, <1>21, GoodUnlessDeleted
<1>23. \A i \in Ids : \A h : Done(db'.rows, i, h) =>
          Claims(i, h) \/ (i = op[s].id /\ h = DumpOf(op[s].row))
  <2>1. \A i \in Ids : \A h : Done(db'.rows, i, h) => Done(rows, i, h)
    BY <1>15, <1>16 DEF Done
  <2>2. \A i \in Ids : \A h : Done(P, i, h) =>
           Done(db.rows, i, h) \/ (i = op[s].id /\ h = DumpOf(op[s].row))
    BY <1>2, <1>5, <1>7 DEF Done
  <2> QED BY <1>9, <2>1, <2>2, TableClaims
<1>24. \A i \in Ids : db'.rows[i] # None =>
           /\ db'.rows[i].status = "running" =>
                 /\ db.rows[i] # None /\ db.rows[i].status = "running"
                 /\ i = op[s].id => i \in stray'
           /\ db'.rows[i].restore = "running" =>
                 /\ db.rows[i] # None /\ db.rows[i].restore = "running"
                 /\ i # op[s].rec
  <2>1. \A i \in Ids : R[i] # None =>
           /\ db.rows[i] # None /\ R[i].restore = db.rows[i].restore
           /\ R[i].status = "running" => /\ db.rows[i].status = "running"
                                         /\ i = q.id => i \in stray'
    BY <1>7, <1>9, <1>15, <1>20
  <2> QED BY <1>1, <1>2, <1>16, <2>1, BackupTypes
<1>25. up' \subseteq Servers /\ edits' \in 0..MaxEdits /\ stray \subseteq stray' /\ stray' \subseteq Ids
  BY <1>17, <1>20, BackupTypes
<1>26. \A i \in Ids : db'.rows[i] # None =>
           /\ db'.rows[i].status = "running" =>
                 /\ db.rows[i] # None /\ db.rows[i].status = "running"
                 /\ i = op[s].id => op[s].pc \notin Making \/ i \in stray' \/ up' # Servers
           /\ db'.rows[i].restore = "running" =>
                 /\ db.rows[i] # None /\ db.rows[i].restore = "running"
                 /\ i = op[s].rec => i \in stray' \/ up' # Servers
  BY <1>24
<1> QED BY <1>1, <1>16, <1>17, <1>18, <1>19, <1>21, <1>22, <1>23, <1>25, <1>26, ReleaseKeeps

LEMMA StartRestoreKeeps ==
    ASSUME BackupInv, NEW s \in Servers, NEW i \in Ids, StartRestore(s, i)
    PROVE  BackupInv'
<1>1. /\ s \in up /\ op[s] = None /\ lock = None /\ lock' = s
      /\ db.rows[i] # None /\ db.rows[i].status = "completed"
      /\ db' = [db EXCEPT !.rows = UpdateRestoreState(db.rows, i, "running")]
      /\ snap' = snap /\ file' = file /\ object' = object /\ names' = names /\ next' = next
      /\ now' = now /\ up' = up /\ del' = del /\ deleted' = deleted /\ stray' = stray
      /\ split' = split /\ faults' = faults /\ edits' = edits
  BY DEF StartRestore, Acquire, store, history, bounds
<1>2. db.rows[i] \in Row /\ "running" \in RestoreStates
  BY <1>1, BackupTypes DEF Table, RestoreStates
<1>3. PICK r : r = [db.rows[i] EXCEPT !.restore = "running"]
  OBVIOUS
<1>4. r \in Row /\ r.status = "completed" /\ DumpOf(r) = DumpOf(db.rows[i])
  BY <1>1, <1>2, <1>3, RestoreWritten
<1>5. PICK o : o = [pc |-> "source", id |-> None, row |-> None, rec |-> i, recRow |-> r, temp |-> None]
  OBVIOUS
<1>6. /\ o \in Operation /\ o.pc = "source" /\ o.id = None /\ o.rec = i /\ o.recRow = r
      /\ o.temp = None
  BY <1>4, <1>5 DEF Operation, PC
<1>7. op' = [op EXCEPT ![s] = o]
  BY <1>3, <1>5 DEF StartRestore
<1>8. /\ \A t \in Servers : op'[t] = IF t = s THEN o ELSE op[t]
      /\ op' \in [Servers -> Operation \cup {None}]
  BY <1>6, <1>7, OneMoves
<1>9. o.pc \notin Making /\ o.pc \notin Made /\ o # None
  BY <1>6, BackupTypes DEF Making, Made
<1>10. Claims(o.rec, DumpOf(o.recRow))
  <2>1. Done(db.rows, i, DumpOf(db.rows[i]))
    BY <1>1 DEF Done
  <2> QED BY <1>4, <1>6, <2>1, TableClaims
<1>11. i < next
  BY <1>6, <1>10, ClaimsAreGood
<1>12. PICK R : R = UpdateRestoreState(db.rows, i, "running")
  OBVIOUS
<1>13. /\ R \in Table
       /\ \A j \in Ids : /\ R[j] = None <=> db.rows[j] = None
                         /\ j # i => R[j] = db.rows[j]
       /\ R[i].status = db.rows[i].status
  BY <1>1, <1>2, <1>12, StateUpdated, BackupTypes
<1>14. db' \in Database /\ db'.rows = R
  BY <1>1, <1>12, <1>13, RowsWritten, BackupTypes
<1>15. /\ Dumps' = Dumps
       /\ \A k \in Dumps' : \A j \in Ids : \A h : Done(snap'[k].rows, j, h) => Claims(j, h)
  BY <1>1, SameDumps
<1>16. next' \in Nat /\ next <= next'
  BY <1>1, BackupTypes
<1>17. TypeOK'
  BY <1>1, <1>8, <1>14, BackupTypes DEF TypeOK
<1>18. Records'
  BY <1>1, <1>15 DEF BackupInv, Records
<1>19. Operations'
  <2>1. Shaped(o, next', Dumps')
    BY <1>1, <1>4, <1>6, <1>9, <1>11, BackupTypes DEF Shaped
  <2> QED BY <1>6, <1>7, <1>15, <1>16, <2>1, OperationsKept
<1>20. Exclusive'
  BY <1>1, <1>8, ExclusiveGained
<1>21. Owned'
  <2>1. \A j \in Ids : Maker(j) => Maker(j)'
    BY <1>1, <1>8, MakerStays
  <2>2. \A j \in Ids : Restorer(j) => Restorer(j)'
    BY <1>1, <1>8, RestorerStays
  <2>3. Restorer(i)'
    BY <1>6, <1>8, <1>9 DEF Restorer
  <2> QED BY <1>13, <1>14, <2>1, <2>2, <2>3 DEF BackupInv, Owned
<1>22. Verified'
  <2>1. o.pc \notin Making \cup {"load"}
    BY <1>6, <1>9
  <2> QED BY <1>1, <1>8, <2>1, VerifiedKept
<1>23. \A j, h : Good(j, h) => Good(j, h)'
  BY <1>1, GoodStays
<1>24. Claimed'
  <2>1. \A j, h : Claims(j, h) => Good(j, h)'
    BY <1>23, ClaimsAreGood
  <2>2. \A j \in Ids : \A h : Done(db'.rows, j, h) => Claims(j, h)
    BY <1>2, <1>12, <1>14, StateClaims, TableClaims, BackupTypes
  <2> QED BY <1>8, <1>9, <1>10, <1>15, <1>16, <2>1, <2>2, ClaimedKept
<1>25. Dumped'
  <2>1. o.pc # "digest" /\ o.pc \notin {"upload", "finish"}
    BY <1>6
  <2> QED BY <1>8, <1>23, <2>1, DumpedKept
<1> QED BY <1>17, <1>18, <1>19, <1>20, <1>21, <1>22, <1>24, <1>25 DEF BackupInv

LEMMA VerifySourceKeeps ==
    ASSUME BackupInv, NEW s \in Servers, VerifySource(s)
    PROVE  BackupInv'
<1>1. op[s] # None /\ op[s].pc = "source" /\ op[s].pc \notin Making
  BY DEF VerifySource, At, Making
<1>2. PICK q : q = op[s]
  OBVIOUS
<1>3. /\ q \in Operation /\ q.rec # None
  BY <1>1, <1>2, AtWork DEF Shaped
<1>4. /\ q.rec \in Ids /\ q.rec < next /\ q.recRow \in Row /\ q.recRow.status = "completed"
      /\ Claims(q.rec, DumpOf(q.recRow))
  BY <1>1, <1>2, <1>3, AtWork
<1>5. PICK d : d = Download(s)
  OBVIOUS
<1>6. names[q.rec] \in Seconds
  BY <1>4, Named
<1>7. d \in Ids \cup {None} /\ (d # None => d \in Dumps)
  BY <1>2, <1>5, <1>6, BackupTypes DEF Download, HasObject, SourceName, BackupInv, Records
<1>8. (IF d # None THEN d ELSE file[names[q.rec]]) = q.recRow.sha
  BY <1>2, <1>5 DEF VerifySource, DigestMatches, SourceOf, SourceName
<1>9. PICK o : o = [q EXCEPT !.pc = "dump", !.id = next, !.row = NewRow, !.temp = d]
  OBVIOUS
<1>10. /\ CreateBackupRecord
       /\ snap' = snap /\ file' = file /\ object' = object /\ now' = now /\ up' = up /\ lock' = lock
       /\ del' = del /\ deleted' = deleted /\ stray' = stray /\ split' = split
       /\ faults' = faults /\ edits' = edits
  BY DEF VerifySource, store, history, bounds
<1>11. op' = [op EXCEPT ![s] = o]
  BY <1>2, <1>5, <1>9 DEF VerifySource
<1>12. next \in Ids
  BY <1>10, Created
<1>13. /\ o \in Operation /\ o.pc = "dump" /\ o.id = next /\ o.row = NewRow
       /\ o.rec = q.rec /\ o.recRow = q.recRow /\ o.temp = d
  <2>1. "dump" \in PC
    BY DEF PC
  <2> QED BY <1>3, <1>7, <1>9, <1>12, <2>1, NewRowIsRow DEF Operation
<1>14. /\ \A t \in Servers : op'[t] = IF t = s THEN o ELSE op[t]
       /\ op' \in [Servers -> Operation \cup {None}]
  BY <1>11, <1>13, OneMoves
<1>15. /\ Dumps' = Dumps
       /\ \A k \in Dumps' : \A i \in Ids : \A h : Done(snap'[k].rows, i, h) => Claims(i, h)
  BY <1>10, SameDumps
<1>16. o.pc \in Making /\ o.pc \notin Made /\ o # None
  BY <1>13, BackupTypes DEF Making, Made
<1>17. PICK n : n = next
  OBVIOUS
<1>18. /\ n \in Ids /\ ~(n < n) /\ n < next' /\ n <= next' /\ next' \in Nat
       /\ \A i \in Ids : i # n => db'.rows[i] = db.rows[i] /\ names'[i] = names[i]
       /\ db'.rows[n].status = "running" /\ db'.rows[n].restore = "none"
       /\ db' \in Database /\ names' \in [Ids -> Seconds \cup {None}]
       /\ next' \in 1..(MaxBackups + 1) /\ Records'
  BY <1>10, <1>17, Created, NewRowIsRow
<1>19. q.rec < next' /\ q.rec # n
  BY <1>4, <1>17, <1>18, BackupTypes
<1>20. TypeOK'
  BY <1>10, <1>14, <1>18, BackupTypes DEF TypeOK
<1>21. Operations'
  <2>1. Shaped(o, next', Dumps')
    BY <1>3, <1>4, <1>7, <1>13, <1>15, <1>16, <1>17, <1>18, <1>19, NewRowIsRow DEF Shaped
  <2> QED BY <1>11, <1>13, <1>15, <1>17, <1>18, <2>1, OperationsKept
<1>22. Exclusive'
  BY <1>1, <1>10, <1>14, ExclusiveKept
<1>23. Owned'
  <2>1. \A i \in Ids : Maker(i) => Maker(i)'
    BY <1>1, <1>10, <1>14, MakerStays
  <2>2. \A i \in Ids : Restorer(i) => Restorer(i)'
    BY <1>2, <1>10, <1>13, <1>14, <1>16, RestorerStays
  <2>3. Maker(n)'
    BY <1>13, <1>14, <1>16, <1>17 DEF Maker
  <2> QED BY <1>18, <2>1, <2>2, <2>3 DEF BackupInv, Owned
<1>24. Verified'
  <2>1. file'[names'[o.rec]] = file[names[q.rec]]
    BY <1>4, <1>10, <1>13, <1>18, <1>19
  <2> QED BY <1>1, <1>8, <1>10, <1>13, <1>14, <2>1, VerifiedKept
<1>25. \A i \in Ids : \A h : i < next /\ Good(i, h) => Good(i, h)'
  BY <1>10, Created
<1>26. Claimed'
  <2>1. \A i, h : Claims(i, h) => Good(i, h)'
    BY <1>25, ClaimsAreGood
  <2>2. ~(o.id < next)
    BY <1>13, <1>17, <1>18
  <2>3. Claims(o.rec, DumpOf(o.recRow))
    BY <1>4, <1>13
  <2>4. \A i \in Ids : \A h : Done(db'.rows, i, h) => Claims(i, h)
    BY <1>10, Created
  <2>5. next' \in Nat /\ next <= next'
    BY <1>17, <1>18
  <2>6. \A t \in Servers : op'[t] = IF t = s THEN o ELSE op[t]
    BY <1>14
  <2>7. \A k \in Dumps' : \A i \in Ids : \A h : Done(snap'[k].rows, i, h) => Claims(i, h)
    BY <1>15
  <2>8. o.pc \notin Made
    BY <1>16
  <2> QED BY <2>1, <2>2, <2>3, <2>4, <2>5, <2>6, <2>7, <2>8, ClaimedKept
<1>27. Dumped'
  <2>1. o.pc # "digest" /\ o.pc \notin {"upload", "finish"}
    BY <1>13
  <2> QED BY <1>14, <1>25, <2>1, DumpedKept
<1> QED BY <1>18, <1>20, <1>21, <1>22, <1>23, <1>24, <1>26, <1>27 DEF BackupInv

\* A restore goes on with what it has.
LEMMA ClaimsStay ==
    ASSUME BackupInv, next' \in Nat, next <= next', NEW s, NEW o,
           \A t \in Servers : op'[t] = IF t = s THEN o ELSE op[t],
           Claims(o.rec, DumpOf(o.recRow)), Claims(o.id, DumpOf(o.row)), o.pc \notin Making,
           \A i \in Ids : \A h : Done(db'.rows, i, h) => Claims(i, h),
           \A k \in Dumps' : \A i \in Ids : \A h : Done(snap'[k].rows, i, h) => Claims(i, h),
           \A i, h : Claims(i, h) => Good(i, h)'
    PROVE  Claimed'
<1>1. \A i, h : Claims(i, h)' => Claims(i, h)
  BY DEF Claims
<1>2. \A i : Pending(i)' => Pending(i)
  BY DEF Pending
<1>3. \A i \in Ids : i < next => i < next'
  BY BackupTypes
<1> QED BY <1>1, <1>2, <1>3, ClaimsAreGood DEF Claimed

LEMMA RunPgRestoreKeeps ==
    ASSUME BackupInv, NEW s \in Servers, RunPgRestore(s)
    PROVE  BackupInv'
<1>1. op[s] # None /\ op[s].pc = "load" /\ op[s].pc \in Made /\ op[s].pc # "source"
  BY DEF RunPgRestore, At, Made
<1>2. PICK q : q = op[s]
  OBVIOUS
<1>3. /\ q \in Operation /\ q.rec # None /\ Shaped(q, next, Dumps)
  BY <1>1, <1>2, AtWork DEF Shaped
<1>4. /\ q.rec \in Ids /\ q.rec < next /\ Claims(q.rec, DumpOf(q.recRow))
      /\ q.temp \in Dumps \cup {None}
  BY <1>1, <1>2, <1>3, AtWork
<1>5. Claims(q.id, DumpOf(q.row))
  BY <1>1, <1>2 DEF Claims
<1>6. PICK k : k = Source(s)
  OBVIOUS
<1>7. names[q.rec] \in Seconds
  BY <1>4, Named
<1>8. k # None => k \in Dumps
  BY <1>2, <1>4, <1>6, <1>7 DEF Source, SourceOf, SourceName, BackupInv, Records
<1>9. /\ snap' = snap /\ file' = file /\ object' = object /\ names' = names /\ next' = next
      /\ now' = now /\ up' = up /\ lock' = lock /\ del' = del /\ deleted' = deleted
      /\ split' = split /\ edits' = edits
  BY DEF RunPgRestore, store
<1>10. PICK p \in {"persist", "undone"} :
         /\ op' = [op EXCEPT ![s].pc = p]
         /\ \/ /\ k # None /\ db' = snap[k] /\ faults' = faults
               /\ stray' = stray \cup Stuck(snap[k].rows)
            \/ /\ k = None \/ faults < MaxFaults
               /\ faults' = IF k = None THEN faults ELSE faults + 1
               /\ db' = db /\ stray' = stray
  BY <1>6 DEF RunPgRestore
<1>11. PICK o : o = [q EXCEPT !.pc = p]
  OBVIOUS
<1>12. /\ o \in Operation /\ o.pc = p /\ o.row = q.row /\ o.id = q.id /\ o.rec = q.rec
       /\ o.recRow = q.recRow /\ o.temp = q.temp
  <2>1. p \in PC
    BY <1>10 DEF PC
  <2> QED BY <1>3, <1>11, <2>1 DEF Operation
<1>13. op' = [op EXCEPT ![s] = o]
  BY <1>2, <1>10, <1>11
<1>14. /\ \A t \in Servers : op'[t] = IF t = s THEN o ELSE op[t]
       /\ op' \in [Servers -> Operation \cup {None}]
  BY <1>12, <1>13, OneMoves
<1>15. /\ o.pc \notin Making /\ o.pc \notin {"load", "digest", "upload", "finish", "source", "dump"}
       /\ o.pc \in Made /\ o # None
  BY <1>10, <1>12, BackupTypes DEF Making, Made
<1>16. /\ Dumps' = Dumps
       /\ \A j \in Dumps' : \A i \in Ids : \A h : Done(snap'[j].rows, i, h) => Claims(i, h)
  BY <1>9, SameDumps
<1>17. /\ db' \in Database
       /\ \A i \in Ids : \A h : Done(db'.rows, i, h) => Claims(i, h)
       /\ stray \subseteq stray' /\ stray' \subseteq Ids
       /\ \A i \in Ids : db'.rows[i] # None /\ InProgress(db'.rows[i]) =>
             i \in stray' \/ db'.rows[i] = db.rows[i]
  <2>1. CASE /\ k # None /\ db' = snap[k]
             /\ stray' = stray \cup Stuck(snap[k].rows)
    <3>1. k \in Dumps /\ db' \in Database
      BY <1>8, <2>1 DEF Dumps
    <3> QED BY <2>1, <3>1, DumpsClaim, BackupTypes DEF Stuck
  <2>2. CASE db' = db /\ stray' = stray
    BY <2>2, TableClaims, BackupTypes
  <2> QED BY <1>10, <2>1, <2>2
<1>18. faults' \in 0..MaxFaults
  BY BackupAssumption, <1>10, BackupTypes
<1>19. next' \in Nat /\ next <= next'
  BY <1>9, BackupTypes
<1>20. TypeOK'
  BY <1>9, <1>14, <1>17, <1>18, BackupTypes DEF TypeOK
<1>21. Records'
  BY <1>9, <1>16 DEF BackupInv, Records
<1>22. Operations'
  <2>1. q.pc # "source" /\ q.pc \notin {"source", "dump"} /\ q.pc \in Made
    BY <1>1, <1>2
  <2>2. Shaped(o, next, Dumps)
    BY <1>3, <1>12, <1>15, <2>1, Zenon DEF Shaped
  <2> QED BY <1>1, <1>2, <1>9, <1>12, <1>13, <1>16, <1>19, <2>2, OperationsKept
<1>23. Exclusive'
  BY <1>1, <1>9, <1>14, ExclusiveKept
<1>24. Owned'
  <2>1. op[s].pc \notin Making
    BY <1>1 DEF Making
  <2>2. \A i \in Ids : Maker(i) => Maker(i)'
    BY <1>9, <1>14, <1>17, <2>1, MakerStays
  <2>3. \A i \in Ids : Restorer(i) => Restorer(i)'
    BY <1>2, <1>9, <1>12, <1>14, <1>15, <1>17, RestorerStays
  <2>4. \A i \in Ids : i \in stray' => Maker(i)' /\ Restorer(i)'
    BY DEF Maker, Restorer
  <2>5. ASSUME NEW i \in Ids, db'.rows[i] # None
        PROVE  /\ db'.rows[i].status = "running" => Maker(i)'
               /\ db'.rows[i].restore = "running" => Restorer(i)'
    <3>1. CASE i \in stray'
      BY <2>4, <3>1
    <3>2. CASE i \notin stray'
      <4>1. InProgress(db'.rows[i]) => db'.rows[i] = db.rows[i]
        BY <1>17, <2>5, <3>2
      <4> QED BY <2>2, <2>3, <2>5, <4>1 DEF BackupInv, Owned, InProgress
    <3> QED BY <3>1, <3>2
  <2> QED BY <2>5 DEF Owned
<1>25. Verified'
  <2>1. o.pc \notin Making \cup {"load"}
    BY <1>15
  <2> QED BY <1>1, <1>9, <1>14, <2>1, VerifiedKept
<1>26. \A i, h : Good(i, h) => Good(i, h)'
  BY <1>9, GoodStays
<1>27. Claimed'
  <2>1. \A i, h : Claims(i, h) => Good(i, h)'
    BY <1>26, ClaimsAreGood
  <2>2. Claims(o.rec, DumpOf(o.recRow)) /\ Claims(o.id, DumpOf(o.row))
    BY <1>4, <1>5, <1>12
  <2>3. \A i \in Ids : \A h : Done(db'.rows, i, h) => Claims(i, h)
    BY <1>17
  <2>4. o.pc \notin Making
    BY <1>15
  <2> QED BY <1>14, <1>16, <1>19, <2>1, <2>2, <2>3, <2>4, ClaimsStay
<1>28. Dumped'
  <2>1. o.pc # "digest" /\ o.pc \notin {"upload", "finish"}
    BY <1>15
  <2> QED BY <1>14, <1>26, <2>1, DumpedKept
<1> QED BY <1>20, <1>21, <1>22, <1>23, <1>24, <1>25, <1>27, <1>28 DEF BackupInv

\* What happens beside the operations: files may go, rows may go, settings may change.
LEMMA BesidesKeeps ==
    ASSUME BackupInv, op' = op, snap' = snap, names' = names, next' = next,
           db' \in Database, now' \in Seconds, up' \subseteq Servers,
           lock' \in Servers \cup {None}, split' \in BOOLEAN,
           split' \/ (lock' = lock /\ split' = split),
           del' \in [id : Ids, row : Row, removed : BOOLEAN] \cup {None},
           del' # None => del'.id \in deleted',
           deleted \subseteq deleted', deleted' \subseteq Ids,
           stray \subseteq stray', stray' \subseteq Ids,
           faults' \in 0..MaxFaults, edits' \in 0..MaxEdits,
           file' \in [Seconds -> Ids \cup {None}], object' \in [Seconds -> Ids \cup {None}],
           \A t \in Seconds : file'[t] = file[t] \/ file'[t] = None,
           \A t \in Seconds : object'[t] = object[t] \/ object'[t] = None,
           \A i \in Ids : \A h : i < next /\ Good(i, h) => Good(i, h)',
           \A i \in Ids : \A h : Done(db'.rows, i, h) => Claims(i, h),
           \A i \in Ids : db'.rows[i] # None /\ InProgress(db'.rows[i]) =>
               i \in stray' \/ (up' = up /\ db.rows[i] = db'.rows[i])
    PROVE  BackupInv'
<1>1. /\ Dumps' = Dumps
      /\ \A k \in Dumps' : \A i \in Ids : \A h : Done(snap'[k].rows, i, h) => Claims(i, h)
  BY SameDumps
<1>2. TypeOK'
  BY BackupTypes DEF TypeOK
<1>3. Records'
  BY RecordsKept
<1>4. Operations'
  BY <1>1 DEF BackupInv, Operations
<1>5. Exclusive'
  BY DEF BackupInv, Exclusive
<1>6. Owned'
  <2>1. ASSUME NEW i \in Ids, db'.rows[i] # None
        PROVE  /\ db'.rows[i].status = "running" => Maker(i)'
               /\ db'.rows[i].restore = "running" => Restorer(i)'
    <3>1. InProgress(db'.rows[i]) => i \in stray' \/ (up' = up /\ db.rows[i] = db'.rows[i])
      BY <2>1
    <3>2. /\ up' = up => (Maker(i) => Maker(i)') /\ (Restorer(i) => Restorer(i)')
          /\ i \in stray' => Maker(i)' /\ Restorer(i)'
      BY DEF Maker, Restorer
    <3> QED BY <2>1, <3>1, <3>2 DEF BackupInv, Owned, InProgress
  <2> QED BY <2>1 DEF Owned
<1>7. Verified'
  <2>1. CASE split'
    BY <2>1 DEF Verified
  <2>2. CASE ~split'
    <3>1. split' = split
      BY <2>2
    <3> QED BY <3>1, VerifiedStays
  <2> QED BY <2>1, <2>2
<1>8. Claimed'
  <2>1. \A i, h : Claims(i, h)' => Claims(i, h)
    BY <1>1 DEF Claims
  <2>2. \A i : Pending(i)' => Pending(i)
    BY DEF Pending
  <2> QED BY <2>1, <2>2, ClaimsAreGood DEF Claimed
<1>9. Dumped'
  <2>1. PICK s : s = None
    OBVIOUS
  <2>2. \A t \in Servers : op'[t] = IF t = s THEN None ELSE op[t]
    BY <2>1, BackupTypes
  <2> QED BY <2>2, DumpedKept
<1> QED BY <1>2, <1>3, <1>4, <1>5, <1>6, <1>7, <1>8, <1>9 DEF BackupInv

LEMMA OneEdit ==
    ASSUME BackupInv, Edit
    PROVE  edits' \in 0..MaxEdits
BY BackupAssumption, BackupTypes DEF Edit

\* The rows stay.
LEMMA RowsStay ==
    ASSUME BackupInv, db'.rows = db.rows, up' = up
    PROVE  /\ \A i \in Ids : \A h : Done(db'.rows, i, h) => Claims(i, h)
           /\ \A i \in Ids : db'.rows[i] # None /\ InProgress(db'.rows[i]) =>
                 up' = up /\ db.rows[i] = db'.rows[i]
BY TableClaims

LEMMA DeleteBackupKeeps ==
    ASSUME BackupInv, NEW i \in Ids, DeleteBackup(i)
    PROVE  BackupInv'
<1>1. /\ db' = db /\ snap' = snap /\ file' = file /\ object' = object /\ names' = names
      /\ next' = next /\ now' = now /\ op' = op /\ up' = up /\ lock' = lock /\ stray' = stray
      /\ split' = split /\ faults' = faults
      /\ deleted' = deleted \cup {i} /\ db.rows[i] # None
      /\ del' = [id |-> i, row |-> db.rows[i], removed |-> FALSE]
  BY DEF DeleteBackup, store
<1>2. edits' \in 0..MaxEdits
  BY OneEdit DEF DeleteBackup
<1>3. PICK no \in BOOLEAN : no = FALSE
  BY Zenon
<1>4. db.rows[i] \in Row
  BY <1>1, BackupTypes DEF Table
<1>5. del' \in [id : Ids, row : Row, removed : BOOLEAN] /\ del'.id \in deleted'
  <2>1. del' = [id |-> i, row |-> db.rows[i], removed |-> no]
    BY <1>1, <1>3
  <2>2. i \in deleted'
    BY <1>1
  <2> QED BY <1>3, <1>4, <2>1, <2>2
<1>6. \A j, h : Good(j, h) => Good(j, h)'
  BY <1>1, GoodStays
<1>7. deleted \subseteq deleted' /\ deleted' \subseteq Ids
  BY <1>1, BackupTypes
<1>8. /\ \A j \in Ids : \A h : Done(db'.rows, j, h) => Claims(j, h)
      /\ \A j \in Ids : db'.rows[j] # None /\ InProgress(db'.rows[j]) =>
             up' = up /\ db.rows[j] = db'.rows[j]
  BY <1>1, RowsStay
<1> QED BY <1>1, <1>2, <1>5, <1>6, <1>7, <1>8, BackupTypes, BesidesKeeps

LEMMA DeleteFilesKeeps ==
    ASSUME BackupInv, DeleteFiles
    PROVE  BackupInv'
<1>1. /\ db' = db /\ snap' = snap /\ names' = names /\ next' = next /\ now' = now /\ op' = op
      /\ up' = up /\ lock' = lock /\ deleted' = deleted /\ stray' = stray /\ split' = split
      /\ faults' = faults /\ edits' = edits
      /\ del # None /\ del' = [del EXCEPT !.removed = TRUE]
  BY DEF DeleteFiles, history, bounds
<1>2. PICK yes \in BOOLEAN : yes = TRUE
  BY Zenon
<1>3. del \in [id : Ids, row : Row, removed : BOOLEAN] /\ del.id \in deleted
  BY <1>1, BackupTypes DEF BackupInv, Records
<1>4. del' \in [id : Ids, row : Row, removed : BOOLEAN] /\ del'.id \in deleted'
  <2>1. del' = [del EXCEPT !.removed = yes]
    BY <1>1, <1>2
  <2> QED BY <1>1, <1>2, <1>3, <2>1
<1>5. PICK S : S = {del.id}
  OBVIOUS
<1>6. PICK rows : rows = [j \in Ids |-> del.row]
  OBVIOUS
<1>7. RemoveFiles(S, rows) /\ S \in SUBSET Ids /\ S \subseteq deleted'
  BY <1>1, <1>3, <1>5, <1>6 DEF DeleteFiles
<1>8. /\ file' \in [Seconds -> Ids \cup {None}]
      /\ object' \in [Seconds -> Ids \cup {None}]
      /\ \A t \in Seconds : file'[t] = file[t] \/ file'[t] = None
      /\ \A t \in Seconds : object'[t] = object[t] \/ object'[t] = None
  BY <1>7, FilesRemoved
<1>9. \A j \in Ids : \A h : j < next /\ Good(j, h) => Good(j, h)'
  BY <1>1, <1>7, GoodUnlessDeleted
<1>10. /\ \A j \in Ids : \A h : Done(db'.rows, j, h) => Claims(j, h)
       /\ \A j \in Ids : db'.rows[j] # None /\ InProgress(db'.rows[j]) =>
             up' = up /\ db.rows[j] = db'.rows[j]
  BY <1>1, RowsStay
<1> QED BY <1>1, <1>4, <1>8, <1>9, <1>10, BackupTypes, BesidesKeeps

LEMMA DeleteRowKeeps ==
    ASSUME BackupInv, DeleteRow
    PROVE  BackupInv'
<1>1. /\ snap' = snap /\ file' = file /\ object' = object /\ names' = names
      /\ next' = next /\ now' = now /\ op' = op /\ up' = up /\ lock' = lock
      /\ deleted' = deleted /\ stray' = stray /\ split' = split /\ faults' = faults
      /\ edits' = edits /\ del # None /\ del' = None
      /\ db' = [db EXCEPT !.rows[del.id] = None]
  BY DEF DeleteRow, store, history, bounds
<1>2. PICK R : R = [db.rows EXCEPT ![del.id] = None]
  OBVIOUS
<1>3. R \in Table /\ \A j \in Ids : R[j] = None \/ R[j] = db.rows[j]
  BY <1>2, BackupTypes DEF Table
<1>4. db' = [db EXCEPT !.rows = R]
  BY <1>1, <1>2, BackupTypes DEF Database
<1>5. db' \in Database /\ db'.rows = R
  BY <1>3, <1>4, RowsWritten, BackupTypes
<1>6. \A j, h : Good(j, h) => Good(j, h)'
  BY <1>1, GoodStays
<1>7. \A j \in Ids : \A h : Done(db'.rows, j, h) => Claims(j, h)
  BY <1>3, <1>5, TableClaims DEF Done
<1>8. \A j \in Ids : db'.rows[j] # None /\ InProgress(db'.rows[j]) =>
             up' = up /\ db.rows[j] = db'.rows[j]
  BY <1>1, <1>3, <1>5
<1> QED BY <1>1, <1>5, <1>6, <1>7, <1>8, BackupTypes, BesidesKeeps

LEMMA SettingsKeep ==
    ASSUME BackupInv, edits' \in 0..MaxEdits, db' \in Database,
           db'.rows = db.rows, snap' = snap, file' = file, object' = object, names' = names,
           next' = next, now' = now, op' = op, up' = up, lock' = lock, del' = del,
           deleted' = deleted, stray' = stray, split' = split, faults' = faults
    PROVE  BackupInv'
<1>1. \A j, h : Good(j, h) => Good(j, h)'
  BY GoodStays
<1>2. /\ \A j \in Ids : \A h : Done(db'.rows, j, h) => Claims(j, h)
      /\ \A j \in Ids : db'.rows[j] # None /\ InProgress(db'.rows[j]) =>
             up' = up /\ db.rows[j] = db'.rows[j]
  BY RowsStay
<1>3. del' # None => del'.id \in deleted'
  BY DEF BackupInv, Records
<1> QED BY <1>1, <1>2, <1>3, BackupTypes, BesidesKeeps

LEMMA UpdateS3ConfigKeeps ==
    ASSUME BackupInv, UpdateS3Config
    PROVE  BackupInv'
<1>1. PICK b \in BOOLEAN : b = ~db.s3
  BY Zenon
<1>2. db' = [db EXCEPT !.s3 = b]
  BY <1>1 DEF UpdateS3Config
<1>3. db' \in Database /\ db'.rows = db.rows
  BY <1>2, BackupTypes DEF Database
<1>4. edits' \in 0..MaxEdits
  BY OneEdit DEF UpdateS3Config
<1> QED BY <1>3, <1>4, SettingsKeep DEF UpdateS3Config, store, history

LEMMA UpdateScheduleKeeps ==
    ASSUME BackupInv, NEW schedule \in Schedules, UpdateSchedule(schedule)
    PROVE  BackupInv'
<1>1. db' = [db EXCEPT !.schedule = schedule]
  BY DEF UpdateSchedule
<1>2. db' \in Database /\ db'.rows = db.rows
  BY <1>1, BackupTypes DEF Database
<1>3. edits' \in 0..MaxEdits
  BY OneEdit DEF UpdateSchedule
<1> QED BY <1>2, <1>3, SettingsKeep DEF UpdateSchedule, store, history

LEMMA TickKeeps ==
    ASSUME BackupInv, Tick
    PROVE  BackupInv'
<1>1. /\ db' = db /\ snap' = snap /\ file' = file /\ object' = object /\ names' = names
      /\ next' = next /\ op' = op /\ up' = up /\ lock' = lock /\ del' = del /\ deleted' = deleted
      /\ stray' = stray /\ split' = split /\ faults' = faults /\ edits' = edits
  BY DEF Tick, store, history, bounds
<1>2. now' \in Seconds
  BY BackupAssumption, BackupTypes DEF Tick, Seconds
<1>3. \A j, h : Good(j, h) => Good(j, h)'
  BY <1>1, GoodStays
<1>4. /\ \A j \in Ids : \A h : Done(db'.rows, j, h) => Claims(j, h)
      /\ \A j \in Ids : db'.rows[j] # None /\ InProgress(db'.rows[j]) =>
             up' = up /\ db.rows[j] = db'.rows[j]
  BY <1>1, RowsStay
<1>5. del' # None => del'.id \in deleted'
  BY <1>1 DEF BackupInv, Records
<1> QED BY <1>1, <1>2, <1>3, <1>4, <1>5, BackupTypes, BesidesKeeps

LEMMA LoseSessionKeeps ==
    ASSUME BackupInv, LoseSession
    PROVE  BackupInv'
<1>1. /\ db' = db /\ snap' = snap /\ file' = file /\ object' = object /\ names' = names
      /\ next' = next /\ now' = now /\ op' = op /\ up' = up /\ lock' = None /\ del' = del
      /\ deleted' = deleted /\ stray' = stray /\ edits' = edits
  BY DEF LoseSession, store
<1>2. split' /\ split' \in BOOLEAN
  BY Zenon DEF LoseSession
<1>3. faults' \in 0..MaxFaults
  BY OneFault DEF LoseSession
<1>4. \A j, h : Good(j, h) => Good(j, h)'
  BY <1>1, GoodStays
<1>5. /\ \A j \in Ids : \A h : Done(db'.rows, j, h) => Claims(j, h)
      /\ \A j \in Ids : db'.rows[j] # None /\ InProgress(db'.rows[j]) =>
             up' = up /\ db.rows[j] = db'.rows[j]
  BY <1>1, RowsStay
<1>6. del' # None => del'.id \in deleted'
  BY <1>1 DEF BackupInv, Records
<1> QED BY <1>1, <1>2, <1>3, <1>4, <1>5, <1>6, BackupTypes, BesidesKeeps

\* What either statement of recoverStaleRecords does to the rows.
Recovers(R, P) ==
    /\ P \in Table
    /\ \A i \in Ids : P[i] # None =>
          /\ R[i] # None
          /\ P[i].status = "completed" => R[i].status = "completed"
          /\ DumpOf(P[i]) = DumpOf(R[i])

LEMMA BackupsRecovered ==
    ASSUME NEW R \in Table
    PROVE  /\ Recovers(R, RecoverBackups(R))
           /\ \A i \in Ids : RecoverBackups(R)[i] # None =>
                 RecoverBackups(R)[i].status # "running"
<1>1. PICK P : P = RecoverBackups(R)
  OBVIOUS
<1>2. ASSUME NEW i \in Ids
      PROVE  /\ P[i] \in Row \cup {None}
             /\ P[i] # None => /\ R[i] # None /\ P[i].status # "running"
                               /\ P[i].status = "completed" => R[i].status = "completed"
                               /\ DumpOf(P[i]) = DumpOf(R[i])
  <2>1. P[i] = IF R[i] # None /\ R[i].status = "running"
               THEN [R[i] EXCEPT !.status = "failed"] ELSE R[i]
    BY <1>1 DEF RecoverBackups
  <2>2. R[i] \in Row \cup {None}
    BY DEF Table
  <2> QED BY <2>1, <2>2, StatusWritten
<1>3. P \in Table
  BY <1>1, <1>2 DEF RecoverBackups, Table
<1> QED BY <1>1, <1>2, <1>3 DEF Recovers

LEMMA RestoresRecovered ==
    ASSUME NEW R \in Table
    PROVE  /\ Recovers(R, RecoverRestores(R))
           /\ \A i \in Ids : RecoverRestores(R)[i] # None =>
                 /\ RecoverRestores(R)[i].restore # "running"
                 /\ RecoverRestores(R)[i].status = R[i].status
<1>1. PICK P : P = RecoverRestores(R)
  OBVIOUS
<1>2. ASSUME NEW i \in Ids
      PROVE  /\ P[i] \in Row \cup {None}
             /\ P[i] # None => /\ R[i] # None /\ P[i].restore # "running"
                               /\ P[i].status = R[i].status
                               /\ DumpOf(P[i]) = DumpOf(R[i])
  <2>1. P[i] = IF R[i] # None /\ R[i].restore = "running"
               THEN [R[i] EXCEPT !.restore = "failed"] ELSE R[i]
    BY <1>1 DEF RecoverRestores
  <2>2. R[i] \in Row \cup {None} /\ "failed" \in RestoreStates
    BY DEF Table, RestoreStates
  <2> QED BY <2>1, <2>2, RestoreWritten
<1>3. P \in Table
  BY <1>1, <1>2 DEF RecoverRestores, Table
<1> QED BY <1>1, <1>2, <1>3 DEF Recovers

LEMMA StartKeeps ==
    ASSUME BackupInv, NEW s \in Servers, Start(s)
    PROVE  BackupInv'
<1>1. /\ snap' = snap /\ file' = file /\ object' = object /\ names' = names
      /\ next' = next /\ now' = now /\ op' = op /\ up' = up \cup {s} /\ lock' = lock /\ del' = del
      /\ deleted' = deleted /\ split' = split /\ edits' = edits
  BY DEF Start, store
<1>2. PICK B, P, R : /\ B = db.rows /\ P = RecoverBackups(B)
                     /\ R = RecoverStaleRecords(B)
  OBVIOUS
<1>3. B \in Table
  BY <1>2, BackupTypes
<1>4. Recovers(B, P) /\ P \in Table /\ \A i \in Ids : P[i] # None => P[i].status # "running"
  BY <1>2, <1>3, BackupsRecovered DEF Recovers
<1>5. Recovers(P, R) /\ \A i \in Ids : R[i] # None => /\ R[i].restore # "running"
                                                      /\ R[i].status = P[i].status
  BY <1>2, <1>4, RestoresRecovered DEF RecoverStaleRecords
<1>6. Recovers(B, R) /\ \A i \in Ids : R[i] # None => ~InProgress(R[i])
  BY <1>4, <1>5 DEF Recovers, InProgress
<1>7. Recovers(B, B) /\ Recovers(B, RecoverRestores(B))
  BY <1>3, RestoresRecovered DEF Recovers
<1>8. PICK Q : /\ db' = [db EXCEPT !.rows = Q]
               /\ \/ Q = R /\ stray' = stray
                  \/ Q \in {B, P, RecoverRestores(B)} /\ stray' = stray \cup Stuck(Q)
  BY <1>2 DEF Start
<1>9. Recovers(B, Q)
  BY <1>4, <1>6, <1>7, <1>8
<1>10. db' \in Database /\ db'.rows = Q
  BY <1>8, <1>9, RowsWritten, BackupTypes DEF Recovers
<1>11. \A j \in Ids : \A h : j < next /\ Good(j, h) => Good(j, h)'
  BY <1>1, GoodStays
<1>12. \A j \in Ids : \A h : Done(db'.rows, j, h) => Claims(j, h)
  BY <1>2, <1>9, <1>10, TableClaims DEF Done, Recovers
<1>13. /\ stray \subseteq stray' /\ stray' \subseteq Ids
       /\ \A j \in Ids : db'.rows[j] # None /\ InProgress(db'.rows[j]) => j \in stray'
  BY <1>6, <1>8, <1>10, BackupTypes DEF Stuck
<1>14. del' # None => del'.id \in deleted'
  BY <1>1 DEF BackupInv, Records
<1>15. up' \subseteq Servers /\ faults' \in 0..MaxFaults
  <2>1. Failure \/ faults' = faults
    BY DEF Start
  <2> QED BY <1>1, <2>1, OneFault, BackupTypes
<1>16. /\ now' \in Seconds /\ lock' \in Servers \cup {None} /\ split' \in BOOLEAN
       /\ split' \/ (lock' = lock /\ split' = split)
       /\ del' \in [id : Ids, row : Row, removed : BOOLEAN] \cup {None}
       /\ deleted \subseteq deleted' /\ deleted' \subseteq Ids /\ edits' \in 0..MaxEdits
       /\ file' \in [Seconds -> Ids \cup {None}] /\ object' \in [Seconds -> Ids \cup {None}]
       /\ \A t \in Seconds : file'[t] = file[t] \/ file'[t] = None
       /\ \A t \in Seconds : object'[t] = object[t] \/ object'[t] = None
  BY <1>1, BackupTypes
<1> QED BY <1>1, <1>16, <1>10, <1>11, <1>12, <1>13, <1>14, <1>15, BesidesKeeps

-----------------------------------------------------------------------------
(* The invariant holds at the start and every step keeps it.               *)

LEMMA BackupsStart ==
    ASSUME Init
    PROVE  BackupInv
<1>1. /\ db = [rows |-> [i \in Ids |-> None], s3 |-> FALSE, schedule |-> DefaultSchedule]
      /\ snap = [i \in Ids |-> None] /\ file = [t \in Seconds |-> None]
      /\ object = [t \in Seconds |-> None] /\ names = [i \in Ids |-> None]
      /\ next = 1 /\ now = 1 /\ op = [s \in Servers |-> None] /\ up = Servers /\ lock = None
      /\ del = None /\ deleted = {} /\ stray = {} /\ faults = 0 /\ edits = 0
  BY DEF Init
<1>2. PICK no \in BOOLEAN : no = FALSE
  BY Zenon
<1>3. split = no
  BY <1>2, Zenon DEF Init
<1>4. db \in Database /\ \A i \in Ids : db.rows[i] = None
  <2>1. db = [rows |-> [i \in Ids |-> None], s3 |-> no, schedule |-> DefaultSchedule]
    BY <1>1, <1>2
  <2> QED BY <1>2, <2>1 DEF Database
<1>5. TypeOK
  <2>1. 1 \in Seconds /\ next \in 1..(MaxBackups + 1) /\ faults \in 0..MaxFaults
        /\ edits \in 0..MaxEdits
    BY BackupAssumption, <1>1 DEF Seconds
  <2> QED BY <1>1, <1>2, <1>3, <1>4, <2>1 DEF TypeOK
<1>6. Records
  <2>1. \A i \in Ids : ~(i < next)
    BY BackupAssumption, <1>1 DEF Ids
  <2> QED BY <1>1, <2>1 DEF Records
<1>7. Operations /\ Exclusive /\ Verified /\ Dumped
  BY <1>1 DEF Operations, Exclusive, Verified, Dumped
<1>8. Owned
  BY <1>4 DEF Owned
<1>9. Claimed
  <2>1. Dumps = {}
    BY BackupAssumption, <1>1 DEF Dumps
  <2> QED BY <1>1, <1>4, <2>1 DEF Claimed, Claims, Done
<1> QED BY <1>5, <1>6, <1>7, <1>8, <1>9 DEF BackupInv

LEMMA BackupsStep ==
    ASSUME BackupInv, [Next]_vars
    PROVE  BackupInv'
<1>1. CASE Next
  <2>1. ASSUME NEW s \in Servers,
               StartBackup(s) \/ Work(s) \/ Crash(s) \/ Start(s)
               \/ \E i \in Ids : StartRestore(s, i)
        PROVE  BackupInv'
    BY <2>1, StartBackupKeeps, CrashKeeps, StartKeeps, StartRestoreKeeps, RunPgDumpKeeps,
       FileDigestKeeps, UploadKeeps, ExecuteBackupFailsKeeps, FinishBackupKeeps,
       StorePreRestoreResultKeeps, VerifySourceKeeps, RestoreRefusedKeeps, RunPgRestoreKeeps,
       PersistRestoreRecordsKeeps
       DEF Work, ExecuteBackup
  <2>2. CASE \E i \in Ids : DeleteBackup(i)
    BY <2>2, DeleteBackupKeeps
  <2>3. CASE \E schedule \in Schedules : UpdateSchedule(schedule)
    BY <2>3, UpdateScheduleKeeps
  <2>4. CASE DeleteFiles \/ DeleteRow \/ LoseSession \/ UpdateS3Config \/ Tick
    BY <2>4, DeleteFilesKeeps, DeleteRowKeeps, LoseSessionKeeps, UpdateS3ConfigKeeps, TickKeeps
  <2> QED BY <1>1, <2>1, <2>2, <2>3, <2>4, Zenon DEF Next
<1>2. CASE UNCHANGED vars
  <2>1. /\ db' = db /\ snap' = snap /\ file' = file /\ object' = object /\ names' = names
        /\ next' = next /\ now' = now /\ op' = op /\ up' = up /\ lock' = lock /\ del' = del
        /\ deleted' = deleted /\ stray' = stray /\ split' = split /\ faults' = faults
        /\ edits' = edits
    BY <1>2 DEF vars, store, history, bounds
  <2> QED BY <2>1, BackupTypes, SettingsKeep
<1> QED BY <1>1, <1>2

\* The parts of the invariant, for the backup centre.
THEOREM BackupInvariance ==
    Spec => []BackupInv
<1>1. Init => BackupInv
  BY BackupsStart
<1>2. BackupInv /\ [Next]_vars => BackupInv'
  BY BackupsStep
<1> QED BY <1>1, <1>2, PTL DEF Spec

\* The type invariant of Backups.
THEOREM BackupTypeCorrect ==
    Spec => []TypeOK
<1>1. BackupInv => TypeOK
  BY DEF BackupInv
<1> QED BY <1>1, BackupInvariance, PTL

\* A record that GET /backups lists as completed has its dump in the backup directory, under
\* the digest the record states, unless a deletion was let through for it or another backup
\* was begun in the same second.
THEOREM CompletedIsAlwaysRestorable ==
    Spec => []CompletedIsRestorable
<1>1. BackupInv => CompletedIsRestorable
  <2> SUFFICES ASSUME BackupInv, NEW i \in Completed(db.rows)
               PROVE  \/ i \in deleted
                      \/ ~Alone(i)
                      \/ db.rows[i].sha = i /\ db.rows[i].path /\ file[names[i]] = i
    BY DEF CompletedIsRestorable
  <2>1. i \in Ids /\ Done(db.rows, i, DumpOf(db.rows[i]))
    BY DEF Completed, Done
  <2>2. Good(i, DumpOf(db.rows[i]))
    BY <2>1, TableClaims, ClaimsAreGood
  <2>3. i # None
    BY <2>1, BackupTypes
  <2> QED BY <2>2, <2>3 DEF Good, DumpOf
<1> QED BY <1>1, BackupInvariance, PTL

\* pg_restore loads the dump whose digest restoreSourceFile verified, although a pre-restore
\* backup is made in between.
THEOREM AlwaysRestoresWhatWasVerified ==
    Spec => []RestoresWhatWasVerified
<1>1. BackupInv => RestoresWhatWasVerified
  <2> SUFFICES ASSUME BackupInv, NEW s \in Servers, At(s, "load"), Source(s) # None
               PROVE  \/ Source(s) = op[s].recRow.sha
                      \/ names[op[s].id] = names[op[s].rec]
                      \/ split
    BY DEF RestoresWhatWasVerified
  <2>1. op[s] # None /\ op[s].pc = "load" /\ op[s].pc \in Made
    BY DEF At, Made
  <2>2. op[s].rec # None
    BY <2>1, AtWork DEF Shaped
  <2> QED BY <2>1, <2>2 DEF BackupInv, Verified
<1> QED BY <1>1, BackupInvariance, PTL

\* A row that says it is in progress belongs to an operation of a server, or to a server that
\* has crashed and will mark it as failed when it starts, or a restore brought it back, or the
\* write that was to end it is one of those whose error is dropped, and it failed.
THEOREM InProgressIsAlwaysOwned ==
    Spec => []InProgressIsOwned
<1>1. BackupInv => InProgressIsOwned
  <2> SUFFICES ASSUME BackupInv, NEW i \in Ids, db.rows[i] # None, InProgress(db.rows[i])
               PROVE  \/ \E s \in Servers : op[s] # None /\ i \in {op[s].id, op[s].rec}
                      \/ up # Servers
                      \/ i \in stray
    BY DEF InProgressIsOwned
  <2>1. Maker(i) \/ Restorer(i)
    BY DEF BackupInv, Owned, InProgress
  <2> QED BY <2>1 DEF Maker, Restorer
<1> QED BY <1>1, BackupInvariance, PTL

\* A set of records has a last one.
LEMMA LastRecord ==
    ASSUME NEW D, D \subseteq Ids, NEW i \in D
    PROVE  \E m \in D : \A j \in D : j <= m
<1>1. PICK T : T = {k \in Nat : MaxBackups - k \in D}
  OBVIOUS
<1>2. MaxBackups \in Nat /\ \A j \in D : j \in Nat /\ j <= MaxBackups /\ MaxBackups - j \in T
  BY BackupAssumption, <1>1 DEF Ids
<1>3. T \subseteq Nat /\ T # {}
  BY <1>1, <1>2
<1>4. PICK x \in T : \A y \in T : ~(<<y, x>> \in OpToRel(<, Nat))
  BY <1>3, WFMin, NatLessThanWellFounded
<1>5. \A y \in T : ~(y < x)
  BY <1>3, <1>4 DEF OpToRel
<1>6. MaxBackups - x \in D /\ x \in Nat
  BY <1>1, <1>3
<1>7. \A j \in D : j <= MaxBackups - x
  BY <1>2, <1>5, <1>6
<1> QED BY <1>6, <1>7

\* cleanupOldBackups, as finishing a backup calls it: the backup, or a newer one, is still there.
LEMMA FinishLeavesABackup ==
    ASSUME BackupInv, NEW s \in Servers, FinishBackup(s),
           db.rows[op[s].id] # None, faults' = faults
    PROVE  \E i \in Completed(db'.rows) : i >= op[s].id
<1>1. op[s] # None /\ op[s].pc = "finish" /\ op[s].pc # "source"
  BY DEF FinishBackup, At
<1>2. PICK q : q = op[s]
  OBVIOUS
<1>3. q \in Operation /\ q.id \in Ids /\ q.row \in Row /\ q.id \in Nat
  BY <1>1, <1>2, AtWork, BackupTypes
<1>4. PICK r : r = [q.row EXCEPT !.status = "completed"]
  OBVIOUS
<1>5. r \in Row /\ r.status = "completed"
  BY <1>3, <1>4, StatusWritten
<1>6. PICK P : P = UpdateBackupRecord(db.rows, q.id, r)
  OBVIOUS
<1>7. /\ P \in Table
      /\ db.rows[q.id] # None => P[q.id].status = "completed"
      /\ P[q.id] = None <=> db.rows[q.id] = None
  <2>1. db.rows \in Table
    BY BackupTypes
  <2> QED BY <1>3, <1>5, <1>6, <2>1, RecordUpdated
<1>8. PICK rows \in {db.rows, UpdateBackupRecord(db.rows, op[s].id,
                                                [op[s].row EXCEPT !.status = "completed"])},
           aged \in 0..(op[s].id - 1) :
        LET S == {j \in ShouldDelete(rows, aged) : ~InProgress(rows[j])} IN
        /\ IF rows = db.rows /\ rows[op[s].id] # None
              THEN Failure /\ stray' = stray \cup {op[s].id} ELSE UNCHANGED <<faults, stray>>
        /\ RemoveFiles(S, rows)
        /\ db' = [db EXCEPT !.rows = [j \in Ids |-> IF j \in S THEN None ELSE rows[j]]]
        /\ deleted' = deleted \cup S
  BY Zenon DEF FinishBackup
<1>9. rows = P
  <2>1. rows \in {db.rows, P}
    BY <1>2, <1>4, <1>6, <1>8
  <2>2. ~Failure
    BY BackupTypes DEF Failure
  <2>3. CASE rows = db.rows
    <3>1. rows[op[s].id] # None
      BY <2>3
    <3>2. Failure
      BY <1>8, <2>3, <3>1
    <3> QED BY <2>2, <3>2
  <2> QED BY <2>1, <2>3
<1>10. PICK S : S = {j \in ShouldDelete(rows, aged) : ~InProgress(rows[j])}
  OBVIOUS
<1>11. PICK R : R = [j \in Ids |-> IF j \in S THEN None ELSE rows[j]]
  OBVIOUS
<1>12. db' = [db EXCEPT !.rows = R]
  BY <1>8, <1>10, <1>11
<1>13. R \in Table
  BY <1>7, <1>9, <1>11, BackupTypes DEF Table
<1>14. db'.rows = R
  BY <1>12, <1>13, RowsWritten, BackupTypes
<1>15. PICK D : D = Completed(rows)
  OBVIOUS
<1>16. D \subseteq Ids /\ q.id \in D
  BY <1>2, <1>3, <1>7, <1>9, <1>15 DEF Completed
<1>17. PICK m \in D : \A j \in D : j <= m
  BY <1>16, LastRecord
<1>18. m \in Ids /\ m \in Nat /\ q.id <= m
  BY <1>16, <1>17, BackupTypes
<1>19. Newer(m, D) = {}
  BY <1>16, <1>17, <1>18, BackupTypes DEF Newer
<1>20. Cardinality(Newer(m, D)) = 0
  BY <1>19, FS_EmptySet
<1>21. db.schedule.retain \in Nat
  BY BackupAssumption, BackupTypes DEF Database, DefaultSchedule
<1>22. ~(m <= aged)
  BY <1>2, <1>3, <1>8, <1>18
<1>23. m \notin S
  <2>1. ~(db.schedule.retain > 0 /\ Cardinality(Newer(m, D)) >= db.schedule.retain)
    BY <1>20, <1>21
  <2>2. m \notin ShouldDelete(rows, aged)
    BY <1>15, <1>22, <2>1 DEF ShouldDelete
  <2> QED BY <1>10, <2>2
<1>24. m \in Completed(db'.rows)
  BY <1>11, <1>14, <1>15, <1>17, <1>18, <1>23 DEF Completed
<1>25. m >= op[s].id
  BY <1>2, <1>3, <1>18
<1> QED BY <1>24, <1>25

\* Whatever the schedule keeps, the retention that follows a backup whose result was stored
\* leaves that backup or a newer one.
THEOREM CleanupAlwaysLeavesABackup ==
    Spec => CleanupLeavesABackup
<1>1. BackupInv /\ [Next]_vars =>
         [\A s \in Servers :
             FinishBackup(s) /\ db.rows[op[s].id] # None /\ faults' = faults =>
                 \E i \in Completed(db'.rows) : i >= op[s].id]_vars
  BY FinishLeavesABackup
<1> QED BY <1>1, BackupInvariance, PTL DEF Spec, CleanupLeavesABackup
=============================================================================
