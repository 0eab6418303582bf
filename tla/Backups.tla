------------------------------ MODULE Backups ------------------------------
(***************************************************************************)
(* The cloud backup centre: pg_dump and pg_restore of the database by the  *)
(* API servers, with the table backup_records that lists the dumps inside  *)
(* the very database that is dumped and restored.  A server does one       *)
(* operation at a time (two flags under a mutex); among servers a          *)
(* session-level advisory lock excludes a second one.  The servers share   *)
(* the backup directory; a dump is copied to an object store when one is   *)
(* configured.                                                             *)
(*                                                                         *)
(* A dump is known by the record it was made for, so a digest is the       *)
(* number of a record, and snap[i] is what dump i brings back.  File names *)
(* have a resolution of one second: names[i] is the second of record i.    *)
(*                                                                         *)
(* External: pg_dump and pg_restore (atomic: one snapshot, one             *)
(* transaction), the file system and the object store.                     *)
(***************************************************************************)
EXTENDS Naturals, FiniteSets

CONSTANTS
    Servers,      \* API servers
    None,         \* nothing there
    Schedules,    \* retentions an administrator may choose
    MaxBackups,   \* bound: backup records ever created
    MaxSeconds,   \* bound: seconds in which a backup is begun
    MaxFaults,    \* bound: failing steps, lost sessions and crashes
    MaxEdits      \* bound: an administrator's deletions and changes of settings

Ids == 1..MaxBackups
Seconds == 1..MaxSeconds

\* backup_records: path and key say whether file_path and s3_key are set
Row == [status : {"running", "completed", "failed"},
        restore : {"none", "running", "completed", "failed"},
        path : BOOLEAN, sha : Ids \cup {None}, key : BOOLEAN]

\* id, row: the record a dump is made for and the server's copy of it;
\* rec, recRow: the record that is restored; temp: what was downloaded for it
\*   dump    about to run pg_dump              source  about to find and verify the dump
\*   digest  about to compute the digest       load    about to run pg_restore
\*   upload  about to upload the dump          persist the database is restored
\*   finish  about to store the result         undone  pg_restore failed
PC == {"dump", "digest", "upload", "finish", "source", "load", "persist", "undone"}
Operation == [pc : PC, id : Ids \cup {None}, row : Row \cup {None},
              rec : Ids \cup {None}, recRow : Row \cup {None}, temp : Ids \cup {None}]

\* as long as none was saved
DefaultSchedule == [retain |-> 0, days |-> TRUE]

\* the rows, whether an object store is configured, and the retention
Database == [rows : [Ids -> Row \cup {None}], s3 : BOOLEAN, schedule : Schedules \cup {DefaultSchedule}]

ASSUME BackupAssumption ==
    /\ None \notin Servers \cup Nat \cup Row \cup Operation \cup Database
    \* RetainCount, 0: keep all; whether RetainDays is set
    /\ Schedules \subseteq [retain : Nat, days : BOOLEAN] /\ Schedules # {}
    /\ MaxBackups \in Nat \ {0} /\ MaxSeconds \in Nat \ {0}
    /\ MaxFaults \in Nat /\ MaxEdits \in Nat

VARIABLES
    db,        \* the database: backup_records and the settings kept beside them
    snap,      \* what each dump holds
    file,      \* the dump each file of the backup directory holds
    object,    \* the dump each object of the object store holds
    names,     \* the second each record was created in
    next,      \* the next record
    now,       \* the current second
    op,        \* the operation of each server
    up,        \* the servers that run
    lock,      \* whose session holds the advisory lock
    del,       \* the administrator's DeleteBackup
    deleted,   \* history: records a DeleteBackup was let through for
    stray,     \* history: rows a restore brought back, rows whose last write was lost
    split,     \* history: a server lost its session while it worked
    faults,    \* faults used up, <= MaxFaults
    edits      \* deletions and changes of settings used up, <= MaxEdits

store == <<file, object>>
history == <<deleted, stray, split>>
bounds == <<faults, edits>>
vars == <<db, snap, store, names, next, now, op, up, lock, del, history, bounds>>

NewRow == [status |-> "running", restore |-> "none", path |-> FALSE, sha |-> None, key |-> FALSE]
Restoring(s) == op[s].rec # None

\* UPDATE ... WHERE public_id: nothing happens when the row is gone.
\* updateBackupRecord leaves the restore columns alone.
UpdateBackupRecord(rows, i, r) ==
    IF rows[i] = None THEN rows ELSE [rows EXCEPT ![i] = [r EXCEPT !.restore = rows[i].restore]]
UpdateRestoreState(rows, i, state) ==
    IF rows[i] = None THEN rows ELSE [rows EXCEPT ![i].restore = state]
UpsertBackupRecord(rows, i, r) == [rows EXCEPT ![i] = r]

Init ==
    /\ db = [rows |-> [i \in Ids |-> None], s3 |-> FALSE, schedule |-> DefaultSchedule]
    /\ snap = [i \in Ids |-> None]
    /\ file = [t \in Seconds |-> None] /\ object = [t \in Seconds |-> None]
    /\ names = [i \in Ids |-> None]
    /\ next = 1 /\ now = 1
    /\ op = [s \in Servers |-> None]
    /\ up = Servers
    /\ lock = None
    /\ del = None
    /\ deleted = {} /\ stray = {} /\ split = FALSE
    /\ faults = 0 /\ edits = 0

(***************************************************************************)
(* Exclusion.  A server whose flag is set refuses; so does one that does   *)
(* not get the advisory lock.  The lock goes with its session: a server    *)
(* that loses the connection goes on with its operation.                   *)
(***************************************************************************)
Acquire(s) == s \in up /\ op[s] = None /\ lock = None /\ lock' = s
Release(s) ==
    /\ op' = [op EXCEPT ![s] = None]
    /\ lock' = IF lock = s THEN None ELSE lock

Failure == faults < MaxFaults /\ faults' = faults + 1

LoseSession ==
    /\ Failure /\ lock # None
    /\ lock' = None /\ split' = TRUE
    /\ UNCHANGED <<db, snap, store, names, next, now, op, up, del, deleted, stray, edits>>

(***************************************************************************)
(* Making a backup, for itself or before a restore.                        *)
(***************************************************************************)
CreateBackupRecord ==
    /\ next <= MaxBackups
    /\ next' = next + 1
    /\ names' = [names EXCEPT ![next] = now]
    /\ db' = [db EXCEPT !.rows[next] = NewRow]

StartBackup(s) ==
    /\ Acquire(s)
    /\ CreateBackupRecord
    /\ op' = [op EXCEPT ![s] = [pc |-> "dump", id |-> next, row |-> NewRow,
                                rec |-> None, recRow |-> None, temp |-> None]]
    /\ UNCHANGED <<snap, store, now, up, del, history, bounds>>

At(s, pc) == op[s] # None /\ op[s].pc = pc
NameOf(s) == names[op[s].id]

\* file_path is stored and pg_dump takes its snapshot, this record in progress
RunPgDump(s) ==
    LET i == op[s].id
        r == [op[s].row EXCEPT !.path = TRUE]
    IN
    /\ At(s, "dump")
    /\ db' = [db EXCEPT !.rows = UpdateBackupRecord(db.rows, i, r)]
    /\ snap' = [snap EXCEPT ![i] = db']
    /\ file' = [file EXCEPT ![NameOf(s)] = i]
    /\ op' = [op EXCEPT ![s].row = r, ![s].pc = "digest"]
    /\ UNCHANGED <<object, names, next, now, up, lock, del, history, bounds>>

FileDigest(s) ==
    /\ At(s, "digest") /\ file[NameOf(s)] # None
    /\ op' = [op EXCEPT ![s].row.sha = file[NameOf(s)], ![s].pc = "upload"]
    /\ UNCHANGED <<db, snap, store, names, next, now, up, lock, del, history, bounds>>

\* mutant: the upload moves the file
UploadMoves(s) ==
    LET i == op[s].id IN
    /\ At(s, "upload")
    /\ \/ /\ ~db.s3
          /\ op' = [op EXCEPT ![s].pc = "finish"]
          /\ UNCHANGED <<db, store>>
       \/ /\ db.s3 /\ file[NameOf(s)] # None
          /\ db' = [db EXCEPT !.rows = UpdateBackupRecord(db.rows, i, op[s].row)]
          /\ object' = [object EXCEPT ![NameOf(s)] = file[NameOf(s)]]
          /\ file' = [file EXCEPT ![NameOf(s)] = None]
          /\ op' = [op EXCEPT ![s].row.key = TRUE, ![s].pc = "finish"]
    /\ UNCHANGED <<snap, names, next, now, up, lock, del, history, bounds>>

\* the progress is stored before the upload, s3_key with the result
Upload(s) ==
    LET i == op[s].id IN
    /\ At(s, "upload")
    /\ \/ /\ ~db.s3
          /\ op' = [op EXCEPT ![s].pc = "finish"]
          /\ UNCHANGED <<db, object>>
       \/ /\ db.s3 /\ file[NameOf(s)] # None
          /\ db' = [db EXCEPT !.rows = UpdateBackupRecord(db.rows, i, op[s].row)]
          /\ object' = [object EXCEPT ![NameOf(s)] = file[NameOf(s)]]
          /\ op' = [op EXCEPT ![s].row.key = TRUE, ![s].pc = "finish"]
    /\ UNCHANGED <<snap, file, names, next, now, up, lock, del, history, bounds>>

\* The rows of an operation that ends in a failure; the errors of these writes
\* are dropped, so that any of them may be lost.
Losses(s) == SUBSET ({op[s].id, op[s].rec} \ {None})
RestoreFailed(rows, s, lost) ==
    IF Restoring(s) /\ op[s].rec \notin lost
    THEN UpdateRestoreState(rows, op[s].rec, "failed") ELSE rows
BackupFailed(s, lost) ==
    IF op[s].id \in lost THEN db.rows
    ELSE UpdateBackupRecord(db.rows, op[s].id, [op[s].row EXCEPT !.status = "failed"])

\* A step of executeBackup fails: because the file is gone, or for any other
\* reason.  pg_dump's file is removed, later ones stay.  A failed pre-restore
\* backup fails the restore.
ExecuteBackupFails(s) ==
    /\ op[s] # None /\ op[s].pc \in {"dump", "digest", "upload"}
    /\ \E lost \in Losses(s) :
          /\ \/ /\ op[s].pc \in {"digest", "upload"} /\ file[NameOf(s)] = None
                /\ lost = {} /\ UNCHANGED faults
             \/ Failure
          /\ stray' = stray \cup lost
          /\ db' = [db EXCEPT !.rows = RestoreFailed(BackupFailed(s, lost), s, lost)]
    /\ file' = IF op[s].pc = "dump" THEN [file EXCEPT ![NameOf(s)] = None] ELSE file
    /\ Release(s)
    /\ UNCHANGED <<snap, object, names, next, now, up, del, deleted, split, edits>>

\* createAndRunPreRestoreBackup: here the error fails the restore
StorePreRestoreResult(s) ==
    LET r == [op[s].row EXCEPT !.status = "completed"] IN
    /\ At(s, "finish") /\ Restoring(s)
    /\ \/ /\ op' = [op EXCEPT ![s].row = r, ![s].pc = "load"]
          /\ db' = [db EXCEPT !.rows = UpdateBackupRecord(db.rows, op[s].id, r)]
          /\ UNCHANGED <<lock, stray, faults>>
       \/ /\ Failure
          /\ \E lost \in {L \in Losses(s) : op[s].id \in L} :
                /\ stray' = stray \cup lost
                /\ db' = [db EXCEPT !.rows = RestoreFailed(db.rows, s, lost)]
          /\ Release(s)
    /\ UNCHANGED <<snap, store, names, next, now, up, del, deleted, split, edits>>

(***************************************************************************)
(* Retention and deletion.                                                 *)
(***************************************************************************)
Edit == edits < MaxEdits /\ edits' = edits + 1

InProgress(r) == r.status = "running" \/ r.restore = "running"
Stuck(rows) == {i \in Ids : rows[i] # None /\ InProgress(rows[i])}
Completed(rows) == {i \in Ids : rows[i] # None /\ rows[i].status = "completed"}
Newer(i, S) == {j \in S : j > i}

\* mutant: one backup too many
ShouldDeleteOneMore(rows, aged) ==
    LET done == Completed(rows) IN
    {i \in done : \/ db.schedule.retain > 0 /\ Cardinality(Newer(i, done)) >= db.schedule.retain - 1
                  \/ db.schedule.days /\ i <= aged}

\* the completed rows cleanupOldBackups picks: newest first, those from
\* RetainCount on and those older than RetainDays, the records up to aged
ShouldDelete(rows, aged) ==
    LET done == Completed(rows) IN
    {i \in done : \/ db.schedule.retain > 0 /\ Cardinality(Newer(i, done)) >= db.schedule.retain
                  \/ db.schedule.days /\ i <= aged}

RemoveFiles(S, rows) ==
    LET paths == {names[i] : i \in {j \in S : rows[j].path}}
        keys == {names[i] : i \in {j \in S : rows[j].key}}
    IN
    /\ file' = [t \in Seconds |-> IF t \in paths THEN None ELSE file[t]]
    /\ object' = [t \in Seconds |-> IF t \in keys /\ db.s3 THEN None ELSE object[t]]

\* runBackupRecord stores the result and applies the retention, also when the
\* result could not be stored.  A backup takes minutes and RetainDays are days:
\* any earlier record may be older than that, the one just made is not.
FinishBackup(s) ==
    LET i == op[s].id IN
    /\ At(s, "finish") /\ ~Restoring(s)
    /\ \E rows \in {db.rows, UpdateBackupRecord(db.rows, i, [op[s].row EXCEPT !.status = "completed"])},
          aged \in 0..(i - 1) :
        LET S == {j \in ShouldDelete(rows, aged) : ~InProgress(rows[j])} IN
        /\ IF rows = db.rows /\ rows[i] # None THEN Failure /\ stray' = stray \cup {i}
                                              ELSE UNCHANGED <<faults, stray>>
        /\ RemoveFiles(S, rows)
        /\ db' = [db EXCEPT !.rows = [j \in Ids |-> IF j \in S THEN None ELSE rows[j]]]
        /\ deleted' = deleted \cup S
    /\ Release(s)
    /\ UNCHANGED <<snap, names, next, now, up, del, split, edits>>

\* DeleteBackup of an administrator: read the row, remove the file and the
\* object, delete the row, under no lock
DeleteBackup(i) ==
    /\ Edit
    /\ del = None /\ db.rows[i] # None /\ ~InProgress(db.rows[i])
    /\ del' = [id |-> i, row |-> db.rows[i], removed |-> FALSE]
    /\ deleted' = deleted \cup {i}
    /\ UNCHANGED <<db, snap, store, names, next, now, op, up, lock, stray, split, faults>>

DeleteFiles ==
    /\ del # None /\ ~del.removed
    /\ RemoveFiles({del.id}, [i \in Ids |-> del.row])
    /\ del' = [del EXCEPT !.removed = TRUE]
    /\ UNCHANGED <<db, snap, names, next, now, op, up, lock, history, bounds>>

DeleteRow ==
    /\ del # None /\ del.removed
    /\ db' = [db EXCEPT !.rows[del.id] = None]
    /\ del' = None
    /\ UNCHANGED <<snap, store, names, next, now, op, up, lock, history, bounds>>

(***************************************************************************)
(* Restoring.                                                              *)
(***************************************************************************)
StartRestore(s, i) ==
    /\ Acquire(s)
    /\ db.rows[i] # None /\ db.rows[i].status = "completed"
    /\ db' = [db EXCEPT !.rows = UpdateRestoreState(db.rows, i, "running")]
    /\ op' = [op EXCEPT ![s] = [pc |-> "source", id |-> None, row |-> None, rec |-> i,
                                recRow |-> [db.rows[i] EXCEPT !.restore = "running"], temp |-> None]]
    /\ UNCHANGED <<snap, store, names, next, now, up, del, history, bounds>>

SourceName(s) == names[op[s].rec]
HasLocalFile(s) == op[s].recRow.path /\ file[SourceName(s)] # None
HasObject(s) == op[s].recRow.key /\ db.s3 /\ object[SourceName(s)] # None

\* the local file, else the object, downloaded to a file of its own
Download(s) == IF HasLocalFile(s) THEN None
               ELSE IF HasObject(s) THEN object[SourceName(s)] ELSE None

\* what a read of the source file finds, when temp was downloaded for it
SourceOf(s, temp) == IF temp # None THEN temp ELSE file[SourceName(s)]
Source(s) == SourceOf(s, op[s].temp)

\* mutant: the digest is not compared
DigestIgnored(s, dump) == dump # None

DigestMatches(s, dump) == dump # None /\ dump = op[s].recRow.sha

\* restoreSourceFile and verifyBackupFileDigest, then the record of the
\* pre-restore backup
VerifySource(s) ==
    /\ At(s, "source") /\ DigestMatches(s, SourceOf(s, Download(s)))
    /\ CreateBackupRecord
    /\ op' = [op EXCEPT ![s].pc = "dump", ![s].id = next, ![s].row = NewRow,
                        ![s].temp = Download(s)]
    /\ UNCHANGED <<snap, store, now, up, lock, del, history, bounds>>

\* no dump, the wrong dump, or no record for the pre-restore backup
RestoreRefused(s) ==
    /\ At(s, "source")
    /\ \E lost \in Losses(s) :
          /\ \/ /\ ~DigestMatches(s, SourceOf(s, Download(s))) \/ next > MaxBackups
                /\ lost = {} /\ UNCHANGED faults
             \/ Failure
          /\ stray' = stray \cup lost
          /\ db' = [db EXCEPT !.rows = RestoreFailed(db.rows, s, lost)]
    /\ Release(s)
    /\ UNCHANGED <<snap, store, names, next, now, up, del, deleted, split, edits>>

\* one transaction: the dump replaces the rows and the settings, or nothing
RunPgRestore(s) ==
    /\ At(s, "load")
    /\ \/ /\ Source(s) # None
          /\ db' = snap[Source(s)]
          /\ stray' = stray \cup Stuck(snap[Source(s)].rows)
          /\ op' = [op EXCEPT ![s].pc = "persist"]
          /\ UNCHANGED faults
       \/ /\ Source(s) = None \/ faults < MaxFaults
          /\ faults' = IF Source(s) = None THEN faults ELSE faults + 1
          /\ op' = [op EXCEPT ![s].pc = "undone"]
          /\ UNCHANGED <<db, stray>>
    /\ UNCHANGED <<snap, store, names, next, now, up, lock, del, deleted, split, edits>>

\* both records are written into the database as it is now; an error of an
\* upsert is logged
PersistRestoreRecords(s) ==
    LET rec == IF op[s].pc = "persist" THEN [op[s].recRow EXCEPT !.restore = "completed"]
                                       ELSE [op[s].recRow EXCEPT !.restore = "failed"]
        first == UpsertBackupRecord(db.rows, op[s].rec, rec)
    IN
    /\ At(s, "persist") \/ At(s, "undone")
    /\ \/ /\ db' = [db EXCEPT !.rows = UpsertBackupRecord(first, op[s].id, op[s].row)]
          /\ UNCHANGED <<stray, faults>>
       \/ /\ Failure
          /\ \E lost \in {op[s].rec, op[s].id} :
                /\ db' = [db EXCEPT !.rows = IF lost = op[s].id THEN first
                                             ELSE UpsertBackupRecord(db.rows, op[s].id, op[s].row)]
                /\ stray' = stray \cup {lost}
    /\ Release(s)
    /\ UNCHANGED <<snap, store, names, next, now, up, del, deleted, split, edits>>

(***************************************************************************)
(* Settings, time, crashes.                                              *)
(***************************************************************************)
UpdateS3Config ==
    /\ Edit
    /\ db' = [db EXCEPT !.s3 = ~db.s3]
    /\ UNCHANGED <<snap, store, names, next, now, op, up, lock, del, history, faults>>

UpdateSchedule(schedule) ==
    /\ Edit
    /\ db' = [db EXCEPT !.schedule = schedule]
    /\ UNCHANGED <<snap, store, names, next, now, op, up, lock, del, history, faults>>

\* a second in which no backup was begun need not be counted: only names tell them apart
Tick ==
    /\ now < MaxSeconds /\ \E i \in Ids : names[i] = now
    /\ now' = now + 1
    /\ UNCHANGED <<db, snap, store, names, next, op, up, lock, del, history, bounds>>

Crash(s) ==
    /\ s \in up /\ Failure
    /\ up' = up \ {s}
    /\ Release(s)
    /\ UNCHANGED <<db, snap, store, names, next, now, del, history, edits>>

\* every row in progress is taken for one this server left behind: backups ...
RecoverBackups(rows) ==
    [i \in Ids |-> IF rows[i] # None /\ rows[i].status = "running"
                   THEN [rows[i] EXCEPT !.status = "failed"] ELSE rows[i]]

\* mutant: interrupted restores are forgotten
RecoverBackupsOnly(rows) == RecoverBackups(rows)

\* mutant: a status of its own
RecoverAsInterrupted(rows) ==
    [i \in Ids |-> IF rows[i] # None /\ rows[i].status = "running"
                   THEN [rows[i] EXCEPT !.status = "interrupted"] ELSE rows[i]]

\* ... and restores, in a statement of its own
RecoverRestores(rows) ==
    [i \in Ids |-> IF rows[i] # None /\ rows[i].restore = "running"
                   THEN [rows[i] EXCEPT !.restore = "failed"] ELSE rows[i]]

RecoverStaleRecords(rows) == RecoverRestores(RecoverBackups(rows))

\* the errors of both statements are dropped, and the server goes on
Start(s) ==
    /\ s \notin up
    /\ up' = up \cup {s}
    /\ \/ /\ db' = [db EXCEPT !.rows = RecoverStaleRecords(db.rows)]
          /\ UNCHANGED <<stray, faults>>
       \/ /\ Failure
          /\ \E rows \in {db.rows, RecoverBackups(db.rows), RecoverRestores(db.rows)} :
                /\ db' = [db EXCEPT !.rows = rows]
                /\ stray' = stray \cup Stuck(rows)
    /\ UNCHANGED <<snap, store, names, next, now, op, lock, del, deleted, split, edits>>

ExecuteBackup(s) == RunPgDump(s) \/ FileDigest(s) \/ Upload(s) \/ ExecuteBackupFails(s)

Work(s) ==
    \/ ExecuteBackup(s) \/ FinishBackup(s) \/ StorePreRestoreResult(s)
    \/ VerifySource(s) \/ RestoreRefused(s) \/ RunPgRestore(s) \/ PersistRestoreRecords(s)

Next ==
    \/ \E s \in Servers : \/ StartBackup(s) \/ Work(s) \/ Crash(s) \/ Start(s)
                          \/ \E i \in Ids : StartRestore(s, i)
    \/ \E i \in Ids : DeleteBackup(i)
    \/ DeleteFiles \/ DeleteRow
    \/ LoseSession \/ UpdateS3Config
    \/ \E schedule \in Schedules : UpdateSchedule(schedule)
    \/ Tick

Spec == Init /\ [][Next]_vars

-----------------------------------------------------------------------------
TypeOK ==
    /\ db \in Database
    /\ snap \in [Ids -> Database \cup {None}]
    /\ file \in [Seconds -> Ids \cup {None}] /\ object \in [Seconds -> Ids \cup {None}]
    /\ names \in [Ids -> Seconds \cup {None}]
    /\ next \in 1..(MaxBackups + 1) /\ now \in Seconds
    /\ op \in [Servers -> Operation \cup {None}]
    /\ up \subseteq Servers /\ lock \in Servers \cup {None}
    /\ del \in [id : Ids, row : Row, removed : BOOLEAN] \cup {None}
    /\ deleted \subseteq Ids /\ stray \subseteq Ids /\ split \in BOOLEAN
    /\ faults \in 0..MaxFaults /\ edits \in 0..MaxEdits

\* no other backup was begun in the second of this one
Alone(i) == \A j \in Ids \ {i} : names[j] # names[i]

\* A record that is listed as completed can be restored: its dump is in the
\* directory or in the object store, unless a DeleteBackup was let through for
\* it or another backup of the same second has its file name.
CompletedIsRestorable ==
    \A i \in Completed(db.rows) :
        \/ i \in deleted
        \/ ~Alone(i)
        \/ /\ db.rows[i].sha = i
           /\ db.rows[i].path /\ file[names[i]] = i

\* pg_restore loads the dump whose digest was verified, unless a server has
\* lost its session or the pre-restore backup was made in the very second of
\* the dump and so has replaced it.
RestoresWhatWasVerified ==
    \A s \in Servers :
        At(s, "load") /\ Source(s) # None =>
            \/ Source(s) = op[s].recRow.sha
            \/ names[op[s].id] = names[op[s].rec]
            \/ split

\* A row in progress belongs to the operation of a server, or to a server that
\* has crashed and will be started again; or a restore has brought it back, or a
\* write that was to end it is one of those whose error the code drops.
InProgressIsOwned ==
    \A i \in Ids :
        db.rows[i] # None /\ InProgress(db.rows[i]) =>
            \/ \E s \in Servers : op[s] # None /\ i \in {op[s].id, op[s].rec}
            \/ up # Servers
            \/ i \in stray

\* The retention that follows a backup leaves it or a newer one, whatever the
\* schedule says, when its result was stored.
CleanupLeavesABackup ==
    [][\A s \in Servers :
          FinishBackup(s) /\ db.rows[op[s].id] # None /\ faults' = faults =>
              \E i \in Completed(db'.rows) : i >= op[s].id]_vars
=============================================================================
