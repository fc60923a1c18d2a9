----------------------------- MODULE SchemaInit -----------------------------
(***************************************************************************)
(* _ensure_schema and _init_schema_once (adapters/sqlite.py): processes,    *)
(* of possibly different releases, open one database file at once, each     *)
(* bringing the schema up to the migrations it knows.  A process may be     *)
(* killed at any statement, and an ordinary writer may hold the write lock. *)
(*                                                                         *)
(* SQLite is modelled by what the code relies on: outside a transaction     *)
(* each statement is one atomic step; BEGIN IMMEDIATE takes the only write  *)
(* lock or times out; a transaction is private until COMMIT and undone by   *)
(* ROLLBACK or a crash; the switch to WAL collides with any other           *)
(* connection, whatever the busy timeout; a DDL statement fails if it has   *)
(* already been applied.                                                    *)
(***************************************************************************)
EXTENDS Naturals, FiniteSets

CONSTANTS
    Procs,          \* processes that open the database
    Migrations,     \* the number of migrations of the latest release
    Known,          \* per process, the number its release has: len(_MIGRATIONS)
    MaxCrashes      \* bound: processes killed

ASSUME KnownAssumption ==
    /\ Migrations \in Nat /\ Known \in [Procs -> 0 .. Migrations] /\ MaxCrashes \in Nat

VARIABLES
    db,             \* the file: user_version, the statements applied, the journal mode
    lock,           \* who holds the write lock: processes, or the writer
    pc,             \* per process: down, version, mode, switch, begin, migrating, done, failed
    seen,           \* per process, the version it last read
    tx,             \* per process, version and statements as its transaction sees them
    attempt,        \* per process, attempts made
    error,          \* per process, the error that made _ensure_schema raise
    crashes         \* counter of the bound

vars == <<db, lock, pc, seen, tx, attempt, error, crashes>>

Attempts   == 5
Versions   == 0 .. Migrations
Statements == 0 .. Migrations - 1
Upto(v)    == {n \in Statements : n < v}
Writer     == "writer"

ASSUME WriterAssumption == Writer \notin Procs

NoTx       == [version |-> 0, applied |-> {}]
Errors     == {"none", "locked", "exists", "other"}

Connected(p) == pc[p] \in {"version", "mode", "switch", "begin", "migrating"}
Goes(p, where) == pc' = [pc EXCEPT ![p] = where]

-----------------------------------------------------------------------------
\* _ensure_schema: the attempts.

Open(p) ==
    /\ pc[p] = "down"
    /\ Goes(p, "version")
    /\ attempt' = [attempt EXCEPT ![p] = 1]
    /\ UNCHANGED <<db, lock, seen, tx, error, crashes>>

\* Fault: a locked database is retried without a limit.
RetriesForever(p) == error' = error /\ attempt' = attempt /\ Goes(p, "version")

\* The connection is closed; a locked database is retried, the last time not.
Retries(p) ==
    IF attempt[p] < Attempts
    THEN error' = error /\ attempt' = [attempt EXCEPT ![p] = @ + 1] /\ Goes(p, "version")
    ELSE error' = [error EXCEPT ![p] = "locked"] /\ attempt' = attempt /\ Goes(p, "failed")

\* Any other error is raised at once.
Raises(p, e) == error' = [error EXCEPT ![p] = e] /\ Goes(p, "failed") /\ UNCHANGED attempt

-----------------------------------------------------------------------------
\* _init_schema_once.

ReadVersion(p) ==
    /\ pc[p] = "version"
    /\ seen' = [seen EXCEPT ![p] = db.version]
    /\ Goes(p, "mode")
    /\ UNCHANGED <<db, lock, tx, attempt, error, crashes>>

\* Fault: the fast path looks at the version only.
IsCurrentWhateverMode(p) == seen[p] >= Known[p]

\* Fault: the version is compared for equality.
IsExactlyCurrent(p) == seen[p] = Known[p] /\ db.journal = "wal"

IsCurrent(p) == seen[p] >= Known[p] /\ db.journal = "wal"

\* The fast path, without the write lock.
ReadMode(p) ==
    /\ pc[p] = "mode"
    /\ Goes(p, IF IsCurrent(p) THEN "done" ELSE "switch")
    /\ UNCHANGED <<db, lock, seen, tx, attempt, error, crashes>>

Collides(p) == db.journal # "wal" /\ (lock # {} \/ \E q \in Procs \ {p} : Connected(q))

SwitchToWal(p) ==
    /\ pc[p] = "switch" /\ (db.journal = "wal" \/ lock = {})
    /\ db' = [db EXCEPT !.journal = "wal"]
    /\ Goes(p, "begin")
    /\ UNCHANGED <<lock, seen, tx, attempt, error, crashes>>

SwitchCollides(p) ==
    /\ pc[p] = "switch" /\ Collides(p)
    /\ Retries(p)
    /\ UNCHANGED <<db, lock, seen, tx, crashes>>

\* Fault: the version read before the write lock is trusted.
BeginStale(p) ==
    /\ pc[p] = "begin" /\ lock = {}
    /\ lock' = {p}
    /\ tx' = [tx EXCEPT ![p] = [version |-> seen[p], applied |-> db.applied]]
    /\ seen' = seen
    /\ Goes(p, "migrating")
    /\ UNCHANGED <<db, attempt, error, crashes>>

\* BEGIN IMMEDIATE, and the version read again under the write lock.
Begin(p) ==
    /\ pc[p] = "begin" /\ lock = {}
    /\ lock' = {p}
    /\ tx' = [tx EXCEPT ![p] = [version |-> db.version, applied |-> db.applied]]
    /\ seen' = [seen EXCEPT ![p] = db.version]
    /\ Goes(p, "migrating")
    /\ UNCHANGED <<db, attempt, error, crashes>>

BeginTimesOut(p) ==
    /\ pc[p] = "begin" /\ lock # {}
    /\ Retries(p)
    /\ UNCHANGED <<db, lock, seen, tx, crashes>>

InTx(p)       == pc[p] = "migrating" /\ lock = {p}
Number(p)     == tx[p].version            \* of the migration that comes next
HasNext(p)    == Number(p) < Known[p]

\* Fault: each statement commits by itself, ahead of its version number.
MigrateAutocommit(p) ==
    /\ InTx(p) /\ HasNext(p) /\ Number(p) \notin tx[p].applied
    /\ db' = [db EXCEPT !.applied = @ \cup {Number(p)}]
    /\ tx' = [tx EXCEPT ![p] = [version |-> @.version + 1, applied |-> @.applied \cup {@.version}]]
    /\ UNCHANGED <<lock, pc, seen, attempt, error, crashes>>

\* One statement and the version number it leads to.
Migrate(p) ==
    /\ InTx(p) /\ HasNext(p) /\ Number(p) \notin tx[p].applied
    /\ tx' = [tx EXCEPT ![p] = [version |-> @.version + 1, applied |-> @.applied \cup {@.version}]]
    /\ UNCHANGED <<db, lock, pc, seen, attempt, error, crashes>>

Commit(p) ==
    /\ InTx(p) /\ ~HasNext(p)
    /\ db' = [db EXCEPT !.version = tx[p].version, !.applied = tx[p].applied]
    /\ lock' = {} /\ tx' = [tx EXCEPT ![p] = NoTx]
    /\ Goes(p, "done")
    /\ UNCHANGED <<seen, attempt, error, crashes>>

Rollback(p) == db' = db /\ lock' = {} /\ tx' = [tx EXCEPT ![p] = NoTx]

\* A statement raises: what it creates exists, or the disk is full, the
\* volume is gone, the call is interrupted.
MigrationFails(p) ==
    /\ InTx(p)
    /\ Rollback(p)
    /\ Raises(p, IF HasNext(p) /\ Number(p) \in tx[p].applied THEN "exists" ELSE "other")
    /\ UNCHANGED <<seen, crashes>>

-----------------------------------------------------------------------------
\* The world around: a writer, and processes killed and started again.

WriterLocks   == lock = {} /\ db.version > 0 /\ lock' = {Writer}
                     /\ UNCHANGED <<db, pc, seen, tx, attempt, error, crashes>>
WriterUnlocks == lock = {Writer} /\ lock' = {}
                     /\ UNCHANGED <<db, pc, seen, tx, attempt, error, crashes>>

Crash(p) ==
    /\ Connected(p) /\ crashes < MaxCrashes
    /\ crashes' = crashes + 1
    /\ lock' = lock \ {p} /\ tx' = [tx EXCEPT ![p] = NoTx]
    /\ Goes(p, "down")
    /\ UNCHANGED <<db, seen, attempt, error>>

-----------------------------------------------------------------------------
\* Any file an earlier release may have left.
Init ==
    /\ db \in {[version |-> v, applied |-> Upto(v), journal |-> m] :
                  v \in Versions, m \in {"delete", "wal"}}
    /\ lock = {}
    /\ pc = [p \in Procs |-> "down"]
    /\ seen = [p \in Procs |-> 0]
    /\ tx = [p \in Procs |-> NoTx]
    /\ attempt = [p \in Procs |-> 0]
    /\ error = [p \in Procs |-> "none"]
    /\ crashes = 0

Steps(p) ==
    \/ ReadVersion(p)
    \/ ReadMode(p)
    \/ SwitchToWal(p)
    \/ SwitchCollides(p)
    \/ Begin(p)
    \/ BeginTimesOut(p)
    \/ Migrate(p)
    \/ Commit(p)
    \/ MigrationFails(p)

Next ==
    \/ \E p \in Procs : Open(p)
    \/ \E p \in Procs : Steps(p)
    \/ \E p \in Procs : Crash(p)
    \/ WriterLocks
    \/ WriterUnlocks

Spec == Init /\ [][Next]_vars

\* Processes run.  The writer owes nothing: it may hold the lock for good.
FairSpec == Spec /\ \A p \in Procs : WF_vars(Steps(p))

-----------------------------------------------------------------------------
TypeOK ==
    /\ db \in [version : Versions, applied : SUBSET Statements, journal : {"delete", "wal"}]
    /\ lock \in SUBSET (Procs \cup {Writer})
    /\ pc \in [Procs -> {"down", "version", "mode", "switch", "begin", "migrating", "done",
                         "failed"}]
    /\ seen \in [Procs -> Versions]
    /\ tx \in [Procs -> [version : Versions, applied : SUBSET Statements]]
    /\ attempt \in [Procs -> 0 .. Attempts]
    /\ error \in [Procs -> Errors]
    /\ crashes \in 0 .. MaxCrashes

\* After any interleaving, error or crash the file is one a release made:
\* exactly the statements below its version number have been applied, so the
\* next start resumes where the last one stopped.
SchemaMatchesVersion == db.applied = Upto(db.version)

\* A store that is constructed has every table and column its release uses,
\* and a file in WAL mode, whoever migrated it.
DoneMeansUsable ==
    \A p \in Procs : pc[p] = "done" =>
        Upto(Known[p]) \subseteq db.applied /\ db.journal = "wal"

\* Concurrent construction is safe (SqliteTokenStore's docstring): no process
\* ever runs a migration that another one has run.
NoMigrationTwice == \A p \in Procs : error[p] # "exists"

\* A file that is up to date is opened although a writer never lets go of the
\* lock: the fast path waits for nobody.
Current(p) == db.version >= Known[p] /\ db.journal = "wal"

CurrentNeedsNoLock ==
    \A p \in Procs : (pc[p] = "version" /\ Current(p)) ~> pc[p] \in {"done", "down"}

\* Every construction ends, with a store or an error, whatever holds the lock.
InitEnds == \A p \in Procs : Connected(p) ~> ~Connected(p)
=============================================================================
