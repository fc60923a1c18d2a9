-------------------------- MODULE SchemaInitProofs --------------------------
(***************************************************************************)
(* For any number of processes, releases and migrations: the database file  *)
(* is always one a release made, and a store that was constructed can be    *)
(* used.                                                                    *)
(***************************************************************************)
EXTENDS SchemaInit, TLAPS

\* The write lock has one holder, and a process migrates exactly while it is.
LockInv ==
    /\ \A x, y \in lock : x = y
    /\ \A p \in Procs : (pc[p] = "migrating") <=> (p \in lock)

\* A transaction starts from the file under the lock and adds to it what the
\* release lacks, in order.
TxInv ==
    \A p \in Procs : pc[p] = "migrating" =>
        tx[p].applied = Upto(tx[p].version) /\ db.version <= tx[p].version

\* What a process has learnt of the file stays true of it.
ViewInv ==
    \A p \in Procs :
        /\ seen[p] <= db.version
        /\ pc[p] \in {"begin", "migrating", "done"} => db.journal = "wal"
        /\ pc[p] = "done" => Known[p] <= db.version

IInv == TypeOK /\ SchemaMatchesVersion /\ LockInv /\ TxInv /\ ViewInv /\ NoMigrationTwice

\* A failed attempt changes neither the file nor the lock, and ends in a new
\* attempt or with a locked database.
LEMMA RetriesOK ==
    ASSUME IInv, NEW p \in Procs, pc[p] \in {"switch", "begin"}, Retries(p),
           UNCHANGED <<db, lock, seen, tx, crashes>>
    PROVE  IInv'
<1> USE DEF Retries, Goes, Attempts
<1>1. TypeOK'
  <2>1. attempt' \in [Procs -> 0 .. Attempts]
    BY DEF IInv, TypeOK
  <2>2. error' \in [Procs -> Errors]
    BY DEF IInv, TypeOK, Errors
  <2>3. pc' \in [Procs -> {"down", "version", "mode", "switch", "begin", "migrating", "done",
                           "failed"}]
    <3>1. \E where \in {"version", "failed"} : pc' = [pc EXCEPT ![p] = where]
      OBVIOUS
    <3> HIDE DEF Retries
    <3> QED
      BY <3>1 DEF IInv, TypeOK
  <2>4. UNCHANGED <<db, lock, seen, tx, crashes>>
    OBVIOUS
  <2> HIDE DEF Retries
  <2> QED
    BY <2>1, <2>2, <2>3, <2>4 DEF IInv, TypeOK
<1>2. SchemaMatchesVersion'
  BY DEF IInv, SchemaMatchesVersion, Upto
<1>3. LockInv'
  BY DEF IInv, LockInv, TypeOK
<1>4. TxInv'
  BY DEF IInv, TxInv, TypeOK, Upto
<1>5. ViewInv'
  BY DEF IInv, ViewInv, TypeOK
<1>6. NoMigrationTwice'
  BY DEF IInv, NoMigrationTwice, TypeOK, Errors
<1> QED
  BY <1>1, <1>2, <1>3, <1>4, <1>5, <1>6 DEF IInv

\* Appending the next migration keeps the statements a prefix.
LEMMA UptoNext ==
    ASSUME NEW v \in Versions, v < Migrations
    PROVE  /\ Upto(v + 1) = Upto(v) \cup {v}
           /\ v \notin Upto(v)
           /\ v + 1 \in Versions /\ v \in Statements
  BY KnownAssumption DEF Upto, Versions, Statements

LEMMA InitOK == Init => IInv
<1> SUFFICES ASSUME Init PROVE IInv
  OBVIOUS
<1>1. PICK v \in Versions, m \in {"delete", "wal"} :
          db = [version |-> v, applied |-> Upto(v), journal |-> m]
  BY DEF Init
<1>2. 0 \in Versions /\ 0 \in 0 .. MaxCrashes
  BY KnownAssumption DEF Versions
<1>3. TypeOK
  BY <1>1, <1>2 DEF Init, TypeOK, NoTx, Errors, Upto, Attempts
<1>4. SchemaMatchesVersion /\ LockInv /\ TxInv /\ NoMigrationTwice
  BY <1>1 DEF Init, SchemaMatchesVersion, LockInv, TxInv, NoMigrationTwice
<1>5. ViewInv
  BY <1>1 DEF Init, ViewInv, Versions
<1> QED
  BY <1>3, <1>4, <1>5 DEF IInv

\* The steps outside a transaction that leave the file alone.
LEMMA ReadsOK ==
    ASSUME IInv, NEW p \in Procs, Open(p) \/ ReadVersion(p) \/ ReadMode(p)
    PROVE  IInv'
<1> USE DEF Open, ReadVersion, ReadMode, IsCurrent, Goes
<1>1. TypeOK'
  <2>1. pc' \in [Procs -> {"down", "version", "mode", "switch", "begin", "migrating", "done",
                           "failed"}]
    BY DEF IInv, TypeOK
  <2>2. seen' \in [Procs -> Versions]
    BY DEF IInv, TypeOK
  <2>3. attempt' \in [Procs -> 0 .. Attempts]
    BY DEF IInv, TypeOK, Attempts
  <2>4. UNCHANGED <<db, lock, tx, error, crashes>>
    OBVIOUS
  <2> QED
    <3> HIDE DEF Open, ReadVersion, ReadMode, IsCurrent, Goes
    <3> QED
      BY <2>1, <2>2, <2>3, <2>4 DEF IInv, TypeOK
<1>2. SchemaMatchesVersion' /\ NoMigrationTwice'
  BY DEF IInv, SchemaMatchesVersion, NoMigrationTwice, Upto
<1>3. LockInv'
  BY DEF IInv, LockInv, TypeOK
<1>4. TxInv'
  BY DEF IInv, TxInv, TypeOK, Upto
<1>5. ViewInv'
  BY KnownAssumption DEF IInv, ViewInv, TypeOK, Versions
<1> QED
  BY <1>1, <1>2, <1>3, <1>4, <1>5 DEF IInv

LEMMA SwitchOK ==
    ASSUME IInv, NEW p \in Procs, SwitchToWal(p)
    PROVE  IInv'
<1> USE DEF SwitchToWal, Goes
<1>1. TypeOK'
  BY DEF IInv, TypeOK
<1>2. SchemaMatchesVersion' /\ NoMigrationTwice'
  BY DEF IInv, SchemaMatchesVersion, NoMigrationTwice, Upto, TypeOK
<1>3. LockInv'
  BY DEF IInv, LockInv, TypeOK
<1>4. TxInv'
  BY DEF IInv, TxInv, TypeOK, Upto
<1>5. ViewInv'
  BY DEF IInv, ViewInv, TypeOK
<1> QED
  BY <1>1, <1>2, <1>3, <1>4, <1>5 DEF IInv

LEMMA BeginOK ==
    ASSUME IInv, NEW p \in Procs, Begin(p)
    PROVE  IInv'
<1> USE DEF Begin, Goes
<1>1. TypeOK'
  BY DEF IInv, TypeOK
<1>2. SchemaMatchesVersion' /\ NoMigrationTwice'
  BY DEF IInv, SchemaMatchesVersion, NoMigrationTwice, Upto
<1>3. LockInv'
  BY DEF IInv, LockInv, TypeOK
<1>4. TxInv'
  BY DEF IInv, TxInv, TypeOK, Upto, SchemaMatchesVersion, Versions
<1>5. ViewInv'
  BY DEF IInv, ViewInv, TypeOK, Versions
<1> QED
  BY <1>1, <1>2, <1>3, <1>4, <1>5 DEF IInv

LEMMA MigrateOK ==
    ASSUME IInv, NEW p \in Procs, Migrate(p)
    PROVE  IInv'
<1> DEFINE v == tx[p].version
<1>1. v \in Versions /\ v < Migrations /\ pc[p] = "migrating"
  <2>1. v \in Versions
    BY DEF IInv, TypeOK
  <2>2. Known[p] \in 0 .. Migrations /\ Migrations \in Nat
    BY KnownAssumption
  <2>3. v < Known[p] /\ pc[p] = "migrating"
    BY DEF Migrate, InTx, HasNext, Number
  <2> QED
    BY <2>1, <2>2, <2>3 DEF Versions
<1>2. tx' = [tx EXCEPT ![p] = [version |-> v + 1, applied |-> tx[p].applied \cup {v}]]
  BY DEF Migrate
<1>3. TypeOK'
  BY <1>1, <1>2, UptoNext DEF IInv, TypeOK, Migrate
<1>4. SchemaMatchesVersion' /\ NoMigrationTwice' /\ ViewInv' /\ LockInv'
  BY DEF IInv, SchemaMatchesVersion, NoMigrationTwice, ViewInv, LockInv, Migrate, Upto
<1>5. TxInv'
  <2>1. tx'[p].applied = Upto(tx'[p].version) /\ db.version <= tx'[p].version
    BY <1>1, <1>2, UptoNext DEF IInv, TypeOK, TxInv, Versions
  <2>2. \A q \in Procs \ {p} : tx'[q] = tx[q]
    BY <1>2 DEF IInv, TypeOK
  <2> QED
    BY <2>1, <2>2 DEF IInv, TxInv, Migrate, Upto
<1> QED
  BY <1>3, <1>4, <1>5 DEF IInv

LEMMA CommitOK ==
    ASSUME IInv, NEW p \in Procs, Commit(p)
    PROVE  IInv'
<1>1. /\ pc[p] = "migrating" /\ lock = {p} /\ lock' = {}
      /\ Known[p] <= tx[p].version /\ tx[p].version \in Versions
      /\ tx[p].applied = Upto(tx[p].version) /\ db.version <= tx[p].version
      /\ db'.version = tx[p].version /\ db'.applied = tx[p].applied
      /\ db'.journal = db.journal
      /\ pc' = [pc EXCEPT ![p] = "done"]
  <2>1. /\ pc[p] = "migrating" /\ lock = {p} /\ lock' = {}
        /\ ~(tx[p].version < Known[p])
        /\ db' = [db EXCEPT !.version = tx[p].version, !.applied = tx[p].applied]
        /\ pc' = [pc EXCEPT ![p] = "done"]
    BY DEF Commit, InTx, HasNext, Number, Goes
  <2>2. tx[p].version \in Versions
    BY DEF IInv, TypeOK
  <2>3. Known[p] \in 0 .. Migrations /\ Migrations \in Nat
    BY KnownAssumption
  <2>4. Known[p] <= tx[p].version
    BY <2>1, <2>2, <2>3 DEF Versions
  <2>5. tx[p].applied = Upto(tx[p].version) /\ db.version <= tx[p].version
    BY <2>1 DEF IInv, TxInv
  <2>6. db'.version = tx[p].version /\ db'.applied = tx[p].applied /\ db'.journal = db.journal
    BY <2>1 DEF IInv, TypeOK
  <2> QED
    BY <2>1, <2>2, <2>4, <2>5, <2>6
<1>2. TypeOK'
  <2>1. 0 \in Versions
    BY KnownAssumption DEF Versions
  <2>2. tx' \in [Procs -> [version : Versions, applied : SUBSET Statements]]
    BY <2>1 DEF IInv, TypeOK, Commit, NoTx
  <2>3. db' \in [version : Versions, applied : SUBSET Statements, journal : {"delete", "wal"}]
    BY DEF IInv, TypeOK, Commit
  <2> QED
    BY <1>1, <2>2, <2>3 DEF IInv, TypeOK, Commit
<1>3. SchemaMatchesVersion' /\ NoMigrationTwice'
  BY <1>1 DEF IInv, SchemaMatchesVersion, NoMigrationTwice, Commit, Upto
<1>4. LockInv'
  BY <1>1 DEF IInv, LockInv, TypeOK
<1>5. TxInv'
  BY <1>1, <1>4 DEF TxInv, LockInv
<1>6. ViewInv'
  <2> SUFFICES ASSUME NEW q \in Procs
               PROVE  /\ seen'[q] <= db'.version
                      /\ pc'[q] \in {"begin", "migrating", "done"} => db'.journal = "wal"
                      /\ pc'[q] = "done" => Known[q] <= db'.version
    BY DEF ViewInv
  <2>1. /\ seen'[q] = seen[q] /\ seen[q] \in Nat /\ Known[q] \in Nat
        /\ db.version \in Nat /\ tx[p].version \in Nat
    <3>1. seen'[q] = seen[q]
      BY DEF Commit
    <3>2. seen[q] \in Versions /\ db.version \in Versions /\ tx[p].version \in Versions
      BY DEF IInv, TypeOK
    <3>3. Known[q] \in 0 .. Migrations
      BY KnownAssumption
    <3> QED
      BY <3>1, <3>2, <3>3, KnownAssumption DEF Versions
  <2>2. /\ seen[q] <= db.version
        /\ pc[q] \in {"begin", "migrating", "done"} => db.journal = "wal"
        /\ pc[q] = "done" => Known[q] <= db.version
        /\ pc[p] \in {"begin", "migrating", "done"} => db.journal = "wal"
    BY DEF IInv, ViewInv
  <2>3. pc'[q] = IF q = p THEN "done" ELSE pc[q]
    BY <1>1 DEF IInv, TypeOK
  <2> QED
    BY <1>1, <2>1, <2>2, <2>3
<1> QED
  BY <1>2, <1>3, <1>4, <1>5, <1>6 DEF IInv

\* A migration never meets a statement that is applied already, so what can
\* fail in it is something else.
LEMMA MigrationFailsOK ==
    ASSUME IInv, NEW p \in Procs, MigrationFails(p)
    PROVE  IInv'
<1>1. pc[p] = "migrating" /\ lock = {p} /\ lock' = {} /\ db' = db /\ seen' = seen
      /\ pc' = [pc EXCEPT ![p] = "failed"]
  BY DEF MigrationFails, InTx, Rollback, Raises, Goes
<1>2. ~(HasNext(p) /\ Number(p) \in tx[p].applied)
  <2> SUFFICES ASSUME HasNext(p) PROVE Number(p) \notin tx[p].applied
    OBVIOUS
  <2>1. tx[p].version \in Versions /\ tx[p].version < Migrations
    BY KnownAssumption DEF IInv, TypeOK, HasNext, Number, Versions
  <2> QED
    BY <1>1, <2>1, UptoNext DEF IInv, TxInv, Number
<1>3. error' = [error EXCEPT ![p] = "other"]
  BY <1>2 DEF MigrationFails, Raises
<1>4. TypeOK'
  BY <1>1, <1>3, KnownAssumption
  DEF IInv, TypeOK, MigrationFails, Rollback, Raises, NoTx, Versions, Errors
<1>5. SchemaMatchesVersion' /\ NoMigrationTwice'
  BY <1>1, <1>3 DEF IInv, SchemaMatchesVersion, NoMigrationTwice, TypeOK, Upto
<1>6. LockInv'
  BY <1>1 DEF IInv, LockInv, TypeOK
<1>7. TxInv'
  BY <1>1, <1>6 DEF TxInv, LockInv
<1>8. ViewInv'
  BY <1>1 DEF IInv, ViewInv, TypeOK
<1> QED
  BY <1>4, <1>5, <1>6, <1>7, <1>8 DEF IInv

LEMMA CrashOK ==
    ASSUME IInv, NEW p \in Procs, Crash(p)
    PROVE  IInv'
<1> USE DEF Crash, Goes
<1>1. TypeOK'
  BY KnownAssumption DEF IInv, TypeOK, NoTx, Versions
<1>2. SchemaMatchesVersion' /\ NoMigrationTwice'
  BY DEF IInv, SchemaMatchesVersion, NoMigrationTwice, Upto
<1>3. LockInv'
  BY DEF IInv, LockInv, TypeOK
<1>4. TxInv'
  <2>1. \A q \in Procs : pc'[q] = "migrating" => pc[q] = "migrating" /\ tx'[q] = tx[q]
    BY DEF IInv, TypeOK
  <2> QED
    BY <2>1 DEF IInv, TxInv, Upto
<1>5. ViewInv'
  BY DEF IInv, ViewInv, TypeOK
<1> QED
  BY <1>1, <1>2, <1>3, <1>4, <1>5 DEF IInv

LEMMA WriterOK ==
    ASSUME IInv, WriterLocks \/ WriterUnlocks
    PROVE  IInv'
<1> USE WriterAssumption DEF WriterLocks, WriterUnlocks
<1>1. TypeOK'
  BY DEF IInv, TypeOK
<1>2. LockInv'
  BY DEF IInv, LockInv
<1>3. SchemaMatchesVersion' /\ NoMigrationTwice' /\ TxInv' /\ ViewInv'
  BY DEF IInv, SchemaMatchesVersion, NoMigrationTwice, TxInv, ViewInv, Upto
<1> QED
  BY <1>1, <1>2, <1>3 DEF IInv

\* The invariant of migration: lock, transactions and views as above.
THEOREM Inductive == Spec => []IInv
<1>1. Init => IInv
  BY InitOK
<1>2. IInv /\ [Next]_vars => IInv'
  <2> SUFFICES ASSUME IInv, [Next]_vars
               PROVE  IInv'
    OBVIOUS
  <2>1. ASSUME NEW p \in Procs, Open(p) \/ ReadVersion(p) \/ ReadMode(p)
        PROVE  IInv'
    BY <2>1, ReadsOK
  <2>2. ASSUME NEW p \in Procs, SwitchToWal(p) \/ Begin(p)
        PROVE  IInv'
    BY <2>2, SwitchOK, BeginOK
  <2>3. ASSUME NEW p \in Procs, SwitchCollides(p) \/ BeginTimesOut(p)
        PROVE  IInv'
    BY <2>3, RetriesOK DEF SwitchCollides, BeginTimesOut
  <2>4. ASSUME NEW p \in Procs, Migrate(p) \/ Commit(p) \/ MigrationFails(p)
        PROVE  IInv'
    BY <2>4, MigrateOK, CommitOK, MigrationFailsOK
  <2>5. ASSUME NEW p \in Procs, Crash(p)
        PROVE  IInv'
    BY <2>5, CrashOK
  <2>6. CASE WriterLocks \/ WriterUnlocks
    BY <2>6, WriterOK
  <2>7. CASE UNCHANGED vars
    BY <2>7 DEF vars, IInv, TypeOK, SchemaMatchesVersion, LockInv, TxInv, ViewInv,
                NoMigrationTwice, Upto
  <2> QED
    BY <2>1, <2>2, <2>3, <2>4, <2>5, <2>6, <2>7 DEF Next, Steps
<1> QED
  BY <1>1, <1>2, PTL DEF Spec

\* Whoever is killed where, the file holds exactly the statements below its
\* version number (the migrations run under BEGIN IMMEDIATE).
THEOREM SchemaCorrect == Spec => []SchemaMatchesVersion
  BY Inductive, PTL DEF IInv

\* A constructed store finds its whole schema and a file in WAL mode, whichever
\* process migrated it.
THEOREM ConstructedIsUsable == Spec => []DoneMeansUsable
<1>1. IInv => DoneMeansUsable
  BY KnownAssumption
  DEF IInv, SchemaMatchesVersion, ViewInv, DoneMeansUsable, Upto, TypeOK, Versions, Statements
<1> QED
  BY <1>1, Inductive, PTL

\* Concurrent construction is safe (SqliteTokenStore's docstring): no process
\* runs a migration that another one has run, whatever order they read the
\* version, wait for the lock, fail and are killed in.
THEOREM MigrationsRunOnce == Spec => []NoMigrationTwice
<1>1. IInv => NoMigrationTwice
  BY DEF IInv
<1> QED
  BY <1>1, Inductive, PTL
=============================================================================
