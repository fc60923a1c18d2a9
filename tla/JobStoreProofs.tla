--------------------------- MODULE JobStoreProofs ---------------------------
(***************************************************************************)
(* What JobStore.tla and JobReads.tla promise for every set of jobs,        *)
(* tokens, documents, details and instants.  Of the store: its rows have    *)
(* the types of the schema, no sequence of transitions leaves a row its     *)
(* readers would reject, a deleted job never comes back, and the store      *)
(* implements JobLifecycle.  Of the reading endpoints: a foreign token      *)
(* learns nothing of a job, and no read contradicts what a client knows.     *)
(***************************************************************************)
EXTENDS JobReads, TLAPS

\* The rows inserted by add, and the columns the other statements set, have
\* the types of the schema (_MIGRATIONS, adapters/sqlite.py).
THEOREM TypeCorrect == Spec => []TypeOK
<1>1. Init => TypeOK
  BY DEF Init, TypeOK
<1>2. TypeOK /\ [Next]_vars => TypeOK'
  <2> SUFFICES ASSUME TypeOK, [Next]_vars
               PROVE  TypeOK'
    OBVIOUS
  <2> USE DEF TypeOK, Row, JobStatus
  <2>1. ASSUME NEW j \in Jobs, NEW t \in Tokens, NEW c \in Times, Add(j, t, c)
        PROVE  TypeOK'
    BY <2>1 DEF Add, NewRow
  <2>2. ASSUME NEW j \in Jobs, MarkRunning(j)
        PROVE  TypeOK'
    <3>1. CASE MarkRunningHits(j)
      <4>1. rows[j] \in Row
        BY <3>1 DEF MarkRunningHits, InStatus, Stored
      <4>2. [rows[j] EXCEPT !.status = "running", !.started = TRUE] \in Row
        BY <4>1
      <4> QED
        BY <2>2, <3>1, <4>2 DEF MarkRunning
    <3> QED
      BY <2>2, <3>1 DEF MarkRunning
  <2>3. ASSUME NEW j \in Jobs, NEW doc \in Documents, MarkDone(j, doc)
        PROVE  TypeOK'
    <3>1. CASE MarkDoneHits(j)
      <4>1. rows[j] \in Row
        BY <3>1 DEF MarkDoneHits, InStatus, Stored
      <4>2. [rows[j] EXCEPT !.status = "done", !.finished = TRUE, !.result = doc] \in Row
        BY <4>1
      <4> QED
        BY <2>3, <3>1, <4>2 DEF MarkDone
    <3> QED
      BY <2>3, <3>1 DEF MarkDone
  <2>4. ASSUME NEW S \in SUBSET Incomplete, NEW d \in Details, FailRows(S, d)
        PROVE  TypeOK'
    <3>1. ASSUME NEW j \in S
          PROVE  Failed(rows[j], d) \in Row
      <4>1. rows[j] \in Row
        BY DEF Incomplete, InStatus, Stored
      <4> QED
        BY <4>1 DEF Failed
    <3> QED
      BY <2>4, <3>1 DEF FailRows
  <2>5. ASSUME NEW S \in SUBSET Jobs, DropRows(S)
        PROVE  TypeOK'
    BY <2>5 DEF DropRows
  <2>6. CASE UNCHANGED vars
    BY <2>6 DEF vars
  <2> QED
    BY <2>1, <2>2, <2>3, <2>4, <2>5, <2>6
    DEF Next, MarkFailed, SweepIncomplete, Delete, PurgeOlderThan, Expired
<1> QED
  BY <1>1, <1>2, PTL DEF Spec

-----------------------------------------------------------------------------
\* A step is one of five statements, whichever method issued it.  The three
\* methods that fail jobs share one statement, and so do the two that delete.
LEMMA Statements ==
    ASSUME Next
    PROVE  \/ \E j \in Jobs, t \in Tokens, c \in Times : Add(j, t, c)
           \/ \E j \in Jobs : MarkRunning(j)
           \/ \E j \in Jobs, doc \in Documents : MarkDone(j, doc)
           \/ \E S \in SUBSET Incomplete, d \in Details : FailRows(S, d)
           \/ \E S \in SUBSET Jobs : DropRows(S) /\ \A j \in S : Stored(j)
<1>1. ASSUME NEW j \in Jobs, NEW d \in Details, MarkFailed(j, d)
      PROVE  \E S \in SUBSET Incomplete : FailRows(S, d)
  BY <1>1 DEF MarkFailed
<1>2. ASSUME NEW d \in Details, SweepIncomplete(d)
      PROVE  \E S \in SUBSET Incomplete : FailRows(S, d)
  BY <1>2 DEF SweepIncomplete
<1>3. ASSUME NEW j \in Jobs, NEW t \in Tokens, Delete(j, t)
      PROVE  \E S \in SUBSET Jobs : DropRows(S) /\ \A i \in S : Stored(i)
  BY <1>3 DEF Delete, DeleteHits, Owned
<1>4. ASSUME NEW cutoff \in Times, PurgeOlderThan(cutoff)
      PROVE  \E S \in SUBSET Jobs : DropRows(S) /\ \A i \in S : Stored(i)
  BY <1>4 DEF PurgeOlderThan, Expired
<1> QED
  BY <1>1, <1>2, <1>3, <1>4 DEF Next

\* The SET clause mark_failed and the startup sweep share keeps a row coherent.
LEMMA FailedRow ==
    ASSUME NEW r \in Row, RowCoherent(r), r.status \in {"queued", "running"},
           NEW d \in Details
    PROVE  Failed(r, d) \in Row /\ RowCoherent(Failed(r, d))
<1>1. Failed(r, d) \in Row
  BY DEF Failed, Row, JobStatus
<1>2. /\ Failed(r, d).status = "failed" /\ Failed(r, d).finished = TRUE
      /\ Failed(r, d).detail = d /\ Failed(r, d).result = r.result
  BY DEF Failed, Row
<1>3. r.result = Null /\ d # Null
  BY NullIsNoValue DEF RowCoherent
<1> QED
  BY <1>1, <1>2, <1>3 DEF RowCoherent

\* Every done row holds a document and no other row does, every failed row a
\* detail and no other row does, and no deleted job is stored again: neither a
\* late mark_* call nor a repeated sweep can produce what _row_to_job or
\* get_result reject.  Together the two are inductive given the types; the
\* second is what lets add assume that a fresh id was never deleted.
RowsInv == RowsCoherent /\ NoResurrection

\* RowsInv holds of every table the store's calls can make.
THEOREM RowsCorrect == Spec => [](RowsCoherent /\ NoResurrection)
<1>1. Init => RowsInv
  BY DEF Init, RowsInv, RowsCoherent, NoResurrection, Stored
<1>2. TypeOK /\ RowsInv /\ [Next]_vars => RowsInv'
  <2> SUFFICES ASSUME TypeOK, RowsInv, [Next]_vars
               PROVE  RowsInv'
    OBVIOUS
  <2> USE NullIsNoValue, NullIsNoRow
        DEF TypeOK, Row, JobStatus, RowsInv, RowsCoherent, NoResurrection, RowCoherent,
            Stored, InStatus
  <2>1. ASSUME NEW j \in Jobs, NEW t \in Tokens, NEW c \in Times, Add(j, t, c)
        PROVE  RowsInv'
    BY <2>1 DEF Add, NewRow
  <2>2. ASSUME NEW j \in Jobs, MarkRunning(j)
        PROVE  RowsInv'
    BY <2>2 DEF MarkRunning, MarkRunningHits
  <2>3. ASSUME NEW j \in Jobs, NEW doc \in Documents, MarkDone(j, doc)
        PROVE  RowsInv'
    BY <2>3 DEF MarkDone, MarkDoneHits
  <2>4. ASSUME NEW S \in SUBSET Incomplete, NEW d \in Details, FailRows(S, d)
        PROVE  RowsInv'
    <3>1. ASSUME NEW i \in S
          PROVE  rows'[i] # Null /\ RowCoherent(rows'[i])
      <4> HIDE DEF Row, RowCoherent
      <4>1. i \in Jobs /\ rows[i] # Null /\ rows[i].status \in {"queued", "running"}
        BY DEF Incomplete
      <4>2. rows[i] \in Row /\ RowCoherent(rows[i])
        BY <4>1
      <4>3. rows'[i] = Failed(rows[i], d)
        BY <2>4, <4>1 DEF FailRows
      <4> QED
        BY <4>1, <4>2, <4>3, FailedRow
    <3>2. ASSUME NEW i \in Jobs \ S
          PROVE  rows'[i] = rows[i]
      BY <2>4, <3>2 DEF FailRows
    <3>3. S \cap purged = {} /\ purged' = purged
      BY <2>4 DEF FailRows, Incomplete
    <3> QED
      BY <3>1, <3>2, <3>3
  <2>5. ASSUME NEW S \in SUBSET Jobs, DropRows(S)
        PROVE  RowsInv'
    BY <2>5 DEF DropRows
  <2>6. CASE UNCHANGED vars
    BY <2>6 DEF vars
  <2> QED
    BY <2>1, <2>2, <2>3, <2>4, <2>5, <2>6, Statements
<1> QED
  BY <1>1, <1>2, TypeCorrect, PTL DEF Spec, RowsInv

-----------------------------------------------------------------------------
\* The store implements the lifecycle.

\* A job's abstract state, and how a set of jobs moves in it.
Seen(j) == [status |-> StatusOf(j), outcome |-> OutcomeOf(j)]

LEMMA Moves ==
    ASSUME NEW S \in SUBSET Jobs, NEW From, NEW To, NEW o,
           \A j \in S : StatusOf(j) \in From /\ StatusOf(j)' = To /\ OutcomeOf(j)' = o,
           \A j \in Jobs \ S : StatusOf(j)' = StatusOf(j) /\ OutcomeOf(j)' = OutcomeOf(j)
    PROVE  Lifecycle!Move(S, From, To, o)
  BY DEF Lifecycle!Move

\* An insert accepts one job that was never seen.
LEMMA AddMoves ==
    ASSUME TypeOK, NEW j \in Jobs, NEW t \in Tokens, NEW c \in Times, Add(j, t, c)
    PROVE  Lifecycle!Accept(j)
<1> USE DEF StatusOf, OutcomeOf, InStatus, Stored
<1>1. StatusOf(j) = "unknown"
  BY DEF Add
<1>2. rows'[j] = NewRow(t, c) /\ purged' = purged /\ \A i \in Jobs \ {j} : rows'[i] = rows[i]
  BY DEF Add, TypeOK
<1>3. NewRow(t, c) \in Row /\ NewRow(t, c).status = "queued"
  BY NullIsNoValue DEF NewRow, Row, JobStatus
<1>4. StatusOf(j)' = "queued" /\ OutcomeOf(j)' = Null
  BY <1>2, <1>3, NullIsNoRow
<1>5. \A i \in Jobs \ {j} : StatusOf(i)' = StatusOf(i) /\ OutcomeOf(i)' = OutcomeOf(i)
  BY <1>2
<1> HIDE DEF StatusOf, OutcomeOf
<1> QED
  BY <1>1, <1>4, <1>5, Moves DEF Lifecycle!Accept

\* The compare-and-set UPDATE of mark_running starts a queued job or nothing.
LEMMA MarkRunningMoves ==
    ASSUME TypeOK, NEW j \in Jobs, MarkRunning(j)
    PROVE  Lifecycle!Start(j) \/ UNCHANGED rows
<1> SUFFICES ASSUME MarkRunningHits(j)
             PROVE  Lifecycle!Start(j)
  BY DEF MarkRunning
<1> USE DEF StatusOf, OutcomeOf, InStatus, Stored
<1>1. StatusOf(j) = "queued" /\ rows[j] \in Row
  BY DEF MarkRunningHits, TypeOK
<1>2. /\ rows'[j] = [rows[j] EXCEPT !.status = "running", !.started = TRUE]
      /\ purged' = purged /\ \A i \in Jobs \ {j} : rows'[i] = rows[i]
  BY DEF MarkRunning, TypeOK
<1>3. rows'[j] \in Row /\ rows'[j].status = "running"
  BY <1>1, <1>2 DEF Row, JobStatus
<1>4. StatusOf(j)' = "running" /\ OutcomeOf(j)' = Null
  BY <1>3, NullIsNoRow
<1>5. \A i \in Jobs \ {j} : StatusOf(i)' = StatusOf(i) /\ OutcomeOf(i)' = OutcomeOf(i)
  BY <1>2
<1> HIDE DEF StatusOf, OutcomeOf
<1> QED
  BY <1>1, <1>4, <1>5, Moves DEF Lifecycle!Start

\* That of mark_done finishes a running job or nothing.
LEMMA MarkDoneMoves ==
    ASSUME TypeOK, NEW j \in Jobs, NEW doc \in Documents, MarkDone(j, doc)
    PROVE  Lifecycle!Finish(j, doc) \/ UNCHANGED rows
<1> SUFFICES ASSUME MarkDoneHits(j)
             PROVE  Lifecycle!Finish(j, doc)
  BY DEF MarkDone
<1> USE DEF StatusOf, OutcomeOf, InStatus, Stored
<1>1. StatusOf(j) = "running" /\ rows[j] \in Row
  BY DEF MarkDoneHits, TypeOK
<1>2. /\ rows'[j] = [rows[j] EXCEPT !.status = "done", !.finished = TRUE, !.result = doc]
      /\ purged' = purged /\ \A i \in Jobs \ {j} : rows'[i] = rows[i]
  BY DEF MarkDone, TypeOK
<1>3. rows'[j] \in Row /\ rows'[j].status = "done" /\ rows'[j].result = doc
  BY <1>1, <1>2 DEF Row, JobStatus
<1>4. StatusOf(j)' = "done" /\ OutcomeOf(j)' = doc
  BY <1>3, NullIsNoRow
<1>5. \A i \in Jobs \ {j} : StatusOf(i)' = StatusOf(i) /\ OutcomeOf(i)' = OutcomeOf(i)
  BY <1>2
<1> HIDE DEF StatusOf, OutcomeOf
<1> QED
  BY <1>1, <1>4, <1>5, Moves DEF Lifecycle!Finish

\* mark_failed and the sweep fail jobs that had not settled, and only those.
LEMMA FailRowsMoves ==
    ASSUME TypeOK, RowsInv, NEW S \in SUBSET Incomplete, NEW d \in Details, FailRows(S, d)
    PROVE  Lifecycle!Fail(S, d)
<1>1. S \subseteq Jobs
  BY DEF Incomplete
<1>2. ASSUME NEW j \in S
      PROVE  /\ StatusOf(j) \in {"queued", "running"}
             /\ StatusOf(j)' = "failed" /\ OutcomeOf(j)' = d
  <2>1. /\ j \in Jobs /\ rows[j] \in Row
        /\ rows[j] # Null /\ rows[j].status \in {"queued", "running"}
    BY DEF Incomplete, InStatus, Stored, TypeOK
  <2>2. rows'[j] = Failed(rows[j], d)
    BY <1>2, <2>1 DEF FailRows
  <2>3. RowCoherent(rows[j])
    BY <2>1 DEF RowsInv, RowsCoherent, Stored
  <2>4. rows'[j] \in Row
    BY <2>1, <2>2, <2>3, FailedRow
  <2>5. rows'[j].status = "failed" /\ rows'[j].detail = d
    BY <2>1, <2>2 DEF Failed, Row
  <2>6. rows'[j] # Null
    BY <2>4, NullIsNoRow
  <2> QED
    BY <2>1, <2>5, <2>6 DEF StatusOf, OutcomeOf, InStatus, Stored
<1>3. ASSUME NEW j \in Jobs \ S
      PROVE  StatusOf(j)' = StatusOf(j) /\ OutcomeOf(j)' = OutcomeOf(j)
  BY <1>3 DEF FailRows, StatusOf, OutcomeOf, InStatus, Stored
<1> QED
  BY <1>1, <1>2, <1>3, Moves DEF Lifecycle!Fail

\* delete and the purge forget stored jobs.
LEMMA DropRowsMoves ==
    ASSUME TypeOK, NEW S \in SUBSET Jobs, DropRows(S), \A j \in S : Stored(j)
    PROVE  Lifecycle!Forget(S)
<1>1. ASSUME NEW j \in S
      PROVE  StatusOf(j) \in {"queued", "running", "done", "failed"}
  <2>1. rows[j] \in Row /\ rows[j] # Null
    BY DEF TypeOK, Stored
  <2> QED
    BY <2>1 DEF StatusOf, Stored, Row, JobStatus
<1>2. ASSUME NEW j \in S
      PROVE  StatusOf(j)' = "forgotten" /\ OutcomeOf(j)' = Null
  BY DEF DropRows, StatusOf, OutcomeOf, InStatus, Stored
<1>3. ASSUME NEW j \in Jobs \ S
      PROVE  StatusOf(j)' = StatusOf(j) /\ OutcomeOf(j)' = OutcomeOf(j)
  BY <1>3 DEF DropRows, StatusOf, OutcomeOf, InStatus, Stored
<1> QED
  BY <1>1, <1>2, <1>3, Moves DEF Lifecycle!Forget

\* SqliteJobStore implements the lifecycle callers are promised: each method,
\* called from anywhere at any time, is one legal move of the jobs it touches
\* or leaves every job as it was.
THEOREM ImplementsLifecycle == Spec => KeepsLifecycle
<1>1. Init => Lifecycle!Init
  BY DEF Init, Lifecycle!Init, StatusOf, OutcomeOf, InStatus, Stored
<1>2. ASSUME TypeOK, RowsInv, [Next]_vars
      PROVE  [Lifecycle!Next]_([j \in Jobs |-> Seen(j)])
  <2>1. ASSUME NEW j \in Jobs, NEW t \in Tokens, NEW c \in Times, Add(j, t, c)
        PROVE  Lifecycle!Next
    BY <1>2, <2>1, AddMoves DEF Lifecycle!Next
  <2>2. ASSUME NEW j \in Jobs, MarkRunning(j)
        PROVE  Lifecycle!Next \/ UNCHANGED vars
    BY <1>2, <2>2, MarkRunningMoves DEF Lifecycle!Next, MarkRunning, vars
  <2>3. ASSUME NEW j \in Jobs, NEW doc \in Documents, MarkDone(j, doc)
        PROVE  Lifecycle!Next \/ UNCHANGED vars
    BY <1>2, <2>3, MarkDoneMoves DEF Lifecycle!Next, MarkDone, vars
  <2>4. ASSUME NEW S \in SUBSET Incomplete, NEW d \in Details, FailRows(S, d)
        PROVE  Lifecycle!Next
    BY <1>2, <2>4, FailRowsMoves DEF Lifecycle!Next, Incomplete
  <2>5. ASSUME NEW S \in SUBSET Jobs, DropRows(S), \A j \in S : Stored(j)
        PROVE  Lifecycle!Next
    BY <1>2, <2>5, DropRowsMoves DEF Lifecycle!Next
  <2>6. CASE UNCHANGED vars
    BY <2>6 DEF vars, Seen, StatusOf, OutcomeOf, InStatus, Stored
  <2> QED
    BY <1>2, <2>1, <2>2, <2>3, <2>4, <2>5, <2>6, Statements
<1> QED
  BY <1>1, <1>2, TypeCorrect, RowsCorrect, PTL
  DEF Spec, KeepsLifecycle, Lifecycle!Spec, RowsInv, Seen

-----------------------------------------------------------------------------
\* The reads leave the store alone, so what holds of it holds here.
LEMMA ReadsAreOfStore == ReadsSpec => Spec
<1>1. ReadsInit => Init
  BY DEF ReadsInit
<1>2. [ReadsNext]_readsVars => [Next]_vars
  BY DEF ReadsNext, readsVars, GetJob, ListJobs, ReadStatus, ReadResult, Answer, StoreMoves
<1> QED
  BY <1>1, <1>2, PTL DEF ReadsSpec, Spec

\* All that there is to be told of a poll now, and an answer read from it.
Truth(p) == IF Owned(p[2], p[1]) THEN Reply(p, rows[p[2]].status, rows[p[2]].result)
            ELSE NotFound(p)

IsRead(a) == a.status = Truth(a.poll).status /\ a.document \in {Null, Truth(a.poll).document}

\* What was read is not contradicted by what there is to be read now.
Fits(a) == MayFollow(a, Truth(a.poll)) /\ (a.document # Null => a.status = "done")

ReadsInv == TypeOK /\ RowsInv /\ ReadsTypeOK /\ \A a \in Known : Fits(a)

-----------------------------------------------------------------------------
\* How a row may change under a reader.
Advances(j) ==
    /\ j \in purged => j \in purged'
    /\ Stored(j) /\ ~Stored(j)' => j \in purged'
    /\ Stored(j) /\ Stored(j)' =>
          /\ rows'[j].owner = rows[j].owner
          /\ rows'[j].status = "queued" => rows[j].status = "queued"
          /\ rows[j].status \in {"done", "failed"} =>
                rows'[j].status = rows[j].status /\ rows'[j].result = rows[j].result
    /\ ~Stored(j) /\ Stored(j)' => j \notin purged

LEMMA RowsAdvance ==
    ASSUME TypeOK, RowsInv, Next, NEW j \in Jobs
    PROVE  Advances(j)
<1> USE NullIsNoRow DEF TypeOK, Advances, Stored, InStatus
<1>1. ASSUME NEW i \in Jobs, NEW t \in Tokens, NEW c \in Times, Add(i, t, c)
      PROVE  Advances(j)
  BY <1>1 DEF Add
<1>2. ASSUME NEW i \in Jobs, MarkRunning(i)
      PROVE  Advances(j)
  BY <1>2 DEF MarkRunning, MarkRunningHits, Row, JobStatus
<1>3. ASSUME NEW i \in Jobs, NEW doc \in Documents, MarkDone(i, doc)
      PROVE  Advances(j)
  BY <1>3 DEF MarkDone, MarkDoneHits, Row, JobStatus
<1>4. ASSUME NEW S \in SUBSET Incomplete, NEW d \in Details, FailRows(S, d)
      PROVE  Advances(j)
  BY <1>4 DEF FailRows, Failed, Incomplete, Row, JobStatus
<1>5. ASSUME NEW S \in SUBSET Jobs, DropRows(S)
      PROVE  Advances(j)
  BY <1>5 DEF DropRows
<1> QED
  BY <1>1, <1>2, <1>3, <1>4, <1>5, Statements

\* The two forms of Truth.
LEMMA TruthIs ==
    ASSUME TypeOK, RowsInv, NEW p \in Polls
    PROVE  /\ p[1] \in Tokens /\ p[2] \in Jobs
           /\ Owned(p[2], p[1]) =>
                 /\ Truth(p).status = rows[p[2]].status /\ Truth(p).status \in JobStatus
                 /\ Truth(p).document = rows[p[2]].result
                 /\ Truth(p).document \in Documents \cup {Null}
                 /\ (Truth(p).document # Null <=> Truth(p).status = "done")
           /\ ~Owned(p[2], p[1]) =>
                 /\ Truth(p) = NotFound(p) /\ Truth(p).document = Null
                 /\ Truth(p).status = IF p[2] \in purged THEN "gone" ELSE "unknown"
<1>1. p[1] \in Tokens /\ p[2] \in Jobs
  BY DEF Polls
<1>2. CASE Owned(p[2], p[1])
  <2>1. rows[p[2]] \in Row /\ RowCoherent(rows[p[2]])
    BY <1>1, <1>2 DEF Owned, Stored, TypeOK, RowsInv, RowsCoherent
  <2> QED
    BY <1>1, <1>2, <2>1 DEF Truth, Reply, Row, RowCoherent
<1>3. CASE ~Owned(p[2], p[1])
  BY <1>1, <1>3 DEF Truth, NotFound, Reply
<1> QED
  BY <1>1, <1>2, <1>3

\* Whatever happens to the table, what was read is not contradicted.
LEMMA StoreMovesOK ==
    ASSUME TypeOK, RowsInv, TypeOK', RowsInv', Next, NEW a \in Answers, Fits(a)
    PROVE  Fits(a)'
<1> DEFINE p == a.poll
<1> DEFINE j == p[2]
<1>1. /\ p \in Polls /\ j \in Jobs
      /\ a.status \in JobStatus \cup {"unknown", "gone"} /\ a.document \in Documents \cup {Null}
  BY DEF Answers, Polls
<1>2. Advances(j)
  BY <1>1, RowsAdvance
<1>3. j \in purged => ~Stored(j)
  BY <1>1 DEF RowsInv, NoResurrection
<1>4. CASE Owned(j, p[1]) /\ Owned(j, p[1])'
  <2>1. /\ Truth(p).status = rows[j].status /\ Truth(p).document = rows[j].result
        /\ (Truth(p).document # Null <=> Truth(p).status = "done")
        /\ Truth(p).status \in JobStatus
    BY <1>1, <1>4, TruthIs
  <2>2. /\ Truth(p)'.status = rows'[j].status /\ Truth(p)'.document = rows'[j].result
        /\ (Truth(p)'.document # Null <=> Truth(p)'.status = "done")
        /\ Truth(p)'.status \in JobStatus
    BY <1>1, <1>4, TruthIs DEF Truth, Owned, Stored, Reply, RowsInv, RowsCoherent, RowCoherent,
       TypeOK, Row
  <2>3. /\ rows'[j].status = "queued" => rows[j].status = "queued"
        /\ rows[j].status \in {"done", "failed"} =>
              rows'[j].status = rows[j].status /\ rows'[j].result = rows[j].result
    BY <1>2, <1>4 DEF Advances, Owned, Stored
  <2> QED
    BY <1>1, <2>1, <2>2, <2>3 DEF Fits, MayFollow, JobStatus
<1>5. CASE ~Owned(j, p[1])'
  <2>1. Truth(p)'.document = Null
    BY <1>5 DEF Truth, NotFound, Reply
  <2>2. Truth(p)'.status = IF j \in purged' THEN "gone" ELSE "unknown"
    BY <1>5 DEF Truth, NotFound, Reply
  <2>3. CASE Owned(j, p[1])
    <3>1. j \in purged'
      BY <1>2, <1>5, <2>3 DEF Advances, Owned, Stored
    <3> QED
      BY <1>1, <2>1, <2>2, <3>1 DEF Fits, MayFollow
  <2>4. CASE ~Owned(j, p[1])
    <3>1. Truth(p).status = IF j \in purged THEN "gone" ELSE "unknown"
      BY <1>1, <2>4, TruthIs
    <3>2. j \in purged => j \in purged'
      BY <1>2 DEF Advances
    <3> QED
      BY <1>1, <2>1, <2>2, <3>1, <3>2 DEF Fits, MayFollow, JobStatus
  <2> QED
    BY <2>3, <2>4
<1>6. CASE ~Owned(j, p[1]) /\ Owned(j, p[1])'
  <2>1. ~Stored(j) /\ j \notin purged
    BY <1>2, <1>3, <1>6 DEF Advances, Owned, Stored
  <2>2. Truth(p).status = "unknown"
    BY <1>1, <1>6, <2>1, TruthIs
  <2>3. a.status = "unknown"
    BY <1>1, <2>2 DEF Fits, MayFollow
  <2> QED
    BY <2>3 DEF Fits, MayFollow
<1> QED
  BY <1>4, <1>5, <1>6

\* An answer read now follows every answer that fits, and fits itself.
LEMMA ReadFits ==
    ASSUME TypeOK, RowsInv, NEW a \in Answers, IsRead(a)
    PROVE  /\ Fits(a)
           /\ \A b \in Answers : Fits(b) /\ b.poll = a.poll => MayFollow(b, a)
<1>1. a.poll \in Polls
  BY DEF Answers
<1>2. /\ Truth(a.poll).document # Null => Truth(a.poll).status = "done"
      /\ Truth(a.poll).status \in JobStatus \cup {"unknown", "gone"}
  BY <1>1, TruthIs
<1>3. Fits(a)
  BY <1>2 DEF Fits, IsRead, MayFollow, JobStatus
<1>4. \A b \in Answers : Fits(b) /\ b.poll = a.poll => MayFollow(b, a)
  BY DEF Fits, IsRead, MayFollow
<1> QED
  BY <1>3, <1>4

-----------------------------------------------------------------------------
\* What every step does to the answers.
Follows ==
    /\ found' \in [Requests -> SUBSET Answers] /\ told' \subseteq Answers
    /\ \A a \in Known' : Fits(a)'
    /\ \A r \in Requests : found'[r] # found[r] =>
          \A b \in found'[r], a \in told : a.poll = b.poll => MayFollow(a, b)

\* A request that reads.
LEMMA Reading ==
    ASSUME ReadsInv, UNCHANGED <<vars, told>>, NEW r \in Requests, NEW A \in SUBSET Answers,
           \A a \in A : IsRead(a), found' = [found EXCEPT ![r] = A]
    PROVE  Follows
<1>1. /\ found \in [Requests -> SUBSET Answers] /\ told \subseteq Answers
      /\ \A a \in Known : Fits(a)
  BY DEF ReadsInv, ReadsTypeOK
<1>2. /\ found' \in [Requests -> SUBSET Answers] /\ found'[r] = A
      /\ \A q \in Requests \ {r} : found'[q] = found[q]
  BY <1>1
<1>3. Known' \subseteq Known \cup A
  BY <1>2 DEF Known
<1>4. \A a \in A : /\ Fits(a)
                   /\ \A b \in Answers : Fits(b) /\ b.poll = a.poll => MayFollow(b, a)
  BY ReadFits DEF ReadsInv
<1>5. ASSUME NEW a \in Known' PROVE Fits(a)'
  <2>1. Fits(a)
    BY <1>1, <1>3, <1>4, <1>5
  <2> QED
    BY <2>1 DEF Fits, Truth, Owned, Stored, NotFound, vars
<1>6. ASSUME NEW q \in Requests, found'[q] # found[q], NEW b \in found'[q], NEW a \in told,
             a.poll = b.poll
      PROVE  MayFollow(a, b)
  <2>1. b \in A
    BY <1>2, <1>6
  <2>2. a \in Answers /\ Fits(a)
    BY <1>1, <1>6 DEF Known
  <2> QED
    BY <1>4, <1>6, <2>1, <2>2
<1> QED
  BY <1>1, <1>2, <1>5, <1>6 DEF Follows

\* The reads of the store, each of them one of what there is to be told.
LEMMA MetadataRead ==
    ASSUME ReadsInv, NEW p \in Polls
    PROVE  Metadata(p) \in Answers /\ IsRead(Metadata(p))
<1>1. TypeOK /\ RowsInv
  BY DEF ReadsInv
<1>2. CASE Owned(p[2], p[1])
  <2>1. Metadata(p) = Reply(p, rows[p[2]].status, Null)
    BY <1>2 DEF Metadata, Get, Owned, Stored
  <2> QED
    BY <1>1, <1>2, <2>1, TruthIs DEF Reply, IsRead, Answers
<1>3. CASE ~Owned(p[2], p[1])
  <2>1. Metadata(p) = NotFound(p)
    BY <1>3 DEF Metadata, Get
  <2> QED
    BY <1>1, <1>3, <2>1, TruthIs DEF NotFound, Reply, IsRead, Answers
<1> QED
  BY <1>2, <1>3

LEMMA ListingRead ==
    ASSUME ReadsInv, NEW t \in Tokens, NEW S \in SUBSET JobStatus, NEW j \in Jobs
    PROVE  /\ j \in ListForToken(t, S) =>
                 /\ Reply(<<t, j>>, rows[j].status, Null) \in Answers
                 /\ IsRead(Reply(<<t, j>>, rows[j].status, Null))
           /\ j \notin ListForToken(t, JobStatus) =>
                 NotFound(<<t, j>>) \in Answers /\ IsRead(NotFound(<<t, j>>))
<1> DEFINE p == <<t, j>>
<1>1. TypeOK /\ RowsInv /\ p \in Polls /\ p[1] = t /\ p[2] = j
  BY DEF ReadsInv, Polls
<1> HIDE DEF p
<1>2. CASE Owned(j, t)
  <2>1. j \in ListForToken(t, JobStatus)
    BY <1>1, <1>2, TruthIs DEF ListForToken, InStatus, Owned
  <2>2. Reply(p, rows[j].status, Null) \in Answers /\ IsRead(Reply(p, rows[j].status, Null))
    BY <1>1, <1>2, TruthIs DEF Reply, IsRead, Answers
  <2> QED
    BY <2>1, <2>2 DEF p
<1>3. CASE ~Owned(j, t)
  <2>1. j \notin ListForToken(t, S)
    BY <1>3 DEF ListForToken
  <2>2. NotFound(p) \in Answers /\ IsRead(NotFound(p))
    BY <1>1, <1>3, TruthIs DEF NotFound, Reply, IsRead, Answers
  <2> QED
    BY <2>1, <2>2 DEF p
<1> QED
  BY <1>2, <1>3

LEMMA ResultRead ==
    ASSUME ReadsInv, NEW r \in Requests, NEW p \in Polls, found[r] = {Reply(p, "done", Null)}
    PROVE  LET result == GetResult(p[2], p[1])
               a == IF result = Null THEN NotFound(p) ELSE Reply(p, "done", result)
           IN  a \in Answers /\ IsRead(a)
<1> DEFINE first == Reply(p, "done", Null)
<1> DEFINE result == GetResult(p[2], p[1])
<1>1. TypeOK /\ RowsInv
  BY DEF ReadsInv
<1>2. first \in Known /\ first.poll = p /\ first.status = "done"
  BY DEF Known, Reply
<1>3. Truth(p).status \in {"done", "gone"}
  BY <1>2 DEF ReadsInv, Fits, MayFollow
<1>4. CASE Owned(p[2], p[1])
  <2>1. rows[p[2]].status = "done" /\ rows[p[2]].result \in Documents
    BY <1>1, <1>3, <1>4, TruthIs DEF JobStatus
  <2>2. result = rows[p[2]].result /\ result # Null
    BY <1>4, <2>1, NullIsNoValue DEF GetResult, InStatus, Owned
  <2>3. Reply(p, "done", result) \in Answers /\ IsRead(Reply(p, "done", result))
    BY <1>1, <1>4, <2>1, <2>2, TruthIs DEF Reply, IsRead, Answers, JobStatus
  <2> QED
    BY <2>2, <2>3
<1>5. CASE ~Owned(p[2], p[1])
  <2>1. result = Null
    BY <1>5 DEF GetResult
  <2>2. NotFound(p) \in Answers /\ IsRead(NotFound(p))
    BY <1>1, <1>5, TruthIs DEF NotFound, Reply, IsRead, Answers
  <2> QED
    BY <2>1, <2>2
<1> QED
  BY <1>4, <1>5

\* One step, of the store or of a request.
LEMMA ReadsStep ==
    ASSUME ReadsInv, [ReadsNext]_readsVars, TypeOK', RowsInv'
    PROVE  ReadsTypeOK' /\ Follows
<1>0. found \in [Requests -> SUBSET Answers] /\ fetching \subseteq Requests /\ told \subseteq Answers
  BY DEF ReadsInv, ReadsTypeOK
<1>1. ASSUME NEW r \in Requests, NEW p \in Polls, GetJob(r, p) \/ ReadStatus(r, p)
      PROVE  Follows
  BY <1>1, MetadataRead, Reading DEF GetJob, ReadStatus, Finds
<1>2. ASSUME NEW r \in Requests, NEW p \in Polls, ReadResult(r, p)
      PROVE  Follows
  <2> DEFINE a == IF GetResult(p[2], p[1]) = Null THEN NotFound(p)
                  ELSE Reply(p, "done", GetResult(p[2], p[1]))
  <2>1. a \in Answers /\ IsRead(a)
    BY <1>2, ResultRead DEF ReadResult
  <2>2. found' = [found EXCEPT ![r] = {a}] /\ UNCHANGED <<vars, told>>
    BY <1>2 DEF ReadResult
  <2> HIDE DEF a
  <2> QED
    BY <2>1, <2>2, Reading
<1>3. ASSUME NEW r \in Requests, NEW t \in Tokens, NEW S \in SUBSET JobStatus, ListJobs(r, t, S)
      PROVE  Follows
  <2> DEFINE A == {Reply(<<t, j>>, rows[j].status, Null) : j \in ListForToken(t, S)}
                     \cup {NotFound(<<t, j>>) :
                              j \in IF S = JobStatus THEN Jobs \ ListForToken(t, S) ELSE {}}
  <2>1. \A a \in A : a \in Answers /\ IsRead(a)
    BY ListingRead DEF ListForToken
  <2>2. found' = [found EXCEPT ![r] = A] /\ UNCHANGED <<vars, told>>
    BY <1>3 DEF ListJobs, Finds
  <2> HIDE DEF A
  <2>3. A \in SUBSET Answers
    BY <2>1
  <2> QED
    BY <2>1, <2>2, <2>3, Reading
<1>4. ASSUME NEW r \in Requests, Answer(r)
      PROVE  Follows
  <2>1. /\ found' \in [Requests -> SUBSET Answers] /\ found'[r] = {}
        /\ \A q \in Requests \ {r} : found'[q] = found[q]
        /\ told' = told \cup found[r] /\ UNCHANGED vars
    BY <1>0, <1>4 DEF Answer
  <2>2. Known' \subseteq Known
    BY <2>1 DEF Known
  <2>3. \A a \in Known' : Fits(a)'
    BY <2>1, <2>2 DEF ReadsInv, Fits, Truth, Owned, Stored, NotFound, vars
  <2> QED
    BY <1>0, <2>1, <2>3 DEF Follows
<1>5. ASSUME StoreMoves
      PROVE  Follows
  <2>1. Known' = Known /\ Known \subseteq Answers /\ found' = found /\ told' = told
    BY <1>0, <1>5 DEF StoreMoves, Known
  <2>2. \A a \in Known : Fits(a)'
    BY <1>5, <2>1, StoreMovesOK DEF StoreMoves, ReadsInv
  <2>3. \A a \in Known' : Fits(a)'
    BY <2>1, <2>2
  <2> QED
    BY <1>0, <2>1, <2>3 DEF Follows
<1>6. ASSUME UNCHANGED readsVars
      PROVE  Follows
  <2>1. Known' = Known /\ found' = found /\ told' = told /\ UNCHANGED vars
    BY <1>6 DEF readsVars, Known
  <2>2. \A a \in Known : Fits(a)'
    BY <2>1 DEF ReadsInv, Fits, Truth, Owned, Stored, NotFound, vars
  <2>3. \A a \in Known' : Fits(a)'
    BY <2>1, <2>2
  <2> QED
    BY <1>0, <2>1, <2>3 DEF Follows
<1>7. Follows
  BY <1>1, <1>2, <1>3, <1>4, <1>5, <1>6 DEF ReadsNext, JobStatus
<1>8. fetching' \subseteq Requests
  BY <1>0 DEF ReadsNext, readsVars, GetJob, ReadStatus, ReadResult, ListJobs, Answer, StoreMoves
<1> QED
  BY <1>7, <1>8 DEF Follows, ReadsTypeOK

-----------------------------------------------------------------------------
LEMMA ReadsInvariant == ReadsSpec => [](TypeOK /\ RowsInv /\ ReadsInv)
<1>1. ReadsInit /\ TypeOK /\ RowsInv => ReadsInv
  BY DEF ReadsInit, ReadsInv, ReadsTypeOK, Known
<1>2. ReadsInv /\ [ReadsNext]_readsVars /\ TypeOK' /\ RowsInv' => ReadsInv'
  BY ReadsStep DEF ReadsInv, Follows
<1>3. ReadsSpec => [](TypeOK /\ RowsInv)
  BY ReadsAreOfStore, TypeCorrect, RowsCorrect, PTL DEF RowsInv
<1> QED
  BY <1>1, <1>2, <1>3, PTL DEF ReadsSpec

\* The answers read and received keep their types.
THEOREM ReadsTypeCorrect == ReadsSpec => []ReadsTypeOK
<1>1. ReadsInv => ReadsTypeOK
  BY DEF ReadsInv
<1> QED
  BY <1>1, ReadsInvariant, PTL

\* Whatever a foreign token asks, and whenever, what is found for it is what
\* would be found of an id that never existed.
THEOREM ForeignLearnsNothing == ReadsSpec => []ForeignSees404
<1>1. ReadsInv => ForeignSees404
  <2> SUFFICES ASSUME ReadsInv, NEW a \in Known,
                      Stored(a.poll[2]), ~Owned(a.poll[2], a.poll[1])
               PROVE  a.status = "unknown" /\ a.document = Null
    BY DEF ForeignSees404
  <2>1. a \in Answers /\ Fits(a) /\ a.poll \in Polls
    BY DEF ReadsInv, ReadsTypeOK, Known, Answers
  <2>2. a.poll[2] \notin purged
    BY <2>1 DEF ReadsInv, RowsInv, NoResurrection, Polls
  <2>3. Truth(a.poll).status = "unknown"
    BY <2>1, <2>2, TruthIs DEF ReadsInv
  <2> QED
    BY <2>1, <2>3 DEF Fits, MayFollow
<1> QED
  BY <1>1, ReadsInvariant, PTL

\* Through any of the three endpoints, with any number of requests under way,
\* no read contradicts an answer its client received before it.
THEOREM NeverRegress == ReadsSpec => AnswersNeverRegress
<1>1. ReadsInv /\ TypeOK' /\ RowsInv' /\ [ReadsNext]_readsVars =>
        [\A r \in Requests : found'[r] # found[r] =>
            \A b \in found'[r], a \in told : a.poll = b.poll => MayFollow(a, b)]_readsVars
  BY ReadsStep DEF Follows
<1> QED
  BY <1>1, ReadsInvariant, PTL DEF ReadsSpec, AnswersNeverRegress
=============================================================================
