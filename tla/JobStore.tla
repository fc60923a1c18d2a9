------------------------------ MODULE JobStore ------------------------------
(***************************************************************************)
(* SqliteJobStore (adapters/sqlite.py): the jobs table and the statements   *)
(* that change it.  Every method opens its own connection and commits one   *)
(* statement, and SQLite serialises writers, so a method is one atomic      *)
(* action whatever thread runs it; a method that matches no row changes     *)
(* nothing and reports False.  Callers come in any order and from any       *)
(* thread: nothing here relies on the runner's discipline, except that      *)
(* add is given fresh ids (create_job mints 64 random bits).                *)
(*                                                                         *)
(* Timestamps that only record that something happened (started_at,         *)
(* finished_at) are Booleans, true once stamped; created_at is a number     *)
(* because the retention purge compares it.                                 *)
(***************************************************************************)
EXTENDS Naturals

CONSTANTS
    Jobs,        \* job ids
    Tokens,      \* token ids, the owners of jobs
    Documents,   \* parse results
    Details,     \* failure details
    Times,       \* the instants created_at and purge cut-offs are taken from
    Null         \* SQL NULL, and the absence of a row

ASSUME NullIsNoValue == Null \notin Documents \cup Details
ASSUME TimesAreNumbers == Times \subseteq Nat

VARIABLES
    rows,        \* the jobs table: a row or Null for every id
    purged       \* history: the ids whose row was deleted

vars == <<rows, purged>>

JobStatus == {"queued", "running", "done", "failed"}

Row == [owner : Tokens, created_at : Times, status : JobStatus,
        started : BOOLEAN, finished : BOOLEAN,
        detail : Details \cup {Null}, result : Documents \cup {Null}]

ASSUME NullIsNoRow == Null \notin Row

-----------------------------------------------------------------------------
\* The WHERE clauses.

Stored(j)       == rows[j] # Null
InStatus(j, S)  == Stored(j) /\ rows[j].status \in S
Owned(j, t)     == Stored(j) /\ rows[j].owner = t

\* Fault: the fail transition loses its WHERE status IN (queued, running).
IncompleteUnguarded == {j \in Jobs : Stored(j)}

Incomplete      == {j \in Jobs : InStatus(j, {"queued", "running"})}

-----------------------------------------------------------------------------
\* Reads: get and list_for_token return metadata, get_result the document of a
\* done row only.

\* Fault: get forgets the token in its WHERE clause.
GetUnscoped(j, t) == rows[j]

Get(j, t)       == IF Owned(j, t) THEN rows[j] ELSE Null

GetResult(j, t) == IF Owned(j, t) /\ InStatus(j, {"done"}) THEN rows[j].result ELSE Null

\* The order of a listing, newest first, is left out.
ListForToken(t, S) == {j \in Jobs : Owned(j, t) /\ InStatus(j, S)}

-----------------------------------------------------------------------------
\* Writes.

Init == rows = [j \in Jobs |-> Null] /\ purged = {}

NewRow(t, c) == [owner |-> t, created_at |-> c, status |-> "queued", started |-> FALSE,
                 finished |-> FALSE, detail |-> Null, result |-> Null]

\* The plain INSERT of a queued job under a fresh id.
Add(j, t, c) ==
    /\ rows[j] = Null /\ j \notin purged
    /\ rows' = [rows EXCEPT ![j] = NewRow(t, c)]
    /\ UNCHANGED purged

\* Fault: mark_running without the prior status in its WHERE clause.
MarkRunningUnguarded(j) == Stored(j)

MarkRunningHits(j) == InStatus(j, {"queued"})

MarkRunning(j) ==
    /\ rows' = IF MarkRunningHits(j)
               THEN [rows EXCEPT ![j] = [@ EXCEPT !.status = "running", !.started = TRUE]]
               ELSE rows
    /\ UNCHANGED purged

\* Faults: mark_done guarded by the wrong prior status, or taking over a failure.
MarkDoneFromQueued(j) == InStatus(j, {"queued"})
MarkDoneFromFailed(j) == InStatus(j, {"running", "failed"})

MarkDoneHits(j) == InStatus(j, {"running"})

MarkDone(j, doc) ==
    /\ rows' = IF MarkDoneHits(j)
               THEN [rows EXCEPT ![j] =
                        [@ EXCEPT !.status = "done", !.finished = TRUE, !.result = doc]]
               ELSE rows
    /\ UNCHANGED purged

\* _FAIL_TRANSITION_SET: the one SET clause mark_failed and the sweep share.
Failed(r, d) == [r EXCEPT !.status = "failed", !.finished = TRUE, !.detail = d]

FailRows(S, d) ==
    /\ rows' = [j \in Jobs |-> IF j \in S THEN Failed(rows[j], d) ELSE rows[j]]
    /\ UNCHANGED purged

MarkFailedHits(j) == j \in Incomplete

MarkFailed(j, d) == FailRows({j} \cap Incomplete, d)

\* Fault: the sweep only takes the running jobs.
SweepRunning(d) == FailRows({j \in Jobs : InStatus(j, {"running"})}, d)

SweepIncomplete(d) == FailRows(Incomplete, d)

DropRows(S) ==
    /\ rows' = [j \in Jobs |-> IF j \in S THEN Null ELSE rows[j]]
    /\ purged' = purged \cup S

DeleteHits(j, t) == Owned(j, t)

Delete(j, t) == DropRows({i \in {j} : DeleteHits(i, t)})

Expired(cutoff) == {j \in Jobs : Stored(j) /\ rows[j].created_at < cutoff}

PurgeOlderThan(cutoff) == DropRows(Expired(cutoff))

-----------------------------------------------------------------------------
Next ==
    \/ \E j \in Jobs, t \in Tokens, c \in Times : Add(j, t, c)
    \/ \E j \in Jobs : MarkRunning(j)
    \/ \E j \in Jobs, doc \in Documents : MarkDone(j, doc)
    \/ \E j \in Jobs, d \in Details : MarkFailed(j, d)
    \/ \E j \in Jobs, t \in Tokens : Delete(j, t)
    \/ \E d \in Details : SweepIncomplete(d)
    \/ \E cutoff \in Times : PurgeOlderThan(cutoff)

Spec == Init /\ [][Next]_vars

-----------------------------------------------------------------------------
TypeOK ==
    /\ rows \in [Jobs -> Row \cup {Null}]
    /\ purged \subseteq Jobs

\* Which columns of a row are set is decided by its status alone.  Job's
\* constructor rejects a row whose failure detail disagrees with its status,
\* and get_result raises on a done row without a document; both would turn
\* every later read of the job, and the token's whole listing, into a 500.
RowCoherent(r) ==
    /\ (r.result # Null) <=> (r.status = "done")
    /\ (r.detail # Null) <=> (r.status = "failed")
    /\ r.finished <=> (r.status \in {"done", "failed"})
    /\ (r.status = "queued") => ~r.started
    /\ (r.status \in {"running", "done"}) => r.started

\* No sequence of transitions, in any order and from any callers, leaves a
\* row that the store's own readers reject (_row_to_job, get_result).
RowsCoherent == \A j \in Jobs : Stored(j) => RowCoherent(rows[j])

\* A transition that arrives after the row was deleted never brings it back:
\* mark_* are UPDATEs, never upserts (JobStorePort, guarded transitions).
NoResurrection == \A j \in purged : ~Stored(j)

\* The store implements the lifecycle promised to callers: every method call
\* is one legal move of the jobs it touches, or no move at all.
StatusOf(j)  == IF Stored(j) THEN rows[j].status
                ELSE IF j \in purged THEN "forgotten" ELSE "unknown"

OutcomeOf(j) == IF InStatus(j, {"done"}) THEN rows[j].result
                ELSE IF InStatus(j, {"failed"}) THEN rows[j].detail ELSE Null

Lifecycle == INSTANCE JobLifecycle
    WITH Outcomes <- Documents \cup Details,
         NoOutcome <- Null,
         job <- [j \in Jobs |-> [status |-> StatusOf(j), outcome |-> OutcomeOf(j)]]

\* Every behaviour of the store is one of JobLifecycle's: queued before
\* running, one outcome, kept until the job is forgotten, forgotten for good.
KeepsLifecycle == Lifecycle!Spec
=============================================================================
