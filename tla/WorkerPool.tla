----------------------------- MODULE WorkerPool -----------------------------
(***************************************************************************)
(* WorkerPool (workers.py) under its client convert (api/convert.py): each  *)
(* parse schedules a job on the current pebble pool, rebuilds that pool     *)
(* once if it is broken, awaits the job and reports how it ended, while     *)
(* cancellations and aclose come at any await.                              *)
(*                                                                         *)
(* The pebble pools are external and modelled from what workers.py relies   *)
(* on: a job runs on a free worker and ends, is killed at its deadline,     *)
(* loses its worker, or is cancelled; a worker that dies while no job runs  *)
(* breaks its whole pool and fails the jobs waiting in it; a torn down pool *)
(* runs nothing and refuses jobs.  What becomes of the future of a job that *)
(* a teardown interrupts is left open: cancelled, failed, or never settled. *)
(* A kill takes effect at once: pebble's SIGTERM, its 3 s of grace and its  *)
(* SIGKILL (ADR 0001), in which a worker that hangs on may still read its   *)
(* document, are one moment here.                                           *)
(* What all this amounts to for a caller is ParseContract.                  *)
(***************************************************************************)
EXTENDS Naturals, FiniteSets

CONSTANTS
    Parses,        \* calls of parse, each with its own document
    Workers,       \* worker_count
    MaxRebuilds    \* bound: pools that break

ASSUME ParsesAssumption == IsFiniteSet(Parses)
ASSUME PoolsAssumption  == Workers \in Nat \ {0} /\ MaxRebuilds \in Nat

VARIABLES
    pool,          \* _pool: pools are numbered in the order of their creation
    closed,        \* _closed
    closing,       \* the pools aclose was called on
    status,        \* per pool: none (not created), open, broken
    teardown,      \* per pool, its _teardown_pool: none, queued (in the executor), dropped, done
    parse,         \* per parse: idle, rebuilding, awaiting, ended
    replaced,      \* per parse, the broken pools whose teardown it awaits
    cancel,        \* per parse, a cancellation requested and not yet delivered
    job,           \* per parse, its job in a pool
    outcome,       \* per parse, what it returned or raised
    file,          \* per parse, whether its upload is in the scratch directory
    metrics        \* WorkerPoolMetrics, and the parses job_observer was told of

pools == <<pool, closed, closing, status, teardown>>
calls == <<parse, replaced, cancel, outcome, file>>
vars  == <<pools, calls, job, metrics>>

Pools    == 0 .. MaxRebuilds
Created  == {g \in Pools : status[g] # "none"}
Counters == {"timeout_kills", "crashes", "cancellations", "pool_rebuilds", "observed"}

NoJob == [pool |-> 0, state |-> "none", timeout |-> FALSE]

\* How a future is settled; abandoned is the future that never is.
Settled   == {"finished", "rejected", "scrubbed", "timedOut", "expired", "broken", "cancelled"}
JobStates == Settled \cup {"none", "queued", "running", "abandoned"}

Outcomes == {"none", "document", "unparseable", "timeout", "crashed", "unavailable",
             "refused", "cancelled"}

Ended(p)   == parse[p] = "ended"
InState(S) == {p \in Parses : job[p].state \in S}
On(g)      == {p \in Parses : job[p].pool = g}
Pending    == {"queued", "running"}

\* Fault: a pool with every worker busy taken for a broken one.
RefusesWhenFull(g) ==
    status[g] = "broken" \/ teardown[g] = "done"
        \/ Cardinality(On(g) \cap InState({"running"})) = Workers

\* schedule raises RuntimeError.
Refuses(g) == status[g] = "broken" \/ teardown[g] = "done"

Counted(c) == [metrics EXCEPT ![c] = @ + 1]

Settle(S, s) == [p \in Parses |-> IF p \in S THEN [job[p] EXCEPT !.state = s] ELSE job[p]]

-----------------------------------------------------------------------------
\* parse, from its call to the future it awaits.

\* Fault: the job is scheduled without its deadline.
ScheduleForever(p) ==
    /\ job' = [job EXCEPT ![p] = [pool |-> pool, state |-> "queued", timeout |-> FALSE]]
    /\ parse' = [parse EXCEPT ![p] = "awaiting"]

Schedule(p) ==
    /\ job' = [job EXCEPT ![p] = [pool |-> pool, state |-> "queued", timeout |-> TRUE]]
    /\ parse' = [parse EXCEPT ![p] = "awaiting"]

\* Fault: convert deletes the upload on success only.
EndsKeepingFailed(p, how) ==
    /\ parse' = [parse EXCEPT ![p] = "ended"]
    /\ outcome' = [outcome EXCEPT ![p] = how]
    /\ file' = IF how = "document" THEN [file EXCEPT ![p] = FALSE] ELSE file

\* The call returns or raises, and convert's finally deletes the upload.
Ends(p, how) ==
    /\ parse' = [parse EXCEPT ![p] = "ended"]
    /\ outcome' = [outcome EXCEPT ![p] = how]
    /\ file' = [file EXCEPT ![p] = FALSE]

\* stage_upload has handed its file over.
Staged(p) == parse[p] = "idle" /\ file' = [file EXCEPT ![p] = TRUE]

ParseRefused(p) ==
    /\ parse[p] = "idle" /\ closed
    /\ Ends(p, "refused")
    /\ UNCHANGED <<pools, job, metrics, replaced, cancel>>

ParseScheduled(p) ==
    /\ Staged(p) /\ ~closed /\ ~Refuses(pool)
    /\ Schedule(p)
    /\ UNCHANGED <<pools, metrics, replaced, cancel, outcome>>

\* Fault: the teardown is given _pool after the swap, the fresh pool.
ParseRebuildsWrongPool(p) ==
    /\ Staged(p) /\ ~closed /\ Refuses(pool) /\ pool < MaxRebuilds
    /\ metrics' = Counted("pool_rebuilds")
    /\ pool' = pool + 1
    /\ status' = [status EXCEPT ![pool'] = "open"]
    /\ teardown' = [teardown EXCEPT ![pool'] = "queued"]
    /\ replaced' = [replaced EXCEPT ![p] = {pool'}]
    /\ parse' = [parse EXCEPT ![p] = "rebuilding"]
    /\ UNCHANGED <<closed, closing, job, cancel, outcome>>

\* The pool is swapped before the first await.  The second test of _closed
\* comes in the same step as the first and only serves the synchronous close.
ParseRebuilds(p) ==
    /\ Staged(p) /\ ~closed /\ Refuses(pool) /\ pool < MaxRebuilds
    /\ metrics' = Counted("pool_rebuilds")
    /\ pool' = pool + 1
    /\ status' = [status EXCEPT ![pool'] = "open"]
    /\ teardown' = [teardown EXCEPT ![pool] = "queued"]
    /\ replaced' = [replaced EXCEPT ![p] = {pool}]
    /\ parse' = [parse EXCEPT ![p] = "rebuilding"]
    /\ UNCHANGED <<closed, closing, job, cancel, outcome>>

TornDown(p) == \A g \in replaced[p] : teardown[g] = "done"

Resumes(p) == parse[p] = "rebuilding" /\ ~cancel[p] /\ TornDown(p)

\* Fault: the pool is created after the await of the teardown.
RetrySwapsLate(p) ==
    /\ Resumes(p) /\ pool < MaxRebuilds
    /\ pool' = pool + 1
    /\ status' = [status EXCEPT ![pool'] = "open"]
    /\ job' = [job EXCEPT ![p] = [pool |-> pool', state |-> "queued", timeout |-> TRUE]]
    /\ parse' = [parse EXCEPT ![p] = "awaiting"]
    /\ UNCHANGED <<closed, closing, teardown, metrics, replaced, cancel, outcome, file>>

\* schedule again, on whatever pool is current by now.
RetryScheduled(p) ==
    /\ Resumes(p) /\ ~Refuses(pool)
    /\ Schedule(p)
    /\ UNCHANGED <<pools, metrics, replaced, cancel, outcome, file>>

RetryUnavailable(p) ==
    /\ Resumes(p) /\ Refuses(pool)
    /\ Ends(p, "unavailable")
    /\ UNCHANGED <<pools, job, metrics, replaced, cancel>>

\* Cancelling to_thread drops a teardown no thread has begun; one that has
\* begun goes on.
RebuildCancelled(p) ==
    /\ parse[p] = "rebuilding" /\ cancel[p]
    /\ Ends(p, "cancelled")
    /\ \E D \in {{}, {g \in replaced[p] : teardown[g] = "queued"}} :
          teardown' = [g \in Pools |-> IF g \in D THEN "dropped" ELSE teardown[g]]
    /\ UNCHANGED <<pool, closed, closing, status, job, metrics, replaced, cancel>>

-----------------------------------------------------------------------------
\* parse, from the end of its await.

CancelRequested(p) ==
    /\ parse[p] \in {"rebuilding", "awaiting"} /\ ~cancel[p]
    /\ cancel' = [cancel EXCEPT ![p] = TRUE]
    /\ UNCHANGED <<pools, parse, replaced, outcome, file, job, metrics>>

Woken(p, S) == parse[p] = "awaiting" /\ ~cancel[p] /\ job[p].state \in S

\* job_observer is called, and the document stamped and returned.
ParseReturns(p) ==
    /\ Woken(p, {"finished"})
    /\ Ends(p, "document")
    /\ metrics' = Counted("observed")
    /\ UNCHANGED <<pools, job, replaced, cancel>>

ParseRaises(p) ==
    /\ \/ Woken(p, {"rejected"}) /\ Ends(p, "unparseable")
       \/ Woken(p, {"scrubbed"}) /\ Ends(p, "crashed")
    /\ UNCHANGED <<pools, job, metrics, replaced, cancel>>

ParseTimesOut(p) ==
    /\ Woken(p, {"timedOut"})
    /\ Ends(p, "timeout")
    /\ metrics' = Counted("timeout_kills")
    /\ UNCHANGED <<pools, job, replaced, cancel>>

ParseCrashes(p) ==
    /\ Woken(p, {"expired", "broken"})
    /\ Ends(p, "crashed")
    /\ metrics' = Counted("crashes")
    /\ UNCHANGED <<pools, job, replaced, cancel>>

\* future.cancel() returns True: the job was not finished.
CancelTakesEffect(p) == job[p].state \in Pending \cup {"abandoned", "cancelled"}

\* Fault: every cancelled parse is counted, whether or not its job had ended.
ParseCancelledCounting(p) ==
    /\ parse[p] = "awaiting"
    /\ cancel[p] \/ job[p].state = "cancelled"
    /\ job' = IF CancelTakesEffect(p) THEN Settle({p}, "cancelled") ELSE job
    /\ metrics' = Counted("cancellations")
    /\ Ends(p, "cancelled")
    /\ UNCHANGED <<pools, replaced, cancel>>

\* CancelledError, from the caller's cancellation, which wins over a result
\* that is already there, or from a future the pool cancelled.
ParseCancelled(p) ==
    /\ parse[p] = "awaiting"
    /\ cancel[p] \/ job[p].state = "cancelled"
    /\ job' = IF CancelTakesEffect(p) THEN Settle({p}, "cancelled") ELSE job
    /\ metrics' = IF CancelTakesEffect(p) THEN Counted("cancellations") ELSE metrics
    /\ Ends(p, "cancelled")
    /\ UNCHANGED <<pools, replaced, cancel>>

-----------------------------------------------------------------------------
\* aclose and the teardown threads.

Close ==
    /\ ~closed
    /\ closed' = TRUE
    /\ closing' = {pool}
    /\ teardown' = [teardown EXCEPT ![pool] = "queued"]
    /\ UNCHANGED <<pool, status, calls, job, metrics>>

\* _teardown_pool: stop and join, with every worker of the pool gone.
Teardown(g) ==
    /\ teardown[g] = "queued"
    /\ teardown' = [teardown EXCEPT ![g] = "done"]
    /\ \E s \in {"cancelled", "expired", "abandoned"} :
          job' = Settle(On(g) \cap InState(Pending), s)
    /\ UNCHANGED <<pool, closed, closing, status, calls, metrics>>

-----------------------------------------------------------------------------
\* The pebble pools.

JobStarts(p) ==
    /\ job[p].state = "queued" /\ ~Refuses(job[p].pool)
    /\ Cardinality(On(job[p].pool) \cap InState({"running"})) < Workers
    /\ job' = Settle({p}, "running")
    /\ UNCHANGED <<pools, calls, metrics>>

\* A document, the engine's rejection, an unexpected error replaced by
\* _parse_in_worker, or the death of the worker.
JobEnds(p) ==
    /\ job[p].state = "running"
    /\ \E s \in {"finished", "rejected", "scrubbed", "expired"} : job' = Settle({p}, s)
    /\ UNCHANGED <<pools, calls, metrics>>

JobTimesOut(p) ==
    /\ job[p].state = "running" /\ job[p].timeout
    /\ job' = Settle({p}, "timedOut")
    /\ UNCHANGED <<pools, calls, metrics>>

PoolBreaks(g) ==
    /\ status[g] = "open" /\ teardown[g] # "done" /\ g < MaxRebuilds
    /\ On(g) \cap InState({"running"}) = {}
    /\ status' = [status EXCEPT ![g] = "broken"]
    /\ job' = Settle(On(g) \cap InState({"queued"}), "broken")
    /\ UNCHANGED <<pool, closed, closing, teardown, calls, metrics>>

-----------------------------------------------------------------------------
Init ==
    /\ pool = 0 /\ closed = FALSE /\ closing = {}
    /\ status = [g \in Pools |-> IF g = 0 THEN "open" ELSE "none"]
    /\ teardown = [g \in Pools |-> "none"]
    /\ parse = [p \in Parses |-> "idle"]
    /\ replaced = [p \in Parses |-> {}]
    /\ cancel = [p \in Parses |-> FALSE]
    /\ job = [p \in Parses |-> NoJob]
    /\ outcome = [p \in Parses |-> "none"]
    /\ file = [p \in Parses |-> FALSE]
    /\ metrics = [c \in Counters |-> 0]

ParseBegins(p)  == ParseRefused(p) \/ ParseScheduled(p) \/ ParseRebuilds(p)
ParseRetries(p) == RetryScheduled(p) \/ RetryUnavailable(p) \/ RebuildCancelled(p)
ParseEnds(p) ==
    \/ ParseReturns(p) \/ ParseRaises(p) \/ ParseTimesOut(p) \/ ParseCrashes(p)
    \/ ParseCancelled(p)

Next ==
    \/ \E p \in Parses : ParseBegins(p)
    \/ \E p \in Parses : ParseRetries(p)
    \/ \E p \in Parses : ParseEnds(p)
    \/ \E p \in Parses : CancelRequested(p)
    \/ Close
    \/ \E g \in Pools : Teardown(g)
    \/ \E p \in Parses : JobStarts(p)
    \/ \E p \in Parses : JobEnds(p)
    \/ \E p \in Parses : JobTimesOut(p)
    \/ \E g \in Pools : PoolBreaks(g)

Spec == Init /\ [][Next]_vars

\* The loop resumes a coroutine whose await is over, the executor runs the
\* teardowns, and pebble dispatches jobs to free workers and enforces their
\* deadlines.  The engine owes nothing: JobEnds is not fair.
Fairness ==
    /\ \A p \in Parses :
          /\ WF_vars(ParseRetries(p))
          /\ WF_vars(ParseEnds(p))
          /\ WF_vars(JobStarts(p))
          /\ WF_vars(JobTimesOut(p))
    /\ \A g \in Pools : WF_vars(Teardown(g))

FairSpec == Spec /\ Fairness

-----------------------------------------------------------------------------
TypeOK ==
    /\ pool \in Pools /\ closed \in BOOLEAN /\ closing \in SUBSET Pools
    /\ status \in [Pools -> {"none", "open", "broken"}]
    /\ teardown \in [Pools -> {"none", "queued", "dropped", "done"}]
    /\ parse \in [Parses -> {"idle", "rebuilding", "awaiting", "ended"}]
    /\ replaced \in [Parses -> SUBSET Pools]
    /\ cancel \in [Parses -> BOOLEAN]
    /\ job \in [Parses -> [pool : Pools, state : JobStates, timeout : BOOLEAN]]
    /\ outcome \in [Parses -> Outcomes]
    /\ file \in [Parses -> BOOLEAN]
    /\ metrics \in [Counters -> Nat]

\* Concurrent parses cannot double-rebuild: every pool ever replaced was
\* broken, however many parses found it so, and each rebuild is counted.
OnlyBrokenReplaced ==
    /\ \A g \in Created \ {pool} : status[g] = "broken"
    /\ metrics["pool_rebuilds"] = Cardinality(Created \ {pool})

\* No replaced pool is forgotten: its teardown is done or on its way, unless
\* the parse that rebuilt it was cancelled before a thread took the teardown.
ReplacedIsTornDown ==
    \A g \in Created \ {pool} :
        \/ teardown[g] \in {"queued", "done"}
        \/ teardown[g] = "dropped"
              /\ \E p \in Parses : g \in replaced[p] /\ outcome[p] = "cancelled"

\* Once aclose has returned, no pool takes a job or runs one, whatever
\* rebuild, retry or cancellation was under way when it was called.
ClosedForGood ==
    (closed /\ \A g \in closing : teardown[g] = "done") =>
        /\ \A g \in Created : Refuses(g)
        /\ InState(Pending) = {}

\* The counters agree with what happened to the jobs: a job is in at most one
\* of them, an effective cancellation always in its own, a kill, a crash or a
\* duration unless the caller cancelled the parse before it could see it.
CountersAgree ==
    LET Seen(S) == {p \in InState(S) : Ended(p) /\ outcome[p] # "cancelled"} IN
    /\ metrics["timeout_kills"] = Cardinality(Seen({"timedOut"}))
    /\ metrics["crashes"] = Cardinality(Seen({"expired", "broken"}))
    /\ metrics["observed"] = Cardinality(Seen({"finished"}))
    /\ metrics["cancellations"] = Cardinality({p \in InState({"cancelled"}) : Ended(p)})

\* An upload is there for as long as a worker that was not told to die may open
\* it, and gone as soon as the request is answered, on every path (convert's
\* finally).
UploadLivesWithParse ==
    /\ \A p \in InState(Pending) : file[p]
    /\ \A p \in Parses : Ended(p) => ~file[p]

\* What the callers of parse are promised (ParseContract.tla).
EngineOf(p) ==
    CASE job[p].state \in {"none", "queued"} -> "none"
      [] job[p].state = "running" -> "running"
      [] job[p].state = "finished" -> "document"
      [] job[p].state = "rejected" -> "unparseable"
      [] job[p].state = "timedOut" -> "timeout"
      [] OTHER -> "lost"

CallOf(p) ==
    [state |-> IF parse[p] \in {"rebuilding", "awaiting"} THEN "waiting" ELSE parse[p],
     asked |-> cancel[p],
     engine |-> EngineOf(p),
     outcome |-> IF outcome[p] = "unavailable" THEN "crashed" ELSE outcome[p]]

Contract == INSTANCE ParseContract
    WITH call <- [p \in Parses |-> CallOf(p)],
         open <- IF ~closed THEN "open"
                 ELSE IF \A g \in closing : teardown[g] = "done" THEN "closed" ELSE "closing"

\* The pools, their breakage, the rebuild and its retry implement the contract:
\* whatever breaks when, no document is parsed twice for one call, no more than
\* worker_count at once over all the pools alive, no answer is given that the
\* engine did not, and no parse is cancelled unless its caller asked or the
\* pool was closed (a job so cancelled would stay running for good).
KeepsParse == Contract!Spec

\* Every parse ends, although the engine may hang, the pool may break and
\* the rebuilt pool may break again, unless the pool is closed under it.
ParsesEnd == \A p \in Parses : parse[p] # "idle" ~> (Ended(p) \/ closed)
=============================================================================
