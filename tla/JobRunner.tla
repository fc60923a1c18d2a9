----------------------------- MODULE JobRunner ------------------------------
(***************************************************************************)
(* The asynchronous job machinery of one server process: the submit and     *)
(* delete handlers (api/jobs.py), the runner's task per job (runner.py),    *)
(* the retention purge and the startup sweep (maintenance.py), and the      *)
(* order of shutdown (app.py), all over the job store (JobStore.tla).       *)
(*                                                                         *)
(* Handlers and tasks are coroutines of one event loop, so the code         *)
(* between two awaits is one action.  Each awaits the store through         *)
(* asyncio.to_thread: the call is pending until a thread executes it, then  *)
(* its reply waits for the coroutine to resume.  Cancelling a coroutine     *)
(* never interrupts the thread: a pending call is either dropped from the   *)
(* executor's queue or becomes "late" and takes effect with nobody          *)
(* listening.  Cancellation reaches a coroutine at its next resumption,     *)
(* even when a reply is already there, and a task cancelled before its      *)
(* first step never runs any of its body.                                   *)
(*                                                                         *)
(* WorkerPool.parse is abstracted to its outcomes: a document, one of the   *)
(* failures the runner tells apart, or the cancellation of the awaiter.     *)
(***************************************************************************)
EXTENDS Naturals

CONSTANTS
    Jobs, Tokens, Documents, Details, Times, Null,
    ParseFailures,   \* details of a failed parse: unparseable, timeout, crash, internal
    InternalError,   \* INTERNAL_ERROR_DETAIL
    Interrupted,     \* INTERRUPTED_BY_RESTART_DETAIL
    MaxErrors,       \* bound: store calls that raise and scratch wipes that fail
    MaxStops         \* bound: crashes and shutdowns

ASSUME DetailsAssumption ==
    /\ ParseFailures \subseteq Details /\ InternalError \in Details
    /\ Interrupted \in Details \ (ParseFailures \cup {InternalError})
ASSUME BoundsAssumption == MaxErrors \in Nat /\ MaxStops \in Nat

VARIABLES
    rows, purged,    \* the store
    phase,           \* of the process: down, wiping (startup), serving, draining
    submit,          \* per job, its POST handler: none, adding, or how it ended
    task,            \* per job, its asyncio task: none, where it awaits, or how it ended
    cancel,          \* per job, a cancellation requested and not yet delivered
    file,            \* per job, whether its staged upload is in the scratch directory
    call,            \* the store call each coroutine awaits
    late,            \* store calls whose awaiter was cancelled, still to execute
    wiped,           \* whether the last startup emptied the scratch directory
    errors, stops    \* counters of the bounds

vars == <<rows, purged, phase, submit, task, cancel, file, call, late, wiped, errors, stops>>
handlers == <<submit, task, cancel, file>>
process  == <<phase, wiped, stops>>

Store == INSTANCE JobStore

ASSUME StoreAssumptions ==
    Null \notin Documents \cup Details /\ Null \notin Store!Row /\ Times \subseteq Nat

Roles   == {"submit", "task", "delete"}
Callers == Jobs \X Roles
Ops     == {"add", "mark_running", "mark_done", "mark_failed", "delete"}
Args    == Tokens \cup Documents \cup Details \cup {Null}
Replies == {"none", "pending", "hit", "miss", "error"}
NoCall  == [op |-> "none", arg |-> Null, reply |-> "none"]

\* What each store method takes besides the job.
ArgsOf(op) ==
    CASE op \in {"add", "delete"} -> Tokens
      [] op = "mark_running" -> {Null}
      [] op = "mark_done" -> Documents
      [] op = "mark_failed" -> Details
      [] op = "none" -> {Null}

Calls ==
    {r \in [op : Ops \cup {"none"}, arg : Args, reply : Replies] :
        r.arg \in ArgsOf(r.op) /\ (r.op = "none" => r.reply = "none")}

LateCalls == {l \in [job : Jobs, op : Ops, arg : Args] : l.arg \in ArgsOf(l.op)}

Live(j) == task[j] \in {"created", "marking", "parsing", "recording", "rescuing"}

-----------------------------------------------------------------------------
\* Store calls.

\* caller c starts awaiting to_thread(op, arg).
Await(c, op, arg) == [call EXCEPT ![c] = [op |-> op, arg |-> arg, reply |-> "pending"]]

Replied(c, S) == call[c].reply \in S

Resumed(c) == [call EXCEPT ![c] = NoCall]

\* What the executor still has of the call caller c abandons.
Abandoned(c) ==
    IF Replied(c, {"pending"})
    THEN {late, late \cup {[job |-> c[1], op |-> call[c].op, arg |-> call[c].arg]}}
    ELSE {late}

Perform(op, j, arg) ==
    \/ op = "add" /\ \E t \in Times : Store!Add(j, arg, t)
    \/ op = "mark_running" /\ Store!MarkRunning(j)
    \/ op = "mark_done" /\ Store!MarkDone(j, arg)
    \/ op = "mark_failed" /\ Store!MarkFailed(j, arg)
    \/ op = "delete" /\ Store!Delete(j, arg)

Hits(op, j, arg) ==
    \/ op = "add"
    \/ op = "mark_running" /\ Store!MarkRunningHits(j)
    \/ op = "mark_done" /\ Store!MarkDoneHits(j)
    \/ op = "mark_failed" /\ Store!MarkFailedHits(j)
    \/ op = "delete" /\ Store!DeleteHits(j, arg)

Execute(c) ==
    /\ Replied(c, {"pending"})
    /\ Perform(call[c].op, c[1], call[c].arg)
    /\ call' = [call EXCEPT ![c].reply =
                   IF Hits(call[c].op, c[1], call[c].arg) THEN "hit" ELSE "miss"]
    /\ UNCHANGED <<handlers, process, late, errors>>

\* A store call raises (a locked or full database): no effect, no reply.
ExecuteFails(c) ==
    /\ Replied(c, {"pending"})
    /\ errors < MaxErrors /\ errors' = errors + 1
    /\ call' = [call EXCEPT ![c].reply = "error"]
    /\ UNCHANGED <<rows, purged, handlers, process, late>>

ExecuteLate(l) ==
    /\ Perform(l.op, l.job, l.arg)
    /\ late' = late \ {l}
    /\ UNCHANGED <<handlers, process, call, errors>>

-----------------------------------------------------------------------------
\* submit_job.

\* The upload is staged, the job minted, and the INSERT awaited.
SubmitBegin(j, t) ==
    /\ phase = "serving" /\ submit[j] = "none"
    /\ submit' = [submit EXCEPT ![j] = "adding"]
    /\ file' = [file EXCEPT ![j] = TRUE]
    /\ call' = Await(<<j, "submit">>, "add", t)
    /\ UNCHANGED <<rows, purged, process, task, cancel, late, errors>>

\* The finally clause: on every path the task is created and owns the upload.
HandOff(j, end) ==
    /\ submit[j] = "adding"
    /\ submit' = [submit EXCEPT ![j] = end]
    /\ task' = [task EXCEPT ![j] = "created"]
    /\ call' = Resumed(<<j, "submit">>)
    /\ UNCHANGED <<rows, purged, process, cancel, file, errors>>

\* Fault: an INSERT that raised is answered 201 all the same.
SubmitAcceptedAnyway(j) ==
    Replied(<<j, "submit">>, {"hit", "error"}) /\ HandOff(j, "accepted") /\ UNCHANGED late

SubmitAccepted(j) ==
    Replied(<<j, "submit">>, {"hit"}) /\ HandOff(j, "accepted") /\ UNCHANGED late

SubmitFailed(j) ==
    Replied(<<j, "submit">>, {"error"}) /\ HandOff(j, "failed") /\ UNCHANGED late

\* Fault: the cancelled handler cleans up the upload it has handed off.
SubmitCancelledUnlinks(j) ==
    /\ submit[j] = "adding"
    /\ submit' = [submit EXCEPT ![j] = "cancelled"]
    /\ task' = [task EXCEPT ![j] = "created"]
    /\ file' = [file EXCEPT ![j] = FALSE]
    /\ call' = Resumed(<<j, "submit">>)
    /\ late' \in Abandoned(<<j, "submit">>)
    /\ UNCHANGED <<rows, purged, process, cancel, errors>>

\* The client disconnects: the await raises CancelledError, whatever the
\* INSERT has done or will do.
SubmitCancelled(j) ==
    /\ HandOff(j, "cancelled")
    /\ late' \in Abandoned(<<j, "submit">>)

-----------------------------------------------------------------------------
\* JobRunner._run and _drive.  Every step but the cancelled ones needs that no
\* cancellation is pending.

TaskAwaits(j, from, to, op, arg) ==
    /\ task[j] = from /\ ~cancel[j]
    /\ task' = [task EXCEPT ![j] = to]
    /\ call' = Await(<<j, "task">>, op, arg)
    /\ UNCHANGED <<rows, purged, process, submit, cancel, file, late, errors>>

\* The task is over; _run's finally clause has unlinked the upload.
TaskEnds(j, from, S, end) ==
    /\ task[j] = from /\ ~cancel[j] /\ Replied(<<j, "task">>, S)
    /\ task' = [task EXCEPT ![j] = end]
    /\ file' = [file EXCEPT ![j] = FALSE]
    /\ call' = Resumed(<<j, "task">>)
    /\ UNCHANGED <<rows, purged, process, submit, cancel, late, errors>>

TaskStarts(j) == TaskAwaits(j, "created", "marking", "mark_running", Null)

TaskSkips(j) == TaskEnds(j, "marking", {"miss"}, "ended")

\* Fault: mark_running's answer is ignored.
TaskParsesAnyway(j) ==
    /\ task[j] = "marking" /\ ~cancel[j] /\ Replied(<<j, "task">>, {"hit", "miss"})
    /\ task' = [task EXCEPT ![j] = "parsing"]
    /\ call' = Resumed(<<j, "task">>)
    /\ UNCHANGED <<rows, purged, process, submit, cancel, file, late, errors>>

TaskParses(j) ==
    /\ task[j] = "marking" /\ ~cancel[j] /\ Replied(<<j, "task">>, {"hit"})
    /\ task' = [task EXCEPT ![j] = "parsing"]
    /\ call' = Resumed(<<j, "task">>)
    /\ UNCHANGED <<rows, purged, process, submit, cancel, file, late, errors>>

ParseSucceeds(j) ==
    \E doc \in Documents : TaskAwaits(j, "parsing", "recording", "mark_done", doc)

ParseFails(j) ==
    \E d \in ParseFailures : TaskAwaits(j, "parsing", "recording", "mark_failed", d)

\* Applied or not (the job was deleted meanwhile), the outcome is dealt with.
TaskRecorded(j) == TaskEnds(j, "recording", {"hit", "miss"}, "ended")

\* Fault: a store error ends the task without another attempt.
TaskGivesUp(j) ==
    \/ TaskEnds(j, "marking", {"error"}, "ended")
    \/ TaskEnds(j, "recording", {"error"}, "ended")

\* A store call raised: _run tries once more, to mark the job failed.
TaskRescues(j) ==
    /\ Replied(<<j, "task">>, {"error"})
    /\ \/ TaskAwaits(j, "marking", "rescuing", "mark_failed", InternalError)
       \/ TaskAwaits(j, "recording", "rescuing", "mark_failed", InternalError)

TaskRescued(j) ==
    \/ TaskEnds(j, "rescuing", {"hit", "miss"}, "ended")
    \/ TaskEnds(j, "rescuing", {"error"}, "unrecorded")

\* Faults: a cancelled task keeps its upload, and a parse that is shielded from
\* the cancellation of its awaiter.
TaskCancelledKeepingUpload(j) ==
    /\ Live(j) /\ task[j] # "created" /\ cancel[j]
    /\ task' = [task EXCEPT ![j] = "ended"]
    /\ cancel' = [cancel EXCEPT ![j] = FALSE]
    /\ late' \in Abandoned(<<j, "task">>)
    /\ call' = Resumed(<<j, "task">>)
    /\ UNCHANGED <<rows, purged, process, submit, file, errors>>

TaskCancelledButParsing(j) ==
    /\ task[j] \in {"marking", "recording", "rescuing"} /\ cancel[j]
    /\ task' = [task EXCEPT ![j] = "ended"]
    /\ cancel' = [cancel EXCEPT ![j] = FALSE]
    /\ file' = [file EXCEPT ![j] = FALSE]
    /\ late' \in Abandoned(<<j, "task">>)
    /\ call' = Resumed(<<j, "task">>)
    /\ UNCHANGED <<rows, purged, process, submit, errors>>

\* CancelledError at an await skips both except clauses; finally still runs.
TaskCancelled(j) ==
    /\ Live(j) /\ task[j] # "created" /\ cancel[j]
    /\ task' = [task EXCEPT ![j] = "ended"]
    /\ cancel' = [cancel EXCEPT ![j] = FALSE]
    /\ file' = [file EXCEPT ![j] = FALSE]
    /\ late' \in Abandoned(<<j, "task">>)
    /\ call' = Resumed(<<j, "task">>)
    /\ UNCHANGED <<rows, purged, process, submit, errors>>

\* asyncio throws CancelledError into a coroutine that has not started: no
\* line of _run executes, its finally clause included.
TaskNeverRuns(j) ==
    /\ task[j] = "created" /\ cancel[j]
    /\ task' = [task EXCEPT ![j] = "neverRan"]
    /\ cancel' = [cancel EXCEPT ![j] = FALSE]
    /\ UNCHANGED <<rows, purged, process, submit, file, call, late, errors>>

-----------------------------------------------------------------------------
\* delete_job, for a job whose id a client can know; one request per job at a
\* time.

DeleteBegin(j, t) ==
    /\ phase = "serving" /\ Store!Stored(j) /\ call[<<j, "delete">>] = NoCall
    /\ call' = Await(<<j, "delete">>, "delete", t)
    /\ UNCHANGED <<rows, purged, handlers, process, late, errors>>

\* The row is gone: cancel the task if it is still tracked and answer 204.
DeleteHit(j) ==
    /\ Replied(<<j, "delete">>, {"hit"})
    /\ cancel' = [cancel EXCEPT ![j] = Live(j)]
    /\ call' = Resumed(<<j, "delete">>)
    /\ UNCHANGED <<rows, purged, process, submit, task, file, late, errors>>

\* 404 for a missing or foreign job, 500 for a store error.
DeleteMissed(j) ==
    /\ Replied(<<j, "delete">>, {"miss", "error"})
    /\ call' = Resumed(<<j, "delete">>)
    /\ UNCHANGED <<rows, purged, handlers, process, late, errors>>

\* The client disconnects: the row may go, the task is not cancelled.
DeleteAbandoned(j) ==
    /\ call[<<j, "delete">>] # NoCall
    /\ late' \in Abandoned(<<j, "delete">>)
    /\ call' = Resumed(<<j, "delete">>)
    /\ UNCHANGED <<rows, purged, handlers, process, errors>>

-----------------------------------------------------------------------------
\* The purge loop.  An iteration that raises changes nothing and is retried;
\* one already in its thread may finish while the process drains.
Purge ==
    /\ phase \in {"serving", "draining"}
    /\ \E cutoff \in Times : Store!PurgeOlderThan(cutoff)
    /\ UNCHANGED <<handlers, process, call, late, errors>>

-----------------------------------------------------------------------------
\* The process.

\* aclose: every task the runner still tracks is cancelled.  The server has
\* drained its requests before it runs the lifespan's shutdown, and a task takes
\* its first step before the request that created it is over.
Shutdown ==
    /\ phase = "serving" /\ stops < MaxStops
    /\ \A j \in Jobs, r \in {"submit", "delete"} : call[<<j, r>>] = NoCall
    /\ \A j \in Jobs : task[j] # "created"
    /\ phase' = "draining" /\ stops' = stops + 1
    /\ cancel' = [j \in Jobs |-> Live(j)]
    /\ UNCHANGED <<rows, purged, submit, task, file, call, late, wiped, errors>>

\* The end of a process: its coroutines and threads are gone, the database and
\* the scratch directory stay.
ProcessEnds ==
    /\ phase' = "down"
    /\ submit' = [j \in Jobs |-> IF submit[j] \in {"adding", "cancelled"}
                                 THEN "lost" ELSE submit[j]]
    /\ task' = [j \in Jobs |-> IF submit[j] = "none" THEN "none" ELSE "lost"]
    /\ cancel' = [j \in Jobs |-> FALSE]
    /\ call' = [c \in Callers |-> NoCall]
    /\ late' = {}
    /\ UNCHANGED <<rows, purged, file, wiped, errors>>

\* Interpreter exit joins the executor's threads.
Exit ==
    /\ phase = "draining" /\ late = {} /\ \A j \in Jobs : ~Live(j)
    /\ ProcessEnds /\ UNCHANGED stops

Crash ==
    /\ phase # "down" /\ stops < MaxStops /\ stops' = stops + 1
    /\ ProcessEnds

\* Fault: the startup does not wait for its sweep.
BootSweepInBackground ==
    /\ \/ phase = "down" /\ phase' = "wiping" /\ UNCHANGED <<rows, purged>>
       \/ phase = "serving" /\ UNCHANGED phase /\ Store!SweepIncomplete(Interrupted)
    /\ UNCHANGED <<handlers, call, late, wiped, errors, stops>>

\* startup_sweep, before anything is served: first the store...
BootSweep ==
    /\ phase = "down" /\ phase' = "wiping"
    /\ Store!SweepIncomplete(Interrupted)
    /\ UNCHANGED <<handlers, call, late, wiped, errors, stops>>

\* ...then the scratch directory,
BootWipe ==
    /\ phase = "wiping" /\ phase' = "serving" /\ wiped' = TRUE
    /\ file' = [j \in Jobs |-> FALSE]
    /\ UNCHANGED <<rows, purged, submit, task, cancel, call, late, errors, stops>>

\* whose removal may fail anywhere; the server starts all the same.
BootWipeFails ==
    /\ phase = "wiping" /\ phase' = "serving" /\ wiped' = FALSE
    /\ errors < MaxErrors /\ errors' = errors + 1
    /\ \E S \in SUBSET {j \in Jobs : file[j]} : file' = [j \in Jobs |-> j \in S]
    /\ UNCHANGED <<rows, purged, submit, task, cancel, call, late, stops>>

-----------------------------------------------------------------------------
Init ==
    /\ Store!Init
    /\ phase = "down" /\ wiped = TRUE /\ errors = 0 /\ stops = 0
    /\ submit = [j \in Jobs |-> "none"]
    /\ task = [j \in Jobs |-> "none"]
    /\ cancel = [j \in Jobs |-> FALSE]
    /\ file = [j \in Jobs |-> FALSE]
    /\ call = [c \in Callers |-> NoCall]
    /\ late = {}

SubmitEnds(j) == SubmitAccepted(j) \/ SubmitFailed(j) \/ SubmitCancelled(j)
DeleteEnds(j) == DeleteHit(j) \/ DeleteMissed(j) \/ DeleteAbandoned(j)
TaskSteps(j) ==
    \/ TaskStarts(j) \/ TaskSkips(j) \/ TaskParses(j)
    \/ ParseSucceeds(j) \/ ParseFails(j) \/ TaskRecorded(j)
    \/ TaskRescues(j) \/ TaskRescued(j)
    \/ TaskCancelled(j) \/ TaskNeverRuns(j)

Next ==
    \/ \E c \in Callers : Execute(c) \/ ExecuteFails(c)
    \/ \E l \in late : ExecuteLate(l)
    \/ \E j \in Jobs, t \in Tokens : SubmitBegin(j, t) \/ DeleteBegin(j, t)
    \/ \E j \in Jobs : SubmitEnds(j) \/ DeleteEnds(j) \/ TaskSteps(j)
    \/ Purge \/ Shutdown \/ Exit \/ Crash \/ BootSweep \/ BootWipe \/ BootWipeFails

Spec == Init /\ [][Next]_vars

\* The executor runs what it is given, a coroutine whose await is over is
\* resumed, a parse ends (the per-job timeout kills its worker), and whatever
\* starts the process starts it again.  Nothing makes a client act.
Fairness ==
    /\ \A c \in Callers : WF_vars(Execute(c))
    /\ WF_vars(\E l \in late : ExecuteLate(l))
    /\ \A j \in Jobs : WF_vars(SubmitEnds(j)) /\ WF_vars(DeleteEnds(j))
    /\ \A j \in Jobs : WF_vars(TaskSteps(j))
    /\ WF_vars(BootSweep) /\ WF_vars(BootWipe) /\ WF_vars(Exit)

FairSpec == Spec /\ Fairness

-----------------------------------------------------------------------------
ProcessOK ==
    /\ phase \in {"down", "wiping", "serving", "draining"}
    /\ submit \in [Jobs -> {"none", "adding", "accepted", "failed", "cancelled", "lost"}]
    /\ task \in [Jobs -> {"none", "created", "marking", "parsing", "recording",
                          "rescuing", "ended", "unrecorded", "neverRan", "lost"}]
    /\ cancel \in [Jobs -> BOOLEAN]
    /\ file \in [Jobs -> BOOLEAN]
    /\ call \in [Callers -> Calls]
    /\ late \subseteq LateCalls
    /\ wiped \in BOOLEAN
    /\ errors \in 0..MaxErrors
    /\ stops \in 0..MaxStops

TypeOK == Store!TypeOK /\ ProcessOK

\* A job is never left queued or running with nothing to move it: while the
\* server runs, an incomplete row has a live task or a handler about to create
\* one.  The two ways the code accepts otherwise are named: both attempts to
\* record a failure raised, or the submission was cancelled around its INSERT.
IncompleteIsOwned ==
    phase = "serving" =>
        \A j \in Store!Incomplete :
            \/ Live(j) \/ submit[j] = "adding" \/ task[j] = "unrecorded"
            \/ submit[j] = "cancelled" /\ task[j] = "ended"

\* A staged upload is on disk only while something will still delete it: its
\* handler, its live task, or (cancelled before its first step, or left by a
\* startup wipe that failed) the next startup.
UploadIsOwned ==
    phase \in {"serving", "draining"} =>
        \A j \in Jobs : file[j] =>
            \/ submit[j] = "adding" \/ Live(j) \/ task[j] = "neverRan"
            \/ task[j] = "lost" /\ ~wiped

\* Nobody deletes an upload under the task that has yet to parse it.
UploadHeldForParse ==
    \A j \in Jobs : task[j] \in {"created", "marking", "parsing"} => file[j]

\* "running" means dispatched: what the pool parses is a running job, or one
\* deleted or expired meanwhile, never a job still queued or already settled.
ParsedIsRunning ==
    \A j \in Jobs : task[j] = "parsing" =>
        Store!InStatus(j, {"running"}) \/ j \in purged

\* The runner finds no row to transition only when the job was deleted or
\* expired, or was never accepted: no outcome is dropped on a job that a
\* client was promised and still holds.
DroppedOnlyIfDeleted ==
    \A j \in Jobs :
        Live(j) /\ Replied(<<j, "task">>, {"miss"}) => j \in purged \/ submit[j] # "accepted"

\* A submission answered 201 stays known until it is deleted or expires,
\* through crashes, restarts and store errors.
AcceptedIsKept ==
    \A j \in Jobs : submit[j] = "accepted" => Store!Stored(j) \/ j \in purged

\* Only the jobs of a process that is gone are failed as interrupted by restart:
\* none that the serving process took, whenever and however it took it, and
\* however a call was delayed.
InterruptedIsLost ==
    \A j \in Jobs : Store!Stored(j) /\ rows[j].detail = Interrupted => task[j] = "lost"

Settled(j) == Store!InStatus(j, {"done", "failed"}) \/ j \in purged

\* A job answered 201 reaches an outcome or is deleted, through store errors
\* and through restarts, unless both attempts to record an outcome raised.
AcceptedSettles ==
    \A j \in Jobs : submit[j] = "accepted" ~> Settled(j) \/ task[j] = "unrecorded"

\* Every task ends: a cancelled one without waiting for its parse, any other
\* when its parse does.
TasksEnd == \A j \in Jobs : Live(j) ~> ~Live(j)

-----------------------------------------------------------------------------
\* Two claims of the code that do not hold as written.

\* "Ownership of the scratch file transfers here: the task deletes it on
\* success, failure, and cancellation alike" (runner.py:93-94).  A task that
\* delete_job cancels before its first step never enters _run.
TaskDeletesUpload ==
    \A j \in Jobs : task[j] \in {"ended", "unrecorded", "neverRan"} => ~file[j]

\* "Hand off unconditionally ... a conditional handoff could orphan a committed
\* queued row forever" (api/jobs.py:100-103): no row is left queued without a
\* task.  When the submission is cancelled while its INSERT is in flight, the
\* task's mark_running can come first, find nothing and end the task.
NoOrphanedRow ==
    phase = "serving" =>
        \A j \in Store!Incomplete :
            Live(j) \/ submit[j] = "adding" \/ task[j] = "unrecorded"
=============================================================================
