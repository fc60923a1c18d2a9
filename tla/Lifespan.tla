------------------------------ MODULE Lifespan ------------------------------
(***************************************************************************)
(* The lifespan of create_app (app.py) over everything it owns: the startup *)
(* sweep, the worker pool, the purge task (maintenance.purge_loop), the     *)
(* port of the metrics server and, at the end, the runner's tasks.  The     *)
(* process may run one lifespan after another, and what a cancelled await   *)
(* of to_thread left in the executor still lands, in the next lifespan if   *)
(* need be.                                                                *)
(*                                                                         *)
(* The pool is the one of ParseContract, a new one each time.  A job is not *)
(* deleted but by the purge: JobRunner has the races of delete_job.  The    *)
(* lifespan itself is not cancelled, and metrics_server.shutdown returns.   *)
(***************************************************************************)
EXTENDS Naturals, FiniteSets

CONSTANTS
    Jobs,
    Workers,      \* worker_count
    MaxBoots,     \* bound: lifespans
    MaxFaults     \* bound: sweeps, INSERTs, transitions and aclose that raise

ASSUME JobsAssumption == IsFiniteSet(Jobs)
ASSUME BoundsAssumption == Workers \in Nat \ {0} /\ MaxBoots \in Nat /\ MaxFaults \in Nat

VARIABLES
    phase,        \* of the lifespan: its await, serving, or down
    port,         \* metrics_port: free, ours, or foreign (another process has it)
    purger,       \* the purge task: none, created, purging, sleeping, ended
    purgeCancel,  \* its cancellation was requested
    strays,       \* purges in the executor that nobody awaits
    submit,       \* per job, its POST handler: none, adding, over, cancelled
    insert,       \* per job, its INSERT: none, pending in the executor, over
    row,          \* per job, its row: none, queued, running, settled
    task,         \* per job, its runner task: none, where it awaits, or how it ended
    cancel,       \* the jobs whose task's cancellation was requested
    write,        \* per job, the transition in the executor
    call, open,   \* the worker pool
    boots, faults

pool   == <<call, open>>
purges == <<purger, purgeCancel, strays>>
posts  == <<submit, insert>>
jobs   == <<posts, row, task, cancel, write>>
vars   == <<phase, port, purges, jobs, pool, boots, faults>>

Pool == INSTANCE ParseContract WITH Parses <- Jobs

Stopping   == {"metrics", "purge", "runner", "pool"}
Verdicts   == {"done", "unparseable", "timeout", "crashed", "internal"}
Incomplete == {"queued", "running"}
Live(j)    == task[j] \in {"marking", "parsing", "recording", "rescuing"}

Faulty == faults < MaxFaults /\ faults' = faults + 1

-----------------------------------------------------------------------------
\* Startup.

Boot ==
    /\ phase = "down" /\ boots < MaxBoots
    /\ phase' = "sweeping" /\ boots' = boots + 1
    /\ UNCHANGED <<port, purges, jobs, pool, faults>>

SweepRaises ==
    /\ phase = "sweeping" /\ Faulty
    /\ phase' = "down"
    /\ UNCHANGED <<port, purges, jobs, pool, boots>>

\* Fault: the jobs that had not started are left for a task to come.
SweepRunning == row' = [j \in Jobs |-> IF row[j] = "running" THEN "settled" ELSE row[j]]

Sweep == row' = [j \in Jobs |-> IF row[j] \in Incomplete THEN "settled" ELSE row[j]]

\* From the end of the sweep to the bind there is no await: the purge task has
\* not begun when the bind fails, and is cancelled before it does.
Creates ==
    /\ phase = "sweeping"
    /\ Sweep
    /\ open' = "open" /\ purger' = "created"
    /\ UNCHANGED <<strays, posts, task, cancel, write, call, boots, faults>>

\* metrics_enabled, or not.
Serve ==
    /\ Creates
    /\ phase' = "serving" /\ purgeCancel' = FALSE
    /\ \/ port = "free" /\ port' = "ours"
       \/ UNCHANGED port

\* Fault: a server that never came up has nothing to tear down.
BindFailsBare ==
    /\ Creates
    /\ port # "free"
    /\ phase' = "down" /\ purgeCancel' = FALSE
    /\ UNCHANGED port

BindFails ==
    /\ Creates
    /\ port # "free"
    /\ phase' = "purge" /\ purgeCancel' = TRUE
    /\ UNCHANGED port

-----------------------------------------------------------------------------
\* Shutdown: the finally clause, await by await.

CancelsPurge ==
    /\ phase' = "purge" /\ purgeCancel' = TRUE
    /\ UNCHANGED <<purger, strays, jobs, pool, boots, faults>>

\* The server has drained its requests before it ends the lifespan.
Stop ==
    /\ phase = "serving" /\ \A j \in Jobs : submit[j] # "adding"
    /\ \/ port = "ours" /\ phase' = "metrics" /\ UNCHANGED <<purges, jobs, pool, boots, faults>>
       \/ port # "ours" /\ CancelsPurge
    /\ UNCHANGED port

\* Fault: shutdown without server_close.
MetricsStoppedOnly == phase = "metrics" /\ CancelsPurge /\ UNCHANGED port

MetricsStopped == phase = "metrics" /\ CancelsPurge /\ port' = "free"

\* The runner's aclose cancels every task; a parse learns of it at once.
CancelTasks ==
    /\ cancel' = cancel \cup {j \in Jobs : Live(j)}
    /\ call' = [j \in Jobs |-> [call[j] EXCEPT !.asked = @ \/ task[j] = "parsing"]]
    /\ UNCHANGED <<posts, row, task, write, open>>

\* Fault: the pool before the runner.
PurgeStoppedThenPool ==
    /\ phase = "purge" /\ purger = "ended"
    /\ phase' = "pool" /\ Pool!Closes
    /\ UNCHANGED <<port, purges, jobs, boots, faults>>

PurgeStopped ==
    /\ phase = "purge" /\ purger = "ended"
    /\ phase' = "runner" /\ CancelTasks
    /\ UNCHANGED <<port, purges, boots, faults>>

ClosesPool ==
    /\ phase = "runner" /\ phase' = "pool"
    /\ Pool!Closes
    /\ UNCHANGED <<port, purges, jobs, boots>>

RunnerStopped == ClosesPool /\ (\A j \in Jobs : ~Live(j)) /\ UNCHANGED faults

\* The pool goes in any case.
RunnerRaises == ClosesPool /\ Faulty

PoolStopped ==
    /\ phase = "pool" /\ phase' = "down"
    /\ Pool!Closed
    /\ \A j \in Jobs : Pool!Waiting(j) => call'[j].engine # "none"
    /\ UNCHANGED <<port, purges, jobs, boots, faults>>

-----------------------------------------------------------------------------
\* The purge task.  What is old enough to go is left open: a purge that raises,
\* which the loop survives, is one that deletes nothing.

Deletes == \E S \in SUBSET Jobs : row' = [j \in Jobs |-> IF j \in S THEN "none" ELSE row[j]]

PurgeBegins ==
    /\ purger \in {"created", "sleeping"} /\ ~purgeCancel
    /\ purger' = "purging"
    /\ UNCHANGED <<phase, port, purgeCancel, strays, jobs, pool, boots, faults>>

PurgeEnds ==
    /\ purger = "purging" /\ ~purgeCancel
    /\ Deletes
    /\ purger' = "sleeping"
    /\ UNCHANGED <<phase, port, purgeCancel, strays, posts, task, cancel, write, pool, boots, faults>>

\* Fault: except BaseException, so that the loop outlives its cancellation.
PurgeCancelledSwallowed ==
    /\ purgeCancel /\ purger \in {"created", "purging", "sleeping"}
    /\ purger' = IF purger = "purging" THEN "sleeping" ELSE "ended"
    /\ purgeCancel' = (purger # "purging")
    /\ strays' = IF purger = "purging" THEN strays + 1 ELSE strays
    /\ UNCHANGED <<phase, port, jobs, pool, boots, faults>>

PurgeCancelled ==
    /\ purgeCancel /\ purger \in {"created", "purging", "sleeping"}
    /\ purger' = "ended"
    /\ strays' = IF purger = "purging" THEN strays + 1 ELSE strays
    /\ UNCHANGED <<phase, port, purgeCancel, jobs, pool, boots, faults>>

StrayPurge ==
    /\ strays > 0 /\ strays' = strays - 1
    /\ Deletes
    /\ UNCHANGED <<phase, port, purger, purgeCancel, posts, task, cancel, write, pool, boots, faults>>

-----------------------------------------------------------------------------
\* The jobs, from submission to the recording of their outcome.

\* submit_job awaits the INSERT,
SubmitBegins(j) ==
    /\ phase = "serving" /\ submit[j] = "none"
    /\ submit' = [submit EXCEPT ![j] = "adding"]
    /\ insert' = [insert EXCEPT ![j] = "pending"]
    /\ UNCHANGED <<phase, port, purges, row, task, cancel, write, pool, boots, faults>>

\* which commits, in whatever phase if its handler was cancelled, or raises.
InsertLands(j) ==
    /\ insert[j] = "pending"
    /\ insert' = [insert EXCEPT ![j] = "over"]
    /\ row' = [row EXCEPT ![j] = "queued"]
    /\ UNCHANGED <<phase, port, purges, submit, task, cancel, write, pool, boots, faults>>

InsertRaises(j) ==
    /\ insert[j] = "pending" /\ Faulty
    /\ insert' = [insert EXCEPT ![j] = "over"]
    /\ UNCHANGED <<phase, port, purges, submit, row, task, cancel, write, pool, boots>>

\* The finally clause: on every path there is a task, and it awaits mark_running.
HandsOff(j, end) ==
    /\ submit[j] = "adding"
    /\ submit' = [submit EXCEPT ![j] = end]
    /\ task' = [task EXCEPT ![j] = "marking"]
    /\ write' = [write EXCEPT ![j] = "running"]
    /\ UNCHANGED <<phase, port, purges, row, cancel, pool, boots, faults>>

SubmitEnds(j) == insert[j] = "over" /\ HandsOff(j, "over") /\ UNCHANGED insert

\* Cancelled, the handler leaves its INSERT to the executor, which may drop it.
SubmitCancelled(j) ==
    /\ HandsOff(j, "cancelled")
    /\ \/ UNCHANGED insert
       \/ insert' = [insert EXCEPT ![j] = "over"]

\* Fault: mark_running without its guard on the status.
HitsAnyway(j) ==
    \/ write[j] = "running" /\ row[j] # "none"
    \/ write[j] = "done" /\ row[j] = "running"
    \/ write[j] \in Verdicts \ {"done"} /\ row[j] \in Incomplete

\* The guards of mark_running, mark_done and mark_failed.
Hits(j) ==
    \/ write[j] = "running" /\ row[j] = "queued"
    \/ write[j] = "done" /\ row[j] = "running"
    \/ write[j] \in Verdicts \ {"done"} /\ row[j] \in Incomplete

Records(j, v) == task' = [task EXCEPT ![j] = "recording"] /\ write' = [write EXCEPT ![j] = v]

Leaves(j) == task' = [task EXCEPT ![j] = "ended"] /\ write' = [write EXCEPT ![j] = "none"]

Lands(j) ==
    row' = IF Hits(j) THEN [row EXCEPT ![j] = IF write[j] = "running" THEN "running" ELSE "settled"]
           ELSE row

\* A transition commits, and its task goes on if it still waits for it.
Marked(j) ==
    /\ task[j] = "marking" /\ write[j] = "running" /\ j \notin cancel
    /\ Lands(j)
    /\ \/ ~Hits(j) /\ Leaves(j) /\ UNCHANGED pool
       \/ Hits(j) /\ Pool!Refuses(j) /\ Records(j, "internal")
       \/ Hits(j) /\ open = "open" /\ Pool!Begins(j)
            /\ task' = [task EXCEPT ![j] = "parsing"] /\ write' = [write EXCEPT ![j] = "none"]
    /\ UNCHANGED <<phase, port, purges, posts, cancel, boots, faults>>

Recorded(j) ==
    /\ task[j] \in {"recording", "rescuing"} /\ write[j] # "none" /\ j \notin cancel
    /\ Lands(j) /\ Leaves(j)
    /\ UNCHANGED <<phase, port, purges, posts, cancel, pool, boots, faults>>

\* A transition raises: _run makes one more attempt to mark the job failed.
TransitionRaises(j) ==
    /\ task[j] \in {"marking", "recording", "rescuing"} /\ j \notin cancel /\ Faulty
    /\ task' = [task EXCEPT ![j] = IF @ = "rescuing" THEN "unrecorded" ELSE "rescuing"]
    /\ write' = [write EXCEPT ![j] = IF task[j] = "rescuing" THEN "none" ELSE "internal"]
    /\ UNCHANGED <<phase, port, purges, posts, row, cancel, pool, boots>>

LandsLate(j) ==
    /\ write[j] # "none" /\ (j \in cancel \/ task[j] = "ended")
    /\ Lands(j) /\ write' = [write EXCEPT ![j] = "none"]
    /\ UNCHANGED <<phase, port, purges, posts, task, cancel, pool, boots, faults>>

Parsed(j) ==
    /\ task[j] = "parsing" /\ Pool!Answers(j)
    /\ Records(j, IF call'[j].outcome = "document" THEN "done" ELSE call'[j].outcome)
    /\ UNCHANGED <<phase, port, purges, posts, row, cancel, boots, faults>>

TaskCancelled(j) ==
    /\ Live(j)
    /\ \/ task[j] = "parsing" /\ Pool!Cancels(j)
       \/ task[j] # "parsing" /\ j \in cancel /\ UNCHANGED pool
    /\ task' = [task EXCEPT ![j] = "ended"]
    /\ UNCHANGED <<phase, port, purges, posts, row, cancel, write, boots, faults>>

\* A timeout would be recorded just as a document that cannot be parsed.
Works ==
    /\ \/ \E j \in Jobs : Pool!Runs(j)
       \/ \E j \in Jobs : Pool!Finishes(j) /\ call'[j].engine # "timeout"
       \/ \E S \in SUBSET Jobs \ {{}} : Pool!Loses(S)
    /\ UNCHANGED <<phase, port, purges, jobs, boots, faults>>

\* Another process takes or leaves the metrics port (between two lifespans: no
\* one looks at it later but the bind).
PortChanges ==
    /\ phase = "down"
    /\ \/ port = "free" /\ port' = "foreign"
       \/ port = "foreign" /\ port' = "free"
    /\ UNCHANGED <<phase, purges, jobs, pool, boots, faults>>

-----------------------------------------------------------------------------
Init ==
    /\ phase = "down" /\ port = "free"
    /\ purger = "none" /\ purgeCancel = FALSE /\ strays = 0
    /\ submit = [j \in Jobs |-> "none"] /\ insert = [j \in Jobs |-> "none"]
    /\ row = [j \in Jobs |-> "none"] /\ task = [j \in Jobs |-> "none"]
    /\ cancel = {} /\ write = [j \in Jobs |-> "none"]
    /\ call = [j \in Jobs |-> Pool!NoCall] /\ open = "closed"
    /\ boots = 0 /\ faults = 0

Startup  == SweepRaises \/ Serve \/ BindFails
Teardown == MetricsStopped \/ PurgeStopped \/ RunnerStopped \/ RunnerRaises \/ PoolStopped

Next ==
    \/ Boot \/ Startup \/ Stop \/ Teardown
    \/ PurgeBegins \/ PurgeEnds \/ PurgeCancelled \/ StrayPurge
    \/ \E j \in Jobs : SubmitBegins(j) \/ InsertLands(j) \/ InsertRaises(j)
    \/ \E j \in Jobs : SubmitEnds(j) \/ SubmitCancelled(j)
    \/ \E j \in Jobs : Marked(j) \/ Recorded(j) \/ TransitionRaises(j) \/ LandsLate(j)
    \/ \E j \in Jobs : Parsed(j) \/ TaskCancelled(j)
    \/ Works \/ PortChanges

Spec == Init /\ [][Next]_vars

\* Threads return and the event loop runs what is ready.
FairSpec ==
    /\ Spec
    /\ WF_vars(Startup) /\ WF_vars(Teardown) /\ WF_vars(PurgeCancelled)
    /\ \A j \in Jobs : WF_vars(TaskCancelled(j))

-----------------------------------------------------------------------------
TypeOK ==
    /\ phase \in Stopping \cup {"down", "sweeping", "serving"}
    /\ port \in {"free", "ours", "foreign"}
    /\ purger \in {"none", "created", "purging", "sleeping", "ended"}
    /\ purgeCancel \in BOOLEAN /\ strays \in Nat
    /\ submit \in [Jobs -> {"none", "adding", "over", "cancelled"}]
    /\ insert \in [Jobs -> {"none", "pending", "over"}]
    /\ row \in [Jobs -> Incomplete \cup {"none", "settled"}]
    /\ task \in [Jobs -> {"none", "marking", "parsing", "recording", "rescuing", "ended", "unrecorded"}]
    /\ cancel \subseteq Jobs
    /\ write \in [Jobs -> Verdicts \cup {"none", "running"}]
    /\ Pool!TypeOK
    /\ boots \in 0..MaxBoots /\ faults \in 0..MaxFaults

\* Whatever path led out of the lifespan, a failed bind and a runner that
\* raised included, no worker runs and no pool would start one, the purge task
\* is over, the metrics port is released (or a rebind would fail), and no task
\* is left that was not told to end.
NothingOutlives ==
    phase = "down" =>
        /\ open = "closed" /\ Pool!Running = {}
        /\ purger \in {"none", "ended"}
        /\ port # "ours"
        /\ \A j \in Jobs : Live(j) => j \in cancel

\* What serves knows every job that is not over: the sweep missed none of the
\* jobs the last lifespan left behind, and no transition or purge that lands
\* late takes one back.  The two ways the code accepts otherwise are named: both
\* attempts to record an outcome raised, or the submission was cancelled around
\* its INSERT, in this lifespan or in the one before.
ServingOwnsIncomplete ==
    phase = "serving" =>
        \A j \in Jobs : row[j] \in Incomplete =>
            \/ Live(j) \/ submit[j] = "adding" \/ task[j] = "unrecorded"
            \/ submit[j] = "cancelled" /\ task[j] = "ended"

\* A shutdown fails no job: no crash and no internal error is recorded because
\* the pool was closed, so that the next boot can ask for the job again.
ShutdownBlamesNoJob ==
    [][\A j \in Jobs : write'[j] \in {"crashed", "internal"} /\ write[j] # write'[j] =>
          open = "open"]_vars

\* The lifespan comes to serve or to its end.
LifespanSettles == phase \notin {"down", "serving"} ~> phase \in {"down", "serving"}
=============================================================================
