--------------------------- MODULE LifespanProofs ---------------------------
(***************************************************************************)
(* For any number of jobs, workers, lifespans and errors: nothing outlives  *)
(* a lifespan, one that serves knows every job that is not over, and a      *)
(* shutdown is never recorded as a job's failure.                           *)
(***************************************************************************)
EXTENDS Lifespan, TLAPS

\* The pool is there from the sweep to the teardown of the runner.
PoolFollows ==
    /\ phase \in {"serving", "metrics", "purge", "runner"} => open = "open"
    /\ phase = "pool" => open = "closing"
    /\ phase \in {"down", "sweeping"} => open = "closed"
    /\ open = "closed" => Pool!Running = {}

PurgerFollows ==
    /\ phase \in {"down", "sweeping"} => purger \in {"none", "ended"}
    /\ phase = "purge" => purgeCancel
    /\ phase \in {"runner", "pool"} => purger = "ended"

PortFollows == phase \notin {"serving", "metrics"} => port # "ours"

\* From the runner's aclose to the next start no task is unaware of its end.
TasksFollow ==
    phase \notin {"serving", "metrics", "purge"} => \A j \in Jobs : Live(j) => j \in cancel

\* A task is there from the moment its handler is over, which the server waits
\* for; a handler that was not cancelled saw its INSERT end.
SubmitFollows(j) ==
    /\ task[j] = "none" <=> submit[j] \in {"none", "adding"}
    /\ submit[j] = "adding" => phase = "serving"
    /\ submit[j] \in {"none", "over"} => insert[j] # "pending"

\* A parse knows of the cancellation of its task, and of no other.
CallFollows(j) ==
    /\ task[j] = "none" => j \notin cancel
    /\ call[j].asked => j \in cancel
    /\ j \in cancel /\ task[j] = "parsing" => call[j].asked

WriteFollows(j) ==
    j \notin cancel => /\ task[j] = "marking" => write[j] = "running"
                       /\ task[j] = "recording" => write[j] \in Verdicts
                       /\ task[j] = "rescuing" => write[j] = "internal"

\* While the server serves, a row that is not over is one step behind its task,
\* if its submission was not cancelled.
RowFollows(j) ==
    phase = "serving" /\ row[j] \in Incomplete /\ submit[j] # "cancelled" =>
        /\ j \notin cancel
        /\ row[j] = "queued" =>
               submit[j] = "adding" \/ task[j] \in {"marking", "rescuing", "unrecorded"}
        /\ row[j] = "running" => task[j] \in {"parsing", "recording", "rescuing", "unrecorded"}

JobFollows(j) == SubmitFollows(j) /\ CallFollows(j) /\ WriteFollows(j) /\ RowFollows(j)

JobsFollow == \A j \in Jobs : JobFollows(j)

IInv == TypeOK /\ PoolFollows /\ PurgerFollows /\ PortFollows /\ TasksFollow /\ JobsFollow

USE BoundsAssumption

-----------------------------------------------------------------------------
\* What the steps of the pool leave alone.

CallTypes == call \in [Jobs -> Pool!Calls]

\* A call that ends keeps whether it was asked, one that is asked all the rest.
LEMMA EndedCall ==
    ASSUME NEW r \in Pool!Calls, NEW o \in Pool!Outcomes
    PROVE  /\ [r EXCEPT !.state = "ended", !.outcome = o] \in Pool!Calls
           /\ [r EXCEPT !.state = "ended", !.outcome = o].asked = r.asked
           /\ [r EXCEPT !.state = "ended", !.outcome = o].engine = r.engine
  BY DEF Pool!Calls

LEMMA CancelledCall ==
    ASSUME NEW r \in Pool!Calls, NEW e \in {r.engine, "lost"}
    PROVE  /\ [r EXCEPT !.state = "ended", !.engine = e, !.outcome = "cancelled"] \in Pool!Calls
           /\ [r EXCEPT !.state = "ended", !.engine = e, !.outcome = "cancelled"].asked = r.asked
           /\ [r EXCEPT !.state = "ended", !.engine = e, !.outcome = "cancelled"].engine = e
  BY DEF Pool!Calls, Pool!Engines, Pool!Outcomes

LEMMA AskedCall ==
    ASSUME NEW r \in Pool!Calls, NEW b \in BOOLEAN
    PROVE  [r EXCEPT !.asked = b] \in Pool!Calls
  BY DEF Pool!Calls

\* A step of one call.
LEMMA OneCall ==
    ASSUME CallTypes, NEW j \in Jobs, Pool!Begins(j) \/ Pool!Answers(j) \/ Pool!Cancels(j)
    PROVE  /\ CallTypes' /\ open' = open
           /\ \A i \in Jobs : call'[i].asked = call[i].asked
           /\ Pool!Running' \subseteq Pool!Running
<1>1. CASE Pool!Begins(j)
  BY <1>1 DEF CallTypes, Pool!Begins, Pool!Running, Pool!Calls
<1>2. CASE Pool!Answers(j)
  <2>1. PICK o \in Pool!Outcomes :
            call' = [call EXCEPT ![j] = [@ EXCEPT !.state = "ended", !.outcome = o]]
    BY <1>2 DEF Pool!Answers
  <2>2. open' = open
    BY <1>2 DEF Pool!Answers
  <2> DEFINE Ended(r) == [r EXCEPT !.state = "ended", !.outcome = o]
  <2>3. call' = [call EXCEPT ![j] = Ended(call[j])]
    BY <2>1
  <2>4. /\ Ended(call[j]) \in Pool!Calls /\ Ended(call[j]).asked = call[j].asked
        /\ Ended(call[j]).engine = call[j].engine
    BY EndedCall DEF CallTypes
  <2> HIDE DEF Ended
  <2> QED
    BY <2>2, <2>3, <2>4 DEF CallTypes, Pool!Running
<1>3. CASE Pool!Cancels(j)
  <2>1. Pool!Left(call[j].engine) \subseteq {call[j].engine, "lost"}
    BY DEF Pool!Left
  <2>2. PICK e \in {call[j].engine, "lost"} :
            call' = [call EXCEPT ![j] = [@ EXCEPT !.state = "ended", !.engine = e,
                                                  !.outcome = "cancelled"]]
    BY <1>3, <2>1 DEF Pool!Cancels
  <2>3. open' = open
    BY <1>3 DEF Pool!Cancels
  <2> DEFINE Ended(r) == [r EXCEPT !.state = "ended", !.engine = e, !.outcome = "cancelled"]
  <2>4. call' = [call EXCEPT ![j] = Ended(call[j])]
    BY <2>2
  <2>5. /\ Ended(call[j]) \in Pool!Calls /\ Ended(call[j]).asked = call[j].asked
        /\ Ended(call[j]).engine = e
    <3>1. call[j] \in Pool!Calls
      BY DEF CallTypes
    <3> QED
      BY <3>1, CancelledCall
  <2> HIDE DEF Ended
  <2> QED
    BY <2>2, <2>3, <2>4, <2>5 DEF CallTypes, Pool!Running
<1> QED
  BY <1>1, <1>2, <1>3

USE DEF Pool!Calls, Pool!Engines, Pool!Outcomes, Pool!Results

\* The workers' own steps.
LEMMA WorkerSteps ==
    ASSUME CallTypes, Works
    PROVE  /\ CallTypes' /\ open' = open
           /\ \A i \in Jobs : call'[i].asked = call[i].asked
           /\ open = "closed" => Pool!Running' \subseteq Pool!Running
<1>1. CASE \E j \in Jobs : Pool!Runs(j)
  BY <1>1 DEF CallTypes, Pool!Runs, Pool!Running
<1>2. CASE \E j \in Jobs : Pool!Finishes(j)
  BY <1>2 DEF CallTypes, Pool!Finishes, Pool!Running
<1>3. CASE \E S \in SUBSET Jobs \ {{}} : Pool!Loses(S)
  BY <1>3 DEF CallTypes, Pool!Loses, Pool!Lost, Pool!Running
<1> QED
  BY <1>1, <1>2, <1>3 DEF Works

LEMMA ClosedSteps ==
    ASSUME CallTypes, Pool!Closed
    PROVE  /\ CallTypes' /\ open' = "closed"
           /\ \A i \in Jobs : call'[i].asked = call[i].asked
           /\ Pool!Running' = {}
  BY DEF CallTypes, Pool!Closed, Pool!Lost, Pool!Running

LEMMA InitOK == Init => IInv
<1> SUFFICES ASSUME Init PROVE IInv
  OBVIOUS
<1>1. TypeOK
  <2>1. Pool!TypeOK
    BY DEF Init, Pool!TypeOK, Pool!NoCall
  <2>2. row \in [Jobs -> Incomplete \cup {"none", "settled"}]
    BY DEF Init
  <2>3. write \in [Jobs -> Verdicts \cup {"none", "running"}]
    BY DEF Init
  <2>4. boots \in 0..MaxBoots /\ faults \in 0..MaxFaults
    BY DEF Init
  <2> QED
    BY <2>1, <2>2, <2>3, <2>4 DEF Init, TypeOK, Stopping
<1>2. PoolFollows /\ PurgerFollows /\ PortFollows /\ TasksFollow
  BY DEF Init, PoolFollows, Pool!Running, Pool!NoCall, PurgerFollows, PortFollows, TasksFollow, Live
<1>3. JobsFollow
  BY DEF Init, JobsFollow, JobFollows, SubmitFollows, CallFollows, WriteFollows, RowFollows, Pool!NoCall
<1> QED
  BY <1>1, <1>2, <1>3 DEF IInv

-----------------------------------------------------------------------------
\* The steps of the lifespan, in its order.

USE DEF TypeOK, Pool!TypeOK, Stopping, Incomplete, Verdicts

LEMMA StartupOK == ASSUME IInv, Boot \/ SweepRaises \/ Serve \/ BindFails PROVE IInv'
<1> USE DEF Boot, SweepRaises, Serve, BindFails, Creates, Sweep, Faulty, purges, posts, jobs, pool
<1>1. TypeOK'
  <2>1. row' \in [Jobs -> Incomplete \cup {"none", "settled"}]
    BY DEF IInv
  <2>2. boots' \in 0..MaxBoots /\ faults' \in 0..MaxFaults
    BY DEF IInv
  <2>3. UNCHANGED <<submit, insert, task, cancel, write, call, strays>>
    OBVIOUS
  <2>4. /\ phase' \in Stopping \cup {"down", "sweeping", "serving"}
        /\ port' \in {"free", "ours", "foreign"} /\ open' \in {"open", "closing", "closed"}
        /\ purger' \in {"none", "created", "purging", "sleeping", "ended"} /\ purgeCancel' \in BOOLEAN
    BY DEF IInv
  <2> HIDE DEF Boot, SweepRaises, Serve, BindFails, Creates
  <2> QED
    BY <2>1, <2>2, <2>3, <2>4 DEF IInv
<1>2. PoolFollows'
  BY DEF IInv, PoolFollows, Pool!Running
<1>3. PurgerFollows' /\ PortFollows'
  BY DEF IInv, PurgerFollows, PortFollows
<1>4. TasksFollow'
  BY DEF IInv, TasksFollow, Live
<1>5. JobsFollow'
  BY DEF IInv, JobsFollow, JobFollows, SubmitFollows, CallFollows, WriteFollows, RowFollows
<1> QED
  BY <1>1, <1>2, <1>3, <1>4, <1>5 DEF IInv

LEMMA StopOK == ASSUME IInv, Stop \/ MetricsStopped PROVE IInv'
<1> USE DEF Stop, MetricsStopped, CancelsPurge, purges, posts, jobs, pool
<1>1. TypeOK'
  BY DEF IInv
<1>2. PoolFollows'
  BY DEF IInv, PoolFollows, Pool!Running
<1>3. PurgerFollows' /\ PortFollows'
  BY DEF IInv, PurgerFollows, PortFollows
<1>4. TasksFollow'
  BY DEF IInv, TasksFollow, Live
<1>5. JobsFollow'
  BY DEF IInv, JobsFollow, JobFollows, SubmitFollows, CallFollows, WriteFollows, RowFollows
<1> QED
  BY <1>1, <1>2, <1>3, <1>4, <1>5 DEF IInv

LEMMA PurgeStoppedOK == ASSUME IInv, PurgeStopped PROVE IInv'
<1> USE DEF PurgeStopped, CancelTasks, purges, posts, pool
<1>0. \A j \in Jobs : call'[j].asked = (call[j].asked \/ task[j] = "parsing")
  BY DEF IInv
<1>1. TypeOK'
  <2>1. ASSUME NEW j \in Jobs
        PROVE  [call[j] EXCEPT !.asked = @ \/ task[j] = "parsing"] \in Pool!Calls
    <3>1. call[j] \in Pool!Calls /\ call[j].asked \in BOOLEAN
      BY DEF IInv
    <3> QED
      BY <3>1, AskedCall
  <2>2. call' \in [Jobs -> Pool!Calls]
    BY <2>1
  <2>3. cancel' \subseteq Jobs /\ open' = open
    BY DEF IInv
  <2> QED
    BY <2>2, <2>3 DEF IInv
<1>2. PoolFollows'
  BY DEF IInv, PoolFollows, Pool!Running
<1>3. PurgerFollows' /\ PortFollows'
  BY DEF IInv, PurgerFollows, PortFollows
<1>4. TasksFollow'
  BY DEF TasksFollow, Live
<1>5. JobsFollow'
  <2>1. \A j \in Jobs : j \in cancel' <=> j \in cancel \/ Live(j)
    OBVIOUS
  <2> SUFFICES ASSUME NEW j \in Jobs PROVE JobFollows(j)'
    BY DEF JobsFollow
  <2>2. SubmitFollows(j)' /\ WriteFollows(j)' /\ RowFollows(j)'
    BY <2>1 DEF IInv, JobsFollow, JobFollows, SubmitFollows, WriteFollows, RowFollows
  <2>3. CallFollows(j)'
    BY <1>0, <2>1 DEF IInv, JobsFollow, JobFollows, CallFollows, Live
  <2> QED
    BY <2>2, <2>3 DEF JobFollows
<1> QED
  BY <1>1, <1>2, <1>3, <1>4, <1>5 DEF IInv

LEMMA RunnerStoppedOK == ASSUME IInv, RunnerStopped \/ RunnerRaises PROVE IInv'
<1> USE DEF RunnerStopped, RunnerRaises, ClosesPool, Pool!Closes, Faulty, purges, posts, jobs
<1>1. TypeOK'
  BY DEF IInv
<1>2. PoolFollows'
  BY DEF IInv, PoolFollows, Pool!Running
<1>3. PurgerFollows' /\ PortFollows'
  BY DEF IInv, PurgerFollows, PortFollows
<1>4. TasksFollow'
  BY DEF IInv, TasksFollow, Live
<1>5. JobsFollow'
  BY DEF IInv, JobsFollow, JobFollows, SubmitFollows, CallFollows, WriteFollows, RowFollows
<1> QED
  BY <1>1, <1>2, <1>3, <1>4, <1>5 DEF IInv

LEMMA PoolStoppedOK == ASSUME IInv, PoolStopped PROVE IInv'
<1> USE DEF PoolStopped, purges, posts, jobs
<1>0. /\ CallTypes' /\ open' = "closed" /\ Pool!Running' = {}
      /\ \A i \in Jobs : call'[i].asked = call[i].asked
  BY ClosedSteps DEF IInv, CallTypes
<1>1. TypeOK'
  BY <1>0 DEF IInv, CallTypes
<1>2. PoolFollows'
  BY <1>0 DEF PoolFollows
<1>3. PurgerFollows' /\ PortFollows'
  BY DEF IInv, PurgerFollows, PortFollows
<1>4. TasksFollow'
  BY DEF IInv, TasksFollow, Live
<1>5. JobsFollow'
  BY <1>0 DEF IInv, JobsFollow, JobFollows, SubmitFollows, CallFollows, WriteFollows, RowFollows
<1> QED
  BY <1>1, <1>2, <1>3, <1>4, <1>5 DEF IInv

LEMMA PurgeOK ==
    ASSUME IInv, PurgeBegins \/ PurgeEnds \/ PurgeCancelled \/ StrayPurge
    PROVE  IInv'
<1> USE DEF PurgeBegins, PurgeEnds, PurgeCancelled, StrayPurge, Deletes, purges, posts, jobs, pool
<1>1. TypeOK'
  BY DEF IInv
<1>2. PoolFollows'
  BY DEF IInv, PoolFollows, Pool!Running
<1>3. PurgerFollows' /\ PortFollows'
  BY DEF IInv, PurgerFollows, PortFollows
<1>4. TasksFollow'
  BY DEF IInv, TasksFollow, Live
<1>5. JobsFollow'
  BY DEF IInv, JobsFollow, JobFollows, SubmitFollows, CallFollows, WriteFollows, RowFollows
<1> QED
  BY <1>1, <1>2, <1>3, <1>4, <1>5 DEF IInv

LEMMA OutsideOK == ASSUME IInv, Works \/ PortChanges PROVE IInv'
<1>1. CASE Works
  <2> USE DEF Works, purges, posts, jobs
  <2>0. /\ CallTypes' /\ open' = open
        /\ \A i \in Jobs : call'[i].asked = call[i].asked
        /\ open = "closed" => Pool!Running' \subseteq Pool!Running
    BY <1>1, WorkerSteps DEF IInv, CallTypes
  <2>00. UNCHANGED <<phase, port, purger, purgeCancel, strays, submit, insert, row, task, cancel, write, boots, faults>>
    BY <1>1
  <2> HIDE DEF Works
  <2>1. TypeOK'
    BY <2>0, <2>00 DEF IInv, CallTypes
  <2>2. PoolFollows'
    BY <2>0, <2>00 DEF IInv, PoolFollows
  <2>3. PurgerFollows' /\ PortFollows' /\ TasksFollow'
    BY <2>00 DEF IInv, PurgerFollows, PortFollows, TasksFollow, Live
  <2>4. JobsFollow'
    BY <2>0, <2>00 DEF IInv, JobsFollow, JobFollows, SubmitFollows, CallFollows, WriteFollows, RowFollows
  <2> QED
    BY <2>1, <2>2, <2>3, <2>4 DEF IInv
<1>2. CASE PortChanges
  BY <1>2 DEF PortChanges, purges, posts, jobs, pool, IInv, PoolFollows, Pool!Running, PurgerFollows,
              PortFollows, TasksFollow, Live, JobsFollow, JobFollows, SubmitFollows, CallFollows, WriteFollows, RowFollows
<1> QED
  BY <1>1, <1>2

-----------------------------------------------------------------------------
\* The steps of one job: the other jobs and the lifespan notice nothing.

LEMMA OneJob ==
    ASSUME IInv, NEW j \in Jobs, TypeOK', open' = open,
           Pool!Running' \subseteq Pool!Running \/ open # "closed",
           UNCHANGED <<phase, port, purger, purgeCancel, cancel>>,
           \A i \in Jobs \ {j} : /\ submit'[i] = submit[i] /\ insert'[i] = insert[i]
                                /\ row'[i] = row[i] /\ task'[i] = task[i]
                                /\ write'[i] = write[i] /\ call'[i].asked = call[i].asked,
           phase \notin {"serving", "metrics", "purge"} => (Live(j)' => j \in cancel),
           SubmitFollows(j)', CallFollows(j)', WriteFollows(j)', RowFollows(j)'
    PROVE  IInv'
<1>1. PoolFollows'
  BY DEF IInv, PoolFollows
<1>2. PurgerFollows' /\ PortFollows'
  BY DEF IInv, PurgerFollows, PortFollows
<1>3. TasksFollow'
  BY DEF IInv, TasksFollow, Live
<1>4. \A i \in Jobs \ {j} : JobFollows(i)'
  BY DEF IInv, JobsFollow, JobFollows, SubmitFollows, CallFollows, WriteFollows, RowFollows
<1> QED
  BY <1>1, <1>2, <1>3, <1>4 DEF IInv, JobsFollow, JobFollows

\* The steps of the handler that submits the job.
LEMMA SubmitOK ==
    ASSUME IInv, NEW j \in Jobs,
           \/ SubmitBegins(j) \/ InsertLands(j) \/ InsertRaises(j)
           \/ SubmitEnds(j) \/ SubmitCancelled(j)
    PROVE  IInv'
<1> USE DEF SubmitBegins, InsertLands, InsertRaises, SubmitEnds, SubmitCancelled, HandsOff, Faulty,
            purges, posts, pool
<1>1. TypeOK'
  <2>1. submit' \in [Jobs -> {"none", "adding", "over", "cancelled"}]
    BY DEF IInv
  <2>2. insert' \in [Jobs -> {"none", "pending", "over"}] /\ faults' \in 0..MaxFaults
    BY DEF IInv
  <2>3. /\ row' \in [Jobs -> Incomplete \cup {"none", "settled"}]
        /\ write' \in [Jobs -> Verdicts \cup {"none", "running"}]
    BY DEF IInv
  <2>4. task' \in [Jobs -> {"none", "marking", "parsing", "recording", "rescuing", "ended", "unrecorded"}]
    BY DEF IInv
  <2> QED
    BY <2>1, <2>2, <2>3, <2>4 DEF IInv
<1>2. SubmitFollows(j)'
  BY DEF IInv, JobsFollow, JobFollows, SubmitFollows
<1>3. CallFollows(j)' /\ WriteFollows(j)'
  BY DEF IInv, JobsFollow, JobFollows, SubmitFollows, CallFollows, WriteFollows
<1>4. RowFollows(j)'
  BY DEF IInv, JobsFollow, JobFollows, SubmitFollows, CallFollows, RowFollows
<1>5. Pool!Running' \subseteq Pool!Running
  BY DEF Pool!Running
<1>6. phase \notin {"serving", "metrics", "purge"} => (Live(j)' => j \in cancel)
  BY DEF IInv, JobsFollow, JobFollows, SubmitFollows, TasksFollow, Live
<1> QED
  BY <1>1, <1>2, <1>3, <1>4, <1>5, <1>6, OneJob DEF IInv

\* What a transition makes of the row it finds.
LEMMA LandsOK ==
    ASSUME IInv, NEW j \in Jobs, Lands(j), write[j] # "none"
    PROVE  /\ row' \in [Jobs -> Incomplete \cup {"none", "settled"}]
           /\ \A i \in Jobs \ {j} : row'[i] = row[i]
           /\ ~Hits(j) => row'[j] = row[j]
           /\ Hits(j) /\ write[j] = "running" => row[j] = "queued" /\ row'[j] = "running"
           /\ Hits(j) /\ write[j] # "running" => row[j] \in Incomplete /\ row'[j] = "settled"
  BY DEF IInv, Lands, Hits

LEMMA MarkedOK == ASSUME IInv, NEW j \in Jobs, Marked(j) PROVE IInv'
<1>0. /\ task[j] = "marking" /\ write[j] = "running" /\ j \notin cancel /\ Lands(j)
      /\ UNCHANGED <<phase, port, purger, purgeCancel, strays, submit, insert, cancel, boots, faults>>
  BY DEF Marked, purges, posts
<1>1. phase \in {"serving", "metrics", "purge"} /\ open = "open"
  BY <1>0 DEF IInv, TasksFollow, PoolFollows, Live
<1>2. CASE ~Hits(j) /\ Leaves(j) /\ UNCHANGED pool
  <2> USE DEF Leaves, pool
  <2>1. TypeOK'
    BY <1>0, <1>2, LandsOK DEF IInv
  <2>2. SubmitFollows(j)' /\ CallFollows(j)' /\ WriteFollows(j)' /\ RowFollows(j)'
    BY <1>0, <1>2, LandsOK DEF IInv, JobsFollow, JobFollows, SubmitFollows, CallFollows, WriteFollows, RowFollows, Hits
  <2> QED
    BY <1>0, <1>1, <1>2, <2>1, <2>2, LandsOK, OneJob DEF IInv
<1>3. CASE /\ Hits(j) /\ Pool!Begins(j) /\ task' = [task EXCEPT ![j] = "parsing"]
           /\ write' = [write EXCEPT ![j] = "none"]
  <2>1. /\ CallTypes' /\ open' = open
        /\ \A i \in Jobs : call'[i].asked = call[i].asked
    BY <1>3, OneCall DEF IInv, CallTypes
  <2>2. TypeOK'
    <3>1. row' \in [Jobs -> Incomplete \cup {"none", "settled"}]
      BY <1>0, LandsOK
    <3>2. /\ task' \in [Jobs -> {"none", "marking", "parsing", "recording", "rescuing", "ended", "unrecorded"}]
          /\ write' \in [Jobs -> Verdicts \cup {"none", "running"}]
      BY <1>3 DEF IInv
    <3> QED
      BY <1>0, <2>1, <3>1, <3>2 DEF IInv, CallTypes
  <2>3. SubmitFollows(j)' /\ CallFollows(j)' /\ WriteFollows(j)' /\ RowFollows(j)'
    BY <1>0, <1>3, <2>1, LandsOK DEF IInv, JobsFollow, JobFollows, SubmitFollows, CallFollows, WriteFollows, RowFollows
  <2> QED
    BY <1>0, <1>1, <1>3, <2>1, <2>2, <2>3, LandsOK, OneJob DEF IInv
<1> QED
  BY <1>1, <1>2, <1>3 DEF Marked, Pool!Refuses

LEMMA RecordedOK == ASSUME IInv, NEW j \in Jobs, Recorded(j) PROVE IInv'
<1> USE DEF Recorded, Leaves, purges, posts, pool
<1>1. TypeOK'
  BY LandsOK DEF IInv
<1>2. SubmitFollows(j)' /\ CallFollows(j)' /\ WriteFollows(j)'
  BY DEF IInv, JobsFollow, JobFollows, SubmitFollows, CallFollows, WriteFollows
<1>3. RowFollows(j)'
  BY LandsOK DEF IInv, JobsFollow, JobFollows, WriteFollows, RowFollows, Hits
<1>4. Pool!Running' \subseteq Pool!Running
  BY DEF Pool!Running
<1> QED
  BY <1>1, <1>2, <1>3, <1>4, LandsOK, OneJob DEF IInv, Live

LEMMA RaisesOK == ASSUME IInv, NEW j \in Jobs, TransitionRaises(j) PROVE IInv'
<1> USE DEF TransitionRaises, Faulty, purges, posts, pool
<1>1. TypeOK'
  <2>1. task' \in [Jobs -> {"none", "marking", "parsing", "recording", "rescuing", "ended", "unrecorded"}]
    BY DEF IInv
  <2>2. write' \in [Jobs -> Verdicts \cup {"none", "running"}] /\ faults' \in 0..MaxFaults
    BY DEF IInv
  <2> QED
    BY <2>1, <2>2 DEF IInv
<1>2. SubmitFollows(j)' /\ CallFollows(j)' /\ WriteFollows(j)' /\ RowFollows(j)'
  BY DEF IInv, JobsFollow, JobFollows, SubmitFollows, CallFollows, WriteFollows, RowFollows
<1>3. Pool!Running' \subseteq Pool!Running
  BY DEF Pool!Running
<1>4. Live(j)
  BY DEF Live
<1> QED
  BY <1>1, <1>2, <1>3, <1>4, OneJob DEF IInv, TasksFollow, Live

LEMMA LandsLateOK == ASSUME IInv, NEW j \in Jobs, LandsLate(j) PROVE IInv'
<1> USE DEF LandsLate, purges, posts, pool
<1>1. TypeOK'
  BY LandsOK DEF IInv
<1>2. SubmitFollows(j)' /\ CallFollows(j)' /\ WriteFollows(j)'
  BY DEF IInv, JobsFollow, JobFollows, SubmitFollows, CallFollows, WriteFollows
<1>3. RowFollows(j)'
  BY LandsOK DEF IInv, JobsFollow, JobFollows, SubmitFollows, CallFollows, RowFollows, Hits
<1>4. Pool!Running' \subseteq Pool!Running
  BY DEF Pool!Running
<1> QED
  BY <1>1, <1>2, <1>3, <1>4, LandsOK, OneJob DEF IInv, TasksFollow, Live

\* Where the pool is not open, every parse was asked to end and none answers.
LEMMA AnswerWhileOpen ==
    ASSUME IInv, NEW j \in Jobs, task[j] = "parsing", Pool!Answers(j)
    PROVE  /\ phase \in {"serving", "metrics", "purge"} /\ open = "open"
           /\ j \notin cancel
           /\ call'[j].outcome \in {"document", "unparseable", "timeout", "crashed"}
<1>1. ~call[j].asked
  BY DEF Pool!Answers
<1>2. j \notin cancel
  BY <1>1 DEF IInv, JobsFollow, JobFollows, SubmitFollows, CallFollows
<1>3. phase \in {"serving", "metrics", "purge"} /\ open = "open"
  BY <1>2 DEF IInv, TasksFollow, PoolFollows, Live
<1>4. call'[j].outcome \in {"document", "unparseable", "timeout", "crashed"}
  BY DEF IInv, Pool!Answers
<1> QED
  BY <1>2, <1>3, <1>4

LEMMA ParsedOK == ASSUME IInv, NEW j \in Jobs, Parsed(j) PROVE IInv'
<1> USE DEF Parsed, Records, purges, posts
<1>1. /\ CallTypes' /\ open' = open
      /\ \A i \in Jobs : call'[i].asked = call[i].asked
  BY OneCall DEF IInv, CallTypes
<1>2. TypeOK'
  BY <1>1, AnswerWhileOpen DEF IInv, CallTypes
<1>3. SubmitFollows(j)' /\ CallFollows(j)' /\ WriteFollows(j)' /\ RowFollows(j)'
  BY <1>1, AnswerWhileOpen DEF IInv, JobsFollow, JobFollows, SubmitFollows, CallFollows, WriteFollows, RowFollows
<1> QED
  BY <1>1, <1>2, <1>3, AnswerWhileOpen, OneJob DEF IInv

LEMMA TaskCancelledOK == ASSUME IInv, NEW j \in Jobs, TaskCancelled(j) PROVE IInv'
<1> USE DEF TaskCancelled, purges, posts
<1>1. /\ CallTypes' /\ open' = open
      /\ \A i \in Jobs : call'[i].asked = call[i].asked
      /\ Pool!Running' \subseteq Pool!Running
  <2>1. CASE Pool!Cancels(j)
    BY <2>1, OneCall DEF IInv, CallTypes
  <2>2. CASE UNCHANGED pool
    BY <2>2 DEF IInv, CallTypes, pool, Pool!Running
  <2> QED
    BY <2>1, <2>2
<1>2. TypeOK'
  BY <1>1 DEF IInv, CallTypes
<1>3. SubmitFollows(j)' /\ CallFollows(j)' /\ WriteFollows(j)'
  BY <1>1 DEF IInv, JobsFollow, JobFollows, SubmitFollows, CallFollows, WriteFollows, Live
<1>4. phase = "serving" => j \in cancel
  BY DEF IInv, JobsFollow, JobFollows, SubmitFollows, CallFollows, PoolFollows, Pool!Cancels
<1>5. RowFollows(j)'
  BY <1>4 DEF IInv, JobsFollow, JobFollows, RowFollows
<1> QED
  BY <1>1, <1>2, <1>3, <1>5, OneJob DEF IInv, Live

LEMMA StepOK == ASSUME IInv, [Next]_vars PROVE IInv'
<1>1. CASE UNCHANGED vars
  BY <1>1 DEF vars, purges, posts, jobs, pool, IInv, PoolFollows, Pool!Running, PurgerFollows, PortFollows,
              TasksFollow, Live, JobsFollow, JobFollows, SubmitFollows, CallFollows, WriteFollows, RowFollows
<1>2. CASE Next
  BY <1>2, StartupOK, StopOK, PurgeStoppedOK, RunnerStoppedOK, PoolStoppedOK, PurgeOK, OutsideOK,
     SubmitOK, MarkedOK, RecordedOK, RaisesOK, LandsLateOK, ParsedOK, TaskCancelledOK
     DEF Next, Startup, Teardown
<1> QED
  BY <1>1, <1>2

-----------------------------------------------------------------------------
\* The invariant of startup, shutdown and jobs: who may still run, land or
\* record what in each phase, and whom the runner has told to end.
THEOREM Invariant == Spec => []IInv
  BY InitOK, StepOK, PTL DEF Spec

\* No lifespan, however it ended, leaves a worker, a purge task, the metrics
\* port or an unwarned task behind.
THEOREM LeavesNothing == Spec => []NothingOutlives
<1>1. IInv => NothingOutlives
  BY DEF IInv, PoolFollows, PurgerFollows, PortFollows, TasksFollow, NothingOutlives
<1> QED
  BY <1>1, Invariant, PTL

\* The sweep misses no job of the last lifespan, and nothing that lands late
\* takes one back: every row that is not over has its task or its handler, but
\* for the jobs whose submission was cancelled or whose outcome could not be
\* recorded at all.
THEOREM SweepMissesNone == Spec => []ServingOwnsIncomplete
<1>1. IInv => ServingOwnsIncomplete
  BY DEF IInv, JobsFollow, JobFollows, SubmitFollows, RowFollows, ServingOwnsIncomplete, Live
<1> QED
  BY <1>1, Invariant, PTL

\* No step records a crash or an internal error while the pool is closing or
\* closed: a shutdown's victims are left to the next sweep.
THEOREM BlamesNoJob == Spec => ShutdownBlamesNoJob
<1> DEFINE Blames == \E j \in Jobs : write'[j] \in {"crashed", "internal"} /\ write[j] # write'[j]
<1>1. ASSUME IInv, Next, Blames PROVE open = "open"
  <2>1. PICK j \in Jobs : write'[j] \in {"crashed", "internal"} /\ write[j] # write'[j]
    BY <1>1
  <2> DEFINE Writes(i) == \/ SubmitEnds(i) \/ SubmitCancelled(i) \/ Marked(i) \/ Recorded(i)
                          \/ TransitionRaises(i) \/ LandsLate(i) \/ Parsed(i)
  <2>2. \E i \in Jobs : Writes(i)
    BY <1>1, <2>1 DEF Next, Boot, Startup, SweepRaises, Serve, BindFails, Creates, Stop, CancelsPurge,
                      Teardown, MetricsStopped, PurgeStopped, CancelTasks, RunnerStopped, RunnerRaises,
                      ClosesPool, PoolStopped, PurgeBegins, PurgeEnds, PurgeCancelled, StrayPurge,
                      SubmitBegins, InsertLands, InsertRaises, TaskCancelled, Works, PortChanges, jobs
  <2>3. PICK i \in Jobs : Writes(i)
    BY <2>2
  <2>4. CASE SubmitEnds(i) \/ SubmitCancelled(i)
    BY <2>1, <2>4, <1>1 DEF SubmitEnds, SubmitCancelled, HandsOff, IInv
  <2>5. CASE Marked(i) \/ TransitionRaises(i)
    BY <2>5, <1>1 DEF Marked, TransitionRaises, IInv, TasksFollow, PoolFollows, Live
  <2>6. CASE Recorded(i) \/ LandsLate(i)
    BY <2>1, <2>6, <1>1 DEF Recorded, LandsLate, Leaves, IInv
  <2>7. CASE Parsed(i)
    BY <2>7, <1>1, AnswerWhileOpen DEF Parsed
  <2> QED
    BY <2>3, <2>4, <2>5, <2>6, <2>7
<1>2. IInv /\ [Next]_vars => [Blames => open = "open"]_vars
  BY <1>1
<1>3. [][Blames => open = "open"]_vars => ShutdownBlamesNoJob
  <2>1. [Blames => open = "open"]_vars =>
          [\A j \in Jobs : write'[j] \in {"crashed", "internal"} /\ write[j] # write'[j] =>
              open = "open"]_vars
    OBVIOUS
  <2> QED
    BY <2>1, PTL DEF ShutdownBlamesNoJob
<1> QED
  BY <1>2, <1>3, Invariant, PTL DEF Spec
=============================================================================
