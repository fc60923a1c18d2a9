--------------------------- MODULE JobRunnerProofs --------------------------
(***************************************************************************)
(* What JobRunner.tla promises for every set of jobs and every bound: its   *)
(* state has the types it declares, and whatever its coroutines, threads,   *)
(* crashes and restarts do to the store is what the store allows; and every *)
(* incomplete row and every upload has an owner, through cancellations at   *)
(* any await, abandoned calls, store errors, crashes and restarts.          *)
(***************************************************************************)
EXTENDS JobRunner, TLAPS

\* What a performed call does to the store, and what it leaves of the types.
LEMMA PerformMoves ==
    ASSUME NEW op \in Ops, NEW j \in Jobs, NEW arg \in ArgsOf(op), Perform(op, j, arg)
    PROVE  Store!Next
<1>1. CASE op = "add"
  BY <1>1 DEF Perform, Store!Next, ArgsOf
<1>2. CASE op = "mark_running"
  BY <1>2 DEF Perform, Store!Next
<1>3. CASE op = "mark_done"
  BY <1>3 DEF Perform, Store!Next, ArgsOf
<1>4. CASE op = "mark_failed"
  BY <1>4 DEF Perform, Store!Next, ArgsOf
<1>5. CASE op = "delete"
  BY <1>5 DEF Perform, Store!Next, ArgsOf
<1> QED
  BY <1>1, <1>2, <1>3, <1>4, <1>5 DEF Ops

\* Awaiting, replying and resuming keep every awaited call well formed.
LEMMA AwaitOK ==
    ASSUME call \in [Callers -> Calls], NEW c \in Callers,
           NEW op \in Ops, NEW arg \in ArgsOf(op)
    PROVE  Await(c, op, arg) \in [Callers -> Calls]
<1>1. arg \in Args
  BY DEF Ops, Args, ArgsOf
<1>2. [op |-> op, arg |-> arg, reply |-> "pending"] \in Calls
  BY <1>1 DEF Calls, Replies, Ops
<1> QED
  BY <1>2 DEF Await

LEMMA ReplyOK ==
    ASSUME call \in [Callers -> Calls], NEW c \in Callers, Replied(c, {"pending"}),
           NEW reply \in {"hit", "miss", "error"}
    PROVE  [call EXCEPT ![c].reply = reply] \in [Callers -> Calls]
<1>1. call[c] \in Calls
  OBVIOUS
<1>2. [call[c] EXCEPT !.reply = reply] \in Calls
  BY <1>1 DEF Calls, Replies, Replied
<1> QED
  BY <1>2

LEMMA ResumedOK ==
    ASSUME call \in [Callers -> Calls], NEW c \in Callers
    PROVE  Resumed(c) \in [Callers -> Calls]
<1>1. NoCall \in Calls
  BY DEF NoCall, Calls, Replies, Args, ArgsOf
<1> QED
  BY <1>1 DEF Resumed

\* An abandoned call that may still execute is one the store can perform.
LEMMA AbandonedOK ==
    ASSUME call \in [Callers -> Calls], late \subseteq LateCalls, NEW c \in Callers,
           NEW L \in Abandoned(c)
    PROVE  L \subseteq LateCalls
<1>1. CASE Replied(c, {"pending"})
  <2>1. call[c] \in Calls /\ call[c].reply = "pending" /\ c[1] \in Jobs
    BY <1>1 DEF Replied, Callers
  <2>2. call[c].op \in Ops /\ call[c].arg \in Args /\ call[c].arg \in ArgsOf(call[c].op)
    BY <2>1 DEF Calls
  <2>3. [job |-> c[1], op |-> call[c].op, arg |-> call[c].arg] \in LateCalls
    BY <2>1, <2>2 DEF LateCalls
  <2> QED
    BY <1>1, <2>3 DEF Abandoned
<1>2. CASE ~Replied(c, {"pending"})
  BY <1>2 DEF Abandoned
<1> QED
  BY <1>1, <1>2

-----------------------------------------------------------------------------
\* The state of the process has its types, and a call is only ever performed
\* with an argument its method takes, however late that is.  The store's part of
\* TypeOK follows below from the store's own theorem.
THEOREM ProcessTypeCorrect == Spec => []ProcessOK
<1>1. Init => ProcessOK
  BY BoundsAssumption DEF Init, ProcessOK, NoCall, Calls, Replies, Args, ArgsOf
<1>2. ProcessOK /\ [Next]_vars => ProcessOK'
  <2> SUFFICES ASSUME ProcessOK, [Next]_vars
               PROVE  ProcessOK'
    OBVIOUS
  <2> USE BoundsAssumption DEF ProcessOK, handlers, process
  <2>0. \A j \in Jobs, r \in Roles : <<j, r>> \in Callers
    BY DEF Callers
  <2>1. ASSUME NEW c \in Callers, Execute(c)
        PROVE  ProcessOK'
    <3>1. call' \in [Callers -> Calls]
      BY <2>1, ReplyOK DEF Execute
    <3> QED
      BY <2>1, <3>1 DEF Execute
  <2>2. ASSUME NEW c \in Callers, ExecuteFails(c)
        PROVE  ProcessOK'
    <3>1. call' \in [Callers -> Calls]
      BY <2>2, ReplyOK DEF ExecuteFails
    <3> QED
      BY <2>2, <3>1 DEF ExecuteFails
  <2>3. ASSUME NEW l \in late, ExecuteLate(l)
        PROVE  ProcessOK'
    BY <2>3 DEF ExecuteLate
  <2>4. ASSUME NEW j \in Jobs, NEW t \in Tokens, SubmitBegin(j, t)
        PROVE  ProcessOK'
    <3>1. call' \in [Callers -> Calls]
      BY <2>0, <2>4, AwaitOK DEF SubmitBegin, Ops, ArgsOf, Roles
    <3> QED
      BY <2>4, <3>1 DEF SubmitBegin
  <2>5. ASSUME NEW j \in Jobs, NEW end \in {"accepted", "failed", "cancelled"},
               HandOff(j, end), late' \in Abandoned(<<j, "submit">>) \/ late' = late
        PROVE  ProcessOK'
    <3>1. call' \in [Callers -> Calls] /\ late' \subseteq LateCalls
      BY <2>0, <2>5, ResumedOK, AbandonedOK DEF HandOff, Roles
    <3> QED
      BY <2>5, <3>1 DEF HandOff
  <2>6. ASSUME NEW j \in Jobs, NEW from, NEW to \in {"marking", "recording", "rescuing"},
               NEW op \in Ops, NEW arg \in ArgsOf(op), TaskAwaits(j, from, to, op, arg)
        PROVE  ProcessOK'
    <3>1. call' \in [Callers -> Calls]
      BY <2>0, <2>6, AwaitOK DEF TaskAwaits, Roles
    <3> QED
      BY <2>6, <3>1 DEF TaskAwaits
  <2>7. ASSUME NEW j \in Jobs, NEW from, NEW S, NEW end \in {"ended", "unrecorded"},
               TaskEnds(j, from, S, end)
        PROVE  ProcessOK'
    <3>1. call' \in [Callers -> Calls]
      BY <2>0, <2>7, ResumedOK DEF TaskEnds, Roles
    <3> QED
      BY <2>7, <3>1 DEF TaskEnds
  <2>8. ASSUME NEW j \in Jobs, TaskParses(j)
        PROVE  ProcessOK'
    <3>1. call' \in [Callers -> Calls]
      BY <2>0, <2>8, ResumedOK DEF TaskParses, Roles
    <3> QED
      BY <2>8, <3>1 DEF TaskParses
  <2>9. ASSUME NEW j \in Jobs, TaskCancelled(j)
        PROVE  ProcessOK'
    <3>1. call' \in [Callers -> Calls] /\ late' \subseteq LateCalls
      BY <2>0, <2>9, ResumedOK, AbandonedOK DEF TaskCancelled, Roles
    <3> QED
      BY <2>9, <3>1 DEF TaskCancelled
  <2>10. ASSUME NEW j \in Jobs, TaskNeverRuns(j)
         PROVE  ProcessOK'
    BY <2>10 DEF TaskNeverRuns
  <2>11. ASSUME NEW j \in Jobs, NEW t \in Tokens, DeleteBegin(j, t)
         PROVE  ProcessOK'
    <3>1. call' \in [Callers -> Calls]
      BY <2>0, <2>11, AwaitOK DEF DeleteBegin, Ops, ArgsOf, Roles
    <3> QED
      BY <2>11, <3>1 DEF DeleteBegin
  <2>12. ASSUME NEW j \in Jobs, DeleteEnds(j)
         PROVE  ProcessOK'
    <3>1. call' \in [Callers -> Calls] /\ late' \subseteq LateCalls
      BY <2>0, <2>12, ResumedOK, AbandonedOK
      DEF DeleteEnds, DeleteHit, DeleteMissed, DeleteAbandoned, Roles
    <3>2. cancel' \in [Jobs -> BOOLEAN]
      <4>1. CASE DeleteHit(j)
        <5>1. Live(j) \in BOOLEAN
          BY DEF Live
        <5> QED
          BY <4>1, <5>1 DEF DeleteHit
      <4>2. CASE DeleteMissed(j) \/ DeleteAbandoned(j)
        BY <4>2 DEF DeleteMissed, DeleteAbandoned
      <4> QED
        BY <2>12, <4>1, <4>2 DEF DeleteEnds
    <3> QED
      BY <2>12, <3>1, <3>2 DEF DeleteEnds, DeleteHit, DeleteMissed, DeleteAbandoned
  <2>13. CASE Purge
    BY <2>13 DEF Purge
  <2>14. CASE Shutdown
    BY <2>14 DEF Shutdown, Live
  <2>15. CASE Exit \/ Crash
    <3>1. call' \in [Callers -> Calls]
      BY <2>15 DEF Exit, Crash, ProcessEnds, NoCall, Calls, Replies, Args, ArgsOf
    <3>2. /\ submit' \in [Jobs -> {"none", "adding", "accepted", "failed", "cancelled", "lost"}]
          /\ task' \in [Jobs -> {"none", "lost"}]
          /\ cancel' \in [Jobs -> BOOLEAN]
      BY <2>15 DEF Exit, Crash, ProcessEnds
    <3>3. stops' \in 0..MaxStops
      BY <2>15 DEF Exit, Crash
    <3>4. phase' = "down" /\ late' = {} /\ UNCHANGED <<file, wiped, errors>>
      BY <2>15 DEF Exit, Crash, ProcessEnds
    <3> QED
      BY <3>1, <3>2, <3>3, <3>4
  <2>16. CASE BootSweep \/ BootWipe \/ BootWipeFails
    <3>1. CASE BootSweep
      BY <3>1 DEF BootSweep
    <3>2. CASE BootWipe
      BY <3>2 DEF BootWipe
    <3>3. CASE BootWipeFails
      <4>1. file' \in [Jobs -> BOOLEAN] /\ errors' \in 0..MaxErrors
        BY <3>3 DEF BootWipeFails
      <4> QED
        BY <3>3, <4>1 DEF BootWipeFails
    <3> QED
      BY <2>16, <3>1, <3>2, <3>3
  <2>17. CASE UNCHANGED vars
    BY <2>17 DEF vars
  <2>18. ASSUME NEW j \in Jobs, SubmitEnds(j)
         PROVE  ProcessOK'
    BY <2>5, <2>18 DEF SubmitEnds, SubmitAccepted, SubmitFailed, SubmitCancelled
  <2>19. ASSUME NEW j \in Jobs, TaskSteps(j)
         PROVE  ProcessOK'
    <3>1. ASSUME TaskStarts(j) \/ ParseSucceeds(j) \/ ParseFails(j) \/ TaskRescues(j)
          PROVE  ProcessOK'
      BY <2>6, <3>1, DetailsAssumption
      DEF TaskStarts, ParseSucceeds, ParseFails, TaskRescues, Ops, ArgsOf
    <3>2. ASSUME TaskSkips(j) \/ TaskRecorded(j) \/ TaskRescued(j)
          PROVE  ProcessOK'
      BY <2>7, <3>2 DEF TaskSkips, TaskRecorded, TaskRescued
    <3> QED
      BY <2>8, <2>9, <2>10, <2>19, <3>1, <3>2 DEF TaskSteps
  <2> HIDE DEF ProcessOK
  <2> QED
    BY <2>1, <2>2, <2>3, <2>4, <2>11, <2>12, <2>13, <2>14, <2>15, <2>16, <2>17, <2>18, <2>19
    DEF Next
<1> QED
  BY <1>1, <1>2, PTL DEF Spec

-----------------------------------------------------------------------------
\* Whatever handlers, tasks, abandoned calls, the purge, crashes and startups do
\* to the jobs table is a sequence of the store's own method calls.
LEMMA ImplementsStore == Spec => Store!Spec
<1>1. Init => Store!Init
  BY DEF Init
<1>2. ProcessOK /\ [Next]_vars => [Store!Next]_(Store!vars)
  <2> SUFFICES ASSUME ProcessOK, [Next]_vars
               PROVE  Store!Next \/ UNCHANGED Store!vars
    OBVIOUS
  <2> USE DEF Store!vars
  <2>1. ASSUME NEW c \in Callers, Execute(c)
        PROVE  Store!Next
    <3>1. call[c] \in Calls /\ call[c].reply = "pending" /\ c[1] \in Jobs
      BY <2>1 DEF Execute, Replied, ProcessOK, Callers
    <3>2. call[c].op \in Ops /\ call[c].arg \in ArgsOf(call[c].op)
      BY <3>1 DEF Calls
    <3> QED
      BY <2>1, <3>1, <3>2, PerformMoves DEF Execute
  <2>2. ASSUME NEW l \in late, ExecuteLate(l)
        PROVE  Store!Next
    <3>1. l.job \in Jobs /\ l.op \in Ops /\ l.arg \in ArgsOf(l.op)
      BY DEF ProcessOK, LateCalls
    <3> QED
      BY <2>2, <3>1, PerformMoves DEF ExecuteLate
  <2>3. ASSUME NEW c \in Callers, ExecuteFails(c)
        PROVE  UNCHANGED Store!vars
    BY <2>3 DEF ExecuteFails
  <2>4. ASSUME NEW j \in Jobs, NEW t \in Tokens, SubmitBegin(j, t) \/ DeleteBegin(j, t)
        PROVE  UNCHANGED Store!vars
    BY <2>4 DEF SubmitBegin, DeleteBegin
  <2>5. ASSUME NEW j \in Jobs, SubmitEnds(j) \/ DeleteEnds(j)
        PROVE  UNCHANGED Store!vars
    BY <2>5 DEF SubmitEnds, SubmitAccepted, SubmitFailed, SubmitCancelled, HandOff,
                DeleteEnds, DeleteHit, DeleteMissed, DeleteAbandoned
  <2>6. ASSUME NEW j \in Jobs, TaskSteps(j)
        PROVE  UNCHANGED Store!vars
    BY <2>6 DEF TaskSteps, TaskStarts, TaskSkips, TaskParses, ParseSucceeds, ParseFails,
                TaskRecorded, TaskRescues, TaskRescued, TaskCancelled, TaskNeverRuns,
                TaskAwaits, TaskEnds
  <2>7. CASE Purge
    BY <2>7 DEF Purge, Store!Next
  <2>8. CASE BootSweep
    BY <2>8, DetailsAssumption DEF BootSweep, Store!Next
  <2>9. CASE Shutdown \/ Exit \/ Crash \/ BootWipe \/ BootWipeFails \/ UNCHANGED vars
    BY <2>9 DEF Shutdown, Exit, Crash, ProcessEnds, BootWipe, BootWipeFails, vars
  <2> QED
    BY <2>1, <2>2, <2>3, <2>4, <2>5, <2>6, <2>7, <2>8, <2>9 DEF Next
<1> QED
  BY <1>1, <1>2, ProcessTypeCorrect, PTL DEF Spec, Store!Spec

-----------------------------------------------------------------------------
\* What is proved of the store holds of the whole machinery: StoreFacts states
\* JobStore's theorems, of definitions equal to those of Store.  The readers
\* JobStoreProofs covers as well have no part here: none asks, none is told.
StoreFacts == INSTANCE JobStoreProofs
    WITH Requests <- {}, found <- <<>>, fetching <- {}, told <- {}

LEMMA SameRow == Store!Row = StoreFacts!Row
  BY DEF Store!Row, StoreFacts!Row, Store!JobStatus, StoreFacts!JobStatus

LEMMA StoreAssumed ==
    /\ Null \notin StoreFacts!Row
    /\ Times \subseteq Nat
    /\ Null \notin Documents \cup Details
  BY SameRow, StoreAssumptions

LEMMA BehavesAsStore == Spec => StoreFacts!Spec
<1>1. Store!Init => StoreFacts!Init
  BY DEF Store!Init, StoreFacts!Init
<1>2. [Store!Next]_(Store!vars) => [StoreFacts!Next]_(StoreFacts!vars)
  BY Zenon
  DEF Store!Next, Store!vars, Store!Add, Store!NewRow, Store!MarkRunning,
      Store!MarkRunningHits, Store!MarkDone, Store!MarkDoneHits, Store!MarkFailed,
      Store!FailRows, Store!Failed, Store!Incomplete, Store!SweepIncomplete,
      Store!Delete, Store!DeleteHits, Store!DropRows, Store!PurgeOlderThan,
      Store!Expired, Store!Owned, Store!InStatus, Store!Stored, StoreFacts!Next,
      StoreFacts!vars, StoreFacts!Add, StoreFacts!NewRow, StoreFacts!MarkRunning,
      StoreFacts!MarkRunningHits, StoreFacts!MarkDone, StoreFacts!MarkDoneHits,
      StoreFacts!MarkFailed, StoreFacts!FailRows, StoreFacts!Failed,
      StoreFacts!Incomplete, StoreFacts!SweepIncomplete, StoreFacts!Delete,
      StoreFacts!DeleteHits, StoreFacts!DropRows, StoreFacts!PurgeOlderThan,
      StoreFacts!Expired, StoreFacts!Owned, StoreFacts!InStatus, StoreFacts!Stored
<1> QED
  BY <1>1, <1>2, ImplementsStore, PTL DEF Store!Spec, StoreFacts!Spec

\* The table keeps the types of its schema, and the process its own.
THEOREM TypeCorrect == Spec => []TypeOK
<1>1. StoreFacts!Spec => []StoreFacts!TypeOK
  BY StoreAssumed, StoreFacts!TypeCorrect
<1>2. StoreFacts!TypeOK => Store!TypeOK
  BY SameRow DEF Store!TypeOK, StoreFacts!TypeOK
<1> QED
  BY <1>1, <1>2, ProcessTypeCorrect, BehavesAsStore, PTL DEF TypeOK

\* Whatever the handlers, tasks, threads and restarts do, every row stays one
\* its readers accept, and no late call brings a deleted job back.
THEOREM RowsCorrect == Spec => [](Store!RowsCoherent /\ Store!NoResurrection)
<1>1. StoreFacts!Spec => [](StoreFacts!RowsCoherent /\ StoreFacts!NoResurrection)
  BY StoreAssumed, StoreFacts!RowsCorrect
<1>2. StoreFacts!RowsCoherent => Store!RowsCoherent
  BY DEF StoreFacts!RowsCoherent, Store!RowsCoherent, StoreFacts!RowCoherent,
         Store!RowCoherent, StoreFacts!Stored, Store!Stored
<1>3. StoreFacts!NoResurrection => Store!NoResurrection
  BY DEF StoreFacts!NoResurrection, Store!NoResurrection, StoreFacts!Stored, Store!Stored
<1> QED
  BY <1>1, <1>2, <1>3, BehavesAsStore, PTL

\* What is proved of the store's abstraction holds of the machinery, too: in the
\* eyes of a client, each job is accepted, started and settled once and in that
\* order, and forgotten for good, through late calls, crashes and restarts.
THEOREM ImplementsLifecycle == Spec => Store!KeepsLifecycle
<1> DEFINE Facts == [j \in Jobs |-> [status  |-> StoreFacts!StatusOf(j),
                                     outcome |-> StoreFacts!OutcomeOf(j)]]
           Seen == [j \in Jobs |-> [status |-> Store!StatusOf(j), outcome |-> Store!OutcomeOf(j)]]
<1>1. Facts = Seen
  BY DEF StoreFacts!StatusOf, Store!StatusOf, StoreFacts!OutcomeOf, Store!OutcomeOf,
         StoreFacts!Stored, Store!Stored, StoreFacts!InStatus, Store!InStatus
<1>2. Facts' = Seen'
  BY DEF StoreFacts!StatusOf, Store!StatusOf, StoreFacts!OutcomeOf, Store!OutcomeOf,
         StoreFacts!Stored, Store!Stored, StoreFacts!InStatus, Store!InStatus
<1>3. StoreFacts!Lifecycle!Init => Store!Lifecycle!Init
  BY <1>1 DEF StoreFacts!Lifecycle!Init, Store!Lifecycle!Init
<1>4. \A S, From, To, o :
          StoreFacts!Lifecycle!Move(S, From, To, o) => Store!Lifecycle!Move(S, From, To, o)
  BY <1>1, <1>2 DEF StoreFacts!Lifecycle!Move, Store!Lifecycle!Move
<1>5. [StoreFacts!Lifecycle!Next]_Facts => [Store!Lifecycle!Next]_Seen
  BY <1>1, <1>2, <1>4
  DEF StoreFacts!Lifecycle!Next, StoreFacts!Lifecycle!Accept, StoreFacts!Lifecycle!Start,
      StoreFacts!Lifecycle!Finish, StoreFacts!Lifecycle!Fail, StoreFacts!Lifecycle!Forget,
      Store!Lifecycle!Next, Store!Lifecycle!Accept, Store!Lifecycle!Start,
      Store!Lifecycle!Finish, Store!Lifecycle!Fail, Store!Lifecycle!Forget
<1>6. StoreFacts!Spec => StoreFacts!KeepsLifecycle
  BY StoreAssumed, StoreFacts!ImplementsLifecycle
<1> QED
  BY <1>3, <1>5, <1>6, BehavesAsStore, PTL
  DEF StoreFacts!KeepsLifecycle, Store!KeepsLifecycle, StoreFacts!Lifecycle!Spec,
      Store!Lifecycle!Spec

-----------------------------------------------------------------------------
\* The inductive invariant behind the ownership of rows and uploads, job by job.

Idle(c)        == call[c].op = "none"
LateOf(j)      == {l \in late : l.job = j}
Late(j, S)     == \E l \in LateOf(j) : l.op \in S
Marks          == {"mark_running", "mark_done", "mark_failed"}
Gone(j)        == j \in purged
Open(j)        == Store!InStatus(j, {"queued", "running"})
Began(j)       == Store!Stored(j) \/ Gone(j)
TaskReplied(j, S) == Replied(<<j, "task">>, S)

\* Every coroutine awaits the call its program counter says, or none; nothing
\* is awaited, and nothing is late, before the process serves.
CallsInv(j) ==
    /\ submit[j] = "adding" <=> ~Idle(<<j, "submit">>)
    /\ call[<<j, "submit">>].op \in {"none", "add"}
    /\ task[j] \in {"marking", "recording", "rescuing"} <=> ~Idle(<<j, "task">>)
    /\ task[j] = "marking" => call[<<j, "task">>].op = "mark_running"
    /\ task[j] = "recording" => call[<<j, "task">>].op \in {"mark_done", "mark_failed"}
    /\ task[j] = "rescuing" => call[<<j, "task">>].op = "mark_failed"
    /\ call[<<j, "delete">>].op \in {"none", "delete"}
    /\ \A r \in Roles : Idle(<<j, r>>) <=> Replied(<<j, r>>, {"none"})
    /\ Replied(<<j, "delete">>, {"hit"}) => Gone(j)
    /\ phase \in {"down", "wiping"} =>
          /\ \A r \in Roles : Idle(<<j, r>>)
          /\ ~Late(j, Ops)
          /\ submit[j] # "cancelled" /\ task[j] \in {"none", "lost"} /\ ~cancel[j]

\* A call outlives its awaiter only by a cancellation: the INSERT that of its
\* handler, once, and it is still to come, a transition that of its task.
LateInv(j) ==
    /\ Late(j, {"add"}) => submit[j] = "cancelled" /\ ~Began(j)
    /\ \A l, m \in LateOf(j) : l.op = "add" /\ m.op = "add" => l = m
    /\ Late(j, Marks) => task[j] = "ended"

\* What has become of the INSERT.
SubmitInv(j) ==
    /\ submit[j] = "none" => ~Began(j) /\ ~file[j] /\ Idle(<<j, "delete">>) /\ ~Late(j, Ops)
    /\ submit[j] = "adding" =>
          /\ ~Replied(<<j, "submit">>, {"miss"})
          /\ Replied(<<j, "submit">>, {"hit"}) <=> Began(j)
    /\ submit[j] = "accepted" => Began(j)
    /\ submit[j] = "failed" => ~Store!Stored(j)
    /\ submit[j] = "lost" => task[j] = "lost"
    /\ task[j] = "lost" => submit[j] # "cancelled"
    /\ task[j] = "none" <=> submit[j] \in {"none", "adding"}

\* The task has yet to learn that mark_running hit; it has, and has yet to
\* learn the fate of the outcome.
Untaken(j) ==
    \/ submit[j] = "adding"
    \/ task[j] = "created"
    \/ task[j] = "marking" /\ ~TaskReplied(j, {"hit"})

Working(j) ==
    \/ task[j] = "marking" /\ TaskReplied(j, {"hit"})
    \/ task[j] = "parsing"
    \/ task[j] = "recording" /\ TaskReplied(j, {"pending", "error"})

\* What the row is while the task is where it is.
RowInv(j) ==
    /\ Untaken(j) /\ Store!Stored(j) => Store!InStatus(j, {"queued"})
    /\ Working(j) => Store!InStatus(j, {"running"}) \/ Gone(j)
    /\ task[j] = "recording" /\ TaskReplied(j, {"miss"}) => Gone(j)
    /\ task[j] = "rescuing" /\ TaskReplied(j, {"pending", "error"}) /\ Store!Stored(j) => Open(j)
    /\ task[j] \in {"recording", "rescuing"} /\ TaskReplied(j, {"hit"}) => Settled(j)
    /\ Live(j) /\ TaskReplied(j, {"miss"}) => Gone(j) \/ submit[j] # "accepted"

\* What is left of a task that is over, or about to be cancelled.
EndInv(j) ==
    /\ phase = "serving" /\ cancel[j] => Gone(j)
    /\ phase = "serving" /\ task[j] = "neverRan" => Gone(j)
    /\ phase = "serving" /\ task[j] = "ended" /\ submit[j] # "cancelled" => ~Open(j)
    /\ phase # "down" /\ task[j] = "lost" => ~Open(j)

\* Whose the upload is.
FileInv(j) ==
    /\ submit[j] = "adding" \/ Live(j) => file[j]
    /\ phase \in {"serving", "draining"} /\ file[j] =>
          \/ submit[j] = "adding" \/ Live(j) \/ task[j] = "neverRan"
          \/ task[j] = "lost" /\ ~wiped

JobInv(j) == CallsInv(j) /\ LateInv(j) /\ SubmitInv(j) /\ RowInv(j) /\ EndInv(j) /\ FileInv(j)

\* One name for what all steps may use of a state, and for the whole invariant.
Typed == TypeOK /\ Store!NoResurrection

OwnInv == Typed /\ \A j \in Jobs : JobInv(j)

\* Nothing of job j moves, but that late calls of it may be over.
Same(j) ==
    /\ submit'[j] = submit[j] /\ task'[j] = task[j]
    /\ cancel'[j] = cancel[j] /\ file'[j] = file[j]
    /\ \A r \in Roles : call'[<<j, r>>] = call[<<j, r>>]
    /\ LateOf(j)' \subseteq LateOf(j)
    /\ rows'[j] = rows[j] /\ (Gone(j)' <=> Gone(j))

LEMMA SameOK ==
    ASSUME NEW j \in Jobs, JobInv(j), Same(j), phase' = phase, wiped' = wiped
    PROVE  JobInv(j)'
<1> USE DEF Same, Replied, TaskReplied, Idle, Roles, Live, Gone, Began
<1>1. \A S : Late(j, S)' => Late(j, S)
  BY DEF Late
<1>2. \A S : Store!InStatus(j, S)' <=> Store!InStatus(j, S)
  BY DEF Store!InStatus, Store!Stored
<1>3. Store!Stored(j)' <=> Store!Stored(j)
  BY DEF Store!Stored
<1>4. (Open(j)' <=> Open(j)) /\ (Settled(j)' <=> Settled(j))
  BY <1>2 DEF Open, Settled
<1>5. CallsInv(j)'
  BY <1>1 DEF JobInv, CallsInv
<1>6. LateInv(j)'
  BY <1>1, <1>3 DEF JobInv, LateInv
<1>7. SubmitInv(j)'
  BY <1>1, <1>3 DEF JobInv, SubmitInv
<1>8. RowInv(j)'
  BY <1>2, <1>3, <1>4 DEF JobInv, RowInv, Untaken, Working
<1>9. EndInv(j)'
  BY <1>4 DEF JobInv, EndInv
<1>10. FileInv(j)'
  BY DEF JobInv, FileInv
<1> QED
  BY <1>5, <1>6, <1>7, <1>8, <1>9, <1>10 DEF JobInv

\* A step of one job: the others stay as they are.
LEMMA OneJob ==
    ASSUME OwnInv, NEW k \in Jobs, JobInv(k)', phase' = phase, wiped' = wiped,
           \A j \in Jobs \ {k} : Same(j)
    PROVE  \A j \in Jobs : JobInv(j)'
  BY SameOK DEF OwnInv

\* What an abandoned call leaves behind: at most itself.
LEMMA Abandons ==
    ASSUME NEW k \in Jobs, NEW r \in Roles, late' \in Abandoned(<<k, r>>) \/ late' = late,
           NEW l \in late', l \notin late
    PROVE  /\ Replied(<<k, r>>, {"pending"})
           /\ l = [job |-> k, op |-> call[<<k, r>>].op, arg |-> call[<<k, r>>].arg]
  BY DEF Abandoned

\* The call of one caller changes, those of the others do not.
LEMMA OneCall ==
    ASSUME Typed, NEW k \in Jobs, NEW r \in Roles, NEW x, call' = [call EXCEPT ![<<k, r>>] = x]
    PROVE  /\ call'[<<k, r>>] = x
           /\ \A i \in Roles \ {r} : call'[<<k, i>>] = call[<<k, i>>]
           /\ \A j \in Jobs \ {k}, i \in Roles : call'[<<j, i>>] = call[<<j, i>>]
  BY DEF Typed, TypeOK, ProcessOK, Callers

LEMMA SubmitBeginOK ==
    ASSUME OwnInv, NEW k \in Jobs, NEW t \in Tokens, SubmitBegin(k, t)
    PROVE  \A j \in Jobs : JobInv(j)'
<1>1. /\ call'[<<k, "submit">>] = [op |-> "add", arg |-> t, reply |-> "pending"]
      /\ \A i \in Roles \ {"submit"} : call'[<<k, i>>] = call[<<k, i>>]
      /\ \A j \in Jobs \ {k}, i \in Roles : call'[<<j, i>>] = call[<<j, i>>]
  BY OneCall DEF OwnInv, SubmitBegin, Await, Roles
<1>2. /\ phase = "serving" /\ submit[k] = "none" /\ submit'[k] = "adding" /\ file'[k] = TRUE
      /\ UNCHANGED <<rows, purged, phase, wiped, task, cancel, late>>
  BY DEF OwnInv, Typed, TypeOK, ProcessOK, SubmitBegin, process
<1>3. \A j \in Jobs \ {k} : Same(j)
  BY <1>1, <1>2 DEF Same, LateOf, Gone, SubmitBegin, OwnInv, Typed, TypeOK, ProcessOK
<1>4. JobInv(k)'
  <2> USE <1>1, <1>2 DEF Idle, Replied, TaskReplied, Roles, Late, LateOf, Gone, Began, Live, Store!Stored
  <2>0. JobInv(k) /\ task[k] = "none" /\ ~Began(k)
    BY DEF OwnInv, JobInv, SubmitInv
  <2>1. CallsInv(k)'
    BY <2>0 DEF JobInv, CallsInv
  <2>2. LateInv(k)' /\ SubmitInv(k)'
    BY <2>0 DEF JobInv, LateInv, SubmitInv, Marks, Ops
  <2>3. RowInv(k)' /\ EndInv(k)' /\ FileInv(k)'
    BY <2>0 DEF JobInv, RowInv, Untaken, Working, EndInv, FileInv, CallsInv
  <2> QED
    BY <2>1, <2>2, <2>3 DEF JobInv
<1> QED
  BY <1>2, <1>3, <1>4, OneJob

\* Answered, failed or cancelled, the handler hands the job to a task.
LEMMA HandOffOK ==
    ASSUME OwnInv, NEW k \in Jobs, NEW end, HandOff(k, end),
           \/ end = "accepted" /\ Replied(<<k, "submit">>, {"hit"}) /\ late' = late
           \/ end = "failed" /\ Replied(<<k, "submit">>, {"error"}) /\ late' = late
           \/ end = "cancelled" /\ late' \in Abandoned(<<k, "submit">>)
    PROVE  \A j \in Jobs : JobInv(j)'
<1>1. /\ call'[<<k, "submit">>] = NoCall
      /\ \A i \in Roles \ {"submit"} : call'[<<k, i>>] = call[<<k, i>>]
      /\ \A j \in Jobs \ {k}, i \in Roles : call'[<<j, i>>] = call[<<j, i>>]
  BY OneCall DEF OwnInv, HandOff, Resumed, Roles
<1>2. /\ submit[k] = "adding" /\ submit'[k] = end /\ task'[k] = "created"
      /\ UNCHANGED <<rows, purged, phase, wiped, cancel, file>>
  BY DEF OwnInv, Typed, TypeOK, ProcessOK, HandOff, process
<1>3. ASSUME NEW l \in late', l \notin late
      PROVE  /\ Replied(<<k, "submit">>, {"pending"})
             /\ l = [job |-> k, op |-> "add", arg |-> call[<<k, "submit">>].arg]
  <2>1. /\ call[<<k, "submit">>].op \in {"none", "add"}
        /\ Replied(<<k, "submit">>, {"pending"}) => call[<<k, "submit">>].op # "none"
    BY DEF OwnInv, JobInv, CallsInv, Replied, Idle, Roles
  <2>2. "submit" \in Roles /\ (late' \in Abandoned(<<k, "submit">>) \/ late' = late)
    BY DEF Roles
  <2> QED
    BY <1>3, <2>1, <2>2, Abandons
<1>4. \A j \in Jobs \ {k} : Same(j)
  BY <1>1, <1>2, <1>3 DEF Same, LateOf, Gone, HandOff, OwnInv, Typed, TypeOK, ProcessOK
<1>5. /\ JobInv(k) /\ task[k] = "none" /\ Idle(<<k, "task">>)
      /\ phase \in {"serving", "draining"}
  BY <1>2 DEF OwnInv, JobInv, SubmitInv, CallsInv, Typed, TypeOK, ProcessOK, Roles
<1>6. /\ Late(k, {"add"})' => end = "cancelled" /\ ~Began(k)
      /\ \A l, m \in LateOf(k)' : l.op = "add" /\ m.op = "add" => l = m
      /\ ~Late(k, Marks)'
  <2>1. ~Late(k, {"add"}) /\ ~Late(k, Marks)
    BY <1>2, <1>5 DEF JobInv, LateInv
  <2>2. Late(k, {"add"})' => Replied(<<k, "submit">>, {"pending"})
    BY <1>3, <2>1 DEF Late, LateOf
  <2>3. ~Late(k, Marks)' /\ \A l, m \in LateOf(k)' : l.op = "add" /\ m.op = "add" => l = m
    BY <1>3, <2>1 DEF Late, LateOf, Marks
  <2> QED
    BY <1>2, <1>5, <2>2, <2>3 DEF JobInv, SubmitInv, Replied, HandOff
<1>7. JobInv(k)'
  <2> USE <1>1, <1>2, <1>5 DEF Idle, Replied, TaskReplied, Roles, Gone, Began, Live, Store!Stored
  <2>1. CallsInv(k)'
    BY DEF JobInv, CallsInv, NoCall
  <2>2. LateInv(k)' /\ SubmitInv(k)'
    BY <1>6 DEF JobInv, LateInv, SubmitInv
  <2>3. RowInv(k)' /\ EndInv(k)' /\ FileInv(k)'
    BY DEF JobInv, RowInv, Untaken, Working, EndInv, FileInv, CallsInv, Store!InStatus
  <2> QED
    BY <2>1, <2>2, <2>3 DEF JobInv
<1> QED
  BY <1>2, <1>4, <1>7, OneJob

\* The task makes its next store call.
LEMMA TaskAwaitsOK ==
    ASSUME OwnInv, NEW k \in Jobs, NEW from, NEW to, NEW op, NEW arg,
           TaskAwaits(k, from, to, op, arg),
           \/ from = "created" /\ to = "marking" /\ op = "mark_running"
           \/ from = "parsing" /\ to = "recording" /\ op \in {"mark_done", "mark_failed"}
           \/ /\ from \in {"marking", "recording"} /\ Replied(<<k, "task">>, {"error"})
              /\ to = "rescuing" /\ op = "mark_failed"
    PROVE  \A j \in Jobs : JobInv(j)'
<1>1. /\ call'[<<k, "task">>] = [op |-> op, arg |-> arg, reply |-> "pending"]
      /\ \A i \in Roles \ {"task"} : call'[<<k, i>>] = call[<<k, i>>]
      /\ \A j \in Jobs \ {k}, i \in Roles : call'[<<j, i>>] = call[<<j, i>>]
  BY OneCall DEF OwnInv, TaskAwaits, Await, Roles
<1>2. /\ task[k] = from /\ task'[k] = to
      /\ UNCHANGED <<rows, purged, phase, wiped, submit, cancel, file, late>>
  BY DEF OwnInv, Typed, TypeOK, ProcessOK, TaskAwaits, process
<1>3. \A j \in Jobs \ {k} : Same(j)
  BY <1>1, <1>2 DEF Same, Gone, LateOf, TaskAwaits, OwnInv, Typed, TypeOK, ProcessOK
<1>4. JobInv(k) /\ (Gone(k) => ~Store!Stored(k))
  BY DEF OwnInv, Typed, Store!NoResurrection, Gone
<1>5. JobInv(k)'
  <2> USE <1>1, <1>2, <1>4
        DEF Idle, Replied, TaskReplied, Roles, Gone, Began, Live, Store!Stored
  <2>1. CallsInv(k)'
    BY DEF JobInv, CallsInv
  <2>2. LateInv(k)' /\ SubmitInv(k)'
    BY DEF JobInv, LateInv, SubmitInv, CallsInv, Late, LateOf
  <2>3. RowInv(k)'
    BY DEF JobInv, CallsInv, SubmitInv, RowInv, Untaken, Working, Open, Store!InStatus
  <2>4. EndInv(k)' /\ FileInv(k)'
    BY DEF JobInv, EndInv, FileInv, Open, Store!InStatus
  <2> QED
    BY <2>1, <2>2, <2>3, <2>4 DEF JobInv
<1> QED
  BY <1>2, <1>3, <1>5, OneJob DEF TaskAwaits, process

\* mark_running hit: the document is given to the pool.
LEMMA TaskParsesOK ==
    ASSUME OwnInv, NEW k \in Jobs, TaskParses(k)
    PROVE  \A j \in Jobs : JobInv(j)'
<1>1. /\ call'[<<k, "task">>] = NoCall
      /\ \A i \in Roles \ {"task"} : call'[<<k, i>>] = call[<<k, i>>]
      /\ \A j \in Jobs \ {k}, i \in Roles : call'[<<j, i>>] = call[<<j, i>>]
  BY OneCall DEF OwnInv, TaskParses, Resumed, Roles
<1>2. /\ task[k] = "marking" /\ task'[k] = "parsing" /\ Replied(<<k, "task">>, {"hit"})
      /\ UNCHANGED <<rows, purged, phase, wiped, submit, cancel, file, late>>
  BY DEF OwnInv, Typed, TypeOK, ProcessOK, TaskParses, process
<1>3. \A j \in Jobs \ {k} : Same(j)
  BY <1>1, <1>2 DEF Same, Gone, LateOf, TaskParses, OwnInv, Typed, TypeOK, ProcessOK
<1>4. JobInv(k)'
  <2> USE <1>1, <1>2 DEF Idle, Replied, TaskReplied, Roles, Gone, Began, Live, Store!Stored
  <2>0. JobInv(k)
    BY DEF OwnInv
  <2>1. CallsInv(k)'
    BY <2>0 DEF JobInv, CallsInv, NoCall
  <2>2. LateInv(k)' /\ SubmitInv(k)'
    BY <2>0 DEF JobInv, LateInv, SubmitInv, Late, LateOf
  <2>3. RowInv(k)'
    BY <2>0 DEF JobInv, SubmitInv, RowInv, Untaken, Working, Open, Store!InStatus, NoCall
  <2>4. EndInv(k)' /\ FileInv(k)'
    BY <2>0 DEF JobInv, EndInv, FileInv, Open, Store!InStatus
  <2> QED
    BY <2>1, <2>2, <2>3, <2>4 DEF JobInv
<1> QED
  BY <1>2, <1>3, <1>4, OneJob

\* The task is over, its upload deleted, and its row settled if it had one to
\* settle, unless the store raised twice.
LEMMA TaskEndsOK ==
    ASSUME OwnInv, NEW k \in Jobs, NEW from, NEW S, NEW end, TaskEnds(k, from, S, end),
           \/ from = "marking" /\ S = {"miss"} /\ end = "ended"
           \/ from \in {"recording", "rescuing"} /\ S = {"hit", "miss"} /\ end = "ended"
           \/ from = "rescuing" /\ S = {"error"} /\ end = "unrecorded"
    PROVE  \A j \in Jobs : JobInv(j)'
<1>1. /\ call'[<<k, "task">>] = NoCall
      /\ \A i \in Roles \ {"task"} : call'[<<k, i>>] = call[<<k, i>>]
      /\ \A j \in Jobs \ {k}, i \in Roles : call'[<<j, i>>] = call[<<j, i>>]
  BY OneCall DEF OwnInv, TaskEnds, Resumed, Roles
<1>2. /\ task[k] = from /\ task'[k] = end /\ Replied(<<k, "task">>, S) /\ file'[k] = FALSE
      /\ UNCHANGED <<rows, purged, phase, wiped, submit, cancel, late>>
  BY DEF OwnInv, Typed, TypeOK, ProcessOK, TaskEnds, process
<1>3. \A j \in Jobs \ {k} : Same(j)
  BY <1>1, <1>2 DEF Same, Gone, LateOf, TaskEnds, OwnInv, Typed, TypeOK, ProcessOK
<1>4. /\ JobInv(k) /\ (Gone(k) => ~Store!Stored(k))
      /\ submit[k] \in {"none", "adding", "accepted", "failed", "cancelled", "lost"}
  BY DEF OwnInv, Typed, TypeOK, ProcessOK, Store!NoResurrection, Gone
<1>5. end = "ended" /\ submit[k] # "cancelled" => ~Open(k)
  <2>1. submit[k] \in {"accepted", "failed", "cancelled"}
    BY <1>2, <1>4 DEF JobInv, SubmitInv
  <2>2. CASE Replied(<<k, "task">>, {"miss"})
    BY <1>2, <1>4, <2>1, <2>2
    DEF JobInv, SubmitInv, RowInv, TaskReplied, Live, Open, Store!InStatus
  <2>3. CASE Replied(<<k, "task">>, {"hit"}) /\ from \in {"recording", "rescuing"}
    <3>1. Settled(k)
      BY <1>2, <1>4, <2>3 DEF JobInv, RowInv, TaskReplied
    <3> QED
      BY <1>4, <3>1 DEF Settled, Open, Gone, Store!InStatus
  <2> QED
    BY <1>2, <2>2, <2>3 DEF Replied
<1>6. JobInv(k)'
  <2> USE <1>1, <1>2, <1>4 DEF Idle, Replied, TaskReplied, Roles, Gone, Began, Live, Store!Stored
  <2>1. CallsInv(k)'
    BY DEF JobInv, CallsInv, NoCall
  <2>2. LateInv(k)' /\ SubmitInv(k)'
    BY DEF JobInv, LateInv, SubmitInv, Late, LateOf
  <2>3. RowInv(k)'
    BY DEF JobInv, SubmitInv, RowInv, Untaken, Working, Store!InStatus, NoCall
  <2>4. EndInv(k)' /\ FileInv(k)'
    BY <1>5 DEF JobInv, SubmitInv, EndInv, FileInv, Open, Store!InStatus
  <2> QED
    BY <2>1, <2>2, <2>3, <2>4 DEF JobInv
<1> QED
  BY <1>2, <1>3, <1>6, OneJob

\* A cancelled task leaves at most the transition it was awaiting.
LEMMA TaskCancelledOK ==
    ASSUME OwnInv, NEW k \in Jobs, TaskCancelled(k)
    PROVE  \A j \in Jobs : JobInv(j)'
<1>1. /\ call'[<<k, "task">>] = NoCall
      /\ \A i \in Roles \ {"task"} : call'[<<k, i>>] = call[<<k, i>>]
      /\ \A j \in Jobs \ {k}, i \in Roles : call'[<<j, i>>] = call[<<j, i>>]
  BY OneCall DEF OwnInv, TaskCancelled, Resumed, Roles
<1>2. /\ Live(k) /\ task[k] # "created" /\ cancel[k] /\ task'[k] = "ended"
      /\ cancel'[k] = FALSE /\ file'[k] = FALSE
      /\ UNCHANGED <<rows, purged, phase, wiped, submit>>
  BY DEF OwnInv, Typed, TypeOK, ProcessOK, TaskCancelled, process
<1>3. /\ JobInv(k) /\ (Gone(k) => ~Store!Stored(k))
      /\ phase \in {"serving", "draining"}
  <2>1. JobInv(k) /\ (Gone(k) => ~Store!Stored(k))
    BY DEF OwnInv, Typed, Store!NoResurrection, Gone
  <2>2. phase \notin {"down", "wiping"}
    BY <1>2, <2>1 DEF JobInv, CallsInv, Live
  <2> QED
    BY <2>1, <2>2 DEF OwnInv, Typed, TypeOK, ProcessOK
<1>4. ASSUME NEW l \in late', l \notin late
      PROVE  l.job = k /\ l.op \in Marks
  <2>1. /\ Replied(<<k, "task">>, {"pending"})
        /\ l = [job |-> k, op |-> call[<<k, "task">>].op, arg |-> call[<<k, "task">>].arg]
    BY <1>4, Abandons DEF TaskCancelled, Roles
  <2>2. Replied(<<k, "task">>, {"pending"}) => call[<<k, "task">>].op \in Marks
    BY <1>2, <1>3 DEF JobInv, CallsInv, Replied, Idle, Roles, Marks, Live
  <2> QED
    BY <2>1, <2>2
<1>5. \A j \in Jobs \ {k} : Same(j)
  BY <1>1, <1>2, <1>4 DEF Same, LateOf, Gone, TaskCancelled, OwnInv, Typed, TypeOK, ProcessOK
<1>6. \A l \in LateOf(k)' : l.op = "add" => l \in LateOf(k)
  BY <1>4 DEF LateOf, Marks
<1>7. JobInv(k)'
  <2> USE <1>1, <1>2, <1>3 DEF Idle, Replied, TaskReplied, Roles, Gone, Began, Live, Store!Stored
  <2>1. CallsInv(k)'
    BY DEF JobInv, CallsInv, NoCall
  <2>2. LateInv(k)' /\ SubmitInv(k)'
    BY <1>6 DEF JobInv, LateInv, SubmitInv, Late
  <2>3. RowInv(k)' /\ EndInv(k)' /\ FileInv(k)'
    BY DEF JobInv, SubmitInv, RowInv, EndInv, FileInv, Untaken, Working, Open, Store!InStatus,
           NoCall
  <2> QED
    BY <2>1, <2>2, <2>3 DEF JobInv
<1> QED
  BY <1>2, <1>5, <1>7, OneJob

\* A task cancelled before its first step leaves its upload.
LEMMA TaskNeverRunsOK ==
    ASSUME OwnInv, NEW k \in Jobs, TaskNeverRuns(k)
    PROVE  \A j \in Jobs : JobInv(j)'
<1>1. /\ task[k] = "created" /\ cancel[k] /\ task'[k] = "neverRan" /\ cancel'[k] = FALSE
      /\ UNCHANGED <<rows, purged, phase, wiped, submit, file, call, late>>
  BY DEF OwnInv, Typed, TypeOK, ProcessOK, TaskNeverRuns, process
<1>2. \A j \in Jobs \ {k} : Same(j)
  BY <1>1 DEF Same, Gone, LateOf, TaskNeverRuns, OwnInv, Typed, TypeOK, ProcessOK
<1>3. JobInv(k)'
  <2> USE <1>1 DEF Idle, Replied, TaskReplied, Roles, Gone, Began, Live, Store!Stored
  <2>0. JobInv(k)
    BY DEF OwnInv
  <2>1. CallsInv(k)'
    BY <2>0 DEF JobInv, CallsInv
  <2>2. LateInv(k)' /\ SubmitInv(k)'
    BY <2>0 DEF JobInv, LateInv, SubmitInv, Late, LateOf
  <2>3. RowInv(k)' /\ EndInv(k)' /\ FileInv(k)'
    BY <2>0 DEF JobInv, SubmitInv, RowInv, EndInv, FileInv, Untaken, Working, Open,
                Store!InStatus
  <2> QED
    BY <2>1, <2>2, <2>3 DEF JobInv
<1> QED
  BY <1>1, <1>2, <1>3, OneJob

-----------------------------------------------------------------------------
\* delete_job: only a job that was submitted is deleted, and the task is
\* cancelled only once the row is gone.

LEMMA DeleteBeginOK ==
    ASSUME OwnInv, NEW k \in Jobs, NEW t \in Tokens, DeleteBegin(k, t)
    PROVE  \A j \in Jobs : JobInv(j)'
<1>1. /\ call'[<<k, "delete">>] = [op |-> "delete", arg |-> t, reply |-> "pending"]
      /\ \A i \in Roles \ {"delete"} : call'[<<k, i>>] = call[<<k, i>>]
      /\ \A j \in Jobs \ {k}, i \in Roles : call'[<<j, i>>] = call[<<j, i>>]
  BY OneCall DEF OwnInv, DeleteBegin, Await, Roles
<1>2. /\ phase = "serving" /\ Store!Stored(k)
      /\ UNCHANGED <<rows, purged, phase, wiped, submit, task, cancel, file, late>>
  BY DEF DeleteBegin, handlers, process
<1>3. \A j \in Jobs \ {k} : Same(j)
  BY <1>1, <1>2 DEF Same, Gone, LateOf
<1>4. JobInv(k)'
  <2> USE <1>1, <1>2 DEF Idle, Replied, TaskReplied, Roles, Gone, Began, Live, Store!Stored
  <2>0. JobInv(k)
    BY DEF OwnInv
  <2>1. CallsInv(k)'
    BY <2>0 DEF JobInv, CallsInv
  <2>2. LateInv(k)' /\ SubmitInv(k)'
    BY <2>0 DEF JobInv, LateInv, SubmitInv, Late, LateOf
  <2>3. RowInv(k)' /\ EndInv(k)' /\ FileInv(k)'
    BY <2>0 DEF JobInv, RowInv, EndInv, FileInv, Untaken, Working, Open, Settled,
                Store!InStatus
  <2> QED
    BY <2>1, <2>2, <2>3 DEF JobInv
<1> QED
  BY <1>2, <1>3, <1>4, OneJob

LEMMA DeleteEndsOK ==
    ASSUME OwnInv, NEW k \in Jobs, DeleteEnds(k)
    PROVE  \A j \in Jobs : JobInv(j)'
<1> USE DEF DeleteEnds, DeleteHit, DeleteMissed, DeleteAbandoned, handlers, process
<1>1. /\ call'[<<k, "delete">>] = NoCall
      /\ \A i \in Roles \ {"delete"} : call'[<<k, i>>] = call[<<k, i>>]
      /\ \A j \in Jobs \ {k}, i \in Roles : call'[<<j, i>>] = call[<<j, i>>]
  BY OneCall DEF OwnInv, Resumed, Roles
<1>2. /\ UNCHANGED <<rows, purged, phase, wiped, submit, task, file>>
      /\ cancel'[k] => cancel[k] \/ Replied(<<k, "delete">>, {"hit"})
      /\ \A j \in Jobs \ {k} : cancel'[j] = cancel[j]
      /\ late' \in Abandoned(<<k, "delete">>) \/ late' = late
  BY DEF OwnInv, Typed, TypeOK, ProcessOK
<1>3. /\ JobInv(k) /\ ~Idle(<<k, "delete">>) /\ submit[k] # "none"
      /\ phase \notin {"down", "wiping"}
  <2>1. JobInv(k) /\ call[<<k, "delete">>] \in Calls
    BY DEF OwnInv, Typed, TypeOK, ProcessOK, Callers, Roles
  <2>2. ~Idle(<<k, "delete">>)
    <3>1. CASE DeleteAbandoned(k)
      <4>1. Idle(<<k, "delete">>) => call[<<k, "delete">>] = NoCall
        BY <2>1 DEF Idle, Calls, NoCall, ArgsOf
      <4> QED
        BY <3>1, <4>1
    <3>2. CASE DeleteHit(k) \/ DeleteMissed(k)
      BY <2>1, <3>2 DEF JobInv, CallsInv, Replied, Roles
    <3> QED
      BY <3>1, <3>2
  <2> QED
    BY <2>1, <2>2 DEF JobInv, CallsInv, SubmitInv, Roles
<1> HIDE DEF DeleteEnds, DeleteHit, DeleteMissed, DeleteAbandoned, handlers, process
<1>4. ASSUME NEW l \in late', l \notin late
      PROVE  l.job = k /\ l.op = "delete"
  <2>1. l = [job |-> k, op |-> call[<<k, "delete">>].op, arg |-> call[<<k, "delete">>].arg]
    BY <1>2, <1>4, Abandons DEF Roles
  <2>2. call[<<k, "delete">>].op = "delete"
    BY <1>3 DEF JobInv, CallsInv, Idle
  <2> QED
    BY <2>1, <2>2
<1>5. \A j \in Jobs \ {k} : Same(j)
  BY <1>1, <1>2, <1>4 DEF Same, LateOf, Gone
<1>6. \A l \in LateOf(k)' : l.op # "delete" => l \in LateOf(k)
  BY <1>4 DEF LateOf
<1>7. JobInv(k)'
  <2> USE <1>1, <1>2, <1>3 DEF Idle, Replied, TaskReplied, Roles, Gone, Began, Live, Store!Stored
  <2>1. CallsInv(k)'
    BY DEF JobInv, CallsInv, NoCall
  <2>2. LateInv(k)' /\ SubmitInv(k)'
    BY <1>6 DEF JobInv, LateInv, SubmitInv, Late, Marks
  <2>3. RowInv(k)' /\ FileInv(k)'
    BY DEF JobInv, RowInv, FileInv, Untaken, Working, Open, Settled, Store!InStatus
  <2>4. EndInv(k)'
    BY DEF JobInv, CallsInv, EndInv, Open, Store!InStatus
  <2> QED
    BY <2>1, <2>2, <2>3, <2>4 DEF JobInv
<1> QED
  BY <1>2, <1>5, <1>7, OneJob

-----------------------------------------------------------------------------
\* What a store call does to the row it names, whoever made it: every UPDATE
\* moves the row forward or leaves it, a delete is for good, and no other row
\* is touched.
Hit(op, j) ==
    \/ op = "mark_running" /\ Store!InStatus(j, {"queued"}) /\ Store!InStatus(j, {"running"})'
    \/ op = "mark_done" /\ Store!InStatus(j, {"running"}) /\ Store!InStatus(j, {"done"})'
    \/ op = "mark_failed" /\ Open(j) /\ Store!InStatus(j, {"failed"})'

Missed(op, j) ==
    /\ rows'[j] = rows[j]
    /\ op = "mark_running" => ~Store!InStatus(j, {"queued"})
    /\ op = "mark_done" => ~Store!InStatus(j, {"running"})
    /\ op = "mark_failed" => ~Open(j)

LEMMA Performs ==
    ASSUME Typed, NEW op \in Ops, NEW k \in Jobs, NEW arg \in ArgsOf(op), Perform(op, k, arg)
    PROVE  /\ \A j \in Jobs \ {k} : rows'[j] = rows[j] /\ (Gone(j)' <=> Gone(j))
           /\ op = "add" => /\ ~Began(k) /\ ~Gone(k)' /\ Store!InStatus(k, {"queued"})'
                            /\ Hits(op, k, arg)
           /\ op \in Marks => /\ Gone(k)' <=> Gone(k)
                              /\ IF Hits(op, k, arg) THEN Hit(op, k) ELSE Missed(op, k)
           /\ op = "delete" => IF Hits(op, k, arg)
                               THEN Store!Stored(k) /\ ~Store!Stored(k)' /\ Gone(k)'
                               ELSE rows'[k] = rows[k] /\ (Gone(k)' <=> Gone(k))
<1> USE StoreAssumptions
      DEF Typed, TypeOK, Store!TypeOK, Began, Gone, Open, Hits, Hit, Missed, Marks,
          Store!InStatus, Store!Stored
<1>1. CASE op = "add"
  <2>1. PICK c \in Times : Store!Add(k, arg, c)
    BY <1>1 DEF Perform
  <2>2. Store!NewRow(arg, c) \in Store!Row /\ Store!NewRow(arg, c).status = "queued"
    BY <1>1 DEF Store!NewRow, Store!Row, Store!JobStatus, ArgsOf
  <2> QED
    BY <1>1, <2>1, <2>2 DEF Store!Add
<1>2. CASE op = "mark_running"
  <2>1. Store!MarkRunning(k)
    BY <1>2 DEF Perform
  <2>2. CASE Store!MarkRunningHits(k)
    <3>1. rows[k] \in Store!Row /\ rows'[k] = [rows[k] EXCEPT !.status = "running", !.started = TRUE]
      BY <2>1, <2>2 DEF Store!MarkRunning, Store!MarkRunningHits
    <3>2. rows'[k] \in Store!Row /\ rows'[k].status = "running"
      BY <3>1 DEF Store!Row, Store!JobStatus
    <3> QED
      BY <1>2, <2>1, <2>2, <3>2 DEF Store!MarkRunning, Store!MarkRunningHits
  <2>3. CASE ~Store!MarkRunningHits(k)
    BY <1>2, <2>1, <2>3 DEF Store!MarkRunning, Store!MarkRunningHits
  <2> QED
    BY <2>2, <2>3
<1>3. CASE op = "mark_done"
  <2>1. Store!MarkDone(k, arg)
    BY <1>3 DEF Perform
  <2>2. CASE Store!MarkDoneHits(k)
    <3>1. /\ rows[k] \in Store!Row
          /\ rows'[k] = [rows[k] EXCEPT !.status = "done", !.finished = TRUE, !.result = arg]
      BY <2>1, <2>2 DEF Store!MarkDone, Store!MarkDoneHits
    <3>2. rows'[k] \in Store!Row /\ rows'[k].status = "done"
      BY <1>3, <3>1 DEF Store!Row, Store!JobStatus, ArgsOf
    <3> QED
      BY <1>3, <2>1, <2>2, <3>2 DEF Store!MarkDone, Store!MarkDoneHits
  <2>3. CASE ~Store!MarkDoneHits(k)
    BY <1>3, <2>1, <2>3 DEF Store!MarkDone, Store!MarkDoneHits
  <2> QED
    BY <2>2, <2>3
<1>4. CASE op = "mark_failed"
  <2>1. /\ \A j \in Jobs : rows'[j] = IF j \in {k} \cap Store!Incomplete
                                      THEN Store!Failed(rows[j], arg) ELSE rows[j]
        /\ purged' = purged
    BY <1>4 DEF Perform, Store!MarkFailed, Store!FailRows
  <2>2. CASE k \in Store!Incomplete
    <3>1. rows[k] \in Store!Row /\ rows'[k] = Store!Failed(rows[k], arg)
      BY <2>1, <2>2 DEF Store!Incomplete
    <3>2. rows'[k] \in Store!Row /\ rows'[k].status = "failed"
      BY <1>4, <3>1 DEF Store!Failed, Store!Row, Store!JobStatus, ArgsOf
    <3> QED
      BY <1>4, <2>1, <2>2, <3>2 DEF Store!MarkFailedHits, Store!Incomplete
  <2>3. CASE k \notin Store!Incomplete
    BY <1>4, <2>1, <2>3 DEF Store!MarkFailedHits, Store!Incomplete
  <2> QED
    BY <2>2, <2>3
<1>5. CASE op = "delete"
  <2>1. Store!DropRows({i \in {k} : Store!DeleteHits(i, arg)})
    BY <1>5 DEF Perform, Store!Delete
  <2> QED
    BY <1>5, <2>1 DEF Store!DropRows, Store!DeleteHits, Store!Owned
<1> QED
  BY <1>1, <1>2, <1>3, <1>4, <1>5 DEF Ops

\* A thread executes the call of a coroutine that awaits it.
LEMMA ExecuteOK ==
    ASSUME OwnInv, NEW k \in Jobs, NEW r \in Roles, Execute(<<k, r>>)
    PROVE  \A j \in Jobs : JobInv(j)'
<1> DEFINE op == call[<<k, r>>].op
           hit == Hits(op, k, call[<<k, r>>].arg)
<1>1. /\ call'[<<k, r>>] = [call[<<k, r>>] EXCEPT !.reply = IF hit THEN "hit" ELSE "miss"]
      /\ \A i \in Roles \ {r} : call'[<<k, i>>] = call[<<k, i>>]
      /\ \A j \in Jobs \ {k}, i \in Roles : call'[<<j, i>>] = call[<<j, i>>]
  <2> DEFINE x == [call[<<k, r>>] EXCEPT !.reply = IF hit THEN "hit" ELSE "miss"]
  <2>1. call' = [call EXCEPT ![<<k, r>>] = x]
    BY DEF Execute
  <2>2. call \in [Callers -> Calls] /\ <<k, r>> \in Callers
    BY DEF OwnInv, Typed, TypeOK, ProcessOK, Callers
  <2> HIDE DEF x
  <2>3. /\ call'[<<k, r>>] = x
        /\ \A j \in Jobs, i \in Roles : <<j, i>> # <<k, r>> => call'[<<j, i>>] = call[<<j, i>>]
    BY <2>1, <2>2 DEF Callers
  <2> QED
    BY <2>3 DEF x
<1>2. /\ Replied(<<k, r>>, {"pending"}) /\ Perform(op, k, call[<<k, r>>].arg)
      /\ UNCHANGED <<phase, wiped, submit, task, cancel, file, late>>
  BY DEF Execute, handlers, process
<1>3. /\ JobInv(k) /\ (Gone(k) => ~Store!Stored(k))
      /\ call[<<k, r>>] \in Calls
  BY DEF OwnInv, Typed, TypeOK, ProcessOK, Callers, Store!NoResurrection, Gone
<1>4. /\ op \in Ops /\ call[<<k, r>>].arg \in ArgsOf(op) /\ ~Idle(<<k, r>>)
      /\ phase \notin {"down", "wiping"} /\ submit[k] # "none"
  BY <1>2, <1>3 DEF JobInv, CallsInv, SubmitInv, Idle, Replied, Calls, Roles
<1>5. /\ \A i \in Roles : call'[<<k, i>>].op = call[<<k, i>>].op
      /\ \A i \in Roles \ {r} : call'[<<k, i>>].reply = call[<<k, i>>].reply
      /\ call'[<<k, r>>].reply = IF hit THEN "hit" ELSE "miss"
  <2> HIDE DEF hit
  <2> QED
    BY <1>1, <1>3 DEF Calls
<1>6. /\ \A j \in Jobs \ {k} : rows'[j] = rows[j] /\ (Gone(j)' <=> Gone(j))
      /\ op = "add" => ~Began(k) /\ ~Gone(k)' /\ Store!InStatus(k, {"queued"})' /\ hit
      /\ op \in Marks => (Gone(k)' <=> Gone(k)) /\ IF hit THEN Hit(op, k) ELSE Missed(op, k)
      /\ op = "delete" => IF hit THEN Store!Stored(k) /\ ~Store!Stored(k)' /\ Gone(k)'
                          ELSE rows'[k] = rows[k] /\ (Gone(k)' <=> Gone(k))
  BY <1>2, <1>4, Performs DEF OwnInv
<1>7. \A j \in Jobs \ {k} : Same(j)
  BY <1>1, <1>2, <1>6 DEF Same, LateOf
<1> HIDE DEF hit
<1>8. JobInv(k)'
  <2> USE <1>2, <1>3, <1>4, <1>5, <1>6
        DEF Idle, Replied, TaskReplied, Roles, Began, Gone, Live, Late, LateOf, Open, Settled,
            Store!InStatus
  <2>1. CASE r = "submit"
    <3>1. op = "add" /\ submit[k] = "adding" /\ task[k] = "none"
      BY <2>1 DEF JobInv, CallsInv, SubmitInv
    <3>2. CallsInv(k)'
      BY <2>1, <3>1 DEF JobInv, CallsInv
    <3>3. LateInv(k)' /\ SubmitInv(k)'
      BY <2>1, <3>1 DEF JobInv, LateInv, SubmitInv
    <3>4. RowInv(k)' /\ EndInv(k)' /\ FileInv(k)'
      BY <2>1, <3>1 DEF JobInv, RowInv, EndInv, FileInv, Untaken, Working
    <3> QED
      BY <3>2, <3>3, <3>4 DEF JobInv
  <2>2. CASE r = "task"
    <3>1. op \in Marks /\ Live(k) /\ task[k] \notin {"created", "parsing"}
      BY <2>2 DEF JobInv, CallsInv, Marks
    <3>2. CallsInv(k)'
      BY <2>2, <3>1 DEF JobInv, CallsInv
    <3>3. LateInv(k)' /\ SubmitInv(k)'
      BY <2>2, <3>1 DEF JobInv, LateInv, SubmitInv, Hit, Missed, Store!Stored
    <3>4. RowInv(k)'
      BY <2>2, <3>1
      DEF JobInv, CallsInv, SubmitInv, RowInv, Untaken, Working, Hit, Missed, Store!Stored, Marks
    <3>5. EndInv(k)' /\ FileInv(k)'
      BY <2>2, <3>1 DEF JobInv, EndInv, FileInv
    <3> QED
      BY <3>2, <3>3, <3>4, <3>5 DEF JobInv
  <2>3. CASE r = "delete"
    <3>1. op = "delete"
      BY <2>3 DEF JobInv, CallsInv
    <3>2. CallsInv(k)'
      BY <2>3, <3>1 DEF JobInv, CallsInv
    <3>3. LateInv(k)' /\ SubmitInv(k)'
      BY <2>3, <3>1 DEF JobInv, LateInv, SubmitInv, Store!Stored
    <3>4. RowInv(k)'
      <4>1. \A i \in {"submit", "task"} : call'[<<k, i>>].reply = call[<<k, i>>].reply
        BY <2>3
      <4>2. CASE hit
        BY <3>1, <4>1, <4>2 DEF JobInv, RowInv, Untaken, Working, Store!Stored
      <4>3. CASE ~hit
        BY <3>1, <4>1, <4>3 DEF JobInv, RowInv, Untaken, Working, Store!Stored
      <4> QED
        BY <4>2, <4>3
    <3>5. EndInv(k)' /\ FileInv(k)'
      BY <2>3, <3>1 DEF JobInv, EndInv, FileInv, Store!Stored
    <3> QED
      BY <3>2, <3>3, <3>4, <3>5 DEF JobInv
  <2> QED
    BY <2>1, <2>2, <2>3 DEF Roles
<1> QED
  BY <1>2, <1>7, <1>8, OneJob

\* The call raises instead: an error is no answer about the row.
LEMMA ExecuteFailsOK ==
    ASSUME OwnInv, NEW k \in Jobs, NEW r \in Roles, ExecuteFails(<<k, r>>)
    PROVE  \A j \in Jobs : JobInv(j)'
<1>1. /\ call'[<<k, r>>] = [call[<<k, r>>] EXCEPT !.reply = "error"]
      /\ \A i \in Roles \ {r} : call'[<<k, i>>] = call[<<k, i>>]
      /\ \A j \in Jobs \ {k}, i \in Roles : call'[<<j, i>>] = call[<<j, i>>]
  BY OneCall DEF OwnInv, ExecuteFails
<1>2. /\ Replied(<<k, r>>, {"pending"})
      /\ UNCHANGED <<rows, purged, phase, wiped, submit, task, cancel, file, late>>
  BY DEF ExecuteFails, handlers, process
<1>3. JobInv(k) /\ call[<<k, r>>] \in Calls
  BY DEF OwnInv, Typed, TypeOK, ProcessOK, Callers
<1>4. /\ \A i \in Roles : call'[<<k, i>>].op = call[<<k, i>>].op
      /\ \A i \in Roles \ {r} : call'[<<k, i>>].reply = call[<<k, i>>].reply
      /\ call'[<<k, r>>].reply = "error"
  BY <1>1, <1>3 DEF Calls
<1>5. \A j \in Jobs \ {k} : Same(j)
  BY <1>1, <1>2 DEF Same, LateOf, Gone
<1>6. JobInv(k)'
  <2> USE <1>2, <1>3, <1>4
        DEF Idle, Replied, TaskReplied, Roles, Began, Gone, Live, Late, LateOf
  <2>1. CallsInv(k)'
    BY DEF JobInv, CallsInv
  <2>2. LateInv(k)' /\ SubmitInv(k)'
    BY DEF JobInv, CallsInv, LateInv, SubmitInv, Store!Stored
  <2>3. RowInv(k)' /\ EndInv(k)' /\ FileInv(k)'
    BY DEF JobInv, RowInv, EndInv, FileInv, Untaken, Working, Open, Settled, Store!InStatus,
           Store!Stored
  <2> QED
    BY <2>1, <2>2, <2>3 DEF JobInv
<1> QED
  BY <1>2, <1>5, <1>6, OneJob

\* A thread executes a call that nobody awaits any more.
LEMMA ExecuteLateOK ==
    ASSUME OwnInv, NEW l \in late, ExecuteLate(l)
    PROVE  \A j \in Jobs : JobInv(j)'
<1> DEFINE k == l.job
           hit == Hits(l.op, k, l.arg)
<1>1. /\ k \in Jobs /\ l.op \in Ops /\ l.arg \in ArgsOf(l.op) /\ l \in LateOf(k)
      /\ Perform(l.op, k, l.arg) /\ late' = late \ {l}
      /\ UNCHANGED <<phase, wiped, submit, task, cancel, file, call>>
  BY DEF OwnInv, Typed, TypeOK, ProcessOK, LateCalls, LateOf, ExecuteLate, handlers, process
<1>2. /\ JobInv(k) /\ (Gone(k) => ~Store!Stored(k))
      /\ phase \notin {"down", "wiping"} /\ submit[k] # "none"
  BY <1>1 DEF OwnInv, Typed, Store!NoResurrection, Gone, JobInv, CallsInv, SubmitInv, Late
<1>3. /\ \A j \in Jobs \ {k} : rows'[j] = rows[j] /\ (Gone(j)' <=> Gone(j))
      /\ l.op = "add" => ~Began(k) /\ ~Gone(k)' /\ Store!InStatus(k, {"queued"})' /\ hit
      /\ l.op \in Marks => (Gone(k)' <=> Gone(k)) /\ IF hit THEN Hit(l.op, k) ELSE Missed(l.op, k)
      /\ l.op = "delete" => IF hit THEN Store!Stored(k) /\ ~Store!Stored(k)' /\ Gone(k)'
                            ELSE rows'[k] = rows[k] /\ (Gone(k)' <=> Gone(k))
  BY <1>1, Performs DEF OwnInv
<1>4. \A j \in Jobs \ {k} : Same(j)
  BY <1>1, <1>3 DEF Same, LateOf
<1> HIDE DEF hit, k
<1>5. /\ \A S : Late(k, S)' => Late(k, S)
      /\ LateOf(k)' = LateOf(k) \ {l}
  BY <1>1 DEF Late, LateOf
<1>6. JobInv(k)'
  <2> USE <1>1, <1>2, <1>3, <1>5
        DEF Idle, Replied, TaskReplied, Roles, Began, Gone, Live, Open, Settled, Store!InStatus
  <2>1. CASE l.op = "add"
    <3>1. submit[k] = "cancelled" /\ ~Late(k, {"add"})'
      BY <2>1 DEF JobInv, LateInv, Late
    <3>2. CallsInv(k)' /\ LateInv(k)'
      BY <2>1, <3>1 DEF JobInv, CallsInv, LateInv
    <3>3. SubmitInv(k)'
      BY <2>1, <3>1 DEF JobInv, SubmitInv
    <3>4. RowInv(k)'
      <4>1. ~Working(k) /\ ~(task[k] \in {"recording", "rescuing"} /\ TaskReplied(k, {"hit"}))
        BY <2>1 DEF JobInv, RowInv, Store!Stored
      <4>2. ~(task[k] = "recording" /\ TaskReplied(k, {"miss"}))
        BY <2>1 DEF JobInv, RowInv
      <4> QED
        BY <2>1, <3>1, <4>1, <4>2 DEF RowInv, Untaken, Working
    <3>5. EndInv(k)'
      BY <2>1, <3>1 DEF JobInv, SubmitInv, EndInv
    <3>6. FileInv(k)'
      BY <2>1, <3>1 DEF JobInv, FileInv
    <3> QED
      BY <3>2, <3>3, <3>4, <3>5, <3>6 DEF JobInv
  <2>2. CASE l.op \in Marks
    <3>1. task[k] = "ended" /\ submit[k] # "adding"
      BY <2>2 DEF JobInv, LateInv, SubmitInv, Late
    <3>2. CallsInv(k)'
      BY <2>2, <3>1 DEF JobInv, CallsInv
    <3>3. LateInv(k)' /\ SubmitInv(k)'
      BY <2>2, <3>1 DEF JobInv, LateInv, SubmitInv, Hit, Missed, Store!Stored
    <3>4. RowInv(k)' /\ EndInv(k)' /\ FileInv(k)'
      BY <2>2, <3>1 DEF JobInv, RowInv, EndInv, FileInv, Untaken, Working, Hit, Missed,
                        Store!Stored
    <3> QED
      BY <3>2, <3>3, <3>4 DEF JobInv
  <2>3. CASE l.op = "delete"
    <3>1. CallsInv(k)'
      BY <2>3 DEF JobInv, CallsInv
    <3>2. LateInv(k)' /\ SubmitInv(k)'
      BY <2>3 DEF JobInv, LateInv, SubmitInv, Store!Stored
    <3>3. RowInv(k)'
      <4>1. CASE hit
        BY <2>3, <4>1 DEF JobInv, RowInv, Untaken, Working, Store!Stored
      <4>2. CASE ~hit
        BY <2>3, <4>2 DEF JobInv, RowInv, Untaken, Working, Store!Stored
      <4> QED
        BY <4>1, <4>2
    <3>4. EndInv(k)' /\ FileInv(k)'
      BY <2>3 DEF JobInv, EndInv, FileInv, Store!Stored
    <3> QED
      BY <3>1, <3>2, <3>3, <3>4 DEF JobInv
  <2> QED
    BY <2>1, <2>2, <2>3 DEF Ops, Marks
<1> QED
  BY <1>1, <1>4, <1>6, OneJob

\* The retention purge may take the row of any job, whoever works on it.
LEMMA PurgeOK ==
    ASSUME OwnInv, Purge
    PROVE  \A j \in Jobs : JobInv(j)'
<1> SUFFICES ASSUME NEW j \in Jobs
             PROVE  JobInv(j)'
  OBVIOUS
<1>1. /\ phase \in {"serving", "draining"} /\ JobInv(j) /\ (Gone(j) => ~Store!Stored(j))
      /\ UNCHANGED <<phase, wiped, submit, task, cancel, file, call, late>>
  BY DEF OwnInv, Typed, Store!NoResurrection, Gone, Purge, handlers, process
<1>2. CASE rows'[j] = rows[j] /\ (Gone(j)' <=> Gone(j))
  <2>1. Same(j)
    BY <1>1, <1>2 DEF Same, LateOf
  <2> QED
    BY <1>1, <2>1, SameOK
<1>3. CASE Store!Stored(j) /\ ~Store!Stored(j)' /\ Gone(j)'
  <2> USE <1>1, <1>3
        DEF Idle, Replied, TaskReplied, Roles, Began, Gone, Live, Late, LateOf, Open, Settled,
            Store!InStatus
  <2>1. submit[j] # "none"
    BY DEF JobInv, SubmitInv
  <2>2. CallsInv(j)'
    BY DEF JobInv, CallsInv
  <2>3. LateInv(j)' /\ SubmitInv(j)'
    BY <2>1 DEF JobInv, LateInv, SubmitInv
  <2>4. RowInv(j)'
    BY DEF JobInv, RowInv, Untaken, Working
  <2>5. EndInv(j)' /\ FileInv(j)'
    BY DEF JobInv, EndInv, FileInv
  <2> QED
    BY <2>2, <2>3, <2>4, <2>5 DEF JobInv
<1> QED
  <2>1. PICK cutoff \in Times : Store!DropRows(Store!Expired(cutoff))
    BY DEF Purge, Store!PurgeOlderThan
  <2> QED
    BY <1>2, <1>3, <2>1 DEF Store!DropRows, Store!Expired, Store!Stored, Gone

-----------------------------------------------------------------------------
\* The process.

LEMMA ShutdownOK ==
    ASSUME OwnInv, Shutdown
    PROVE  \A j \in Jobs : JobInv(j)'
<1> SUFFICES ASSUME NEW j \in Jobs
             PROVE  JobInv(j)'
  OBVIOUS
<1> USE DEF Idle, Replied, TaskReplied, Roles, Began, Gone, Live, Late, LateOf, Open, Settled,
            Store!InStatus, Store!Stored
<1>1. /\ phase = "serving" /\ phase' = "draining" /\ JobInv(j)
      /\ UNCHANGED <<rows, purged, wiped, submit, task, file, call, late>>
  BY DEF OwnInv, Shutdown
<1>2. CallsInv(j)' /\ LateInv(j)' /\ SubmitInv(j)'
  BY <1>1 DEF JobInv, CallsInv, LateInv, SubmitInv
<1>3. RowInv(j)' /\ EndInv(j)' /\ FileInv(j)'
  BY <1>1 DEF JobInv, RowInv, EndInv, FileInv, Untaken, Working
<1> QED
  BY <1>2, <1>3 DEF JobInv

\* Whatever a process was doing, its end leaves rows and files as they are and
\* nobody who works on them.
LEMMA ProcessEndsOK ==
    ASSUME OwnInv, ProcessEnds
    PROVE  \A j \in Jobs : JobInv(j)'
<1> SUFFICES ASSUME NEW j \in Jobs
             PROVE  JobInv(j)'
  OBVIOUS
<1> USE DEF Idle, Replied, TaskReplied, Roles, Began, Gone, Live, Late, LateOf, Open, Settled,
            Store!InStatus, Store!Stored
<1>1. /\ phase' = "down" /\ late' = {} /\ JobInv(j)
      /\ submit'[j] = IF submit[j] \in {"adding", "cancelled"} THEN "lost" ELSE submit[j]
      /\ task'[j] = IF submit[j] = "none" THEN "none" ELSE "lost"
      /\ cancel'[j] = FALSE /\ file'[j] = file[j]
      /\ \A r \in Roles : call'[<<j, r>>] = NoCall
      /\ UNCHANGED <<rows, purged>>
  BY DEF OwnInv, ProcessEnds, Callers
<1>2. submit'[j] \notin {"adding", "cancelled"} /\ task'[j] \in {"none", "lost"}
  BY <1>1
<1>3. CallsInv(j)'
  BY <1>1, <1>2 DEF CallsInv, NoCall
<1>4. LateInv(j)' /\ SubmitInv(j)'
  BY <1>1, <1>2 DEF JobInv, LateInv, SubmitInv, NoCall
<1>5. RowInv(j)' /\ EndInv(j)' /\ FileInv(j)'
  BY <1>1, <1>2 DEF RowInv, EndInv, FileInv, Untaken, Working, NoCall
<1> QED
  BY <1>3, <1>4, <1>5 DEF JobInv

\* The sweep settles every row that a dead process left incomplete.
LEMMA BootSweepOK ==
    ASSUME OwnInv, BootSweep
    PROVE  \A j \in Jobs : JobInv(j)'
<1> SUFFICES ASSUME NEW j \in Jobs
             PROVE  JobInv(j)'
  OBVIOUS
<1>1. /\ phase = "down" /\ phase' = "wiping" /\ JobInv(j)
      /\ UNCHANGED <<purged, wiped, submit, task, cancel, file, call, late>>
      /\ rows'[j] = IF Open(j) THEN Store!Failed(rows[j], Interrupted) ELSE rows[j]
  BY DEF OwnInv, BootSweep, handlers, Store!SweepIncomplete, Store!FailRows,
         Store!Incomplete, Open
<1>2. ~Open(j)' /\ (Store!Stored(j)' <=> Store!Stored(j))
  <2>1. CASE Open(j)
    <3>1. rows[j] \in Store!Row
      BY <2>1 DEF OwnInv, Typed, TypeOK, Store!TypeOK, Open, Store!InStatus, Store!Stored
    <3>2. Store!Failed(rows[j], Interrupted) \in Store!Row
      BY <3>1, DetailsAssumption DEF Store!Failed, Store!Row, Store!JobStatus
    <3>3. Store!Failed(rows[j], Interrupted).status = "failed"
      BY <3>1 DEF Store!Failed, Store!Row
    <3>4. rows'[j] \in Store!Row /\ rows'[j].status = "failed"
      BY <1>1, <2>1, <3>2, <3>3
    <3> QED
      BY <2>1, <3>4, StoreAssumptions DEF Open, Store!InStatus, Store!Stored
  <2>2. CASE ~Open(j)
    BY <1>1, <2>2 DEF Open, Store!InStatus, Store!Stored
  <2> QED
    BY <2>1, <2>2
<1>3. /\ \A r \in Roles : Idle(<<j, r>>) /\ Replied(<<j, r>>, {"none"})
      /\ submit[j] # "adding" /\ task[j] \in {"none", "lost"} /\ ~cancel[j]
  BY <1>1 DEF JobInv, CallsInv, Roles
<1> USE <1>1, <1>2, <1>3
      DEF Idle, Replied, TaskReplied, Roles, Began, Gone, Live, Late, LateOf
<1>4. CallsInv(j)'
  BY DEF JobInv, CallsInv
<1>5. LateInv(j)' /\ SubmitInv(j)'
  BY DEF JobInv, LateInv, SubmitInv
<1>6. RowInv(j)' /\ EndInv(j)' /\ FileInv(j)'
  BY DEF JobInv, RowInv, EndInv, FileInv, Untaken, Working
<1> QED
  BY <1>4, <1>5, <1>6 DEF JobInv

\* The wipe takes the uploads, or says that it left some.
LEMMA BootWipeOK ==
    ASSUME OwnInv, BootWipe \/ BootWipeFails
    PROVE  \A j \in Jobs : JobInv(j)'
<1> SUFFICES ASSUME NEW j \in Jobs
             PROVE  JobInv(j)'
  OBVIOUS
<1>1. /\ phase = "wiping" /\ phase' = "serving" /\ JobInv(j)
      /\ UNCHANGED <<rows, purged, submit, task, cancel, call, late>>
      /\ file'[j] => file[j] /\ ~wiped'
  BY DEF OwnInv, BootWipe, BootWipeFails
<1>2. /\ \A r \in Roles : Idle(<<j, r>>) /\ Replied(<<j, r>>, {"none"})
      /\ submit[j] \notin {"adding", "cancelled"} /\ task[j] \in {"none", "lost"} /\ ~cancel[j]
  BY <1>1 DEF JobInv, CallsInv, Roles
<1> USE <1>1, <1>2
      DEF Idle, Replied, TaskReplied, Roles, Began, Gone, Live, Late, LateOf, Open, Settled,
          Store!InStatus, Store!Stored
<1>3. CallsInv(j)'
  BY DEF JobInv, CallsInv
<1>4. LateInv(j)' /\ SubmitInv(j)'
  BY DEF JobInv, LateInv, SubmitInv
<1>5. RowInv(j)' /\ EndInv(j)' /\ FileInv(j)'
  BY DEF JobInv, SubmitInv, RowInv, EndInv, FileInv, Untaken, Working
<1> QED
  BY <1>3, <1>4, <1>5 DEF JobInv

\* A process that has done nothing yet.
LEMMA InitOwn ==
    ASSUME Init
    PROVE  \A j \in Jobs : JobInv(j)
<1> SUFFICES ASSUME NEW j \in Jobs
             PROVE  JobInv(j)
  OBVIOUS
<1>1. /\ phase = "down" /\ late = {} /\ rows[j] = Null /\ ~Gone(j)
      /\ submit[j] = "none" /\ task[j] = "none" /\ cancel[j] = FALSE /\ file[j] = FALSE
      /\ \A r \in Roles : call[<<j, r>>] = NoCall
  BY DEF Init, Store!Init, Gone, Callers
<1>2. ~Began(j) /\ ~Live(j) /\ ~Untaken(j) /\ ~Working(j) /\ \A S : ~Late(j, S)
  BY <1>1 DEF Began, Store!Stored, Live, Untaken, Working, Late, LateOf
<1>3. \A r \in Roles : Idle(<<j, r>>) /\ \A S : Replied(<<j, r>>, S) <=> "none" \in S
  BY <1>1 DEF Idle, Replied, NoCall
<1>4. CallsInv(j) /\ LateInv(j) /\ SubmitInv(j)
  BY <1>1, <1>2, <1>3 DEF CallsInv, LateInv, SubmitInv, LateOf, Began, Roles, Idle, NoCall
<1>5. RowInv(j) /\ EndInv(j) /\ FileInv(j)
  BY <1>1, <1>2 DEF RowInv, EndInv, FileInv
<1> QED
  BY <1>4, <1>5 DEF JobInv

LEMMA StepOwn ==
    ASSUME OwnInv, [Next]_vars
    PROVE  \A j \in Jobs : JobInv(j)'
<1>1. ASSUME NEW c \in Callers, Execute(c) \/ ExecuteFails(c)
      PROVE  \A j \in Jobs : JobInv(j)'
  <2>1. PICK k \in Jobs, r \in Roles : c = <<k, r>>
    BY DEF Callers
  <2> QED
    BY <1>1, <2>1, ExecuteOK, ExecuteFailsOK
<1>2. ASSUME NEW k \in Jobs, SubmitEnds(k)
      PROVE  \A j \in Jobs : JobInv(j)'
  BY <1>2, HandOffOK DEF SubmitEnds, SubmitAccepted, SubmitFailed, SubmitCancelled
<1>3. ASSUME NEW k \in Jobs, TaskSteps(k)
      PROVE  \A j \in Jobs : JobInv(j)'
  <2>1. CASE TaskStarts(k) \/ ParseSucceeds(k) \/ ParseFails(k) \/ TaskRescues(k)
    BY <2>1, TaskAwaitsOK DEF TaskStarts, ParseSucceeds, ParseFails, TaskRescues
  <2>2. CASE TaskSkips(k) \/ TaskRecorded(k) \/ TaskRescued(k)
    BY <2>2, TaskEndsOK DEF TaskSkips, TaskRecorded, TaskRescued
  <2> QED
    BY <1>3, <2>1, <2>2, TaskParsesOK, TaskCancelledOK, TaskNeverRunsOK DEF TaskSteps
<1>4. CASE Exit \/ Crash
  BY <1>4, ProcessEndsOK DEF Exit, Crash
<1>5. CASE UNCHANGED vars
  <2>1. \A j \in Jobs : Same(j)
    BY <1>5 DEF vars, Same, LateOf, Gone
  <2> QED
    BY <1>5, <2>1, SameOK DEF vars, OwnInv
<1> QED
  BY <1>1, <1>2, <1>3, <1>4, <1>5, ExecuteLateOK, SubmitBeginOK, DeleteBeginOK,
     DeleteEndsOK, PurgeOK, ShutdownOK, BootSweepOK, BootWipeOK
  DEF Next

THEOREM OwnershipInvariant == Spec => []OwnInv
<1>1. Init => \A j \in Jobs : JobInv(j)
  BY InitOwn
<1>2. OwnInv /\ [Next]_vars => (\A j \in Jobs : JobInv(j))'
  BY StepOwn
<1> DEFINE Rest == \A j \in Jobs : JobInv(j)
<1>3. OwnInv <=> Typed /\ Rest
  BY DEF OwnInv
<1>4. Spec => []Typed
  BY TypeCorrect, RowsCorrect, PTL DEF Typed
<1> HIDE DEF Rest
<1>5. (Init => Rest) /\ (OwnInv /\ [Next]_vars => Rest')
  BY <1>1, <1>2 DEF Rest
<1> QED
  BY <1>3, <1>4, <1>5, PTL DEF Spec

\* The task finds the upload it is to parse: nobody deletes it under it, the
\* cancelled submission and the startup wipe included.
THEOREM UploadsHeld == Spec => []UploadHeldForParse
<1>1. OwnInv => UploadHeldForParse
  BY DEF OwnInv, JobInv, FileInv, UploadHeldForParse, Live
<1> QED
  BY <1>1, OwnershipInvariant, PTL

\* A parse is only ever of a job whose row says running, or of one deleted or
\* expired since: the queued -> running guard is also a dispatch guard.
THEOREM ParsedRuns == Spec => []ParsedIsRunning
<1>1. OwnInv => ParsedIsRunning
  BY DEF OwnInv, JobInv, RowInv, Working, Gone, ParsedIsRunning
<1> QED
  BY <1>1, OwnershipInvariant, PTL

\* "mark_done matched no running row, result dropped" is only ever logged for a
\* job that was deleted or expired, or that no client was promised.
THEOREM OutcomesReachRows == Spec => []DroppedOnlyIfDeleted
<1>1. OwnInv => DroppedOnlyIfDeleted
  BY DEF OwnInv, JobInv, RowInv, TaskReplied, Gone, DroppedOnlyIfDeleted
<1> QED
  BY <1>1, OwnershipInvariant, PTL

\* What was answered 201 is in the table until it is deleted or expires.
THEOREM AcceptedStays == Spec => []AcceptedIsKept
<1>1. OwnInv => AcceptedIsKept
  BY DEF OwnInv, JobInv, SubmitInv, Began, Gone, AcceptedIsKept
<1> QED
  BY <1>1, OwnershipInvariant, PTL

\* A queued or running row of a serving process has a task, or a handler about
\* to create one, but for the two ways out the property names.
THEOREM IncompleteOwned == Spec => []IncompleteIsOwned
<1>1. OwnInv => IncompleteIsOwned
  <2> SUFFICES ASSUME OwnInv, phase = "serving", NEW j \in Store!Incomplete,
                      ~Live(j), submit[j] # "adding", task[j] # "unrecorded"
               PROVE  submit[j] = "cancelled" /\ task[j] = "ended"
    BY DEF IncompleteIsOwned
  <2>1. j \in Jobs /\ Open(j) /\ Store!Stored(j) /\ JobInv(j)
    BY DEF Store!Incomplete, Open, Store!InStatus, OwnInv
  <2>2. ~Gone(j)
    BY <2>1 DEF OwnInv, Typed, Store!NoResurrection, Gone
  <2>3. task[j] \in {"none", "ended", "neverRan", "lost"}
    BY <2>1 DEF OwnInv, Typed, TypeOK, ProcessOK, Live
  <2>4. task[j] # "none"
    BY <2>1, <2>2 DEF JobInv, SubmitInv, Began
  <2> QED
    BY <2>1, <2>2, <2>3, <2>4 DEF JobInv, EndInv
<1> QED
  BY <1>1, OwnershipInvariant, PTL

\* No upload is on disk without a coroutine, or the next startup, to delete it.
THEOREM UploadsOwned == Spec => []UploadIsOwned
<1>1. OwnInv => UploadIsOwned
  BY DEF OwnInv, JobInv, FileInv, UploadIsOwned
<1> QED
  BY <1>1, OwnershipInvariant, PTL

\* What is left of AcceptedSettles when fairness is taken away: in a serving
\* process, of this life or a later one, a job that was answered 201 and has no
\* live task has its outcome or is gone, unless both attempts to record raised.
RestsSettled ==
    phase = "serving" =>
        \A j \in Jobs : submit[j] = "accepted" /\ ~Live(j) => Settled(j) \/ task[j] = "unrecorded"

THEOREM AcceptedRestsSettled == Spec => []RestsSettled
<1>1. OwnInv => RestsSettled
  <2> SUFFICES ASSUME OwnInv, phase = "serving", NEW j \in Jobs, submit[j] = "accepted",
                      ~Live(j), task[j] # "unrecorded"
               PROVE  Settled(j)
    BY DEF RestsSettled
  <2>1. JobInv(j) /\ (Store!Stored(j) \/ Gone(j))
    BY DEF OwnInv, JobInv, SubmitInv, Began
  <2>2. task[j] \in {"ended", "neverRan", "lost"}
    BY <2>1 DEF OwnInv, Typed, TypeOK, ProcessOK, Live, JobInv, SubmitInv
  <2>3. ~Open(j) \/ Gone(j)
    BY <2>1, <2>2 DEF JobInv, EndInv
  <2>4. Store!Stored(j) => rows[j].status \in {"queued", "running", "done", "failed"}
    BY DEF OwnInv, Typed, TypeOK, Store!TypeOK, Store!Row, Store!JobStatus, Store!Stored
  <2> QED
    BY <2>1, <2>3, <2>4 DEF Open, Settled, Gone, Store!InStatus
<1> QED
  BY <1>1, OwnershipInvariant, PTL
-----------------------------------------------------------------------------
\* The detail of the sweep.  No coroutine ever awaits its writing, and no call
\* that outlives one has it.
ArgInv ==
    /\ \A c \in Callers : call[c].op = "mark_failed" => call[c].arg # Interrupted
    /\ \A l \in late : l.op = "mark_failed" => l.arg # Interrupted

Swept(j) == Store!Stored(j) /\ rows[j].detail = Interrupted

LEMMA AwaitArg ==
    ASSUME Typed, ArgInv, NEW c \in Callers, NEW op, NEW arg, call' = Await(c, op, arg),
           op = "mark_failed" => arg # Interrupted, late' = late
    PROVE  ArgInv'
  BY DEF ArgInv, Await, Typed, TypeOK, ProcessOK

LEMMA ResumedArg ==
    ASSUME Typed, ArgInv, NEW c \in Callers, call' = Resumed(c),
           late' = late \/ late' \in Abandoned(c)
    PROVE  ArgInv'
<1>1. \A d \in Callers : call'[d] = call[d] \/ call'[d] = NoCall
  BY DEF Resumed, Typed, TypeOK, ProcessOK
<1>2. \A l \in late' : l \in late \/ (l.op = call[c].op /\ l.arg = call[c].arg)
  BY DEF Abandoned
<1> QED
  BY <1>1, <1>2 DEF ArgInv, NoCall

LEMMA ArgStep ==
    ASSUME OwnInv, ArgInv, [Next]_vars
    PROVE  ArgInv'
<1> USE DEF OwnInv
<1>0. \A j \in Jobs, r \in Roles : <<j, r>> \in Callers
  BY DEF Callers
<1>1. ASSUME NEW c \in Callers, Execute(c) \/ ExecuteFails(c) PROVE ArgInv'
  <2>1. PICK x : call' = [call EXCEPT ![c].reply = x] /\ late' = late
    BY <1>1 DEF Execute, ExecuteFails
  <2>2. call \in [Callers -> Calls]
    BY DEF Typed, TypeOK, ProcessOK
  <2>3. \A d \in Callers : call'[d].op = call[d].op /\ call'[d].arg = call[d].arg
    BY <2>1, <2>2 DEF Calls
  <2> QED
    BY <2>1, <2>3 DEF ArgInv
<1>2. ASSUME NEW l \in late, ExecuteLate(l) PROVE ArgInv'
  BY <1>2 DEF ExecuteLate, ArgInv
<1>3. ASSUME NEW j \in Jobs, NEW t \in Tokens, SubmitBegin(j, t) \/ DeleteBegin(j, t)
      PROVE  ArgInv'
  <2>1. /\ late' = late /\ "add" # "mark_failed" /\ "delete" # "mark_failed"
        /\ \/ call' = Await(<<j, "submit">>, "add", t)
           \/ call' = Await(<<j, "delete">>, "delete", t)
    BY <1>3 DEF SubmitBegin, DeleteBegin
  <2>2. <<j, "submit">> \in Callers /\ <<j, "delete">> \in Callers
    BY <1>0 DEF Roles
  <2> QED
    BY <2>1, <2>2, AwaitArg
<1>4. ASSUME NEW j \in Jobs, SubmitEnds(j) \/ DeleteEnds(j) PROVE ArgInv'
  BY <1>0, <1>4, ResumedArg
  DEF SubmitEnds, SubmitAccepted, SubmitFailed, SubmitCancelled, HandOff,
      DeleteEnds, DeleteHit, DeleteMissed, DeleteAbandoned, Roles
<1>5. ASSUME NEW j \in Jobs, TaskSteps(j) PROVE ArgInv'
  <2>1. CASE TaskStarts(j) \/ ParseSucceeds(j) \/ ParseFails(j) \/ TaskRescues(j)
    <3>1. \E op, arg : /\ call' = Await(<<j, "task">>, op, arg) /\ late' = late
                       /\ op = "mark_failed" => arg # Interrupted
      BY <2>1, DetailsAssumption
      DEF TaskStarts, ParseSucceeds, ParseFails, TaskRescues, TaskAwaits
    <3>2. <<j, "task">> \in Callers
      BY <1>0 DEF Roles
    <3> QED
      BY <3>1, <3>2, AwaitArg
  <2>2. CASE TaskSkips(j) \/ TaskParses(j) \/ TaskRecorded(j) \/ TaskRescued(j) \/ TaskCancelled(j)
    BY <1>0, <2>2, ResumedArg
    DEF TaskSkips, TaskParses, TaskRecorded, TaskRescued, TaskCancelled, TaskEnds, Roles
  <2>3. CASE TaskNeverRuns(j)
    BY <2>3 DEF TaskNeverRuns, ArgInv
  <2> QED
    BY <1>5, <2>1, <2>2, <2>3 DEF TaskSteps
<1>6. CASE Exit \/ Crash
  BY <1>6 DEF Exit, Crash, ProcessEnds, ArgInv, NoCall
<1>7. CASE Purge \/ Shutdown \/ BootSweep \/ BootWipe \/ BootWipeFails \/ UNCHANGED vars
  BY <1>7 DEF Purge, Shutdown, BootSweep, BootWipe, BootWipeFails, vars, ArgInv
<1> QED
  BY <1>1, <1>2, <1>3, <1>4, <1>5, <1>6, <1>7 DEF Next

\* What a performed call does to the details.
LEMMA PerformDetail ==
    ASSUME Typed, NEW op \in Ops, NEW k \in Jobs, NEW arg \in ArgsOf(op), Perform(op, k, arg),
           op = "mark_failed" => arg # Interrupted, NEW j \in Jobs, Swept(j)'
    PROVE  Swept(j)
<1> USE StoreAssumptions, DetailsAssumption DEF Swept, Store!Stored, Typed, TypeOK, Store!TypeOK
<1>1. rows'[j] # rows[j] => j = k
  BY Performs
<1>2. Store!Stored(k) => rows[k] \in Store!Row
  OBVIOUS
<1>3. CASE op = "add" /\ j = k
  <2>1. PICK c \in Times : Store!Add(k, arg, c)
    BY <1>3 DEF Perform
  <2>2. rows'[k].detail = Null
    BY <2>1 DEF Store!Add, Store!NewRow
  <2> QED
    BY <1>3, <2>2
<1>4. CASE op = "mark_running" /\ j = k
  <2>1. rows'[k] = rows[k] \/ (Store!Stored(k) /\
             rows'[k] = [rows[k] EXCEPT !.status = "running", !.started = TRUE])
    BY <1>4 DEF Perform, Store!MarkRunning, Store!MarkRunningHits, Store!InStatus
  <2> QED
    BY <1>2, <1>4, <2>1 DEF Store!Row
<1>5. CASE op = "mark_done" /\ j = k
  <2>1. rows'[k] = rows[k] \/ (Store!Stored(k) /\
             rows'[k] = [rows[k] EXCEPT !.status = "done", !.finished = TRUE, !.result = arg])
    BY <1>5 DEF Perform, Store!MarkDone, Store!MarkDoneHits, Store!InStatus
  <2> QED
    BY <1>2, <1>5, <2>1 DEF Store!Row
<1>6. CASE op = "mark_failed" /\ j = k
  <2>1. rows'[k] = rows[k] \/ (Store!Stored(k) /\ rows'[k] = Store!Failed(rows[k], arg))
    BY <1>6 DEF Perform, Store!MarkFailed, Store!FailRows, Store!Incomplete, Store!InStatus
  <2>2. Store!Stored(k) => Store!Failed(rows[k], arg).detail = arg
    BY <1>2 DEF Store!Failed, Store!Row
  <2> QED
    BY <1>6, <2>1, <2>2
<1>7. CASE op = "delete" /\ j = k
  BY <1>7 DEF Perform, Store!Delete, Store!DropRows
<1> QED
  BY <1>1, <1>3, <1>4, <1>5, <1>6, <1>7 DEF Ops

\* A job that is lost with its process has no task in a later one.
LEMMA LostStays ==
    ASSUME OwnInv, [Next]_vars, NEW j \in Jobs, task[j] = "lost"
    PROVE  task'[j] = "lost"
<1>1. task \in [Jobs -> {"none", "created", "marking", "parsing", "recording",
                         "rescuing", "ended", "unrecorded", "neverRan", "lost"}]
  BY DEF OwnInv, Typed, TypeOK, ProcessOK
<1>2. submit[j] \notin {"none", "adding"}
  BY DEF OwnInv, JobInv, SubmitInv
<1>3. ASSUME NEW k \in Jobs, SubmitEnds(k) PROVE task'[j] = "lost"
  BY <1>1, <1>2, <1>3 DEF SubmitEnds, SubmitAccepted, SubmitFailed, SubmitCancelled, HandOff
<1>4. ASSUME NEW k \in Jobs, TaskSteps(k) PROVE task'[j] = "lost"
  <2>1. task[k] # "lost" /\ \E end : task' = [task EXCEPT ![k] = end]
    BY <1>4 DEF TaskSteps, TaskStarts, TaskSkips, TaskParses, ParseSucceeds, ParseFails,
                TaskRecorded, TaskRescues, TaskRescued, TaskCancelled, TaskNeverRuns,
                TaskAwaits, TaskEnds, Live
  <2> QED
    BY <1>1, <2>1
<1>5. CASE Exit \/ Crash
  BY <1>2, <1>5 DEF Exit, Crash, ProcessEnds
<1>6. CASE Shutdown \/ BootWipe \/ BootWipeFails \/ Purge \/ BootSweep \/ UNCHANGED vars
  BY <1>6 DEF Shutdown, BootWipe, BootWipeFails, Purge, BootSweep, vars, handlers
<1>7. ASSUME NEW c \in Callers, Execute(c) \/ ExecuteFails(c) PROVE task'[j] = "lost"
  BY <1>7 DEF Execute, ExecuteFails, handlers
<1>8. ASSUME NEW l \in late, ExecuteLate(l) PROVE task'[j] = "lost"
  BY <1>8 DEF ExecuteLate, handlers
<1>9. ASSUME NEW k \in Jobs, NEW t \in Tokens,
             SubmitBegin(k, t) \/ DeleteBegin(k, t) \/ DeleteEnds(k)
      PROVE  task'[j] = "lost"
  BY <1>9 DEF SubmitBegin, DeleteBegin, DeleteEnds, DeleteHit, DeleteMissed, DeleteAbandoned,
              handlers
<1>10. ASSUME NEW k \in Jobs, DeleteEnds(k) PROVE task'[j] = "lost"
  BY <1>10 DEF DeleteEnds, DeleteHit, DeleteMissed, DeleteAbandoned, handlers
<1> QED
  BY <1>3, <1>4, <1>5, <1>6, <1>7, <1>8, <1>9, <1>10 DEF Next

\* Only the sweep of a boot writes its detail, into rows of a process that is gone.
LEMMA SweptStep ==
    ASSUME OwnInv, ArgInv, InterruptedIsLost, [Next]_vars, NEW j \in Jobs, Swept(j)'
    PROVE  task'[j] = "lost"
<1>1. Swept(j) => task'[j] = "lost"
  BY LostStays DEF InterruptedIsLost, Swept
<1>2. ASSUME NEW c \in Callers, Execute(c) PROVE Swept(j)
  <2>1. /\ call[c] \in Calls /\ call[c].reply = "pending" /\ c[1] \in Jobs
        /\ call[c].op = "mark_failed" => call[c].arg # Interrupted
    BY <1>2 DEF Execute, Replied, OwnInv, Typed, TypeOK, ProcessOK, Callers, ArgInv
  <2>2. call[c].op \in Ops /\ call[c].arg \in ArgsOf(call[c].op)
    BY <2>1 DEF Calls
  <2> QED
    BY <1>2, <2>1, <2>2, PerformDetail DEF Execute, OwnInv
<1>3. ASSUME NEW l \in late, ExecuteLate(l) PROVE Swept(j)
  <2>1. l.job \in Jobs /\ l.op \in Ops /\ l.arg \in ArgsOf(l.op)
    BY DEF OwnInv, Typed, TypeOK, ProcessOK, LateCalls
  <2>2. l.op = "mark_failed" => l.arg # Interrupted
    BY DEF ArgInv
  <2> QED
    BY <1>3, <2>1, <2>2, PerformDetail DEF ExecuteLate, OwnInv
<1>4. CASE Purge
  <2>1. \E S : rows' = [i \in Jobs |-> IF i \in S THEN Null ELSE rows[i]]
    BY <1>4 DEF Purge, Store!PurgeOlderThan, Store!DropRows
  <2>2. rows'[j] = Null \/ rows'[j] = rows[j]
    BY <2>1
  <2>3. Swept(j)
    BY <2>2 DEF Swept, Store!Stored
  <2> QED
    BY <1>1, <2>3
<1>5. CASE BootSweep
  <2>1. /\ phase = "down" /\ task'[j] = task[j] /\ JobInv(j)
        /\ ~Open(j) => rows'[j] = rows[j]
    BY <1>5 DEF OwnInv, BootSweep, handlers, Store!SweepIncomplete, Store!FailRows,
                Store!Incomplete, Open
  <2>2. task[j] \in {"none", "lost"} /\ submit[j] # "adding"
    BY <2>1 DEF JobInv, CallsInv, Roles
  <2>3. CASE Open(j)
    <3>1. Began(j)
      BY <2>3 DEF Open, Began, Store!InStatus
    <3>2. task[j] # "none"
      BY <2>1, <2>2, <3>1 DEF JobInv, SubmitInv
    <3> QED
      BY <2>1, <2>2, <3>2
  <2>4. CASE ~Open(j)
    BY <1>1, <2>1, <2>4 DEF Swept, Store!Stored
  <2> QED
    BY <2>3, <2>4
<1>6. ASSUME NEW k \in Jobs, SubmitEnds(k) \/ DeleteEnds(k) \/ TaskSteps(k)
      PROVE  UNCHANGED rows
  BY <1>6
  DEF SubmitEnds, SubmitAccepted, SubmitFailed, SubmitCancelled, HandOff,
      DeleteEnds, DeleteHit, DeleteMissed, DeleteAbandoned,
      TaskSteps, TaskStarts, TaskSkips, TaskParses, ParseSucceeds, ParseFails,
      TaskRecorded, TaskRescues, TaskRescued, TaskCancelled, TaskNeverRuns, TaskAwaits, TaskEnds
<1>7. ASSUME NEW k \in Jobs, NEW t \in Tokens, SubmitBegin(k, t) \/ DeleteBegin(k, t)
      PROVE  UNCHANGED rows
  BY <1>7 DEF SubmitBegin, DeleteBegin
<1>8. ASSUME NEW c \in Callers, ExecuteFails(c) PROVE UNCHANGED rows
  BY <1>8 DEF ExecuteFails
<1>9. Shutdown \/ Exit \/ Crash \/ BootWipe \/ BootWipeFails \/ UNCHANGED vars => UNCHANGED rows
  BY DEF Shutdown, Exit, Crash, ProcessEnds, BootWipe, BootWipeFails, vars
<1>10. UNCHANGED rows => Swept(j)
  BY DEF Swept, Store!Stored
<1> QED
  BY <1>1, <1>2, <1>3, <1>4, <1>5, <1>6, <1>7, <1>8, <1>9, <1>10 DEF Next

\* No job of the process that runs is ever failed as interrupted by a restart.
THEOREM OnlyLostInterrupted == Spec => []InterruptedIsLost
<1>1. Init => ArgInv /\ InterruptedIsLost
  BY DEF Init, Store!Init, ArgInv, NoCall, InterruptedIsLost, Store!Stored
<1>2. OwnInv /\ ArgInv /\ InterruptedIsLost /\ [Next]_vars => ArgInv' /\ InterruptedIsLost'
  <2> SUFFICES ASSUME OwnInv, ArgInv, InterruptedIsLost, [Next]_vars
               PROVE  ArgInv' /\ InterruptedIsLost'
    OBVIOUS
  <2>1. \A j \in Jobs : Swept(j)' => task'[j] = "lost"
    BY SweptStep
  <2> QED
    BY <2>1, ArgStep DEF InterruptedIsLost, Swept
<1> QED
  BY <1>1, <1>2, OwnershipInvariant, PTL DEF Spec
=============================================================================
