------------------------------ MODULE Retention ------------------------------
(***************************************************************************)
(* Time in the job machinery: a parse waits for a free worker (pebble's      *)
(* queue is first come, first served), is killed at the job timeout, which  *)
(* runs from its start in a worker (ADR 0001), and purge_loop deletes rows  *)
(* by the age of created_at, once an interval and at every boot.  Parses and  *)
(* the synchronous converts share the workers and their queue.              *)
(*                                                                         *)
(* The clock ticks in fractions of a second, and what is due holds the      *)
(* tick: a free worker takes the next parse, a deadline kills, and the      *)
(* purge runs, before time goes on.  So the purge's own duration, the       *)
(* loop's delays and the grace of a kill (SIGTERM, up to 3 s, SIGKILL) are  *)
(* taken as zero, the clock never jumps, and the pool does not break, which *)
(* would put a parse at the end of a new queue.  All durations are in ticks. *)
(***************************************************************************)
EXTENDS Timestamps, FiniteSets

CONSTANTS
    Parses,       \* the jobs and the converts
    Converts,     \* requests to /v1/convert: they have no row
    Workers,      \* worker_count
    Timeout,      \* job_timeout_seconds
    TTL,          \* result_ttl_seconds
    Interval,     \* purge_interval_seconds
    MaxTime,      \* bound: the last instant
    MaxErrors,    \* bound: purges that raise
    MaxStops      \* bound: the times the server goes down

ASSUME ParsesAssumption == IsFiniteSet(Parses) /\ Converts \subseteq Parses
ASSUME SettingsAssumption ==
    Workers \in Nat \ {0} /\ Timeout \in Nat \ {0} /\ TTL \in Nat \ {0} /\ Interval \in Nat \ {0}
ASSUME BoundsAssumption == MaxTime \in Nat /\ MaxErrors \in Nat /\ MaxStops \in Nat

VARIABLES
    now,
    up,           \* the server runs
    job,          \* per parse: its work, whether it has a row, and its instants
    due,          \* when the purge loop wakes up
    missed,       \* the last purge raised
    errors, stops

server == <<up, due, missed, errors, stops>>
vars == <<now, job, server>>

Instants == 0 .. MaxTime + Interval

\* created, started and finished are 0 until they are known; place is how many
\* parses came before this one, ahead how many of them were waiting or running.
Job == [work : {"none", "waiting", "running", "parsed", "dropped", "over"}, row : BOOLEAN,
        created : Instants, started : Instants, finished : Instants, place : Nat, ahead : Nat]

Blank(w) == [work |-> w, row |-> FALSE, created |-> 0, started |-> 0, finished |-> 0,
             place |-> 0, ahead |-> 0]

Working(S) == {j \in Parses : job[j].work \in S}
Active     == {"waiting", "running"}
Stored     == {j \in Parses : job[j].row}

\* A parse without a row and without work leaves nothing.
Forget(r) == IF r.row \/ r.work \in Active THEN r ELSE Blank("over")

DropRow(r) == Forget([r EXCEPT !.row = FALSE])

-----------------------------------------------------------------------------
\* A parse is scheduled on the pool.
Enters(j) ==
    /\ up /\ job[j].work = "none"
    /\ job' = [job EXCEPT ![j] = [work |-> "waiting", row |-> j \notin Converts,
                                  created |-> now, started |-> 0, finished |-> 0,
                                  place |-> Cardinality({i \in Parses : job[i].work # "none"}),
                                  ahead |-> Cardinality(Working(Active))]]
    /\ UNCHANGED <<now, server>>

\* create_job, add, and the task handing the job to the pool.
Submit(j) == j \notin Converts /\ Enters(j)

\* convert does so in its request.
Convert(j) == j \in Converts /\ Enters(j)

Waiting == Working({"waiting"})
Running == Working({"running"})

Ready == Waiting # {} /\ Cardinality(Running) < Workers

Starts(j) ==
    /\ job' = [job EXCEPT ![j].work = "running", ![j].started = now]
    /\ UNCHANGED <<now, server>>

\* Fault: the newest parse first.
StartNewest ==
    /\ Ready
    /\ \E j \in Waiting : (\A i \in Waiting : job[i].place <= job[j].place) /\ Starts(j)

Start ==
    /\ Ready
    /\ \E j \in Waiting : (\A i \in Waiting : job[j].place <= job[i].place) /\ Starts(j)

Deadline(j) == job[j].started + Timeout

\* The parse ends, at the latest by its timeout, and the outcome of a job is
\* recorded unless the row went meanwhile.
Finish(j) ==
    /\ job[j].work = "running"
    /\ job' = [job EXCEPT ![j] = Forget([@ EXCEPT !.work = "parsed", !.started = 0,
                                                  !.finished = now])]
    /\ UNCHANGED <<now, server>>

\* A cancelled parse leaves the queue or its worker.
Vanishes(j) == up /\ job' = [job EXCEPT ![j] = Blank("over")] /\ UNCHANGED <<now, server>>

\* delete_job: the row goes, and the parse with it.
Delete(j) == job[j].row /\ Vanishes(j)

\* The client of a convert is gone.
Disconnect(j) == j \in Converts /\ job[j].work \in Active /\ Vanishes(j)

-----------------------------------------------------------------------------
\* Fault: the age of a settled job counted from its end.
ExpiredByEnd ==
    {j \in Stored : TextLess(Iso(IF job[j].finished = 0 THEN job[j].created ELSE job[j].finished),
                             Iso(now - TTL))}

\* purge_expired: now - ttl_seconds, compared as text in the DELETE.
Expired == {j \in Stored : TextLess(Iso(job[j].created), Iso(now - TTL))}

Sleeps == due' = now + Interval

PurgeRuns ==
    /\ up /\ now = due
    /\ job' = [j \in Parses |-> IF j \in Expired THEN DropRow(job[j]) ELSE job[j]]
    /\ missed' = FALSE
    /\ Sleeps
    /\ UNCHANGED <<now, up, errors, stops>>

\* An iteration that raises is logged, and the loop sleeps all the same.
PurgeRaises ==
    /\ up /\ now = due
    /\ errors < MaxErrors /\ errors' = errors + 1
    /\ missed' = TRUE
    /\ Sleeps
    /\ UNCHANGED <<now, up, job, stops>>

-----------------------------------------------------------------------------
\* The server goes down, and its jobs with it.
Stops ==
    /\ up /\ stops < MaxStops
    /\ up' = FALSE /\ stops' = stops + 1
    /\ job' = [j \in Parses |-> IF j \in Working(Active)
                                THEN Forget([job[j] EXCEPT !.work = "dropped", !.started = 0])
                                ELSE job[j]]
    /\ UNCHANGED <<now, due, missed, errors>>

\* The startup sweep fails the jobs that were cut off.
Sweep == job' = [j \in Parses |-> IF job[j].row /\ job[j].work = "dropped" /\ job[j].finished = 0
                                  THEN [job[j] EXCEPT !.finished = now] ELSE job[j]]

\* Fault: the loop sleeps before its first purge.
BootSleeping ==
    /\ ~up /\ up' = TRUE
    /\ Sweep
    /\ due' = now + Interval /\ missed' = FALSE
    /\ UNCHANGED <<now, errors, stops>>

\* purge_loop purges before it sleeps.
Boot ==
    /\ ~up /\ up' = TRUE
    /\ Sweep
    /\ due' = now /\ missed' = FALSE
    /\ UNCHANGED <<now, errors, stops>>

Tick ==
    /\ now < MaxTime
    /\ ~Ready
    /\ up => now # due
    /\ \A j \in Running : now # Deadline(j)
    /\ now' = now + 1
    /\ UNCHANGED <<job, server>>

-----------------------------------------------------------------------------
\* The first boot of a server, at any fraction of a second past the first TTL
\* (so that no cut-off falls before the epoch).
Init ==
    /\ now \in TTL .. (TTL + Second - 1) /\ now <= MaxTime
    /\ job = [j \in Parses |-> Blank("none")]
    /\ up = TRUE /\ due = now /\ missed = FALSE
    /\ errors = 0 /\ stops = 0

Next ==
    \/ \E j \in Parses : Submit(j) \/ Convert(j)
    \/ \E j \in Parses : Finish(j)
    \/ \E j \in Parses : Delete(j) \/ Disconnect(j)
    \/ Start \/ PurgeRuns \/ PurgeRaises \/ Stops \/ Boot \/ Tick

Spec == Init /\ [][Next]_vars

-----------------------------------------------------------------------------
TypeOK ==
    /\ now \in 0..MaxTime /\ due \in Instants
    /\ up \in BOOLEAN /\ missed \in BOOLEAN
    /\ job \in [Parses -> Job]
    /\ errors \in 0..MaxErrors /\ stops \in 0..MaxStops

Age(j)     == now - job[j].created
Took(j)    == job[j].finished - job[j].created
Settled(j) == job[j].work = "parsed"
WaitFor(j) == Timeout * (1 + job[j].ahead \div Workers)

\* A parse is over within one timeout for itself and one for every worker_count
\* parses, converts included, it found in the queue and in the workers: whatever
\* comes later does not delay it, as long as the pool does not break.
WaitBounded ==
    \A j \in Parses :
        /\ Settled(j) => Took(j) <= WaitFor(j)
        /\ job[j].work \in Active => Age(j) <= WaitFor(j)

\* No row but a deleted one goes before its time, to the fraction of a second
\* and whatever forms the two texts compared take, so that an outcome stays for
\* pickup for the TTL less the time its job may have taken, behind whatever jobs
\* and converts it found before it.
KeptForPickup ==
    [][\A j \in Stored :
          ~job'[j].row /\ ~Delete(j) =>
              /\ Age(j) > TTL
              /\ Settled(j) => now - job[j].finished > TTL - WaitFor(j)]_vars

\* And none outstays TTL and interval while the server runs, however long it
\* was down before, except after a purge that raised.
GoneInTime == up /\ ~missed /\ now # due => \A j \in Stored : Age(j) <= TTL + Interval

-----------------------------------------------------------------------------
\* A claim of the code that does not hold as written: created_at "differs from
\* [finished_at] by at most the job timeout, so the distinction is immaterial
\* for retention purposes" (domain/ports.py:254-257).
AnchorImmaterial == \A j \in Parses : Settled(j) => Took(j) <= Timeout
=============================================================================
