---------------------------- MODULE JobLifecycle ----------------------------
(***************************************************************************)
(* What a caller of /v1/jobs is promised about one job, whatever the        *)
(* runner, the pool, restarts and retention do underneath: it is queued,    *)
(* then running, then settles exactly once with an outcome that never       *)
(* changes, and once it is forgotten it never comes back.  Failure,         *)
(* restart sweeps and retention act on sets of jobs at once.                *)
(***************************************************************************)
CONSTANTS
    Jobs,       \* job ids
    Outcomes,   \* documents and failure details
    NoOutcome   \* a job that has not settled

VARIABLE job    \* [Jobs -> [status, outcome]], as every caller may observe it

States == {"unknown", "queued", "running", "done", "failed", "forgotten"}

TypeOK == job \in [Jobs -> [status : States, outcome : Outcomes \cup {NoOutcome}]]

Init == job = [j \in Jobs |-> [status |-> "unknown", outcome |-> NoOutcome]]

\* Every job of S leaves a status of From for status To with outcome o.
Move(S, From, To, o) ==
    /\ \A j \in S : job[j].status \in From
    /\ job' = [j \in Jobs |-> IF j \in S THEN [status |-> To, outcome |-> o] ELSE job[j]]

Accept(j)    == Move({j}, {"unknown"}, "queued", NoOutcome)
Start(j)     == Move({j}, {"queued"}, "running", NoOutcome)
Finish(j, o) == Move({j}, {"running"}, "done", o)
Fail(S, o)   == Move(S, {"queued", "running"}, "failed", o)
Forget(S)    == Move(S, {"queued", "running", "done", "failed"}, "forgotten", NoOutcome)

Next ==
    \/ \E j \in Jobs : Accept(j) \/ Start(j)
    \/ \E j \in Jobs, o \in Outcomes : Finish(j, o)
    \/ \E S \in SUBSET Jobs, o \in Outcomes : Fail(S, o)
    \/ \E S \in SUBSET Jobs : Forget(S)

Spec == Init /\ [][Next]_job
=============================================================================
