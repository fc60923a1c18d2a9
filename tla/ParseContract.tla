---------------------------- MODULE ParseContract ----------------------------
(***************************************************************************)
(* What WorkerPool.parse promises those who await it (its docstring, and    *)
(* the uses runner.py and convert.py make of it), whatever the pebble pools *)
(* underneath do: the engine runs at most once for a call, on one of        *)
(* worker_count workers; the call ends once, with what the engine did or    *)
(* with a crash; it is cancelled only if its caller asked or the pool was   *)
(* closed, and a caller that asked gets no other answer; and nothing runs   *)
(* for a call that has ended, or once the pool is closed.                   *)
(***************************************************************************)
EXTENDS Naturals, FiniteSets

CONSTANTS
    Parses,     \* calls of parse
    Workers     \* worker_count

VARIABLES
    call,       \* per call: its state, whether its cancellation was asked for,
                \* what the engine did for it and what it returned or raised
    open        \* of the pool: open, closing, closed

Results  == {"document", "unparseable", "timeout"}
Engines  == Results \cup {"none", "running", "lost"}
Outcomes == Results \cup {"none", "crashed", "cancelled", "refused"}

Calls == [state : {"idle", "waiting", "ended"}, asked : BOOLEAN,
          engine : Engines, outcome : Outcomes]

NoCall == [state |-> "idle", asked |-> FALSE, engine |-> "none", outcome |-> "none"]

Waiting(p) == call[p].state = "waiting"
Running    == {p \in Parses : call[p].engine = "running"}

-----------------------------------------------------------------------------
Begins(p) ==
    /\ call[p].state = "idle"
    /\ call' = [call EXCEPT ![p].state = "waiting"]
    /\ UNCHANGED open

Refuses(p) ==
    /\ call[p].state = "idle" /\ open # "open"
    /\ call' = [call EXCEPT ![p] = [@ EXCEPT !.state = "ended", !.outcome = "refused"]]
    /\ UNCHANGED open

Asks(p) ==
    /\ Waiting(p)
    /\ call' = [call EXCEPT ![p].asked = TRUE]
    /\ UNCHANGED open

Runs(p) ==
    /\ Waiting(p) /\ call[p].engine = "none" /\ open # "closed"
    /\ Cardinality(Running) < Workers
    /\ call' = [call EXCEPT ![p].engine = "running"]
    /\ UNCHANGED open

Finishes(p) ==
    /\ call[p].engine = "running"
    /\ \E r \in Results : call' = [call EXCEPT ![p].engine = r]
    /\ UNCHANGED open

\* The workers of these calls die, or their jobs are dropped with their pool.
Lost(S) ==
    /\ \A p \in S : Waiting(p) /\ call[p].engine \in {"none", "running"}
    /\ call' = [p \in Parses |-> IF p \in S THEN [call[p] EXCEPT !.engine = "lost"] ELSE call[p]]

Loses(S) == Lost(S) /\ UNCHANGED open

Answers(p) ==
    /\ Waiting(p) /\ ~call[p].asked
    /\ \E o \in Outcomes :
          /\ \/ o \in Results /\ o = call[p].engine
             \/ o = "crashed" /\ call[p].engine \in {"none", "lost"}
          /\ call' = [call EXCEPT ![p] = [@ EXCEPT !.state = "ended", !.outcome = o]]
    /\ UNCHANGED open

\* What is left of the engine's work for a call that is cancelled.
Left(e) == CASE e = "running" -> {"lost"}
             [] e = "none" -> {"none", "lost"}
             [] OTHER -> {e}

Cancels(p) ==
    /\ Waiting(p) /\ (call[p].asked \/ open # "open")
    /\ \E e \in Left(call[p].engine) :
          call' = [call EXCEPT ![p] = [@ EXCEPT !.state = "ended", !.engine = e,
                                                !.outcome = "cancelled"]]
    /\ UNCHANGED open

Closes == open = "open" /\ open' = "closing" /\ UNCHANGED call

\* The teardown kills every worker.
Closed ==
    /\ open = "closing" /\ open' = "closed"
    /\ \E S \in SUBSET Parses : Running \subseteq S /\ Lost(S)

-----------------------------------------------------------------------------
Init == call = [p \in Parses |-> NoCall] /\ open = "open"

Next ==
    \/ \E p \in Parses : Begins(p) \/ Refuses(p) \/ Asks(p) \/ Runs(p) \/ Finishes(p)
    \/ \E p \in Parses : Answers(p) \/ Cancels(p)
    \/ \E S \in SUBSET Parses : Loses(S)
    \/ Closes \/ Closed

Spec == Init /\ [][Next]_<<call, open>>

-----------------------------------------------------------------------------
TypeOK == call \in [Parses -> Calls] /\ open \in {"open", "closing", "closed"}
=============================================================================
