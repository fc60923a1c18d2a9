-------------------------- MODULE WorkerPoolProofs --------------------------
(***************************************************************************)
(* For any number of parses, workers and breakages: only broken pools are   *)
(* replaced and none of them is forgotten, a closed pool runs nothing, an   *)
(* upload is there while a worker may open it, and the counters agree with  *)
(* what happened to the jobs.                                               *)
(***************************************************************************)
EXTENDS WorkerPool, FiniteSetTheorems, TLAPS

\* The pools up to the current one were created, all before it broke, and each
\* rebuild of them counted.
PoolsInv ==
    /\ \A g \in Pools : status[g] # "none" <=> g <= pool
    /\ \A g \in Pools : g < pool => status[g] = "broken"
    /\ metrics["pool_rebuilds"] = pool

TeardownInv ==
    /\ \A p \in Parses : \A g \in replaced[p] : g < pool
    /\ \A p \in Parses : parse[p] = "ended" <=> outcome[p] # "none"
    /\ \A g \in Pools : g < pool =>
          \/ teardown[g] \in {"queued", "done"}
          \/ teardown[g] = "dropped" /\ \E p \in Parses : g \in replaced[p] /\ outcome[p] = "cancelled"

\* Until aclose, the current pool and those to come are not being torn down.
ClosedInv ==
    /\ closed => closing = {pool}
    /\ ~closed => closing = {} /\ \A g \in Pools : pool <= g => teardown[g] = "none"

\* A job waits or runs for a parse that awaits it, on the current pool.
PendingInv ==
    \A p \in Parses :
        /\ job[p].state \in Pending => /\ parse[p] = "awaiting"
                                       /\ job[p].pool = pool /\ ~Refuses(pool)
        /\ parse[p] \in {"rebuilding", "awaiting"} <=> file[p]
        /\ parse[p] \in {"idle", "rebuilding"} => job[p].state = "none"

Seen(S) == {p \in InState(S) : Ended(p) /\ outcome[p] # "cancelled"}
Dropped == {p \in InState({"cancelled"}) : Ended(p)}

CountersInv ==
    /\ metrics["timeout_kills"] = Cardinality(Seen({"timedOut"}))
    /\ metrics["crashes"] = Cardinality(Seen({"expired", "broken"}))
    /\ metrics["observed"] = Cardinality(Seen({"finished"}))
    /\ metrics["cancellations"] = Cardinality(Dropped)

IInv == TypeOK /\ PoolsInv /\ TeardownInv /\ ClosedInv /\ PendingInv /\ CountersInv

USE ParsesAssumption, PoolsAssumption

JobOK == [pool : Pools, state : JobStates, timeout : BOOLEAN]

\* Settling leaves a job its pool and its deadline.
LEMMA SettleShape ==
    ASSUME TypeOK, NEW S \in SUBSET Parses, NEW s \in Settled \cup {"abandoned", "running"},
           job' = Settle(S, s)
    PROVE  /\ job' \in [Parses -> JobOK]
           /\ \A p \in Parses : /\ job'[p].pool = job[p].pool
                                /\ job'[p].state = IF p \in S THEN s ELSE job[p].state
<1>1. \A p \in Parses : job[p] \in JobOK
  BY DEF TypeOK, JobOK
<1>2. s \in JobStates
  BY DEF JobStates
<1>3. job' = [p \in Parses |-> IF p \in S THEN [job[p] EXCEPT !.state = s] ELSE job[p]]
  BY DEF Settle
<1>4. ASSUME NEW r \in JobOK
      PROVE  /\ [r EXCEPT !.state = s] \in JobOK /\ [r EXCEPT !.state = s].pool = r.pool
             /\ [r EXCEPT !.state = s].state = s
  BY <1>2 DEF JobOK
<1> QED
  BY <1>1, <1>3, <1>4

\* The job of a cancelled parse is cancelled, no other changes its state.
LEMMA CancelShape ==
    ASSUME TypeOK, NEW p \in Parses, job' = Settle({p}, "cancelled")
    PROVE  /\ job'[p].state = "cancelled"
           /\ \A q \in Parses \ {p} : job'[q].state = job[q].state
<1>1. job[p] \in JobOK
  BY DEF TypeOK, JobOK
<1>2. job'[p] = [job[p] EXCEPT !.state = "cancelled"]
  BY DEF Settle
<1>3. \A q \in Parses \ {p} : job'[q] = job[q]
  BY DEF Settle
<1>4. [job[p] EXCEPT !.state = "cancelled"].state = "cancelled"
  BY <1>1 DEF JobOK
<1> QED
  BY <1>2, <1>3, <1>4

LEMMA ScheduleShape ==
    ASSUME TypeOK, NEW p \in Parses, Schedule(p)
    PROVE  /\ job' \in [Parses -> JobOK] /\ \A q \in Parses \ {p} : job'[q] = job[q]
           /\ job'[p].pool = pool /\ job'[p].state = "queued" /\ job'[p].timeout = TRUE
           /\ parse' = [parse EXCEPT ![p] = "awaiting"]
  BY DEF Schedule, TypeOK, JobOK, JobStates

LEMMA CountedShape ==
    ASSUME TypeOK, NEW c \in Counters, metrics' = Counted(c)
    PROVE  /\ metrics' \in [Counters -> Nat] /\ metrics'[c] = metrics[c] + 1
           /\ \A d \in Counters \ {c} : metrics'[d] = metrics[d]
  BY DEF Counted, TypeOK

LEMMA InitInv == Init => IInv
<1> SUFFICES ASSUME Init PROVE IInv
  OBVIOUS
<1>1. 0 \in Pools
  BY DEF Pools
<1>2. TypeOK
  BY <1>1 DEF Init, TypeOK, NoJob, JobStates, Outcomes, Counters
<1>3. \A g \in Pools : g \in Nat
  BY DEF Pools
<1>4. PoolsInv
  BY <1>1, <1>3 DEF Init, PoolsInv, Counters
<1>5. TeardownInv
  BY <1>3 DEF Init, TeardownInv
<1>6. ClosedInv /\ PendingInv
  BY DEF Init, ClosedInv, PendingInv, NoJob, Pending, TypeOK
<1>7. (\A S : Seen(S) = {}) /\ Dropped = {}
  <2>1. \A p \in Parses : ~Ended(p)
    BY DEF Init, Ended
  <2>2. ASSUME NEW S PROVE Seen(S) = {}
    BY <2>1 DEF Seen, InState
  <2> QED
    BY <2>1, <2>2 DEF Dropped, InState
<1>8. CountersInv
  <2>1. Cardinality({}) = 0
    BY FS_EmptySet
  <2> QED
    BY <1>7, <2>1 DEF Init, CountersInv, Counters
<1> QED
  BY <1>2, <1>4, <1>5, <1>6, <1>8 DEF IInv

LEMMA TypeStep ==
    ASSUME TypeOK, [Next]_vars
    PROVE  TypeOK'
<1> USE DEF TypeOK
<1>0. \A g \in Pools : g \in Nat
  BY DEF Pools
<1>1. CASE UNCHANGED vars
  BY <1>1 DEF vars, pools, calls
<1>2. ASSUME NEW p \in Parses, ParseBegins(p) PROVE TypeOK'
  <2>1. CASE ParseRefused(p)
    BY <2>1 DEF ParseRefused, Ends, pools, Outcomes
  <2>2. CASE ParseScheduled(p)
    <3>1. job' \in [Parses -> JobOK]
      BY <2>2, ScheduleShape DEF ParseScheduled
    <3> QED
      BY <2>2, <3>1 DEF ParseScheduled, Staged, Schedule, pools, JobOK
  <2>3. CASE ParseRebuilds(p)
    <3>1. metrics' \in [Counters -> Nat]
      BY <2>3, CountedShape DEF ParseRebuilds, Counters
    <3>2. pool' = pool + 1 /\ pool' \in Pools
      BY <2>3 DEF ParseRebuilds, Pools
    <3> QED
      BY <2>3, <3>1, <3>2 DEF ParseRebuilds, Staged
  <2> QED
    BY <1>2, <2>1, <2>2, <2>3 DEF ParseBegins
<1>3. ASSUME NEW p \in Parses, ParseRetries(p) PROVE TypeOK'
  <2>1. CASE RetryScheduled(p)
    <3>1. job' \in [Parses -> JobOK]
      BY <2>1, ScheduleShape DEF RetryScheduled
    <3> QED
      BY <2>1, <3>1 DEF RetryScheduled, Schedule, pools, JobOK
  <2>2. CASE RetryUnavailable(p)
    BY <2>2 DEF RetryUnavailable, Ends, pools, Outcomes
  <2>3. CASE RebuildCancelled(p)
    BY <2>3 DEF RebuildCancelled, Ends, Outcomes
  <2> QED
    BY <1>3, <2>1, <2>2, <2>3 DEF ParseRetries
<1>4. ASSUME NEW p \in Parses, ParseEnds(p) PROVE TypeOK'
  <2>1. CASE ParseRaises(p)
    BY <2>1 DEF ParseRaises, Ends, pools, Outcomes
  <2>2. CASE ParseReturns(p) \/ ParseTimesOut(p) \/ ParseCrashes(p)
    <3>1. metrics' \in [Counters -> Nat]
      BY <2>2, CountedShape DEF ParseReturns, ParseTimesOut, ParseCrashes, Counters
    <3> QED
      BY <2>2, <3>1 DEF ParseReturns, ParseTimesOut, ParseCrashes, Ends, pools, Outcomes
  <2>3. CASE ParseCancelled(p)
    <3>1. metrics' \in [Counters -> Nat]
      BY <2>3, CountedShape DEF ParseCancelled, Counters
    <3>2. job' \in [Parses -> JobOK]
      BY <2>3, SettleShape DEF ParseCancelled, JobOK, Settled
    <3> QED
      BY <2>3, <3>1, <3>2 DEF ParseCancelled, Ends, pools, Outcomes, JobOK
  <2> QED
    BY <1>4, <2>1, <2>2, <2>3 DEF ParseEnds
<1>5. ASSUME NEW p \in Parses, CancelRequested(p) PROVE TypeOK'
  BY <1>5 DEF CancelRequested, pools
<1>6. CASE Close
  BY <1>6 DEF Close, calls
<1>7. ASSUME NEW g \in Pools, Teardown(g) PROVE TypeOK'
  <2>1. job' \in [Parses -> JobOK]
    BY <1>7, SettleShape DEF Teardown, InState, On, Settled
  <2> QED
    BY <1>7, <2>1 DEF Teardown, calls, JobOK
<1>8. ASSUME NEW p \in Parses, JobStarts(p) \/ JobEnds(p) \/ JobTimesOut(p) PROVE TypeOK'
  <2>1. job' \in [Parses -> JobOK]
    BY <1>8, SettleShape DEF JobStarts, JobEnds, JobTimesOut, Settled
  <2> QED
    BY <1>8, <2>1 DEF JobStarts, JobEnds, JobTimesOut, pools, calls, JobOK
<1>9. ASSUME NEW g \in Pools, PoolBreaks(g) PROVE TypeOK'
  <2>1. job' \in [Parses -> JobOK]
    BY <1>9, SettleShape DEF PoolBreaks, InState, On, Settled
  <2> QED
    BY <1>9, <2>1 DEF PoolBreaks, calls, JobOK
<1> QED
  BY <1>1, <1>2, <1>3, <1>4, <1>5, <1>6, <1>7, <1>8, <1>9 DEF Next

LEMMA PoolsStep ==
    ASSUME TypeOK, PoolsInv, ClosedInv, [Next]_vars
    PROVE  PoolsInv'
<1>0. pool \in Nat /\ \A g \in Pools : g \in Nat
  BY DEF TypeOK, Pools
<1>1. ASSUME NEW p \in Parses, ParseRebuilds(p) PROVE PoolsInv'
  <2>1. pool' = pool + 1 /\ pool' \in Pools /\ status[pool] = "broken"
    <3>1. pool < MaxRebuilds /\ pool' = pool + 1 /\ ~closed /\ Refuses(pool)
      BY <1>1 DEF ParseRebuilds
    <3>2. pool \in Pools /\ pool \in Nat
      BY DEF TypeOK, Pools
    <3>3. teardown[pool] = "none"
      BY <3>1, <3>2 DEF ClosedInv
    <3> QED
      BY <3>1, <3>2, <3>3 DEF Pools, Refuses
  <2>2. metrics'["pool_rebuilds"] = metrics["pool_rebuilds"] + 1
    BY <1>1, CountedShape DEF ParseRebuilds, Counters
  <2> QED
    BY <1>0, <1>1, <2>1, <2>2 DEF ParseRebuilds, PoolsInv, TypeOK
<1>2. ASSUME NEW g \in Pools, PoolBreaks(g) PROVE PoolsInv'
  BY <1>2 DEF PoolBreaks, PoolsInv, TypeOK, calls
<1>3. CASE UNCHANGED <<pool, status>> /\ metrics'["pool_rebuilds"] = metrics["pool_rebuilds"]
  BY <1>3 DEF PoolsInv
<1>4. ASSUME NEW p \in Parses, ParseEnds(p)
      PROVE  UNCHANGED <<pool, status>> /\ metrics'["pool_rebuilds"] = metrics["pool_rebuilds"]
  <2>1. ASSUME NEW c \in Counters \ {"pool_rebuilds"}, metrics' = Counted(c)
        PROVE  metrics'["pool_rebuilds"] = metrics["pool_rebuilds"]
    BY <2>1, CountedShape DEF Counters
  <2> QED
    BY <1>4, <2>1 DEF ParseEnds, ParseReturns, ParseRaises, ParseTimesOut, ParseCrashes,
                      ParseCancelled, pools, Counters
<1>5. ASSUME NEW p \in Parses,
             \/ ParseRefused(p) \/ ParseScheduled(p) \/ ParseRetries(p) \/ CancelRequested(p)
             \/ JobStarts(p) \/ JobEnds(p) \/ JobTimesOut(p)
      PROVE  UNCHANGED <<pool, status, metrics>>
  BY <1>5 DEF ParseRefused, ParseScheduled, ParseRetries, RetryScheduled, RetryUnavailable,
              RebuildCancelled, CancelRequested, JobStarts, JobEnds, JobTimesOut, pools
<1>6. ASSUME UNCHANGED vars \/ Close \/ \E g \in Pools : Teardown(g)
      PROVE  UNCHANGED <<pool, status, metrics>>
  BY <1>6 DEF vars, pools, Close, Teardown
<1> QED
  BY <1>1, <1>2, <1>3, <1>4, <1>5, <1>6 DEF Next, ParseBegins

\* Every parse ends once, and keeps its outcome.
LEMMA EndsShape ==
    ASSUME TypeOK, NEW p \in Parses, NEW how \in Outcomes \ {"none"}, Ends(p, how)
    PROVE  /\ parse'[p] = "ended" /\ outcome'[p] = how /\ ~file'[p]
           /\ \A q \in Parses \ {p} : /\ parse'[q] = parse[q] /\ outcome'[q] = outcome[q]
                                      /\ file'[q] = file[q]
  BY DEF Ends, TypeOK

LEMMA EndingShape ==
    ASSUME TypeOK, NEW p \in Parses, ParseEnds(p)
    PROVE  /\ UNCHANGED <<pools, replaced, cancel>> /\ parse[p] = "awaiting"
           /\ \E how \in Outcomes \ {"none"} : Ends(p, how)
           /\ job' = job \/ (CancelTakesEffect(p) /\ job' = Settle({p}, "cancelled"))
<1>1. CASE ParseReturns(p) \/ ParseRaises(p) \/ ParseTimesOut(p) \/ ParseCrashes(p)
  BY <1>1 DEF ParseReturns, ParseRaises, ParseTimesOut, ParseCrashes, Woken, Outcomes
<1>2. CASE ParseCancelled(p)
  BY <1>2 DEF ParseCancelled, Outcomes
<1> QED
  BY <1>1, <1>2 DEF ParseEnds

LEMMA TeardownStep ==
    ASSUME TypeOK, PoolsInv, TeardownInv, ClosedInv, [Next]_vars
    PROVE  TeardownInv'
<1>0. pool \in Nat /\ \A g \in Pools : g \in Nat
  BY DEF TypeOK, Pools
<1> DEFINE Kept(g) ==
      \/ teardown[g] \in {"queued", "done"}
      \/ teardown[g] = "dropped" /\ \E p \in Parses : g \in replaced[p] /\ outcome[p] = "cancelled"
<1>1. ASSUME NEW p \in Parses, NEW how \in Outcomes \ {"none"}, Ends(p, how),
             parse[p] # "ended", UNCHANGED <<pool, teardown, replaced>>
      PROVE  TeardownInv'
  <2>1. outcome[p] = "none"
    BY <1>1 DEF TeardownInv
  <2>2. \A q \in Parses : parse'[q] = "ended" <=> outcome'[q] # "none"
    BY <1>1, EndsShape DEF TeardownInv
  <2>3. \A q \in Parses : outcome[q] = "cancelled" => outcome'[q] = "cancelled"
    BY <1>1, <2>1, EndsShape
  <2> QED
    BY <1>1, <2>2, <2>3 DEF TeardownInv
<1>2. ASSUME NEW p \in Parses, ParseEnds(p) PROVE TeardownInv'
  BY <1>1, <1>2, EndingShape DEF pools
<1>3. ASSUME NEW p \in Parses, ParseRefused(p) \/ RetryUnavailable(p) PROVE TeardownInv'
  BY <1>1, <1>3 DEF ParseRefused, RetryUnavailable, Resumes, pools, Outcomes
<1>4. ASSUME NEW p \in Parses, ParseScheduled(p) \/ RetryScheduled(p) PROVE TeardownInv'
  <2>1. /\ UNCHANGED <<pool, teardown, replaced, outcome>> /\ parse[p] # "ended"
        /\ parse' = [parse EXCEPT ![p] = "awaiting"]
    BY <1>4 DEF ParseScheduled, RetryScheduled, Staged, Resumes, Schedule, pools
  <2> QED
    BY <2>1 DEF TeardownInv, TypeOK
<1>5. ASSUME NEW p \in Parses, ParseRebuilds(p) PROVE TeardownInv'
  <2>1. /\ pool' = pool + 1 /\ parse[p] = "idle" /\ outcome' = outcome
        /\ teardown' = [teardown EXCEPT ![pool] = "queued"]
        /\ replaced' = [replaced EXCEPT ![p] = {pool}]
        /\ parse' = [parse EXCEPT ![p] = "rebuilding"] /\ ~closed
    BY <1>5 DEF ParseRebuilds, Staged
  <2>2. outcome[p] = "none"
    BY <2>1 DEF TeardownInv
  <2>3. \A q \in Parses : \A g \in replaced'[q] : g < pool'
    BY <1>0, <2>1 DEF TeardownInv, TypeOK
  <2>4. \A q \in Parses : parse'[q] = "ended" <=> outcome'[q] # "none"
    BY <2>1 DEF TeardownInv, TypeOK
  <2>5. ASSUME NEW g \in Pools, g < pool' PROVE Kept(g)'
    <3>1. CASE g = pool
      BY <2>1, <3>1 DEF TypeOK
    <3>2. CASE g < pool
      <4>1. Kept(g) /\ teardown'[g] = teardown[g]
        BY <1>0, <2>1, <3>2 DEF TeardownInv, TypeOK
      <4> QED
        BY <2>1, <2>2, <4>1 DEF TypeOK
    <3> QED
      BY <1>0, <2>1, <2>5, <3>1, <3>2
  <2> QED
    BY <2>3, <2>4, <2>5 DEF TeardownInv
<1>6. ASSUME NEW p \in Parses, RebuildCancelled(p) PROVE TeardownInv'
  <2>1. PICK D \in {{}, {g \in replaced[p] : teardown[g] = "queued"}} :
            teardown' = [g \in Pools |-> IF g \in D THEN "dropped" ELSE teardown[g]]
    BY <1>6 DEF RebuildCancelled
  <2>2. /\ UNCHANGED <<pool, replaced>> /\ parse[p] # "ended" /\ Ends(p, "cancelled")
    BY <1>6 DEF RebuildCancelled
  <2>3. outcome[p] = "none"
    BY <2>2 DEF TeardownInv
  <2>4. \A q \in Parses : parse'[q] = "ended" <=> outcome'[q] # "none"
    BY <2>2, EndsShape DEF TeardownInv, Outcomes
  <2>5. \A q \in Parses : outcome[q] = "cancelled" => outcome'[q] = "cancelled"
    BY <2>2, <2>3, EndsShape DEF Outcomes
  <2>6. outcome'[p] = "cancelled" /\ D \subseteq replaced[p]
    BY <2>1, <2>2, EndsShape DEF Outcomes
  <2>7. ASSUME NEW g \in Pools, g < pool' PROVE Kept(g)'
    <3>1. CASE g \in D
      BY <2>1, <2>2, <2>6, <3>1
    <3>2. CASE g \notin D
      <4>1. Kept(g) /\ teardown'[g] = teardown[g]
        BY <2>1, <2>2, <2>7, <3>2 DEF TeardownInv
      <4> QED
        BY <2>2, <2>5, <4>1
    <3> QED
      BY <3>1, <3>2
  <2> QED
    BY <2>2, <2>4, <2>7 DEF TeardownInv
<1>7. ASSUME NEW p \in Parses,
             CancelRequested(p) \/ JobStarts(p) \/ JobEnds(p) \/ JobTimesOut(p)
      PROVE  TeardownInv'
  BY <1>7 DEF CancelRequested, JobStarts, JobEnds, JobTimesOut, pools, calls, TeardownInv
<1>8. CASE Close
  <2>1. /\ UNCHANGED <<pool, replaced, outcome, parse>>
        /\ teardown' = [teardown EXCEPT ![pool] = "queued"]
    BY <1>8 DEF Close, calls
  <2>2. \A g \in Pools : g < pool => teardown'[g] = teardown[g]
    BY <1>0, <2>1 DEF TypeOK
  <2> QED
    BY <2>1, <2>2 DEF TeardownInv
<1>9. ASSUME NEW h \in Pools, Teardown(h) PROVE TeardownInv'
  <2>1. /\ UNCHANGED <<pool, replaced, outcome, parse>>
        /\ teardown' = [teardown EXCEPT ![h] = "done"] /\ teardown[h] = "queued"
    BY <1>9 DEF Teardown, calls
  <2> QED
    BY <2>1 DEF TeardownInv, TypeOK
<1>10. CASE UNCHANGED vars \/ \E g \in Pools : PoolBreaks(g)
  BY <1>10 DEF vars, pools, calls, PoolBreaks, TeardownInv
<1> QED
  BY <1>2, <1>3, <1>4, <1>5, <1>6, <1>7, <1>8, <1>9, <1>10 DEF Next, ParseBegins, ParseRetries

LEMMA ClosedStep ==
    ASSUME TypeOK, TeardownInv, ClosedInv, [Next]_vars
    PROVE  ClosedInv'
<1>0. pool \in Nat /\ \A g \in Pools : g \in Nat
  BY DEF TypeOK, Pools
<1>1. ASSUME NEW p \in Parses, ParseRebuilds(p) PROVE ClosedInv'
  <2>1. /\ pool' = pool + 1 /\ ~closed /\ UNCHANGED <<closed, closing>>
        /\ teardown' = [teardown EXCEPT ![pool] = "queued"]
    BY <1>1 DEF ParseRebuilds
  <2> QED
    BY <1>0, <2>1 DEF ClosedInv, TypeOK
<1>2. ASSUME NEW p \in Parses, RebuildCancelled(p) PROVE ClosedInv'
  <2>1. PICK D \in {{}, {g \in replaced[p] : teardown[g] = "queued"}} :
            teardown' = [g \in Pools |-> IF g \in D THEN "dropped" ELSE teardown[g]]
    BY <1>2 DEF RebuildCancelled
  <2>2. UNCHANGED <<pool, closed, closing>>
    BY <1>2 DEF RebuildCancelled
  <2>3. \A g \in D : g < pool
    BY <2>1 DEF TeardownInv
  <2> QED
    BY <1>0, <2>1, <2>2, <2>3 DEF ClosedInv, TypeOK
<1>3. CASE Close
  BY <1>3 DEF Close, ClosedInv
<1>4. ASSUME NEW h \in Pools, Teardown(h) PROVE ClosedInv'
  <2>1. /\ UNCHANGED <<pool, closed, closing>>
        /\ teardown' = [teardown EXCEPT ![h] = "done"] /\ teardown[h] = "queued"
    BY <1>4 DEF Teardown
  <2> QED
    BY <2>1 DEF ClosedInv, TypeOK
<1>5. CASE UNCHANGED <<pool, closed, closing, teardown>>
  BY <1>5 DEF ClosedInv
<1>6. ASSUME NEW p \in Parses,
             \/ ParseRefused(p) \/ ParseScheduled(p) \/ RetryScheduled(p) \/ RetryUnavailable(p)
             \/ CancelRequested(p) \/ JobStarts(p) \/ JobEnds(p) \/ JobTimesOut(p)
      PROVE  UNCHANGED <<pool, closed, closing, teardown>>
  BY <1>6 DEF ParseRefused, ParseScheduled, RetryScheduled, RetryUnavailable, CancelRequested,
              JobStarts, JobEnds, JobTimesOut, pools
<1>7. ASSUME NEW p \in Parses, ParseEnds(p) PROVE UNCHANGED <<pool, closed, closing, teardown>>
  BY <1>7, EndingShape DEF pools
<1>8. ASSUME UNCHANGED vars \/ \E g \in Pools : PoolBreaks(g)
      PROVE  UNCHANGED <<pool, closed, closing, teardown>>
  BY <1>8 DEF vars, pools, PoolBreaks
<1> QED
  BY <1>1, <1>2, <1>3, <1>4, <1>5, <1>6, <1>7, <1>8 DEF Next, ParseBegins, ParseRetries

\* What an ending reads of its job.
LEMMA EndingState ==
    ASSUME TypeOK, NEW p \in Parses, ParseEnds(p), job' = job
    PROVE  job[p].state \notin Pending
<1>1. CASE ParseCancelled(p)
  <2>1. CASE CancelTakesEffect(p)
    <3>1. job' = Settle({p}, "cancelled")
      BY <1>1, <2>1 DEF ParseCancelled
    <3>2. job'[p].state = "cancelled"
      BY <3>1, CancelShape
    <3> QED
      BY <3>2 DEF Pending
  <2> QED
    BY <2>1 DEF CancelTakesEffect
<1>2. CASE ParseReturns(p) \/ ParseRaises(p) \/ ParseTimesOut(p) \/ ParseCrashes(p)
  BY <1>2 DEF ParseReturns, ParseRaises, ParseTimesOut, ParseCrashes, Woken, Pending
<1> QED
  BY <1>1, <1>2 DEF ParseEnds

LEMMA PendingStep ==
    ASSUME TypeOK, PoolsInv, TeardownInv, ClosedInv, PendingInv, [Next]_vars
    PROVE  PendingInv'
<1>0. pool \in Pools /\ pool \in Nat /\ \A g \in Pools : g \in Nat
  BY DEF TypeOK, Pools
<1>1. ASSUME NEW p \in Parses, NEW how \in Outcomes \ {"none"}, Ends(p, how), UNCHANGED pools,
             \A q \in Parses \ {p} : job'[q] = job[q], job'[p].state \notin Pending
      PROVE  PendingInv'
  <2>1. Refuses(pool)' = Refuses(pool)
    BY <1>1 DEF Refuses, pools
  <2> QED
    BY <1>1, <2>1, EndsShape DEF PendingInv, pools
<1>2. ASSUME NEW p \in Parses, ParseEnds(p) PROVE PendingInv'
  <2>1. CASE job' = job
    BY <1>1, <1>2, <2>1, EndingShape, EndingState
  <2>2. CASE CancelTakesEffect(p) /\ job' = Settle({p}, "cancelled")
    <3>1. job'[p].state = "cancelled"
      BY <2>2, CancelShape
    <3>2. \A q \in Parses \ {p} : job'[q] = job[q]
      BY <2>2 DEF Settle
    <3> QED
      BY <1>1, <1>2, <3>1, <3>2, EndingShape DEF Pending
  <2> QED
    BY <1>2, <2>1, <2>2, EndingShape
<1>3. ASSUME NEW p \in Parses, ParseRefused(p) \/ RetryUnavailable(p) PROVE PendingInv'
  <2>1. /\ UNCHANGED <<pools, job>> /\ parse[p] \in {"idle", "rebuilding"}
        /\ \E how \in Outcomes \ {"none"} : Ends(p, how)
    BY <1>3 DEF ParseRefused, RetryUnavailable, Resumes, Outcomes
  <2>2. job[p].state \notin Pending
    BY <2>1 DEF PendingInv, Pending
  <2> QED
    BY <1>1, <2>1, <2>2
<1>4. ASSUME NEW p \in Parses, RebuildCancelled(p) PROVE PendingInv'
  <2>1. PICK D \in {{}, {g \in replaced[p] : teardown[g] = "queued"}} :
            teardown' = [g \in Pools |-> IF g \in D THEN "dropped" ELSE teardown[g]]
    BY <1>4 DEF RebuildCancelled
  <2>2. /\ UNCHANGED <<pool, job, status>> /\ parse[p] = "rebuilding" /\ Ends(p, "cancelled")
    BY <1>4 DEF RebuildCancelled
  <2>3. pool \notin D
    BY <1>0, <2>1 DEF TeardownInv
  <2>4. Refuses(pool)' = Refuses(pool)
    BY <1>0, <2>1, <2>2, <2>3 DEF Refuses
  <2>5. job[p].state \notin Pending
    BY <2>2 DEF PendingInv, Pending
  <2>6. \A q \in Parses : /\ job'[q] = job[q]
                          /\ q # p => parse'[q] = parse[q] /\ file'[q] = file[q]
    BY <2>2, EndsShape DEF Outcomes
  <2>7. parse'[p] = "ended" /\ ~file'[p]
    BY <2>2, EndsShape DEF Outcomes
  <2> QED
    BY <2>2, <2>4, <2>5, <2>6, <2>7 DEF PendingInv
<1>5. ASSUME NEW p \in Parses, ParseScheduled(p) \/ RetryScheduled(p) PROVE PendingInv'
  <2>1. /\ Schedule(p) /\ UNCHANGED pools /\ ~Refuses(pool)
    BY <1>5 DEF ParseScheduled, RetryScheduled
  <2>2. (file' = [file EXCEPT ![p] = TRUE]) \/ (file' = file /\ parse[p] = "rebuilding")
    BY <1>5 DEF ParseScheduled, RetryScheduled, Staged, Resumes
  <2>3. file'[p] /\ \A q \in Parses \ {p} : file'[q] = file[q]
    BY <2>2 DEF TypeOK, PendingInv
  <2>0. parse' = [parse EXCEPT ![p] = "awaiting"] /\ parse \in [Parses -> {"idle", "rebuilding", "awaiting", "ended"}]
    BY <2>1, ScheduleShape DEF TypeOK
  <2>4. /\ job'[p].pool = pool /\ parse'[p] = "awaiting"
        /\ \A q \in Parses \ {p} : job'[q] = job[q] /\ parse'[q] = parse[q]
    BY <2>0, <2>1, ScheduleShape
  <2>5. Refuses(pool)' = Refuses(pool)
    BY <2>1 DEF Refuses, pools
  <2> QED
    BY <2>1, <2>3, <2>4, <2>5 DEF PendingInv, pools
<1>6. ASSUME NEW p \in Parses, ParseRebuilds(p) PROVE PendingInv'
  <2>1. /\ Refuses(pool) /\ job' = job /\ parse[p] = "idle"
        /\ parse' = [parse EXCEPT ![p] = "rebuilding"] /\ file' = [file EXCEPT ![p] = TRUE]
    BY <1>6 DEF ParseRebuilds, Staged
  <2>2. \A q \in Parses : job[q].state \notin Pending
    BY <2>1 DEF PendingInv
  <2> QED
    BY <2>1, <2>2 DEF PendingInv, TypeOK
<1>7. ASSUME NEW p \in Parses, NEW s \in Settled \cup {"running"}, job' = Settle({p}, s),
             job[p].state \in Pending, UNCHANGED <<pools, calls>>
      PROVE  PendingInv'
  <2>1. /\ job'[p].state = s /\ job'[p].pool = job[p].pool
        /\ \A q \in Parses \ {p} : job'[q].state = job[q].state /\ job'[q].pool = job[q].pool
    BY <1>7, SettleShape
  <2>2. Refuses(pool)' = Refuses(pool)
    BY <1>7 DEF Refuses, pools
  <2>3. parse[p] = "awaiting" /\ job[p].pool = pool /\ ~Refuses(pool)
    BY <1>7 DEF PendingInv
  <2> QED
    BY <1>7, <2>1, <2>2, <2>3 DEF PendingInv, pools, calls
<1>8. ASSUME NEW p \in Parses, JobStarts(p) \/ JobEnds(p) \/ JobTimesOut(p) PROVE PendingInv'
  BY <1>7, <1>8 DEF JobStarts, JobEnds, JobTimesOut, Settled, Pending
<1>9. CASE Close
  <2>1. /\ UNCHANGED <<pool, status, parse, file, job>>
        /\ teardown' = [teardown EXCEPT ![pool] = "queued"]
    BY <1>9 DEF Close, calls
  <2>2. ~Refuses(pool) => ~Refuses(pool)'
    BY <1>0, <2>1 DEF Refuses, TypeOK
  <2> QED
    BY <2>1, <2>2 DEF PendingInv
<1>10. ASSUME NEW g \in Pools, NEW S \in SUBSET Parses,
              NEW s \in (Settled \cup {"abandoned"}), job' = Settle(S, s), UNCHANGED <<pool, calls>>,
              \A q \in On(g) \cap InState(Pending) : q \in S,
              \A q \in S : job[q].state \in Pending,
              g # pool => Refuses(pool)' = Refuses(pool)
       PROVE  PendingInv'
  <2>1. \A q \in Parses : /\ job'[q].pool = job[q].pool
                          /\ job'[q].state = IF q \in S THEN s ELSE job[q].state
    BY <1>10, SettleShape
  <2>2. \A q \in Parses : job'[q].state \in Pending =>
                              q \notin S /\ job[q].state \in Pending /\ g # pool
    <3> SUFFICES ASSUME NEW q \in Parses, job'[q].state \in Pending
                 PROVE  q \notin S /\ job[q].state \in Pending /\ g # pool
      OBVIOUS
    <3>1. q \notin S /\ job[q].state \in Pending
      BY <2>1 DEF Pending, Settled
    <3>2. job[q].pool = pool
      BY <3>1 DEF PendingInv
    <3> QED
      BY <1>10, <3>1, <3>2 DEF On, InState
  <2>3. \A q \in Parses : job[q].state = "none" => job'[q].state = "none"
    BY <1>10, <2>1 DEF Pending
  <2>4. UNCHANGED <<parse, file, pool>>
    BY <1>10 DEF calls
  <2>5. \A q \in Parses : job'[q].state \in Pending =>
            parse'[q] = "awaiting" /\ job'[q].pool = pool' /\ ~Refuses(pool)'
    BY <1>10, <2>1, <2>2, <2>4 DEF PendingInv
  <2>6. \A q \in Parses : /\ parse'[q] \in {"rebuilding", "awaiting"} <=> file'[q]
                          /\ parse'[q] \in {"idle", "rebuilding"} => job'[q].state = "none"
    BY <2>3, <2>4 DEF PendingInv
  <2> QED
    BY <2>5, <2>6 DEF PendingInv
<1>11. ASSUME NEW g \in Pools, Teardown(g) PROVE PendingInv'
  <2>1. PICK s \in {"cancelled", "expired", "abandoned"} :
            job' = Settle(On(g) \cap InState(Pending), s)
    BY <1>11 DEF Teardown
  <2>2. UNCHANGED <<pool, status, calls>> /\ teardown' = [teardown EXCEPT ![g] = "done"]
    BY <1>11 DEF Teardown
  <2>3. g # pool => Refuses(pool)' = Refuses(pool)
    BY <1>0, <2>2 DEF Refuses, TypeOK
  <2> QED
    BY <1>10, <2>1, <2>2, <2>3 DEF Settled, On, InState
<1>12. ASSUME NEW g \in Pools, PoolBreaks(g) PROVE PendingInv'
  <2>1. /\ UNCHANGED <<pool, teardown, calls>> /\ status' = [status EXCEPT ![g] = "broken"]
        /\ job' = Settle(On(g) \cap InState({"queued"}), "broken")
        /\ On(g) \cap InState({"running"}) = {}
    BY <1>12 DEF PoolBreaks
  <2>2. g # pool => Refuses(pool)' = Refuses(pool)
    BY <1>0, <2>1 DEF Refuses, TypeOK
  <2>3. \A q \in On(g) \cap InState(Pending) : q \in On(g) \cap InState({"queued"})
    BY <2>1 DEF InState, Pending
  <2>4. \A q \in On(g) \cap InState({"queued"}) : job[q].state \in Pending
    BY DEF InState, Pending
  <2>5. On(g) \cap InState({"queued"}) \in SUBSET Parses
    BY DEF InState
  <2> QED
    BY <1>10, <2>1, <2>2, <2>3, <2>4, <2>5 DEF Settled
<1>13. ASSUME UNCHANGED vars \/ \E p \in Parses : CancelRequested(p) PROVE PendingInv'
  <2>1. UNCHANGED <<pools, job, parse, file>>
    BY <1>13 DEF vars, calls, CancelRequested
  <2> QED
    BY <2>1 DEF PendingInv, pools, Refuses
<1> QED
  BY <1>2, <1>3, <1>4, <1>5, <1>6, <1>8, <1>9, <1>11, <1>12, <1>13
     DEF Next, ParseBegins, ParseRetries

LEMMA OneMore ==
    ASSUME NEW A \in SUBSET Parses, NEW p, p \notin A
    PROVE  Cardinality(A \cup {p}) = Cardinality(A) + 1
  BY FS_Subset, FS_AddElement

\* A parse that ends adds its job to what was seen of them.
LEMMA Counts ==
    ASSUME TypeOK, NEW p \in Parses, NEW how \in Outcomes \ {"none"}, Ends(p, how),
           parse[p] # "ended", \A q \in Parses \ {p} : job'[q].state = job[q].state
    PROVE  /\ \A S : Cardinality(Seen(S)') =
                        IF job'[p].state \in S /\ how # "cancelled" THEN Cardinality(Seen(S)) + 1
                        ELSE Cardinality(Seen(S))
           /\ Cardinality(Dropped') = IF job'[p].state = "cancelled" THEN Cardinality(Dropped) + 1
                                      ELSE Cardinality(Dropped)
<1>1. /\ parse'[p] = "ended" /\ outcome'[p] = how
      /\ \A q \in Parses \ {p} : parse'[q] = parse[q] /\ outcome'[q] = outcome[q]
  BY EndsShape
<1>2. ASSUME NEW S
      PROVE  Cardinality(Seen(S)') =
                 IF job'[p].state \in S /\ how # "cancelled" THEN Cardinality(Seen(S)) + 1
                 ELSE Cardinality(Seen(S))
  <2>1. p \notin Seen(S) /\ Seen(S) \in SUBSET Parses
    BY DEF Seen, Ended, InState
  <2>2. CASE job'[p].state \in S /\ how # "cancelled"
    <3>1. Seen(S)' = Seen(S) \cup {p}
      BY <1>1, <2>2 DEF Seen, Ended, InState
    <3> QED
      BY <2>1, <2>2, <3>1, OneMore
  <2>3. CASE ~(job'[p].state \in S /\ how # "cancelled")
    <3>1. Seen(S)' = Seen(S)
      BY <1>1, <2>1, <2>3 DEF Seen, Ended, InState
    <3> QED
      BY <2>3, <3>1
  <2> QED
    BY <2>2, <2>3
<1>3. Cardinality(Dropped') = IF job'[p].state = "cancelled" THEN Cardinality(Dropped) + 1
                              ELSE Cardinality(Dropped)
  <2>1. p \notin Dropped /\ Dropped \in SUBSET Parses
    BY DEF Dropped, Ended, InState
  <2>2. CASE job'[p].state = "cancelled"
    <3>1. Dropped' = Dropped \cup {p}
      BY <1>1, <2>2 DEF Dropped, Ended, InState
    <3> QED
      BY <2>1, <2>2, <3>1, OneMore
  <2>3. CASE job'[p].state # "cancelled"
    <3>1. Dropped' = Dropped
      BY <1>1, <2>1, <2>3 DEF Dropped, Ended, InState
    <3> QED
      BY <2>3, <3>1
  <2> QED
    BY <2>2, <2>3
<1> QED
  BY <1>2, <1>3

\* The jobs of ended parses are left alone.
LEMMA EndedAreLeft ==
    ASSUME TypeOK, NEW S \in SUBSET Parses, NEW s \in Settled \cup {"abandoned", "running"},
           job' = Settle(S, s), \A q \in S : ~Ended(q), UNCHANGED <<calls, metrics>>, CountersInv
    PROVE  CountersInv'
<1>1. \A q \in Parses : Ended(q) => job'[q].state = job[q].state
  BY SettleShape
<1>2. UNCHANGED <<parse, outcome, metrics>>
  BY DEF calls
<1>3. \A T : Seen(T)' = Seen(T)
  <2> SUFFICES ASSUME NEW T PROVE Seen(T)' = Seen(T)
    OBVIOUS
  <2> QED
    BY <1>1, <1>2 DEF Seen, Ended, InState
<1>4. Dropped' = Dropped
  BY <1>1, <1>2 DEF Dropped, Ended, InState
<1> QED
  BY <1>2, <1>3, <1>4 DEF CountersInv

LEMMA CountersStep ==
    ASSUME TypeOK, PendingInv, CountersInv, [Next]_vars
    PROVE  CountersInv'
<1>1. \A q \in Parses : job[q].state \in Pending => ~Ended(q)
  BY DEF PendingInv, Ended
<1>2. CASE UNCHANGED <<parse, outcome, job>> /\ UNCHANGED metrics
  BY <1>2 DEF CountersInv, Seen, Dropped, Ended, InState
<1>3. ASSUME NEW p \in Parses, NEW how \in Outcomes \ {"none"}, Ends(p, how), job' = job,
             parse[p] # "ended", metrics' = metrics,
             job[p].state \notin {"timedOut", "expired", "broken", "finished", "cancelled"}
      PROVE  CountersInv'
  BY <1>3, Counts DEF CountersInv
<1>4. ASSUME NEW p \in Parses, ParseRefused(p) \/ RetryUnavailable(p) \/ RebuildCancelled(p)
      PROVE  CountersInv'
  <2>1. /\ parse[p] \in {"idle", "rebuilding"} /\ UNCHANGED <<job, metrics>>
        /\ \E how \in Outcomes \ {"none"} : Ends(p, how)
    BY <1>4 DEF ParseRefused, RetryUnavailable, RebuildCancelled, Resumes, Outcomes
  <2>2. job[p].state = "none"
    BY <2>1 DEF PendingInv
  <2> QED
    BY <1>3, <2>1, <2>2
<1>5. ASSUME NEW p \in Parses, ParseRaises(p) PROVE CountersInv'
  BY <1>3, <1>5 DEF ParseRaises, Woken, Outcomes
<1>6. ASSUME NEW p \in Parses, ParseReturns(p) PROVE CountersInv'
  <2>1. /\ Ends(p, "document") /\ parse[p] # "ended" /\ job' = job /\ job[p].state = "finished"
        /\ metrics' = Counted("observed")
    BY <1>6 DEF ParseReturns, Woken
  <2>2. /\ metrics'["observed"] = metrics["observed"] + 1
        /\ \A c \in {"timeout_kills", "crashes", "cancellations"} : metrics'[c] = metrics[c]
    BY <2>1, CountedShape DEF Counters
  <2>3. "document" \in Outcomes \ {"none"}
    BY DEF Outcomes
  <2> QED
    BY <2>1, <2>2, <2>3, Counts DEF CountersInv
<1>7. ASSUME NEW p \in Parses, ParseTimesOut(p) PROVE CountersInv'
  <2>1. /\ Ends(p, "timeout") /\ parse[p] # "ended" /\ job' = job /\ job[p].state = "timedOut"
        /\ metrics' = Counted("timeout_kills")
    BY <1>7 DEF ParseTimesOut, Woken
  <2>2. /\ metrics'["timeout_kills"] = metrics["timeout_kills"] + 1
        /\ \A c \in {"observed", "crashes", "cancellations"} : metrics'[c] = metrics[c]
    BY <2>1, CountedShape DEF Counters
  <2>3. "timeout" \in Outcomes \ {"none"}
    BY DEF Outcomes
  <2> QED
    BY <2>1, <2>2, <2>3, Counts DEF CountersInv
<1>8. ASSUME NEW p \in Parses, ParseCrashes(p) PROVE CountersInv'
  <2>1. /\ Ends(p, "crashed") /\ parse[p] # "ended" /\ job' = job
        /\ job[p].state \in {"expired", "broken"} /\ metrics' = Counted("crashes")
    BY <1>8 DEF ParseCrashes, Woken
  <2>2. /\ metrics'["crashes"] = metrics["crashes"] + 1
        /\ \A c \in {"observed", "timeout_kills", "cancellations"} : metrics'[c] = metrics[c]
    BY <2>1, CountedShape DEF Counters
  <2>3. "crashed" \in Outcomes \ {"none"}
    BY DEF Outcomes
  <2> QED
    BY <2>1, <2>2, <2>3, Counts DEF CountersInv
<1>9. ASSUME NEW p \in Parses, ParseCancelled(p) PROVE CountersInv'
  <2>1. Ends(p, "cancelled") /\ parse[p] # "ended" /\ "cancelled" \in Outcomes \ {"none"}
    BY <1>9 DEF ParseCancelled, Outcomes
  <2>2. CASE CancelTakesEffect(p)
    <3>1. job' = Settle({p}, "cancelled") /\ metrics' = Counted("cancellations")
      BY <1>9, <2>2 DEF ParseCancelled
    <3>2. /\ job'[p].state = "cancelled"
          /\ \A q \in Parses \ {p} : job'[q].state = job[q].state
      BY <3>1, CancelShape
    <3>3. /\ metrics'["cancellations"] = metrics["cancellations"] + 1
          /\ \A c \in {"observed", "timeout_kills", "crashes"} : metrics'[c] = metrics[c]
      BY <3>1, CountedShape DEF Counters
    <3> QED
      BY <2>1, <3>2, <3>3, Counts DEF CountersInv
  <2>3. CASE ~CancelTakesEffect(p)
    <3>1. job' = job /\ metrics' = metrics
      BY <1>9, <2>3 DEF ParseCancelled
    <3>2. job[p].state # "cancelled"
      BY <2>3 DEF CancelTakesEffect
    <3> QED
      BY <2>1, <3>1, <3>2, Counts DEF CountersInv
  <2> QED
    BY <2>2, <2>3
<1>10. ASSUME NEW p \in Parses, ParseScheduled(p) \/ RetryScheduled(p) \/ ParseRebuilds(p)
       PROVE  CountersInv'
  <2>1. /\ parse[p] \in {"idle", "rebuilding"} /\ outcome' = outcome
        /\ \E w \in {"awaiting", "rebuilding"} : parse' = [parse EXCEPT ![p] = w]
    BY <1>10 DEF ParseScheduled, RetryScheduled, ParseRebuilds, Staged, Resumes, Schedule
  <2>2. \A q \in Parses \ {p} : job'[q] = job[q]
    <3>1. CASE ParseScheduled(p) \/ RetryScheduled(p)
      BY <3>1, ScheduleShape DEF ParseScheduled, RetryScheduled
    <3>2. CASE ParseRebuilds(p)
      BY <3>2 DEF ParseRebuilds
    <3> QED
      BY <1>10, <3>1, <3>2
  <2>3. \A c \in {"observed", "timeout_kills", "crashes", "cancellations"} : metrics'[c] = metrics[c]
    <3>1. CASE ParseScheduled(p) \/ RetryScheduled(p)
      BY <3>1 DEF ParseScheduled, RetryScheduled
    <3>2. CASE ParseRebuilds(p)
      BY <3>2, CountedShape DEF ParseRebuilds, Counters
    <3> QED
      BY <1>10, <3>1, <3>2
  <2>4. ~Ended(p) /\ ~Ended(p)' /\ \A q \in Parses \ {p} : parse'[q] = parse[q]
    BY <2>1 DEF Ended, TypeOK
  <2>5. \A T : Seen(T)' = Seen(T)
    <3> SUFFICES ASSUME NEW T PROVE Seen(T)' = Seen(T)
      OBVIOUS
    <3> QED
      BY <2>1, <2>2, <2>4 DEF Seen, Ended, InState
  <2>6. Dropped' = Dropped
    BY <2>1, <2>2, <2>4 DEF Dropped, Ended, InState
  <2> QED
    BY <2>3, <2>5, <2>6 DEF CountersInv
<1>11. ASSUME NEW p \in Parses, JobStarts(p) \/ JobEnds(p) \/ JobTimesOut(p) PROVE CountersInv'
  <2>1. /\ job[p].state \in Pending /\ UNCHANGED <<calls, metrics>>
        /\ \E s \in Settled \cup {"abandoned", "running"} : job' = Settle({p}, s)
    BY <1>11 DEF JobStarts, JobEnds, JobTimesOut, Settled, Pending
  <2> QED
    BY <1>1, <2>1, EndedAreLeft
<1>12. ASSUME NEW g \in Pools, Teardown(g) \/ PoolBreaks(g) PROVE CountersInv'
  <2>1. PICK S \in SUBSET InState(Pending), s \in Settled \cup {"abandoned"} : job' = Settle(S, s)
    BY <1>12 DEF Teardown, PoolBreaks, Settled, InState, Pending
  <2>2. UNCHANGED <<calls, metrics>>
    BY <1>12 DEF Teardown, PoolBreaks
  <2>3. S \in SUBSET Parses /\ \A q \in S : ~Ended(q)
    BY <1>1, <2>1 DEF InState
  <2> QED
    BY <2>1, <2>2, <2>3, EndedAreLeft
<1>13. ASSUME UNCHANGED vars \/ Close \/ \E p \in Parses : CancelRequested(p)
       PROVE  UNCHANGED <<parse, outcome, job>> /\ UNCHANGED metrics
  BY <1>13 DEF vars, calls, Close, CancelRequested
<1> QED
  BY <1>2, <1>4, <1>5, <1>6, <1>7, <1>8, <1>9, <1>10, <1>11, <1>12, <1>13
     DEF Next, ParseBegins, ParseRetries, ParseEnds

\* The invariant of the pool: which pools exist and who tears them down, which
\* jobs may still run and where, and what the counters have counted.
THEOREM Invariant == Spec => []IInv
<1>1. IInv /\ [Next]_vars => IInv'
  BY TypeStep, PoolsStep, TeardownStep, ClosedStep, PendingStep, CountersStep DEF IInv
<1> QED
  BY <1>1, InitInv, PTL DEF Spec

\* Pools, parses, jobs and counters keep their types; no counter runs backwards.
THEOREM TypeCorrect == Spec => []TypeOK
  BY Invariant, PTL DEF IInv

LEMMA CreatedPools ==
    ASSUME TypeOK, PoolsInv
    PROVE  Created = 0 .. pool /\ pool \in Pools /\ pool \in Nat
  BY DEF TypeOK, PoolsInv, Created, Pools

\* OnlyBrokenReplaced: a pool is replaced once, for any interleaving of parses.
THEOREM OnlyBroken == Spec => []OnlyBrokenReplaced
<1>1. IInv => OnlyBrokenReplaced
  <2> SUFFICES ASSUME IInv PROVE OnlyBrokenReplaced
    OBVIOUS
  <2>1. Created = 0 .. pool /\ pool \in Pools /\ pool \in Nat /\ PoolsInv
    BY CreatedPools DEF IInv
  <2>2. Created \ {pool} = 0 .. (pool - 1)
    BY <2>1
  <2>3. Cardinality(0 .. (pool - 1)) = pool
    BY <2>1, FS_Interval
  <2>4. \A g \in Created \ {pool} : g \in Pools /\ g < pool
    BY <2>1 DEF Pools
  <2> QED
    BY <2>1, <2>2, <2>3, <2>4 DEF OnlyBrokenReplaced, PoolsInv
<1> QED
  BY <1>1, Invariant, PTL

\* ReplacedIsTornDown: no replaced pool is forgotten.
THEOREM NoneForgotten == Spec => []ReplacedIsTornDown
<1>1. IInv => ReplacedIsTornDown
  <2> SUFFICES ASSUME IInv, NEW g \in Created \ {pool}
               PROVE  \/ teardown[g] \in {"queued", "done"}
                      \/ teardown[g] = "dropped"
                            /\ \E p \in Parses : g \in replaced[p] /\ outcome[p] = "cancelled"
    BY DEF ReplacedIsTornDown
  <2>1. g \in Pools /\ g < pool
    BY CreatedPools DEF IInv, Pools
  <2> QED
    BY <2>1 DEF IInv, TeardownInv
<1> QED
  BY <1>1, Invariant, PTL

\* ClosedForGood: a closed pool takes no job and runs none.
THEOREM NothingAfterClose == Spec => []ClosedForGood
<1>1. IInv => ClosedForGood
  <2> SUFFICES ASSUME IInv, closed, \A g \in closing : teardown[g] = "done"
               PROVE  (\A g \in Created : Refuses(g)) /\ InState(Pending) = {}
    BY DEF ClosedForGood
  <2>1. Refuses(pool)
    BY DEF IInv, ClosedInv, Refuses
  <2>2. \A g \in Created : g \in Pools /\ (g = pool \/ g < pool)
    BY CreatedPools DEF IInv, Pools
  <2>3. \A g \in Created : Refuses(g)
    BY <2>1, <2>2 DEF IInv, PoolsInv, Refuses
  <2>4. InState(Pending) = {}
    BY <2>1 DEF IInv, PendingInv, InState
  <2> QED
    BY <2>3, <2>4
<1> QED
  BY <1>1, Invariant, PTL

\* CountersAgree: each job is counted once, where it belongs.
THEOREM CountersRight == Spec => []CountersAgree
<1>1. IInv => CountersAgree
  BY DEF IInv, CountersInv, CountersAgree, Seen, Dropped
<1> QED
  BY <1>1, Invariant, PTL

\* UploadLivesWithParse: an upload is there while a worker may open it, and no
\* longer than its request.
THEOREM UploadsLive == Spec => []UploadLivesWithParse
<1>1. IInv => UploadLivesWithParse
  BY DEF IInv, PendingInv, UploadLivesWithParse, InState, Ended
<1> QED
  BY <1>1, Invariant, PTL

-----------------------------------------------------------------------------
\* The contract of parse.

\* What the engine did for a call, by how its future stands.
EnginesAgree ==
    \A p \in Parses :
        /\ job[p].state \in {"none", "queued"} => EngineOf(p) = "none"
        /\ job[p].state = "running" => EngineOf(p) = "running"
        /\ job[p].state = "finished" => EngineOf(p) = "document"
        /\ job[p].state = "rejected" => EngineOf(p) = "unparseable"
        /\ job[p].state = "timedOut" => EngineOf(p) = "timeout"
        /\ job[p].state \in {"scrubbed", "expired", "broken", "cancelled", "abandoned"} =>
              EngineOf(p) = "lost"

LEMMA Engines == EnginesAgree
  BY Zenon DEF EnginesAgree, EngineOf

LEMMA EnginesNext == EnginesAgree'
  BY Engines, PTL

\* The fields of a call.
FieldsAgree ==
    \A p \in Parses :
        /\ CallOf(p).engine = EngineOf(p)
        /\ CallOf(p).asked = cancel[p]
        /\ parse[p] \in {"rebuilding", "awaiting"} => CallOf(p).state = "waiting"
        /\ parse[p] \notin {"rebuilding", "awaiting"} => CallOf(p).state = parse[p]
        /\ outcome[p] = "unavailable" => CallOf(p).outcome = "crashed"
        /\ outcome[p] # "unavailable" => CallOf(p).outcome = outcome[p]

LEMMA CallFields == FieldsAgree
  BY DEF FieldsAgree, CallOf

LEMMA CallFieldsNext == FieldsAgree'
  BY CallFields, PTL

CallsNow == [p \in Parses |-> CallOf(p)]
OpenNow  == IF ~closed THEN "open"
            ELSE IF \A g \in closing : teardown[g] = "done" THEN "closed" ELSE "closing"

LEMMA CallTypes ==
    ASSUME TypeOK, NEW p \in Parses
    PROVE  CallOf(p) \in Contract!Calls
<1>1. EngineOf(p) \in Contract!Engines
  BY Engines DEF EnginesAgree, TypeOK, JobStates, Settled, Pending, Contract!Engines, Contract!Results
<1>2. cancel[p] \in BOOLEAN
  BY DEF TypeOK
<1>3. outcome[p] \in Outcomes /\ parse[p] \in {"idle", "rebuilding", "awaiting", "ended"}
  BY DEF TypeOK
<1>4. (IF outcome[p] = "unavailable" THEN "crashed" ELSE outcome[p]) \in Contract!Outcomes
  BY <1>3 DEF Outcomes, Contract!Outcomes, Contract!Results
<1>5. (IF parse[p] \in {"rebuilding", "awaiting"} THEN "waiting" ELSE parse[p])
          \in {"idle", "waiting", "ended"}
  BY <1>3
<1> QED
  BY <1>1, <1>2, <1>4, <1>5, Zenon DEF CallOf, Contract!Calls

LEMMA CallsTyped == TypeOK => \A p \in Parses : CallOf(p) \in Contract!Calls
  BY CallTypes

LEMMA CallsTypedNext == TypeOK' => (\A p \in Parses : CallOf(p) \in Contract!Calls)'
  BY CallsTyped, PTL

LEMMA CallMoves ==
    ASSUME NEW p \in Parses, NEW r, CallOf(p)' = r,
           \A q \in Parses \ {p} : CallOf(q)' = CallOf(q)
    PROVE  CallsNow' = [CallsNow EXCEPT ![p] = r]
  BY DEF CallsNow

LEMMA CallStays ==
    ASSUME NEW q \in Parses, parse'[q] = parse[q], cancel'[q] = cancel[q],
           outcome'[q] = outcome[q], job'[q].state = job[q].state
    PROVE  CallOf(q)' = CallOf(q)
<1>1. EngineOf(q)' = EngineOf(q)
  BY Zenon DEF EngineOf
<1> QED
  BY <1>1, Zenon DEF CallOf

\* A job cancelled under the parse that awaits it was cancelled by the teardown
\* of a closed pool.
CancelledInv == \A p \in Parses : parse[p] = "awaiting" /\ job[p].state = "cancelled" => closed

LEMMA CallBegins ==
    ASSUME TypeOK, TypeOK', NEW p \in Parses, parse[p] = "idle",
           parse'[p] \in {"rebuilding", "awaiting"}, outcome'[p] = outcome[p], cancel'[p] = cancel[p],
           job[p].state = "none", job'[p].state \in {"none", "queued"},
           \A q \in Parses \ {p} : CallOf(q)' = CallOf(q), OpenNow' = OpenNow
    PROVE  Contract!Begins(p)
<1>1. /\ CallOf(p).state = "idle" /\ CallOf(p)'.state = "waiting"
      /\ CallOf(p)'.engine = CallOf(p).engine /\ CallOf(p)'.asked = CallOf(p).asked
      /\ CallOf(p)'.outcome = CallOf(p).outcome
  BY Engines, EnginesNext, CallFields, CallFieldsNext DEF EnginesAgree, FieldsAgree
<1>2. CallOf(p) \in Contract!Calls /\ CallOf(p)' \in Contract!Calls
  BY CallTypes, CallsTypedNext
<1>3. ASSUME NEW c \in Contract!Calls, NEW d \in Contract!Calls, d.asked = c.asked,
             d.engine = c.engine, d.outcome = c.outcome, d.state = "waiting"
      PROVE  d = [c EXCEPT !.state = "waiting"]
  BY <1>3 DEF Contract!Calls
<1>4. CallOf(p)' = [CallOf(p) EXCEPT !.state = "waiting"]
  BY <1>1, <1>2, <1>3
<1>5. CallsNow' = [CallsNow EXCEPT ![p] = [CallOf(p) EXCEPT !.state = "waiting"]]
  BY <1>4, CallMoves
<1>6. CallsNow[p] = CallOf(p)
  BY DEF CallsNow
<1> QED
  BY <1>1, <1>5, <1>6 DEF Contract!Begins, CallsNow, OpenNow

\* A call that moves, and only it.
Alone(p) ==
    /\ CallOf(p) \in Contract!Calls /\ CallOf(p)' \in Contract!Calls
    /\ \A q \in Parses \ {p} : CallOf(q)' = CallOf(q)

LEMMA CallEnds ==
    ASSUME NEW p \in Parses, Alone(p), NEW o,
           CallOf(p)'.state = "ended", CallOf(p)'.outcome = o,
           CallOf(p)'.engine = CallOf(p).engine, CallOf(p)'.asked = CallOf(p).asked
    PROVE  CallsNow' = [CallsNow EXCEPT ![p] = [@ EXCEPT !.state = "ended", !.outcome = o]]
<1>1. ASSUME NEW c \in Contract!Calls, NEW d \in Contract!Calls, d.asked = c.asked,
             d.engine = c.engine, d.state = "ended", d.outcome = o
      PROVE  d = [c EXCEPT !.state = "ended", !.outcome = o]
  BY <1>1 DEF Contract!Calls
<1>2. CallOf(p)' = [CallOf(p) EXCEPT !.state = "ended", !.outcome = o]
  BY <1>1 DEF Alone
<1>3. CallsNow' = [CallsNow EXCEPT ![p] = [CallOf(p) EXCEPT !.state = "ended", !.outcome = o]]
  BY <1>2, CallMoves DEF Alone
<1>4. CallsNow[p] = CallOf(p)
  BY DEF CallsNow
<1> QED
  BY <1>3, <1>4

LEMMA CallRefused ==
    ASSUME NEW p \in Parses, Alone(p), parse[p] = "idle", parse'[p] = "ended",
           outcome'[p] = "refused", cancel'[p] = cancel[p], job'[p].state = job[p].state,
           closed, OpenNow' = OpenNow, EngineOf(p)' = EngineOf(p)
    PROVE  Contract!Refuses(p)
<1>1. /\ CallOf(p).state = "idle" /\ CallOf(p)'.state = "ended" /\ CallOf(p)'.outcome = "refused"
      /\ CallOf(p)'.engine = CallOf(p).engine /\ CallOf(p)'.asked = CallOf(p).asked
  BY CallFields, CallFieldsNext DEF FieldsAgree
<1>2. CallsNow' = [CallsNow EXCEPT ![p] = [@ EXCEPT !.state = "ended", !.outcome = "refused"]]
  BY <1>1, CallEnds
<1>3. OpenNow # "open"
  BY DEF OpenNow
<1>4. CallsNow[p].state = "idle"
  BY <1>1 DEF CallsNow
<1> QED
  BY <1>2, <1>3, <1>4 DEF Contract!Refuses, CallsNow, OpenNow

LEMMA CallAnswers ==
    ASSUME NEW p \in Parses, Alone(p), parse[p] \in {"rebuilding", "awaiting"}, ~cancel[p],
           parse'[p] = "ended", cancel'[p] = cancel[p], EngineOf(p)' = EngineOf(p),
           OpenNow' = OpenNow, NEW o \in Contract!Outcomes, CallOf(p)'.outcome = o,
           (o \in Contract!Results /\ o = EngineOf(p)) \/ (o = "crashed" /\ EngineOf(p) \in {"none", "lost"})
    PROVE  Contract!Answers(p)
<1>1. /\ CallOf(p).state = "waiting" /\ ~CallOf(p).asked /\ CallOf(p)'.state = "ended"
      /\ CallOf(p).engine = EngineOf(p)
      /\ CallOf(p)'.engine = CallOf(p).engine /\ CallOf(p)'.asked = CallOf(p).asked
  BY CallFields, CallFieldsNext DEF FieldsAgree
<1>2. CallsNow' = [CallsNow EXCEPT ![p] = [@ EXCEPT !.state = "ended", !.outcome = o]]
  BY <1>1, CallEnds
<1>3. CallsNow[p] = CallOf(p)
  BY DEF CallsNow
<1> QED
  BY <1>1, <1>2, <1>3 DEF Contract!Answers, Contract!Waiting, CallsNow, OpenNow

LEMMA WhatIsLeft ==
    /\ "lost" \in Contract!Left("running") /\ "none" \in Contract!Left("none")
    /\ "lost" \in Contract!Left("none")
    /\ \A e : e \notin {"running", "none"} => e \in Contract!Left(e)
  BY Zenon DEF Contract!Left

LEMMA CallCancels ==
    ASSUME NEW p \in Parses, Alone(p), parse[p] \in {"rebuilding", "awaiting"},
           parse'[p] = "ended", outcome'[p] = "cancelled", cancel'[p] = cancel[p],
           cancel[p] \/ closed, OpenNow' = OpenNow, EngineOf(p)' \in Contract!Left(EngineOf(p))
    PROVE  Contract!Cancels(p)
<1>1. /\ CallOf(p).state = "waiting" /\ CallOf(p)'.state = "ended"
      /\ CallOf(p)'.outcome = "cancelled" /\ CallOf(p).asked = cancel[p]
      /\ CallOf(p).engine = EngineOf(p)
      /\ CallOf(p)'.engine = EngineOf(p)' /\ CallOf(p)'.asked = CallOf(p).asked
  BY CallFields, CallFieldsNext DEF FieldsAgree
<1>2. PICK e \in Contract!Left(EngineOf(p)) : e = CallOf(p)'.engine
  BY <1>1
<1>3. ASSUME NEW c \in Contract!Calls, NEW d \in Contract!Calls, d.asked = c.asked,
             d.engine = e, d.state = "ended", d.outcome = "cancelled"
      PROVE  d = [c EXCEPT !.state = "ended", !.engine = e, !.outcome = "cancelled"]
  BY <1>3 DEF Contract!Calls
<1>4. CallOf(p)' = [CallOf(p) EXCEPT !.state = "ended", !.engine = e, !.outcome = "cancelled"]
  BY <1>1, <1>2, <1>3 DEF Alone
<1>5. CallsNow' = [CallsNow EXCEPT ![p] =
                      [CallOf(p) EXCEPT !.state = "ended", !.engine = e, !.outcome = "cancelled"]]
  BY <1>4, CallMoves DEF Alone
<1>6. CallsNow[p] = CallOf(p)
  BY DEF CallsNow
<1>7. CallsNow[p].asked \/ OpenNow # "open"
  BY <1>1, <1>6 DEF OpenNow
<1> QED
  BY <1>1, <1>2, <1>5, <1>6, <1>7 DEF Contract!Cancels, Contract!Waiting, CallsNow, OpenNow

LEMMA CallAsks ==
    ASSUME NEW p \in Parses, Alone(p), parse[p] \in {"rebuilding", "awaiting"},
           UNCHANGED <<parse, outcome, job>>, cancel'[p] = TRUE, OpenNow' = OpenNow
    PROVE  Contract!Asks(p)
<1>1. EngineOf(p)' = EngineOf(p)
  BY Zenon DEF EngineOf
<1>2. /\ CallOf(p).state = "waiting" /\ CallOf(p)'.state = "waiting" /\ CallOf(p)'.asked = TRUE
      /\ CallOf(p)'.engine = CallOf(p).engine /\ CallOf(p)'.outcome = CallOf(p).outcome
  BY <1>1, CallFields, CallFieldsNext DEF FieldsAgree
<1>3. ASSUME NEW c \in Contract!Calls, NEW d \in Contract!Calls, d.asked = TRUE,
             d.engine = c.engine, d.state = c.state, d.outcome = c.outcome
      PROVE  d = [c EXCEPT !.asked = TRUE]
  BY <1>3 DEF Contract!Calls
<1>4. CallOf(p)' = [CallOf(p) EXCEPT !.asked = TRUE]
  BY <1>2, <1>3 DEF Alone
<1>5. CallsNow' = [CallsNow EXCEPT ![p] = [CallOf(p) EXCEPT !.asked = TRUE]]
  BY <1>4, CallMoves DEF Alone
<1>6. CallsNow[p] = CallOf(p)
  BY DEF CallsNow
<1> QED
  BY <1>2, <1>5, <1>6 DEF Contract!Asks, Contract!Waiting, CallsNow, OpenNow

\* Only the engine's part of a call changes.
LEMMA EngineMoves ==
    ASSUME NEW p \in Parses, Alone(p), UNCHANGED <<parse, outcome, cancel>>
    PROVE  CallsNow' = [CallsNow EXCEPT ![p].engine = EngineOf(p)']
<1>1. /\ CallOf(p)'.state = CallOf(p).state /\ CallOf(p)'.asked = CallOf(p).asked
      /\ CallOf(p)'.engine = EngineOf(p)' /\ CallOf(p)'.outcome = CallOf(p).outcome
  BY CallFields, CallFieldsNext DEF FieldsAgree
<1>2. ASSUME NEW e, NEW c \in Contract!Calls, NEW d \in Contract!Calls, d.asked = c.asked,
             d.engine = e, d.state = c.state, d.outcome = c.outcome
      PROVE  d = [c EXCEPT !.engine = e]
  BY <1>2 DEF Contract!Calls
<1>3. CallOf(p)' = [CallOf(p) EXCEPT !.engine = EngineOf(p)']
  BY <1>1, <1>2 DEF Alone
<1>4. CallsNow' = [CallsNow EXCEPT ![p] = [CallOf(p) EXCEPT !.engine = EngineOf(p)']]
  BY <1>3, CallMoves DEF Alone
<1>5. CallsNow[p] = CallOf(p)
  BY DEF CallsNow
<1> QED
  BY <1>4, <1>5

\* The calls of a set of parses lose their engine's work.
LEMMA EnginesLost ==
    ASSUME TypeOK, TypeOK', NEW S \in SUBSET Parses, UNCHANGED <<parse, outcome, cancel>>,
           \A p \in S : /\ parse[p] = "awaiting" /\ EngineOf(p) \in {"none", "running"}
                        /\ EngineOf(p)' = "lost",
           \A p \in Parses \ S : job'[p].state = job[p].state
    PROVE  Contract!Lost(S)
<1>1. \A p \in S : CallsNow[p].state = "waiting" /\ CallsNow[p].engine \in {"none", "running"}
  BY CallFields DEF FieldsAgree, CallsNow
<1>2. \A p \in Parses \ S : CallOf(p)' = CallOf(p)
  BY CallStays
<1>3. ASSUME NEW p \in S PROVE CallOf(p)' = [CallOf(p) EXCEPT !.engine = "lost"]
  <2>1. /\ CallOf(p)'.state = CallOf(p).state /\ CallOf(p)'.asked = CallOf(p).asked
        /\ CallOf(p)'.engine = "lost" /\ CallOf(p)'.outcome = CallOf(p).outcome
    BY CallFields, CallFieldsNext DEF FieldsAgree
  <2>2. CallOf(p) \in Contract!Calls /\ CallOf(p)' \in Contract!Calls
    BY CallTypes, CallsTypedNext
  <2>3. ASSUME NEW c \in Contract!Calls, NEW d \in Contract!Calls, d.asked = c.asked,
               d.engine = "lost", d.state = c.state, d.outcome = c.outcome
        PROVE  d = [c EXCEPT !.engine = "lost"]
    BY <2>3 DEF Contract!Calls
  <2> QED
    BY <2>1, <2>2, <2>3
<1>4. CallsNow' = [p \in Parses |-> IF p \in S THEN [CallsNow[p] EXCEPT !.engine = "lost"]
                                    ELSE CallsNow[p]]
  <2>1. \A p \in Parses : CallsNow[p] = CallOf(p) /\ CallsNow'[p] = CallOf(p)'
    BY DEF CallsNow
  <2>2. ASSUME NEW p \in Parses
        PROVE  CallsNow'[p] = IF p \in S THEN [CallsNow[p] EXCEPT !.engine = "lost"]
                              ELSE CallsNow[p]
    <3>1. CASE p \in S
      <4>1. CallsNow'[p] = [CallOf(p) EXCEPT !.engine = "lost"]
        BY <1>3, <2>1, <3>1, Zenon
      <4> QED
        BY <2>1, <3>1, <4>1, Zenon
    <3>2. CASE p \notin S
      BY <1>2, <2>1, <3>2
    <3> QED
      BY <3>1, <3>2
  <2>3. CallsNow' = [p \in Parses |-> CallsNow'[p]]
    BY DEF CallsNow
  <2> QED
    BY <2>2, <2>3, Zenon
<1> QED
  BY <1>1, <1>4 DEF Contract!Lost, Contract!Waiting, CallsNow

\* A teardown reaches jobs once the pool is closed, and only on the last pool.
LEMMA TeardownReach ==
    ASSUME IInv, NEW g \in Pools, Teardown(g), On(g) \cap InState(Pending) # {}
    PROVE  g = pool /\ closed
<1>1. PICK p \in Parses : job[p].pool = g /\ job[p].state \in Pending
  BY DEF On, InState
<1>2. g = pool
  BY <1>1 DEF IInv, PendingInv
<1>3. teardown[pool] = "queued" /\ pool \in Pools /\ pool \in Nat
  BY <1>2 DEF Teardown, Pools
<1> QED
  BY <1>2, <1>3 DEF IInv, ClosedInv

LEMMA OtherSettling ==
    ASSUME TypeOK, NEW S \in SUBSET Parses, NEW s \in Settled \cup {"abandoned", "running"},
           job' = Settle(S, s), NEW q \in Parses, job'[q].state # s
    PROVE  job[q].state = job'[q].state
<1>1. job'[q].state = IF q \in S THEN s ELSE job[q].state
  BY SettleShape
<1> QED
  BY <1>1

LEMMA CancelledStep ==
    ASSUME IInv, CancelledInv, [Next]_vars
    PROVE  CancelledInv'
<1>0. TypeOK
  BY DEF IInv
<1> SUFFICES ASSUME NEW q \in Parses, parse'[q] = "awaiting", job'[q].state = "cancelled"
             PROVE  closed'
  BY DEF CancelledInv
<1>1. CASE parse[q] = "awaiting" /\ job[q].state = "cancelled" /\ closed' = closed
  BY <1>1 DEF CancelledInv
<1>2. ASSUME NEW p \in Parses, ParseEnds(p) PROVE closed'
  <2>1. p # q /\ closed' = closed
    BY <1>0, <1>2, EndingShape, EndsShape DEF pools
  <2>2. parse[q] = "awaiting" /\ job'[q] = job[q]
    <3>1. parse[q] = "awaiting"
      BY <1>0, <1>2, <2>1, EndingShape, EndsShape
    <3>2. job'[q] = job[q]
      BY <1>0, <1>2, <2>1, EndingShape DEF Settle
    <3> QED
      BY <3>1, <3>2
  <2> QED
    BY <1>1, <2>1, <2>2
<1>3. ASSUME NEW p \in Parses, ParseRefused(p) \/ RetryUnavailable(p) \/ RebuildCancelled(p)
      PROVE  closed'
  <2>1. job' = job /\ closed' = closed /\ \E how \in Outcomes \ {"none"} : Ends(p, how)
    BY <1>3 DEF ParseRefused, RetryUnavailable, RebuildCancelled, pools, Outcomes
  <2>2. parse[q] = "awaiting"
    BY <1>0, <2>1, EndsShape
  <2> QED
    BY <1>1, <2>1, <2>2
<1>4. ASSUME NEW p \in Parses, ParseScheduled(p) \/ RetryScheduled(p) PROVE closed'
  <2>1. Schedule(p) /\ closed' = closed
    BY <1>4 DEF ParseScheduled, RetryScheduled, pools
  <2>2. p # q
    BY <1>0, <2>1, ScheduleShape
  <2>3. job'[q] = job[q]
    BY <1>0, <2>1, <2>2, ScheduleShape
  <2>4. parse[q] = "awaiting"
    BY <2>1, <2>2 DEF Schedule
  <2> QED
    BY <1>1, <2>1, <2>3, <2>4
<1>5. ASSUME NEW p \in Parses, ParseRebuilds(p) PROVE closed'
  <2>1. job' = job /\ closed' = closed /\ parse' = [parse EXCEPT ![p] = "rebuilding"]
    BY <1>5 DEF ParseRebuilds
  <2>2. parse[q] = "awaiting"
    BY <1>0, <2>1 DEF TypeOK
  <2> QED
    BY <1>1, <2>1, <2>2
<1>6. ASSUME NEW p \in Parses, JobStarts(p) \/ JobEnds(p) \/ JobTimesOut(p) PROVE closed'
  <2>1. PICK s \in (Settled \cup {"running"}) \ {"cancelled"} : job' = Settle({p}, s)
    BY <1>6 DEF JobStarts, JobEnds, JobTimesOut, Settled
  <2>2. closed' = closed /\ parse' = parse
    BY <1>6 DEF JobStarts, JobEnds, JobTimesOut, pools, calls
  <2>3. job[q].state = "cancelled"
    <3>1. {p} \in SUBSET Parses /\ s \in Settled \cup {"abandoned", "running"} /\ s # "cancelled"
      BY <2>1
    <3> QED
      BY <1>0, <2>1, <3>1, OtherSettling
  <2> QED
    BY <1>1, <2>2, <2>3
<1>7. CASE Close
  BY <1>7 DEF Close
<1>8. ASSUME NEW g \in Pools, Teardown(g) PROVE closed'
  <2>1. PICK s \in {"cancelled", "expired", "abandoned"} :
            job' = Settle(On(g) \cap InState(Pending), s)
    BY <1>8 DEF Teardown
  <2>2. closed' = closed /\ parse' = parse
    BY <1>8 DEF Teardown, calls
  <2>3. CASE q \in On(g) \cap InState(Pending)
    BY <1>8, <2>2, <2>3, TeardownReach
  <2>4. CASE q \notin On(g) \cap InState(Pending)
    BY <1>1, <2>1, <2>2, <2>4 DEF Settle
  <2> QED
    BY <2>3, <2>4
<1>9. ASSUME NEW g \in Pools, PoolBreaks(g) PROVE closed'
  <2>1. job' = Settle(On(g) \cap InState({"queued"}), "broken") /\ closed' = closed /\ parse' = parse
    BY <1>9 DEF PoolBreaks, calls
  <2>2. job[q].state = "cancelled"
    <3>1. On(g) \cap InState({"queued"}) \in SUBSET Parses /\ "broken" \in Settled
      BY DEF InState, Settled
    <3> QED
      BY <1>0, <2>1, <3>1, OtherSettling
  <2> QED
    BY <1>1, <2>1, <2>2
<1>10. ASSUME UNCHANGED vars \/ \E p \in Parses : CancelRequested(p) PROVE closed'
  BY <1>1, <1>10 DEF vars, pools, calls, CancelRequested
<1> QED
  BY <1>2, <1>3, <1>4, <1>5, <1>6, <1>7, <1>8, <1>9, <1>10
     DEF Next, ParseBegins, ParseRetries, ParseEnds

Simulated == [Contract!Next]_<<CallsNow, OpenNow>>

LEMMA BeginningsSimulated ==
    ASSUME IInv, TypeOK', NEW p \in Parses, ParseBegins(p)
    PROVE  Simulated
<1>0. TypeOK /\ PendingInv
  BY DEF IInv
<1>1. CASE ParseRefused(p)
  <2>1. /\ parse[p] = "idle" /\ closed /\ Ends(p, "refused") /\ UNCHANGED <<pools, job, cancel>>
    BY <1>1 DEF ParseRefused
  <2>2. /\ parse'[p] = "ended" /\ outcome'[p] = "refused"
        /\ \A q \in Parses \ {p} : parse'[q] = parse[q] /\ outcome'[q] = outcome[q]
    BY <1>0, <2>1, EndsShape DEF Outcomes
  <2>3. Alone(p)
    BY <1>0, <2>1, <2>2, CallStays, CallTypes, CallsTypedNext DEF Alone
  <2>4. EngineOf(p)' = EngineOf(p)
    BY <2>1, Zenon DEF EngineOf
  <2>5. OpenNow' = OpenNow
    BY <2>1 DEF OpenNow, pools
  <2>6. Contract!Refuses(p)
    BY <2>1, <2>2, <2>3, <2>4, <2>5, CallRefused
  <2> QED
    BY <2>6 DEF Simulated, Contract!Next
<1>2. CASE ParseScheduled(p)
  <2>1. /\ parse[p] = "idle" /\ Schedule(p) /\ UNCHANGED <<pools, cancel, outcome>>
    BY <1>2 DEF ParseScheduled, Staged
  <2>2. /\ parse'[p] = "awaiting" /\ job'[p].state = "queued" /\ job[p].state = "none"
    <3>1. parse' = [parse EXCEPT ![p] = "awaiting"] /\ job'[p].state = "queued"
      BY <1>0, <2>1, ScheduleShape
    <3> QED
      BY <1>0, <2>1, <3>1 DEF TypeOK, PendingInv
  <2>3. \A q \in Parses \ {p} : job'[q] = job[q] /\ parse'[q] = parse[q]
    BY <1>0, <2>1, ScheduleShape DEF Schedule
  <2>4. \A q \in Parses \ {p} : CallOf(q)' = CallOf(q)
    BY <2>1, <2>3, CallStays
  <2>5. OpenNow' = OpenNow
    BY <2>1 DEF OpenNow, pools
  <2>6. Contract!Begins(p)
    BY <1>0, <2>1, <2>2, <2>4, <2>5, CallBegins
  <2> QED
    BY <2>6 DEF Simulated, Contract!Next
<1>3. CASE ParseRebuilds(p)
  <2>1. /\ parse[p] = "idle" /\ UNCHANGED <<closed, closing, job, cancel, outcome>> /\ ~closed
        /\ parse' = [parse EXCEPT ![p] = "rebuilding"]
    BY <1>3 DEF ParseRebuilds, Staged
  <2>2. parse'[p] = "rebuilding" /\ job[p].state = "none" /\ job'[p].state = "none"
    BY <1>0, <2>1 DEF TypeOK, PendingInv
  <2>3. \A q \in Parses \ {p} : CallOf(q)' = CallOf(q)
    BY <2>1, CallStays DEF TypeOK
  <2>4. OpenNow' = OpenNow
    BY <2>1 DEF OpenNow
  <2>5. Contract!Begins(p)
    BY <1>0, <2>1, <2>2, <2>3, <2>4, CallBegins
  <2> QED
    BY <2>5 DEF Simulated, Contract!Next
<1> QED
  BY <1>1, <1>2, <1>3 DEF ParseBegins

LEMMA RetriesSimulated ==
    ASSUME IInv, TypeOK', NEW p \in Parses, ParseRetries(p)
    PROVE  Simulated
<1>0. TypeOK /\ PendingInv
  BY DEF IInv
<1>1. CASE RetryScheduled(p)
  <2>1. /\ parse[p] = "rebuilding" /\ Schedule(p) /\ UNCHANGED <<pools, cancel, outcome>>
    BY <1>1 DEF RetryScheduled, Resumes
  <2>2. /\ parse'[p] = "awaiting" /\ job'[p].state = "queued" /\ job[p].state = "none"
    <3>1. parse' = [parse EXCEPT ![p] = "awaiting"] /\ job'[p].state = "queued"
      BY <1>0, <2>1, ScheduleShape
    <3> QED
      BY <1>0, <2>1, <3>1 DEF TypeOK, PendingInv
  <2>3. \A q \in Parses \ {p} : job'[q] = job[q] /\ parse'[q] = parse[q]
    BY <1>0, <2>1, ScheduleShape DEF Schedule
  <2>4. \A q \in Parses \ {p} : CallOf(q)' = CallOf(q)
    BY <2>1, <2>3, CallStays
  <2>5. CallOf(p)' = CallOf(p)
    <3>1. EngineOf(p)' = EngineOf(p)
      BY <2>2, Engines, EnginesNext DEF EnginesAgree
    <3>2. /\ CallOf(p)'.state = CallOf(p).state /\ CallOf(p)'.asked = CallOf(p).asked
          /\ CallOf(p)'.engine = CallOf(p).engine /\ CallOf(p)'.outcome = CallOf(p).outcome
      BY <2>1, <2>2, <3>1, CallFields, CallFieldsNext DEF FieldsAgree
    <3>3. CallOf(p) \in Contract!Calls /\ CallOf(p)' \in Contract!Calls
      BY <1>0, CallTypes, CallsTypedNext
    <3>4. ASSUME NEW c \in Contract!Calls, NEW d \in Contract!Calls, c.state = d.state,
                 c.asked = d.asked, c.engine = d.engine, c.outcome = d.outcome
          PROVE  c = d
      BY <3>4 DEF Contract!Calls
    <3> QED
      BY <3>2, <3>3, <3>4
  <2>6. CallsNow' = CallsNow
    BY <2>4, <2>5 DEF CallsNow
  <2>7. OpenNow' = OpenNow
    BY <2>1 DEF OpenNow, pools
  <2> QED
    BY <2>6, <2>7 DEF Simulated
<1>2. CASE RetryUnavailable(p)
  <2>1. /\ parse[p] = "rebuilding" /\ ~cancel[p] /\ Ends(p, "unavailable")
        /\ UNCHANGED <<pools, job, cancel>>
    BY <1>2 DEF RetryUnavailable, Resumes
  <2>2. /\ parse'[p] = "ended" /\ outcome'[p] = "unavailable"
        /\ \A q \in Parses \ {p} : parse'[q] = parse[q] /\ outcome'[q] = outcome[q]
    BY <1>0, <2>1, EndsShape DEF Outcomes
  <2>3. Alone(p)
    BY <1>0, <2>1, <2>2, CallStays, CallTypes, CallsTypedNext DEF Alone
  <2>4. EngineOf(p) = "none" /\ EngineOf(p)' = EngineOf(p)
    <3>1. job[p].state = "none"
      BY <1>0, <2>1 DEF PendingInv
    <3> QED
      BY <2>1, <3>1, Engines, EnginesNext DEF EnginesAgree
  <2>5. OpenNow' = OpenNow
    BY <2>1 DEF OpenNow, pools
  <2>6. CallOf(p)'.outcome = "crashed" /\ "crashed" \in Contract!Outcomes
    BY <2>2, CallFieldsNext DEF FieldsAgree, Contract!Outcomes
  <2>7. Contract!Answers(p)
    BY <2>1, <2>2, <2>3, <2>4, <2>5, <2>6, CallAnswers
  <2> QED
    BY <2>7 DEF Simulated, Contract!Next
<1>3. CASE RebuildCancelled(p)
  <2>1. /\ parse[p] = "rebuilding" /\ cancel[p] /\ Ends(p, "cancelled")
        /\ UNCHANGED <<closed, closing, job, cancel>>
    BY <1>3 DEF RebuildCancelled
  <2>2. /\ parse'[p] = "ended" /\ outcome'[p] = "cancelled"
        /\ \A q \in Parses \ {p} : parse'[q] = parse[q] /\ outcome'[q] = outcome[q]
    BY <1>0, <2>1, EndsShape DEF Outcomes
  <2>3. Alone(p)
    BY <1>0, <2>1, <2>2, CallStays, CallTypes, CallsTypedNext DEF Alone
  <2>4. EngineOf(p) = "none" /\ EngineOf(p)' = "none"
    <3>1. job[p].state = "none"
      BY <1>0, <2>1 DEF PendingInv
    <3> QED
      BY <2>1, <3>1, Engines, EnginesNext DEF EnginesAgree
  <2>5. OpenNow' = OpenNow
    <3>1. PICK D \in {{}, {g \in replaced[p] : teardown[g] = "queued"}} :
              teardown' = [g \in Pools |-> IF g \in D THEN "dropped" ELSE teardown[g]]
      BY <1>3 DEF RebuildCancelled
    <3>2. \A g \in D : g < pool
      BY <3>1 DEF IInv, TeardownInv
    <3>3. pool \in Pools /\ ~(pool < pool) /\ (closed => closing = {pool})
      BY <1>0 DEF TypeOK, Pools, IInv, ClosedInv
    <3>4. closed => teardown'[pool] = teardown[pool]
      BY <3>1, <3>2, <3>3
    <3> QED
      BY <2>1, <3>3, <3>4 DEF OpenNow
  <2>6. Contract!Cancels(p)
    BY <2>1, <2>2, <2>3, <2>4, <2>5, CallCancels, WhatIsLeft
  <2> QED
    BY <2>6 DEF Simulated, Contract!Next
<1> QED
  BY <1>1, <1>2, <1>3 DEF ParseRetries

LEMMA EndingsSimulated ==
    ASSUME IInv, CancelledInv, TypeOK', NEW p \in Parses, ParseEnds(p)
    PROVE  Simulated
<1>0. TypeOK /\ PendingInv /\ parse[p] = "awaiting" /\ UNCHANGED <<pools, cancel>>
  BY EndingShape DEF IInv
<1>1. OpenNow' = OpenNow
  BY <1>0 DEF OpenNow, pools
<1>2. ASSUME NEW how \in Outcomes \ {"none", "unavailable"}, Ends(p, how), ~cancel[p], job' = job,
             how \in Contract!Outcomes,
             (how \in Contract!Results /\ how = EngineOf(p)) \/ (how = "crashed" /\ EngineOf(p) = "lost")
      PROVE  Simulated
  <2>1. /\ parse'[p] = "ended" /\ outcome'[p] = how
        /\ \A q \in Parses \ {p} : parse'[q] = parse[q] /\ outcome'[q] = outcome[q]
    BY <1>0, <1>2, EndsShape
  <2>2. Alone(p)
    BY <1>0, <1>2, <2>1, CallStays, CallTypes, CallsTypedNext DEF Alone
  <2>3. EngineOf(p)' = EngineOf(p)
    BY <1>2, Zenon DEF EngineOf
  <2>4. CallOf(p)'.outcome = how
    BY <1>2, <2>1, CallFieldsNext DEF FieldsAgree
  <2>5. Contract!Answers(p)
    BY <1>0, <1>1, <1>2, <2>1, <2>2, <2>3, <2>4, CallAnswers
  <2> QED
    BY <2>5 DEF Simulated, Contract!Next
<1>3. CASE ParseReturns(p)
  <2>1. Ends(p, "document") /\ ~cancel[p] /\ job' = job /\ job[p].state = "finished"
    BY <1>3 DEF ParseReturns, Woken
  <2> QED
    BY <1>2, <2>1, Engines DEF EnginesAgree, Outcomes, Contract!Outcomes, Contract!Results
<1>4. CASE ParseRaises(p)
  <2>1. ~cancel[p] /\ job' = job
    BY <1>4 DEF ParseRaises, Woken
  <2>2. CASE job[p].state = "rejected" /\ Ends(p, "unparseable")
    BY <1>2, <2>1, <2>2, Engines DEF EnginesAgree, Outcomes, Contract!Outcomes, Contract!Results
  <2>3. CASE job[p].state = "scrubbed" /\ Ends(p, "crashed")
    BY <1>2, <2>1, <2>3, Engines DEF EnginesAgree, Outcomes, Contract!Outcomes, Contract!Results
  <2> QED
    BY <1>4, <2>2, <2>3 DEF ParseRaises, Woken
<1>5. CASE ParseTimesOut(p)
  <2>1. Ends(p, "timeout") /\ ~cancel[p] /\ job' = job /\ job[p].state = "timedOut"
    BY <1>5 DEF ParseTimesOut, Woken
  <2> QED
    BY <1>2, <2>1, Engines DEF EnginesAgree, Outcomes, Contract!Outcomes, Contract!Results
<1>6. CASE ParseCrashes(p)
  <2>1. Ends(p, "crashed") /\ ~cancel[p] /\ job' = job /\ job[p].state \in {"expired", "broken"}
    BY <1>6 DEF ParseCrashes, Woken
  <2> QED
    BY <1>2, <2>1, Engines DEF EnginesAgree, Outcomes, Contract!Outcomes, Contract!Results
<1>7. CASE ParseCancelled(p)
  <2>1. Ends(p, "cancelled") /\ (cancel[p] \/ job[p].state = "cancelled")
    BY <1>7 DEF ParseCancelled
  <2>2. /\ parse'[p] = "ended" /\ outcome'[p] = "cancelled"
        /\ \A q \in Parses \ {p} : parse'[q] = parse[q] /\ outcome'[q] = outcome[q]
    BY <1>0, <2>1, EndsShape DEF Outcomes
  <2>3. \A q \in Parses \ {p} : job'[q] = job[q]
    BY <1>7 DEF ParseCancelled, Settle
  <2>4. Alone(p)
    BY <1>0, <2>2, <2>3, CallStays, CallTypes, CallsTypedNext DEF Alone
  <2>5. cancel[p] \/ closed
    BY <1>0, <2>1 DEF CancelledInv
  <2>6. EngineOf(p)' \in Contract!Left(EngineOf(p))
    <3>1. CASE CancelTakesEffect(p)
      <4>1. job'[p].state = "cancelled"
        <5>1. job' = Settle({p}, "cancelled") /\ "cancelled" \in Settled /\ {p} \in SUBSET Parses
          BY <1>7, <3>1 DEF ParseCancelled, Settled
        <5>2. job'[p].state = IF p \in {p} THEN "cancelled" ELSE job[p].state
          BY <1>0, <5>1, SettleShape
        <5> QED
          BY <5>2
      <4>2. EngineOf(p)' = "lost" /\ EngineOf(p) \in {"none", "running", "lost"}
        BY <3>1, <4>1, Engines, EnginesNext DEF EnginesAgree, CancelTakesEffect, Pending
      <4> QED
        BY <4>2, WhatIsLeft
    <3>2. CASE ~CancelTakesEffect(p)
      <4>1. job' = job /\ job[p].state \notin {"queued", "running", "abandoned", "cancelled"}
        BY <1>7, <3>2 DEF ParseCancelled, CancelTakesEffect, Pending
      <4>2. EngineOf(p)' = EngineOf(p)
        BY <4>1, Zenon DEF EngineOf
      <4>3. EngineOf(p) # "running"
        BY <1>0, <4>1, Engines DEF EnginesAgree, TypeOK, JobStates, Settled
      <4>4. \A e : e # "running" => e \in Contract!Left(e)
        BY WhatIsLeft
      <4> QED
        BY <4>2, <4>3, <4>4
    <3> QED
      BY <3>1, <3>2
  <2>7. Contract!Cancels(p)
    BY <1>0, <1>1, <2>2, <2>4, <2>5, <2>6, CallCancels
  <2> QED
    BY <2>7 DEF Simulated, Contract!Next
<1> QED
  BY <1>3, <1>4, <1>5, <1>6, <1>7 DEF ParseEnds

\* The contract brings its own copy of Cardinality.
LEMMA SameCardinality ==
    ASSUME NEW S
    PROVE  Contract!Cardinality(S) = Cardinality(S)
  BY DEF Contract!Cardinality, Cardinality

LEMMA EngineRuns ==
    ASSUME TypeOK, NEW q \in Parses
    PROVE  EngineOf(q) = "running" <=> job[q].state = "running"
<1>1. job[q].state \in JobStates
  BY DEF TypeOK
<1> QED
  BY <1>1, Zenon DEF EngineOf, JobStates, Settled

LEMMA EnginesSimulated ==
    ASSUME IInv, TypeOK', NEW p \in Parses, JobStarts(p) \/ JobEnds(p) \/ JobTimesOut(p)
    PROVE  Simulated
<1>0. /\ TypeOK /\ PendingInv /\ UNCHANGED <<pools, parse, outcome, cancel>>
      /\ job[p].state \in Pending
  <2>1. TypeOK /\ PendingInv
    BY DEF IInv
  <2>2. UNCHANGED <<pools, parse, outcome, cancel>>
    BY DEF JobStarts, JobEnds, JobTimesOut, calls
  <2>3. job[p].state \in Pending
    BY DEF JobStarts, JobEnds, JobTimesOut, Pending
  <2> QED
    BY <2>1, <2>2, <2>3
<1>1. OpenNow' = OpenNow
  BY <1>0 DEF OpenNow, pools
<1>2. /\ parse[p] = "awaiting" /\ job[p].pool = pool /\ ~Refuses(pool)
  BY <1>0 DEF PendingInv
<1>3. PICK s \in Settled \cup {"running"} :
         /\ job' = Settle({p}, s)
         /\ \/ s = "running" /\ JobStarts(p)
            \/ s \in {"finished", "rejected", "scrubbed", "expired", "timedOut"} /\ job[p].state = "running"
  BY <1>0 DEF JobStarts, JobEnds, JobTimesOut, Settled
<1>4. job'[p].state = s /\ \A q \in Parses \ {p} : job'[q] = job[q]
  <2>1. job'[p].state = IF p \in {p} THEN s ELSE job[p].state
    BY <1>0, <1>3, SettleShape
  <2> QED
    BY <1>3, <2>1 DEF Settle
<1>5. Alone(p)
  BY <1>0, <1>4, CallStays, CallTypes, CallsTypedNext DEF Alone
<1>6. CallsNow' = [CallsNow EXCEPT ![p].engine = EngineOf(p)']
  BY <1>0, <1>5, EngineMoves
<1>7. CallsNow[p].state = "waiting" /\ CallsNow[p].engine = EngineOf(p)
  BY <1>2, CallFields DEF FieldsAgree, CallsNow
<1>8. CASE s = "running" /\ JobStarts(p)
  <2>1. /\ job[p].state = "queued"
        /\ Cardinality(On(pool) \cap InState({"running"})) < Workers
    BY <1>2, <1>8 DEF JobStarts
  <2>2. EngineOf(p) = "none" /\ EngineOf(p)' = "running"
    BY <1>4, <1>8, <2>1, Engines, EnginesNext DEF EnginesAgree
  <2>3. OpenNow # "closed"
    <3>1. pool \in Pools /\ (closed => closing = {pool}) /\ teardown[pool] # "done"
      BY <1>0, <1>2 DEF TypeOK, IInv, ClosedInv, Refuses
    <3> QED
      BY <3>1 DEF OpenNow
  <2>4. {q \in Parses : CallsNow[q].engine = "running"} = On(pool) \cap InState({"running"})
    <3>1. \A q \in Parses : CallsNow[q].engine = "running" <=> job[q].state = "running"
      <4>1. ASSUME NEW q \in Parses PROVE CallsNow[q].engine = EngineOf(q)
        BY CallFields DEF FieldsAgree, CallsNow
      <4>2. ASSUME NEW q \in Parses PROVE EngineOf(q) = "running" <=> job[q].state = "running"
        BY <1>0, EngineRuns
      <4> QED
        BY <4>1, <4>2
    <3>2. \A q \in Parses : job[q].state = "running" => job[q].pool = pool
      BY <1>0 DEF PendingInv, Pending
    <3> QED
      BY <3>1, <3>2 DEF On, InState
  <2>5. Contract!Running = On(pool) \cap InState({"running"})
    BY <2>4 DEF Contract!Running, CallsNow
  <2>6. Contract!Cardinality(Contract!Running) < Workers
    BY <2>1, <2>5, SameCardinality
  <2>7. Contract!Waiting(p)
    BY <1>7 DEF Contract!Waiting, CallsNow
  <2>8. Contract!Runs(p)
    BY <1>1, <1>6, <1>7, <2>2, <2>3, <2>6, <2>7 DEF Contract!Runs, CallsNow, OpenNow
  <2> QED
    BY <2>8 DEF Simulated, Contract!Next
<1>9. CASE s \in {"finished", "rejected", "timedOut"} /\ job[p].state = "running"
  <2>1. EngineOf(p) = "running" /\ EngineOf(p)' \in Contract!Results
    BY <1>4, <1>9, Engines, EnginesNext DEF EnginesAgree, Contract!Results
  <2>2. Contract!Finishes(p)
    BY <1>1, <1>6, <1>7, <2>1 DEF Contract!Finishes, CallsNow, OpenNow
  <2> QED
    BY <2>2 DEF Simulated, Contract!Next
<1>10. CASE s \in {"scrubbed", "expired"} /\ job[p].state = "running"
  <2>1. EngineOf(p) = "running" /\ EngineOf(p)' = "lost"
    BY <1>4, <1>10, Engines, EnginesNext DEF EnginesAgree
  <2>2. Contract!Lost({p})
    BY <1>0, <1>2, <1>4, <2>1, EnginesLost
  <2>3. Contract!Loses({p})
    BY <1>1, <2>2 DEF Contract!Loses, OpenNow
  <2> QED
    BY <2>3 DEF Simulated, Contract!Next
<1> QED
  BY <1>3, <1>8, <1>9, <1>10

LEMMA BreaksSimulated ==
    ASSUME IInv, TypeOK', NEW g \in Pools, PoolBreaks(g)
    PROVE  Simulated
<1> DEFINE S == On(g) \cap InState({"queued"})
<1>0. /\ TypeOK /\ PendingInv /\ UNCHANGED <<closed, closing, teardown, parse, outcome, cancel>>
      /\ job' = Settle(S, "broken") /\ S \in SUBSET Parses
  BY DEF IInv, PoolBreaks, calls, InState
<1>1. OpenNow' = OpenNow
  BY <1>0 DEF OpenNow
<1>2. \A q \in Parses : job'[q].state = IF q \in S THEN "broken" ELSE job[q].state
  <2> HIDE DEF S
  <2>1. "broken" \in Settled
    BY DEF Settled
  <2> QED
    BY <1>0, <2>1, SettleShape
<1>3. \A q \in S : /\ parse[q] = "awaiting" /\ EngineOf(q) \in {"none", "running"}
                   /\ EngineOf(q)' = "lost"
  <2> SUFFICES ASSUME NEW q \in S
               PROVE  /\ parse[q] = "awaiting" /\ EngineOf(q) \in {"none", "running"}
                      /\ EngineOf(q)' = "lost"
    OBVIOUS
  <2>1. q \in Parses /\ job[q].state = "queued" /\ job'[q].state = "broken"
    BY <1>2 DEF InState
  <2> QED
    BY <1>0, <2>1, Engines, EnginesNext DEF EnginesAgree, PendingInv, Pending
<1> HIDE DEF S
<1>4. Contract!Lost(S)
  BY <1>0, <1>2, <1>3, EnginesLost
<1>5. Contract!Loses(S)
  BY <1>1, <1>4 DEF Contract!Loses, OpenNow
<1> QED
  BY <1>0, <1>5 DEF Simulated, Contract!Next

LEMMA TeardownSimulated ==
    ASSUME IInv, TypeOK', NEW g \in Pools, Teardown(g)
    PROVE  Simulated
<1> DEFINE S == On(g) \cap InState(Pending)
<1>0. /\ TypeOK /\ PendingInv /\ UNCHANGED <<closed, closing, parse, outcome, cancel>>
      /\ teardown[g] = "queued" /\ teardown' = [teardown EXCEPT ![g] = "done"]
      /\ S \in SUBSET Parses
  BY DEF IInv, Teardown, calls, InState
<1>1. PICK s \in {"cancelled", "expired", "abandoned"} : job' = Settle(S, s)
  BY DEF Teardown
<1>2. \A q \in Parses : job'[q].state = IF q \in S THEN s ELSE job[q].state
  <2> HIDE DEF S
  <2>1. s \in Settled \cup {"abandoned", "running"}
    BY <1>1 DEF Settled
  <2> QED
    BY <1>0, <1>1, <2>1, SettleShape
<1>3. CASE g = pool
  <2>1. closed /\ closing = {pool} /\ pool \in Nat
    BY <1>0, <1>3 DEF IInv, ClosedInv, Pools
  <2>2. OpenNow = "closing" /\ OpenNow' = "closed"
    BY <1>0, <1>3, <2>1 DEF OpenNow, TypeOK
  <2>3. \A q \in S : /\ parse[q] = "awaiting" /\ EngineOf(q) \in {"none", "running"}
                     /\ EngineOf(q)' = "lost"
    <3> SUFFICES ASSUME NEW q \in S
                 PROVE  /\ parse[q] = "awaiting" /\ EngineOf(q) \in {"none", "running"}
                        /\ EngineOf(q)' = "lost"
      OBVIOUS
    <3>1. q \in Parses /\ job[q].state \in Pending /\ job'[q].state = s
      BY <1>2 DEF InState
    <3> QED
      BY <1>0, <1>1, <3>1, Engines, EnginesNext DEF EnginesAgree, PendingInv, Pending
  <2>4. {q \in Parses : CallsNow[q].engine = "running"} \subseteq S
    <3> SUFFICES ASSUME NEW q \in Parses, CallsNow[q].engine = "running" PROVE q \in S
      OBVIOUS
    <3>1. EngineOf(q) = "running"
      BY CallFields DEF FieldsAgree, CallsNow
    <3>2. job[q].state = "running"
      BY <1>0, <3>1, EngineRuns
    <3> QED
      BY <1>0, <1>3, <3>2 DEF PendingInv, Pending, On, InState
  <2> HIDE DEF S
  <2>5. Contract!Lost(S)
    BY <1>0, <1>2, <2>3, EnginesLost
  <2>6. Contract!Closed
    BY <1>0, <2>2, <2>4, <2>5 DEF Contract!Closed, Contract!Running, CallsNow, OpenNow
  <2> QED
    BY <2>6 DEF Simulated, Contract!Next
<1>4. CASE g # pool
  <2>1. S = {}
    BY <1>4, TeardownReach
  <2>2. \A q \in Parses : CallOf(q)' = CallOf(q)
    BY <1>0, <1>2, <2>1, CallStays
  <2>3. CallsNow' = CallsNow
    BY <2>2 DEF CallsNow
  <2>4. OpenNow' = OpenNow
    BY <1>0, <1>4 DEF OpenNow, TypeOK, IInv, ClosedInv
  <2> QED
    BY <2>3, <2>4 DEF Simulated
<1> QED
  BY <1>3, <1>4

LEMMA OthersSimulated ==
    ASSUME IInv, TypeOK', UNCHANGED vars \/ Close \/ \E p \in Parses : CancelRequested(p)
    PROVE  Simulated
<1>0. TypeOK
  BY DEF IInv
<1>1. CASE UNCHANGED vars
  <2>1. UNCHANGED <<pools, parse, cancel, outcome, job>>
    BY <1>1 DEF vars, calls
  <2>2. \A q \in Parses : CallOf(q)' = CallOf(q)
    BY <2>1, CallStays
  <2> QED
    BY <2>1, <2>2 DEF Simulated, CallsNow, OpenNow, pools
<1>2. CASE Close
  <2>1. /\ UNCHANGED <<parse, cancel, outcome, job>> /\ ~closed /\ closed' = TRUE
        /\ closing' = {pool} /\ teardown' = [teardown EXCEPT ![pool] = "queued"]
    BY <1>2 DEF Close, calls
  <2>2. \A q \in Parses : CallOf(q)' = CallOf(q)
    BY <2>1, CallStays
  <2>3. OpenNow = "open" /\ OpenNow' = "closing"
    BY <1>0, <2>1 DEF OpenNow, TypeOK
  <2>4. Contract!Closes
    BY <2>2, <2>3 DEF Contract!Closes, CallsNow, OpenNow
  <2> QED
    BY <2>4 DEF Simulated, Contract!Next
<1>3. ASSUME NEW p \in Parses, CancelRequested(p) PROVE Simulated
  <2>1. /\ UNCHANGED <<pools, parse, outcome, job>> /\ parse[p] \in {"rebuilding", "awaiting"}
        /\ cancel'[p] = TRUE /\ \A q \in Parses \ {p} : cancel'[q] = cancel[q]
    BY <1>0, <1>3 DEF CancelRequested, TypeOK
  <2>2. Alone(p)
    BY <1>0, <2>1, CallStays, CallTypes, CallsTypedNext DEF Alone
  <2>3. OpenNow' = OpenNow
    BY <2>1 DEF OpenNow, pools
  <2>4. Contract!Asks(p)
    BY <2>1, <2>2, <2>3, CallAsks
  <2> QED
    BY <2>4 DEF Simulated, Contract!Next
<1> QED
  BY <1>1, <1>2, <1>3

\* KeepsParse: whatever breaks, is rebuilt, cancelled or closed when, the pool
\* gives the callers of parse what ParseContract promises them.
THEOREM PoolImplementsContract == Spec => KeepsParse
<1>1. Init => Contract!Init
  <2> SUFFICES ASSUME Init PROVE Contract!Init
    OBVIOUS
  <2>1. IInv /\ \A p \in Parses : /\ parse[p] = "idle" /\ ~cancel[p] /\ cancel[p] = FALSE
                                 /\ outcome[p] = "none" /\ job[p].state = "none"
    BY InitInv DEF Init, NoJob
  <2>2. ASSUME NEW p \in Parses PROVE CallOf(p) = Contract!NoCall
    <3>1. EngineOf(p) = "none"
      BY <2>1, Engines DEF EnginesAgree
    <3> QED
      BY <2>1, <3>1 DEF CallOf, Contract!NoCall
  <2>3. CallsNow = [p \in Parses |-> Contract!NoCall]
    BY <2>2 DEF CallsNow
  <2>4. OpenNow = "open"
    BY DEF Init, OpenNow
  <2> QED
    BY <2>3, <2>4 DEF Contract!Init, CallsNow, OpenNow
<1>2. Init => CancelledInv
  BY DEF Init, CancelledInv
<1>3. IInv /\ CancelledInv /\ [Next]_vars => CancelledInv'
  BY CancelledStep
<1>4. IInv /\ CancelledInv /\ IInv' /\ [Next]_vars => Simulated
  BY BeginningsSimulated, RetriesSimulated, EndingsSimulated, EnginesSimulated, BreaksSimulated,
     TeardownSimulated, OthersSimulated
     DEF Next, IInv
<1>5. Simulated <=> [Contract!Next]_<<CallsNow, OpenNow>>
  BY DEF Simulated
<1> QED
  BY <1>1, <1>2, <1>3, <1>4, <1>5, Invariant, PTL
     DEF Spec, KeepsParse, Contract!Spec, CallsNow, OpenNow
=============================================================================
