-------------------------- MODULE RetentionProofs --------------------------
(***************************************************************************)
(* Timestamps stored as text order as the instants they stand for, for any  *)
(* resolution; and for any settings, jobs and instants the purge keeps what *)
(* is within the TTL and no row outstays TTL and interval, and a job's wait *)
(* for a worker is bounded by the jobs it found before it.                  *)
(***************************************************************************)
EXTENDS Retention, FiniteSetTheorems, TLAPS

LEMMA Fields ==
    ASSUME NEW t \in Nat
    PROVE  /\ t \div Second \in Nat /\ t % Second \in 0 .. (Second - 1)
           /\ t = Second * (t \div Second) + (t % Second)
  BY SecondAssumption

LEMMA SecondsOrder ==
    ASSUME NEW a \in Nat, NEW b \in Nat, a \div Second < b \div Second
    PROVE  a < b
<1> DEFINE q == a \div Second
<1> DEFINE p == b \div Second
<1>1. /\ q \in Nat /\ p \in Nat /\ q + 1 <= p
      /\ a < Second * q + Second /\ Second * p <= b
  BY Fields, SecondAssumption
<1>2. Second * (q + 1) = Second * q + Second
  BY <1>1, SecondAssumption
<1>3. ASSUME NEW m \in Nat, NEW n \in Nat, m <= n PROVE Second * m <= Second * n
  BY <1>3, SecondAssumption
<1>4. Second * (q + 1) <= Second * p
  BY <1>1, <1>3
<1> HIDE DEF q, p
<1> QED
  BY <1>1, <1>2, <1>4, SecondAssumption

\* The order of two texts is decided by their seconds, then by their fractions,
\* whichever of them is missing: a plus sorts before a dot.
THEOREM TextOrder ==
    ASSUME NEW a \in Nat, NEW b \in Nat
    PROVE  TextLess(Iso(a), Iso(b)) <=> a < b
<1> DEFINE q == a \div Second
<1> DEFINE p == b \div Second
<1> DEFINE u == a % Second
<1> DEFINE v == b % Second
<1>1. /\ q \in Nat /\ p \in Nat /\ u \in Nat /\ v \in Nat
      /\ a = Second * q + u /\ b = Second * p + v
  BY Fields, SecondAssumption
<1>2. /\ Iso(a) = IF u = 0 THEN <<q, Plus>> ELSE <<q, Dot, u, Plus>>
      /\ Iso(b) = IF v = 0 THEN <<p, Plus>> ELSE <<p, Dot, v, Plus>>
  BY DEF Iso
<1>3. q < p => a < b
  BY SecondsOrder
<1>4. p < q => b < a
  BY SecondsOrder
<1>5. q = p => (a < b <=> u < v)
  <2>1. ASSUME q = p PROVE Second * q = Second * p
    BY <2>1
  <2>2. Second * q \in Nat /\ Second * p \in Nat
    BY <1>1, SecondAssumption
  <2> HIDE DEF q, p, u, v
  <2> QED
    BY <1>1, <2>1, <2>2
<1>6. a < b <=> q < p \/ (q = p /\ u < v)
  <2> HIDE DEF q, p, u, v
  <2> QED
    BY <1>1, <1>3, <1>4, <1>5
<1> HIDE DEF q, p, u, v
<1>7. CASE u = 0 /\ v = 0
  BY <1>1, <1>2, <1>6, <1>7 DEF TextLess, Plus, Dot
<1>8. CASE u = 0 /\ v # 0
  <2> DEFINE x == Iso(a)
  <2> DEFINE y == Iso(b)
  <2>1. Len(x) = 2 /\ x[1] = q /\ x[2] = Plus /\ Len(y) = 4 /\ y[1] = p /\ y[2] = Dot
    BY <1>1, <1>2, <1>8
  <2> HIDE DEF x, y
  <2>2. q < p => TextLess(x, y)
    BY <1>1, <2>1 DEF TextLess
  <2>3. q = p => TextLess(x, y)
    BY <1>1, <2>1 DEF TextLess, Plus, Dot
  <2>4. p < q => ~TextLess(x, y)
    BY <1>1, <2>1 DEF TextLess
  <2> QED
    BY <1>1, <1>6, <1>8, <2>2, <2>3, <2>4 DEF x, y
<1>9. CASE u # 0 /\ v = 0
  <2> DEFINE x == Iso(a)
  <2> DEFINE y == Iso(b)
  <2>1. Len(x) = 4 /\ x[1] = q /\ x[2] = Dot /\ Len(y) = 2 /\ y[1] = p /\ y[2] = Plus
    BY <1>1, <1>2, <1>9
  <2> HIDE DEF x, y
  <2>2. q < p => TextLess(x, y)
    BY <1>1, <2>1 DEF TextLess
  <2>3. p <= q => ~TextLess(x, y)
    BY <1>1, <2>1 DEF TextLess, Plus, Dot
  <2> QED
    BY <1>1, <1>6, <1>9, <2>2, <2>3 DEF x, y
<1>10. CASE u # 0 /\ v # 0
  <2> DEFINE x == Iso(a)
  <2> DEFINE y == Iso(b)
  <2>1. /\ Len(x) = 4 /\ x[1] = q /\ x[2] = Dot /\ x[3] = u /\ x[4] = Plus
        /\ Len(y) = 4 /\ y[1] = p /\ y[2] = Dot /\ y[3] = v /\ y[4] = Plus
    BY <1>1, <1>2, <1>10
  <2> HIDE DEF x, y
  <2>2. q < p => TextLess(x, y)
    BY <1>1, <2>1 DEF TextLess
  <2>3. p < q => ~TextLess(x, y)
    BY <1>1, <2>1 DEF TextLess
  <2>4. q = p /\ u < v => TextLess(x, y)
    <3>1. ASSUME q = p, u < v PROVE \A k \in 1..2 : k <= 4 /\ x[k] = y[k]
      BY <3>1, <2>1
    <3> QED
      BY <1>1, <2>1, <3>1 DEF TextLess
  <2>5. q = p /\ v <= u => ~TextLess(x, y)
    <3> SUFFICES ASSUME q = p, v <= u, NEW i \in 1..4,
                        \A k \in 1..(i - 1) : k <= Len(x) /\ x[k] = y[k],
                        i > Len(x) \/ x[i] < y[i]
                 PROVE  FALSE
      BY <2>1 DEF TextLess
    <3>1. i = 1 \/ i = 2 \/ i = 3 \/ i = 4
      OBVIOUS
    <3> QED
      BY <1>1, <2>1, <3>1 DEF Plus, Dot
  <2> QED
    BY <1>1, <1>6, <2>2, <2>3, <2>4, <2>5 DEF x, y
<1> QED
  BY <1>1, <1>7, <1>8, <1>9, <1>10

-----------------------------------------------------------------------------
\* The clock, the wake-ups of the purge, and the ages of rows.

TimeInv ==
    /\ TTL <= now
    /\ up => now <= due /\ due <= now + Interval
    /\ ~up => Working(Active) = {}
    /\ \A j \in Parses : job[j].row \/ job[j].work \in Active => job[j].created <= now
    /\ \A j \in Converts : ~job[j].row

\* What a purge left, and what came since, is not due before the next one.
PurgeInv ==
    up /\ ~missed /\ now # due => \A j \in Stored : due <= job[j].created + TTL + Interval

\* A delete or a disconnect.
Quits(j) == Delete(j) \/ Disconnect(j)

AgesInv == TypeOK /\ TimeInv /\ PurgeInv

USE SettingsAssumption, BoundsAssumption

\* The new record of one job, and that of every job at once.
LEMMA OneRecord ==
    ASSUME job \in [Parses -> Job], NEW j \in Parses, NEW r \in Job, job' = [job EXCEPT ![j] = r]
    PROVE  /\ job' \in [Parses -> Job] /\ job'[j] = r
           /\ \A i \in Parses \ {j} : job'[i] = job[i]
  OBVIOUS

LEMMA Forgotten ==
    ASSUME NEW r \in Job
    PROVE  /\ Forget(r) \in Job
           /\ r.row \/ r.work \in Active => Forget(r) = r
           /\ ~r.row /\ r.work \notin Active =>
                 Forget(r).work = "over" /\ ~Forget(r).row
  BY DEF Forget, Blank, Job, Active, Instants

LEMMA Dropped ==
    ASSUME NEW r \in Job
    PROVE  /\ DropRow(r) \in Job /\ ~DropRow(r).row
           /\ r.work \in Active => /\ DropRow(r).work = r.work /\ DropRow(r).place = r.place
                                   /\ DropRow(r).created = r.created
                                   /\ DropRow(r).started = r.started
                                   /\ DropRow(r).ahead = r.ahead
           /\ r.work \notin Active => DropRow(r).work = "over"
<1> DEFINE s == [r EXCEPT !.row = FALSE]
<1>1. /\ s \in Job /\ ~s.row /\ s.work = r.work /\ s.place = r.place /\ s.created = r.created
      /\ s.started = r.started /\ s.ahead = r.ahead
  BY DEF Job
<1> HIDE DEF s
<1>2. DropRow(r) = Forget(s)
  BY DEF DropRow, s
<1> QED
  BY <1>1, <1>2, Forgotten

\* The purge deletes what is older than the TTL, to the fraction of a second.
LEMMA ExpiredByAge ==
    ASSUME TypeOK, TimeInv
    PROVE  \A j \in Parses : j \in Expired <=> job[j].row /\ job[j].created < now - TTL
<1> SUFFICES ASSUME NEW j \in Parses
             PROVE  j \in Expired <=> job[j].row /\ job[j].created < now - TTL
  OBVIOUS
<1>1. job[j].created \in Nat /\ now - TTL \in Nat
  BY DEF TypeOK, Job, Instants, TimeInv
<1>2. TextLess(Iso(job[j].created), Iso(now - TTL)) <=> job[j].created < now - TTL
  BY <1>1, TextOrder
<1> QED
  BY <1>2 DEF Expired, Stored

LEMMA CountTypes == \A S \in SUBSET Parses : IsFiniteSet(S) /\ Cardinality(S) \in Nat
  BY ParsesAssumption, FS_Subset, FS_CardinalityType

\* The records and settings each action leaves.
LEMMA EntersShape ==
    ASSUME TypeOK, NEW j \in Parses, Enters(j)
    PROVE  /\ job' \in [Parses -> Job] /\ \A i \in Parses \ {j} : job'[i] = job[i]
           /\ job'[j].work = "waiting" /\ (job'[j].row <=> j \notin Converts)
           /\ job'[j].created = now
           /\ job'[j].place = Cardinality({i \in Parses : job[i].work # "none"})
           /\ job'[j].ahead = Cardinality(Working(Active))
<1> DEFINE n == Cardinality({i \in Parses : job[i].work # "none"})
<1> DEFINE a == Cardinality(Working(Active))
<1> DEFINE b == j \notin Converts
<1> DEFINE r == [work |-> "waiting", row |-> b, created |-> now, started |-> 0, finished |-> 0,
                 place |-> n, ahead |-> a]
<1>1. n \in Nat /\ a \in Nat /\ b \in BOOLEAN
  BY CountTypes DEF Working
<1>2. job' = [job EXCEPT ![j] = r]
  BY DEF Enters
<1> HIDE DEF n, a, b
<1>3. r \in Job
  BY <1>1 DEF Job, TypeOK, Instants
<1>4. /\ job' \in [Parses -> Job] /\ job'[j] = r /\ \A i \in Parses \ {j} : job'[i] = job[i]
  BY <1>2, <1>3 DEF TypeOK
<1>5. /\ job'[j].work = "waiting" /\ job'[j].row = b /\ job'[j].created = now
      /\ job'[j].place = n /\ job'[j].ahead = a
  BY <1>4
<1> QED
  BY <1>4, <1>5 DEF n, a, b

LEMMA StartsShape ==
    ASSUME TypeOK, NEW j \in Parses, Starts(j)
    PROVE  /\ job' \in [Parses -> Job] /\ \A i \in Parses \ {j} : job'[i] = job[i]
           /\ job'[j] = [job[j] EXCEPT !.work = "running", !.started = now]
<1> DEFINE r == [job[j] EXCEPT !.work = "running", !.started = now]
<1>1. job \in [Parses -> Job] /\ job[j] \in Job /\ now \in Instants
  BY DEF TypeOK, Instants
<1>2. r \in Job
  BY <1>1 DEF Job
<1>3. job' = [job EXCEPT ![j] = r]
  BY DEF Starts
<1> HIDE DEF r
<1>4. job'[j] = r /\ job' \in [Parses -> Job] /\ \A i \in Parses \ {j} : job'[i] = job[i]
  BY <1>1, <1>2, <1>3
<1> QED
  BY <1>4 DEF r

LEMMA FinishShape ==
    ASSUME TypeOK, NEW j \in Parses, Finish(j)
    PROVE  /\ job' \in [Parses -> Job] /\ \A i \in Parses \ {j} : job'[i] = job[i]
           /\ job[j].row => job'[j] = [job[j] EXCEPT !.work = "parsed", !.started = 0,
                                                     !.finished = now]
           /\ ~job[j].row => job'[j].work = "over" /\ ~job'[j].row
<1> DEFINE r == [job[j] EXCEPT !.work = "parsed", !.started = 0, !.finished = now]
<1>0. job \in [Parses -> Job] /\ job[j] \in Job /\ now \in Instants /\ 0 \in Instants
  BY DEF TypeOK, Instants
<1> DEFINE q == [job[j] EXCEPT !.work = "parsed", !.started = 0]
<1>a. q \in Job /\ q.work = "parsed" /\ q.row = job[j].row
  BY <1>0 DEF Job
<1>b. r = [q EXCEPT !.finished = now]
  OBVIOUS
<1> HIDE DEF q
<1>1. r \in Job /\ r.work = "parsed" /\ r.row = job[j].row
  <2>1. /\ [q EXCEPT !.finished = now] \in Job
        /\ [q EXCEPT !.finished = now].work = "parsed"
        /\ [q EXCEPT !.finished = now].row = q.row
    BY <1>0, <1>a DEF Job
  <2> HIDE DEF r
  <2> QED
    BY <1>a, <1>b, <2>1
<1>2. job' = [job EXCEPT ![j] = Forget(r)]
  BY DEF Finish
<1> HIDE DEF r
<1>3. /\ Forget(r) \in Job /\ (job[j].row => Forget(r) = r)
      /\ ~job[j].row => Forget(r).work = "over" /\ ~Forget(r).row
  BY <1>1, Forgotten DEF Active
<1>4. /\ job' \in [Parses -> Job] /\ job'[j] = Forget(r)
      /\ \A i \in Parses \ {j} : job'[i] = job[i]
  BY <1>0, <1>2, <1>3
<1> QED
  BY <1>3, <1>4 DEF r

LEMMA QuitsShape ==
    ASSUME TypeOK, NEW j \in Parses, Quits(j)
    PROVE  /\ job' \in [Parses -> Job] /\ \A i \in Parses \ {j} : job'[i] = job[i]
           /\ job'[j].work = "over" /\ ~job'[j].row
<1>1. Blank("over") \in Job /\ Blank("over").work = "over" /\ ~Blank("over").row
  BY DEF Blank, Job, Instants
<1> QED
  BY <1>1, OneRecord DEF Quits, Delete, Disconnect, Vanishes, TypeOK

LEMMA PurgeShape ==
    ASSUME TypeOK, PurgeRuns
    PROVE  /\ job' \in [Parses -> Job]
           /\ \A i \in Parses : job'[i] = IF i \in Expired THEN DropRow(job[i]) ELSE job[i]
  BY Dropped DEF PurgeRuns, TypeOK

LEMMA StopsShape ==
    ASSUME TypeOK, Stops
    PROVE  /\ job' \in [Parses -> Job]
           /\ \A i \in Parses : /\ job'[i].work \notin Active
                                /\ job'[i].row => job[i].row /\ job'[i].created = job[i].created
                                /\ job[i].row => job'[i].row
                                /\ job'[i].work = "parsed" => job'[i] = job[i]
                                /\ job'[i].work = "none" => job'[i] = job[i]
<1> SUFFICES ASSUME NEW i \in Parses
             PROVE  /\ job'[i] \in Job /\ job'[i].work \notin Active
                    /\ job'[i].row => job[i].row /\ job'[i].created = job[i].created
                    /\ job[i].row => job'[i].row
                    /\ job'[i].work = "parsed" => job'[i] = job[i]
                    /\ job'[i].work = "none" => job'[i] = job[i]
  BY DEF Stops
<1>1. job' = [j \in Parses |-> IF j \in Working(Active)
                               THEN Forget([job[j] EXCEPT !.work = "dropped", !.started = 0])
                               ELSE job[j]]
  BY DEF Stops
<1>2. CASE i \notin Working(Active)
  BY <1>1, <1>2 DEF TypeOK, Working
<1>3. CASE i \in Working(Active)
  <2> DEFINE r == [job[i] EXCEPT !.work = "dropped", !.started = 0]
  <2>0. job[i] \in Job /\ 0 \in Instants
    BY DEF TypeOK, Instants
  <2>1. r \in Job /\ r.work = "dropped" /\ r.row = job[i].row /\ r.created = job[i].created
    BY <2>0 DEF Job
  <2>2. job'[i] = Forget(r)
    BY <1>1, <1>3
  <2> HIDE DEF r
  <2> QED
    BY <2>1, <2>2, Forgotten DEF Active
<1> QED
  BY <1>2, <1>3

LEMMA SweepShape ==
    ASSUME TypeOK, Sweep
    PROVE  /\ job' \in [Parses -> Job]
           /\ \A i \in Parses : /\ job'[i].work = job[i].work /\ job'[i].row = job[i].row
                                /\ job'[i].created = job[i].created
                                /\ job[i].work # "dropped" => job'[i] = job[i]
<1> SUFFICES ASSUME NEW i \in Parses
             PROVE  /\ job'[i] \in Job /\ job'[i].work = job[i].work /\ job'[i].row = job[i].row
                    /\ job'[i].created = job[i].created
                    /\ job[i].work # "dropped" => job'[i] = job[i]
  BY DEF Sweep
<1>1. job[i] \in Job /\ [job[i] EXCEPT !.finished = now] \in Job
  BY DEF TypeOK, Job, Instants
<1>2. \/ job'[i] = job[i]
      \/ job[i].work = "dropped" /\ job'[i] = [job[i] EXCEPT !.finished = now]
  BY DEF Sweep
<1> QED
  BY <1>1, <1>2 DEF Job

\* Every action leaves records, and which of them an action reaches.
LEMMA TypeStep ==
    ASSUME TypeOK, TimeInv, [Next]_vars
    PROVE  TypeOK'
<1>1. CASE UNCHANGED vars
  BY <1>1 DEF TypeOK, vars, server, Job, Instants
<1>2. ASSUME NEW j \in Parses, Enters(j) PROVE TypeOK'
  BY <1>2, EntersShape DEF Enters, TypeOK, server, Job, Instants
<1>3. ASSUME NEW j \in Parses, Finish(j) PROVE TypeOK'
  BY <1>3, FinishShape DEF Finish, TypeOK, server, Job, Instants
<1>4. ASSUME NEW j \in Parses, Quits(j) PROVE TypeOK'
  BY <1>4, QuitsShape DEF Quits, Delete, Disconnect, Vanishes, TypeOK, server, Job, Instants
<1>5. CASE Start
  <2> PICK j \in Parses : Starts(j)
    BY <1>5 DEF Start, Waiting, Working
  <2> QED
    BY StartsShape DEF Starts, TypeOK, server, Job, Instants
<1>6. CASE PurgeRuns
  <2>1. job' \in [Parses -> Job]
    BY <1>6, PurgeShape
  <2>2. now' \in 0..MaxTime /\ due' \in Instants
    BY <1>6 DEF PurgeRuns, Sleeps, TypeOK, Instants
  <2>3. errors' \in 0..MaxErrors /\ stops' \in 0..MaxStops
    BY <1>6 DEF PurgeRuns, Sleeps, TypeOK, Instants
  <2>4. up' \in BOOLEAN /\ missed' \in BOOLEAN
    BY <1>6 DEF PurgeRuns, Sleeps, TypeOK, Instants
  <2> QED
    BY <2>1, <2>2, <2>3, <2>4 DEF TypeOK, Job, Instants
<1>7. CASE PurgeRaises
  BY <1>7 DEF PurgeRaises, Sleeps, TypeOK, Job, Instants
<1>8. CASE Stops
  <2>1. job' \in [Parses -> Job]
    BY <1>8, StopsShape
  <2>2. now' \in 0..MaxTime /\ due' \in Instants
    BY <1>8 DEF Stops, TypeOK, Instants
  <2>3. errors' \in 0..MaxErrors /\ stops' \in 0..MaxStops
    <3>1. errors' = errors /\ stops < MaxStops /\ stops' = stops + 1
      BY <1>8 DEF Stops
    <3> QED
      BY <3>1 DEF TypeOK
  <2>4. up' \in BOOLEAN /\ missed' \in BOOLEAN
    BY <1>8 DEF Stops, TypeOK, Instants
  <2> QED
    BY <2>1, <2>2, <2>3, <2>4 DEF TypeOK, Job, Instants
<1>9. CASE Boot
  <2>1. job' \in [Parses -> Job]
    BY <1>9, SweepShape DEF Boot
  <2>2. now' \in 0..MaxTime /\ due' \in Instants
    BY <1>9 DEF Boot, TypeOK, Instants
  <2>3. errors' \in 0..MaxErrors /\ stops' \in 0..MaxStops
    BY <1>9 DEF Boot, TypeOK, Instants
  <2>4. up' \in BOOLEAN /\ missed' \in BOOLEAN
    BY <1>9 DEF Boot, TypeOK, Instants
  <2> QED
    BY <2>1, <2>2, <2>3, <2>4 DEF TypeOK, Job, Instants
<1>10. CASE Tick
  BY <1>10 DEF Tick, server, TypeOK, Job, Instants
<1> QED
  BY <1>1, <1>2, <1>3, <1>4, <1>5, <1>6, <1>7, <1>8, <1>9, <1>10 DEF Next, Submit, Convert, Quits

\* No action but a submission gives a job a row or work, none but a submission
\* changes the creation of one that has either.
LEMMA Inherits ==
    ASSUME TypeOK, [Next]_vars, NEW i \in Parses, ~Enters(i)
    PROVE  /\ job'[i].row => job[i].row
           /\ job'[i].work \in Active => job[i].work \in Active
           /\ job'[i].row \/ job'[i].work \in Active => job'[i].created = job[i].created
<1>1. CASE UNCHANGED vars
  BY <1>1 DEF vars
<1>2. ASSUME NEW j \in Parses, Enters(j) PROVE job'[i] = job[i]
  BY <1>2, EntersShape
<1>3. ASSUME NEW j \in Parses, Finish(j), i # j PROVE job'[i] = job[i]
  BY <1>3, FinishShape
<1>4. CASE Finish(i)
  <2>1. job[i] \in Job /\ job[i].work = "running"
    BY <1>4 DEF Finish, TypeOK
  <2>2. CASE job[i].row
    <3>1. job'[i] = [job[i] EXCEPT !.work = "parsed", !.started = 0, !.finished = now]
      BY <1>4, <2>2, FinishShape
    <3> QED
      BY <2>1, <2>2, <3>1 DEF Job, Active
  <2>3. CASE ~job[i].row
    BY <1>4, <2>3, FinishShape DEF Active
  <2> QED
    BY <2>2, <2>3
<1>5. ASSUME NEW j \in Parses, Quits(j)
      PROVE  job'[i] = job[i] \/ (~job'[i].row /\ job'[i].work = "over")
  BY <1>5, QuitsShape
<1>6. CASE Start
  <2>1. PICK j \in Parses : Starts(j) /\ job[j].work = "waiting"
    BY <1>6 DEF Start, Waiting, Working
  <2>2. i # j => job'[i] = job[i]
    BY <2>1, StartsShape
  <2>3. job'[j] = [job[j] EXCEPT !.work = "running", !.started = now] /\ job[j] \in Job
    BY <2>1, StartsShape DEF TypeOK
  <2>4. job'[j].row = job[j].row /\ job'[j].created = job[j].created
    BY <2>3 DEF Job
  <2> QED
    BY <2>1, <2>2, <2>4 DEF Active
<1>7. CASE PurgeRuns
  <2>1. job'[i] = job[i] \/ (job'[i] = DropRow(job[i]) /\ job[i] \in Job)
    BY <1>7, PurgeShape DEF TypeOK
  <2> QED
    BY <2>1, Dropped DEF Active
<1>8. CASE PurgeRaises
  BY <1>8 DEF PurgeRaises
<1>9. CASE Stops
  BY <1>9, StopsShape
<1>10. CASE Boot
  BY <1>10, SweepShape DEF Boot
<1>11. CASE Tick
  BY <1>11 DEF Tick
<1> QED
  BY <1>1, <1>2, <1>3, <1>4, <1>5, <1>6, <1>7, <1>8, <1>9, <1>10, <1>11 DEF Next, Submit, Convert, Quits, Active

\* The actions of the clock and of the server, and all others.
LEMMA ServerMoves ==
    ASSUME [Next]_vars
    PROVE  \/ UNCHANGED <<now, up, due, missed>>
           \/ /\ up /\ now = due /\ missed' = FALSE /\ PurgeRuns
              /\ due' = now + Interval /\ now' = now /\ up' = up
           \/ /\ up /\ now = due /\ missed' = TRUE /\ job' = job
              /\ due' = now + Interval /\ now' = now /\ up' = up
           \/ Stops /\ ~up' /\ now' = now /\ due' = due
           \/ Boot /\ now' = now /\ due' = now
           \/ /\ Tick /\ now < MaxTime /\ (up => now # due) /\ now' = now + 1
              /\ UNCHANGED <<job, up, due, missed>>
<1>1. CASE UNCHANGED vars
  BY <1>1 DEF vars, server
<1>2. CASE \E j \in Parses : Enters(j)
  BY <1>2 DEF Enters, server
<1>3. CASE \E j \in Parses : Finish(j)
  <2>1. UNCHANGED <<now, server>>
    BY <1>3, Zenon DEF Finish
  <2> QED
    BY <2>1 DEF server
<1>4. CASE \E j \in Parses : Quits(j)
  BY <1>4 DEF Quits, Delete, Disconnect, Vanishes, server
<1>5. CASE Start
  <2>1. UNCHANGED <<now, server>>
    BY <1>5, Zenon DEF Start, Starts
  <2> QED
    BY <2>1 DEF server
<1>6. CASE PurgeRuns
  <2>1. up /\ now = due /\ missed' = FALSE /\ Sleeps /\ now' = now /\ up' = up
    BY <1>6 DEF PurgeRuns
  <2> QED
    BY <1>6, <2>1 DEF Sleeps
<1>7. CASE PurgeRaises
  BY <1>7 DEF PurgeRaises, Sleeps
<1>8. CASE Stops
  <2>1. up' = FALSE /\ now' = now /\ due' = due
    BY <1>8, Zenon DEF Stops
  <2> QED
    BY <1>8, <2>1
<1>9. CASE Boot
  BY <1>9 DEF Boot
<1>10. CASE Tick
  BY <1>10 DEF Tick, server
<1> QED
  BY <1>1, <1>2, <1>3, <1>4, <1>5, <1>6, <1>7, <1>8, <1>9, <1>10 DEF Next, Submit, Convert, Quits

LEMMA TimeStep ==
    ASSUME AgesInv, [Next]_vars
    PROVE  TimeInv'
<1> USE DEF AgesInv
<1>0. now \in Nat /\ due \in Nat /\ TTL <= now /\ (up => now <= due /\ due <= now + Interval)
  BY DEF TypeOK, TimeInv, Instants
<1>1. now' \in Nat /\ now <= now' /\ TTL <= now'
  <2>1. now' = now \/ now' = now + 1
    BY ServerMoves
  <2> QED
    BY <1>0, <2>1
<1>2. \A i \in Parses : job'[i].row \/ job'[i].work \in Active => job'[i].created <= now'
  <2> SUFFICES ASSUME NEW i \in Parses, job'[i].row \/ job'[i].work \in Active
               PROVE  job'[i].created <= now'
    OBVIOUS
  <2>1. CASE Enters(i)
    BY <1>0, <1>1, <2>1, EntersShape DEF Enters
  <2>2. CASE ~Enters(i)
    <3>1. job[i].created <= now /\ job'[i].created = job[i].created /\ job[i].created \in Nat
      BY <2>2, Inherits DEF TimeInv, TypeOK, Job, Instants
    <3> QED
      BY <1>0, <1>1, <3>1
  <2> QED
    BY <2>1, <2>2
<1>3. up' => now' <= due' /\ due' <= now' + Interval
  <2> SUFFICES ASSUME up' PROVE now' <= due' /\ due' <= now' + Interval
    OBVIOUS
  <2>1. \/ up /\ UNCHANGED <<now, due>>
        \/ now' = now /\ due' \in {now, now + Interval}
        \/ up /\ now # due /\ now' = now + 1 /\ due' = due
    BY ServerMoves
  <2> QED
    BY <1>0, <2>1
<1>4. ~up' => Working(Active)' = {}
  <2> SUFFICES ASSUME ~up', NEW i \in Parses, job'[i].work \in Active PROVE FALSE
    BY DEF Working
  <2>1. CASE Stops
    BY <2>1, StopsShape
  <2>2. CASE ~Stops
    <3>1. ~up
      BY <2>2, ServerMoves DEF Boot
    <3>2. ~Enters(i)
      BY <3>1 DEF Enters
    <3> QED
      BY <3>1, <3>2, Inherits DEF TimeInv, Working
  <2> QED
    BY <2>1, <2>2
<1>5. \A i \in Converts : ~job'[i].row
  <2> SUFFICES ASSUME NEW i \in Converts PROVE ~job'[i].row
    OBVIOUS
  <2>1. i \in Parses /\ ~job[i].row
    BY ParsesAssumption DEF TimeInv
  <2>2. CASE Enters(i)
    BY <2>1, <2>2, EntersShape
  <2>3. CASE ~Enters(i)
    BY <2>1, <2>3, Inherits
  <2> QED
    BY <2>2, <2>3
<1> QED
  BY <1>1, <1>2, <1>3, <1>4, <1>5 DEF TimeInv

LEMMA PurgeStep ==
    ASSUME AgesInv, [Next]_vars
    PROVE  PurgeInv'
<1> USE DEF AgesInv
<1> SUFFICES ASSUME up', ~missed', now' # due', NEW i \in Parses, job'[i].row
             PROVE  due' <= job'[i].created + TTL + Interval
  BY DEF PurgeInv, Stored
<1>1. /\ now \in Nat /\ due \in Nat /\ TTL <= now /\ (up => now <= due /\ due <= now + Interval)
      /\ job[i].created \in Nat
  BY DEF TypeOK, TimeInv, Job, Instants
<1>2. CASE Enters(i)
  <2>1. up /\ due' = due /\ job'[i].created = now
    BY <1>2, EntersShape DEF Enters, server
  <2> QED
    BY <1>1, <2>1
<1>3. CASE ~Enters(i)
  <2>1. job[i].row /\ job'[i].created = job[i].created
    BY <1>3, Inherits
  <2>2. up /\ ~missed /\ now # due => due <= job[i].created + TTL + Interval
    BY <2>1 DEF PurgeInv, Stored
  <2>3. CASE UNCHANGED <<now, up, due, missed>>
    BY <2>1, <2>2, <2>3
  <2>4. CASE PurgeRuns /\ due' = now + Interval
    <3>1. i \notin Expired
      BY <2>4, PurgeShape, Dropped DEF TypeOK
    <3>2. ~(job[i].created < now - TTL)
      BY <2>1, <3>1, ExpiredByAge
    <3> QED
      BY <1>1, <2>1, <2>4, <3>2
  <2>5. CASE up /\ (up => now # due) /\ UNCHANGED <<up, due, missed>>
    BY <2>1, <2>2, <2>5
  <2> QED
    BY <2>3, <2>4, <2>5, ServerMoves
<1> QED
  BY <1>2, <1>3

LEMMA AgesInit == Init => AgesInv
<1> SUFFICES ASSUME Init PROVE AgesInv
  OBVIOUS
<1>1. now \in TTL .. (TTL + Second - 1) /\ now <= MaxTime /\ due = now /\ up = TRUE /\ missed = FALSE
      /\ errors = 0 /\ stops = 0 /\ job = [j \in Parses |-> Blank("none")]
  BY DEF Init
<1>2. Blank("none") \in Job /\ Blank("none").work = "none" /\ ~Blank("none").row
  BY DEF Blank, Job, Instants
<1>3. job \in [Parses -> Job] /\ \A j \in Parses : job[j].work = "none" /\ ~job[j].row
  BY <1>1, <1>2
<1>4. now \in 0..MaxTime /\ now \in Nat /\ TTL <= now
  BY <1>1, SecondAssumption
<1>5. TypeOK
  <2>1. due \in Instants
    BY <1>1, <1>4 DEF Instants
  <2>3. up \in BOOLEAN /\ missed \in BOOLEAN
    BY <1>1
  <2>2. errors \in 0..MaxErrors /\ stops \in 0..MaxStops
    BY <1>1
  <2> QED
    BY <1>3, <1>4, <2>1, <2>2, <2>3 DEF TypeOK
<1>6. TimeInv
  BY <1>1, <1>3, <1>4, ParsesAssumption DEF TimeInv, Working, Active
<1> QED
  BY <1>1, <1>5, <1>6 DEF AgesInv, PurgeInv

\* The invariant of the clock: the purge is never late, and what it would delete
\* when it is due, it has deleted if it did not raise.
THEOREM Ages == Spec => []AgesInv
<1>1. AgesInv /\ [Next]_vars => AgesInv'
  BY TypeStep, TimeStep, PurgeStep DEF AgesInv
<1> QED
  BY <1>1, AgesInit, PTL DEF Spec

\* GoneInTime: no row outstays TTL and interval, whatever the settings.
THEOREM RowsGo == Spec => []GoneInTime
<1>1. AgesInv => GoneInTime
  <2> SUFFICES ASSUME AgesInv, up, ~missed, now # due, NEW j \in Stored
               PROVE  Age(j) <= TTL + Interval
    BY DEF GoneInTime
  <2>1. now <= due /\ due <= job[j].created + TTL + Interval
    BY DEF AgesInv, TimeInv, PurgeInv
  <2>2. now \in Nat /\ due \in Nat /\ job[j].created \in Nat
    BY DEF AgesInv, TypeOK, Instants, Job, Stored
  <2> QED
    BY <2>1, <2>2 DEF Age
<1> QED
  BY <1>1, Ages, PTL

\* Clock, jobs and server keep their types.
THEOREM TypeCorrect == Spec => []TypeOK
  BY Ages, PTL DEF AgesInv

-----------------------------------------------------------------------------
\* First come, first served.

Seen      == {i \in Parses : job[i].work # "none"}
Before(j) == {i \in Working(Active) : job[i].place < job[j].place}
Old(w)    == {i \in Running : job[i].started <= w}

InOrder ==
    /\ \A i \in Working(Active) : job[i].place < Cardinality(Seen)
    /\ \A i, j \in Working(Active) : job[i].place = job[j].place => i = j
    /\ \A i \in Running, j \in Waiting : job[i].place < job[j].place

\* The m-th timeout of a wait cost worker_count of the jobs before it: those
\* that still run since before it began are the only ones left to pay it.
Served(j, m) ==
    job[j].created + m * Timeout < now =>
        Cardinality(Before(j)) + Workers + m * Workers
            <= job[j].ahead + Cardinality(Old(job[j].created + m * Timeout))

WaitInv ==
    \A j \in Waiting : /\ Cardinality(Before(j)) <= job[j].ahead
                        /\ \A m \in Nat : Served(j, m)

Share(j) == Timeout * (job[j].ahead \div Workers)

RunInv ==
    \A j \in Parses :
        /\ job[j].work = "running" => /\ job[j].started <= now /\ now <= Deadline(j)
                                      /\ job[j].started <= job[j].created + Share(j)
        /\ job[j].work = "parsed" => job[j].finished <= job[j].created + Share(j) + Timeout

QueueInv == AgesInv /\ InOrder /\ WaitInv /\ RunInv

\* What a step leaves of a job that waits or runs: only a start moves it.
LEMMA Keeps ==
    ASSUME TypeOK, [Next]_vars, NEW i \in Parses, ~Enters(i), job'[i].work \in Active
    PROVE  /\ job[i].work \in Active
           /\ job'[i].place = job[i].place /\ job'[i].created = job[i].created
           /\ job'[i].ahead = job[i].ahead
           /\ \/ job'[i].work = job[i].work /\ job'[i].started = job[i].started
              \/ Start /\ Starts(i) /\ job[i].work = "waiting"
<1>1. job[i].work \in Active
  BY Inherits
<1>2. CASE job'[i] = job[i]
  BY <1>1, <1>2
<1>3. ASSUME NEW j \in Parses, Enters(j) \/ Finish(j) \/ Quits(j) PROVE job'[i] = job[i]
  <2>1. CASE Enters(j)
    BY <2>1, EntersShape
  <2>2. CASE Finish(j)
    <3>1. i = j => job'[i].work \notin Active
      <4>1. i = j /\ job[j].row => job'[i].work = "parsed"
        <5> SUFFICES ASSUME i = j, job[j].row PROVE job'[i].work = "parsed"
          OBVIOUS
        <5>1. job[j] \in Job /\ job'[j] = [job[j] EXCEPT !.work = "parsed", !.started = 0, !.finished = now]
          BY <2>2, FinishShape DEF TypeOK
        <5> QED
          BY <5>1 DEF Job
      <4>2. i = j /\ ~job[j].row => job'[i].work = "over"
        BY <2>2, FinishShape
      <4> QED
        BY <4>1, <4>2 DEF Active
    <3> QED
      BY <2>2, <3>1, FinishShape
  <2>3. CASE Quits(j)
    BY <2>3, QuitsShape DEF Active
  <2> QED
    BY <1>3, <2>1, <2>2, <2>3
<1>4. CASE Start
  <2>1. PICK j \in Parses : Starts(j) /\ job[j].work = "waiting"
    BY <1>4 DEF Start, Waiting, Working
  <2>2. i # j => job'[i] = job[i]
    BY <2>1, StartsShape
  <2>3. job'[j] = [job[j] EXCEPT !.work = "running", !.started = now] /\ job[j] \in Job
    BY <2>1, StartsShape DEF TypeOK
  <2>4. job'[j].place = job[j].place /\ job'[j].created = job[j].created
        /\ job'[j].ahead = job[j].ahead
    BY <2>3 DEF Job
  <2> QED
    BY <1>1, <1>2, <1>4, <2>1, <2>2, <2>4
<1>5. CASE PurgeRuns
  <2>1. job'[i] = job[i] \/ (job'[i] = DropRow(job[i]) /\ job[i] \in Job)
    BY <1>5, PurgeShape DEF TypeOK
  <2> QED
    BY <1>1, <1>2, <2>1, Dropped
<1>6. CASE Stops
  BY <1>6, StopsShape
<1>7. CASE Boot
  BY <1>1, <1>2, <1>7, SweepShape DEF Boot, Active
<1>8. CASE UNCHANGED vars \/ PurgeRaises \/ Tick
  BY <1>2, <1>8 DEF vars, PurgeRaises, Tick
<1> QED
  BY <1>2, <1>3, <1>4, <1>5, <1>6, <1>7, <1>8 DEF Next, Submit, Convert, Quits

\* Parses leave one at a time, but when the server goes down.
LEMMA Leaves ==
    ASSUME TypeOK, [Next]_vars, NEW i \in Parses, job[i].work \in Active, ~Stops,
           ~Finish(i), ~Quits(i)
    PROVE  job'[i].work \in Active
<1>1. CASE job'[i] = job[i]
  BY <1>1
<1>2. ASSUME NEW j \in Parses, Enters(j) \/ Finish(j) \/ Quits(j) PROVE job'[i] = job[i]
  <2>1. CASE Enters(j)
    BY <2>1, EntersShape DEF Enters, Active
  <2>2. CASE Finish(j) \/ Quits(j)
    <3>1. i # j
      BY <2>2
    <3> QED
      BY <2>2, <3>1, FinishShape, QuitsShape
  <2> QED
    BY <1>2, <2>1, <2>2
<1>3. CASE Start
  <2>1. PICK j \in Parses : Starts(j)
    BY <1>3 DEF Start, Waiting, Working
  <2>2. i # j => job'[i] = job[i]
    BY <2>1, StartsShape
  <2>3. job'[j] = [job[j] EXCEPT !.work = "running", !.started = now] /\ job[j] \in Job
    BY <2>1, StartsShape DEF TypeOK
  <2>4. job'[j].work = "running"
    BY <2>3 DEF Job
  <2> QED
    BY <1>1, <2>2, <2>4 DEF Active
<1>4. CASE PurgeRuns
  <2>1. job'[i] = job[i] \/ (job'[i] = DropRow(job[i]) /\ job[i] \in Job)
    BY <1>4, PurgeShape DEF TypeOK
  <2> QED
    BY <1>1, <2>1, Dropped
<1>5. CASE Boot
  BY <1>5, SweepShape DEF Boot
<1>6. CASE UNCHANGED vars \/ PurgeRaises \/ Tick
  BY <1>1, <1>6 DEF vars, PurgeRaises, Tick
<1> QED
  BY <1>1, <1>2, <1>3, <1>4, <1>5, <1>6 DEF Next, Submit, Convert, Quits

\* One job less before another is at most one less of those that still pay.
LEMMA Counting ==
    ASSUME NEW B \in SUBSET Parses, NEW O \in SUBSET B, NEW i,
           NEW P \in SUBSET Parses, O \ {i} \subseteq P
    PROVE  /\ Cardinality(B \ {i}) \in Nat /\ Cardinality(B) \in Nat
           /\ Cardinality(O) \in Nat /\ Cardinality(P) \in Nat
           /\ Cardinality(B \ {i}) <= Cardinality(B)
           /\ Cardinality(B \ {i}) + Cardinality(O) <= Cardinality(B) + Cardinality(P)
<1>1. /\ IsFiniteSet(B) /\ IsFiniteSet(O) /\ IsFiniteSet(P) /\ IsFiniteSet(B \ {i})
      /\ IsFiniteSet(O \ {i})
      /\ Cardinality(B \ {i}) \in Nat /\ Cardinality(B) \in Nat
      /\ Cardinality(O) \in Nat /\ Cardinality(P) \in Nat /\ Cardinality(O \ {i}) \in Nat
  BY ParsesAssumption, FS_Subset, FS_CardinalityType
<1>2. Cardinality(O \ {i}) <= Cardinality(P)
  BY <1>1, FS_Subset
<1>3. CASE i \in B
  <2>1. Cardinality(B \ {i}) = Cardinality(B) - 1
    BY <1>1, <1>3, FS_RemoveElement
  <2>2. Cardinality(O \ {i}) >= Cardinality(O) - 1
    <3>1. CASE i \in O
      BY <1>1, <3>1, FS_RemoveElement
    <3>2. CASE i \notin O
      <4>1. O \ {i} = O
        BY <3>2
      <4> QED
        BY <1>1, <4>1
    <3> QED
      BY <3>1, <3>2
  <2> QED
    BY <1>1, <1>2, <2>1, <2>2
<1>4. CASE i \notin B
  <2>1. B \ {i} = B /\ O \ {i} = O
    BY <1>4
  <2>2. Cardinality(B \ {i}) = Cardinality(B) /\ Cardinality(O) <= Cardinality(P)
    BY <1>2, <2>1
  <2> QED
    BY <1>1, <2>2
<1> QED
  BY <1>3, <1>4

LEMMA SeenGrows ==
    ASSUME TypeOK, [Next]_vars
    PROVE  /\ Seen \subseteq Seen' /\ Cardinality(Seen) <= Cardinality(Seen')
           /\ Cardinality(Seen) \in Nat /\ Cardinality(Seen') \in Nat
<1>1. ASSUME NEW i \in Parses, job[i].work # "none" PROVE job'[i].work # "none"
  <2>1. CASE job'[i] = job[i] \/ job'[i].work \in Active
    BY <1>1, <2>1 DEF Active
  <2>2. ASSUME NEW j \in Parses, Enters(j) PROVE job'[i].work # "none"
    BY <1>1, <2>2, EntersShape DEF Enters
  <2>3. ASSUME NEW j \in Parses, Finish(j) PROVE job'[i].work # "none"
    <3>1. CASE i # j
      BY <1>1, <2>3, <3>1, FinishShape
    <3>2. CASE i = j /\ job[j].row
      <4>1. job[j] \in Job /\ job'[j] = [job[j] EXCEPT !.work = "parsed", !.started = 0, !.finished = now]
        BY <2>3, <3>2, FinishShape DEF TypeOK
      <4>2. job'[j].work = "parsed"
        BY <4>1 DEF Job
      <4> QED
        BY <3>2, <4>2
    <3>3. CASE i = j /\ ~job[j].row
      BY <2>3, <3>3, FinishShape
    <3> QED
      BY <3>1, <3>2, <3>3
  <2>4. ASSUME NEW j \in Parses, Quits(j) PROVE job'[i].work # "none"
    BY <1>1, <2>4, QuitsShape
  <2>5. CASE Start
    <3>1. PICK j \in Parses : Starts(j)
      BY <2>5 DEF Start, Waiting, Working
    <3>2. job'[j] = [job[j] EXCEPT !.work = "running", !.started = now] /\ job[j] \in Job
      BY <3>1, StartsShape DEF TypeOK
    <3>3. job'[j].work = "running"
      BY <3>2 DEF Job
    <3> QED
      BY <1>1, <3>1, <3>3, StartsShape
  <2>6. CASE PurgeRuns
    <3>1. job'[i] = job[i] \/ (job'[i] = DropRow(job[i]) /\ job[i] \in Job)
      BY <2>6, PurgeShape DEF TypeOK
    <3> QED
      BY <1>1, <3>1, Dropped
  <2>7. CASE Stops
    BY <1>1, <2>7, StopsShape
  <2>8. CASE Boot
    BY <1>1, <2>8, SweepShape DEF Boot
  <2>9. CASE UNCHANGED vars \/ PurgeRaises \/ Tick
    BY <2>1, <2>9 DEF vars, PurgeRaises, Tick
  <2> QED
    BY <2>2, <2>3, <2>4, <2>5, <2>6, <2>7, <2>8, <2>9 DEF Next, Submit, Convert, Quits
<1>2. Seen \subseteq Seen'
  BY <1>1 DEF Seen
<1>3. IsFiniteSet(Seen) /\ IsFiniteSet(Seen')
  BY ParsesAssumption, FS_Subset DEF Seen
<1> QED
  BY <1>2, <1>3, FS_Subset, FS_CardinalityType

LEMMA OrderStep ==
    ASSUME TypeOK, InOrder, [Next]_vars
    PROVE  InOrder'
<1>1. CASE \E j \in Parses : Enters(j)
  <2>1. PICK j \in Parses : Enters(j)
    BY <1>1
  <2>2. /\ \A i \in Parses \ {j} : job'[i] = job[i]
        /\ job'[j].work = "waiting" /\ job'[j].place = Cardinality(Seen)
        /\ job[j].work = "none"
    BY <2>1, EntersShape DEF Enters, Seen
  <2>3. Seen' = Seen \cup {j} /\ j \notin Seen
    BY <2>2 DEF Seen
  <2>4. /\ Cardinality(Seen') = Cardinality(Seen) + 1 /\ Cardinality(Seen) \in Nat
    BY <2>3, ParsesAssumption, FS_Subset, FS_AddElement, FS_CardinalityType DEF Seen
  <2>5. \A i \in Working(Active) : job[i].place \in Nat /\ job[i].place < Cardinality(Seen)
    BY DEF TypeOK, Job, Working, InOrder
  <2>6. /\ Working(Active)' = Working(Active) \cup {j} /\ j \notin Working(Active)
        /\ Running' = Running /\ Waiting' = Waiting \cup {j}
    BY <2>2 DEF Working, Running, Waiting, Active
  <2>7. Running \subseteq Working(Active) /\ Waiting \subseteq Working(Active)
    BY DEF Working, Running, Waiting, Active
  <2>8. \A i \in Working(Active) : job'[i].place = job[i].place
    BY <2>2, <2>6 DEF Working
  <2> QED
    BY <2>2, <2>4, <2>5, <2>6, <2>7, <2>8 DEF InOrder
<1>2. CASE ~\E j \in Parses : Enters(j)
  <2>1. \A i \in Working(Active)' :
           /\ i \in Working(Active) /\ job'[i].place = job[i].place
           /\ job'[i].work = job[i].work \/ (Start /\ Starts(i) /\ job[i].work = "waiting")
    BY <1>2, Keeps DEF Working
  <2>2. \A i \in Working(Active) : job[i].place \in Nat
    BY DEF TypeOK, Job, Working
  <2>3. \A i \in Working(Active)' : job'[i].place < Cardinality(Seen')
    BY <2>1, <2>2, SeenGrows DEF InOrder
  <2>4. \A i, j \in Working(Active)' : job'[i].place = job'[j].place => i = j
    BY <2>1 DEF InOrder
  <2>5. ASSUME NEW i \in Running', NEW j \in Waiting' PROVE job'[i].place < job'[j].place
    <3>1. /\ i \in Working(Active)' /\ j \in Working(Active)'
          /\ job'[i].work = "running" /\ job'[j].work = "waiting"
      BY <2>5 DEF Running, Waiting, Working, Active
    <3>2. /\ i \in Working(Active) /\ j \in Working(Active) /\ i # j
          /\ job'[i].place = job[i].place /\ job'[j].place = job[j].place
          /\ job[i].place \in Nat /\ job[j].place \in Nat /\ job[i].place # job[j].place
      BY <2>1, <2>2, <3>1 DEF InOrder
    <3>3. ASSUME Starts(i), job[i].work = "waiting" PROVE job'[j] = job[j]
      BY <3>2, <3>3, StartsShape DEF Working
    <3>4. CASE job'[i].work = job[i].work
      <4>1. i \in Running
        BY <3>1, <3>2, <3>4 DEF Running, Working
      <4>2. CASE job'[j].work = job[j].work
        BY <3>1, <3>2, <4>1, <4>2 DEF InOrder, Waiting, Working
      <4>3. CASE Starts(j) /\ job[j].work = "waiting"
        BY <3>2, <4>1, <4>3 DEF InOrder, Waiting, Working
      <4> QED
        BY <2>1, <3>1, <4>2, <4>3
    <3>5. CASE Start /\ Starts(i) /\ job[i].work = "waiting"
      <4>1. j \in Waiting
        BY <3>1, <3>2, <3>3, <3>5 DEF Waiting, Working
      <4>2. PICK k \in Waiting : (\A l \in Waiting : job[k].place <= job[l].place) /\ Starts(k)
        BY <3>5 DEF Start
      <4>3. k = i
        <5>1. job'[k].work = "running"
          <6>1. job'[k] = [job[k] EXCEPT !.work = "running", !.started = now] /\ job[k] \in Job
            BY <4>2, StartsShape DEF Waiting, Working, TypeOK
          <6> QED
            BY <6>1 DEF Job
        <5>2. k # i => job'[k] = job[k]
          BY <3>2, <3>5, <4>2, StartsShape DEF Waiting, Working
        <5> QED
          BY <4>2, <5>1, <5>2 DEF Waiting, Working
      <4> QED
        BY <3>2, <4>1, <4>2, <4>3
    <3> QED
      BY <2>1, <3>1, <3>4, <3>5
  <2> QED
    BY <2>3, <2>4, <2>5 DEF InOrder
<1> QED
  BY <1>1, <1>2

\* While a job waits, at most one of the jobs before it goes in a step.
LEMMA StillWaiting ==
    ASSUME TypeOK, InOrder, [Next]_vars, NEW j \in Waiting, j \in Waiting'
    PROVE  \E i : /\ Before(j)' = Before(j) \ {i}
                  /\ \A w \in Nat : Old(w) \ {i} \subseteq Old(w)'
<1>1. /\ j \in Parses /\ job[j].work = "waiting" /\ job'[j].work = "waiting"
      /\ ~Enters(j) /\ ~Stops
  BY StopsShape DEF Waiting, Working, Enters, Active
<1>2. job'[j].place = job[j].place /\ job[j].place \in Nat /\ job[j].place < Cardinality(Seen)
  <2>1. job'[j].place = job[j].place
    BY <1>1, Keeps DEF Active
  <2>2. job[j].place \in Nat
    BY <1>1 DEF TypeOK, Job
  <2>3. job[j].place < Cardinality(Seen)
    BY <1>1 DEF InOrder, Working, Active
  <2> QED
    BY <2>1, <2>2, <2>3
<1>3. ASSUME NEW k \in Working(Active)', k \notin Working(Active)
      PROVE  ~(job'[k].place < job[j].place)
  <2>1. Enters(k)
    BY <1>3, Keeps DEF Working
  <2>2. job'[k].place = Cardinality(Seen)
    BY <1>3, <2>1, EntersShape DEF Seen, Working
  <2>3. Cardinality(Seen) \in Nat
    BY SeenGrows
  <2> QED
    BY <1>2, <2>2, <2>3
<1>4. ASSUME NEW k \in Working(Active), k \in Working(Active)'
      PROVE  /\ job'[k].place = job[k].place
             /\ job[k].work = "running" =>
                    job'[k].work = "running" /\ job'[k].started = job[k].started
  <2>1. k \in Parses /\ ~Enters(k)
    BY <1>4 DEF Working, Enters, Active
  <2> QED
    BY <1>4, <2>1, Keeps DEF Working
<1>5. ASSUME NEW i, \A k \in Working(Active) \ {i} : k \in Working(Active)',
             i \notin Working(Active)' \/ i = j
      PROVE  /\ Before(j)' = Before(j) \ {i}
             /\ \A w \in Nat : Old(w) \ {i} \subseteq Old(w)'
  <2>1. ASSUME NEW k PROVE k \in Before(j)' <=> k \in Before(j) \ {i}
    <3>1. j \notin Before(j)'
      BY <1>2 DEF Before
    <3>2. k \in Before(j)' => k \in Before(j)
      BY <1>2, <1>3, <1>4 DEF Before
    <3>3. k \in Before(j) /\ k # i => k \in Before(j)'
      BY <1>2, <1>4, <1>5 DEF Before
    <3>4. i \notin Before(j)'
      BY <1>5, <3>1 DEF Before
    <3> QED
      BY <3>2, <3>3, <3>4
  <2>2. ASSUME NEW w \in Nat, NEW k \in Old(w) \ {i} PROVE k \in Old(w)'
    <3>1. k \in Working(Active) /\ job[k].work = "running" /\ job[k].started <= w
      BY <2>2 DEF Old, Running, Working, Active
    <3>2. k \in Parses /\ job'[k].work = "running" /\ job'[k].started = job[k].started
      BY <1>4, <1>5, <2>2, <3>1 DEF Working
    <3> QED
      BY <3>1, <3>2 DEF Old, Running, Working
  <2> QED
    BY <2>1, <2>2
<1>6. CASE \E i \in Working(Active) : Finish(i) \/ Quits(i)
  <2>1. PICK i \in Working(Active) : Finish(i) \/ Quits(i)
    BY <1>6
  <2>2. \A k \in Parses \ {i} : job'[k] = job[k]
    BY <2>1, FinishShape, QuitsShape DEF Working
  <2>3. job'[i].work \notin Active
    <3>1. CASE Quits(i)
      BY <2>1, <3>1, QuitsShape DEF Working, Active
    <3>2. CASE Finish(i) /\ ~job[i].row
      BY <2>1, <3>2, FinishShape DEF Working, Active
    <3>3. CASE Finish(i) /\ job[i].row
      <4>1. /\ job[i] \in Job
            /\ job'[i] = [job[i] EXCEPT !.work = "parsed", !.started = 0, !.finished = now]
        BY <2>1, <3>3, FinishShape DEF TypeOK, Working
      <4>2. job'[i].work = "parsed"
        BY <4>1 DEF Job
      <4> QED
        BY <4>2 DEF Active
    <3> QED
      BY <2>1, <3>1, <3>2, <3>3
  <2>4. \A k \in Working(Active) \ {i} : k \in Working(Active)'
    BY <2>2 DEF Working
  <2>5. i \notin Working(Active)'
    BY <2>3 DEF Working
  <2> QED
    BY <1>5, <2>4, <2>5
<1>7. CASE ~\E i \in Working(Active) : Finish(i) \/ Quits(i)
  <2>1. \A k \in Working(Active) : k \in Working(Active)'
    BY <1>1, <1>7, Leaves DEF Working
  <2> QED
    BY <1>5, <2>1
<1> QED
  BY <1>6, <1>7

LEMMA OldAreBefore ==
    ASSUME TypeOK, InOrder, NEW j \in Waiting
    PROVE  /\ Before(j) \in SUBSET Parses /\ Running \subseteq Before(j)
           /\ Cardinality(Running) <= Cardinality(Before(j))
           /\ \A w \in Nat : /\ Old(w) \subseteq Before(j) /\ Old(w) \in SUBSET Parses
                             /\ Cardinality(Old(w)) <= Cardinality(Before(j))
<1>1. Before(j) \in SUBSET Parses /\ Running \subseteq Before(j)
  BY DEF Before, InOrder, Running, Working, Active
<1>2. IsFiniteSet(Before(j))
  BY <1>1, CountTypes
<1> QED
  BY <1>1, <1>2, FS_Subset DEF Old

\* Multiples, for the solver.
LEMMA Products ==
    ASSUME NEW n \in Nat \ {0}, NEW m \in Nat
    PROVE  /\ m * n \in Nat /\ n * m = m * n
           /\ m # 0 => (m - 1) * n = m * n - n /\ (m - 1) * n \in Nat
           /\ (m + 1) * n = m * n + n
           /\ m \div n \in Nat /\ m < ((m \div n) + 1) * n
  OBVIOUS

\* A wait ends within its share.
LEMMA StartsInTime ==
    ASSUME QueueInv, NEW j \in Waiting
    PROVE  now <= job[j].created + Share(j)
<1> DEFINE m == job[j].ahead \div Workers
<1> DEFINE w == job[j].created + m * Timeout
<1>1. j \in Parses /\ job[j].created \in Nat /\ job[j].ahead \in Nat /\ now \in Nat
  BY DEF QueueInv, AgesInv, TypeOK, Job, Waiting, Working, Instants
<1>2. /\ m \in Nat /\ m * Timeout \in Nat /\ Timeout * m = m * Timeout
      /\ m * Workers \in Nat /\ (m + 1) * Workers = m * Workers + Workers
      /\ job[j].ahead < (m + 1) * Workers
  BY <1>1, Products
<1>3. w \in Nat
  BY <1>1, <1>2
<1>4. /\ Cardinality(Old(w)) \in Nat /\ Cardinality(Before(j)) \in Nat
      /\ Cardinality(Old(w)) <= Cardinality(Before(j))
  BY <1>3, OldAreBefore, CountTypes DEF QueueInv, AgesInv
<1>5. w < now => Cardinality(Before(j)) + Workers + m * Workers
                    <= job[j].ahead + Cardinality(Old(w))
  BY <1>2 DEF QueueInv, WaitInv, Served
<1>6. Share(j) = m * Timeout
  BY <1>2 DEF Share
<1> HIDE DEF m
<1>7. ~(w < now)
  BY <1>1, <1>2, <1>4, <1>5
<1> QED
  BY <1>1, <1>2, <1>6, <1>7

\* A tick ends the m-th timeout of a wait: every worker ran a job through it,
\* none of those that run now began before it.
LEMMA TickServes ==
    ASSUME QueueInv, Tick, now \in Nat, now' = now + 1, job' = job, NEW j \in Waiting, NEW m \in Nat
    PROVE  Served(j, m)'
<1> DEFINE w == job[j].created + m * Timeout
<1>1. /\ j \in Parses /\ job[j].created \in Nat /\ job[j].ahead \in Nat
  BY DEF QueueInv, AgesInv, TypeOK, Job, Waiting, Working, Instants
<1>2. w \in Nat /\ m * Workers \in Nat
  BY <1>1, Products
<1>3. /\ \A v \in Nat : Cardinality(Old(v)) \in Nat
      /\ Cardinality(Before(j)) \in Nat /\ Cardinality(Before(j)) <= job[j].ahead
  BY OldAreBefore, CountTypes DEF QueueInv, AgesInv, WaitInv
<1>4. Cardinality(Running) >= Workers
  <2>1. ~Ready
    BY DEF Tick
  <2>2. Cardinality(Running) \in Nat
    BY CountTypes DEF Running, Working
  <2> QED
    BY <2>1, <2>2 DEF Ready
<1>5. \A i \in Running : /\ job[i].started \in Nat /\ job[i].started <= now
                          /\ now < job[i].started + Timeout
  <2> SUFFICES ASSUME NEW i \in Running
               PROVE  /\ job[i].started \in Nat /\ job[i].started <= now
                      /\ now < job[i].started + Timeout
    OBVIOUS
  <2>1. i \in Parses /\ job[i].work = "running"
    BY DEF Running, Working
  <2>2. job[i].started \in Nat
    BY <2>1 DEF QueueInv, AgesInv, TypeOK, Job, Instants
  <2>3. job[i].started <= now /\ now <= Deadline(i)
    BY <2>1 DEF QueueInv, RunInv
  <2>4. now # Deadline(i)
    BY DEF Tick
  <2> QED
    BY <2>2, <2>3, <2>4 DEF Deadline
<1>6. Served(j, m)' <=>
        (w < now' => Cardinality(Before(j)) + Workers + m * Workers
                        <= job[j].ahead + Cardinality(Old(w)))
  BY DEF Served, Before, Old, Running, Working
<1>7. CASE w < now
  BY <1>6, <1>7 DEF QueueInv, WaitInv, Served
<1>8. CASE w = now
  <2>1. Old(w) = Running
    BY <1>5, <1>8 DEF Old
  <2>2. Cardinality(Old(w)) \in Nat /\ Cardinality(Old(w)) >= Workers
    BY <1>2, <1>3, <1>4, <2>1
  <2>3. CASE m = 0
    <3>1. m * Workers = 0
      BY <2>3
    <3> QED
      BY <1>1, <1>2, <1>3, <1>6, <2>2, <3>1
  <2>4. CASE m # 0
    <3> DEFINE n == m - 1
    <3> DEFINE v == job[j].created + n * Timeout
    <3>1. /\ n \in Nat /\ n * Timeout \in Nat /\ n * Timeout = m * Timeout - Timeout
          /\ m * Timeout \in Nat /\ n * Workers \in Nat /\ n * Workers = m * Workers - Workers
      BY <2>4, Products
    <3>2. v \in Nat /\ v = w - Timeout
      BY <1>1, <3>1
    <3>3. v < now
      BY <1>2, <1>8, <3>2
    <3>4. Old(v) = {}
      <4> SUFFICES ASSUME NEW i \in Running, job[i].started <= v PROVE FALSE
        BY DEF Old
      <4> HIDE DEF v, w
      <4> QED
        BY <1>2, <1>5, <1>8, <3>2
    <3>5. Cardinality(Old(v)) = 0
      BY <3>4, FS_EmptySet
    <3>6. Cardinality(Before(j)) + Workers + n * Workers <= job[j].ahead + Cardinality(Old(v))
      BY <3>1, <3>3 DEF QueueInv, WaitInv, Served
    <3> HIDE DEF n, v, w
    <3>7. Cardinality(Before(j)) + m * Workers <= job[j].ahead
      BY <1>1, <1>2, <1>3, <3>1, <3>5, <3>6
    <3> QED
      BY <1>1, <1>2, <1>3, <1>6, <2>2, <3>7
  <2> QED
    BY <2>3, <2>4
<1> HIDE DEF w
<1>9. w < now' => w < now \/ w = now
  BY <1>2
<1> QED
  BY <1>6, <1>7, <1>8, <1>9

LEMMA WaitStep ==
    ASSUME QueueInv, [Next]_vars
    PROVE  WaitInv'
<1> SUFFICES ASSUME NEW j \in Waiting'
             PROVE  /\ Cardinality(Before(j)') <= job'[j].ahead
                    /\ \A m \in Nat : Served(j, m)'
  BY DEF WaitInv
<1>1. TypeOK /\ InOrder /\ j \in Parses /\ job'[j].work = "waiting" /\ now \in Nat
  BY DEF QueueInv, AgesInv, Waiting, Working, TypeOK
<1>2. CASE Enters(j)
  <2>1. /\ \A i \in Parses \ {j} : job'[i] = job[i]
        /\ job'[j].created = now /\ now' = now
        /\ job'[j].place = Cardinality(Seen)
        /\ job'[j].ahead = Cardinality(Working(Active)) /\ job[j].work = "none"
    BY <1>1, <1>2, EntersShape DEF Enters, Seen
  <2>2. \A i \in Working(Active) : job[i].place < Cardinality(Seen)
    BY <1>1 DEF InOrder
  <2>3. Cardinality(Seen) \in Nat
    BY <1>1, SeenGrows
  <2>4. Before(j)' = Working(Active)
    BY <2>1, <2>2, <2>3 DEF Before, Working, Active
  <2>5. Cardinality(Working(Active)) \in Nat
    BY CountTypes DEF Working
  <2>6. ASSUME NEW m \in Nat PROVE ~(job'[j].created + m * Timeout < now')
    <3>1. m * Timeout \in Nat
      BY Products
    <3> QED
      BY <1>1, <2>1, <3>1
  <2>7. Cardinality(Before(j)') <= job'[j].ahead
    BY <2>1, <2>4, <2>5
  <2> QED
    BY <2>6, <2>7 DEF Served
<1>3. CASE ~Enters(j)
  <2>1. /\ job'[j].created = job[j].created /\ job'[j].ahead = job[j].ahead /\ j \in Waiting
    <3>1. ~(Starts(j) /\ job[j].work = "waiting")
      <4> SUFFICES ASSUME Starts(j) PROVE FALSE
        OBVIOUS
      <4>1. job'[j] = [job[j] EXCEPT !.work = "running", !.started = now] /\ job[j] \in Job
        BY <1>1, StartsShape DEF TypeOK
      <4>2. job'[j].work = "running"
        BY <4>1 DEF Job
      <4> QED
        BY <1>1, <4>2
    <3> QED
      BY <1>1, <1>3, <3>1, Keeps DEF Active, Waiting, Working
  <2>2. job[j].created \in Nat /\ job[j].ahead \in Nat
    BY <1>1 DEF TypeOK, Job, Instants
  <2>3. CASE now' = now
    <3>1. PICK i : /\ Before(j)' = Before(j) \ {i}
                   /\ \A w \in Nat : Old(w) \ {i} \subseteq Old(w)'
      BY <1>1, <2>1, StillWaiting
    <3>2. Before(j) \in SUBSET Parses /\ \A w \in Nat : Old(w) \in SUBSET Before(j)
      BY <1>1, <2>1, OldAreBefore
    <3>3. \A w \in Nat : Old(w)' \in SUBSET Parses
      BY DEF Old, Running, Working
    <3>4. /\ Cardinality(Before(j)) \in Nat /\ Cardinality(Before(j)') \in Nat
          /\ Cardinality(Before(j)') <= Cardinality(Before(j))
      BY <3>1, <3>2, Counting
    <3>5. Cardinality(Before(j)) <= job[j].ahead
      BY <2>1 DEF QueueInv, WaitInv
    <3>6. Cardinality(Before(j)') <= job'[j].ahead
      BY <2>1, <2>2, <3>4, <3>5
    <3>7. ASSUME NEW m \in Nat PROVE Served(j, m)'
      <4>0. job[j].created + m * Timeout \in Nat /\ m * Workers \in Nat
        BY <2>2, Products
      <4>1. PICK w \in Nat : w = job[j].created + m * Timeout
        BY <4>0
      <4>2. /\ Cardinality(Old(w)) \in Nat /\ Cardinality(Old(w)') \in Nat
            /\ Cardinality(Before(j)') + Cardinality(Old(w))
                   <= Cardinality(Before(j)) + Cardinality(Old(w)')
        <5>1. /\ Before(j) \in SUBSET Parses /\ Old(w) \in SUBSET Before(j)
              /\ Old(w) \ {i} \subseteq Old(w)' /\ Old(w)' \in SUBSET Parses
          BY <3>1, <3>2, <3>3
        <5>2. ASSUME NEW B \in SUBSET Parses, NEW O \in SUBSET B, NEW P \in SUBSET Parses,
                     O \ {i} \subseteq P
              PROVE  /\ Cardinality(O) \in Nat /\ Cardinality(P) \in Nat
                     /\ Cardinality(B \ {i}) + Cardinality(O) <= Cardinality(B) + Cardinality(P)
          BY <5>2, Counting
        <5>3. /\ Cardinality(Old(w)) \in Nat /\ Cardinality(Old(w)') \in Nat
              /\ Cardinality(Before(j) \ {i}) + Cardinality(Old(w))
                     <= Cardinality(Before(j)) + Cardinality(Old(w)')
          BY <5>1, <5>2
        <5> QED
          BY <3>1, <5>3
      <4>3. w < now => Cardinality(Before(j)) + Workers + m * Workers
                          <= job[j].ahead + Cardinality(Old(w))
        BY <2>1, <4>1 DEF QueueInv, WaitInv, Served
      <4>4. Served(j, m)' <=>
              (w < now => Cardinality(Before(j)') + Workers + m * Workers
                             <= job[j].ahead + Cardinality(Old(w)'))
        BY <2>1, <2>3, <4>1 DEF Served
      <4> QED
        BY <2>2, <3>4, <4>0, <4>2, <4>3, <4>4
    <3> QED
      BY <3>6, <3>7
  <2>4. CASE Tick /\ now' = now + 1 /\ job' = job
    <3>1. \A m \in Nat : Served(j, m)'
      BY <1>1, <2>1, <2>4, TickServes
    <3>2. Cardinality(Before(j)') <= job'[j].ahead
      BY <2>1, <2>4 DEF QueueInv, WaitInv, Before, Working
    <3> QED
      BY <3>1, <3>2
  <2> QED
    BY <2>3, <2>4, ServerMoves
<1> QED
  BY <1>2, <1>3

\* Only the end of a parse settles a job, and nothing rewrites a settled one.
LEMMA Settles ==
    ASSUME TypeOK, [Next]_vars, NEW j \in Parses, job'[j].work = "parsed"
    PROVE  job'[j] = job[j] \/ (Finish(j) /\ job[j].row)
<1>1. ASSUME NEW i \in Parses, Enters(i) \/ Finish(i) \/ Quits(i)
      PROVE  job'[j] = job[j] \/ (Finish(j) /\ job[j].row)
  BY <1>1, EntersShape, FinishShape, QuitsShape
<1>2. CASE Start
  <2>1. PICK i \in Parses : Starts(i)
    BY <1>2 DEF Start, Waiting, Working
  <2>2. job'[i] = [job[i] EXCEPT !.work = "running", !.started = now] /\ job[i] \in Job
    BY <2>1, StartsShape DEF TypeOK
  <2>3. job'[i].work = "running"
    BY <2>2 DEF Job
  <2> QED
    BY <2>1, <2>3, StartsShape
<1>3. CASE PurgeRuns
  <2>1. job'[j] = job[j] \/ (job'[j] = DropRow(job[j]) /\ job[j] \in Job)
    BY <1>3, PurgeShape DEF TypeOK
  <2> QED
    BY <2>1, Dropped DEF Active
<1>4. CASE Stops \/ Boot
  BY <1>4, StopsShape, SweepShape DEF Boot
<1>5. CASE UNCHANGED vars \/ PurgeRaises \/ Tick
  BY <1>5 DEF vars, PurgeRaises, Tick
<1> QED
  BY <1>1, <1>2, <1>3, <1>4, <1>5 DEF Next, Submit, Convert, Quits

LEMMA ShareIsNat ==
    ASSUME TypeOK
    PROVE  /\ now \in Nat
           /\ \A j \in Parses : /\ Share(j) \in Nat /\ WaitFor(j) = Share(j) + Timeout
                             /\ job[j].created \in Nat /\ job[j].started \in Nat
                             /\ job[j].finished \in Nat
<1> SUFFICES ASSUME NEW j \in Parses
             PROVE  Share(j) \in Nat /\ WaitFor(j) = Share(j) + Timeout
  BY DEF TypeOK, Job, Instants
<1>1. job[j].ahead \in Nat
  BY DEF TypeOK, Job
<1>2. PICK d \in Nat : d = job[j].ahead \div Workers
  BY <1>1, Products
<1>3. d * Timeout \in Nat /\ Timeout * d = d * Timeout /\ (d + 1) * Timeout = d * Timeout + Timeout
      /\ Timeout * (d + 1) = (d + 1) * Timeout /\ 1 + d = d + 1
  BY Products
<1> QED
  BY <1>2, <1>3 DEF Share, WaitFor

LEMMA RunStep ==
    ASSUME QueueInv, [Next]_vars
    PROVE  RunInv'
<1> SUFFICES ASSUME NEW j \in Parses
             PROVE  /\ job'[j].work = "running" =>
                           /\ job'[j].started <= now' /\ now' <= Deadline(j)'
                           /\ job'[j].started <= job'[j].created + Share(j)'
                    /\ job'[j].work = "parsed" =>
                           job'[j].finished <= job'[j].created + Share(j)' + Timeout
  BY DEF RunInv
<1>1. /\ TypeOK /\ Share(j) \in Nat /\ now \in Nat /\ job[j] \in Job
      /\ job[j].created \in Nat /\ job[j].started \in Nat /\ job[j].finished \in Nat
  BY ShareIsNat DEF QueueInv, AgesInv, TypeOK
<1>2. ASSUME job'[j].work = "running"
      PROVE  /\ job'[j].started <= now' /\ now' <= Deadline(j)'
             /\ job'[j].started <= job'[j].created + Share(j)'
  <2>1. ~Enters(j)
    BY <1>1, <1>2, EntersShape
  <2>2. job'[j].created = job[j].created /\ job'[j].ahead = job[j].ahead
    BY <1>1, <1>2, <2>1, Keeps DEF Active
  <2>3. Share(j)' = Share(j)
    BY <2>2 DEF Share
  <2>4. CASE job[j].work = "running" /\ job'[j].started = job[j].started
    <3>1. /\ job[j].started <= now /\ now <= job[j].started + Timeout
          /\ job[j].started <= job[j].created + Share(j)
      BY <2>4 DEF QueueInv, RunInv, Deadline
    <3>2. CASE now' = now
      BY <2>2, <2>3, <2>4, <3>1, <3>2 DEF Deadline
    <3>3. CASE Tick /\ now' = now + 1
      <4>1. now # job[j].started + Timeout
        BY <2>4, <3>3 DEF Tick, Running, Working, Deadline
      <4> QED
        BY <1>1, <2>2, <2>3, <2>4, <3>1, <3>3, <4>1 DEF Deadline
    <3> QED
      BY <3>2, <3>3, ServerMoves
  <2>5. CASE Starts(j) /\ job[j].work = "waiting"
    <3>1. job'[j] = [job[j] EXCEPT !.work = "running", !.started = now]
      BY <1>1, <2>5, StartsShape
    <3>2. job'[j].started = now
      BY <1>1, <3>1 DEF Job
    <3>3. now' = now
      BY <2>5, Zenon DEF Starts
    <3>4. now <= job[j].created + Share(j)
      BY <2>5, StartsInTime DEF Waiting, Working
    <3> QED
      BY <1>1, <2>2, <2>3, <3>2, <3>3, <3>4 DEF Deadline
  <2> QED
    BY <1>1, <1>2, <2>1, <2>4, <2>5, Keeps DEF Active
<1>3. ASSUME job'[j].work = "parsed"
      PROVE  job'[j].finished <= job'[j].created + Share(j)' + Timeout
  <2>1. CASE job'[j] = job[j]
    BY <1>3, <2>1 DEF QueueInv, RunInv, Share
  <2>2. CASE Finish(j) /\ job[j].row
    <3>1. job'[j] = [job[j] EXCEPT !.work = "parsed", !.started = 0, !.finished = now]
      BY <1>1, <2>2, FinishShape
    <3>2. job'[j].finished = now /\ job'[j].created = job[j].created /\ job'[j].ahead = job[j].ahead
      BY <1>1, <3>1 DEF Job
    <3>3. job[j].work = "running"
      BY <2>2 DEF Finish
    <3>4. now <= job[j].started + Timeout /\ job[j].started <= job[j].created + Share(j)
      BY <3>3 DEF QueueInv, RunInv, Deadline
    <3>5. Share(j)' = Share(j)
      BY <3>2 DEF Share
    <3> QED
      BY <1>1, <3>2, <3>4, <3>5
  <2> QED
    BY <1>1, <1>3, <2>1, <2>2, Settles
<1> QED
  BY <1>2, <1>3

\* The invariant of the queue: parses start in the order they came, and each has
\* waited no longer than the parses before it may have taken.
THEOREM Queue == Spec => []QueueInv
<1>1. Init => QueueInv
  <2> SUFFICES ASSUME Init PROVE QueueInv
    OBVIOUS
  <2>1. AgesInv
    BY AgesInit
  <2>2. \A j \in Parses : job[j].work = "none"
    BY DEF Init, Blank
  <2> QED
    BY <2>1, <2>2 DEF QueueInv, InOrder, WaitInv, RunInv, Running, Waiting, Working, Active
<1>2. QueueInv /\ [Next]_vars => QueueInv'
  <2> SUFFICES ASSUME QueueInv, [Next]_vars PROVE QueueInv'
    OBVIOUS
  <2>1. AgesInv'
    BY TypeStep, TimeStep, PurgeStep DEF QueueInv, AgesInv
  <2>2. InOrder'
    BY OrderStep DEF QueueInv, AgesInv
  <2> QED
    BY <2>1, <2>2, WaitStep, RunStep DEF QueueInv
<1> QED
  BY <1>1, <1>2, PTL DEF Spec

\* WaitBounded: however many jobs, converts, workers and cancellations, a parse is
\* over within its own timeout and one for each worker_count parses, converts
\* included, it found before it.
THEOREM WaitsEnd == Spec => []WaitBounded
<1>1. QueueInv => WaitBounded
  <2> SUFFICES ASSUME QueueInv, NEW j \in Parses
               PROVE  /\ Settled(j) => Took(j) <= WaitFor(j)
                      /\ job[j].work \in Active => Age(j) <= WaitFor(j)
    BY DEF WaitBounded
  <2>1. /\ now \in Nat /\ Share(j) \in Nat /\ WaitFor(j) = Share(j) + Timeout
        /\ job[j].created \in Nat /\ job[j].started \in Nat /\ job[j].finished \in Nat
    BY ShareIsNat DEF QueueInv, AgesInv
  <2>2. CASE job[j].work = "waiting"
    <3>1. now <= job[j].created + Share(j)
      BY <2>2, StartsInTime DEF Waiting, Working
    <3> QED
      BY <2>1, <2>2, <3>1 DEF Settled, Age
  <2>3. CASE job[j].work = "running"
    <3>1. now <= job[j].started + Timeout /\ job[j].started <= job[j].created + Share(j)
      BY <2>3 DEF QueueInv, RunInv, Deadline
    <3> QED
      BY <2>1, <2>3, <3>1 DEF Settled, Age
  <2>4. CASE job[j].work = "parsed"
    <3>1. job[j].finished <= job[j].created + Share(j) + Timeout
      BY <2>4 DEF QueueInv, RunInv
    <3> QED
      BY <2>1, <2>4, <3>1 DEF Took, Active
  <2> QED
    BY <2>2, <2>3, <2>4 DEF Settled, Active
<1> QED
  BY <1>1, Queue, PTL

\* A row that goes, but by its deletion, was expired.
LEMMA GoesExpired ==
    ASSUME TypeOK, TimeInv, [Next]_vars, NEW j \in Parses, job[j].row, ~job'[j].row, ~Delete(j)
    PROVE  j \in Expired
<1>0. ~Quits(j)
  BY DEF Quits, Disconnect, TimeInv
<1>1. ASSUME NEW i \in Parses, Enters(i) \/ Finish(i) \/ Quits(i) PROVE job'[j].row
  <2>1. CASE Enters(i)
    <3>1. i # j => job'[j] = job[j]
      BY <2>1, EntersShape
    <3>2. i = j => (job'[j].row <=> j \notin Converts)
      BY <2>1, EntersShape
    <3> QED
      BY <3>1, <3>2 DEF TimeInv
  <2>2. CASE Quits(i)
    BY <1>0, <2>2, QuitsShape
  <2>3. CASE Finish(i) /\ i # j
    BY <2>3, FinishShape
  <2>4. CASE Finish(j)
    <3>1. /\ job'[j] = [job[j] EXCEPT !.work = "parsed", !.started = 0, !.finished = now]
          /\ job[j] \in Job
      BY <2>4, FinishShape DEF TypeOK
    <3> QED
      BY <3>1 DEF Job
  <2> QED
    BY <1>1, <2>1, <2>2, <2>3, <2>4
<1>2. ASSUME Start PROVE job'[j].row
  <2>1. PICK i \in Parses : Starts(i)
    BY <1>2 DEF Start, Waiting, Working
  <2>2. job'[i] = [job[i] EXCEPT !.work = "running", !.started = now] /\ job[i] \in Job
    BY <2>1, StartsShape DEF TypeOK
  <2>3. job'[i].row = job[i].row
    BY <2>2 DEF Job
  <2> QED
    BY <2>1, <2>3, StartsShape
<1>3. CASE PurgeRuns
  BY <1>3, PurgeShape
<1>4. CASE Stops \/ Boot
  BY <1>4, StopsShape, SweepShape DEF Boot
<1>5. CASE UNCHANGED vars \/ PurgeRaises \/ Tick
  BY <1>5 DEF vars, PurgeRaises, Tick
<1> QED
  BY <1>1, <1>2, <1>3, <1>4, <1>5 DEF Next, Submit, Convert, Quits

\* KeptForPickup: what the purge takes is older than the TTL, and its outcome
\* was there for all of it but its own wait, which the converts before it lengthen.
THEOREM OutcomesStay == Spec => KeptForPickup
<1>1. ASSUME QueueInv, [Next]_vars
      PROVE  \A j \in Stored :
                 ~job'[j].row /\ ~Delete(j) =>
                     /\ Age(j) > TTL
                     /\ Settled(j) => now - job[j].finished > TTL - WaitFor(j)
  <2> SUFFICES ASSUME NEW j \in Stored, ~job'[j].row, ~Delete(j)
               PROVE  /\ Age(j) > TTL
                      /\ Settled(j) => now - job[j].finished > TTL - WaitFor(j)
    BY <1>1
  <2>1. TypeOK /\ TimeInv /\ j \in Parses /\ job[j].row
    BY <1>1 DEF QueueInv, AgesInv, Stored
  <2>2. job[j].created < now - TTL
    BY <1>1, <2>1, GoesExpired, ExpiredByAge
  <2>3. /\ now \in Nat /\ Share(j) \in Nat /\ WaitFor(j) = Share(j) + Timeout
        /\ job[j].created \in Nat /\ job[j].finished \in Nat
    BY <2>1, ShareIsNat
  <2>4. Settled(j) => job[j].finished <= job[j].created + Share(j) + Timeout
    BY <1>1, <2>1 DEF QueueInv, RunInv, Settled
  <2> QED
    BY <2>2, <2>3, <2>4 DEF Age
<1> QED
  BY <1>1, Queue, PTL DEF Spec, KeptForPickup
=============================================================================
