------------------------------ MODULE JobReads ------------------------------
(***************************************************************************)
(* The reading endpoints of /v1/jobs (api/jobs.py) over the job store, while *)
(* the rest of the server changes the store in any order it allows.         *)
(* list_jobs and get_job answer from one read.  get_job_result reads twice, *)
(* on two connections: the metadata first, the document only if the         *)
(* metadata said done; anything may happen to the row in between.           *)
(*                                                                         *)
(* The handlers run in threads, and an answer leaves after its read: in     *)
(* between the store moves on and other requests are read and answered, so  *)
(* answers to requests under way together may arrive in any order.          *)
(***************************************************************************)
EXTENDS JobStore

CONSTANT Requests      \* the requests that may be under way at once

VARIABLES
    found,      \* per request: what it has read and not answered yet
    fetching,   \* the result requests that found a done job, between their two reads
    told        \* history: the answers that were received

readsVars == <<vars, found, fetching, told>>

Polls == Tokens \X Jobs

\* A 404 is "gone" or "unknown", which no client can tell apart: whether the job
\* had existed when it was looked up.
Answers == [poll : Polls, status : JobStatus \cup {"unknown", "gone"},
            document : Documents \cup {Null}]

Reply(p, s, d) == [poll |-> p, status |-> s, document |-> d]

NotFound(p) == Reply(p, IF p[2] \in purged THEN "gone" ELSE "unknown", Null)

-----------------------------------------------------------------------------
Finds(r, answers) == found[r] = {} /\ found' = [found EXCEPT ![r] = answers]

\* The metadata of a job; a foreign one is answered as one that is not there.
Metadata(p) ==
    LET job == Get(p[2], p[1])
    IN  IF job = Null THEN NotFound(p) ELSE Reply(p, job.status, Null)

GetJob(r, p) ==
    /\ Finds(r, {Metadata(p)})
    /\ UNCHANGED <<vars, fetching, told>>

\* list_jobs: the token's jobs in one of the states S.  Only a listing of all
\* states tells by its silence that a job is not there.
ListJobs(r, t, S) ==
    /\ LET listed == ListForToken(t, S)
       IN  Finds(r, {Reply(<<t, j>>, rows[j].status, Null) : j \in listed}
                       \cup {NotFound(<<t, j>>) : j \in IF S = JobStatus THEN Jobs \ listed ELSE {}})
    /\ UNCHANGED <<vars, fetching, told>>

\* get_job_result, the first read: all but a done job is answered from it,
\* with 404, 202 or 409.
ReadStatus(r, p) ==
    /\ Finds(r, {Metadata(p)})
    /\ fetching' = IF Metadata(p).status = "done" THEN fetching \cup {r} ELSE fetching
    /\ UNCHANGED <<vars, told>>

\* The second read: a job deleted since the first is one that is not there.
ReadResult(r, p) ==
    LET result == GetResult(p[2], p[1])
    IN  /\ r \in fetching /\ found[r] = {Reply(p, "done", Null)}
        /\ found' = [found EXCEPT ![r] =
                        {IF result = Null THEN NotFound(p) ELSE Reply(p, "done", result)}]
        /\ fetching' = fetching \ {r}
        /\ UNCHANGED <<vars, told>>

\* The answer arrives.
Answer(r) ==
    /\ found[r] # {} /\ r \notin fetching
    /\ told' = told \cup found[r]
    /\ found' = [found EXCEPT ![r] = {}]
    /\ UNCHANGED <<vars, fetching>>

StoreMoves == Next /\ UNCHANGED <<found, fetching, told>>

ReadsInit ==
    /\ Init
    /\ found = [r \in Requests |-> {}]
    /\ fetching = {} /\ told = {}

ReadsNext ==
    \/ \E r \in Requests, p \in Polls : GetJob(r, p) \/ ReadStatus(r, p) \/ ReadResult(r, p)
    \/ \E r \in Requests, t \in Tokens :
          ListJobs(r, t, JobStatus) \/ \E s \in JobStatus : ListJobs(r, t, {s})
    \/ \E r \in Requests : Answer(r)
    \/ StoreMoves

ReadsSpec == ReadsInit /\ [][ReadsNext]_readsVars

-----------------------------------------------------------------------------
ReadsTypeOK ==
    /\ TypeOK
    /\ found \in [Requests -> SUBSET Answers]
    /\ fetching \subseteq Requests
    /\ told \subseteq Answers

\* All that was read for a client, whether it has received it or not.
Known == told \cup UNION {found[r] : r \in Requests}

\* A job is invisible to every token but its owner's: whatever is read when and
\* through which endpoint, what is found for a foreign token is what is found of
\* an id that never existed (JobStorePort: "indistinguishable by design").
ForeignSees404 ==
    \A a \in Known :
        Stored(a.poll[2]) /\ ~Owned(a.poll[2], a.poll[1]) =>
            a.status = "unknown" /\ a.document = Null

\* What may be read of a job once a was: statuses only advance, an outcome is
\* final until the job is gone, a job that is gone stays gone, and no document
\* turns into another.
MayFollow(a, b) ==
    /\ a.status # "unknown" => b.status # "unknown"
    /\ a.status = "running" => b.status # "queued"
    /\ a.status \in {"done", "failed", "gone"} => b.status \in {a.status, "gone"}
    /\ a.document # Null /\ b.document # Null => a.document = b.document

\* No client is contradicted by what it already knows: whatever a request reads,
\* in its first read or its second, may follow every answer that this client had
\* received by then, through whichever endpoint.  (Of two requests under way
\* together the one that read first may well be answered last.)
AnswersNeverRegress ==
    [][\A r \in Requests : found'[r] # found[r] =>
          \A b \in found'[r], a \in told : a.poll = b.poll => MayFollow(a, b)]_readsVars
=============================================================================
