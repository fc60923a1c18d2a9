# bscribe in TLA+

bscribe is a document-conversion server: clients upload a document, a pool of
disposable worker processes parses it, and the text is returned at once
(`POST /v1/convert`) or kept as the result of an asynchronous job (`/v1/jobs`).
This directory specifies its job machinery, worker pool, lifespan, retention,
admission of uploads, schema initialisation and re-ingestion contract, checks them
with TLC, and proves every safety property the runs show with TLAPS, for any number
of jobs, workers, processes and settings. Paths below are relative to `src/bscribe/`.

## The system

| Component | State it keeps | Operations | Talks to | What is hard |
| --- | --- | --- | --- | --- |
| Job store (`adapters/sqlite.py`) | the `jobs` table | add, get, get_result, list, mark_running, mark_done, mark_failed, delete, sweep, purge, count | SQLite; called from threads | guarded transitions under any interleaving; columns that must agree |
| Job runner (`runner.py`) | task per job | submit, task_for, aclose; `_run`/`_drive` | store through threads, pool | cancellation at any await, store errors, ownership of the upload |
| Job handlers (`api/jobs.py`) | none | submit, list, get, delete, result | store, runner, staging | client disconnects, two-read results, delete racing the task |
| Maintenance (`maintenance.py`) | none | startup sweep, purge, purge loop | store, scratch directory | crashes between steps, a wipe that fails |
| Lifespan (`app.py`) | the pool, the purge task | startup, shutdown | all of the above | order of startup and teardown |
| Worker pool (`workers.py`) | pebble pool, closed flag, counters | parse, rebuild, close | worker processes | broken pools, races of timeout, cancel, completion and close |
| Staging (`uploads.py`, `api/staging.py`) | the scratch directory | spool, stage | handlers | size cap at chunk boundaries, cleanup on every abort |
| Convert (`api/convert.py`) | none | convert | staging, pool | release of the upload |
| Tokens (`auth.py`, `cli.py`, token store) | the `tokens` table | add, list, delete, authenticate | SQLite | revocation during a request, ownership |
| Schema (`adapters/sqlite.py`) | `user_version`, journal mode | ensure_schema | SQLite | concurrent initialisation, crash between migrations, locks |
| Pipeline (`pipeline.py`, `domain/pipeline.py`) | the stamp fixed at startup | discover, fingerprint, traversal | external tools | when a fingerprint must and must not change |
| Metrics, logging, settings, schemas, error tables | counters | scrape, format | everything | nothing stateful of their own |

What makes each correct: the store only ever makes legal moves of a job; the
runner settles every accepted job exactly once and leaves no upload behind; the
handlers show a client answers that never go backwards and other tokens
nothing; startup accounts for everything a dead process left; the pool bounds
and kills parses and survives its own breakage; staging never exceeds the cap;
a revoked token opens nothing; a fingerprint changes when and only when a
re-ingestion could differ.

## Modules

| Module | Models | In terms of |
| --- | --- | --- |
| `JobLifecycle` | the lifecycle promised to callers (`JobStatus`, `JobStorePort`): queued, running, one final outcome, forgotten for good | abstract specification |
| `JobStore` | `SqliteJobStore`, one action per method | implements `JobLifecycle` (`KeepsLifecycle`) |
| `JobReads` | `list_jobs`, `get_job` and `get_job_result`: their reads and, any time later, their answers | over `JobStore` |
| `JobRunner` | `submit_job`, `delete_job`, the runner's tasks, purge, startup sweep, shutdown, crashes | its table moves by `JobStore`'s actions only |
| `ParseContract` | what `WorkerPool.parse` promises those who await it | abstract specification |
| `WorkerPool` | `WorkerPool.parse` and `aclose`, and `convert` around them | implements `ParseContract` (`KeepsParse`), over external pebble pools |
| `Lifespan` | the lifespan of `create_app`: sweep, pool, purge task, metrics port, submissions and the runner's tasks, over several lifespans | composes the runner's tasks, `purge_loop` and a `ParseContract` |
| `Timestamps` | `_to_utc_iso` and the order of the texts it makes | |
| `Retention` | the queue that jobs and converts share, the job timeout and `purge_loop` on a clock | over `Timestamps` |
| `SchemaInit` | `_ensure_schema`, `_init_schema_once` | over external SQLite locking |
| `TokenStore` | `SqliteTokenStore`, `token add` and `token delete` | |
| `Admission` | the prefilter, `require_token`, `stage_upload`, `spool_upload` | over `TokenStore` |
| `Pipeline` | discovery, fingerprint, traversed components, the caller's comparison | over external tools |
| `...Proofs` | theorems about the module of that name; those of `JobReads` are in `JobStoreProofs`, whose theorems `JobRunnerProofs` uses | |
| `MC...` | model values for TLC | |

### JobStore

`rows[j]` is the row of id `j` or `Null`; `purged` is a history variable, the
ids whose row was deleted. A method commits one statement on its own connection
(`_connect`), so it is one atomic action; `...Hits(j)` is the Boolean the method
returns (`rowcount > 0`), and a call that hits nothing changes nothing.
`started`/`finished` record whether `started_at`/`finished_at` are set,
`created_at` keeps its value because the purge compares it. `output` and `ocr`
never influence a transition and are left out. `Add` takes only fresh ids:
`create_job` mints 64 random bits, and the primary key refuses a second insert.

### JobRunner

One event loop runs handlers and tasks, so the code between two awaits is one
action. `call[<<j, role>>]` is the store call a coroutine awaits: pending,
executed by a thread (`Execute`, one atomic store method, or `ExecuteFails`),
and resumed from. Cancelling the awaiter leaves the thread alone: the call was
still queued and is dropped, or it stays in `late` and executes with nobody
listening. `cancel[j]` is a cancellation requested and not delivered; it is
delivered at the task's next resumption even if a reply is waiting, and to a
task that has not started it is delivered before the first line of `_run`.

`task[j]` says where the task awaits: `created` (no step taken), `marking`,
`parsing`, `recording` (mark_done or mark_failed), `rescuing` (the second attempt
in `_run`), or how it ended: `ended`, `unrecorded` (both attempts raised),
`neverRan`, `lost` (with its process). `submit[j]` is the handler: `adding`, then
`accepted` (201), `failed` (500), `cancelled`. `file[j]` is the staged upload.
`_discard` is folded into `Live`: a finished task can linger in the mapping
until its callback, but cancelling it has no effect.

`phase` orders the process: `down`, the store sweep, `wiping`, `serving`,
`draining`, with `Crash` possible in every phase but `down`. A sweep that raises aborts
the boot, which is the same as no sweep. The HTTP server, which is external,
finishes the requests before the lifespan's shutdown cancels the tasks.

### JobReads

The handlers are synchronous: each runs in a thread, reads the store there, and its
response leaves some time later. So a read and its answer are two steps. `found[r]`
is what request `r` has read and not answered yet, `told` the answers that were
received. `GetJob` and `ListJobs` read once; `ReadStatus` and `ReadResult` are the
two reads of `get_job_result`, and `fetching` holds the requests between them.
Between any two of these steps the store takes any step of `JobStore`, which is more
than the runner does. A listing of all states also tells of the jobs that are not in
it. A 500 for a row that a reader rejects is excluded by `RowsCoherent`.

`AnswersNeverRegress` is about a read and the answers its client had received by
then. Of two requests that overlap, the one that read first may be answered last: a
client can receive `done`, then the `running` of a request that was under way at the
same time. Nothing in the code orders them, and no property here says otherwise.

### ParseContract

`call[p]` is one call of `parse`: `idle`, `waiting` or `ended`; whether its
cancellation was asked for; what the engine did for it (`none`, `running`, one of
the three results, or `lost`); and its outcome. `open` is the pool: `open`,
`closing`, `closed`. The contract is what the runner and `convert` rely on: the
engine runs at most once for a call, at most `worker_count` calls run, an outcome
is the engine's own or a crash, `CancelledError` comes only to those who asked or
from a closed pool, and nothing runs for a call that has ended. `Lifespan` uses
the contract in place of the pool.

### WorkerPool

Pools are numbered in the order `parse` creates them; `pool` is `_pool`. A parse
is `idle`, `rebuilding` (awaiting the teardown of the pool it replaced) or
`awaiting` its job; the swap and the count happen in the step that finds the pool
broken, the retry uses whatever pool is current when it resumes. `job[p]` is what
the pebble future knows, `outcome[p]` what the call returned, and the two may
differ: a cancellation wins over an answer that is already there, and is counted
only if it took effect. Cancelling the rebuild drops a teardown that no executor
thread had begun; `ReplacedIsTornDown` names that as the only way a broken pool
is left to itself. The file is `convert`'s staged upload. A kill takes effect at once:
ADR 0001 has pebble send SIGTERM and, up to 3 s later, SIGKILL, and a worker that hangs
on in between may still have its document open when `convert` unlinks it.
`UploadLivesWithParse` is about jobs that were not told to die.

Pebble is external. The model takes from `workers.py` and ADR 0001 that a pool
breaks only while none of its jobs runs and then fails those waiting, that a kill
fails one job, and that a torn down pool runs nothing. Whether a teardown settles
the futures of the jobs it interrupts is left open, which is why `ParsesEnd`
excepts a closed pool. The second test of `_closed` and the synchronous `close`
only matter to callers outside the event loop and are not modelled.

`CallOf` maps a parse to the contract: the rebuild is part of waiting, a pool
that is unavailable after the rebuild is a crash, and a future that was cancelled,
broken or abandoned is work that was lost.

### Lifespan

`phase` is the await the lifespan is in: `down`, `sweeping`, `serving`, then the
steps of its `finally` clause, `metrics`, `purge`, `runner`, `pool`. A process may
run one lifespan after another, which is how the code's own tests use it and what
its comments have in mind ("a failed rebind on any in-process restart"). From the
end of the sweep to the bind there is no await, so the purge task of a lifespan
whose bind fails has not taken a step. `strays` are purges, and `write[j]` the
transition, that the executor may still commit after their awaiter was cancelled:
in the next lifespan if need be. So may an INSERT: `submit[j]` is the handler
(`adding` while it awaits `store.add`, then `over` or `cancelled`) and `insert[j]` the
call, which commits, raises or, its awaiter cancelled, commits late or never; on every
path the handler creates the task (`HandsOff`). A transition that raises makes the task
try once more (`rescuing`), and then give up (`unrecorded`). A job is deleted by the
purge only: `JobRunner` has `delete_job`. What the purge deletes is left open. The HTTP
server, which is external, waits for the handlers before the shutdown begins. `RunnerRaises` stands for any error of `aclose`: the pool goes in any
case.

Left out: a cancellation of the lifespan itself (a forced quit of the HTTP
server), a `metrics_server.shutdown` that never returns, a pool constructor that
raises. Because `ParseContract` stands for the pool, the idle workers of a broken pool
whose teardown was dropped (`ReplacedIsTornDown` names the case) are not seen here:
`NothingOutlives` is about the pool the lifespan closes.

### Timestamps and Retention

`isoformat` leaves out a fraction that is zero, so the texts SQLite compares have
two forms; `Iso` is the sequence of their fields, and `TextLess` the order of
strings.

`Retention` has a clock that ticks in fractions of a second, and a set of `Parses`: jobs,
which have a row, and `Converts`, which have none and wait for the same workers in the
same queue (`Enters`). What is due holds the tick: a free worker takes the next parse
(pebble's queue is first come, first served), a deadline kills, and the purge runs, before
time goes on. `ahead` is how many parses a new one finds waiting or running; `place` its
place in the order of arrival. A deleted job and a convert whose client is gone leave the
queue or their worker.

Idealised: the purge's own duration, the loop's delays and pebble's grace of up to 3 s
after a kill are zero, the clock never jumps, and the pool does not break. A parse that
finds the pool broken enters the queue of a new one, where it may be behind parses that
came after it; `WorkerPool` has that, without a clock. `WaitBounded` and `KeptForPickup`
are the program's bounds up to these.

`due` is when `purge_loop` wakes
up: at once after a boot, then an interval after each purge, one that raised
included. A stopped server drops its parses; the next one's sweep settles their rows
and its purge runs at once. The first boot is placed after the first TTL, so that no
cut-off falls before the clock's zero.

### SchemaInit

One file, a write lock, and processes each knowing `Known[p]` migrations, so that
releases may be mixed. Every statement is an action; a transaction is a private
copy (`tx`) until COMMIT. `Collides` is the journal switch the busy timeout does
not cover. The file may start at any version and in either journal mode.

### TokenStore and Admission

A token stands for its id, its secret and the hash of it, which are random and
distinct. `command[t]` follows the `token add` that mints `t`; the INSERT and the
printing of the secret are separate steps, and the command may fail between them.
`revoked` is a history variable, and so is `late`: the requests that came after
their token was revoked. Only requests with a secret that was shown, or with none
that is worth anything (`NoToken`), are of interest.

`pc[r]` says what a request awaits: `received` (the body is there, the lookup of
the token is not made), `admitted`, `opening`, `reading`, `writing`, `closing`,
`unwinding` (too large, the file being closed), `staged`, or that it `ended`, with
`answer[r]`. `written` is the code's counter, `copied` what is on disk. A read may
return fewer bytes than it asked for. A file operation finishes in its thread
before a cancellation is raised, which is what anyio does; a partial file cannot
reappear after its deletion. From `staged` on, `JobRunner` and `WorkerPool` own
the file. Validation of the form (400) comes from the framework and is left out.

### Pipeline

`installed` is the host, `stamp` what the running server found when it started,
`result[d]` the stamp of the last result for a kind of document, `used[d]` what it
was really made with. `Discovered(broken)` is one discovery in which the probes in
`broken` fail although their tool may work. `Reparses(d)` is the rule callers are
given (design.md, "Re-ingestion contract"). `Engine(d)`, what a parse really runs,
is external and taken from the same section. The fingerprint is the set of
`key=version` pairs: collisions of the 48-bit digest are left out. Software
changes only while no server runs, as in a container; a tool replaced under a
running server would go unnoticed until the next start.

## Runs

| Run | Bounds | Shows |
| --- | --- | --- |
| `job_reads` | 1 job, 2 tokens, 2 documents, 2 requests under way | no read contradicts an answer received before it, a foreign token learns nothing, rows stay readable, `JobLifecycle` implemented |
| `job_runner` | 2 jobs, 1 error, 1 crash or shutdown | nothing parsed that is not running, no upload deleted under its parse, no accepted job or outcome lost |
| `job_runner_live` | 1 job, 3 errors, 3 stops, fairness | no orphaned job, no lost upload through repeated failures and boots; every task ends, every accepted job settles, only jobs of a dead process are failed as interrupted |
| `worker_pool` | 2 parses, 1 worker, 3 breaks, fairness | `ParseContract` implemented; one rebuild per break, nothing after close, counters and uploads agree with the jobs; every parse ends, hung engines and broken pools included |
| `schema_init` | a process of the latest of 3 migrations, one of the release before, 2 crashes, fairness | file always consistent, no migration twice, constructed stores usable; construction ends, and an up-to-date file is opened without the lock |
| `lifespan` | 1 job, 1 worker, 3 lifespans, 2 errors, fairness | nothing outlives a lifespan, the next serves no orphan but where named, a shutdown fails no job, and it ends |
| `retention` | 2 jobs and a convert on 1 worker, half seconds up to 9, timeout, TTL and interval of a second, 1 purge that raises, 1 stop | every wait is bounded, no row goes early, none outstays TTL and interval |
| `admission` | 2 requests, 2 tokens, sizes 0..5 around a cap of 3, chunks of 2, slack 1 | documents staged whole and within the cap, what fits accepted, no partial copy left, access from showing to revocation |
| `pipeline` | an office document with OCR and an SVG without, 2 versions, 2 changes, 2 failing probes | no re-parse missed and none needless, except where a probe failed |
| `ttl_anchor` | 2 jobs, 1 worker | a claim of the code that does not hold (below) |
| `upload_leak` | 1 job, no error, no stop | a claim of the code that does not hold (below) |
| `orphaned_row` | 1 job, no error, no stop | a claim of the code that does not hold (below) |

In `job_runner` two jobs suffice because jobs meet only in the operations that act on all of
them (sweep, purge, shutdown, crash, wipe): one job is acted upon and another is
not. Two documents tell a changed result from an unchanged one; one error is
what the runner is built to absorb, two are its documented limit (`unrecorded`),
and a third lets the scratch wipe fail as well. Two stops give a crash during the
recovery from a crash, three one more after it. Ownership and settling concern one
job at a time, so the run with many errors has one. `MaxErrors` and `MaxStops` are guards of the model, not of
the code. Submission and deletion by one token suffice in `JobRunner`, since
ownership is decided in the store and checked in `JobReads`.

Two parses on one worker with three breaks let a parse find its rebuilt pool
broken again by the time it retries, and the other rebuild that one meanwhile. One
worker makes any overlap of two pools visible to the contract. Two processes of
different releases race for the migrations both know, and the older may find the
file ahead of it; two crashes let each of them die once, or one twice.

Two lifespans are what a late commit needs to do harm: left behind in one, landing in
the other; a third lets what landed there be swept. In `lifespan`, the jobs of one process
meet only in the workers they wait for, and waiting for one is a state of a single job's
call, so that one job does; two errors are both its attempts to record an outcome. In
`job_reads` one job does, because a statement moves each row by itself and an answer says
one thing of each job; two requests are what an answer that is overtaken takes. What both
runs check, but for `LifespanSettles`, is proved for any number of jobs. In `retention`, two
jobs and a convert on one worker make a queue in which the last has two timeouts before its own; timeout, TTL and interval are of the same length, so that
waits outlast the TTL and purges catch jobs that wait, run and have ended.
`TypeOK` is an invariant of the `admission` run, where it carries the size cap, and of
`pipeline`, where it says what stamps and results name; elsewhere it is only proved.

A cap of 3 with chunks of 2 puts documents below, at and above both the cap and a
chunk boundary, and an envelope of 1 or 2 on either side of the slack. Requests meet
only in the token table. An SVG takes the longest path through the tools (librsvg
as the delegate of ImageMagick), an office document the other; two changes let a
tool go and come back, two failures let the same probe fail at two starts.

`IncompleteIsOwned`, `ServingOwnsIncomplete` and `UploadIsOwned` state the ownership discipline exactly:
they name the only circumstances in which the code leaves a row or a file
without an owner, and TLC confirms there are no others.

### Fairness

`FairSpec` assumes that the executor runs what it was given, that a coroutine
whose await is over resumes, that a parse ends (the job timeout kills its
worker), that a draining process exits, and that a stopped server is started
again and then sweeps and wipes. The last is the operator's part: nothing in the
repository restarts the server, and until someone does, a job a crash
interrupted stays as it was. Clients owe nothing, and neither do crashes, errors or the
purge. `AcceptedSettles` excepts the job both attempts to record whose outcome raised: it
waits for the next boot, as `_run` accepts.

`WorkerPool`'s fairness is the loop's, the executor's, and pebble's dispatch and
deadlines; the engine owes nothing, so a parse may hang until its deadline.
`SchemaInit`'s is that of a running process; the writer may keep the lock for good.
`Lifespan` assumes that threads return and that the loop runs what is ready, the
cancelled purge and tasks included, and nothing of clients, workers or jobs.
Deadlock is not checked in the `worker_pool`, `schema_init`, `admission`, `lifespan` and
`retention` runs: when every parse has ended and the pool is closed, every process
has its store, every request is staged or answered, the last lifespan is over, or
the clock has run out, these systems are finished.

### Claims that do not hold

* `TaskDeletesUpload` (`runner.py:93-94`, "the task deletes it on success,
  failure, and cancellation alike"). The task is cancelled before its first step
  when `delete_job` resumes in the same iteration of the loop as `submit_job`: a
  client saw the committed row in a listing and deleted it while the INSERT's
  thread was still closing its connection. `_run` is never entered, nor its
  `finally`; the upload stays until the next startup wipe.
* `NoOrphanedRow` (`api/jobs.py:100-105`, the hand-off that must not "orphan a
  committed queued row forever"). The submission is cancelled while its INSERT is
  in a thread; the task starts at once, its `mark_running` overtakes the INSERT,
  finds nothing, and the task deletes the upload and ends. The INSERT commits: a
  row stays `queued`, with nothing to run it, until a restart or the TTL.
* `AnchorImmaterial` (`domain/ports.py:254-257`, `created_at` "differs from
  [`finished_at`] by at most the job timeout, so the distinction is immaterial for
  retention purposes"). The timeout runs from the start in a worker (ADR 0001);
  before it, a job waits for every job and convert ahead of it. With two jobs on one worker the
  second settles after almost two timeouts, and its result is kept that much less
  than the TTL. What holds, while the pool does not break, is `WaitBounded`: one timeout,
  and one more for each `worker_count` parses ahead, converts included. `KeptForPickup`
  says what that leaves of the TTL. It is no bound on the settings alone, since nothing
  limits how many parses may be ahead.

Seen on the way, without a run: the gauge `bscribe_queue_depth` ("Jobs queued and
awaiting a worker.", `metrics.py`) counts rows in status `queued`. A job is marked
`running` before it enters the pool's queue, so the jobs that wait for a worker are
not in it; `JobRunner` and `Retention` show where they are.

## Proofs

TLC checks each inductive invariant on the instances of the runs before its proof.
Everything the passing runs check is proved for every value of the constants,
liveness apart. The only assumptions are the named ones of the modules, about the
constants.

`JobStoreProofs`, from `NullIsNoValue`, `NullIsNoRow` and `TimesAreNumbers`:

* `TypeCorrect`: `Spec => []TypeOK`, which is inductive.
* `RowsCorrect`: `Spec => [](RowsCoherent /\ NoResurrection)`. Relative to the
  types the conjunction is inductive. `Statements` reduces the seven methods to
  five statements; `FailedRow` is the fact about the SET clause that
  `mark_failed` and the sweep share.
* `ImplementsLifecycle`: `Spec => KeepsLifecycle`, the refinement mapped by
  `StatusOf` and `OutcomeOf`. `Moves` reduces an abstract move to pointwise
  facts about them, and one lemma per statement supplies
  them. `RowsCorrect` is needed there: without it, failing a row could produce a
  value that is no row.

Of `JobReads`, in the same module: `ReadsTypeCorrect`, `ForeignLearnsNothing`,
`NeverRegress`. The invariant, `Fits`, relates every answer, received or not, to the row as it is:
what was read may be overtaken by the row, never contradicted by it. A read copies
the row, so it may follow whatever was received; that it is answered later, when other
answers have arrived, is why the claim is about reads. `ReadsAreOfStore` carries the
store's theorems over.

`JobRunnerProofs` (the three details exist, the bounds are numbers, and `JobStore`'s
assumptions, repeated as `StoreAssumptions` because `JobStore` is used by `INSTANCE`):

* `ProcessTypeCorrect`: `Spec => []ProcessOK`. The part that matters is that
  `Calls` and `LateCalls` tie every outstanding call to the arguments its method
  takes, so that a call executed long after its awaiter is gone still is a legal
  statement.
* `ImplementsStore`, a lemma: `Spec => Store!Spec`. The actions that touch the table
  are actions of `JobStore` as written, so all it needs is that fact about
  the arguments of late calls (`PerformMoves`).
* `TypeCorrect`, `RowsCorrect` and `ImplementsLifecycle`: the store's theorems
  carried over to the composition by that lemma (`BehavesAsStore`). `StoreFacts`
  instantiates them; the readers that `JobStoreProofs` covers too get constants.
* `OwnershipInvariant`: `Spec => []OwnInv`, and from it `UploadsHeld`, `ParsedRuns`,
  `OutcomesReachRows`, `AcceptedStays`, `IncompleteOwned`, `UploadsOwned`,
  `OnlyLostInterrupted`, and
  `AcceptedRestsSettled`, which is `AcceptedSettles` without its fairness: an accepted
  job is never at rest unsettled while the server runs.

None of these eight is inductive. `OnlyLostInterrupted` adds `ArgInv`, that no coroutine and no
late call ever carries the sweep's detail. `JobInv(j)` says of one job what its handler, its
task, its late calls, its row and its upload have to do with each other:

* `CallsInv`: which call a program counter awaits, and that a process that does not
  serve yet awaits none.
* `LateInv`: which calls may still execute with nobody listening. A late INSERT is one
  of a cancelled handler, there is one at most, and its row has not been there yet; a
  late transition is one of a task that is over. Without it a late call could undo
  what is claimed of a row that nobody owns.
* `SubmitInv`: whether the row has been inserted, read off the handler; an id is not
  inserted twice.
* `RowInv`: the status of the row at each await of the task. `mark_running` finds a
  queued row until it has hit (`Untaken`), `mark_done` and `mark_failed` a running one
  until they have (`Working`), unless it is gone. A reply that waits for its coroutine
  counts, whence the replies in its clauses.
* `EndInv`: why nothing is left to do for the row of a task that is over, or told to
  be: it has settled, it is gone (only a `DELETE` that hit cancels a task of a serving
  process), it was never accepted, or the process that had it is gone and the sweep
  settled it.
* `FileInv`: who holds the upload.

`SameOK` is the frame: a step that touches nothing of a job keeps its `JobInv`, even if
late calls of it are over. `OneJob` reduces a step of one coroutine to its job; the
purge, the sweep, the wipe and the end of a process act on all of them. `Performs` is
what an executed call does to the row, whether its awaiter is still there
(`ExecuteOK`) or not (`ExecuteLateOK`), which is where the interleavings meet.

`WorkerPoolProofs`: the invariant is `IInv`. `PoolsInv` says that pools are created in
order and only over broken ones; `TeardownInv` who tears a pool down, or dropped it;
`ClosedInv` that a close reaches the last pool, because the swap comes before the
await; `PendingInv` that a job that may still run is on the current pool and its
parse awaits it; `CountersInv` what each counter has counted. Each is preserved by
one lemma, and the five invariants of the run follow. `PoolImplementsContract` is
the refinement: `Engines` and `CallFields` read off what each state of a job means to
the contract, `Alone` reduces a step to the one call it moves, and one lemma per
group of actions (`BeginningsSimulated` to `OthersSimulated`) names the contract's
step for each of the pool's. A break and a teardown move several calls at once
(`EnginesLost`). `CancelledInv` is needed besides `IInv`: a job cancelled under its
parse means a closed pool, or the contract would not allow the cancellation.

`LifespanProofs`: its `IInv` follows the phases: who may still run, which tasks are live
and told to end, which transitions may still land and why they hit nothing (their
row was settled by the sweep, or their task was told to end), and how far a submission
has come (`SubmitFollows`). `LeavesNothing`,
`SweepMissesNone` and `BlamesNoJob` follow, for any number of lifespans and faults.

`RetentionProofs`: `TextOrder` says that the two text forms compare as the instants do.
`RowsGo` needs `PurgeInv`: what a purge left is not due before the next one. `WaitsEnd`
is about the queue, jobs and converts alike. That a parse waits at most one timeout for each `Workers` parses ahead of
it is not inductive, because those ahead start and end at any time. The strengthening
is `Served(j, m)`: once m timeouts of a wait are over, `Workers` jobs for each of them have
left the queue before j, but for those that still run since before the m-th ended.
At the instant it ends, all workers are busy (or j would have started) with jobs
that came before j; a timeout later each has been killed (`TickServes`). Since no more
than `ahead` jobs were there, m is bounded, and so is the wait. `OutcomesStay` joins it
with `TextOrder`.

`SchemaInitProofs` proves, for any processes, releases and migrations, `Inductive`:
the invariant `IInv`, from which `SchemaCorrect`, `ConstructedIsUsable` and
`MigrationsRunOnce` follow.
`SchemaMatchesVersion` alone is not inductive: a COMMIT writes what the
transaction holds, so `TxInv` says the transaction too is a prefix and never
behind the file, which needs `LockInv` (one holder of the lock, and a process
migrates exactly while it is that) for the file not to move meanwhile; `ViewInv`
carries what a process read to the state it ends in. `MigrationFailsOK` shows that
the failure "exists already" cannot happen.

`AdmissionProofs` proves every property of the `admission` run, for any uploads,
chunk size, cap, slack, requests and tokens (assumed: `InputAssumption`).
`StagedWhole` needs `CopyOK`, which follows the copy from await to await: what is
on disk is what was counted, except between counting and writing. `ScratchIsOwned`
needs the converse, that every request in the copy has its file.
`AccessFollowsToken` needs `TokensInv` (a token never returns to the table, and its
row is there before its secret is shown) and `AccessOK` (a request presents a
secret that was shown). `OneRequest` reduces a step to the request that takes it.
`ShownStored` is the store's own promise, `ShownIsStored`.

`PipelineProofs` proves the three properties of the `pipeline` run for any documents,
versions, upgrades and failed probes. A stamp holds no reference to what it was made
of, so the invariant brings it back: `StampInv` says that the stamp of a running server
is one of a map that `Describes` what is installed, `ResultInv` that each result keeps
its part of a stamp of what it was parsed with. `DiscoveredOK` is the fact about
discovery, whichever probes fail; `Traverses` relates the components a result names to
the software its parse runs; `FingerprintTells` lets equal fingerprints stand for equal
maps. `NothingMissed` and `NothingNeedless` compare two such maps (`Compared`).

Only model-checked: all liveness (`AcceptedSettles`, `TasksEnd`, `ParsesEnd`,
`CurrentNeedsNoLock`, `InitEnds`, `LifespanSettles`), because the provers reach neither
fairness nor ENABLED, and the three claims that do not hold.

## Plan

1. `JobRunner` over `ParseContract`, in place of its own abstraction of the pool, and
   the proof that the pool keeps what the runner takes for granted.
2. A scrape of the metrics (`count_by_status` and the counters of a pool that may be
   swapped under it).

## Not modelled

Formats, schemas, error tables, OpenAPI post-processing, logging, settings and
packaging (no state); the scrape of the metrics (reads only); the native engine, pebble
and the discovery probes (external); `token list`, and the CLI's refusal to create a
database; the order of a listing; cancellation of the lifespan and the synchronous
`close` of the pool.
