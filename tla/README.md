# A verification project for the Distributed API Testing Platform

The platform stores collections of HTTP requests and runs them: the API creates a
*run* of *tasks*, puts each task on a Redis stream, worker processes execute the
requests and write the results to Postgres, and background sweeps of the backend
process bring back what failed or was left behind. This directory holds TLA+
modules of that program, TLC configurations that check them on small instances, and
proofs that TLAPS checks for every instance. Every definition is translated from the
code; `PROJECT.json` names the lines ("map").

Paths below are relative to `src/backend`.

## 1. Inventory

### Execution pipeline (the core)

| component | code | state | operations |
|---|---|---|---|
| Task stream | `app/queue/stream_client.py` | the Redis stream, the group's last-delivered id, its pending-entries list (PEL) | `enqueue`, `consume`, `ack`, `claim_stale` |
| Retry queue | `app/queue/retry_queue.py` | sorted set `retry:pending` | `schedule_retry`, `pop_due` |
| Run creation | `app/services/test_run_service.py`, `app/database.py` | the uncommitted rows of a run | trigger, scheduled run: insert rows, XADD each task, commit |
| Worker | `worker/main.py`, `worker/task_processor.py` | the batch in hand | consume, process concurrently, write, acknowledge |
| Result store | `worker/result_writer.py`, `app/models` | `test_runs`, `test_tasks`, `request_results` | one transaction per batch |
| Run context | `app/queue/run_context.py` | extracted variables of a run | read, merge |
| Retry sweeper | `scheduler/retry_sweeper.py` | local list of popped tasks | pop, re-enqueue, put back |
| Reclaim sweeper | `scheduler/reclaim_sweeper.py` | local list of claimed entries | claim, copy, acknowledge |
| Rate limiter | `app/queue/rate_limiter.py` | a token bucket per host | `try_acquire` (a Lua script) |

They interact only through Redis and Postgres. Hard behaviour: a task lives in turn
in a transaction, the stream, a worker's memory, `retry:pending` and a sweep's local
list, and every hand-over is two calls to two systems; entries may be executed twice
(reclaim of a slow worker, a lost XACK, a lost reply, a retry scheduled before its
row is written). What makes it correct: no unfinished task is lost; no attempt is
skipped; counters, statuses and rows agree; every run ends.

### Around it

| component | code | state | properties |
|---|---|---|---|
| Schedules | `scheduler/cron_scheduler.py`, `app/services/schedule_service.py` | `schedules` rows, `next_run_at` | an occurrence runs once; an active schedule fires; a due one does not stay due. Hard: the sweep's one transaction overlaps API requests |
| Organizations and membership | `app/services/organization_service.py` | `organization_members` | an organization keeps an owner, and no member outlives it. Hard: check-then-write in overlapping requests |
| Worker registry and health | `app/queue/worker_registry.py`, `app/services/worker_service.py`, `worker/main.py`, `worker/healthcheck.py` | a liveness key with a TTL and a `workers` row per process, the id file of the container | a worker that misses one beat stays listed; an OFFLINE one is done; who dies or hangs drops out; a shutdown ends. Hard: two loops, timing, restarts under a new id |
| Request evaluation | `worker/template_resolver.py`, `worker/executor.py`, `worker/assertion_engine.py`, `worker/variable_extractor.py` | none | what is sent and what is kept has the right origin. Hard: the values come from three places, and concurrent attempts change one of them |
| Catalogue | `app/services/{project,collection,api_request,assertion,environment_variable}_service.py`, `app/models` | a tree of rows, and each project's variables | what a run refers to outlives every edit. Hard: deletes cascade, run creation reads in several statements, and assertions are read after the answer |
| Authentication | `app/services/auth_service.py`, `app/core/security.py` | one row per user | library calls (bcrypt, JWT) around one row |
| Migrations, settings, logging, schemas, routers | | | no behaviour of their own |

The hazards of all this are listed with their lines in `PROJECT.json`, "hazards".

## 2. Modules

    TestModels   tasks, runs, statuses, retry limit
      |-- TaskStream    |-- RetryQueue    |-- RunStore      Faults
      |        \              |               /                |
      RunCreation     Worker     RetrySweeper     ReclaimSweeper
                  \      |           |           /
                        TaskPipeline  --- refines --->  RunContract
                         |        \
               MCTaskPipeline   TaskPipelineProofs <-- ContractProofs

    Membership     MCMembership     MembershipProofs
    RateLimiter    MCRateLimiter    RateLimiterProofs
    CronSchedules  MCCronSchedules  CronSchedulesProofs
    WorkerRegistry MCWorkerRegistry WorkerRegistryProofs

    Evaluation <-- Catalogue <-- RunSnapshot <-- CollectionRun
                                                  |        \
                                      MCCollectionRun    CollectionRunProofs

**TaskStream.** The stream is a sequence of tasks, an entry id a position in it.
`ReadGroup` is XREADGROUP `>`: the oldest undelivered entries move to `pel`. `Ack` is
XACK. The log is never trimmed, as in the code.

**RetryQueue.** Membership of `retry:pending`. `pop_due` is two steps, ZRANGEBYSCORE
(`ReadDue`) and ZREM (`RemoveDue`), because a ZADD may fall between them. Scores are
abstracted: any member may be due.

**RunStore.** The columns the pipeline reads back. `WriteBatch` is
`ResultWriter.write_batch`: rows, counters and the decision whether the run is over,
in one transaction. Outcomes carry their stream entry, since the last one of a task
in a batch wins. Results are a set: two identical rows count as one.

**RunCreation.** `_create_run`, its loop of XADDs in the order of `created_tasks`, and
the commit that only follows after it (`get_db` for a request, the end of
`sweep_once` for the cron sweep, which swallows a failing XADD and commits).
Several scheduled runs of one sweep commit separately here; `CronSchedules` models
the sweep's single transaction.

**Worker.** One `Job` per `_process_entry`. Stages are where `process_task` stands;
`seen` is the `retry_count` it read at its start and uses to the end. The jobs of a
batch interleave freely (`asyncio.gather`), then `WriteOutcomes`, then `AckBatch`.
The HTTP exchange, its assertions and its extract rules succeed or fail; a request
whose variables are not in the chain context (`Needs`) can only fail. What flows
through that context, and its TTL, is the matter of `CollectionRun`.

**RetrySweeper, ReclaimSweeper.** One step per awaited call; `popped`, `claimed` and
`copied` are the sweeps' local variables, gone when the backend dies. `min_idle_ms` is
longer than any processing cycle the configuration allows, so an entry in a live
worker's hands is claimed only as the failure "slow".

**Faults.** What may go wrong, each kind described there, and `MaxFaults`, the bound
on how often. Redis and Postgres keep their data. An empty token bucket is the
failure "throttle", so the pipeline's runs bound it too.

**TaskPipeline.** The composition, its properties, fairness and inductive invariant.
`leaked` is a history variable with the tasks that went through a step after which
the code keeps no reference to them:
a row not yet visible (`ReadMissing`), an XADD failing in the cron sweep, a lost ZREM
reply, an aborted retry sweep, a backend crash with popped tasks, and a second
execution that started while the first still holds its unwritten RETRYING
(`UnwrittenRetry`). No property is allowed to excuse a task for any other reason, so
`NoTaskLost` says that this list is complete.

**RunContract.** What a client of the API may rely on: a run appears with all its
tasks, a final status is final, counters count exactly the final statuses, and a run
is COMPLETED in the step that finishes its last task. The refinement maps
`taskStatus`, `runStatus` and the two counters. The pipeline keeps the contract where no
attempt is executed twice (`SingleExecution`, section 5), and `duplicate_ack` and
`late_retry_write` show that it does not in general.

**RateLimiter.** The Lua script as one step per call, with the key's TTL, Redis's wall
clock (which may be set), and the rounding of `tostring(now)`, which keeps 14 digits.
Tokens are counted in clock ticks. `elapsed`, `jumped`, `granted`, `calls`, `quiet`
and `steady` observe a window of any length.

**CronSchedules.** The sweep as one transaction of several steps next to API requests
that load a row, compute and write only the columns that differ from what they loaded
(SQLAlchemy's unit of work). A row the sweep has written is locked until its commit,
and a run that was inserted holds its collection. UPDATE and commit of a request are
one step. Time zones are part of the cron expression; refused requests change nothing
and are left out.

**Membership.** One organization; each request is a READ COMMITTED transaction that
authorizes, reads the target, counts the owners and writes, in separate steps. A row
the session loaded keeps its attributes; deleted meanwhile, an UPDATE raises and a
DELETE succeeds. Nothing keeps requests apart. The history variable `raced` records that
a change (an update of a role or a removal) has overtaken another one in one of two ways
(`Overtakes`): it writes a membership the other has read already, or both take an owner
away and both have counted. `OwnedUnlessRaced` says that only these two leave an
organization without an owner; leaving out either makes TLC find a counterexample.

**WorkerRegistry.** One container, whose process registers under a new id every time
it starts. The two loops of the TaskGroup are `beat` and `consuming`; `Tick` lets time
pass, but no sleep lasts longer than the interval and no beat longer than `BeatTime`,
unless a call hangs. The health check reads the id file in one step and asks Redis in
any later state (`Healthy`). What the consume loop does with a batch is the matter of
`Worker`.

**Evaluation.** The pure functions of a worker as operators. A template is the set of
names it uses; a value is its origin (a version of a project variable, a data row, or an
item of the answer to one execution), which is all the properties tell apart. The loop of
`extract_variables`, whose rounds see what earlier rounds saved, is the unique solution
of its rounds (`Rounds`), so that it can be proved about without recursion;
`ExtractedInOrder` compares it with the loop as it is written. Which values decode as a JWT
is a matter of where they come from: some paths of a response, some data rows.

**Catalogue.** Rows as a set of ids with a fixed parent each, and the variables of each
project. One action per request, at its commit. `Remove` is the cascade.

**RunSnapshot.** `_create_run` statement by statement between those edits: it lists the
requests, copies the variables, inserts (which checks the foreign keys and from then on
holds the rows) and ends. A row that a run refers to cannot be deleted.

**CollectionRun.** `process_task` between the load of a task and its outcome, several
jobs at a time, over the two modules above. Any job may start any task of a committed run
whenever it likes, as often as it likes, and drop it anywhere: this covers every schedule
of `TaskPipeline`, its double executions included, so what holds here holds there.
`executions` is a history of what was sent with what came of it, `writer` records
which execution merged each entry of a context, and `merged` which entries the context had
when a task was loaded; the code has none of them. `SentExplained` is strict about the order
of the sources: the data row, else the context, and the snapshot only if the context had no
entry when it was read, which is impossible if one had been merged before the load and has
not expired. A task loaded before its predecessor has merged may be sent with the older
value: the code makes nobody wait.

## 3. Runs

| run | bounds | shows |
|---|---|---|
| `pipeline_one_worker` | 1 scheduled run of 2 chained tasks, batch of 2, 1 retry, any 1 failure of all 11 kinds | types; no unfinished task is dropped by an unlisted step; no attempt is skipped; a run whose tasks are finished is COMPLETED |
| `pipeline_two_workers` | 2 workers, 1 task, 1 retry, any 1 failure of all 11 kinds, fair loops | the inductive invariant `IInv`; no entry is in two batches; the task and its run come to their end |
| `pipeline_contract` | 1 worker, 2 runs (1 scheduled), 3 tasks, up to 2 of {throttle, XADD, ZADD, commit, backend restart} | its inductive invariant `ContractInv`; a COMPLETED run has no open task; the rows implement `RunContract` |
| `rate_limiter` | bucket of 2 tokens, 3 ticks each, rounding 2, TTL 8, clock up to 8, windows up to 5 | no window grants more than bucket and refill; who waits is served |
| `cron_schedules` | 2 schedules, 1 request at a time, periods 1 and 2, time 3, 1 failing sweep | no occurrence runs twice; an active schedule has a `next_run_at`; a due one is swept |
| `membership` | 3 users, 2 requests of any kind that overlap in any order | an organization keeps an owner but for two races of two changes; no membership outlives it |
| `worker_registry` | interval 5, TTL 15 as configured, a beat of up to 1, 2 successive processes, fair loops | a running worker that misses one beat stays listed; an OFFLINE one is done; a healthy answer is about a registered worker; who died or hangs drops out; a shutdown ends |
| `collection_run` | 3 requests (a login that extracts, two that use it), 2 assertions, 2 data rows, 2 jobs, 1 run, 1 edit, 2 executions | a run's requests are not taken from under it; every value sent or kept has the right origin, in the right order of precedence; no context mixes two attempts |
| `duplicate_ack` | 2 tasks, 1 lost XACK | violation, below |
| `enqueue_before_commit` | 2 tasks, no failure | violation, below |
| `late_retry_write` | 2 tasks, 2 workers, no failure | violation, below |
| `last_owner` | 2 users, 2 overlapping requests | violation, below |

Why the bounds are enough: the interesting races of the pipeline involve one task in
two places, so one or two tasks, two workers and one retry reach each of them; two tasks in one run
tell a run's counters from a task's status, a batch of two tells a batch from a task.
One failure reaches every error path; two, in `pipeline_contract`, reach a failed
recovery. That the run of *several* tasks ends follows from each of them settling
(`EveryTaskSettles`) and from `SettledRunIsCompleted`, which is proved for any number.
Two executions are what it takes for one to use, overwrite or tear what another merged,
and one edit may fall between any two of their steps; `Definitions` starts a request
with either of its two rule lists. Two processes are what it takes for the health check
to find an old id. The theorems of section 5 cover the rest for every instance. A
window of the rate limiter may begin at any state, so long windows are sequences of short ones.

`CHECK_DEADLOCK FALSE` is set for the pipeline, the schedules and `collection_run`: an
idle pipeline waits in XREADGROUP, an idle scheduler waits for a clock that has reached
its bound, and nothing is left of a collection run when its executions and edits are used
up.

Fairness. `FairSpec` has weak fairness of each loop's steps without failure: an event
loop keeps running and each awaited call returns (`timeout_ms` for requests,
`block_ms` for `consume`, the sweeps' intervals). The sweeps' loops catch their
exceptions, and Docker restarts a worker that ends (`restart: unless-stopped`); the
backend has no restart policy, so `CrashBackend` stands for a restart by whoever
operates it, and liveness assumes that it comes. A run that was begun
goes on, but nobody must begin one. Failures are never fair.
`CronSpec` has weak fairness of the sweep alone, since `run_forever` sweeps again
after every interval whatever happened; requests may stay open for ever.
`FairRegistrySpec` has weak fairness of the process's own steps, of each loop and of
time: Docker restarts the process, and every call returns or fails, unless it is one that
`Hang` stopped. Failures, signals and the arrival of tasks are not fair.

## 4. Where the code does not do what it says

Each has a run in which TLC finds the behaviour.

1. **`duplicate_ack`.** A failed XACK is called "a harmless extra attempt"
   (`worker/main.py:218-220`). It is not: the second execution is counted again
   (`worker/result_writer.py:93`), and the run is COMPLETED while a task is open.
2. **`enqueue_before_commit`.** Tasks are on the stream before their rows are committed
   (`app/services/test_run_service.py:143`). A fast worker finds no row, takes this for
   data that "no longer exists" (`worker/main.py:253-254`), acknowledges, and the task
   stays PENDING for ever.
3. **`late_retry_write`.** The retry is scheduled before RETRYING is written
   (`worker/task_processor.py:151`). A second worker may finish the task first; then
   RETRYING is written over its final status and nothing will pick the row up, although
   `scheduler/retry_sweeper.py:2-3` promises that it is "re-attempted instead of waiting
   forever".
4. **`last_owner`.** The owners are counted and the change is written in separate
   statements (`app/services/organization_service.py:152`); two owners who demote or
   remove one another leave an organization without one, against
   `app/core/exceptions.py:65`. (The other way there: a member is made an owner, and a
   request that had loaded it before removes it, uncounted, as the member it was.
   `membership` shows that there is no third.)

Seen while modelling, without a run of their own: a scheduled run whose XADD fails is
committed with tasks nobody executes; an outage of Redis in the middle of a retry sweep
drops the rest of the popped batch; a request may be executed before the one of its
chain that provides its variables and burn an attempt; a schedule deactivated while a
sweep is advancing it ends inactive with a `next_run_at` (`schedule_service.py:4` says
non-null if and only if active), and two overlapping updates can leave one active
without; a consume loop that hangs leaves the heartbeat loop running, and the container
healthy, although `worker/healthcheck.py:14-20` says that the check is there to show
hangs; the row of a crashed worker stays ONLINE, which `app/services/worker_service.py:4`
rules out and its lines 57-60 expect; a collection or a request with runs cannot be
deleted, and the endpoint answers with an unhandled error; an extract rule whose JSONPath
does not parse raises something `process_task` does not catch
(`worker/variable_extractor.py:55`), so that its entry comes back for ever.

## 5. Proofs

All theorems are checked by TLAPS for every value of the constants, from the named
assumptions of the modules only (`ModelsAssumption`: finitely many tasks, every run has
one; `CreationAssumption`, `WorkerAssumption`, `FaultsAssumption`,
`MembershipAssumption`, `LimiterAssumption`, `CronAssumption`; `RegistryAssumption`: two
intervals and three beats fit in the TTL; `EvaluationAssumption`, `CatalogueAssumption`,
`SnapshotAssumption` and `RunAssumption`, which only type the instance).

**TaskPipelineProofs.** `Invariance` proves `Spec => []IInv`; `TypeCorrectness`,
`NothingLost`, `NoAttemptSkipped`, `DeliveredOnce` and
`SettledRunsAreCompleted` follow. `NoTaskLost` is not inductive: it says nothing of
tasks whose rows are not committed, nor of what a write is about to do. `IInv` adds:

- `Carried`: every task once put on the stream, committed or not, is finished, leaked
  or carried by something: an entry not yet discharged, `zset` or `popped`.
- `RetryCarried`: an unwritten RETRYING has a carrier that its own worker's write and
  acknowledgement cannot discharge (`SafeCarrier`). The write of RETRYING over a final
  status reopens the task; this is what it then relies on.
- `CommittedSent`: a committed task is on the stream or leaked.
- `AttemptHistory`: every copy of `retry_count`, however stale, counts failures that
  are in `results`. This gives `FailedAfterAllAttempts`.
- `ProgressCounted`: a run's counters never fall behind the number of its finished
  tasks, and a run still RUNNING has not counted all of them. `WriteCounts` compares, by
  cardinalities, the tasks a batch finishes with what it adds to the counters; a
  double execution only adds more. This gives `SettledRunIsCompleted`.
- `Bookkeeping`, `EntryHeldOnce`: control and batches agree.

Each action has a lemma per conjunct it can disturb. The steps that do not touch
entries and jobs of a task keep its carrier (`CarrierKept`); the delicate cases are
`WriteCarries` and `ConsumeKeepsCarrier`.

**ContractProofs.** `ContractIsKept` proves `KeepsContract`, step by step: each action
maps to a step of `RunContract` or to a stutter. Its condition is `SingleExecution`: none
of the failures after which an entry is reclaimed or an XADD repeated ("process", "write",
"reply", "ack", "crash", "slow"), and either no retries or a single worker. Throttling,
failing XADDs and commits, outages and restarts of the backend are allowed. It is not an
assumption about how the platform is deployed but the boundary of what it promises:
`duplicate_ack` breaks the contract with one lost XACK, `late_retry_write` with a second
worker and no failure at all. `ContractInvariance` proves the invariant behind it, relative to
`IInv`:

- `NothingToReclaim`: whatever is pending is in the hands of a live worker, so the reclaim
  sweep has nothing to do.
- `OnePlace`: a task is not yet sent, in one pending entry, in `retry:pending`, or in the
  retry sweep's list, and never in two of them. An entry whose retry is scheduled but not
  written is no longer pending: this is the moment when the task is in two hands, and a
  single worker writes before it consumes again.
- `FinishedIsForgotten`: a task with a final status is in none of these places. Without it a
  later write could reopen the task or count it again.
- `CountersExact`: the counters are the numbers of COMPLETED and FAILED tasks. With one
  outcome per task in a batch (`OneOutcome`) and none for a finished task (`WriteForgets`),
  `StatusesCounted` compares the two cardinalities before and after a write.
- `RunCompletionSound`: a COMPLETED run has no open task. Stated for itself as
  `CompletionIsSound`.

`LeakedIsAtRest` and `RetriesComeBack` also exclude "outage" and "backend", after which
popped retries are gone: then a leaked task is neither RETRYING nor in the hands of
anything, and with `NothingLost` every RETRYING task comes back. No passing
run has these conditions, which are those of `pipeline_contract` less its outages and its
restart of the backend; the two are proved without one.

**RateLimiterProofs.** `LimiterInvariance`, `GrantsBounded`, `PatienceIsServed`. A
bound on what *was* granted is not inductive; `WouldGrantBound` bounds what was granted
plus what the bucket would grant now, and `ExpiresFull` says that an expired bucket
would have been full, which needs `Ttl >= Capacity + Grain`.

**MembershipProofs.** `MembershipInvariance`, `OwnerRemains`, `NoOrphans`, without a
condition on how requests overlap. `RowsKnown` is what `NoOrphanRows` needs: who changes a
membership has read its row, and the row is there or known to be gone. While no change has
raced another, `SeenIsCurrent` and `LeavesOwner` carry the check over to the write.
`OthersKeepTheirs` says what a commit leaves of the other requests, and `ChangeInv` is the
heart: a commit that makes some other request's view outdated, or its count wrong, is one
that `Overtakes` names.

**CronSchedulesProofs.** `NoOccurrenceTwice` for any requests and failures;
`CronInvariance` and `ActiveSchedulesFire` under `OneRequest` (API requests follow one
another, while sweeps overlap them). `RunsBeforeListed` is the key: only the sweep that
listed a schedule can run it, so nothing later has run when it commits.

**WorkerRegistryProofs.** `RegistryInvariance`, `OfflineWorkersAreDone`, `OneMissedBeat`,
`HealthyWorkersAreOnline`. `Freshness` carries the arithmetic: it bounds from below what is
left of the key at each place where a loop that has missed no beat or one can stand.

**CollectionRunProofs.** `CollectionRunInvariance`, for any catalogue, rules, rows, runs
and jobs, and from it the five theorems about where values come from and what a run
refers to. `JobsExplained` and `ExecutionsExplained` say that each dict a job holds was
read from passed executions before its own; `WriterKnown` ties `writer` to `context`.
`MergedIsRead` is what `SentValuesAreExplained` needs besides: entries that were there when a
task was loaded are there when it reads the context, since merges only add and replace.
`ExtractedNames` is why contexts are not torn: an execution that passed has extracted
*every* name its rules save, so a merge overwrites all of what another attempt of the same
names left. `OthersKeepRuns` (edits and creations) and `WorkersKeepRows` (jobs) separate
the two halves; `SubtreeIsClosed` is the cascade.

`ExtractionIsInOrder` compares the equations that model the loop of `extract_variables`
(`Rounds`) with the loop itself, a recursive function over the rules. Such a function is by
definition *some* solution of its equations. That there is one is shown by giving it
(`LoopYields`), and that it can only be that one by the least round in which two solutions
would differ (`SameLoop`, from `Least`) where one would expect an induction.

Only model-checked: the liveness properties (`EveryTaskSettles`, `EveryRunCompletes`,
`DueIsSwept`, `DeadIsDropped`, `ShutdownCompletes`), which need fairness and ENABLED. Every
invariant and action property of a passing run is stated by a theorem.

## 6. Not modelled

- **Authentication**: password hashing and tokens are calls of libraries around a single
  row; nothing else changes with it. The requests of the other modules are authorized.
- **Names, descriptions and `order_index`**, and the updates of projects, collections and
  organizations, which change nothing else. `order_index` only orders the tasks of a run in
  the stream, where any order may occur.
- **Text**: templates, JSONPaths, JWTs, headers and bodies are what they refer to or find.
- **Backoff delays and the order of Postgres' locks**: a scheduled retry may be due at any
  time, and a deadlock is a failed write.
- **Settings, logging, response formats, execution logs, the export and the other
  read-only endpoints**: no state that a property could relate to another. Of the migrations
  only the constraints are used, by the modules that rely on them.
- **Loss of data in Redis or Postgres, and more than one backend process**: the code
  handles neither.
