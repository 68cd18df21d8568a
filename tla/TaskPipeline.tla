---------------------------- MODULE TaskPipeline ----------------------------
(***************************************************************************)
(* The execution pipeline: run creation, the workers, the retry sweep and  *)
(* the reclaim sweep, over the stream, the retry set and the rows.         *)
(*                                                                         *)
(* leaked is a history variable: the tasks that went through one of the    *)
(* steps after which the code keeps no reference to them.  It is read by   *)
(* properties only.                                                        *)
(***************************************************************************)
EXTENDS RunCreation, Worker, RetrySweeper, ReclaimSweeper

VARIABLE leaked

vars == <<streamVars, retryVars, storeVars, creationVars, workerVars, popped,
          reclaimVars, faultsLeft, leaked>>

TypeOK ==
    /\ StreamTypeOK
    /\ RetryTypeOK
    /\ StoreTypeOK
    /\ CreationTypeOK
    /\ WorkerTypeOK
    /\ SweeperTypeOK
    /\ ReclaimTypeOK
    /\ FaultsTypeOK
    /\ leaked \subseteq Tasks

Init ==
    /\ StreamInit
    /\ RetryInit
    /\ StoreInit
    /\ CreationInit
    /\ WorkerInit
    /\ SweeperInit
    /\ ReclaimInit
    /\ FaultsInit
    /\ leaked = {}

Leak(S) == leaked' = leaked \cup S

\* A worker other than w holds an outcome "retrying" of t that it has not
\* written: the row is about to say "retrying" whatever happens to t meanwhile.
UnwrittenRetry(t, w) ==
    \E j \in jobs : /\ j.worker # w
                    /\ phase[j.worker] = "processing"
                    /\ j.stage = "retrying"
                    /\ TaskOf(j) = t

-----------------------------------------------------------------------------
CreationStep ==
    /\ \/ \E r \in Runs : StartRun(r) /\ Leak({})
       \/ \E t \in Tasks : EnqueueTask(t) /\ Leak({})
       \/ \E t \in Tasks :
            /\ EnqueueTaskFails(t)
            /\ Leak(unsent' \cap RunTasks(RunOf[t]))
       \/ \E r \in Runs : CommitRun(r) /\ Leak({})
       \/ \E r \in Runs : CommitRunFails(r) /\ Leak({})
    /\ UNCHANGED <<retryVars, workerVars, popped, reclaimVars>>

ProcessStep(j) ==
    \/ ReadMissing(j) /\ Leak({TaskOf(j)})
    \/ ReadTask(j) /\ Leak({t \in {TaskOf(j)} : UnwrittenRetry(t, j.worker)})
    \/ /\ \/ Throttle(j)
          \/ Succeed(j)
          \/ FailAndRetry(j)
          \/ FailForGood(j)
          \/ ProcessError(j)
       /\ Leak({})

WorkerStep(w) ==
    /\ \/ \E j \in JobsOf(w) : ProcessStep(j)
       \/ /\ \/ Consume(w)
             \/ WriteOutcomes(w)
             \/ WriteOutcomesFails(w)
             \/ AckBatch(w)
             \/ AckBatchFails(w)
             \/ CrashWorker(w)
          /\ Leak({})
    /\ UNCHANGED <<creationVars, popped, reclaimVars>>

RetryStep ==
    /\ \/ \E S \in SUBSET zset : RetryScan(S) /\ Leak({})
       \/ RetryPop /\ Leak({})
       \/ RetryPopReplyLost /\ Leak(due)
       \/ \E t \in popped : RetryEnqueue(t) /\ Leak({})
       \/ \E t \in popped : RetryEnqueueFails(t) /\ Leak({})
       \/ RetryAbort /\ Leak(popped)
    /\ UNCHANGED <<storeVars, creationVars, workerVars, reclaimVars>>

ReclaimStep ==
    /\ \/ \E S \in SUBSET pel : ClaimStale(S, Held)
       \/ \E e \in claimed : ReclaimEnqueue(e)
       \/ \E e \in claimed : ReclaimEnqueueFails(e)
       \/ ReclaimAck
       \/ ReclaimAckFails
    /\ Leak({})
    /\ UNCHANGED <<retryVars, storeVars, creationVars, workerVars, popped>>

\* The backend process dies: the sweeps lose their local lists and the requests
\* in progress are rolled back.
CrashBackend ==
    /\ Fault("backend")
    /\ Leak(popped)
    /\ popped' = {}
    /\ due' = {}
    /\ claimed' = {}
    /\ copied' = {}
    /\ creation' = [r \in Runs |-> IF creation[r] \in {"enqueuing", "swallowed"}
                                   THEN "aborted" ELSE creation[r]]
    /\ UNCHANGED <<zset, unsent, streamVars, storeVars, workerVars>>

Next ==
    \/ CreationStep
    \/ \E w \in Workers : WorkerStep(w)
    \/ RetryStep
    \/ ReclaimStep
    \/ CrashBackend

Spec == Init /\ [][Next]_vars

-----------------------------------------------------------------------------
(* Safety *)

\* Entry e will not bring its task back: the sweep has put a copy of it on the
\* stream, or the job that holds it has passed the task on, given up on it, or
\* has its outcome written.
Discharged(e) ==
    \/ e \in copied
    \/ \E j \in jobs : /\ j.entry = e
                       /\ \/ j.stage \in {"deferred", "missing", "retrying"}
                          \/ phase[j.worker] = "acking" /\ j.stage # "error"

\* Entry e will: it is still to be delivered, or its delivery is not done with.
LiveEntry(e) == e > lastDelivered \/ (e \in pel /\ ~Discharged(e))

\* Something in the system will bring t back to a worker.
Carrier(t) ==
    \/ t \in zset \cup popped
    \/ \E e \in 1..Len(stream) : stream[e] = t /\ LiveEntry(e)

\* Between retry:pending, the sweeps' local lists, the stream, the pending list
\* and the workers' batches, no interleaving and no failure loses an unfinished
\* task: only the steps counted in leaked do.
NoTaskLost ==
    \A t \in Tasks : taskStatus[t] \in Open /\ t \notin leaked => Carrier(t)

\* Attempts 1 to n of t have failed and are on record.
FailedUpTo(t, n) ==
    \A k \in 1..n : [task |-> t, attempt |-> k, passed |-> FALSE] \in results

\* Attempts are never skipped, even when stale reads and duplicate executions
\* write retry_count back and forth: a task is FAILED only after every attempt it
\* was entitled to has a failing request_results row.
FailedAfterAllAttempts ==
    \A t \in Tasks : taskStatus[t] = "failed" => FailedUpTo(t, MaxRetries + 1)

\* Each entry of the stream is in at most one batch, also after reclaim and
\* restart: XREADGROUP ">" and the copy made by the reclaim sweep.
EntryHeldOnce ==
    \A i, j \in jobs : i.entry = j.entry => i = j

\* A run whose tasks are all finished is COMPLETED: the counters never fall
\* behind the rows, although only a batch that moves them looks at the status.
SettledRunIsCompleted ==
    \A r \in Runs : /\ runStatus[r] # "none"
                    /\ \A t \in RunTasks(r) : taskStatus[t] \in Terminal
                    => runStatus[r] = "completed"

-----------------------------------------------------------------------------
(* Liveness *)

\* The creation of a run that was begun goes on; nobody is forced to begin one.
ContinueCreation ==
    /\ CreationStep
    /\ NoFault
    /\ \A r \in Runs : creation[r] = "new" => creation'[r] = "new"

\* Each event loop keeps running and each awaited call returns: a request is
\* bounded by timeout_ms, consume by block_ms, the sweeps by their intervals.
\* Failures need no fairness.
Fairness ==
    /\ WF_vars(ContinueCreation)
    /\ \A w \in Workers : WF_vars(WorkerStep(w) /\ NoFault)
    /\ WF_vars(RetryStep /\ NoFault)
    /\ WF_vars(ReclaimStep /\ NoFault)

FairSpec == Spec /\ Fairness

\* Every unfinished task that is not leaked gets a final status in the end,
\* through whatever failures, reclaims and retries.
EveryTaskSettles ==
    \A t \in Tasks : taskStatus[t] \in Open ~> taskStatus[t] \in Terminal \/ t \in leaked

\* Every run comes to an end unless one of its tasks is leaked.
EveryRunCompletes ==
    \A r \in Runs : runStatus[r] = "running" ~>
        runStatus[r] = "completed" \/ RunTasks(r) \cap leaked # {}

-----------------------------------------------------------------------------
(* The pipeline as seen through its rows *)

Contract == INSTANCE RunContract WITH
    final <- [t \in Tasks |-> IF taskStatus[t] \in Open THEN "open" ELSE taskStatus[t]],
    run <- runStatus,
    succeeded <- completedTasks,
    failures <- failedTasks

\* As long as no entry is executed twice (one worker, and no failure after which
\* an entry is reclaimed or an XADD repeated), the pipeline keeps the contract.
KeepsContract == Contract!ContractSpec

-----------------------------------------------------------------------------
(* What comments of the repository say of the pipeline and the code does not   *)
(* guarantee.  Each has a run in which TLC finds a counterexample.             *)

\* "If the ack itself fails, the entry gets reclaimed and reprocessed later -- a
\* harmless extra attempt" (worker/main.py): the extra attempt must not complete
\* a run that still has unfinished tasks.
RunCompletionSound ==
    \A r \in Runs : runStatus[r] = "completed" =>
        \A t \in RunTasks(r) : taskStatus[t] \in Terminal

\* "references data that no longer exists; acknowledging so it doesn't retry
\* forever against an unrecoverable state" (worker/main.py): a row found missing
\* must not turn up while its entry is being acknowledged.
MissingIsUnrecoverable ==
    \A j \in jobs : j.stage = "missing" => taskStatus[TaskOf(j)] = "none"

\* "actually gets re-attempted instead of waiting forever"
\* (scheduler/retry_sweeper.py): a RETRYING task is still somewhere between
\* retry:pending and a worker.
RetryingComesBack ==
    \A t \in Tasks : taskStatus[t] = "retrying" => Carrier(t)

-----------------------------------------------------------------------------
(* The inductive invariant behind NoTaskLost, FailedAfterAllAttempts and      *)
(* SettledRunIsCompleted                                                     *)

\* The batches and the sweeps are where the control says they are.
Bookkeeping ==
    /\ \A j \in jobs : /\ j.entry \in 1..lastDelivered
                       /\ phase[j.worker] # "idle"
                       /\ phase[j.worker] = "acking" => j.stage \notin InProgress
    /\ due # {} => popped = {}

\* A task put on the stream is finished or will come back; this also covers the
\* tasks of a run that is not committed yet.
Carried ==
    \A t \in Tasks \ (unsent \cup leaked) : taskStatus[t] \in Terminal \/ Carrier(t)

\* Entry e will come back whatever worker w does with its batch.
SafeEntry(e, w) ==
    \/ e > lastDelivered
    \/ /\ e \in pel \ copied
       /\ \A j \in jobs : j.entry = e =>
            \/ j.stage = "error"
            \/ j.stage = "fetched" /\ j.worker # w

SafeCarrier(t, w) ==
    \/ t \in zset \cup popped
    \/ \E e \in 1..Len(stream) : stream[e] = t /\ SafeEntry(e, w)

\* A retry that is scheduled and not yet written has a carrier that the write
\* cannot discharge.
RetryCarried ==
    \A j \in jobs :
        /\ j.stage = "retrying"
        /\ phase[j.worker] = "processing"
        /\ TaskOf(j) \notin leaked
        => SafeCarrier(TaskOf(j), j.worker)

\* Rows are committed only when every task is on the stream, or is leaked; a job
\* that has read its row has found one.
CommittedSent ==
    /\ \A j \in jobs : j.stage \in Written \cup {"executing", "unresolved"} =>
                         taskStatus[TaskOf(j)] # "none"
    /\ \A t \in Tasks : taskStatus[t] # "none" => /\ creation[RunOf[t]] = "committed"
                                                   /\ t \notin unsent \ leaked
    /\ \A r \in Runs : creation[r] = "swallowed" => Unsent(r) \subseteq leaked

\* retry_count, and every copy of it that a job works from, counts failures that
\* are on record.
AttemptHistory ==
    /\ \A t \in Tasks : FailedUpTo(t, retryCount[t])
    /\ \A j \in jobs : FailedUpTo(TaskOf(j), j.seen)
    /\ \A j \in jobs : j.stage = "failed" => j.seen >= MaxRetries

Settled(r) == {t \in RunTasks(r) : taskStatus[t] \in Terminal}

\* The counters count at least the tasks that are finished, and a run that is
\* still RUNNING has not counted all of its tasks.
ProgressCounted ==
    \A r \in Runs :
        /\ runStatus[r] # "none" <=> creation[r] = "committed"
        /\ runStatus[r] = "none" => completedTasks[r] = 0 /\ failedTasks[r] = 0
        /\ Cardinality(Settled(r)) <= completedTasks[r] + failedTasks[r]
        /\ runStatus[r] = "running" => completedTasks[r] + failedTasks[r] < TotalTasks(r)

IInv ==
    /\ TypeOK
    /\ Bookkeeping
    /\ EntryHeldOnce
    /\ Carried
    /\ RetryCarried
    /\ CommittedSent
    /\ AttemptHistory
    /\ FailedAfterAllAttempts
    /\ ProgressCounted
-----------------------------------------------------------------------------
(* The inductive invariant behind KeepsContract                              *)

\* When no attempt is executed twice: no failure after which an entry is reclaimed
\* or an XADD repeated, and no second worker that could pick up a retry before
\* the first has written it.
SingleExecution ==
    /\ Faults \subseteq {"throttle", "enqueue", "outage", "commit", "backend"}
    /\ MaxRetries = 0 \/ \A v, w \in Workers : v = w

\* Whatever is pending is in the hands of a live worker, so that the reclaim sweep
\* finds nothing.
NothingToReclaim ==
    /\ pel \subseteq Held
    /\ claimed = {} /\ copied = {}
    /\ \A j \in jobs : /\ j.stage # "error"
                       /\ j.stage = "retrying" => j.seen < MaxRetries

\* What became of the task of j is still to be written.
Unwritten(j) == phase[j.worker] = "processing" /\ j.stage \in InProgress \cup Written

\* Entry e stands for an execution of its task that has not ended.
Pending(e) ==
    \/ e > lastDelivered
    \/ \E j \in jobs : j.entry = e /\ Unwritten(j) /\ j.stage # "retrying"

\* A task is in one place: not yet sent, in one pending entry, in retry:pending or
\* in the retry sweep's list; and only one job has something to write of it.
OnePlace ==
    /\ due \subseteq zset
    /\ zset \cap popped = {}
    /\ \A e \in 1..Len(stream) : Pending(e) =>
          /\ stream[e] \notin zset \cup popped
          /\ \A f \in 1..Len(stream) : stream[e] = stream[f] /\ Pending(f) => e = f
    /\ \A t \in unsent : t \notin zset \cup popped /\ \A e \in 1..Len(stream) : stream[e] # t
    /\ \A i, j \in jobs : Unwritten(i) /\ Unwritten(j) /\ TaskOf(i) = TaskOf(j) => i = j

\* Nothing in the system refers to t any more.
Forgotten(t) ==
    /\ t \notin zset \cup popped
    /\ \A e \in 1..Len(stream) : stream[e] = t => ~Pending(e)
    /\ \A j \in jobs : TaskOf(j) = t => ~Unwritten(j)

FinishedIsForgotten == \A t \in Tasks : taskStatus[t] \in Terminal => Forgotten(t)

\* The tasks of r that have this status.
InStatus(r, status) == {t \in RunTasks(r) : taskStatus[t] = status}

CountersExact ==
    \A r \in Runs : /\ completedTasks[r] = Cardinality(InStatus(r, "completed"))
                    /\ failedTasks[r] = Cardinality(InStatus(r, "failed"))

ContractInv ==
    /\ NothingToReclaim
    /\ OnePlace
    /\ FinishedIsForgotten
    /\ CountersExact
    /\ RunCompletionSound

\* Without an outage or a restart of the backend, only tasks that have not been
\* executed are leaked: those a worker found missing and those that were not sent.
LeakedIsForgotten ==
    \A t \in leaked :
        /\ Forgotten(t)
        /\ taskStatus[t] # "retrying"
        /\ t \in unsent => creation[RunOf[t]] \notin {"new", "enqueuing"}
=============================================================================
