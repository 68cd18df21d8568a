-------------------------- MODULE TaskPipelineProofs --------------------------
(***************************************************************************)
(* Theorems about the pipeline, for any finite set of tasks, any runs, any *)
(* number of workers, any capacity and retry limit, any set and number of  *)
(* failures.                                                               *)
(***************************************************************************)
EXTENDS TaskPipeline, FiniteSetTheorems, TLAPS

-----------------------------------------------------------------------------
(* Type correctness *)

\* The image of a finite set of jobs is finite: the outcomes of a batch.
LEMMA OutcomesType ==
    ASSUME TypeOK, Bookkeeping, NEW w \in Workers
    PROVE  /\ Outcomes(w) \subseteq Outcome
           /\ IsFiniteSet(Outcomes(w))
<1> DEFINE S == {k \in JobsOf(w) : k.stage \in Written}
           f == [j \in S |-> OutcomeOf(j)]
<1>1. \A j \in S : OutcomeOf(j) \in Outcome
  BY DEF TypeOK, WorkerTypeOK, StreamTypeOK, Bookkeeping, JobsOf, Job, OutcomeOf, Outcome,
         TaskOf, Written, Terminal
<1>2. IsFiniteSet(S)
  <2>1. S \in SUBSET jobs
    BY DEF JobsOf
  <2> QED
    BY <2>1, FS_Subset DEF TypeOK, WorkerTypeOK
<1>3. f \in Surjection(S, Outcomes(w))
  BY DEF Surjection, Outcomes
<1> QED
  BY <1>1, <1>2, <1>3, FS_Surjection DEF Outcomes

\* Every counter increment of a finite batch is a natural number.
LEMMA DeltaType ==
    ASSUME NEW outs, IsFiniteSet(outs), NEW r, NEW status
    PROVE  Delta(outs, r, status) \in Nat
<1>1. {o \in outs : RunOf[o.task] = r /\ o.status = status} \in SUBSET outs
  OBVIOUS
<1> QED
  BY <1>1, FS_Subset, FS_CardinalityType DEF Delta

\* write_batch keeps the types of the rows.
LEMMA WriteBatchType ==
    ASSUME StoreTypeOK, NEW outs \in SUBSET Outcome, IsFiniteSet(outs), WriteBatch(outs)
    PROVE  StoreTypeOK'
<1>1. PICK final \in [TouchedTasks(outs) -> LastOutcomes(outs)] :
         /\ taskStatus' = [t \in Tasks |->
               IF t \in TouchedTasks(outs) THEN final[t].status ELSE taskStatus[t]]
         /\ retryCount' = [t \in Tasks |->
               IF t \in TouchedTasks(outs) THEN OutcomeRetryCount(final[t]) ELSE retryCount[t]]
         /\ \A t \in TouchedTasks(outs) : final[t].task = t
  BY DEF WriteBatch
<1>2. \A t \in TouchedTasks(outs) : final[t] \in Outcome
  BY DEF LastOutcomes
<1>3. \A o \in Outcome : /\ o.status \in TaskStatus
                         /\ OutcomeRetryCount(o) \in Nat
  BY DEF Outcome, OutcomeRetryCount, TaskStatus, Open, Terminal
<1>4. taskStatus' \in [Tasks -> TaskStatus] /\ retryCount' \in [Tasks -> Nat]
  BY <1>1, <1>2, <1>3 DEF StoreTypeOK
<1>5. results' \subseteq Result
  <2>1. \A o \in outs : RequestResult(o) \in Result
    BY DEF Outcome, RequestResult, Result
  <2> QED
    BY <2>1 DEF WriteBatch, StoreTypeOK
<1>6. completedTasks' \in [Runs -> Nat] /\ failedTasks' \in [Runs -> Nat]
  BY DeltaType DEF WriteBatch, StoreTypeOK
<1>7. runStatus' \in [Runs -> RunStatus]
  BY DEF WriteBatch, StoreTypeOK, RunStatus
<1> QED
  BY <1>4, <1>5, <1>6, <1>7 DEF StoreTypeOK

\* XADD, XREADGROUP and XACK keep the type of the stream.
LEMMA StreamStepType ==
    ASSUME StreamTypeOK,
           \/ \E t \in Tasks : Enqueue(t)
           \/ ReadGroup(Capacity)
           \/ \E ids : Ack(ids)
           \/ UNCHANGED streamVars
    PROVE  /\ StreamTypeOK'
           /\ lastDelivered' >= lastDelivered
           /\ \A e \in 1..Len(stream) : stream'[e] = stream[e]
           /\ Len(stream') >= Len(stream)
<1>1. CASE \E t \in Tasks : Enqueue(t)
  BY <1>1 DEF StreamTypeOK, Enqueue
<1>2. CASE ReadGroup(Capacity)
  <2>1. lastDelivered' \in lastDelivered..Len(stream)
    BY <1>2, WorkerAssumption DEF StreamTypeOK, ReadGroup
  <2>2. Batch(Capacity) \subseteq 1..lastDelivered'
    BY <1>2, WorkerAssumption DEF StreamTypeOK, ReadGroup, Batch, Undelivered
  <2>3. stream' = stream /\ pel' = pel \cup Batch(Capacity)
    BY <1>2 DEF ReadGroup
  <2>4. Len(stream) \in Nat /\ lastDelivered \in Nat /\ pel \subseteq 1..lastDelivered
    BY DEF StreamTypeOK
  <2>5. lastDelivered' \in 0..Len(stream) /\ lastDelivered' >= lastDelivered
    BY <2>1, <2>4
  <2>6. pel \subseteq 1..lastDelivered'
    BY <2>4, <2>5
  <2>7. pel' \subseteq 1..lastDelivered'
    BY <2>2, <2>3, <2>6
  <2> QED
    BY <2>3, <2>4, <2>5, <2>7 DEF StreamTypeOK
<1>3. CASE \E ids : Ack(ids)
  <2>1. stream' = stream /\ lastDelivered' = lastDelivered /\ pel' \subseteq pel
    BY <1>3 DEF Ack
  <2> QED
    BY <2>1 DEF StreamTypeOK
<1>4. CASE UNCHANGED streamVars
  BY <1>4 DEF StreamTypeOK, streamVars
<1> QED
  BY <1>1, <1>2, <1>3, <1>4

\* A job that moves to another stage.
LEMMA MoveToType ==
    ASSUME WorkerTypeOK, NEW j \in jobs, NEW stage \in Stage, NEW seen \in Nat,
           MoveTo(j, stage, seen)
    PROVE  jobs' \subseteq Job /\ IsFiniteSet(jobs')
<1>1. [j EXCEPT !.stage = stage, !.seen = seen] \in Job
  BY DEF WorkerTypeOK, Job
<1>2. jobs' \subseteq Job
  BY <1>1 DEF WorkerTypeOK, MoveTo
<1>3. IsFiniteSet(jobs')
  BY FS_AddElement, FS_RemoveElement DEF WorkerTypeOK, MoveTo
<1> QED
  BY <1>2, <1>3

\* A batch of jobs just read.
LEMMA ConsumeType ==
    ASSUME TypeOK, NEW w \in Workers, Consume(w)
    PROVE  jobs' \subseteq Job /\ IsFiniteSet(jobs')
<1> DEFINE job(e) == [worker |-> w, entry |-> e, stage |-> "fetched", seen |-> 0]
           f == [e \in Batch(Capacity) |-> job(e)]
           new == {job(e) : e \in Batch(Capacity)}
<1>1. jobs' = jobs \cup new
  BY DEF Consume
<1>2. Batch(Capacity) \in SUBSET Nat /\ \A e \in Batch(Capacity) : e <= Len(stream)
  BY DEF TypeOK, StreamTypeOK, Batch, Undelivered
<1>3. IsFiniteSet(Batch(Capacity))
  BY <1>2, FS_BoundedSetOfNaturals DEF TypeOK, StreamTypeOK
<1>4. f \in Surjection(Batch(Capacity), new)
  BY DEF Surjection
<1>5. IsFiniteSet(new)
  BY <1>3, <1>4, FS_Surjection
<1>6. IsFiniteSet(jobs')
  BY <1>1, <1>5, FS_Union DEF TypeOK, WorkerTypeOK
<1>7. new \subseteq Job
  BY <1>2 DEF Job, Stage, InProgress
<1> QED
  BY <1>1, <1>6, <1>7 DEF TypeOK, WorkerTypeOK

\* The task of a job.
LEMMA TaskOfType ==
    ASSUME TypeOK, Bookkeeping
    PROVE  \A j \in jobs : TaskOf(j) \in Tasks
BY DEF TypeOK, StreamTypeOK, Bookkeeping, TaskOf

\* The budget of failures.
LEMMA FaultsStepType ==
    ASSUME FaultsTypeOK, NoFault \/ \E kind : Fault(kind)
    PROVE  FaultsTypeOK'
<1>1. faultsLeft' = faultsLeft \/ (faultsLeft > 0 /\ faultsLeft' = faultsLeft - 1)
  BY DEF NoFault, Fault
<1> QED
  BY <1>1, FaultsAssumption DEF FaultsTypeOK

\* Creating, enqueuing and committing a run keeps the types.
LEMMA CreationTypeStep ==
    ASSUME TypeOK, Bookkeeping, CreationStep
    PROVE  TypeOK'
<1> USE DEF TypeOK
<1>1. /\ leaked' \subseteq Tasks
      /\ RetryTypeOK' /\ WorkerTypeOK' /\ SweeperTypeOK'
  BY DEF CreationStep, Leak, RunTasks, retryVars, RetryTypeOK, workerVars, WorkerTypeOK,
         SweeperTypeOK, EnqueueTaskFails, CreationTypeOK
<1>2. \/ \E t \in Tasks : Enqueue(t)
      \/ UNCHANGED streamVars
  BY DEF CreationStep, StartRun, EnqueueTask, EnqueueTaskFails, CommitRun, CommitRunFails
<1>3. StreamTypeOK' /\ lastDelivered' = lastDelivered
  BY <1>2, StreamStepType DEF Enqueue, streamVars
<1>4. ReclaimTypeOK'
  BY <1>3 DEF CreationStep, ReclaimTypeOK, reclaimVars
<1>5. CreationTypeOK'
  BY DEF CreationStep, CreationTypeOK, StartRun, EnqueueTask, EnqueueTaskFails, CommitRun,
         CommitRunFails
<1>6. FaultsTypeOK'
  BY FaultsStepType DEF CreationStep, StartRun, EnqueueTask, EnqueueTaskFails, CommitRun,
         CommitRunFails
<1>7. StoreTypeOK'
  <2>1. CASE UNCHANGED storeVars
    BY <2>1 DEF storeVars, StoreTypeOK
  <2>2. CASE \E r \in Runs : CommitRun(r)
    BY <2>2 DEF CommitRun, InsertRun, StoreTypeOK, TaskStatus, Open, RunStatus
  <2> QED
    BY <2>1, <2>2 DEF CreationStep, StartRun, EnqueueTask, EnqueueTaskFails, CommitRunFails
<1> QED
  BY <1>1, <1>3, <1>4, <1>5, <1>6, <1>7

\* Every step of a worker, its crash included, keeps the types.
LEMMA WorkerTypeStep ==
    ASSUME TypeOK, Bookkeeping, NEW w \in Workers, WorkerStep(w)
    PROVE  TypeOK'
<1> USE DEF TypeOK
<1>1. CreationTypeOK' /\ SweeperTypeOK'
  BY DEF WorkerStep, creationVars, CreationTypeOK, SweeperTypeOK
<1>2. CASE \E j \in JobsOf(w) : ProcessStep(j)
  <2>1. PICK j \in jobs : j.worker = w /\ ProcessStep(j)
    BY <1>2 DEF JobsOf
  <2>2. TaskOf(j) \in Tasks
    BY TaskOfType
  <2>3. UNCHANGED <<streamVars, storeVars, phase>>
    BY <2>1 DEF ProcessStep, ReadMissing, ReadTask, Throttle, Succeed, FailAndRetry, FailForGood,
                ProcessError
  <2>4. StreamTypeOK' /\ StoreTypeOK' /\ ReclaimTypeOK'
    BY <2>3, WorkerStep(w) DEF WorkerStep, reclaimVars, streamVars, storeVars, StreamTypeOK,
                StoreTypeOK, ReclaimTypeOK
  <2>5. leaked' \subseteq Tasks
    BY <2>1, <2>2 DEF ProcessStep, Leak
  <2>6. FaultsTypeOK'
    BY <2>1, FaultsStepType DEF ProcessStep, ReadMissing, ReadTask, Throttle, Succeed,
                FailAndRetry, FailForGood, ProcessError
  <2>7. \E stage \in Stage, seen \in Nat : MoveTo(j, stage, seen)
    <3>1. j.seen \in Nat /\ retryCount[TaskOf(j)] \in Nat
      BY <2>2 DEF WorkerTypeOK, Job, StoreTypeOK
    <3> QED
      BY <2>1, <3>1 DEF ProcessStep, ReadMissing, ReadTask, Throttle, Succeed, FailAndRetry,
                FailForGood, ProcessError, Stage, InProgress, Written
  <2>8. jobs' \subseteq Job /\ IsFiniteSet(jobs')
    BY <2>7, MoveToType
  <2>9. RetryTypeOK' /\ context' \subseteq Tasks
    BY <2>1, <2>2 DEF ProcessStep, ReadMissing, ReadTask, Throttle, Succeed, FailAndRetry,
                FailForGood, ProcessError, ScheduleRetry, retryVars, RetryTypeOK, WorkerTypeOK
  <2> QED
    BY <1>1, <2>3, <2>4, <2>5, <2>6, <2>8, <2>9 DEF WorkerTypeOK
<1>3. CASE Consume(w) /\ Leak({})
  <2>1. StreamTypeOK' /\ lastDelivered' >= lastDelivered
    BY <1>3, StreamStepType DEF Consume
  <2>2. ReclaimTypeOK'
    BY <2>1, WorkerStep(w) DEF WorkerStep, reclaimVars, StreamTypeOK, ReclaimTypeOK
  <2>3. jobs' \subseteq Job /\ IsFiniteSet(jobs')
    BY <1>3, ConsumeType
  <2> QED
    BY <1>1, <1>3, <2>1, <2>2, <2>3, FaultsStepType DEF Consume, Leak, retryVars, storeVars,
       RetryTypeOK, StoreTypeOK, WorkerTypeOK
<1>4. ASSUME \/ WriteOutcomes(w)
             \/ WriteOutcomesFails(w)
             \/ AckBatch(w)
             \/ AckBatchFails(w)
             \/ CrashWorker(w),
             Leak({})
      PROVE  TypeOK'
  <2>1. \E ids : Ack(ids) \/ UNCHANGED streamVars
    BY <1>4 DEF WriteOutcomes, WriteOutcomesFails, AckBatch, AckBatchFails, CrashWorker
  <2>2. StreamTypeOK' /\ lastDelivered' = lastDelivered
    BY <2>1, StreamStepType DEF Ack, streamVars
  <2>3. ReclaimTypeOK'
    BY <2>2, WorkerStep(w) DEF WorkerStep, reclaimVars, ReclaimTypeOK
  <2>4. WriteBatch(Outcomes(w)) \/ UNCHANGED storeVars
    BY <1>4 DEF WriteOutcomes, WriteOutcomesFails, AckBatch, AckBatchFails, CrashWorker
  <2>5. StoreTypeOK'
    <3>1. CASE WriteBatch(Outcomes(w))
      BY <3>1, OutcomesType, WriteBatchType
    <3>2. CASE UNCHANGED storeVars
      BY <3>2 DEF storeVars, StoreTypeOK
    <3> QED
      BY <2>4, <3>1, <3>2
  <2>6. /\ jobs' \in SUBSET jobs
        /\ phase' \in [Workers -> {"idle", "processing", "acking"}]
        /\ UNCHANGED <<context, retryVars>>
    BY <1>4 DEF WriteOutcomes, WriteOutcomesFails, AckBatch, AckBatchFails, CrashWorker,
                EndCycle, WorkerTypeOK
  <2>7. IsFiniteSet(jobs')
    BY <2>6, FS_Subset DEF WorkerTypeOK
  <2>8. FaultsTypeOK'
    BY <1>4, FaultsStepType DEF WriteOutcomes, WriteOutcomesFails, AckBatch, AckBatchFails,
                CrashWorker
  <2> QED
    BY <1>1, <1>4, <2>2, <2>3, <2>5, <2>6, <2>7, <2>8 DEF Leak, retryVars, RetryTypeOK,
       WorkerTypeOK
<1> QED
  BY <1>2, <1>3, <1>4 DEF WorkerStep

\* Every step of the retry sweeper keeps the types.
LEMMA RetryTypeStep ==
    ASSUME TypeOK, Bookkeeping, RetryStep
    PROVE  TypeOK'
<1> USE DEF TypeOK
<1>1. StoreTypeOK' /\ CreationTypeOK' /\ WorkerTypeOK'
  BY DEF RetryStep, storeVars, creationVars, workerVars, StoreTypeOK, CreationTypeOK,
         WorkerTypeOK
<1>2. \/ \E t \in Tasks : Enqueue(t)
      \/ UNCHANGED streamVars
  BY DEF RetryStep, RetryScan, RetryPop, RetryPopReplyLost, RetryEnqueue, RetryEnqueueFails,
         RetryAbort, SweeperTypeOK
<1>3. StreamTypeOK' /\ lastDelivered' = lastDelivered
  BY <1>2, StreamStepType DEF Enqueue, streamVars
<1>4. ReclaimTypeOK'
  BY <1>3 DEF RetryStep, reclaimVars, ReclaimTypeOK
<1>5. RetryTypeOK' /\ SweeperTypeOK' /\ leaked' \subseteq Tasks
  BY DEF RetryStep, RetryScan, RetryPop, RetryPopReplyLost, RetryEnqueue, RetryEnqueueFails,
         RetryAbort, SweeperTypeOK, RetryTypeOK, ReadDue, RemoveDue, ScheduleRetry, retryVars, Leak
<1>6. FaultsTypeOK'
  BY FaultsStepType DEF RetryStep, RetryScan, RetryPop, RetryPopReplyLost, RetryEnqueue,
         RetryEnqueueFails, RetryAbort
<1> QED
  BY <1>1, <1>3, <1>4, <1>5, <1>6

\* Every step of the reclaim sweeper keeps the types.
LEMMA ReclaimTypeStep ==
    ASSUME TypeOK, Bookkeeping, ReclaimStep
    PROVE  TypeOK'
<1> USE DEF TypeOK
<1>1. StoreTypeOK' /\ CreationTypeOK' /\ WorkerTypeOK' /\ RetryTypeOK' /\ SweeperTypeOK'
      /\ leaked' \subseteq Tasks
  BY DEF ReclaimStep, storeVars, creationVars, workerVars, retryVars, StoreTypeOK,
         CreationTypeOK, WorkerTypeOK, RetryTypeOK, SweeperTypeOK, Leak
<1>2. \A e \in claimed : stream[e] \in Tasks
  BY DEF ReclaimTypeOK, StreamTypeOK
<1>3. \/ \E t \in Tasks : Enqueue(t)
      \/ \E ids : Ack(ids)
      \/ UNCHANGED streamVars
  BY <1>2 DEF ReclaimStep, ClaimStale, ReclaimEnqueue, ReclaimEnqueueFails, ReclaimAck,
         ReclaimAckFails
<1>4. StreamTypeOK' /\ lastDelivered' = lastDelivered
  BY <1>3, StreamStepType DEF Enqueue, Ack, streamVars
<1>5. ReclaimTypeOK'
  BY <1>4 DEF ReclaimStep, ClaimStale, ReclaimEnqueue, ReclaimEnqueueFails, ReclaimAck,
         ReclaimAckFails, ReclaimTypeOK, StreamTypeOK
<1>6. FaultsTypeOK'
  BY FaultsStepType DEF ReclaimStep, ClaimStale, ReclaimEnqueue, ReclaimEnqueueFails,
         ReclaimAck, ReclaimAckFails
<1> QED
  BY <1>1, <1>4, <1>5, <1>6

\* A restart of the backend keeps the types.
LEMMA CrashTypeStep ==
    ASSUME TypeOK, CrashBackend
    PROVE  TypeOK'
<1> USE DEF TypeOK
<1>1. StreamTypeOK' /\ StoreTypeOK' /\ WorkerTypeOK' /\ CreationTypeOK' /\ SweeperTypeOK'
  BY DEF CrashBackend, streamVars, storeVars, workerVars, StreamTypeOK, StoreTypeOK,
         WorkerTypeOK, CreationTypeOK, SweeperTypeOK
<1>2. RetryTypeOK' /\ ReclaimTypeOK' /\ leaked' \subseteq Tasks
  BY DEF CrashBackend, streamVars, RetryTypeOK, ReclaimTypeOK, SweeperTypeOK, Leak
<1>3. FaultsTypeOK'
  BY FaultsStepType DEF CrashBackend
<1> QED
  BY <1>1, <1>2, <1>3

\* Every step of the pipeline keeps the types.
LEMMA TypeStep ==
    ASSUME TypeOK, Bookkeeping, [Next]_vars
    PROVE  TypeOK'
<1>1. CASE UNCHANGED vars
  BY <1>1 DEF vars, streamVars, retryVars, storeVars, creationVars, workerVars, reclaimVars,
     TypeOK, StreamTypeOK, RetryTypeOK, StoreTypeOK, CreationTypeOK, WorkerTypeOK,
     SweeperTypeOK, ReclaimTypeOK, FaultsTypeOK
<1> QED
  BY <1>1, CreationTypeStep, WorkerTypeStep, RetryTypeStep, ReclaimTypeStep, CrashTypeStep
     DEF Next

-----------------------------------------------------------------------------
(* Where entries and jobs are *)

\* Only the workers touch the batches, and only consume advances the group.
LEMMA QuietFrame ==
    ASSUME CreationStep \/ RetryStep \/ ReclaimStep \/ CrashBackend
    PROVE  UNCHANGED <<jobs, phase, lastDelivered>>
BY DEF CreationStep, RetryStep, ReclaimStep, CrashBackend, workerVars, streamVars, StartRun,
   EnqueueTask, EnqueueTaskFails, CommitRun, CommitRunFails, RetryScan, RetryPop,
   RetryPopReplyLost, RetryEnqueue, RetryEnqueueFails, RetryAbort, ClaimStale, ReclaimEnqueue,
   ReclaimEnqueueFails, ReclaimAck, ReclaimAckFails, Enqueue, Ack

\* The job that a step of process_task leaves behind.
JobMoved(j, stage, seen) ==
    /\ MoveTo(j, stage, seen)
    /\ seen \in {0, j.seen, retryCount[TaskOf(j)]}
    /\ stage = "failed" => seen >= MaxRetries
    /\ stage \in Written => j.stage \in {"executing", "unresolved"}
    /\ stage \in {"executing", "unresolved"} =>
         /\ taskStatus[TaskOf(j)] # "none"
         /\ UnwrittenRetry(TaskOf(j), j.worker) => TaskOf(j) \in leaked'
    /\ stage \in {"deferred", "retrying"} => TaskOf(j) \in zset'
    /\ stage = "missing" => TaskOf(j) \in leaked'

\* What a step of process_task does to the batches.
LEMMA ProcessFrame ==
    ASSUME TypeOK, Bookkeeping, NEW j \in jobs, ProcessStep(j)
    PROVE  /\ UNCHANGED <<streamVars, storeVars, phase>>
           /\ zset \subseteq zset'
           /\ j.stage \in InProgress
           /\ \E stage \in Stage \ {"fetched"}, seen \in Nat : JobMoved(j, stage, seen)
<1>1. j.seen \in Nat /\ retryCount[TaskOf(j)] \in Nat /\ MaxRetries \in Nat
  BY TaskOfType, ModelsAssumption DEF TypeOK, WorkerTypeOK, Job, StoreTypeOK
<1>2. UNCHANGED <<streamVars, storeVars, phase>> /\ zset \subseteq zset'
  BY DEF ProcessStep, ReadMissing, ReadTask, Throttle, Succeed, FailAndRetry, FailForGood,
         ProcessError, ScheduleRetry, retryVars
<1>3. j.stage \in InProgress
  BY DEF ProcessStep, ReadMissing, ReadTask, Throttle, Succeed, FailAndRetry, FailForGood,
         ProcessError, InProgress
<1>4. CASE ReadMissing(j) /\ Leak({TaskOf(j)})
  <2>1. JobMoved(j, "missing", 0)
    BY <1>4 DEF ReadMissing, Leak, JobMoved, Written
  <2> QED
    BY <1>2, <1>3, <2>1 DEF Stage
<1>5. CASE ReadTask(j) /\ Leak({t \in {TaskOf(j)} : UnwrittenRetry(t, j.worker)})
  <2>1. JobMoved(j, "executing", retryCount[TaskOf(j)])
        \/ JobMoved(j, "unresolved", retryCount[TaskOf(j)])
    BY <1>5 DEF ReadTask, Leak, JobMoved, Written
  <2> QED
    BY <1>1, <1>2, <1>3, <2>1 DEF Stage, InProgress
<1>6. CASE Throttle(j)
  <2>1. JobMoved(j, "deferred", 0)
    BY <1>6 DEF Throttle, ScheduleRetry, JobMoved, Written
  <2> QED
    BY <1>2, <1>3, <2>1 DEF Stage
<1>7. CASE Succeed(j)
  <2>1. JobMoved(j, "completed", j.seen)
    BY <1>7 DEF Succeed, JobMoved, Written
  <2> QED
    BY <1>1, <1>2, <1>3, <2>1 DEF Stage, Written
<1>8. CASE FailAndRetry(j)
  <2>1. JobMoved(j, "retrying", j.seen)
    BY <1>8 DEF FailAndRetry, ScheduleRetry, JobMoved, Written
  <2> QED
    BY <1>1, <1>2, <1>3, <2>1 DEF Stage, Written
<1>9. CASE FailForGood(j)
  <2>1. j.seen >= MaxRetries
    BY <1>1, <1>9 DEF FailForGood
  <2>2. JobMoved(j, "failed", j.seen)
    BY <1>9, <2>1 DEF FailForGood, JobMoved, Written
  <2> QED
    BY <1>1, <1>2, <1>3, <2>2 DEF Stage, Written
<1>10. CASE ProcessError(j)
  <2>1. JobMoved(j, "error", j.seen)
    BY <1>10 DEF ProcessError, JobMoved, Written
  <2> QED
    BY <1>1, <1>2, <1>3, <2>1 DEF Stage
<1> QED
  BY <1>4, <1>5, <1>6, <1>7, <1>8, <1>9, <1>10 DEF ProcessStep

\* The three ways the batches change.
LEMMA JobsChange ==
    ASSUME [Next]_vars
    PROVE  \/ jobs' \subseteq jobs
           \/ \E w \in Workers : Consume(w)
           \/ \E j \in jobs : ProcessStep(j)
<1>1. ASSUME NEW w \in Workers, WorkerStep(w)
      PROVE  jobs' \subseteq jobs \/ Consume(w) \/ \E j \in jobs : ProcessStep(j)
  BY <1>1 DEF WorkerStep, JobsOf, WriteOutcomes, WriteOutcomesFails, AckBatch, AckBatchFails,
     CrashWorker, EndCycle
<1>2. CASE CreationStep \/ RetryStep \/ ReclaimStep \/ CrashBackend
  BY <1>2, QuietFrame
<1>3. CASE UNCHANGED vars
  BY <1>3 DEF vars, workerVars
<1> QED
  BY <1>1, <1>2, <1>3 DEF Next

\* XREADGROUP hands out only entries that are in no batch, so cursor, pending list and
\* batches stay consistent and no entry comes to be in two of them.
LEMMA BookkeepingStep ==
    ASSUME TypeOK, Bookkeeping, EntryHeldOnce, [Next]_vars
    PROVE  Bookkeeping' /\ EntryHeldOnce'
<1> DEFINE JobsOK == /\ \A j \in jobs : /\ j.entry \in 1..lastDelivered
                                        /\ phase[j.worker] # "idle"
                                        /\ phase[j.worker] = "acking" => j.stage \notin InProgress
                     /\ EntryHeldOnce
<1>1. due' # {} => popped' = {}
  BY DEF Bookkeeping, Next, vars, retryVars, CreationStep, WorkerStep, RetryStep, ReclaimStep,
     CrashBackend, RetryScan, RetryPop, RetryPopReplyLost, RetryEnqueue, RetryEnqueueFails,
     RetryAbort, ReadDue, RemoveDue, ScheduleRetry, ProcessStep, ReadMissing, ReadTask, Throttle,
     Succeed, FailAndRetry, FailForGood, ProcessError, Consume, WriteOutcomes, WriteOutcomesFails,
     AckBatch, AckBatchFails, CrashWorker, EndCycle
<1>2. CASE UNCHANGED <<jobs, phase, lastDelivered>>
  BY <1>1, <1>2 DEF Bookkeeping, EntryHeldOnce
<1>3. ASSUME NEW w \in Workers, WorkerStep(w)
      PROVE  JobsOK'
  <2>1. CASE \E j \in JobsOf(w) : ProcessStep(j)
    <3>1. PICK j \in jobs : j.worker = w /\ ProcessStep(j)
      BY <2>1 DEF JobsOf
    <3>2. PICK stage \in Stage, seen \in Nat : MoveTo(j, stage, seen)
      BY <3>1, ProcessFrame DEF JobMoved
    <3>3. UNCHANGED <<phase, lastDelivered>> /\ j.stage \in InProgress
      BY <3>1, ProcessFrame DEF streamVars
    <3>4. phase[j.worker] # "acking"
      BY <3>3 DEF Bookkeeping
    <3>5. \A i \in jobs' : \/ i \in jobs /\ i # j
                           \/ i = [j EXCEPT !.stage = stage, !.seen = seen]
      BY <3>2 DEF MoveTo
    <3>6. \A i : i = [j EXCEPT !.stage = stage, !.seen = seen] =>
                    i.worker = j.worker /\ i.entry = j.entry
      BY DEF TypeOK, WorkerTypeOK, Job
    <3> QED
      BY <3>3, <3>4, <3>5, <3>6 DEF Bookkeeping, EntryHeldOnce
  <2>2. CASE Consume(w)
    <3>1. \A i \in jobs' :
            \/ i \in jobs
            \/ \E e \in Batch(Capacity) :
                  i = [worker |-> w, entry |-> e, stage |-> "fetched", seen |-> 0]
      BY <2>2 DEF Consume
    <3>2. Batch(Capacity) \subseteq (lastDelivered + 1)..lastDelivered'
      BY <2>2, WorkerAssumption DEF TypeOK, StreamTypeOK, Consume, ReadGroup, Batch, Undelivered
    <3>3. /\ phase' = [phase EXCEPT ![w] = "processing"]
          /\ phase[w] = "idle"
          /\ lastDelivered \in Nat /\ lastDelivered' \in Nat /\ lastDelivered' >= lastDelivered
      BY <2>2, StreamStepType DEF TypeOK, StreamTypeOK, Consume
    <3>4. \A i \in jobs : i.worker \in Workers /\ i.entry \in 1..lastDelivered
      BY DEF TypeOK, WorkerTypeOK, Job, Bookkeeping
    <3> QED
      BY <3>1, <3>2, <3>3, <3>4 DEF TypeOK, WorkerTypeOK, Bookkeeping, EntryHeldOnce
  <2>3. CASE WriteOutcomes(w)
    BY <2>3 DEF WriteOutcomes, streamVars, BatchDone, JobsOf, Bookkeeping, EntryHeldOnce, TypeOK,
       WorkerTypeOK, Job
  <2>4. CASE EndCycle(w) /\ UNCHANGED lastDelivered
    BY <2>4 DEF EndCycle, JobsOf, Bookkeeping, EntryHeldOnce, TypeOK, WorkerTypeOK, Job
  <2> QED
    BY <1>3, <2>1, <2>2, <2>3, <2>4 DEF WorkerStep, WriteOutcomesFails, AckBatch, AckBatchFails,
       CrashWorker, Ack, streamVars
<1>4. ASSUME NEW w \in Workers, WorkerStep(w)
      PROVE  Bookkeeping' /\ EntryHeldOnce'
  BY <1>1, <1>3, <1>4 DEF Bookkeeping
<1> QED
  BY <1>2, <1>4, QuietFrame DEF Next, vars, streamVars, workerVars

-----------------------------------------------------------------------------
(* Attempts on record *)

\* No step takes back a result, or changes what an entry refers to.
LEMMA LogsGrow ==
    ASSUME TypeOK, Bookkeeping, [Next]_vars
    PROVE  /\ results \subseteq results'
           /\ \A e \in 1..Len(stream) : stream'[e] = stream[e]
           /\ Len(stream') >= Len(stream)
           /\ lastDelivered' >= lastDelivered
<1>1. results \subseteq results'
  BY DEF Next, vars, storeVars, CreationStep, WorkerStep, RetryStep, ReclaimStep,
     CrashBackend, ProcessStep, ReadMissing, ReadTask, Throttle, Succeed, FailAndRetry, FailForGood,
     ProcessError, Consume, WriteOutcomes, WriteOutcomesFails, AckBatch, AckBatchFails, CrashWorker,
     StartRun, EnqueueTask, EnqueueTaskFails, CommitRun, CommitRunFails, InsertRun, WriteBatch
<1>2. \A e \in claimed : stream[e] \in Tasks
  BY DEF TypeOK, ReclaimTypeOK, StreamTypeOK
<1>3. \/ \E t \in Tasks : Enqueue(t)
      \/ ReadGroup(Capacity)
      \/ \E ids : Ack(ids)
      \/ UNCHANGED streamVars
  <2>1. CASE CreationStep
    BY <2>1 DEF CreationStep, StartRun, EnqueueTask, EnqueueTaskFails, CommitRun, CommitRunFails
  <2>2. CASE \E w \in Workers : WorkerStep(w)
    BY <2>2 DEF WorkerStep, ProcessStep, ReadMissing, ReadTask, Throttle, Succeed, FailAndRetry,
       FailForGood, ProcessError, Consume, WriteOutcomes, WriteOutcomesFails, AckBatch,
       AckBatchFails, CrashWorker
  <2>3. CASE RetryStep
    BY <2>3 DEF RetryStep, RetryScan, RetryPop, RetryPopReplyLost, RetryEnqueue,
       RetryEnqueueFails, RetryAbort, TypeOK, SweeperTypeOK
  <2>4. CASE ReclaimStep
    BY <1>2, <2>4 DEF ReclaimStep, ClaimStale, ReclaimEnqueue, ReclaimEnqueueFails, ReclaimAck,
       ReclaimAckFails
  <2>5. CASE CrashBackend \/ UNCHANGED vars
    BY <2>5 DEF CrashBackend, vars
  <2> QED
    BY <2>1, <2>2, <2>3, <2>4, <2>5 DEF Next
<1> QED
  BY <1>1, <1>3, StreamStepType DEF TypeOK

\* What write_batch leaves in the row of a task is an outcome of the batch.
LEMMA WriteBatchRow ==
    ASSUME NEW outs, WriteBatch(outs), NEW t \in Tasks
    PROVE  \/ /\ \A o \in outs : o.task # t
              /\ taskStatus'[t] = taskStatus[t]
              /\ retryCount'[t] = retryCount[t]
           \/ \E o \in outs :
                /\ o.task = t
                /\ taskStatus'[t] = o.status
                /\ retryCount'[t] = OutcomeRetryCount(o)
<1>1. PICK final \in [TouchedTasks(outs) -> LastOutcomes(outs)] :
         /\ taskStatus' = [s \in Tasks |->
               IF s \in TouchedTasks(outs) THEN final[s].status ELSE taskStatus[s]]
         /\ retryCount' = [s \in Tasks |->
               IF s \in TouchedTasks(outs) THEN OutcomeRetryCount(final[s]) ELSE retryCount[s]]
         /\ \A s \in TouchedTasks(outs) : final[s].task = s
  BY DEF WriteBatch
<1>2. CASE t \in TouchedTasks(outs)
  BY <1>1, <1>2 DEF LastOutcomes
<1>3. CASE t \notin TouchedTasks(outs)
  BY <1>1, <1>3 DEF TouchedTasks
<1> QED
  BY <1>2, <1>3

\* Writing a batch records the failure that each new retry_count counts.
LEMMA WriteHistory ==
    ASSUME TypeOK, Bookkeeping, AttemptHistory, FailedAfterAllAttempts,
           NEW w \in Workers, WriteBatch(Outcomes(w)), NEW t \in Tasks
    PROVE  /\ FailedUpTo(t, retryCount[t])'
           /\ taskStatus'[t] = "failed" => FailedUpTo(t, MaxRetries + 1)'
<1>1. results' = results \cup {RequestResult(o) : o \in Outcomes(w)}
  BY DEF WriteBatch
<1>2. CASE taskStatus'[t] = taskStatus[t] /\ retryCount'[t] = retryCount[t]
  BY <1>1, <1>2 DEF AttemptHistory, FailedAfterAllAttempts, FailedUpTo
<1>3. ASSUME NEW j \in jobs, j.stage \in Written, TaskOf(j) = t, OutcomeOf(j) \in Outcomes(w),
             taskStatus'[t] = j.stage, retryCount'[t] = OutcomeRetryCount(OutcomeOf(j))
      PROVE  /\ FailedUpTo(t, retryCount[t])'
             /\ taskStatus'[t] = "failed" => FailedUpTo(t, MaxRetries + 1)'
  <2>1. j.seen \in Nat /\ FailedUpTo(t, j.seen) /\ MaxRetries \in Nat
    BY <1>3, ModelsAssumption DEF TypeOK, WorkerTypeOK, Job, AttemptHistory
  <2>2. CASE j.stage = "completed"
    <3>1. retryCount'[t] = j.seen
      BY <1>3, <2>1, <2>2 DEF OutcomeRetryCount, OutcomeOf
    <3> QED
      BY <1>1, <1>3, <2>1, <2>2, <3>1 DEF FailedUpTo
  <2>3. CASE j.stage # "completed"
    <3>1. retryCount'[t] = j.seen + 1
      BY <1>3, <2>1, <2>3 DEF OutcomeRetryCount, OutcomeOf
    <3>2. [task |-> t, attempt |-> j.seen + 1, passed |-> FALSE] \in results'
      <4>1. RequestResult(OutcomeOf(j)) = [task |-> t, attempt |-> j.seen + 1, passed |-> FALSE]
        BY <1>3, <2>3 DEF RequestResult, OutcomeOf
      <4> QED
        BY <1>1, <1>3, <4>1
    <3>3. \A k \in 1..(j.seen + 1) : [task |-> t, attempt |-> k, passed |-> FALSE] \in results'
      <4>1. \A k \in 1..(j.seen + 1) : k \in 1..j.seen \/ k = j.seen + 1
        BY <2>1
      <4> QED
        BY <1>1, <2>1, <3>2, <4>1 DEF FailedUpTo
    <3>4. j.stage = "failed" => 1..(MaxRetries + 1) \subseteq 1..(j.seen + 1)
      BY <1>3, <2>1 DEF AttemptHistory
    <3> QED
      BY <1>3, <3>1, <3>3, <3>4 DEF FailedUpTo
  <2> QED
    BY <2>2, <2>3
<1>4. \A o \in Outcomes(w) : \E j \in jobs : j.stage \in Written /\ o = OutcomeOf(j)
  BY DEF Outcomes, JobsOf
<1>5. \A j \in jobs : OutcomeOf(j).task = TaskOf(j) /\ OutcomeOf(j).status = j.stage
  BY DEF OutcomeOf
<1> QED
  BY <1>2, <1>3, <1>4, <1>5, WriteBatchRow

\* The three ways the rows change.
LEMMA StoreChange ==
    ASSUME [Next]_vars
    PROVE  \/ UNCHANGED storeVars
           \/ \E w \in Workers : WriteBatch(Outcomes(w))
           \/ \E r \in Runs : CommitRun(r) /\ InsertRun(r)
BY DEF Next, vars, CreationStep, WorkerStep, RetryStep, ReclaimStep, CrashBackend, ProcessStep,
   ReadMissing, ReadTask, Throttle, Succeed, FailAndRetry, FailForGood, ProcessError, Consume,
   WriteOutcomes, WriteOutcomesFails, AckBatch, AckBatchFails, CrashWorker, StartRun, EnqueueTask,
   EnqueueTaskFails, CommitRun, CommitRunFails

\* An attempt's outcome is written with its number, so the results of all earlier
\* attempts stay on record whatever is executed twice.
LEMMA HistoryStep ==
    ASSUME TypeOK, Bookkeeping, AttemptHistory, FailedAfterAllAttempts, [Next]_vars
    PROVE  AttemptHistory' /\ FailedAfterAllAttempts'
<1> DEFINE JobHistory == /\ \A j \in jobs : FailedUpTo(TaskOf(j), j.seen)
                         /\ \A j \in jobs : j.stage = "failed" => j.seen >= MaxRetries
<1>1. \A t, n : FailedUpTo(t, n) => FailedUpTo(t, n)'
  BY LogsGrow DEF FailedUpTo
<1>2. \A j \in jobs : TaskOf(j)' = TaskOf(j) /\ TaskOf(j) \in Tasks
  BY LogsGrow, TaskOfType DEF TaskOf, Bookkeeping, TypeOK, StreamTypeOK
<1>3. /\ \A t \in Tasks : FailedUpTo(t, retryCount[t])'
      /\ FailedAfterAllAttempts'
  <2>1. CASE UNCHANGED <<retryCount, results>> /\ \A t \in Tasks : taskStatus'[t] = "failed" => taskStatus[t] = "failed"
    BY <2>1, <1>1 DEF AttemptHistory, FailedAfterAllAttempts, FailedUpTo
  <2>2. CASE \E w \in Workers : WriteBatch(Outcomes(w))
    BY <2>2, WriteHistory DEF FailedAfterAllAttempts
  <2> QED
    BY <2>1, <2>2, StoreChange DEF storeVars, InsertRun
<1>4. JobHistory'
  <2>1. CASE jobs' \subseteq jobs
    BY <2>1, <1>1, <1>2 DEF AttemptHistory, FailedUpTo
  <2>2. ASSUME NEW w \in Workers, Consume(w)
        PROVE  JobHistory'
    <3>1. \A i \in jobs' : i \in jobs \/ (i.seen = 0 /\ i.stage = "fetched")
      BY <2>2 DEF Consume
    <3> QED
      BY <3>1, <1>1, <1>2 DEF AttemptHistory, FailedUpTo
  <2>3. ASSUME NEW j \in jobs, ProcessStep(j)
        PROVE  JobHistory'
    <3>1. PICK stage \in Stage, seen \in Nat :
             /\ MoveTo(j, stage, seen)
             /\ seen \in {0, j.seen, retryCount[TaskOf(j)]}
             /\ stage = "failed" => seen >= MaxRetries
      BY <2>3, ProcessFrame DEF JobMoved
    <3>2. \A i \in jobs' : i \in jobs \/ i = [j EXCEPT !.stage = stage, !.seen = seen]
      BY <3>1 DEF MoveTo
    <3>3. \A i : i = [j EXCEPT !.stage = stage, !.seen = seen] =>
                    i.entry = j.entry /\ i.seen = seen /\ i.stage = stage
      BY DEF TypeOK, WorkerTypeOK, Job
    <3>4. FailedUpTo(TaskOf(j), seen)
      BY <1>2, <3>1 DEF AttemptHistory, FailedUpTo
    <3>5. \A i : i.entry = j.entry => TaskOf(i)' = TaskOf(j)
      BY <1>2 DEF TaskOf
    <3> QED
      BY <3>1, <3>2, <3>3, <3>4, <3>5, <1>1, <1>2 DEF AttemptHistory, FailedUpTo
  <2> QED
    BY <2>1, <2>2, <2>3, JobsChange
<1> QED
  BY <1>3, <1>4 DEF AttemptHistory

-----------------------------------------------------------------------------
(* Rows and the stream *)

\* leaked only grows, unsent only shrinks, and a visible row stays visible.
LEMMA SentMonotone ==
    ASSUME TypeOK, Bookkeeping, [Next]_vars
    PROVE  /\ leaked \subseteq leaked'
           /\ unsent' \subseteq unsent
           /\ \A t \in Tasks : taskStatus[t] # "none" => taskStatus'[t] # "none"
<1>1. leaked \subseteq leaked'
  BY DEF Next, vars, CreationStep, WorkerStep, ProcessStep, RetryStep, ReclaimStep, CrashBackend,
     Leak
<1>2. unsent' \subseteq unsent
  BY DEF Next, vars, creationVars, CreationStep, WorkerStep, RetryStep, ReclaimStep, CrashBackend,
     StartRun, EnqueueTask, EnqueueTaskFails, CommitRun, CommitRunFails
<1>3. ASSUME NEW t \in Tasks, taskStatus[t] # "none"
      PROVE  taskStatus'[t] # "none"
  <2>1. CASE UNCHANGED storeVars
    BY <1>3, <2>1 DEF storeVars
  <2>2. CASE \E w \in Workers : WriteBatch(Outcomes(w))
    <3>1. PICK w \in Workers : WriteBatch(Outcomes(w))
      BY <2>2
    <3>2. \A o \in Outcomes(w) : o.status # "none"
      BY OutcomesType DEF Outcome, Terminal
    <3> QED
      BY <1>3, <3>1, <3>2, WriteBatchRow
  <2>3. CASE \E r \in Runs : InsertRun(r)
    BY <1>3, <2>3 DEF InsertRun, TypeOK, StoreTypeOK
  <2> QED
    BY <2>1, <2>2, <2>3, StoreChange
<1> QED
  BY <1>1, <1>2, <1>3

\* A run is committed only after all of its tasks were put on the stream, or leaked.
LEMMA SentStep ==
    ASSUME TypeOK, Bookkeeping, CommittedSent, [Next]_vars
    PROVE  CommittedSent'
<1>1. \A j \in jobs : TaskOf(j)' = TaskOf(j) /\ TaskOf(j) \in Tasks
  BY LogsGrow, TaskOfType DEF TaskOf, Bookkeeping, TypeOK, StreamTypeOK
<1> DEFINE past == Written \cup {"executing", "unresolved"}
<1>2. ASSUME NEW j \in jobs', j.stage \in past
      PROVE  (taskStatus[TaskOf(j)] # "none")'
  <2>1. CASE j \in jobs
    BY <1>1, <1>2, <2>1, SentMonotone DEF CommittedSent, TaskOf
  <2>2. CASE j \notin jobs /\ \E w \in Workers : Consume(w)
    BY <1>2, <2>2 DEF Consume, Written
  <2>3. CASE j \notin jobs /\ \E i \in jobs : ProcessStep(i)
    <3>1. PICK i \in jobs : ProcessStep(i)
      BY <2>3
    <3>2. PICK stage \in Stage, seen \in Nat :
             /\ MoveTo(i, stage, seen)
             /\ i.stage \in InProgress
             /\ stage \in Written => i.stage \in {"executing", "unresolved"}
             /\ stage \in {"executing", "unresolved"} => taskStatus[TaskOf(i)] # "none"
      BY <3>1, ProcessFrame DEF JobMoved
    <3>3. j.entry = i.entry /\ j.stage = stage
      BY <2>3, <3>2 DEF MoveTo, TypeOK, WorkerTypeOK, Job
    <3>4. taskStatus[TaskOf(i)] # "none"
      BY <1>2, <3>2, <3>3 DEF CommittedSent, InProgress
    <3> QED
      BY <1>1, <3>3, <3>4, SentMonotone DEF TaskOf
  <2> QED
    BY <2>1, <2>2, <2>3, JobsChange
<1>3. ASSUME NEW t \in Tasks, taskStatus'[t] # "none"
      PROVE  creation'[RunOf[t]] = "committed" /\ t \notin unsent' \ leaked'
  <2>1. CASE taskStatus[t] # "none"
    <3>1. creation[RunOf[t]] = "committed" /\ RunOf[t] \in Runs
      BY <2>1, ModelsAssumption DEF CommittedSent
    <3>2. creation'[RunOf[t]] = "committed"
      BY <3>1 DEF Next, vars, creationVars, CreationStep, WorkerStep, RetryStep, ReclaimStep,
         CrashBackend, StartRun, EnqueueTask, EnqueueTaskFails, CommitRun, CommitRunFails, TypeOK,
         CreationTypeOK
    <3> QED
      BY <2>1, <3>2, SentMonotone DEF CommittedSent
  <2>2. CASE taskStatus[t] = "none" /\ \E w \in Workers : WriteBatch(Outcomes(w))
    <3>1. PICK w \in Workers : WriteBatch(Outcomes(w))
      BY <2>2
    <3>2. \A o \in Outcomes(w) : taskStatus[o.task] # "none"
      BY DEF Outcomes, OutcomeOf, JobsOf, CommittedSent
    <3> QED
      BY <1>3, <2>2, <3>1, <3>2, WriteBatchRow
  <2>3. ASSUME taskStatus[t] = "none", NEW r \in Runs, CommitRun(r)
        PROVE  creation'[RunOf[t]] = "committed" /\ t \notin unsent' \ leaked'
    <3>1. RunOf[t] = r
      BY <1>3, <2>3 DEF CommitRun, InsertRun
    <3>2. Unsent(r) \subseteq leaked
      BY <2>3 DEF CommitRun, CommittedSent
    <3> QED
      BY <2>3, <3>1, <3>2, SentMonotone DEF CommitRun, Unsent, RunTasks, TypeOK, CreationTypeOK
  <2>4. CASE taskStatus[t] = "none" /\ UNCHANGED storeVars
    BY <1>3, <2>4 DEF storeVars
  <2> QED
    BY <2>1, <2>2, <2>3, <2>4, StoreChange
<1>4. ASSUME NEW r \in Runs, creation'[r] = "swallowed"
      PROVE  Unsent(r)' \subseteq leaked'
  <2>1. CASE creation[r] = "swallowed"
    BY <2>1, SentMonotone DEF CommittedSent, Unsent
  <2>2. CASE creation[r] # "swallowed"
    <3>1. PICK t \in Tasks : EnqueueTaskFails(t) /\ Leak(unsent' \cap RunTasks(RunOf[t])) /\ RunOf[t] = r
      BY <1>4, <2>2, ModelsAssumption DEF Next, vars, creationVars, CreationStep, WorkerStep,
         RetryStep, ReclaimStep, CrashBackend, StartRun, EnqueueTask, EnqueueTaskFails, CommitRun,
         CommitRunFails, TypeOK, CreationTypeOK
    <3> QED
      BY <3>1 DEF Leak, Unsent
  <2> QED
    BY <2>1, <2>2
<1> QED
  BY <1>2, <1>3, <1>4 DEF CommittedSent

-----------------------------------------------------------------------------
(* Carriers *)

\* A carrier of t survives a step that keeps t in retry:pending or in the sweep's
\* list, and keeps the live entries of t live.
LEMMA CarrierKept ==
    ASSUME NEW t, Carrier(t),
           t \in zset \cup popped => t \in zset' \cup popped',
           \A e \in 1..Len(stream) : stream'[e] = stream[e] /\ e \in 1..Len(stream'),
           \A e \in 1..Len(stream) : stream[e] = t /\ LiveEntry(e) => LiveEntry(e)'
    PROVE  Carrier(t)'
BY DEF Carrier

\* An entry just added carries its task.
LEMMA EnqueueCarries ==
    ASSUME StreamTypeOK, NEW t \in Tasks, Enqueue(t)
    PROVE  Carrier(t)'
<1>1. /\ Len(stream') = Len(stream) + 1
      /\ stream'[Len(stream) + 1] = t
      /\ Len(stream) + 1 > lastDelivered'
      /\ Len(stream) + 1 \in 1..Len(stream')
  BY DEF StreamTypeOK, Enqueue
<1> QED
  BY <1>1 DEF Carrier, LiveEntry

\* Adding an entry leaves the older ones alone.
LEMMA EnqueueKeeps ==
    ASSUME StreamTypeOK, (\E t \in Tasks : Enqueue(t)) \/ UNCHANGED streamVars
    PROVE  /\ \A e \in 1..Len(stream) : stream'[e] = stream[e] /\ e \in 1..Len(stream')
           /\ lastDelivered' = lastDelivered
           /\ pel' = pel
BY DEF StreamTypeOK, Enqueue, streamVars

\* The creation of a run takes no reference to a task away.
LEMMA CreationKeepsCarrier ==
    ASSUME TypeOK, CreationStep, NEW t \in Tasks, Carrier(t)
    PROVE  Carrier(t)'
<1>1. UNCHANGED <<zset, popped, jobs, phase, copied>>
  BY DEF CreationStep, retryVars, workerVars, reclaimVars
<1>2. (\E u \in Tasks : Enqueue(u)) \/ UNCHANGED streamVars
  BY DEF CreationStep, StartRun, EnqueueTask, EnqueueTaskFails, CommitRun, CommitRunFails
<1>3. \A e \in 1..Len(stream) : LiveEntry(e) => LiveEntry(e)'
  BY <1>1, <1>2, EnqueueKeeps DEF LiveEntry, Discharged, TypeOK
<1> QED
  BY <1>1, <1>2, <1>3, EnqueueKeeps, CarrierKept DEF TypeOK

\* The retry sweeper moves a task from retry:pending to the stream, or leaks it.
LEMMA RetryKeepsCarrier ==
    ASSUME TypeOK, Bookkeeping, RetryStep, NEW t \in Tasks, Carrier(t), t \notin leaked'
    PROVE  Carrier(t)'
<1>1. UNCHANGED <<jobs, phase, copied>>
  BY DEF RetryStep, workerVars, reclaimVars
<1>2. (\E u \in Tasks : Enqueue(u)) \/ UNCHANGED streamVars
  BY DEF RetryStep, RetryScan, RetryPop, RetryPopReplyLost, RetryEnqueue, RetryEnqueueFails,
     RetryAbort, TypeOK, SweeperTypeOK
<1>3. \A e \in 1..Len(stream) : LiveEntry(e) => LiveEntry(e)'
  BY <1>1, <1>2, EnqueueKeeps DEF LiveEntry, Discharged, TypeOK
<1>4. CASE t \in zset \cup popped => t \in zset' \cup popped'
  BY <1>2, <1>3, <1>4, EnqueueKeeps, CarrierKept DEF TypeOK
<1>5. CASE RetryEnqueue(t)
  BY <1>5, EnqueueCarries DEF RetryEnqueue, TypeOK
<1>6. CASE ~RetryEnqueue(t)
  <2>1. t \in zset \cup popped => t \in zset' \cup popped'
    BY <1>6 DEF RetryStep, RetryScan, RetryPop, RetryPopReplyLost, RetryEnqueue,
       RetryEnqueueFails, RetryAbort, ReadDue, RemoveDue, ScheduleRetry, retryVars, Leak, Bookkeeping
  <2> QED
    BY <2>1, <1>4
<1> QED
  BY <1>5, <1>6

\* The reclaim sweeper acknowledges an entry only when its copy is on the stream.
LEMMA ReclaimKeepsCarrier ==
    ASSUME TypeOK, ReclaimStep, NEW t \in Tasks, Carrier(t)
    PROVE  Carrier(t)'
<1>1. UNCHANGED <<zset, popped, jobs, phase>>
  BY DEF ReclaimStep, retryVars, workerVars
<1>2. \A e \in claimed : stream[e] \in Tasks
  BY DEF TypeOK, ReclaimTypeOK, StreamTypeOK
<1>3. ASSUME NEW e \in claimed, ReclaimEnqueue(e), stream[e] = t
      PROVE  Carrier(t)'
  BY <1>3, EnqueueCarries DEF ReclaimEnqueue, TypeOK
<1>4. ASSUME NEW e \in claimed, ReclaimEnqueue(e), stream[e] # t
      PROVE  Carrier(t)'
  <2>1. Enqueue(stream[e]) /\ copied' = {e}
    BY <1>4 DEF ReclaimEnqueue
  <2>2. \A d \in 1..Len(stream) : stream[d] = t /\ LiveEntry(d) => LiveEntry(d)'
    BY <1>1, <1>2, <1>4, <2>1, EnqueueKeeps DEF LiveEntry, Discharged, TypeOK
  <2> QED
    BY <1>1, <1>2, <2>1, <2>2, EnqueueKeeps, CarrierKept DEF TypeOK
<1>5. CASE ReclaimAck
  <2>1. \A d \in 1..Len(stream) : LiveEntry(d) => LiveEntry(d)'
    BY <1>1, <1>5 DEF ReclaimAck, Ack, LiveEntry, Discharged
  <2> QED
    BY <1>1, <1>5, <2>1, CarrierKept DEF ReclaimAck, Ack
<1>6. CASE /\ copied' \subseteq copied
           /\ (\E u \in Tasks : Enqueue(u)) \/ UNCHANGED streamVars
  <2>1. \A d \in 1..Len(stream) : LiveEntry(d) => LiveEntry(d)'
    BY <1>1, <1>6, EnqueueKeeps DEF LiveEntry, Discharged, TypeOK
  <2> QED
    BY <1>1, <1>6, <2>1, EnqueueKeeps, CarrierKept DEF TypeOK
<1> QED
  BY <1>2, <1>3, <1>4, <1>5, <1>6 DEF ReclaimStep, ClaimStale, ReclaimEnqueueFails, ReclaimAckFails

\* A restart of the backend forgets only what leaked then records.
LEMMA CrashKeepsCarrier ==
    ASSUME CrashBackend, NEW t \in Tasks, Carrier(t), t \notin leaked'
    PROVE  Carrier(t)'
<1>1. /\ UNCHANGED <<zset, stream, lastDelivered, pel, jobs, phase>>
      /\ copied' = {}
      /\ t \notin popped
  BY DEF CrashBackend, Leak, streamVars, workerVars
<1>2. \A e \in 1..Len(stream) : LiveEntry(e) => LiveEntry(e)'
  BY <1>1 DEF LiveEntry, Discharged
<1> QED
  BY <1>1, <1>2, CarrierKept

\* A step of process_task passes its task on, leaks it, or keeps its entry live.
LEMMA ProcessKeepsCarrier ==
    ASSUME TypeOK, Bookkeeping, NEW j \in jobs, ProcessStep(j),
           UNCHANGED <<popped, copied>>, NEW t \in Tasks, Carrier(t), t \notin leaked'
    PROVE  Carrier(t)'
<1>1. PICK stage \in Stage, seen \in Nat : JobMoved(j, stage, seen)
  BY ProcessFrame
<1> DEFINE i == [j EXCEPT !.stage = stage, !.seen = seen]
<1>2. /\ UNCHANGED <<stream, lastDelivered, pel, phase>>
      /\ phase[j.worker] # "acking"
      /\ zset \subseteq zset'
  BY ProcessFrame DEF Bookkeeping, streamVars
<1>3. /\ i.entry = j.entry /\ i.worker = j.worker /\ i.stage = stage
      /\ jobs' = (jobs \ {j}) \cup {i}
  BY <1>1 DEF JobMoved, MoveTo, TypeOK, WorkerTypeOK, Job
<1>4. CASE t \in zset'
  BY <1>4 DEF Carrier
<1>5. CASE t \notin zset'
  <2>1. TaskOf(j) = t => i.stage \notin {"deferred", "missing", "retrying"}
    BY <1>1, <1>3, <1>5 DEF JobMoved
  <2>2. \A e \in 1..Len(stream) : stream[e] = t /\ LiveEntry(e) => LiveEntry(e)'
    BY <1>2, <1>3, <2>1 DEF LiveEntry, Discharged, TaskOf
  <2> QED
    BY <1>2, <2>2, CarrierKept
<1> QED
  BY <1>4, <1>5

\* What a worker consumes it holds: the entry goes to its pending list and its batch.
LEMMA ConsumeKeepsCarrier ==
    ASSUME TypeOK, Bookkeeping, NEW w \in Workers, Consume(w), UNCHANGED <<popped, copied>>,
           NEW t \in Tasks, Carrier(t)
    PROVE  Carrier(t)'
<1>1. \A k \in jobs' :
        \/ k \in jobs
        \/ k.worker = w /\ k.stage = "fetched" /\ k.entry > lastDelivered
  BY DEF Consume, Batch, Undelivered, TypeOK, StreamTypeOK
<1>2. /\ phase' = [phase EXCEPT ![w] = "processing"]
      /\ stream' = stream
      /\ pel' = pel \cup Batch(Capacity)
      /\ zset' = zset
  BY DEF Consume, ReadGroup, retryVars
<1>3. \A e \in 1..Len(stream) : e > lastDelivered => e > lastDelivered' \/ e \in Batch(Capacity)
  BY WorkerAssumption DEF Consume, ReadGroup, Batch, Undelivered, TypeOK, StreamTypeOK
<1>4. \A k \in jobs : k.entry <= lastDelivered /\ k.worker \in Workers
  BY DEF Bookkeeping, TypeOK, WorkerTypeOK, Job, StreamTypeOK
<1>5. phase'[w] = "processing" /\ \A k \in jobs : phase'[k.worker] = "acking" => phase[k.worker] = "acking"
  BY <1>2, <1>4 DEF TypeOK, WorkerTypeOK
<1>6. \A e \in pel : ~Discharged(e) => ~Discharged(e)'
  <2>1. \A e \in pel : e \in Nat /\ e <= lastDelivered /\ lastDelivered \in Nat
    BY DEF TypeOK, StreamTypeOK
  <2>2. \A k \in jobs' : k.entry <= lastDelivered => k \in jobs
    BY <1>1, <1>4 DEF Consume, Batch, Undelivered, TypeOK, StreamTypeOK
  <2> QED
    BY <1>5, <2>1, <2>2 DEF Discharged
<1>7. \A e \in Batch(Capacity) : ~Discharged(e)'
  <2>1. \A e \in Batch(Capacity) : e > lastDelivered /\ e \in Nat
    BY DEF Batch, Undelivered, TypeOK, StreamTypeOK
  <2>2. \A e \in copied : e <= lastDelivered /\ e \in Nat /\ lastDelivered \in Nat
    BY DEF TypeOK, ReclaimTypeOK, StreamTypeOK
  <2>3. \A k \in jobs' : k.entry \in Batch(Capacity) => k.worker = w /\ k.stage = "fetched"
    BY <1>1, <1>4, <2>1 DEF TypeOK, StreamTypeOK
  <2> QED
    BY <1>5, <2>1, <2>2, <2>3 DEF Discharged
<1>8. \A e \in 1..Len(stream) : LiveEntry(e) => LiveEntry(e)'
  BY <1>2, <1>3, <1>6, <1>7 DEF LiveEntry
<1> QED
  BY <1>2, <1>8, CarrierKept

\* Dropping a batch, acknowledged or not, discharges nothing new.
LEMMA EndCycleKeepsCarrier ==
    ASSUME TypeOK, NEW w \in Workers, EndCycle(w), UNCHANGED <<popped, copied>>,
           \/ UNCHANGED streamVars
           \/ phase[w] = "acking" /\ Ack(EntriesToAck(w)),
           NEW t \in Tasks, Carrier(t)
    PROVE  Carrier(t)'
<1>1. /\ jobs' = jobs \ JobsOf(w)
      /\ \A k \in jobs' : phase'[k.worker] = phase[k.worker]
      /\ zset' = zset
  BY DEF EndCycle, JobsOf, TypeOK, WorkerTypeOK, Job, retryVars
<1>2. stream' = stream /\ lastDelivered' = lastDelivered
  BY DEF Ack, streamVars
<1>3. \A e \in pel : ~Discharged(e) => e \in pel'
  BY DEF Ack, streamVars, EntriesToAck, JobsOf, Discharged
<1>4. \A e \in 1..Len(stream) : LiveEntry(e) => LiveEntry(e)'
  BY <1>1, <1>2, <1>3 DEF LiveEntry, Discharged
<1> QED
  BY <1>1, <1>2, <1>4, CarrierKept

\* A safe entry is live once worker w has written its batch, or dropped it.
LEMMA SafeEntryIsLive ==
    ASSUME TypeOK, Bookkeeping, NEW w \in Workers, NEW e, SafeEntry(e, w),
           UNCHANGED <<copied, lastDelivered, pel>>,
           jobs' \subseteq jobs,
           \A k \in jobs : k.worker # w => phase'[k.worker] = phase[k.worker]
    PROVE  LiveEntry(e)'
BY DEF SafeEntry, LiveEntry, Discharged, Bookkeeping, InProgress

\* Writing a batch finishes a task, or leaves it with a carrier.
LEMMA WriteCarries ==
    ASSUME TypeOK, Bookkeeping, RetryCarried, NEW w \in Workers, BatchDone(w),
           WriteBatch(Outcomes(w)), UNCHANGED <<streamVars, zset, popped, copied>>,
           jobs' \subseteq jobs,
           \A k \in jobs : k.worker # w => phase'[k.worker] = phase[k.worker],
           NEW t \in Tasks, t \notin leaked, taskStatus[t] \in Terminal \/ Carrier(t)
    PROVE  taskStatus'[t] \in Terminal \/ Carrier(t)'
<1>1. UNCHANGED <<stream, lastDelivered, pel>>
  BY DEF streamVars
<1>2. \A j \in jobs : /\ j.worker = w /\ j.stage \in Written => OutcomeOf(j) \in Outcomes(w)
                      /\ OutcomeOf(j).task = TaskOf(j) /\ OutcomeOf(j).status = j.stage
  BY DEF Outcomes, OutcomeOf, JobsOf
<1>3. ASSUME NEW o \in Outcomes(w), o.task = t, taskStatus'[t] = o.status
      PROVE  taskStatus'[t] \in Terminal \/ Carrier(t)'
  <2>1. PICK j \in jobs : j.worker = w /\ j.stage \in Written /\ TaskOf(j) = t /\ o.status = j.stage
    BY <1>2, <1>3 DEF Outcomes, JobsOf
  <2>2. CASE j.stage \in Terminal
    BY <1>3, <2>1, <2>2
  <2>3. CASE j.stage = "retrying"
    <3>1. \/ t \in zset \cup popped
          \/ \E e \in 1..Len(stream) : stream[e] = t /\ SafeEntry(e, w)
      BY <2>1, <2>3 DEF RetryCarried, SafeCarrier, BatchDone
    <3>2. \A e \in 1..Len(stream) : SafeEntry(e, w) => LiveEntry(e)'
      BY <1>1, SafeEntryIsLive
    <3> QED
      BY <1>1, <3>1, <3>2 DEF Carrier
  <2> QED
    BY <2>1, <2>2, <2>3 DEF Written, Terminal
<1>4. ASSUME \A o \in Outcomes(w) : o.task # t, taskStatus'[t] = taskStatus[t]
      PROVE  taskStatus'[t] \in Terminal \/ Carrier(t)'
  <2>1. \A j \in jobs : j.worker = w /\ TaskOf(j) = t => j.stage \in {"missing", "deferred", "error"}
    BY <1>2, <1>4 DEF BatchDone, JobsOf, TypeOK, WorkerTypeOK, Job, Stage
  <2>2. \A e \in 1..Len(stream) : stream[e] = t /\ LiveEntry(e) => LiveEntry(e)'
    BY <1>1, <2>1 DEF LiveEntry, Discharged, TaskOf
  <2> QED
    BY <1>1, <1>4, <2>2, CarrierKept
<1> QED
  BY <1>3, <1>4, WriteBatchRow

\* Frame of the worker's steps outside process_task.
LEMMA CycleFrame ==
    ASSUME TypeOK, NEW w \in Workers,
           \/ WriteOutcomes(w)
           \/ WriteOutcomesFails(w)
           \/ AckBatch(w)
           \/ AckBatchFails(w)
           \/ CrashWorker(w)
    PROVE  /\ jobs' \subseteq jobs
           /\ \A k \in jobs : k.worker # w => phase'[k.worker] = phase[k.worker]
           /\ zset' = zset /\ stream' = stream /\ lastDelivered' = lastDelivered
BY DEF WriteOutcomes, WriteOutcomesFails, AckBatch, AckBatchFails, CrashWorker, EndCycle, JobsOf,
   Ack, streamVars, retryVars, TypeOK, WorkerTypeOK, Job

\* A worker lets go of a task only when its final status is written, its retry is
\* scheduled, or leaked records it.
LEMMA WorkerCarries ==
    ASSUME TypeOK, Bookkeeping, RetryCarried, NEW w \in Workers, WorkerStep(w),
           NEW t \in Tasks, t \notin leaked', taskStatus[t] \in Terminal \/ Carrier(t)
    PROVE  taskStatus'[t] \in Terminal \/ Carrier(t)'
<1>1. UNCHANGED <<popped, copied>> /\ t \notin leaked
  BY DEF WorkerStep, reclaimVars, ProcessStep, Leak
<1>2. ASSUME NEW j \in jobs, ProcessStep(j)
      PROVE  taskStatus'[t] \in Terminal \/ Carrier(t)'
  BY <1>1, <1>2, ProcessFrame, ProcessKeepsCarrier DEF storeVars
<1>3. CASE Consume(w)
  BY <1>1, <1>3, ConsumeKeepsCarrier DEF Consume, storeVars
<1>4. CASE WriteOutcomes(w) \/ (WriteOutcomesFails(w) /\ WriteBatch(Outcomes(w)))
  <2>1. BatchDone(w) /\ WriteBatch(Outcomes(w)) /\ UNCHANGED <<streamVars, zset>>
    BY <1>4 DEF WriteOutcomes, WriteOutcomesFails, EndCycle, retryVars
  <2> QED
    BY <1>1, <1>4, <2>1, CycleFrame, WriteCarries
<1>5. CASE /\ EndCycle(w) /\ UNCHANGED storeVars
           /\ UNCHANGED streamVars \/ (phase[w] = "acking" /\ Ack(EntriesToAck(w)))
  BY <1>1, <1>5, EndCycleKeepsCarrier DEF storeVars
<1> QED
  BY <1>2, <1>3, <1>4, <1>5 DEF WorkerStep, JobsOf, WriteOutcomesFails, AckBatch, AckBatchFails,
     CrashWorker

\* Only _create_run takes a task out of unsent, by putting it on the stream.
LEMMA SentIsCarried ==
    ASSUME TypeOK, [Next]_vars, NEW t \in unsent, t \notin unsent'
    PROVE  Carrier(t)'
<1>1. t \in Tasks
  BY DEF TypeOK, CreationTypeOK
<1>2. Enqueue(t)
  BY DEF Next, vars, creationVars, CreationStep, WorkerStep, RetryStep, ReclaimStep, CrashBackend,
     StartRun, EnqueueTask, EnqueueTaskFails, CommitRun, CommitRunFails
<1> QED
  BY <1>1, <1>2, EnqueueCarries DEF TypeOK

\* Only the workers change the status of a visible task.
LEMMA StatusFrame ==
    ASSUME TypeOK, CommittedSent, [Next]_vars, NEW t \in Tasks, taskStatus[t] # "none",
           \A w \in Workers : ~WorkerStep(w)
    PROVE  taskStatus'[t] = taskStatus[t]
BY DEF Next, vars, storeVars, CreationStep, RetryStep, ReclaimStep, CrashBackend, StartRun,
   EnqueueTask, EnqueueTaskFails, CommitRun, CommitRunFails, InsertRun, CommittedSent, TypeOK,
   StoreTypeOK

\* Every unfinished task that was sent keeps a carrier: an entry still to be delivered
\* or acknowledged, a member of retry:pending, or a place in a sweeper's hands.
LEMMA CarriedStep ==
    ASSUME TypeOK, Bookkeeping, Carried, RetryCarried, CommittedSent, [Next]_vars
    PROVE  Carried'
<1> SUFFICES ASSUME NEW t \in Tasks, t \notin unsent', t \notin leaked'
             PROVE  taskStatus'[t] \in Terminal \/ Carrier(t)'
  BY DEF Carried
<1>1. CASE t \in unsent
  BY <1>1, SentIsCarried
<1>2. CASE t \notin unsent
  <2>1. t \notin leaked /\ (taskStatus[t] \in Terminal \/ Carrier(t))
    BY <1>2, SentMonotone DEF Carried
  <2>2. CASE \E w \in Workers : WorkerStep(w)
    BY <2>1, <2>2, WorkerCarries
  <2>3. CASE (\A w \in Workers : ~WorkerStep(w)) /\ taskStatus[t] \in Terminal
    BY <2>3, StatusFrame DEF Terminal
  <2>4. CASE (\A w \in Workers : ~WorkerStep(w)) /\ Carrier(t)
    <3>1. CASE UNCHANGED vars
      BY <2>4, <3>1 DEF vars, streamVars, retryVars, workerVars, reclaimVars, Carrier, LiveEntry,
         Discharged
    <3> QED
      BY <2>4, <3>1, CreationKeepsCarrier, RetryKeepsCarrier, ReclaimKeepsCarrier,
         CrashKeepsCarrier DEF Next
  <2> QED
    BY <2>1, <2>2, <2>3, <2>4
<1> QED
  BY <1>1, <1>2

-----------------------------------------------------------------------------
(* Carriers of retries that are not written yet *)

\* A reference outside a worker's batch survives whatever leaves the queues alone.
LEMMA SafeCarrierKept ==
    ASSUME NEW t, NEW w, SafeCarrier(t, w),
           t \in zset \cup popped => t \in zset' \cup popped',
           \A e \in 1..Len(stream) : stream'[e] = stream[e] /\ e \in 1..Len(stream'),
           \A e \in 1..Len(stream) : stream[e] = t /\ SafeEntry(e, w) => SafeEntry(e, w)'
    PROVE  SafeCarrier(t, w)'
BY DEF SafeCarrier

\* A new stream entry is a reference outside every batch.
LEMMA EnqueueIsSafe ==
    ASSUME StreamTypeOK, NEW t \in Tasks, Enqueue(t), NEW w
    PROVE  SafeCarrier(t, w)'
<1>1. /\ Len(stream') = Len(stream) + 1
      /\ stream'[Len(stream) + 1] = t
      /\ Len(stream) + 1 > lastDelivered'
      /\ Len(stream) + 1 \in 1..Len(stream')
  BY DEF StreamTypeOK, Enqueue
<1> QED
  BY <1>1 DEF SafeCarrier, SafeEntry

\* No step of another process takes away a reference outside worker w's batch.
LEMMA QuietKeepsSafe ==
    ASSUME TypeOK, Bookkeeping, CreationStep \/ RetryStep \/ ReclaimStep \/ CrashBackend,
           NEW t \in Tasks, t \notin leaked', NEW w, SafeCarrier(t, w)
    PROVE  SafeCarrier(t, w)'
<1>1. UNCHANGED <<jobs, phase, lastDelivered>>
  BY QuietFrame
<1>2. \A e \in claimed : stream[e] \in Tasks
  BY DEF TypeOK, ReclaimTypeOK, StreamTypeOK
<1>3. CASE CreationStep
  <2>1. UNCHANGED <<zset, popped, copied>>
    BY <1>3 DEF CreationStep, retryVars, reclaimVars
  <2>2. (\E u \in Tasks : Enqueue(u)) \/ UNCHANGED streamVars
    BY <1>3 DEF CreationStep, StartRun, EnqueueTask, EnqueueTaskFails, CommitRun, CommitRunFails
  <2>3. \A e \in 1..Len(stream) : SafeEntry(e, w) => SafeEntry(e, w)'
    BY <1>1, <2>1, <2>2, EnqueueKeeps DEF SafeEntry, TypeOK
  <2> QED
    BY <2>1, <2>2, <2>3, EnqueueKeeps, SafeCarrierKept DEF TypeOK
<1>4. CASE RetryStep
  <2>1. UNCHANGED copied
    BY <1>4 DEF RetryStep, reclaimVars
  <2>2. (\E u \in Tasks : Enqueue(u)) \/ UNCHANGED streamVars
    BY <1>4 DEF RetryStep, RetryScan, RetryPop, RetryPopReplyLost, RetryEnqueue,
       RetryEnqueueFails, RetryAbort, TypeOK, SweeperTypeOK
  <2>3. \A e \in 1..Len(stream) : SafeEntry(e, w) => SafeEntry(e, w)'
    BY <1>1, <2>1, <2>2, EnqueueKeeps DEF SafeEntry, TypeOK
  <2>4. CASE RetryEnqueue(t)
    BY <2>4, EnqueueIsSafe DEF RetryEnqueue, TypeOK
  <2>5. CASE ~RetryEnqueue(t)
    <3>1. t \in zset \cup popped => t \in zset' \cup popped'
      BY <1>4, <2>5 DEF RetryStep, RetryScan, RetryPop, RetryPopReplyLost, RetryEnqueue,
         RetryEnqueueFails, RetryAbort, ReadDue, RemoveDue, ScheduleRetry, retryVars, Leak,
         Bookkeeping
    <3> QED
      BY <3>1, <2>2, <2>3, EnqueueKeeps, SafeCarrierKept DEF TypeOK
  <2> QED
    BY <2>4, <2>5
<1>5. CASE ReclaimStep
  <2>1. UNCHANGED <<zset, popped>>
    BY <1>5 DEF ReclaimStep, retryVars
  <2>2. ASSUME NEW e \in claimed, ReclaimEnqueue(e), stream[e] = t
        PROVE  SafeCarrier(t, w)'
    BY <2>2, EnqueueIsSafe DEF ReclaimEnqueue, TypeOK
  <2>3. ASSUME NEW e \in claimed, ReclaimEnqueue(e), stream[e] # t
        PROVE  SafeCarrier(t, w)'
    <3>1. Enqueue(stream[e]) /\ copied' = {e}
      BY <2>3 DEF ReclaimEnqueue
    <3>2. \A d \in 1..Len(stream) : stream[d] = t /\ SafeEntry(d, w) => SafeEntry(d, w)'
      BY <1>1, <1>2, <2>3, <3>1, EnqueueKeeps DEF SafeEntry, TypeOK
    <3> QED
      BY <1>2, <2>1, <3>1, <3>2, EnqueueKeeps, SafeCarrierKept DEF TypeOK
  <2>4. CASE ReclaimAck
    <3>1. \A d \in 1..Len(stream) : SafeEntry(d, w) => SafeEntry(d, w)'
      BY <1>1, <2>4 DEF ReclaimAck, Ack, SafeEntry
    <3> QED
      BY <2>1, <2>4, <3>1, SafeCarrierKept DEF ReclaimAck, Ack
  <2>5. CASE /\ copied' \subseteq copied
             /\ (\E u \in Tasks : Enqueue(u)) \/ UNCHANGED streamVars
    <3>1. \A d \in 1..Len(stream) : SafeEntry(d, w) => SafeEntry(d, w)'
      BY <1>1, <2>5, EnqueueKeeps DEF SafeEntry, TypeOK
    <3> QED
      BY <2>1, <2>5, <3>1, EnqueueKeeps, SafeCarrierKept DEF TypeOK
  <2> QED
    BY <1>2, <1>5, <2>2, <2>3, <2>4, <2>5 DEF ReclaimStep, ClaimStale, ReclaimEnqueueFails,
       ReclaimAckFails
<1>6. CASE CrashBackend
  <2>1. UNCHANGED <<zset, stream, pel>> /\ copied' = {} /\ t \notin popped
    BY <1>6 DEF CrashBackend, Leak, streamVars
  <2>2. \A e \in 1..Len(stream) : SafeEntry(e, w) => SafeEntry(e, w)'
    BY <1>1, <2>1 DEF SafeEntry
  <2> QED
    BY <2>1, <2>2, SafeCarrierKept
<1> QED
  BY <1>3, <1>4, <1>5, <1>6

\* A step of process_task by another worker: reading the task leaks it.
LEMMA ProcessKeepsSafe ==
    ASSUME TypeOK, Bookkeeping, NEW j \in jobs, ProcessStep(j), UNCHANGED <<popped, copied>>,
           NEW t \in Tasks, t \notin leaked', NEW w, SafeCarrier(t, w),
           j.worker # w => UnwrittenRetry(t, j.worker)
    PROVE  SafeCarrier(t, w)'
<1>1. PICK stage \in Stage, seen \in Nat : JobMoved(j, stage, seen)
  BY ProcessFrame
<1> DEFINE i == [j EXCEPT !.stage = stage, !.seen = seen]
<1>2. /\ UNCHANGED <<stream, lastDelivered, pel>>
      /\ zset \subseteq zset'
      /\ j.stage \in InProgress
  BY ProcessFrame DEF streamVars
<1>3. /\ i.entry = j.entry /\ i.worker = j.worker /\ i.stage = stage
      /\ jobs' = (jobs \ {j}) \cup {i}
  BY <1>1 DEF JobMoved, MoveTo, TypeOK, WorkerTypeOK, Job
<1>4. CASE t \in zset'
  BY <1>4 DEF SafeCarrier
<1>5. CASE t \notin zset'
  <2>1. TaskOf(j) = t /\ j.worker # w /\ j.stage = "fetched" => stage \in {"error", "fetched"}
    BY <1>1, <1>5 DEF JobMoved, Stage, InProgress, Written
  <2>2. \A e \in 1..Len(stream) : stream[e] = t /\ SafeEntry(e, w) => SafeEntry(e, w)'
    BY <1>2, <1>3, <2>1 DEF SafeEntry, TaskOf, InProgress
  <2> QED
    BY <1>2, <2>2, SafeCarrierKept
<1> QED
  BY <1>4, <1>5

\* What another worker consumes is still outside worker w's batch.
LEMMA ConsumeKeepsSafe ==
    ASSUME TypeOK, Bookkeeping, NEW v \in Workers, Consume(v), UNCHANGED <<popped, copied>>,
           NEW t \in Tasks, NEW w, w # v, SafeCarrier(t, w)
    PROVE  SafeCarrier(t, w)'
<1>1. /\ stream' = stream
      /\ pel' = pel \cup Batch(Capacity)
      /\ zset' = zset
  BY DEF Consume, ReadGroup, retryVars
<1>2. \A e \in 1..Len(stream) : e > lastDelivered => e > lastDelivered' \/ e \in Batch(Capacity)
  BY WorkerAssumption DEF Consume, ReadGroup, Batch, Undelivered, TypeOK, StreamTypeOK
<1>3. \A k \in jobs' : \/ k \in jobs /\ k.entry \in 1..lastDelivered
                       \/ k.worker = v /\ k.stage = "fetched"
  BY DEF Consume, Bookkeeping
<1>4. \A e \in Batch(Capacity) : e \notin copied /\ e \notin 1..lastDelivered
  BY DEF Batch, Undelivered, TypeOK, StreamTypeOK, ReclaimTypeOK
<1>5. \A e \in 1..Len(stream) : SafeEntry(e, w) => SafeEntry(e, w)'
  BY <1>1, <1>2, <1>3, <1>4 DEF SafeEntry
<1> QED
  BY <1>1, <1>5, SafeCarrierKept

\* The end of another worker's cycle removes only entries of its own batch.
LEMMA CycleKeepsSafe ==
    ASSUME TypeOK, Bookkeeping, NEW v \in Workers, UNCHANGED <<popped, copied>>,
           \/ WriteOutcomes(v)
           \/ WriteOutcomesFails(v)
           \/ AckBatch(v)
           \/ AckBatchFails(v)
           \/ CrashWorker(v),
           NEW t \in Tasks, NEW w, SafeCarrier(t, w)
    PROVE  SafeCarrier(t, w)'
<1>1. jobs' \subseteq jobs /\ zset' = zset /\ stream' = stream /\ lastDelivered' = lastDelivered
  BY CycleFrame
<1>2. pel' = pel \/ (phase[v] = "acking" /\ pel' = pel \ EntriesToAck(v))
  BY DEF WriteOutcomes, WriteOutcomesFails, AckBatch, AckBatchFails, CrashWorker, Ack, streamVars
<1>3. \A e \in pel : SafeEntry(e, w) /\ e \notin pel' => e > lastDelivered
  BY <1>2 DEF EntriesToAck, JobsOf, SafeEntry, Bookkeeping, InProgress
<1>4. \A e \in 1..Len(stream) : SafeEntry(e, w) => SafeEntry(e, w)'
  BY <1>1, <1>3 DEF SafeEntry
<1> QED
  BY <1>1, <1>4, SafeCarrierKept

\* A task that a batch is about to report as RETRYING has its retry on the way already,
\* so that acknowledging the batch loses nothing.
LEMMA RetryCarriedStep ==
    ASSUME TypeOK, Bookkeeping, RetryCarried, [Next]_vars
    PROVE  RetryCarried'
<1> SUFFICES ASSUME NEW j \in jobs', j.stage = "retrying", phase'[j.worker] = "processing",
                    TaskOf(j)' \notin leaked'
             PROVE  SafeCarrier(TaskOf(j), j.worker)'
  BY DEF RetryCarried
<1> DEFINE t == TaskOf(j)
           w == j.worker
<1>1. CASE j \notin jobs
  <2>1. ASSUME NEW v \in Workers, Consume(v)
        PROVE  FALSE
    BY <1>1, <2>1 DEF Consume
  <2>2. PICK i \in jobs : ProcessStep(i)
    BY <1>1, <2>1, JobsChange
  <2>3. PICK stage \in Stage, seen \in Nat : JobMoved(i, stage, seen)
    BY <2>2, ProcessFrame
  <2>4. j.entry = i.entry /\ j.stage = stage
    BY <1>1, <2>3 DEF JobMoved, MoveTo, TypeOK, WorkerTypeOK, Job
  <2>5. TaskOf(j)' \in zset'
    BY <2>2, <2>3, <2>4, ProcessFrame DEF JobMoved, TaskOf, streamVars
  <2> QED
    BY <2>5 DEF SafeCarrier
<1>2. CASE j \in jobs
  <2>1. t' = t /\ t \in Tasks /\ t \notin leaked'
    BY <1>2, LogsGrow, TaskOfType DEF TaskOf, Bookkeeping, TypeOK, StreamTypeOK
  <2>2. t \notin leaked
    BY <2>1, SentMonotone
  <2>3. w \in Workers
    BY <1>2 DEF TypeOK, WorkerTypeOK, Job
  <2>4. phase[w] = "processing"
    <3>1. phase[w] # "idle" /\ phase[w] \in {"idle", "processing", "acking"}
      BY <1>2, <2>3 DEF Bookkeeping, TypeOK, WorkerTypeOK
    <3>2. phase[w] = "acking" => phase'[w] # "processing"
      <4>1. CASE UNCHANGED phase
        BY <4>1
      <4>2. ASSUME NEW v \in Workers, WorkerStep(v), ~UNCHANGED phase
            PROVE  phase[w] = "acking" => phase'[w] # "processing"
        BY <2>3, <4>2, ProcessFrame DEF WorkerStep, JobsOf, Consume, WriteOutcomes,
           WriteOutcomesFails, AckBatch, AckBatchFails, CrashWorker, EndCycle, TypeOK, WorkerTypeOK
      <4> QED
        BY <4>1, <4>2, QuietFrame DEF Next, vars, workerVars
    <3> QED
      BY <3>1, <3>2
  <2>5. SafeCarrier(t, w)
    BY <1>2, <2>2, <2>4 DEF RetryCarried
  <2>6. SafeCarrier(t, w)'
    <3>1. CASE UNCHANGED vars
      BY <2>1, <2>5, <3>1 DEF vars, streamVars, retryVars, workerVars, reclaimVars, SafeCarrier,
         SafeEntry
    <3>2. CASE CreationStep \/ RetryStep \/ ReclaimStep \/ CrashBackend
      BY <2>1, <2>5, <3>2, QuietKeepsSafe
    <3>3. ASSUME NEW v \in Workers, WorkerStep(v)
          PROVE  SafeCarrier(t, w)'
      <4>1. UNCHANGED <<popped, copied>>
        BY <3>3 DEF WorkerStep, reclaimVars
      <4>2. ASSUME NEW i \in jobs, ProcessStep(i)
            PROVE  SafeCarrier(t, w)'
        <5>1. i.worker # w => UnwrittenRetry(t, i.worker)
          BY <1>2, <2>4 DEF UnwrittenRetry
        <5> QED
          BY <2>1, <2>5, <4>1, <4>2, <5>1, ProcessKeepsSafe
      <4>3. CASE Consume(v)
        <5>1. w # v
          BY <2>4, <4>3 DEF Consume
        <5> QED
          BY <2>1, <2>5, <4>1, <4>3, <5>1, ConsumeKeepsSafe
      <4>4. CASE \/ WriteOutcomes(v)
                 \/ WriteOutcomesFails(v)
                 \/ AckBatch(v)
                 \/ AckBatchFails(v)
                 \/ CrashWorker(v)
        BY <2>1, <2>5, <4>1, <4>4, CycleKeepsSafe
      <4> QED
        BY <3>3, <4>2, <4>3, <4>4 DEF WorkerStep, JobsOf
    <3> QED
      BY <3>1, <3>2, <3>3 DEF Next
  <2> QED
    BY <2>1, <2>6
<1> QED
  BY <1>1, <1>2

-----------------------------------------------------------------------------
(* The counters *)

\* The tasks whose outcomes have a status are no more than these outcomes.
LEMMA TasksCounted ==
    ASSUME NEW outs, IsFiniteSet(outs), NEW r, NEW status,
           NEW T, T = {o.task : o \in {p \in outs : RunOf[p.task] = r /\ p.status = status}}
    PROVE  IsFiniteSet(T) /\ Cardinality(T) \in Nat /\ Cardinality(T) <= Delta(outs, r, status)
<1> DEFINE S == {p \in outs : RunOf[p.task] = r /\ p.status = status}
           f == [o \in S |-> o.task]
<1>1. S \in SUBSET outs
  OBVIOUS
<1>2. IsFiniteSet(S)
  BY <1>1, FS_Subset
<1>3. f \in Surjection(S, T)
  BY DEF Surjection
<1>4. IsFiniteSet(T) /\ Cardinality(T) <= Cardinality(S)
  BY <1>2, <1>3, FS_Surjection
<1>5. Delta(outs, r, status) = Cardinality(S)
  BY DEF Delta
<1> QED
  BY <1>4, <1>5, FS_CardinalityType

\* The tasks of a run are finitely many, and at least one.
LEMMA RunTasksFinite ==
    ASSUME NEW r \in Runs
    PROVE  /\ IsFiniteSet(RunTasks(r)) /\ TotalTasks(r) \in Nat \ {0}
           /\ IsFiniteSet(Settled(r)) /\ Cardinality(Settled(r)) \in Nat
<1>1. RunTasks(r) \in SUBSET Tasks /\ Settled(r) \in SUBSET Tasks
  BY DEF RunTasks, Settled
<1>2. IsFiniteSet(RunTasks(r)) /\ IsFiniteSet(Settled(r))
  BY <1>1, FS_Subset, ModelsAssumption
<1>3. RunTasks(r) # {}
  BY ModelsAssumption DEF RunTasks
<1> QED
  BY <1>2, <1>3, FS_CardinalityType, FS_EmptySet DEF TotalTasks

\* write_batch moves the counters of a run by at least the number of its tasks
\* that become finished.
LEMMA WriteCounts ==
    ASSUME NEW outs, IsFiniteSet(outs), WriteBatch(outs), NEW r \in Runs
    PROVE  Cardinality(Settled(r)') <= Cardinality(Settled(r)) + Delta(outs, r, "completed")
                                         + Delta(outs, r, "failed")
<1> DEFINE T(status) == {o.task : o \in {p \in outs : RunOf[p.task] = r /\ p.status = status}}
           A == Settled(r) \cup T("completed")
           B == A \cup T("failed")
<1>1. Settled(r)' \in SUBSET B
  <2> SUFFICES ASSUME NEW t \in Settled(r)', t \notin Settled(r)
               PROVE  t \in T("completed") \/ t \in T("failed")
    OBVIOUS
  <2>1. t \in Tasks /\ RunOf[t] = r /\ taskStatus'[t] \in Terminal
        /\ taskStatus[t] \notin Terminal
    BY DEF Settled, RunTasks
  <2>2. PICK o \in outs : o.task = t /\ taskStatus'[t] = o.status
    BY <2>1, WriteBatchRow
  <2> QED
    BY <2>1, <2>2 DEF Terminal
<1>2. IsFiniteSet(Settled(r)) /\ Cardinality(Settled(r)) \in Nat
  BY RunTasksFinite
<1>3. \A status : /\ IsFiniteSet(T(status)) /\ Cardinality(T(status)) \in Nat
                  /\ Cardinality(T(status)) <= Delta(outs, r, status)
  BY TasksCounted
<1>4. \A status : Delta(outs, r, status) \in Nat
  BY DeltaType
<1> HIDE DEF T
<1>5. IsFiniteSet(A) /\ Cardinality(A) <= Cardinality(Settled(r)) + Cardinality(T("completed"))
      /\ Cardinality(A) \in Nat
  <2>1. /\ IsFiniteSet(A)
        /\ Cardinality(A) = Cardinality(Settled(r)) + Cardinality(T("completed"))
                              - Cardinality(Settled(r) \cap T("completed"))
    BY <1>2, <1>3, FS_Union
  <2>2. Settled(r) \cap T("completed") \in SUBSET Settled(r)
    OBVIOUS
  <2>3. Cardinality(Settled(r) \cap T("completed")) \in Nat
    BY <1>2, <2>2, FS_Subset, FS_CardinalityType
  <2> QED
    BY <1>2, <1>3, <2>1, <2>3, FS_CardinalityType
<1> HIDE DEF A
<1>6. IsFiniteSet(B) /\ Cardinality(B) <= Cardinality(A) + Cardinality(T("failed"))
      /\ Cardinality(B) \in Nat
  <2>1. /\ IsFiniteSet(B)
        /\ Cardinality(B) = Cardinality(A) + Cardinality(T("failed"))
                              - Cardinality(A \cap T("failed"))
    BY <1>3, <1>5, FS_Union
  <2>2. A \cap T("failed") \in SUBSET A
    OBVIOUS
  <2>3. Cardinality(A \cap T("failed")) \in Nat
    BY <1>5, <2>2, FS_Subset, FS_CardinalityType
  <2> QED
    BY <1>3, <1>5, <2>1, <2>3, FS_CardinalityType
<1> HIDE DEF B
<1>7. Cardinality(Settled(r)') \in Nat /\ Cardinality(Settled(r)') <= Cardinality(B)
  BY <1>1, <1>6, FS_Subset, FS_CardinalityType
<1> QED
  BY <1>2, <1>3, <1>4, <1>5, <1>6, <1>7

\* Which steps make a run exist.
LEMMA CreationChange ==
    ASSUME TypeOK, [Next]_vars
    PROVE  \/ \E r \in Runs : CommitRun(r)
           \/ \A r \in Runs : creation'[r] = "committed" <=> creation[r] = "committed"
BY DEF TypeOK, CreationTypeOK, Next, vars, creationVars, CreationStep, WorkerStep, RetryStep,
   ReclaimStep, CrashBackend, StartRun, EnqueueTask, EnqueueTaskFails, CommitRun, CommitRunFails

\* The counters keep up with the rows in the steps of write_batch and of the
\* commit of a run; nothing else changes either.
LEMMA ProgressStep ==
    ASSUME TypeOK, Bookkeeping, CommittedSent, ProgressCounted, [Next]_vars
    PROVE  ProgressCounted'
<1>0. TypeOK'
  BY TypeStep
<1>1. CASE UNCHANGED storeVars /\ ~(\E r \in Runs : CommitRun(r))
  <2>1. \A r \in Runs : creation'[r] = "committed" <=> creation[r] = "committed"
    BY <1>1, CreationChange
  <2>2. \A r \in Runs : Settled(r)' = Settled(r)
    BY <1>1 DEF Settled, storeVars
  <2> QED
    BY <1>1, <2>1, <2>2 DEF ProgressCounted, storeVars
<1>2. ASSUME NEW s \in Runs, CommitRun(s) PROVE ProgressCounted'
  <2>1. /\ creation[s] # "committed" /\ creation' = [creation EXCEPT ![s] = "committed"]
        /\ runStatus' = [runStatus EXCEPT ![s] = "running"]
        /\ completedTasks' = completedTasks /\ failedTasks' = failedTasks
        /\ taskStatus' = [t \in Tasks |-> IF RunOf[t] = s THEN "pending" ELSE taskStatus[t]]
    BY <1>2 DEF CommitRun, InsertRun
  <2>2. completedTasks[s] = 0 /\ failedTasks[s] = 0
    BY <2>1 DEF ProgressCounted
  <2>3. Settled(s)' = {}
    BY <2>1 DEF Settled, RunTasks, Terminal
  <2>4. \A r \in Runs \ {s} : Settled(r)' = Settled(r)
    BY <2>1 DEF Settled, RunTasks
  <2>5. /\ \A r \in Runs : /\ creation'[r] = IF r = s THEN "committed" ELSE creation[r]
                           /\ runStatus'[r] = IF r = s THEN "running" ELSE runStatus[r]
    BY <2>1 DEF TypeOK, CreationTypeOK, StoreTypeOK
  <2>6. Cardinality(Settled(s)') = 0
    BY <2>3, FS_EmptySet
  <2>7. TotalTasks(s) > 0 /\ \A r : TotalTasks(r)' = TotalTasks(r)
    BY RunTasksFinite DEF TotalTasks, RunTasks
  <2> SUFFICES ASSUME NEW r \in Runs
               PROVE  /\ runStatus'[r] # "none" <=> creation'[r] = "committed"
                      /\ runStatus'[r] = "none" => completedTasks'[r] = 0 /\ failedTasks'[r] = 0
                      /\ Cardinality(Settled(r)') <= completedTasks'[r] + failedTasks'[r]
                      /\ runStatus'[r] = "running" =>
                           completedTasks'[r] + failedTasks'[r] < TotalTasks(r)
    BY <2>7 DEF ProgressCounted
  <2>8. CASE r = s
    BY <2>1, <2>2, <2>5, <2>6, <2>7, <2>8
  <2>9. CASE r # s
    BY <2>1, <2>4, <2>5, <2>9 DEF ProgressCounted
  <2> QED
    BY <2>8, <2>9
<1>3. ASSUME NEW w \in Workers, WriteBatch(Outcomes(w)), ~(\E r \in Runs : CommitRun(r))
      PROVE  ProgressCounted'
  <2> DEFINE outs == Outcomes(w)
  <2>1. IsFiniteSet(outs) /\ outs \subseteq Outcome
    BY OutcomesType
  <2>2. \A o \in outs : taskStatus[o.task] # "none" /\ o.task \in Tasks
    <3>1. \A j \in JobsOf(w) : TaskOf(j) \in Tasks
      BY TaskOfType DEF JobsOf, Bookkeeping, TypeOK, StreamTypeOK
    <3> QED
      BY <3>1 DEF Outcomes, OutcomeOf, JobsOf, CommittedSent
  <2> SUFFICES ASSUME NEW r \in Runs
               PROVE  /\ runStatus'[r] # "none" <=> creation'[r] = "committed"
                      /\ runStatus'[r] = "none" => completedTasks'[r] = 0 /\ failedTasks'[r] = 0
                      /\ Cardinality(Settled(r)') <= completedTasks'[r] + failedTasks'[r]
                      /\ runStatus'[r] = "running" =>
                           completedTasks'[r] + failedTasks'[r] < TotalTasks(r)
    BY DEF ProgressCounted, TotalTasks, RunTasks
  <2>3. /\ Delta(outs, r, "completed") \in Nat /\ Delta(outs, r, "failed") \in Nat
        /\ completedTasks[r] \in Nat /\ failedTasks[r] \in Nat
        /\ Cardinality(Settled(r)) \in Nat /\ Cardinality(Settled(r)') \in Nat
    <3>1. Cardinality(Settled(r)') \in Nat
      <4>1. Settled(r)' \in SUBSET Tasks
        BY DEF Settled, RunTasks
      <4> QED
        BY <4>1, FS_Subset, FS_CardinalityType, ModelsAssumption
    <3> QED
      BY <2>1, <3>1, DeltaType, RunTasksFinite DEF TypeOK, StoreTypeOK
  <2>4. Cardinality(Settled(r)') <= Cardinality(Settled(r)) + Delta(outs, r, "completed")
                                      + Delta(outs, r, "failed")
    BY <1>3, <2>1, WriteCounts
  <2>5. /\ completedTasks'[r] = completedTasks[r] + Delta(outs, r, "completed")
        /\ failedTasks'[r] = failedTasks[r] + Delta(outs, r, "failed")
        /\ runStatus'[r] =
             IF /\ r \in FinishedRuns(outs)
                /\ runStatus[r] = "running"
                /\ completedTasks'[r] + failedTasks'[r] >= TotalTasks(r)
             THEN "completed" ELSE runStatus[r]
    BY <1>3 DEF WriteBatch
  <2>6. r \notin FinishedRuns(outs) => /\ Delta(outs, r, "completed") = 0
                                      /\ Delta(outs, r, "failed") = 0
    <3> SUFFICES ASSUME r \notin FinishedRuns(outs), NEW status \in Terminal
                 PROVE  Delta(outs, r, status) = 0
      BY DEF Terminal
    <3>1. {o \in outs : RunOf[o.task] = r /\ o.status = status} = {}
      BY DEF FinishedRuns
    <3> QED
      BY <3>1, FS_EmptySet DEF Delta
  <2>7. runStatus[r] = "none" => r \notin FinishedRuns(outs)
    BY <2>2 DEF FinishedRuns, CommittedSent, ProgressCounted
  <2>8. creation'[r] = "committed" <=> creation[r] = "committed"
    BY <1>3, CreationChange
  <2>9. /\ runStatus[r] # "none" <=> creation[r] = "committed"
        /\ runStatus[r] = "none" => completedTasks[r] = 0 /\ failedTasks[r] = 0
        /\ Cardinality(Settled(r)) <= completedTasks[r] + failedTasks[r]
        /\ runStatus[r] = "running" => completedTasks[r] + failedTasks[r] < TotalTasks(r)
    BY DEF ProgressCounted
  <2>10. TotalTasks(r) \in Nat
    BY RunTasksFinite
  <2> HIDE DEF outs
  <2>11. runStatus'[r] # "none" <=> creation'[r] = "committed"
    BY <2>5, <2>8, <2>9
  <2>12. runStatus'[r] = "none" => completedTasks'[r] = 0 /\ failedTasks'[r] = 0
    BY <2>5, <2>6, <2>7, <2>9
  <2>13. Cardinality(Settled(r)') <= completedTasks'[r] + failedTasks'[r]
    <3> DEFINE a == Cardinality(Settled(r)')
               b == Cardinality(Settled(r))
    <3>1. a \in Nat /\ b \in Nat /\ b <= completedTasks[r] + failedTasks[r]
          /\ a <= b + Delta(outs, r, "completed") + Delta(outs, r, "failed")
      BY <2>3, <2>4, <2>9
    <3> HIDE DEF a, b
    <3>2. a <= completedTasks'[r] + failedTasks'[r]
      BY <2>3, <2>5, <3>1
    <3> QED
      BY <3>2 DEF a
  <2>14. runStatus'[r] = "running" =>
           completedTasks'[r] + failedTasks'[r] < TotalTasks(r)
    BY <2>3, <2>5, <2>6, <2>9, <2>10
  <2> QED
    BY <2>11, <2>12, <2>13, <2>14
<1> QED
  BY <1>1, <1>2, <1>3, StoreChange

-----------------------------------------------------------------------------
(* The theorems *)

\* The pipeline starts with empty queues and satisfies the invariant.
LEMMA InitIInv == Init => IInv
<1> SUFFICES ASSUME Init PROVE IInv
  OBVIOUS
<1> USE DEF Init, StreamInit, RetryInit, StoreInit, CreationInit, WorkerInit, SweeperInit,
            ReclaimInit, FaultsInit
<1>1. TypeOK
  <2>1. IsFiniteSet(jobs)
    BY FS_EmptySet
  <2> QED
    BY <2>1, FaultsAssumption DEF TypeOK, StreamTypeOK, RetryTypeOK, StoreTypeOK, CreationTypeOK,
       WorkerTypeOK, SweeperTypeOK, ReclaimTypeOK, FaultsTypeOK, TaskStatus, RunStatus
<1>2. Bookkeeping /\ EntryHeldOnce /\ RetryCarried
  BY DEF Bookkeeping, EntryHeldOnce, RetryCarried
<1>3. Carried
  BY DEF Carried
<1>4. CommittedSent
  BY ModelsAssumption DEF CommittedSent
<1>5. AttemptHistory /\ FailedAfterAllAttempts
  BY DEF AttemptHistory, FailedAfterAllAttempts, FailedUpTo
<1>6. ProgressCounted
  <2>1. \A r \in Runs : Settled(r) = {}
    BY DEF Settled, RunTasks, Terminal
  <2>2. \A r \in Runs : /\ Cardinality(Settled(r)) = 0
                        /\ runStatus[r] = "none" /\ creation[r] = "new"
                        /\ completedTasks[r] = 0 /\ failedTasks[r] = 0
    BY <2>1, FS_EmptySet
  <2> QED
    BY <2>2 DEF ProgressCounted
<1> QED
  BY <1>1, <1>2, <1>3, <1>4, <1>5, <1>6 DEF IInv

\* The invariant is inductive: one lemma per conjunct.
LEMMA NextIInv == IInv /\ [Next]_vars => IInv'
BY TypeStep, BookkeepingStep, CarriedStep, RetryCarriedStep, SentStep, HistoryStep,
   ProgressStep DEF IInv

\* The inductive invariant holds in every reachable state, for any tasks, runs,
\* workers, batch capacity and failure budgets.
THEOREM Invariance == Spec => []IInv
BY InitIInv, NextIInv, PTL DEF Spec

\* The types of all variables: what is stored in Redis, in Postgres and in the
\* memory of the processes never leaves its domain.
THEOREM TypeCorrectness == Spec => []TypeOK
<1>1. IInv => TypeOK
  BY DEF IInv
<1> QED
  BY <1>1, Invariance, PTL

\* For any number of workers, tasks and failures: an unfinished task that is not
\* leaked is in retry:pending, with the retry sweep, undelivered, or pending with
\* a worker or the reclaim sweep that has not passed it on.
THEOREM NothingLost == Spec => []NoTaskLost
<1>1. IInv => NoTaskLost
  BY DEF IInv, NoTaskLost, Carried, CommittedSent, Open, Terminal
<1> QED
  BY <1>1, Invariance, PTL

\* For any number of workers, tasks and failures: FAILED means that every attempt
\* from the first to max_retries + 1 failed and has its row in request_results.
THEOREM NoAttemptSkipped == Spec => []FailedAfterAllAttempts
<1>1. IInv => FailedAfterAllAttempts
  BY DEF IInv
<1> QED
  BY <1>1, Invariance, PTL

\* A stream entry is never in two batches at once.
THEOREM DeliveredOnce == Spec => []EntryHeldOnce
<1>1. IInv => EntryHeldOnce
  BY DEF IInv
<1> QED
  BY <1>1, Invariance, PTL

\* For any number of workers, tasks and failures: a run all of whose tasks are
\* finished is COMPLETED, though _update_run_progress looks only at the runs whose
\* counters its batch moves.
THEOREM SettledRunsAreCompleted == Spec => []SettledRunIsCompleted
<1>1. IInv => SettledRunIsCompleted
  <2> SUFFICES ASSUME IInv, NEW r \in Runs, runStatus[r] # "none",
                      \A t \in RunTasks(r) : taskStatus[t] \in Terminal
               PROVE  runStatus[r] = "completed"
    BY DEF SettledRunIsCompleted
  <2>1. Settled(r) = RunTasks(r)
    BY DEF Settled
  <2>2. TotalTasks(r) <= completedTasks[r] + failedTasks[r]
    BY <2>1 DEF IInv, ProgressCounted, TotalTasks
  <2>3. /\ TotalTasks(r) \in Nat /\ completedTasks[r] + failedTasks[r] \in Nat
        /\ runStatus[r] \in RunStatus
    BY RunTasksFinite DEF IInv, TypeOK, StoreTypeOK
  <2>4. runStatus[r] # "running"
    BY <2>2, <2>3 DEF IInv, ProgressCounted
  <2> QED
    BY <2>3, <2>4 DEF RunStatus
<1> QED
  BY <1>1, Invariance, PTL
=============================================================================
