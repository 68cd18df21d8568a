--------------------------- MODULE ContractProofs ---------------------------
(***************************************************************************)
(* The pipeline implements RunContract when no attempt is executed twice   *)
(* (SingleExecution), for any finite set of tasks, any runs, capacity,     *)
(* retry limit and number of failures.                                     *)
(***************************************************************************)
EXTENDS TaskPipelineProofs

-----------------------------------------------------------------------------
(* Which steps are left *)

\* A fault that is not among Faults does not happen.
LEMMA HarmlessFaults ==
    ASSUME SingleExecution,
           NEW kind \in {"process", "write", "reply", "ack", "crash", "slow"}
    PROVE  ~Fault(kind)
BY DEF SingleExecution, Fault

\* With everything pending in live hands, the reclaim sweep does nothing.
LEMMA NoReclaim ==
    ASSUME SingleExecution, NothingToReclaim
    PROVE  ~ReclaimStep
<1>1. \A S \in SUBSET pel : ~ClaimStale(S, Held)
  BY HarmlessFaults DEF ClaimStale, NothingToReclaim
<1> QED
  BY <1>1 DEF ReclaimStep, NothingToReclaim, ReclaimEnqueue, ReclaimEnqueueFails, ReclaimAck,
     ReclaimAckFails

\* What is left of the worker's steps.
LEMMA WorkerSteps ==
    ASSUME SingleExecution, NEW w \in Workers, WorkerStep(w)
    PROVE  \/ \E j \in JobsOf(w) : ProcessStep(j) /\ ~ProcessError(j)
           \/ Consume(w)
           \/ WriteOutcomes(w)
           \/ AckBatch(w)
<1>1. \A j : ~ProcessError(j)
  BY HarmlessFaults DEF ProcessError
<1>2. ~WriteOutcomesFails(w) /\ ~AckBatchFails(w) /\ ~CrashWorker(w)
  BY HarmlessFaults DEF WriteOutcomesFails, AckBatchFails, CrashWorker
<1> QED
  BY <1>1, <1>2 DEF WorkerStep

\* The job that a step of process_task leaves behind, and where its task goes.
JobMovesOn(j, i) ==
    /\ jobs' = (jobs \ {j}) \cup {i}
    /\ i \in Job /\ i.worker = j.worker /\ i.entry = j.entry
    /\ i.stage # "error"
    /\ i.stage = "retrying" => i.seen < MaxRetries
    /\ \/ i.stage \in InProgress \cup {"completed", "failed"} /\ UNCHANGED <<zset, leaked>>
       \/ /\ i.stage = "missing" /\ zset' = zset
          /\ leaked' = leaked \cup {TaskOf(j)} /\ taskStatus[TaskOf(j)] = "none"
       \/ /\ i.stage \in {"deferred", "retrying"}
          /\ zset' = zset \cup {TaskOf(j)} /\ leaked' = leaked

\* A job in progress has something to write, and its entry is pending.
LEMMA InProgressIsUnwritten ==
    ASSUME TypeOK, Bookkeeping, NEW j \in jobs, j.stage \in InProgress
    PROVE  Unwritten(j) /\ Pending(j.entry)
BY DEF TypeOK, WorkerTypeOK, Job, Bookkeeping, Unwritten, Pending, InProgress

\* One step of process_task: the job goes on, or hands its task to retry:pending,
\* or gives it up.
LEMMA ProcessMoves ==
    ASSUME TypeOK, Bookkeeping, OnePlace, NEW j \in jobs, ProcessStep(j), ~ProcessError(j)
    PROVE  /\ j.stage \in InProgress
           /\ UNCHANGED <<streamVars, storeVars, phase, due>>
           /\ \E i : JobMovesOn(j, i)
<1>1. j.seen \in Nat /\ retryCount[TaskOf(j)] \in Nat /\ MaxRetries \in Nat /\ j \in Job
  BY TaskOfType, ModelsAssumption DEF TypeOK, WorkerTypeOK, Job, StoreTypeOK
<1>2. /\ UNCHANGED <<streamVars, storeVars, phase>>
      /\ j.stage \in InProgress
  BY ProcessFrame
<1>3. due' = due
  BY DEF ProcessStep, ReadMissing, ReadTask, Throttle, Succeed, FailAndRetry, FailForGood,
         ProcessError, ScheduleRetry, retryVars
<1>4. ASSUME NEW stage \in Stage \ {"error"}, NEW seen \in Nat, MoveTo(j, stage, seen),
             stage = "retrying" => seen < MaxRetries,
             \/ stage \in InProgress \cup {"completed", "failed"} /\ UNCHANGED <<zset, leaked>>
             \/ /\ stage = "missing" /\ zset' = zset
                /\ leaked' = leaked \cup {TaskOf(j)} /\ taskStatus[TaskOf(j)] = "none"
             \/ /\ stage \in {"deferred", "retrying"}
                /\ zset' = zset \cup {TaskOf(j)} /\ leaked' = leaked
      PROVE  \E i : JobMovesOn(j, i)
  <2> DEFINE i == [j EXCEPT !.stage = stage, !.seen = seen]
  <2>1. /\ i \in Job
        /\ i.worker = j.worker /\ i.entry = j.entry /\ i.stage = stage /\ i.seen = seen
    BY <1>1 DEF Job
  <2>2. jobs' = (jobs \ {j}) \cup {i}
    BY <1>4 DEF MoveTo
  <2> HIDE DEF i
  <2>3. JobMovesOn(j, i)
    BY <1>4, <2>1, <2>2 DEF JobMovesOn
  <2> QED
    BY <2>3
<1> USE DEF Stage, InProgress, Written
<1>5. CASE ReadMissing(j) /\ Leak({TaskOf(j)})
  BY <1>2, <1>3, <1>4, <1>5 DEF ReadMissing, Leak, retryVars
<1>6. CASE ReadTask(j) /\ Leak({t \in {TaskOf(j)} : UnwrittenRetry(t, j.worker)})
  <2>1. ~UnwrittenRetry(TaskOf(j), j.worker)
    <3>1. Unwritten(j)
      BY <1>2, InProgressIsUnwritten
    <3>2. \A k \in jobs : Unwritten(k) /\ TaskOf(k) = TaskOf(j) => k = j
      BY <3>1 DEF OnePlace
    <3> QED
      BY <3>2 DEF UnwrittenRetry, Unwritten
  <2>2. PICK stage \in {"executing", "unresolved"} :
          MoveTo(j, stage, retryCount[TaskOf(j)]) /\ leaked' = leaked /\ zset' = zset
    BY <1>6, <2>1 DEF ReadTask, Leak, retryVars
  <2> QED
    BY <1>1, <1>2, <1>3, <1>4, <2>2
<1>7. CASE Throttle(j) /\ Leak({})
  BY <1>2, <1>3, <1>4, <1>7 DEF Throttle, ScheduleRetry, Leak
<1>8. CASE Succeed(j) /\ Leak({})
  BY <1>1, <1>2, <1>3, <1>4, <1>8 DEF Succeed, Leak, retryVars
<1>9. CASE FailAndRetry(j) /\ Leak({})
  BY <1>1, <1>2, <1>3, <1>4, <1>9 DEF FailAndRetry, ScheduleRetry, Leak
<1>10. CASE FailForGood(j) /\ Leak({})
  BY <1>1, <1>2, <1>3, <1>4, <1>10 DEF FailForGood, Leak, retryVars
<1> QED
  BY <1>5, <1>6, <1>7, <1>8, <1>9, <1>10 DEF ProcessStep

-----------------------------------------------------------------------------
(* One place for every task *)

\* Steps that only end what is pending and unwritten.
LEMMA PlacesShrink ==
    ASSUME OnePlace, UNCHANGED <<stream, zset, due, popped, unsent>>,
           \A e \in 1..Len(stream) : Pending(e)' => Pending(e),
           \A k \in jobs' : Unwritten(k)' => k \in jobs /\ Unwritten(k)
    PROVE  /\ OnePlace'
           /\ \A t \in Tasks : Forgotten(t) => Forgotten(t)'
<1>1. OnePlace'
  BY DEF OnePlace, TaskOf
<1>2. \A t \in Tasks : Forgotten(t) => Forgotten(t)'
  BY DEF Forgotten, TaskOf
<1> QED
  BY <1>1, <1>2

\* write_batch ends what its worker had to write.
LEMMA WriteEnds ==
    ASSUME TypeOK, Bookkeeping, NEW w \in Workers, WriteOutcomes(w)
    PROVE  /\ \A e \in 1..Len(stream) : Pending(e)' => Pending(e)
           /\ \A k \in jobs' : Unwritten(k)' => /\ k \in jobs /\ Unwritten(k)
                                               /\ k.worker # w
BY DEF WriteOutcomes, streamVars, Pending, Unwritten, TypeOK, WorkerTypeOK, Job

\* The batch that is acknowledged had nothing left to write.
LEMMA AckEnds ==
    ASSUME TypeOK, Bookkeeping, NEW w \in Workers, AckBatch(w)
    PROVE  /\ \A e \in 1..Len(stream) : Pending(e)' => Pending(e)
           /\ \A k \in jobs' : Unwritten(k)' => k \in jobs /\ Unwritten(k)
BY DEF AckBatch, Ack, EndCycle, JobsOf, Pending, Unwritten, TypeOK, WorkerTypeOK, Job

\* Consume moves entries from the stream to the batch, where they stay pending;
\* nobody is about to write RETRYING for one of them.
LEMMA ConsumePlaces ==
    ASSUME TypeOK, Bookkeeping, SingleExecution, NothingToReclaim, OnePlace,
           NEW w \in Workers, Consume(w), UNCHANGED <<popped, unsent>>
    PROVE  /\ OnePlace'
           /\ \A t \in Tasks : Forgotten(t) => Forgotten(t)'
<1>1. /\ UNCHANGED <<stream, zset, due, popped, unsent>>
      /\ phase[w] = "idle"
      /\ phase' = [phase EXCEPT ![w] = "processing"]
      /\ jobs' = jobs \cup {[worker |-> w, entry |-> e, stage |-> "fetched", seen |-> 0] :
                              e \in Batch(Capacity)}
  BY DEF Consume, ReadGroup, retryVars
<1>2. \A e \in Batch(Capacity) : e \in 1..Len(stream) /\ e > lastDelivered
  BY DEF Batch, Undelivered, TypeOK, StreamTypeOK
<1>3. \A e \in 1..Len(stream) : e > lastDelivered' => e > lastDelivered
  BY WorkerAssumption DEF Consume, ReadGroup, TypeOK, StreamTypeOK, Undelivered
<1>4. \A k \in jobs : /\ k.worker \in Workers /\ k.worker # w /\ phase'[k.worker] = phase[k.worker]
                      /\ k.entry \in 1..Len(stream) /\ k.entry <= lastDelivered
  BY <1>1 DEF TypeOK, WorkerTypeOK, StreamTypeOK, Job, Bookkeeping
<1>5. \A k \in jobs' : \/ k \in jobs
                       \/ /\ k.worker = w /\ k.stage = "fetched"
                          /\ k.entry \in Batch(Capacity)
                          /\ k = [worker |-> w, entry |-> k.entry, stage |-> "fetched",
                                  seen |-> 0]
  BY <1>1
<1>6. \A e \in 1..Len(stream) : Pending(e)' => Pending(e)
  BY <1>2, <1>3, <1>4, <1>5 DEF Pending, Unwritten
<1>7. \A k \in jobs : Unwritten(k)' => Unwritten(k)
  BY <1>4 DEF Unwritten
<1>8. \A k \in jobs : k.stage # "retrying"
  BY <1>4, ModelsAssumption DEF SingleExecution, NothingToReclaim, TypeOK, WorkerTypeOK, Job
<1>9. ASSUME NEW i \in jobs', NEW j \in jobs', Unwritten(i)', Unwritten(j)', TaskOf(i)' = TaskOf(j)'
      PROVE  i = j
  <2>1. ASSUME NEW k \in jobs', Unwritten(k)'
        PROVE  k.entry \in 1..Len(stream) /\ Pending(k.entry)
    BY <1>2, <1>4, <1>5, <1>7, <1>8, <2>1 DEF Pending
  <2>2. stream[i.entry] = stream[j.entry]
    BY <1>1, <1>9 DEF TaskOf
  <2>3. i.entry = j.entry
    BY <1>9, <2>1, <2>2 DEF OnePlace
  <2>4. CASE i \in jobs /\ j \in jobs
    BY <1>7, <1>9, <2>2, <2>4 DEF OnePlace, TaskOf
  <2>5. CASE i \notin jobs \/ j \notin jobs
    BY <1>2, <1>4, <1>5, <2>3, <2>5 DEF TypeOK, StreamTypeOK
  <2> QED
    BY <2>4, <2>5
<1>10. OnePlace'
  BY <1>1, <1>6, <1>9 DEF OnePlace
<1>11. ASSUME NEW t \in Tasks, Forgotten(t) PROVE Forgotten(t)'
  <2>1. ASSUME NEW k \in jobs', TaskOf(k)' = t, Unwritten(k)' PROVE FALSE
    <3>1. CASE k \in jobs
      BY <1>1, <1>7, <1>11, <2>1, <3>1 DEF Forgotten, TaskOf
    <3>2. CASE k \notin jobs
      BY <1>1, <1>2, <1>5, <1>11, <2>1, <3>2 DEF Forgotten, TaskOf, Pending
    <3> QED
      BY <3>1, <3>2
  <2> QED
    BY <1>1, <1>6, <1>11, <2>1 DEF Forgotten
<1> QED
  BY <1>10, <1>11

\* process_task passes its task on, keeps it or gives it up.
LEMMA ProcessPlaces ==
    ASSUME TypeOK, Bookkeeping, EntryHeldOnce, OnePlace, NEW j \in jobs,
           ProcessStep(j), ~ProcessError(j), UNCHANGED <<popped, unsent>>
    PROVE  /\ OnePlace'
           /\ \A t \in Tasks : Forgotten(t) => Forgotten(t)'
           /\ \/ leaked' = leaked
              \/ \E u \in Tasks : /\ leaked' = leaked \cup {u}
                                 /\ taskStatus[u] = "none" /\ Forgotten(u)'
<1>1. /\ j.stage \in InProgress
      /\ UNCHANGED <<streamVars, storeVars, phase, due>>
  BY ProcessMoves
<1>2. PICK i : JobMovesOn(j, i)
  BY ProcessMoves
<1> DEFINE t == TaskOf(j)
<1>3. Unwritten(j) /\ Pending(j.entry) /\ j.entry \in 1..Len(stream) /\ t = stream[j.entry]
  BY <1>1, InProgressIsUnwritten DEF Bookkeeping, TypeOK, StreamTypeOK, TaskOf
<1>4. UNCHANGED <<stream, lastDelivered, pel, phase, due, popped, unsent>>
  BY <1>1 DEF streamVars
<1>5. /\ jobs' = (jobs \ {j}) \cup {i}
      /\ i.worker = j.worker /\ i.entry = j.entry
      /\ \/ i.stage \in InProgress \cup {"completed", "failed"} /\ zset' = zset /\ leaked' = leaked
         \/ /\ i.stage = "missing" /\ zset' = zset
            /\ leaked' = leaked \cup {t} /\ taskStatus[t] = "none"
         \/ i.stage \in {"deferred", "retrying"} /\ zset' = zset \cup {t} /\ leaked' = leaked
  BY <1>2 DEF JobMovesOn
<1> HIDE DEF t
<1>6. \A e \in 1..Len(stream) : Pending(e)' => Pending(e)
  BY <1>3, <1>4, <1>5 DEF Pending, Unwritten
<1>7. \A k \in jobs \ {j} : k.entry # j.entry
  BY DEF EntryHeldOnce
<1>8. j.entry <= lastDelivered /\ ~(j.entry > lastDelivered)
  BY DEF Bookkeeping, TypeOK, StreamTypeOK
<1>9. i.stage \in {"missing", "deferred", "retrying"} => ~Pending(j.entry)'
  BY <1>4, <1>5, <1>7, <1>8 DEF Pending, Unwritten, InProgress, Written
<1>10. \A k \in jobs : TaskOf(k) = t /\ Unwritten(k) => k = j
  BY <1>3 DEF OnePlace, t
<1>11. \A e \in 1..Len(stream) : stream[e] = t /\ Pending(e) => e = j.entry
  BY <1>3 DEF OnePlace
<1>12. t \notin zset \cup popped
  BY <1>3 DEF OnePlace
<1>13. \A k \in jobs' : Unwritten(k)' => k = i \/ (k \in jobs /\ k # j /\ Unwritten(k) /\ TaskOf(k) # t)
  BY <1>4, <1>5, <1>10 DEF Unwritten
<1>14. TaskOf(i)' = t /\ \A k \in jobs : TaskOf(k)' = TaskOf(k)
  BY <1>3, <1>4, <1>5 DEF TaskOf
<1>15. OnePlace'
  <2>1. zset \subseteq zset' /\ zset' \subseteq zset \cup {t}
    BY <1>5
  <2>2. due' \subseteq zset' /\ zset' \cap popped' = {}
    BY <1>4, <1>12, <2>1 DEF OnePlace
  <2>3. ASSUME NEW e \in 1..Len(stream'), Pending(e)'
        PROVE  /\ stream'[e] \notin zset' \cup popped'
               /\ \A f \in 1..Len(stream') : stream'[e] = stream'[f] /\ Pending(f)' => e = f
    <3>1. e \in 1..Len(stream) /\ Pending(e)
      BY <1>4, <1>6, <2>3
    <3>2. stream[e] \notin zset \cup popped
          /\ \A f \in 1..Len(stream) : stream[e] = stream[f] /\ Pending(f) => e = f
      BY <3>1 DEF OnePlace
    <3>3. zset' # zset => stream[e] # t
      BY <1>5, <1>9, <1>11, <2>3, <3>1
    <3> QED
      BY <1>4, <1>6, <2>1, <3>2, <3>3
  <2>4. \A u \in unsent' : u \notin zset' \cup popped' /\ \A e \in 1..Len(stream') : stream'[e] # u
    BY <1>3, <1>4, <2>1 DEF OnePlace
  <2>5. \A k, l \in jobs' : Unwritten(k)' /\ Unwritten(l)' /\ TaskOf(k)' = TaskOf(l)' => k = l
    BY <1>13, <1>14 DEF OnePlace
  <2> QED
    BY <2>2, <2>3, <2>4, <2>5 DEF OnePlace
<1>16. ASSUME NEW u \in Tasks, Forgotten(u) PROVE Forgotten(u)'
  <2>1. u # t
    BY <1>3, <1>16 DEF Forgotten
  <2>2. u \notin zset' \cup popped'
    BY <1>4, <1>5, <1>16, <2>1 DEF Forgotten
  <2>3. \A e \in 1..Len(stream) : stream[e] = u => ~Pending(e)'
    BY <1>6, <1>16 DEF Forgotten
  <2>4. \A k \in jobs' : TaskOf(k)' = u => ~Unwritten(k)'
    BY <1>13, <1>14, <1>16, <2>1 DEF Forgotten
  <2> QED
    BY <1>4, <2>2, <2>3, <2>4 DEF Forgotten
<1>17. ASSUME NEW u, u = t, i.stage = "missing" PROVE Forgotten(u)'
  <2>1. ~Unwritten(i)'
    BY <1>17 DEF Unwritten, InProgress, Written
  <2>2. \A e \in 1..Len(stream) : stream[e] = u => ~Pending(e)'
    BY <1>6, <1>9, <1>11, <1>17
  <2>3. zset' = zset
    BY <1>5, <1>17 DEF InProgress
  <2>4. \A k \in jobs' : TaskOf(k)' = u => ~Unwritten(k)'
    BY <1>13, <1>14, <1>17, <2>1
  <2> QED
    BY <1>4, <1>12, <1>17, <2>2, <2>3, <2>4 DEF Forgotten
<1>18. t \in Tasks
  BY TaskOfType DEF t
<1>19. \/ leaked' = leaked
       \/ \E u \in Tasks : leaked' = leaked \cup {u} /\ taskStatus[u] = "none" /\ Forgotten(u)'
  <2>1. CASE i.stage = "missing"
    BY <1>5, <1>17, <1>18, <2>1 DEF InProgress
  <2> QED
    BY <1>5, <2>1
<1> QED
  BY <1>15, <1>16, <1>19

\* An XADD makes a place for the task it was asked for, and disturbs no other.
LEMMA AppendPlaces ==
    ASSUME TypeOK, Bookkeeping, OnePlace, NEW t \in Tasks, Enqueue(t),
           UNCHANGED <<jobs, phase, zset, due>>, popped' \subseteq popped, unsent' \subseteq unsent,
           t \notin zset \cup popped' \cup unsent',
           \A e \in 1..Len(stream) : stream[e] = t => ~Pending(e)
    PROVE  /\ OnePlace'
           /\ \A u \in Tasks \ {t} : Forgotten(u) => Forgotten(u)'
<1>1. /\ Len(stream') = Len(stream) + 1 /\ Len(stream) \in Nat
      /\ stream'[Len(stream) + 1] = t
      /\ \A e \in 1..Len(stream) : stream'[e] = stream[e]
      /\ lastDelivered' = lastDelivered
  BY DEF Enqueue, TypeOK, StreamTypeOK
<1>2. \A e \in 1..Len(stream') : e = Len(stream) + 1 \/ e \in 1..Len(stream)
  BY <1>1
<1>3. \A e : Pending(e)' <=> Pending(e)
  BY <1>1 DEF Pending, Unwritten
<1>4. \A j \in jobs : TaskOf(j)' = TaskOf(j) /\ (Unwritten(j)' <=> Unwritten(j))
  BY <1>1 DEF TaskOf, Unwritten, Bookkeeping, TypeOK, StreamTypeOK
<1>5. OnePlace'
  <2>1. due' \subseteq zset' /\ zset' \cap popped' = {}
    BY DEF OnePlace
  <2>2. ASSUME NEW e \in 1..Len(stream'), Pending(e)'
        PROVE  /\ stream'[e] \notin zset' \cup popped'
               /\ \A f \in 1..Len(stream') : stream'[e] = stream'[f] /\ Pending(f)' => e = f
    <3>1. CASE e \in 1..Len(stream)
      <4>1. /\ stream[e] \notin zset \cup popped
            /\ \A f \in 1..Len(stream) : stream[e] = stream[f] /\ Pending(f) => e = f
        BY <1>3, <2>2, <3>1 DEF OnePlace
      <4> QED
        BY <1>1, <1>2, <1>3, <2>2, <3>1, <4>1
    <3>2. CASE e = Len(stream) + 1
      BY <1>1, <1>2, <1>3, <3>2
    <3> QED
      BY <1>2, <3>1, <3>2
  <2>3. \A u \in unsent' : u \notin zset' \cup popped' /\ \A e \in 1..Len(stream') : stream'[e] # u
    BY <1>1, <1>2 DEF OnePlace
  <2>4. \A i, j \in jobs' : Unwritten(i)' /\ Unwritten(j)' /\ TaskOf(i)' = TaskOf(j)' => i = j
    BY <1>4 DEF OnePlace
  <2> QED
    BY <2>1, <2>2, <2>3, <2>4 DEF OnePlace
<1>6. ASSUME NEW u \in Tasks, u # t, Forgotten(u) PROVE Forgotten(u)'
  <2>1. u \notin zset' \cup popped'
    BY <1>6 DEF Forgotten
  <2>2. \A e \in 1..Len(stream') : stream'[e] = u => ~Pending(e)'
    BY <1>1, <1>2, <1>3, <1>6 DEF Forgotten
  <2>3. \A j \in jobs' : TaskOf(j)' = u => ~Unwritten(j)'
    BY <1>4, <1>6 DEF Forgotten
  <2> QED
    BY <2>1, <2>2, <2>3 DEF Forgotten
<1> QED
  BY <1>5, <1>6

\* Tasks move from retry:pending to the sweep's list and back, or drop out.
LEMMA RetryPlaces ==
    ASSUME OnePlace, UNCHANGED <<stream, lastDelivered, jobs, phase, unsent>>,
           due' \subseteq zset', zset' \cap popped' = {},
           zset' \cup popped' \subseteq zset \cup popped
    PROVE  /\ OnePlace'
           /\ \A t \in Tasks : Forgotten(t) => Forgotten(t)'
<1>1. \A e : Pending(e)' <=> Pending(e)
  BY DEF Pending, Unwritten
<1>2. \A j \in jobs : TaskOf(j)' = TaskOf(j) /\ (Unwritten(j)' <=> Unwritten(j))
  BY DEF TaskOf, Unwritten
<1>3. OnePlace'
  BY <1>1, <1>2 DEF OnePlace
<1>4. \A t \in Tasks : Forgotten(t) => Forgotten(t)'
  BY <1>1, <1>2 DEF Forgotten
<1> QED
  BY <1>3, <1>4

\* Creation, the retry sweep and a restart of the backend keep every task in its
\* one place, and bring nothing back but a task that is sent for the first time.
LEMMA QuietPlaces ==
    ASSUME TypeOK, Bookkeeping, OnePlace, SingleExecution, CreationStep \/ RetryStep \/ CrashBackend
    PROVE  /\ OnePlace'
           /\ \A t \in Tasks : Forgotten(t) =>
                 \/ Forgotten(t)'
                 \/ t \in unsent \ unsent' /\ creation[RunOf[t]] = "enqueuing"
<1>1. UNCHANGED <<jobs, phase, lastDelivered>>
  BY QuietFrame
<1>2. ~Fault("reply")
  BY HarmlessFaults
<1>3. CASE CreationStep
  <2>1. UNCHANGED <<zset, due, popped>>
    BY <1>3 DEF CreationStep, retryVars
  <2>2. CASE \E t \in Tasks : EnqueueTask(t)
    <3>1. PICK t \in Tasks : EnqueueTask(t)
      BY <2>2
    <3>2. /\ t \in unsent /\ unsent' = unsent \ {t} /\ Enqueue(t)
          /\ creation[RunOf[t]] = "enqueuing"
      BY <3>1 DEF EnqueueTask
    <3>3. t \notin zset \cup popped /\ \A e \in 1..Len(stream) : stream[e] # t
      BY <3>2 DEF OnePlace
    <3>4. OnePlace' /\ \A u \in Tasks \ {t} : Forgotten(u) => Forgotten(u)'
      BY <1>1, <2>1, <3>2, <3>3, AppendPlaces
    <3> QED
      BY <3>2, <3>4
  <2>3. CASE ~\E t \in Tasks : EnqueueTask(t)
    <3>1. UNCHANGED <<stream, unsent>>
      BY <1>2, <1>3, <2>3 DEF CreationStep, StartRun, EnqueueTaskFails, CommitRun, CommitRunFails,
         streamVars
    <3> QED
      BY <1>1, <2>1, <3>1, RetryPlaces DEF OnePlace
  <2> QED
    BY <2>2, <2>3
<1>4. CASE RetryStep
  <2>1. unsent' = unsent
    BY <1>4 DEF RetryStep, creationVars
  <2>2. CASE \E t \in popped : RetryEnqueue(t)
    <3>1. PICK t \in popped : RetryEnqueue(t)
      BY <2>2
    <3>2. /\ t \in Tasks /\ popped' = popped \ {t} /\ Enqueue(t) /\ UNCHANGED <<zset, due>>
      BY <3>1 DEF RetryEnqueue, TypeOK, SweeperTypeOK, retryVars
    <3>3. /\ t \notin zset \cup unsent
          /\ \A e \in 1..Len(stream) : stream[e] = t => ~Pending(e)
          /\ ~Forgotten(t)
      BY DEF OnePlace, Forgotten
    <3>4. OnePlace' /\ \A u \in Tasks \ {t} : Forgotten(u) => Forgotten(u)'
      BY <1>1, <2>1, <3>2, <3>3, AppendPlaces
    <3> QED
      BY <3>3, <3>4
  <2>3. CASE \E t \in popped : RetryEnqueueFails(t)
    <3>1. PICK t \in popped : RetryEnqueueFails(t)
      BY <2>3
    <3>2. /\ UNCHANGED <<stream, due>> /\ popped' = popped \ {t} /\ zset' = zset \cup {t}
      BY <1>2, <3>1 DEF RetryEnqueueFails, ScheduleRetry, streamVars
    <3> QED
      BY <1>1, <2>1, <3>2, RetryPlaces DEF OnePlace
  <2>4. CASE RetryPop
    <3>1. /\ UNCHANGED stream /\ popped = {}
          /\ zset' = zset \ due /\ due' = {} /\ popped' = due
      BY <2>4 DEF RetryPop, RemoveDue, streamVars, Bookkeeping
    <3> QED
      BY <1>1, <2>1, <3>1, RetryPlaces DEF OnePlace
  <2>5. CASE RetryAbort \/ \E S \in SUBSET zset : RetryScan(S)
    <3>1. /\ UNCHANGED <<stream, zset>> /\ popped' \subseteq popped
          /\ due' = due \/ due' \subseteq zset
      BY <2>5 DEF RetryAbort, RetryScan, ReadDue, streamVars, retryVars
    <3> QED
      BY <1>1, <2>1, <3>1, RetryPlaces DEF OnePlace
  <2>6. ~RetryPopReplyLost
    BY <1>2 DEF RetryPopReplyLost
  <2> QED
    BY <1>4, <2>2, <2>3, <2>4, <2>5, <2>6 DEF RetryStep
<1>5. CASE CrashBackend
  BY <1>1, <1>5, RetryPlaces DEF CrashBackend, streamVars, OnePlace
<1> QED
  BY <1>3, <1>4, <1>5

\* No step puts a task in a second place, or refers again to one that nothing
\* refers to; but a task is sent, once.
LEMMA PlacesStep ==
    ASSUME TypeOK, Bookkeeping, EntryHeldOnce, OnePlace, NothingToReclaim, SingleExecution,
           [Next]_vars
    PROVE  /\ OnePlace'
           /\ \A t \in Tasks : Forgotten(t) =>
                 \/ Forgotten(t)'
                 \/ t \in unsent \ unsent' /\ creation[RunOf[t]] = "enqueuing"
<1>1. CASE CreationStep \/ RetryStep \/ CrashBackend
  BY <1>1, QuietPlaces
<1>2. ASSUME NEW w \in Workers, WorkerStep(w)
      PROVE  OnePlace' /\ \A t \in Tasks : Forgotten(t) => Forgotten(t)'
  <2>1. UNCHANGED <<popped, unsent>>
    BY <1>2 DEF WorkerStep, creationVars
  <2>2. CASE \E j \in JobsOf(w) : ProcessStep(j) /\ ~ProcessError(j)
    BY <2>1, <2>2, ProcessPlaces DEF JobsOf
  <2>3. CASE Consume(w)
    BY <2>1, <2>3, ConsumePlaces
  <2>4. CASE WriteOutcomes(w)
    <3>1. UNCHANGED <<stream, zset, due>>
      BY <2>4 DEF WriteOutcomes, streamVars, retryVars
    <3> QED
      BY <2>1, <2>4, <3>1, WriteEnds, PlacesShrink
  <2>5. CASE AckBatch(w)
    <3>1. UNCHANGED <<stream, zset, due>>
      BY <2>5 DEF AckBatch, Ack, EndCycle, retryVars
    <3> QED
      BY <2>1, <2>5, <3>1, AckEnds, PlacesShrink
  <2> QED
    BY <1>2, <2>2, <2>3, <2>4, <2>5, WorkerSteps
<1>3. CASE UNCHANGED vars
  BY <1>3, RetryPlaces DEF vars, streamVars, retryVars, workerVars, creationVars, OnePlace
<1> QED
  BY <1>1, <1>2, <1>3, NoReclaim DEF Next

\* Whatever is delivered stays in live hands until it is acknowledged.
LEMMA NothingToReclaimStep ==
    ASSUME TypeOK, Bookkeeping, OnePlace, NothingToReclaim, SingleExecution, [Next]_vars
    PROVE  NothingToReclaim'
<1>1. CASE CreationStep \/ RetryStep \/ CrashBackend
  <2>1. UNCHANGED <<jobs, pel>> /\ claimed' = {} /\ copied' = {}
    BY <1>1, QuietFrame DEF CreationStep, RetryStep, CrashBackend, StartRun, EnqueueTask,
       EnqueueTaskFails, CommitRun, CommitRunFails, RetryScan, RetryPop, RetryPopReplyLost,
       RetryEnqueue, RetryEnqueueFails, RetryAbort, Enqueue, streamVars, reclaimVars,
       NothingToReclaim
  <2> QED
    BY <2>1 DEF NothingToReclaim, Held
<1>2. ASSUME NEW w \in Workers, WorkerStep(w) PROVE NothingToReclaim'
  <2>1. claimed' = {} /\ copied' = {}
    BY <1>2 DEF WorkerStep, reclaimVars, NothingToReclaim
  <2>2. ASSUME NEW j \in JobsOf(w), ProcessStep(j), ~ProcessError(j) PROVE NothingToReclaim'
    <3>1. j \in jobs
      BY DEF JobsOf
    <3>2. PICK i : JobMovesOn(j, i)
      BY <2>2, <3>1, ProcessMoves
    <3>3. pel' = pel /\ Held' = Held
      BY <2>2, <3>1, <3>2, ProcessMoves DEF JobMovesOn, Held, streamVars
    <3> QED
      BY <2>1, <3>2, <3>3 DEF NothingToReclaim, JobMovesOn
  <2>3. CASE Consume(w)
    <3> DEFINE job(e) == [worker |-> w, entry |-> e, stage |-> "fetched", seen |-> 0]
    <3>1. /\ pel' = pel \cup Batch(Capacity)
          /\ jobs' = jobs \cup {job(e) : e \in Batch(Capacity)}
      BY <2>3 DEF Consume, ReadGroup
    <3>2. \A e \in Batch(Capacity) : job(e) \in jobs' /\ job(e).entry = e
      BY <3>1
    <3>3. pel' \subseteq Held'
      BY <3>1, <3>2 DEF NothingToReclaim, Held
    <3>4. \A j \in jobs' : j.stage # "error" /\ (j.stage = "retrying" => j.seen < MaxRetries)
      BY <3>1 DEF NothingToReclaim
    <3> QED
      BY <2>1, <3>3, <3>4 DEF NothingToReclaim
  <2>4. CASE WriteOutcomes(w)
    BY <2>1, <2>4 DEF NothingToReclaim, WriteOutcomes, streamVars, Held
  <2>5. CASE AckBatch(w)
    BY <2>1, <2>5 DEF NothingToReclaim, AckBatch, Ack, EndCycle, EntriesToAck, JobsOf, Held
  <2> QED
    BY <1>2, <2>2, <2>3, <2>4, <2>5, WorkerSteps
<1>3. CASE UNCHANGED vars
  BY <1>3 DEF vars, streamVars, workerVars, reclaimVars, NothingToReclaim, Held
<1> QED
  BY <1>1, <1>2, <1>3, NoReclaim DEF Next

-----------------------------------------------------------------------------
(* The counters *)

\* What a batch does to the rows of its tasks when it has one outcome for each.
LEMMA WriteRow ==
    ASSUME NEW outs, WriteBatch(outs), \A o, p \in outs : o.task = p.task => o = p,
           NEW o \in outs, o.task \in Tasks
    PROVE  taskStatus'[o.task] = o.status
<1>1. PICK p \in outs : p.task = o.task /\ taskStatus'[o.task] = p.status
  BY WriteBatchRow
<1> QED
  BY <1>1

\* One outcome for each task: as many outcomes as tasks.
LEMMA OutcomesCounted ==
    ASSUME NEW outs, IsFiniteSet(outs), \A o, p \in outs : o.task = p.task => o = p,
           NEW r, NEW status,
           NEW T, T = {o.task : o \in {p \in outs : RunOf[p.task] = r /\ p.status = status}}
    PROVE  IsFiniteSet(T) /\ Cardinality(T) = Delta(outs, r, status)
<1> DEFINE S == {p \in outs : RunOf[p.task] = r /\ p.status = status}
           f == [o \in S |-> o.task]
<1>1. S \in SUBSET outs
  OBVIOUS
<1>2. IsFiniteSet(S)
  BY <1>1, FS_Subset
<1>3. f \in Surjection(S, T)
  BY DEF Surjection
<1>4. f \in Injection(S, T)
  BY DEF Injection, IsInjective
<1> QED
  BY <1>2, <1>3, <1>4, FS_Surjection DEF Delta

\* write_batch adds to each counter exactly the tasks that get its status, when no
\* outcome is of a task that is finished.
LEMMA WriteExact ==
    ASSUME StoreTypeOK, NEW outs, IsFiniteSet(outs), outs \subseteq Outcome, WriteBatch(outs),
           \A o, p \in outs : o.task = p.task => o = p,
           \A o \in outs : taskStatus[o.task] \notin Terminal,
           NEW r \in Runs, NEW status \in Terminal
    PROVE  Cardinality(InStatus(r, status)') =
             Cardinality(InStatus(r, status)) + Delta(outs, r, status)
<1> DEFINE T == {o.task : o \in {p \in outs : RunOf[p.task] = r /\ p.status = status}}
<1>1. \A o \in outs : o.task \in Tasks /\ taskStatus'[o.task] = o.status
  BY WriteRow DEF Outcome
<1>2. \A t \in Tasks : (\A o \in outs : o.task # t) => taskStatus'[t] = taskStatus[t]
  BY WriteBatchRow
<1>3. InStatus(r, status)' = InStatus(r, status) \cup T
  BY <1>1, <1>2 DEF InStatus, RunTasks
<1>4. InStatus(r, status) \cap T = {}
  BY DEF InStatus
<1>5. IsFiniteSet(T) /\ Cardinality(T) = Delta(outs, r, status) /\ Cardinality(T) \in Nat
  <2>1. IsFiniteSet(T) /\ Cardinality(T) = Delta(outs, r, status)
    BY OutcomesCounted
  <2> QED
    BY <2>1, FS_CardinalityType
<1>6. IsFiniteSet(InStatus(r, status)) /\ Cardinality(InStatus(r, status)) \in Nat
  <2>1. InStatus(r, status) \in SUBSET Tasks
    BY DEF InStatus, RunTasks
  <2> QED
    BY <2>1, FS_Subset, FS_CardinalityType, ModelsAssumption
<1> HIDE DEF T
<1>7. Cardinality(InStatus(r, status) \cup T) =
        Cardinality(InStatus(r, status)) + Cardinality(T) - Cardinality({})
  BY <1>4, <1>5, <1>6, FS_Union
<1> QED
  BY <1>3, <1>5, <1>6, <1>7, FS_EmptySet

\* The tasks of a run that passed and those that failed, under statuses f.
LEMMA StatusesCounted ==
    ASSUME NEW r \in Runs, NEW f,
           NEW P, P = {t \in RunTasks(r) : f[t] = "completed"},
           NEW F, F = {t \in RunTasks(r) : f[t] = "failed"}
    PROVE  /\ Cardinality(P) \in Nat /\ Cardinality(F) \in Nat
           /\ Cardinality(P) + Cardinality(F) <= TotalTasks(r)
           /\ Cardinality(P) + Cardinality(F) = TotalTasks(r) <=>
                \A t \in RunTasks(r) : f[t] \in Terminal
<1>1. /\ P \in SUBSET RunTasks(r) /\ F \in SUBSET RunTasks(r)
      /\ P \cup F \in SUBSET RunTasks(r) /\ P \cap F = {}
  OBVIOUS
<1>2. IsFiniteSet(P) /\ IsFiniteSet(F)
  BY <1>1, RunTasksFinite, FS_Subset
<1>3. Cardinality(P) \in Nat /\ Cardinality(F) \in Nat
  BY <1>2, FS_CardinalityType
<1>4. Cardinality(P \cup F) = Cardinality(P) + Cardinality(F)
  <2>1. Cardinality(P \cup F) = Cardinality(P) + Cardinality(F) - Cardinality({})
    BY <1>1, <1>2, FS_Union
  <2> QED
    BY <1>3, <2>1, FS_EmptySet
<1>5. /\ Cardinality(P \cup F) <= TotalTasks(r)
      /\ TotalTasks(r) = Cardinality(P \cup F) => RunTasks(r) = P \cup F
  BY <1>1, RunTasksFinite, FS_Subset DEF TotalTasks
<1>6. RunTasks(r) = P \cup F <=> \A t \in RunTasks(r) : f[t] \in Terminal
  BY DEF Terminal
<1>7. RunTasks(r) = P \cup F => TotalTasks(r) = Cardinality(P \cup F)
  BY DEF TotalTasks
<1> QED
  BY <1>3, <1>4, <1>5, <1>6, <1>7

\* The batch of a worker has one outcome for each task, and only of tasks that are
\* not finished.
LEMMA OneOutcome ==
    ASSUME TypeOK, Bookkeeping, OnePlace, FinishedIsForgotten, CommittedSent,
           NEW w \in Workers, BatchDone(w)
    PROVE  /\ \A o, p \in Outcomes(w) : o.task = p.task => o = p
           /\ \A o \in Outcomes(w) : o.task \in Tasks /\ taskStatus[o.task] \in Open
<1>1. \A o \in Outcomes(w) : \E j \in jobs : /\ o = OutcomeOf(j) /\ o.task = TaskOf(j)
                                            /\ Unwritten(j) /\ j.stage \in Written
  BY DEF Outcomes, OutcomeOf, JobsOf, BatchDone, Unwritten
<1>2. \A o, p \in Outcomes(w) : o.task = p.task => o = p
  BY <1>1 DEF OnePlace
<1>3. ASSUME NEW o \in Outcomes(w) PROVE o.task \in Tasks /\ taskStatus[o.task] \in Open
  <2>1. PICK j \in jobs : o.task = TaskOf(j) /\ Unwritten(j) /\ j.stage \in Written
    BY <1>1
  <2>2. o.task \in Tasks
    BY <2>1, TaskOfType
  <2>3. taskStatus[o.task] \notin Terminal
    BY <2>1, <2>2 DEF FinishedIsForgotten, Forgotten
  <2>4. taskStatus[o.task] # "none"
    BY <2>1 DEF CommittedSent
  <2> QED
    BY <2>2, <2>3, <2>4 DEF TypeOK, StoreTypeOK, TaskStatus
<1> QED
  BY <1>2, <1>3

\* The rows change in two kinds of steps only.
LEMMA RowChange ==
    ASSUME SingleExecution, NothingToReclaim, [Next]_vars
    PROVE  \/ UNCHANGED storeVars
           \/ \E w \in Workers : WriteOutcomes(w)
           \/ \E r \in Runs : CommitRun(r) /\ UNCHANGED unsent
<1>1. CASE CreationStep
  BY <1>1 DEF CreationStep, StartRun, EnqueueTask, EnqueueTaskFails, CommitRun, CommitRunFails
<1>2. CASE RetryStep \/ CrashBackend \/ UNCHANGED vars
  BY <1>2 DEF RetryStep, CrashBackend, vars
<1>3. ASSUME NEW w \in Workers, WorkerStep(w) PROVE UNCHANGED storeVars \/ WriteOutcomes(w)
  BY <1>3, WorkerSteps DEF ProcessStep, ReadMissing, ReadTask, Throttle, Succeed, FailAndRetry,
     FailForGood, Consume, AckBatch
<1> QED
  BY <1>1, <1>2, <1>3, NoReclaim DEF Next

\* When a row gets its final status, everything that referred to the task is gone.
LEMMA WriteForgets ==
    ASSUME TypeOK, Bookkeeping, EntryHeldOnce, OnePlace, FinishedIsForgotten, CommittedSent,
           NEW w \in Workers, WriteOutcomes(w), UNCHANGED popped,
           NEW t \in Tasks, taskStatus'[t] \in Terminal, taskStatus[t] \notin Terminal
    PROVE  Forgotten(t)'
<1>1. PICK o \in Outcomes(w) : o.task = t /\ taskStatus'[t] = o.status
  BY WriteBatchRow DEF WriteOutcomes
<1>2. PICK j \in jobs : /\ j.worker = w /\ TaskOf(j) = t
                        /\ j.stage \in Terminal /\ Unwritten(j)
  BY <1>1 DEF Outcomes, OutcomeOf, JobsOf, WriteOutcomes, BatchDone, Unwritten, Terminal, Written
<1>3. /\ Pending(j.entry) /\ j.entry \in 1..Len(stream) /\ stream[j.entry] = t
      /\ ~(j.entry > lastDelivered)
  BY <1>2 DEF Pending, Terminal, Bookkeeping, TypeOK, StreamTypeOK, TaskOf
<1>4. /\ UNCHANGED <<stream, lastDelivered, zset, due, jobs>>
      /\ phase' = [phase EXCEPT ![w] = "acking"]
  BY DEF WriteOutcomes, streamVars, retryVars
<1>5. phase'[w] = "acking"
  BY <1>4 DEF TypeOK, WorkerTypeOK
<1>6. t \notin zset' \cup popped'
  BY <1>3, <1>4 DEF OnePlace
<1>7. \A e \in 1..Len(stream) : stream[e] = t => ~Pending(e)'
  <2> SUFFICES ASSUME NEW e \in 1..Len(stream), stream[e] = t, Pending(e)' PROVE FALSE
    OBVIOUS
  <2>1. e = j.entry
    BY <1>3, WriteEnds DEF OnePlace
  <2>2. PICK k \in jobs : k.entry = j.entry /\ Unwritten(k)'
    BY <1>3, <1>4, <2>1 DEF Pending
  <2>3. k = j
    BY <2>2 DEF EntryHeldOnce
  <2> QED
    BY <1>2, <1>5, <2>2, <2>3 DEF Unwritten
<1>8. \A k \in jobs : TaskOf(k) = t => ~Unwritten(k)'
  <2> SUFFICES ASSUME NEW k \in jobs, TaskOf(k) = t, Unwritten(k)' PROVE FALSE
    OBVIOUS
  <2>1. Unwritten(k)
    BY <1>4, WriteEnds
  <2>2. k = j
    BY <1>2, <2>1 DEF OnePlace
  <2> QED
    BY <1>2, <1>5, <2>2 DEF Unwritten
<1> QED
  BY <1>4, <1>6, <1>7, <1>8 DEF Forgotten, TaskOf

\* Nothing refers to a task from the moment its row has its final status.
LEMMA FinishedStep ==
    ASSUME IInv, ContractInv, SingleExecution, [Next]_vars
    PROVE  FinishedIsForgotten'
<1> USE DEF IInv, ContractInv
<1> SUFFICES ASSUME NEW t \in Tasks, taskStatus'[t] \in Terminal PROVE Forgotten(t)'
  BY DEF FinishedIsForgotten
<1>1. CASE taskStatus[t] \in Terminal
  <2>1. Forgotten(t)
    BY <1>1 DEF FinishedIsForgotten
  <2>2. creation[RunOf[t]] # "enqueuing"
    BY <1>1 DEF CommittedSent, Terminal
  <2> QED
    BY <2>1, <2>2, PlacesStep
<1>2. CASE taskStatus[t] \notin Terminal
  <2>1. CASE UNCHANGED storeVars
    BY <1>2, <2>1 DEF storeVars
  <2>2. CASE \E w \in Workers : WriteOutcomes(w)
    <3>1. PICK w \in Workers : WriteOutcomes(w)
      BY <2>2
    <3>2. UNCHANGED popped
      BY <3>1 DEF WriteOutcomes, Next, vars, CreationStep, RetryStep, ReclaimStep, CrashBackend,
         WorkerStep, workerVars, TypeOK, WorkerTypeOK, BatchDone
    <3> QED
      BY <1>2, <3>1, <3>2, WriteForgets
  <2>3. CASE \E r \in Runs : CommitRun(r)
    BY <1>2, <2>3 DEF CommitRun, InsertRun, TypeOK, StoreTypeOK, Terminal
  <2> QED
    BY <2>1, <2>2, <2>3, RowChange
<1> QED
  BY <1>1, <1>2

\* The counters count exactly the finished tasks, and a run is COMPLETED only when
\* all of its tasks are among them.
LEMMA CountersStep ==
    ASSUME IInv, ContractInv, SingleExecution, [Next]_vars
    PROVE  CountersExact' /\ RunCompletionSound'
<1> USE DEF IInv, ContractInv
<1>1. CASE UNCHANGED storeVars
  BY <1>1 DEF storeVars, CountersExact, RunCompletionSound, InStatus
<1>2. ASSUME NEW w \in Workers, WriteOutcomes(w)
      PROVE  CountersExact' /\ RunCompletionSound'
  <2>1. /\ Outcomes(w) \subseteq Outcome /\ IsFiniteSet(Outcomes(w))
        /\ \A o, p \in Outcomes(w) : o.task = p.task => o = p
        /\ \A o \in Outcomes(w) : o.task \in Tasks /\ taskStatus[o.task] \in Open
        /\ WriteBatch(Outcomes(w))
    BY <1>2, OutcomesType, OneOutcome DEF WriteOutcomes
  <2>2. PICK outs : /\ outs \subseteq Outcome /\ IsFiniteSet(outs) /\ WriteBatch(outs)
                    /\ \A o, p \in outs : o.task = p.task => o = p
                    /\ \A o \in outs : o.task \in Tasks /\ taskStatus[o.task] \in Open
    BY <2>1
  <2>3. \A o \in outs : taskStatus[o.task] \notin Terminal
    BY <2>2 DEF Open, Terminal
  <2>4. /\ \A r \in Runs : completedTasks'[r] = completedTasks[r] + Delta(outs, r, "completed")
        /\ \A r \in Runs : failedTasks'[r] = failedTasks[r] + Delta(outs, r, "failed")
    BY <2>2 DEF WriteBatch
  <2>5. ASSUME NEW r \in Runs, NEW status \in Terminal
        PROVE  Cardinality(InStatus(r, status)') =
                 Cardinality(InStatus(r, status)) + Delta(outs, r, status)
    BY <2>2, <2>3, WriteExact DEF TypeOK
  <2>6. CountersExact'
    BY <2>4, <2>5 DEF CountersExact, Terminal
  <2>7. ASSUME NEW r \in Runs, runStatus'[r] = "completed", NEW t \in RunTasks(r)
        PROVE  taskStatus'[t] \in Terminal
    <3>1. CASE runStatus[r] = "completed"
      <4>1. taskStatus[t] \in Terminal /\ t \in Tasks
        BY <3>1 DEF RunCompletionSound, RunTasks
      <4> QED
        BY <2>2, <2>3, <4>1, WriteBatchRow
    <3>2. CASE runStatus[r] # "completed"
      <4>1. completedTasks'[r] + failedTasks'[r] >= TotalTasks(r)
        BY <2>2, <2>7, <3>2 DEF WriteBatch
      <4>2. /\ completedTasks'[r] = Cardinality(InStatus(r, "completed")')
            /\ failedTasks'[r] = Cardinality(InStatus(r, "failed")')
        BY <2>6 DEF CountersExact
      <4>3. /\ InStatus(r, "completed")' = {u \in RunTasks(r) : taskStatus'[u] = "completed"}
            /\ InStatus(r, "failed")' = {u \in RunTasks(r) : taskStatus'[u] = "failed"}
        BY DEF InStatus
      <4>4. TotalTasks(r) \in Nat
        BY RunTasksFinite
      <4>5. PICK f : f = taskStatus'
        OBVIOUS
      <4>6. \A u \in RunTasks(r) : f[u] \in Terminal
        BY <4>1, <4>2, <4>3, <4>4, <4>5, StatusesCounted
      <4> QED
        BY <4>5, <4>6
    <3> QED
      BY <3>1, <3>2
  <2> QED
    BY <2>6, <2>7 DEF RunCompletionSound
<1>3. ASSUME NEW r \in Runs, CommitRun(r)
      PROVE  CountersExact' /\ RunCompletionSound'
  <2>1. \A t \in RunTasks(r) : taskStatus[t] = "none"
    BY <1>3 DEF CommitRun, CommittedSent, RunTasks
  <2>2. /\ taskStatus' = [t \in Tasks |-> IF RunOf[t] = r THEN "pending" ELSE taskStatus[t]]
        /\ runStatus' = [runStatus EXCEPT ![r] = "running"]
        /\ UNCHANGED <<completedTasks, failedTasks>>
    BY <1>3 DEF CommitRun, InsertRun
  <2>3. \A q \in Runs, status \in Terminal : InStatus(q, status)' = InStatus(q, status)
    BY <2>1, <2>2 DEF InStatus, RunTasks, Terminal
  <2>4. \A q \in Runs : runStatus'[q] = "completed" => q # r /\ runStatus[q] = "completed"
    BY <2>2 DEF TypeOK, StoreTypeOK
  <2>5. \A q \in Runs \ {r} : \A t \in RunTasks(q) : taskStatus'[t] = taskStatus[t]
    BY <2>2 DEF RunTasks
  <2> QED
    BY <2>2, <2>3, <2>4, <2>5 DEF CountersExact, RunCompletionSound, Terminal
<1> QED
  BY <1>1, <1>2, <1>3, RowChange

\* ContractInv is inductive together with IInv.
LEMMA ContractStep ==
    ASSUME IInv, ContractInv, SingleExecution, [Next]_vars
    PROVE  ContractInv'
BY PlacesStep, NothingToReclaimStep, FinishedStep, CountersStep DEF IInv, ContractInv

LEMMA ContractStart ==
    ASSUME Init
    PROVE  ContractInv
<1>1. /\ stream = <<>> /\ lastDelivered = 0 /\ pel = {} /\ zset = {} /\ due = {} /\ popped = {}
      /\ jobs = {} /\ claimed = {} /\ copied = {}
      /\ taskStatus = [t \in Tasks |-> "none"] /\ runStatus = [r \in Runs |-> "none"]
      /\ completedTasks = [r \in Runs |-> 0] /\ failedTasks = [r \in Runs |-> 0]
  BY DEF Init, StreamInit, RetryInit, SweeperInit, WorkerInit, ReclaimInit, StoreInit
<1>2. \A r \in Runs, status \in Terminal : InStatus(r, status) = {}
  BY <1>1 DEF InStatus, RunTasks, Terminal
<1>3. NothingToReclaim /\ OnePlace
  BY <1>1 DEF NothingToReclaim, Held, OnePlace
<1>4. FinishedIsForgotten
  BY <1>1 DEF FinishedIsForgotten, Terminal
<1>5. CountersExact
  BY <1>1, <1>2, FS_EmptySet DEF CountersExact, Terminal
<1>6. RunCompletionSound
  BY <1>1 DEF RunCompletionSound
<1> QED
  BY <1>3, <1>4, <1>5, <1>6 DEF ContractInv

-----------------------------------------------------------------------------
(* The steps of the pipeline are steps of the contract *)

\* The final status of a task: what a reader of the rows sees of it.
Final == [t \in Tasks |-> IF taskStatus[t] \in Open THEN "open" ELSE taskStatus[t]]

\* final is read off the rows.
LEMMA FinalStatus ==
    /\ Final = [t \in Tasks |-> IF taskStatus[t] \in Open THEN "open" ELSE taskStatus[t]]
    /\ \A t \in Tasks, s \in Terminal : Final[t] = s <=> taskStatus[t] = s
    /\ \A t \in Tasks, s \in Terminal : Final'[t] = s <=> taskStatus'[t] = s
BY DEF Final, Open, Terminal

\* The counters and the status of every run after a step, read off the final
\* statuses of its tasks.
LEMMA RunsFollow ==
    ASSUME IInv, IInv', ContractInv', SettledRunIsCompleted', NEW w \in Workers, WriteOutcomes(w)
    PROVE  /\ completedTasks' = [r \in Runs |-> Cardinality({t \in RunTasks(r) : Final'[t] = "completed"})]
           /\ failedTasks' = [r \in Runs |-> Cardinality({t \in RunTasks(r) : Final'[t] = "failed"})]
           /\ runStatus' = [r \in Runs |-> IF \A t \in RunTasks(r) : Final'[t] \in Terminal
                                           THEN "completed" ELSE runStatus[r]]
<1>1. ASSUME NEW r \in Runs
      PROVE  /\ InStatus(r, "completed")' = {t \in RunTasks(r) : Final'[t] = "completed"}
             /\ InStatus(r, "failed")' = {t \in RunTasks(r) : Final'[t] = "failed"}
             /\ (\A t \in RunTasks(r) : Final'[t] \in Terminal)
                  <=> \A t \in RunTasks(r) : taskStatus'[t] \in Terminal
  BY FinalStatus DEF InStatus, RunTasks, Terminal
<1>2. /\ completedTasks' \in [Runs -> Nat] /\ failedTasks' \in [Runs -> Nat]
      /\ runStatus' \in [Runs -> RunStatus]
  BY DEF IInv, TypeOK, StoreTypeOK
<1>3. \A r \in Runs : /\ completedTasks'[r] = Cardinality(InStatus(r, "completed")')
                      /\ failedTasks'[r] = Cardinality(InStatus(r, "failed")')
  BY DEF ContractInv, CountersExact
<1>4. ASSUME NEW r \in Runs
      PROVE  runStatus'[r] = IF \A t \in RunTasks(r) : taskStatus'[t] \in Terminal
                             THEN "completed" ELSE runStatus[r]
  <2>1. runStatus'[r] \in {"completed", runStatus[r]}
    BY DEF WriteOutcomes, WriteBatch
  <2>2. CASE \A t \in RunTasks(r) : taskStatus'[t] \in Terminal
    <3>1. PICK t \in RunTasks(r) : RunOf[t] = r
      BY ModelsAssumption DEF RunTasks
    <3>2. taskStatus'[t] # "none" /\ t \in Tasks
      BY <2>2 DEF RunTasks, Terminal
    <3>3. creation'[r] = "committed"
      BY <3>1, <3>2 DEF IInv, CommittedSent
    <3>4. runStatus'[r] # "none"
      BY <3>3 DEF IInv, ProgressCounted
    <3> QED
      BY <2>2, <3>4 DEF SettledRunIsCompleted
  <2>3. CASE ~\A t \in RunTasks(r) : taskStatus'[t] \in Terminal
    BY <2>1, <2>3 DEF ContractInv, RunCompletionSound
  <2> QED
    BY <2>2, <2>3
<1>5. /\ \A r \in Runs : completedTasks'[r] =
                           Cardinality({t \in RunTasks(r) : Final'[t] = "completed"})
      /\ \A r \in Runs : failedTasks'[r] =
                           Cardinality({t \in RunTasks(r) : Final'[t] = "failed"})
  BY <1>1, <1>3
<1>6. \A r \in Runs : runStatus'[r] = IF \A t \in RunTasks(r) : Final'[t] \in Terminal
                                      THEN "completed" ELSE runStatus[r]
  BY <1>1, <1>4
<1> QED
  BY <1>2, <1>5, <1>6

\* A batch either gives the tasks of its finished outcomes their final status, or
\* writes retries only and shows nothing.
LEMMA WriteSettles ==
    ASSUME IInv, ContractInv, IInv', ContractInv', SettledRunIsCompleted',
           NEW w \in Workers, WriteOutcomes(w)
    PROVE  \/ Final' = Final /\ UNCHANGED <<runStatus, completedTasks, failedTasks>>
           \/ \E S \in SUBSET Tasks :
                /\ S # {} /\ \A t \in S : Final[t] = "open"
                /\ \E outcome \in [S -> Terminal] :
                     Final' = [t \in Tasks |-> IF t \in S THEN outcome[t] ELSE Final[t]]
<1>1. /\ WriteBatch(Outcomes(w)) /\ Outcomes(w) \subseteq Outcome
      /\ \A o, p \in Outcomes(w) : o.task = p.task => o = p
      /\ \A o \in Outcomes(w) : o.task \in Tasks /\ taskStatus[o.task] \in Open
  BY OutcomesType, OneOutcome DEF WriteOutcomes, IInv, ContractInv
<1>2. \A o \in Outcomes(w) : taskStatus'[o.task] = o.status
  BY <1>1, WriteRow
<1>3. \A t \in Tasks : (\A o \in Outcomes(w) : o.task # t) => taskStatus'[t] = taskStatus[t]
  BY <1>1, WriteBatchRow
<1> DEFINE S == {t \in Tasks : \E o \in Outcomes(w) : o.task = t /\ o.status \in Terminal}
           outcome == [t \in S |-> taskStatus'[t]]
<1>4. /\ \A t \in S : taskStatus[t] \in Open /\ taskStatus'[t] \in Terminal
      /\ \A t \in Tasks \ S : \/ taskStatus'[t] = taskStatus[t]
                              \/ taskStatus[t] \in Open /\ taskStatus'[t] \in Open
  BY <1>1, <1>2, <1>3 DEF Outcome, Open
<1>5. /\ \A t \in S : Final[t] = "open" /\ Final'[t] = taskStatus'[t]
      /\ \A t \in Tasks \ S : Final'[t] = Final[t]
  BY <1>4 DEF Final, Open, Terminal
<1>6. CASE S = {}
  <2>1. Final' = Final
    BY <1>5, <1>6 DEF Final
  <2>2. FinishedRuns(Outcomes(w)) = {}
    BY <1>1, <1>6 DEF FinishedRuns
  <2>3. runStatus' = runStatus
    BY <1>1, <2>2 DEF WriteBatch, IInv, TypeOK, StoreTypeOK
  <2>4. \A r \in Runs, status \in Terminal : InStatus(r, status)' = InStatus(r, status)
    BY <1>4, <1>6 DEF InStatus, RunTasks, Open, Terminal
  <2>5. completedTasks' = completedTasks /\ failedTasks' = failedTasks
    BY <2>4 DEF ContractInv, CountersExact, IInv, TypeOK, StoreTypeOK, Terminal
  <2> QED
    BY <2>1, <2>3, <2>5
<1>7. CASE S # {}
  <2>1. outcome \in [S -> Terminal] /\ S \in SUBSET Tasks
    BY <1>4
  <2>2. Final' = [t \in Tasks |-> IF t \in S THEN outcome[t] ELSE Final[t]]
    <3>1. Final' = [t \in Tasks |-> Final'[t]]
      BY DEF Final
    <3> QED
      BY <1>5, <3>1
  <2>3. \A t \in S : Final[t] = "open"
    BY <1>5
  <2> HIDE DEF S, outcome
  <2> QED
    BY <1>7, <2>1, <2>2, <2>3
<1> QED
  BY <1>6, <1>7

\* Every step of the pipeline is a step of the contract, or shows nothing.
LEMMA StepKeepsContract ==
    ASSUME IInv, ContractInv, IInv', ContractInv', SettledRunIsCompleted', SingleExecution,
           [Next]_vars
    PROVE  [Contract!ContractNext]_(Contract!contractVars)
<1>1. CASE UNCHANGED storeVars
  BY <1>1 DEF storeVars, Contract!contractVars
<1>2. ASSUME NEW r \in Runs, CommitRun(r) PROVE Contract!Appear(r)
  <2>1. creation[r] # "committed"
    BY <1>2 DEF CommitRun
  <2>2. runStatus[r] = "none"
    BY <2>1 DEF IInv, ProgressCounted
  <2>3. /\ taskStatus' = [t \in Tasks |-> IF RunOf[t] = r THEN "pending" ELSE taskStatus[t]]
        /\ runStatus' = [runStatus EXCEPT ![r] = "running"]
        /\ UNCHANGED <<completedTasks, failedTasks>>
    BY <1>2 DEF CommitRun, InsertRun
  <2>4. Final' = [t \in Tasks |-> IF RunOf[t] = r THEN "open" ELSE Final[t]]
    BY <2>3 DEF Final, Open
  <2> QED
    BY <2>2, <2>3, <2>4 DEF Contract!Appear, Final
<1>3. ASSUME NEW w \in Workers, WriteOutcomes(w)
      PROVE  [\E S \in SUBSET Tasks : Contract!Settle(S)]_(Contract!contractVars)
  <2>1. CASE Final' = Final /\ UNCHANGED <<runStatus, completedTasks, failedTasks>>
    BY <2>1 DEF Contract!contractVars, Final
  <2>2. ASSUME NEW S \in SUBSET Tasks, S # {}, \A t \in S : Final[t] = "open",
               \E outcome \in [S -> Terminal] :
                 Final' = [t \in Tasks |-> IF t \in S THEN outcome[t] ELSE Final[t]]
        PROVE  Contract!Settle(S)
    BY <1>3, <2>2, RunsFollow DEF Contract!Settle, Contract!WithStatus, Contract!RunTasks, RunTasks,
       Contract!Terminal, Terminal, Contract!Cardinality, Cardinality, Final
  <2> QED
    BY <1>3, <2>1, <2>2, WriteSettles
<1> QED
  BY <1>1, <1>2, <1>3, RowChange DEF Contract!ContractNext, ContractInv

LEMMA StartKeepsContract == Init => Contract!ContractInit
BY DEF Init, StoreInit, Contract!ContractInit, Open

-----------------------------------------------------------------------------
(* The theorems *)

\* Under single execution every task is in one place, a finished task is referred to
\* by nothing, and the counters count exactly the finished tasks.
THEOREM ContractInvariance == ASSUME SingleExecution PROVE Spec => []ContractInv
<1>1. Init => IInv /\ ContractInv
  BY InitIInv, ContractStart
<1>2. IInv /\ ContractInv /\ [Next]_vars => (IInv /\ ContractInv)'
  BY NextIInv, ContractStep
<1> QED
  BY <1>1, <1>2, PTL DEF Spec

\* A run is COMPLETED only when all of its tasks are finished: what a second execution
\* breaks (duplicate_ack) holds without one.
THEOREM CompletionIsSound == ASSUME SingleExecution PROVE Spec => []RunCompletionSound
<1>1. ContractInv => RunCompletionSound
  BY DEF ContractInv
<1> QED
  BY <1>1, ContractInvariance, PTL

\* The pipeline implements RunContract: a run appears with all its tasks, each task
\* gets one final status for ever, and counters and run status follow in the same step.
THEOREM ContractIsKept == ASSUME SingleExecution PROVE Spec => KeepsContract
<1> DEFINE Inv == IInv /\ ContractInv /\ SettledRunIsCompleted
<1>1. Init => Contract!ContractInit
  BY StartKeepsContract
<1>2. Inv /\ Inv' /\ [Next]_vars => [Contract!ContractNext]_(Contract!contractVars)
  BY StepKeepsContract
<1>3. Spec => []Inv
  BY Invariance, ContractInvariance, SettledRunsAreCompleted, PTL
<1> HIDE DEF Inv
<1> QED
  BY <1>1, <1>2, <1>3, PTL DEF KeepsContract, Contract!ContractSpec, Spec

-----------------------------------------------------------------------------
(* Retries come back *)

\* A step does not take a leaked task up again.
LEMMA LeakedStaysForgotten ==
    ASSUME IInv, ContractInv, SingleExecution, LeakedIsForgotten, [Next]_vars, NEW t \in leaked
    PROVE  /\ Forgotten(t)'
           /\ taskStatus'[t] # "retrying"
           /\ t \in unsent' => creation'[RunOf[t]] \notin {"new", "enqueuing"}
<1> USE DEF IInv, ContractInv
<1>1. /\ t \in Tasks /\ Forgotten(t) /\ taskStatus[t] # "retrying"
      /\ t \in unsent => creation[RunOf[t]] \notin {"new", "enqueuing"}
  BY DEF LeakedIsForgotten, TypeOK
<1>2. Forgotten(t)'
  BY <1>1, PlacesStep
<1>3. taskStatus'[t] # "retrying"
  <2>1. ASSUME NEW w \in Workers, WriteOutcomes(w) PROVE taskStatus'[t] = taskStatus[t]
    <3>1. \A o \in Outcomes(w) : o.task # t
      BY <1>1, <2>1 DEF Outcomes, OutcomeOf, JobsOf, WriteOutcomes, BatchDone, Forgotten, Unwritten
    <3> QED
      BY <1>1, <2>1, <3>1, WriteBatchRow DEF WriteOutcomes
  <2> QED
    BY <1>1, <2>1, RowChange DEF storeVars, CommitRun, InsertRun
<1>4. t \in unsent' => creation'[RunOf[t]] \notin {"new", "enqueuing"}
  <2>1. unsent' \subseteq unsent
    BY SentMonotone
  <2>2. RunOf[t] \in Runs
    BY <1>1, ModelsAssumption
  <2>3. \A r \in Runs : creation[r] \notin {"new", "enqueuing"} =>
                          creation'[r] \notin {"new", "enqueuing"}
    BY DEF Next, vars, creationVars, CreationStep, WorkerStep, RetryStep, ReclaimStep, CrashBackend,
       StartRun, EnqueueTask, EnqueueTaskFails, CommitRun, CommitRunFails, TypeOK, CreationTypeOK
  <2> QED
    BY <1>1, <2>1, <2>2, <2>3
<1> QED
  BY <1>2, <1>3, <1>4

\* What is leaked when neither the backend nor Redis goes down: a task whose row a
\* worker did not find, or the tasks that an XADD left unsent.
LEMMA NewlyLeaked ==
    ASSUME IInv, ContractInv, SingleExecution, Faults \cap {"backend", "outage"} = {},
           [Next]_vars, NEW t \in leaked', t \notin leaked
    PROVE  /\ Forgotten(t)'
           /\ taskStatus'[t] # "retrying"
           /\ t \in unsent' => creation'[RunOf[t]] \notin {"new", "enqueuing"}
<1> USE DEF IInv, ContractInv
<1>1. ~Fault("backend") /\ ~Fault("outage") /\ ~Fault("reply")
  BY HarmlessFaults DEF Fault
<1>2. ASSUME NEW w \in Workers, NEW j \in JobsOf(w), WorkerStep(w), ProcessStep(j),
             ~ProcessError(j)
      PROVE  Forgotten(t)' /\ taskStatus'[t] = "none" /\ t \notin unsent'
  <2>1. UNCHANGED <<popped, unsent>> /\ j \in jobs
    BY <1>2 DEF WorkerStep, creationVars, JobsOf
  <2>2. PICK i : JobMovesOn(j, i)
    BY <1>2, <2>1, ProcessMoves
  <2>3. t = TaskOf(j)
    BY <2>2 DEF JobMovesOn
  <2>4. t \notin unsent
    BY <2>1, <2>3 DEF OnePlace, Bookkeeping, TypeOK, StreamTypeOK, TaskOf
  <2>5. \E u \in Tasks : leaked' = leaked \cup {u} /\ taskStatus[u] = "none" /\ Forgotten(u)'
    BY <1>2, <2>1, ProcessPlaces
  <2>6. taskStatus[t] = "none" /\ Forgotten(t)'
    BY <2>5
  <2> QED
    BY <1>2, <2>1, <2>4, <2>6, ProcessMoves DEF storeVars
<1>3. ASSUME NEW u \in Tasks, CreationStep, EnqueueTaskFails(u),
             t \in unsent' \cap RunTasks(RunOf[u])
      PROVE  /\ Forgotten(t)' /\ taskStatus'[t] = "none"
             /\ creation'[RunOf[t]] \in {"swallowed", "aborted"}
  <2>1. /\ UNCHANGED <<unsent, stream, zset, popped, jobs>>
        /\ creation[RunOf[u]] = "enqueuing" /\ RunOf[u] \in Runs /\ RunOf[t] = RunOf[u]
        /\ t \in unsent /\ t \in Tasks /\ taskStatus' = taskStatus
    BY <1>1, <1>3, ModelsAssumption DEF EnqueueTaskFails, CreationStep, streamVars, retryVars,
       workerVars, RunTasks, storeVars
  <2>2. creation'[RunOf[t]] \in {"swallowed", "aborted"}
    BY <1>3, <2>1 DEF EnqueueTaskFails, TypeOK, CreationTypeOK
  <2>3. taskStatus[t] = "none"
    BY <2>1 DEF CommittedSent
  <2>4. t \notin zset \cup popped /\ \A e \in 1..Len(stream) : stream[e] # t
    BY <2>1 DEF OnePlace
  <2>5. \A j \in jobs : stream[j.entry] # t
    BY <2>4 DEF Bookkeeping, TypeOK, StreamTypeOK
  <2>6. Forgotten(t)'
    BY <2>1, <2>4, <2>5 DEF Forgotten, TaskOf
  <2> QED
    BY <2>1, <2>2, <2>3, <2>6
<1>4. ASSUME NEW w \in Workers, WorkerStep(w)
      PROVE  \E j \in JobsOf(w) : ProcessStep(j) /\ ~ProcessError(j)
  <2>1. \E j \in JobsOf(w) : ProcessStep(j)
    BY <1>4 DEF WorkerStep, Leak
  <2>2. \A j : ~ProcessError(j)
    BY HarmlessFaults DEF ProcessError
  <2> QED
    BY <2>1, <2>2
<1>5. ~RetryStep /\ ~CrashBackend /\ ~UNCHANGED vars
  BY <1>1 DEF RetryStep, RetryPopReplyLost, RetryAbort, CrashBackend, Leak, vars
<1>6. CreationStep => \E u \in Tasks : EnqueueTaskFails(u) /\ t \in unsent' \cap RunTasks(RunOf[u])
  BY DEF CreationStep, Leak
<1> QED
  BY <1>2, <1>3, <1>4, <1>5, <1>6, NoReclaim DEF Next

\* When no attempt is executed twice and neither the backend nor Redis goes down, the
\* tasks the pipeline loses sight of are in nobody's hands: those that were never sent,
\* and those whose rows a worker could not see.
THEOREM LeakedIsAtRest ==
    ASSUME SingleExecution, Faults \cap {"backend", "outage"} = {}
    PROVE  Spec => []LeakedIsForgotten
<1> DEFINE Inv == IInv /\ ContractInv /\ LeakedIsForgotten
<1>1. Init => Inv
  BY InitIInv, ContractStart DEF Init, LeakedIsForgotten
<1>2. Inv /\ [Next]_vars => Inv'
  <2>1. ASSUME IInv, ContractInv, LeakedIsForgotten, [Next]_vars PROVE LeakedIsForgotten'
    BY <2>1, LeakedStaysForgotten, NewlyLeaked DEF LeakedIsForgotten
  <2> QED
    BY <2>1, NextIInv, ContractStep
<1>3. Inv => LeakedIsForgotten
  OBVIOUS
<1> HIDE DEF Inv
<1> QED
  BY <1>1, <1>2, <1>3, PTL DEF Spec

\* Under the same conditions a RETRYING task is always on its way back to a worker
\* (the promise of scheduler/retry_sweeper.py).
THEOREM RetriesComeBack ==
    ASSUME SingleExecution, Faults \cap {"backend", "outage"} = {}
    PROVE  Spec => []RetryingComesBack
<1>1. LeakedIsForgotten /\ NoTaskLost /\ TypeOK => RetryingComesBack
  BY DEF LeakedIsForgotten, NoTaskLost, RetryingComesBack, Open
<1> QED
  BY <1>1, LeakedIsAtRest, NothingLost, TypeCorrectness, PTL
=============================================================================
