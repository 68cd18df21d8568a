------------------------------- MODULE Worker -------------------------------
(***************************************************************************)
(* The worker process (worker/main.py, worker/task_processor.py and        *)
(* worker/result_writer.py).  A worker reads a batch of entries, processes *)
(* them concurrently (asyncio.gather), writes all outcomes in one          *)
(* transaction and acknowledges the batch.                                 *)
(*                                                                         *)
(* A job is one _process_entry of a batch.  Its stage is where             *)
(* process_task stands or how it ended; seen is the retry_count it read.   *)
(*                                                                         *)
(*   fetched                 read from the stream                          *)
(*   executing, unresolved   row and chain context read; unresolved if the *)
(*                           request uses a variable the context lacks     *)
(*   completed, retrying,    returned a TaskOutcome                        *)
(*   failed                                                                *)
(*   missing, deferred       TaskProcessingError, RateLimitedError: to be  *)
(*                           acknowledged, nothing to write                *)
(*   error                   any other exception: not to be acknowledged   *)
(***************************************************************************)
EXTENDS TaskStream, RetryQueue, RunStore, Faults

CONSTANTS
    Workers,
    Capacity,   \* worker_capacity, the COUNT of XREADGROUP
    Needs       \* the tasks of its run whose extracted variables a task uses

ASSUME WorkerAssumption ==
    /\ Capacity \in Nat \ {0}
    /\ Needs \in [Tasks -> SUBSET Tasks]

VARIABLES
    jobs,      \* the _process_entry calls of the batches in hand
    phase,     \* where each worker's _consume_loop stands
    context    \* RunContext: the tasks whose variables have been merged

workerVars == <<jobs, phase, context>>

InProgress == {"fetched", "executing", "unresolved"}
Written == {"completed", "retrying", "failed"}
Stage == InProgress \cup Written \cup {"missing", "deferred", "error"}
Job == [worker : Workers, entry : Nat, stage : Stage, seen : Nat]

WorkerTypeOK ==
    /\ jobs \subseteq Job
    /\ IsFiniteSet(jobs)
    /\ phase \in [Workers -> {"idle", "processing", "acking"}]
    /\ context \subseteq Tasks

WorkerInit ==
    /\ jobs = {}
    /\ phase = [w \in Workers |-> "idle"]
    /\ context = {}

JobsOf(w) == {j \in jobs : j.worker = w}
TaskOf(j) == stream[j.entry]
Held == {j.entry : j \in jobs}

MoveTo(j, stage, seen) ==
    jobs' = (jobs \ {j}) \cup {[j EXCEPT !.stage = stage, !.seen = seen]}

\* _consume_loop up to the gather
Consume(w) ==
    /\ phase[w] = "idle"
    /\ ReadGroup(Capacity)
    /\ jobs' = jobs \cup {[worker |-> w, entry |-> e, stage |-> "fetched", seen |-> 0] :
                             e \in Batch(Capacity)}
    /\ phase' = [phase EXCEPT ![w] = "processing"]
    /\ NoFault
    /\ UNCHANGED <<context, retryVars, storeVars>>

-----------------------------------------------------------------------------
(* process_task *)

\* A row process_task needs is not visible: TaskProcessingError.
ReadMissing(j) ==
    /\ j.stage = "fetched"
    /\ taskStatus[TaskOf(j)] = "none"
    /\ MoveTo(j, "missing", 0)
    /\ NoFault
    /\ UNCHANGED <<phase, context, streamVars, retryVars, storeVars>>

\* _check_rate_limit: no token left, so reschedule without an attempt.
Throttle(j) ==
    /\ j.stage = "fetched"
    /\ taskStatus[TaskOf(j)] # "none"
    /\ Fault("throttle")
    /\ ScheduleRetry(TaskOf(j))
    /\ MoveTo(j, "deferred", 0)
    /\ UNCHANGED <<phase, context, streamVars, storeVars>>

\* The rows and the chain context are read; whatever the status of the task.
ReadTask(j) ==
    /\ j.stage = "fetched"
    /\ taskStatus[TaskOf(j)] # "none"
    /\ MoveTo(j, IF Needs[TaskOf(j)] \subseteq context THEN "executing" ELSE "unresolved",
              retryCount[TaskOf(j)])
    /\ NoFault
    /\ UNCHANGED <<phase, context, streamVars, retryVars, storeVars>>

\* The request, its assertions and its extract rules all succeed.
Succeed(j) ==
    /\ j.stage = "executing"
    /\ context' = context \cup {TaskOf(j)}
    /\ MoveTo(j, "completed", j.seen)
    /\ NoFault
    /\ UNCHANGED <<phase, streamVars, retryVars, storeVars>>

\* One of them fails (an unresolved variable always does) with attempts left:
\* the retry is scheduled here, before the outcome is written.
FailAndRetry(j) ==
    /\ j.stage \in {"executing", "unresolved"}
    /\ j.seen + 1 <= MaxRetries
    /\ ScheduleRetry(TaskOf(j))
    /\ MoveTo(j, "retrying", j.seen)
    /\ NoFault
    /\ UNCHANGED <<phase, context, streamVars, storeVars>>

\* Mutant: the last attempt is not granted.
FailOneShort(j) ==
    /\ j.stage \in {"executing", "unresolved"}
    /\ j.seen + 1 >= MaxRetries
    /\ MoveTo(j, "failed", j.seen)
    /\ NoFault
    /\ UNCHANGED <<phase, context, streamVars, retryVars, storeVars>>

\* Mutant: the retry is scheduled before it is known whether an attempt is left.
FailScheduled(j) ==
    /\ j.stage \in {"executing", "unresolved"}
    /\ j.seen + 1 > MaxRetries
    /\ ScheduleRetry(TaskOf(j))
    /\ MoveTo(j, "failed", j.seen)
    /\ NoFault
    /\ UNCHANGED <<phase, context, streamVars, storeVars>>

\* No attempt left.
FailForGood(j) ==
    /\ j.stage \in {"executing", "unresolved"}
    /\ j.seen + 1 > MaxRetries
    /\ MoveTo(j, "failed", j.seen)
    /\ NoFault
    /\ UNCHANGED <<phase, context, streamVars, retryVars, storeVars>>

\* Any other exception: before a side effect, or in the call that made it.
ProcessError(j) ==
    /\ j.stage \in InProgress
    /\ Fault("process")
    /\ \/ UNCHANGED <<context, retryVars>>
       \/ /\ j.stage = "fetched" => taskStatus[TaskOf(j)] # "none"
          /\ j.stage # "fetched" => j.seen + 1 <= MaxRetries
          /\ ScheduleRetry(TaskOf(j))
          /\ UNCHANGED context
       \/ /\ j.stage = "executing"
          /\ context' = context \cup {TaskOf(j)}
          /\ UNCHANGED retryVars
    /\ MoveTo(j, "error", j.seen)
    /\ UNCHANGED <<phase, streamVars, storeVars>>

-----------------------------------------------------------------------------
(* The rest of _consume_loop *)

\* gather returns when every job of the batch is over.
BatchDone(w) ==
    /\ phase[w] = "processing"
    /\ \A j \in JobsOf(w) : j.stage \notin InProgress

OutcomeOf(j) ==
    [task |-> TaskOf(j), entry |-> j.entry, status |-> j.stage, attempt |-> j.seen + 1]

Outcomes(w) == {OutcomeOf(j) : j \in {k \in JobsOf(w) : k.stage \in Written}}

\* Mutant: entries that ended in an unexpected error are acknowledged as well.
AllEntries(w) == {j.entry : j \in JobsOf(w)}

\* entry_ids_to_ack
EntriesToAck(w) == {j.entry : j \in {k \in JobsOf(w) : k.stage # "error"}}

\* The cycle is over, one way or another.
EndCycle(w) ==
    /\ jobs' = jobs \ JobsOf(w)
    /\ phase' = [phase EXCEPT ![w] = "idle"]
    /\ UNCHANGED <<context, retryVars>>

WriteOutcomes(w) ==
    /\ BatchDone(w)
    /\ WriteBatch(Outcomes(w))
    /\ phase' = [phase EXCEPT ![w] = "acking"]
    /\ NoFault
    /\ UNCHANGED <<jobs, context, streamVars, retryVars>>

\* Mutant: entry_ids_to_ack is kept when write_batch raises.
AckAfterFailedWrite(w) ==
    /\ BatchDone(w)
    /\ Outcomes(w) # {}
    /\ Fault("write")
    /\ phase' = [phase EXCEPT ![w] = "acking"]
    /\ UNCHANGED <<jobs, context, retryVars, streamVars, storeVars>>

\* write_batch raises: nothing is acknowledged.  With "reply" the transaction
\* was committed all the same.
WriteOutcomesFails(w) ==
    /\ BatchDone(w)
    /\ Outcomes(w) # {}
    /\ \/ Fault("write") /\ UNCHANGED storeVars
       \/ Fault("reply") /\ WriteBatch(Outcomes(w))
    /\ EndCycle(w)
    /\ UNCHANGED streamVars

AckBatch(w) ==
    /\ phase[w] = "acking"
    /\ Ack(EntriesToAck(w))
    /\ EndCycle(w)
    /\ NoFault
    /\ UNCHANGED storeVars

AckBatchFails(w) ==
    /\ phase[w] = "acking"
    /\ EntriesToAck(w) # {}
    /\ Fault("ack")
    /\ EndCycle(w)
    /\ UNCHANGED <<streamVars, storeVars>>

\* The process dies; its successor starts with an empty batch and a new consumer
\* name, and never asks for its predecessor's pending entries.
CrashWorker(w) ==
    /\ phase[w] # "idle"
    /\ Fault("crash")
    /\ EndCycle(w)
    /\ UNCHANGED <<streamVars, storeVars>>
=============================================================================
