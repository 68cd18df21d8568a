----------------------------- MODULE RunStore -----------------------------
(***************************************************************************)
(* The Postgres rows of test_runs, test_tasks and request_results, and the *)
(* two transactions that change them: the commit of a new run              *)
(* (TestRunService._create_run, committed by get_db or by the cron sweep)  *)
(* and ResultWriter.write_batch.  A row that is not committed is "none":   *)
(* no other session sees it.                                               *)
(*                                                                         *)
(* An outcome is what write_batch reads of a TaskOutcome, together with    *)
(* the stream entry it came from: outcomes are written in the order of     *)
(* their entries, so the last one wins where a batch holds two of a task.  *)
(***************************************************************************)
EXTENDS TestModels

VARIABLES
    taskStatus,      \* test_tasks.status
    retryCount,      \* test_tasks.retry_count
    runStatus,       \* test_runs.status
    completedTasks,  \* test_runs.completed_tasks
    failedTasks,     \* test_runs.failed_tasks
    results          \* request_results: attempt_number and whether it passed

storeVars ==
    <<taskStatus, retryCount, runStatus, completedTasks, failedTasks, results>>

Result == [task : Tasks, attempt : Nat, passed : BOOLEAN]
Outcome == [task : Tasks, entry : Nat, status : Terminal \cup {"retrying"},
            attempt : Nat \ {0}]

StoreTypeOK ==
    /\ taskStatus \in [Tasks -> TaskStatus]
    /\ retryCount \in [Tasks -> Nat]
    /\ runStatus \in [Runs -> RunStatus]
    /\ completedTasks \in [Runs -> Nat]
    /\ failedTasks \in [Runs -> Nat]
    /\ results \subseteq Result

StoreInit ==
    /\ taskStatus = [t \in Tasks |-> "none"]
    /\ retryCount = [t \in Tasks |-> 0]
    /\ runStatus = [r \in Runs |-> "none"]
    /\ completedTasks = [r \in Runs |-> 0]
    /\ failedTasks = [r \in Runs |-> 0]
    /\ results = {}

\* The commit that makes a run and all of its tasks visible.
InsertRun(r) ==
    /\ taskStatus' = [t \in Tasks |-> IF RunOf[t] = r THEN "pending" ELSE taskStatus[t]]
    /\ runStatus' = [runStatus EXCEPT ![r] = "running"]
    /\ UNCHANGED <<retryCount, completedTasks, failedTasks, results>>

\* TaskOutcome.retry_count: a success leaves it, a failure makes it the attempt.
OutcomeRetryCount(o) == IF o.status = "completed" THEN o.attempt - 1 ELSE o.attempt

\* _build_request_result
RequestResult(o) ==
    [task |-> o.task, attempt |-> o.attempt, passed |-> o.status = "completed"]

TouchedTasks(outs) == {o.task : o \in outs}

\* The bulk UPDATE's last row for each task.
LastOutcomes(outs) == {o \in outs : \A p \in outs : p.task = o.task => p.entry <= o.entry}

\* Mutant: RETRYING outcomes are not skipped, and count as failures.
DeltaWithRetries(outs, r, status) ==
    Cardinality({o \in outs : /\ RunOf[o.task] = r
                             /\ \/ o.status = status
                                \/ status = "failed" /\ o.status = "retrying"})

\* _update_run_progress: the increment of one counter of one run
Delta(outs, r, status) == Cardinality({o \in outs : RunOf[o.task] = r /\ o.status = status})

\* Mutant: only a success makes write_batch look whether the run is over.
SucceedingRuns(outs) == {RunOf[o.task] : o \in {p \in outs : p.status = "completed"}}

\* The runs whose counters the batch moves.
FinishedRuns(outs) == {RunOf[o.task] : o \in {p \in outs : p.status \in Terminal}}

\* write_batch: one transaction.  A run is looked at only when the batch changes
\* its counters, and leaves RUNNING once they reach the total.
WriteBatch(outs) ==
    /\ \E final \in [TouchedTasks(outs) -> LastOutcomes(outs)] :
         /\ \A t \in TouchedTasks(outs) : final[t].task = t
         /\ taskStatus' = [t \in Tasks |->
               IF t \in TouchedTasks(outs) THEN final[t].status ELSE taskStatus[t]]
         /\ retryCount' = [t \in Tasks |->
               IF t \in TouchedTasks(outs) THEN OutcomeRetryCount(final[t]) ELSE retryCount[t]]
    /\ results' = results \cup {RequestResult(o) : o \in outs}
    /\ completedTasks' = [r \in Runs |-> completedTasks[r] + Delta(outs, r, "completed")]
    /\ failedTasks' = [r \in Runs |-> failedTasks[r] + Delta(outs, r, "failed")]
    /\ runStatus' = [r \in Runs |->
         IF /\ r \in FinishedRuns(outs)
            /\ runStatus[r] = "running"
            /\ completedTasks'[r] + failedTasks'[r] >= TotalTasks(r)
         THEN "completed" ELSE runStatus[r]]
===========================================================================
