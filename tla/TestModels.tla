---------------------------- MODULE TestModels ----------------------------
(***************************************************************************)
(* What a test run is made of (app/models): the tasks, the run each task   *)
(* belongs to, the statuses of both and the retry limit.  A run is created *)
(* with all of its tasks and never gains or loses one.                     *)
(***************************************************************************)
EXTENDS Integers, FiniteSets

CONSTANTS
    Tasks,
    Runs,
    RunOf,       \* the run each task belongs to
    MaxRetries   \* test_tasks.max_retries

ASSUME ModelsAssumption ==
    /\ IsFiniteSet(Tasks)
    /\ RunOf \in [Tasks -> Runs]
    /\ \A r \in Runs : \E t \in Tasks : RunOf[t] = r  \* CollectionHasNoRequestsError
    /\ MaxRetries \in Nat

\* TestTaskStatus as written by the platform.  "none" is a row that is not
\* committed; QUEUED and RUNNING are never written.
Open == {"pending", "retrying"}
Terminal == {"completed", "failed"}
TaskStatus == Open \cup Terminal \cup {"none"}

\* TestRunStatus as written by the platform
RunStatus == {"none", "running", "completed"}

RunTasks(r) == {t \in Tasks : RunOf[t] = r}
TotalTasks(r) == Cardinality(RunTasks(r))
===========================================================================
