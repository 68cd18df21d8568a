---------------------------- MODULE RunCreation ----------------------------
(***************************************************************************)
(* TestRunService._create_run and the transaction around it.  The rows are *)
(* flushed and every task is put on the stream before the transaction      *)
(* commits: in get_db, after the HTTP handler returned, or at the end of   *)
(* the cron sweep.                                                         *)
(*                                                                         *)
(* An XADD that fails ends a manual run in a rollback.  The cron sweep     *)
(* catches the exception and still commits, rows and all.                  *)
(***************************************************************************)
EXTENDS TaskStream, RunStore, Faults

CONSTANTS
    ScheduledRuns,   \* the runs the cron sweep creates
    Position         \* the place of a task in created_tasks

ASSUME CreationAssumption ==
    /\ ScheduledRuns \subseteq Runs
    /\ Position \in [Tasks -> Nat]

VARIABLES
    creation,   \* how far the creation of each run is
    unsent      \* tasks that _create_run has not put on the stream

creationVars == <<creation, unsent>>

CreationTypeOK ==
    /\ creation \in [Runs -> {"new", "enqueuing", "swallowed", "committed", "aborted"}]
    /\ unsent \subseteq Tasks

CreationInit ==
    /\ creation = [r \in Runs |-> "new"]
    /\ unsent = Tasks

Unsent(r) == unsent \cap RunTasks(r)

\* The loop over created_tasks goes by data row and order_index.
Upcoming(t) == \A u \in Unsent(RunOf[t]) : Position[t] <= Position[u]

\* _create_run up to the flush of the rows: the trigger of a manual run, or a
\* due schedule
StartRun(r) ==
    /\ creation[r] = "new"
    /\ creation' = [creation EXCEPT ![r] = "enqueuing"]
    /\ NoFault
    /\ UNCHANGED <<unsent, streamVars, storeVars>>

\* One turn of the loop over created_tasks.
EnqueueTask(t) ==
    /\ creation[RunOf[t]] = "enqueuing"
    /\ t \in unsent /\ Upcoming(t)
    /\ Enqueue(t)
    /\ unsent' = unsent \ {t}
    /\ NoFault
    /\ UNCHANGED <<creation, storeVars>>

\* XADD raises: CronScheduler.sweep_once logs it and goes on to its commit; an
\* HTTP request is rolled back by get_db.  With "reply" the entry was added all
\* the same.
EnqueueTaskFails(t) ==
    /\ creation[RunOf[t]] = "enqueuing"
    /\ t \in unsent /\ Upcoming(t)
    /\ \/ Fault("enqueue") /\ UNCHANGED <<unsent, streamVars>>
       \/ Fault("reply") /\ Enqueue(t) /\ unsent' = unsent \ {t}
    /\ creation' = [creation EXCEPT ![RunOf[t]] =
                      IF RunOf[t] \in ScheduledRuns THEN "swallowed" ELSE "aborted"]
    /\ UNCHANGED storeVars

CommitRun(r) ==
    /\ \/ creation[r] = "enqueuing" /\ Unsent(r) = {}
       \/ creation[r] = "swallowed"
    /\ creation' = [creation EXCEPT ![r] = "committed"]
    /\ InsertRun(r)
    /\ NoFault
    /\ UNCHANGED <<unsent, streamVars>>

\* The commit fails, after the tasks are on the stream.
CommitRunFails(r) ==
    /\ \/ creation[r] = "enqueuing" /\ Unsent(r) = {}
       \/ creation[r] = "swallowed"
    /\ Fault("commit")
    /\ creation' = [creation EXCEPT ![r] = "aborted"]
    /\ UNCHANGED <<unsent, streamVars, storeVars>>
===========================================================================
