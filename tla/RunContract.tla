---------------------------- MODULE RunContract ----------------------------
(***************************************************************************)
(* What the pipeline promises to whoever reads test_runs and test_tasks: a *)
(* run appears with all of its tasks; every task gets one final status,    *)
(* which never changes; the counters of the run count exactly the tasks    *)
(* that have theirs, and the run is COMPLETED in the very step that gives  *)
(* the last task its own.  It does not promise that a task ever gets one.  *)
(***************************************************************************)
EXTENDS TestModels

VARIABLES
    final,      \* final status of each task, "open" until it has one
    run,        \* status of each run
    succeeded,  \* completed_tasks
    failures    \* failed_tasks

contractVars == <<final, run, succeeded, failures>>

ContractInit ==
    /\ final = [t \in Tasks |-> "none"]
    /\ run = [r \in Runs |-> "none"]
    /\ succeeded = [r \in Runs |-> 0]
    /\ failures = [r \in Runs |-> 0]

Appear(r) ==
    /\ run[r] = "none"
    /\ run' = [run EXCEPT ![r] = "running"]
    /\ final' = [t \in Tasks |-> IF RunOf[t] = r THEN "open" ELSE final[t]]
    /\ UNCHANGED <<succeeded, failures>>

WithStatus(r, status, f) == Cardinality({t \in RunTasks(r) : f[t] = status})

\* The tasks of S get their final status together: a batch of results.
Settle(S) ==
    /\ S # {}
    /\ \A t \in S : final[t] = "open"
    /\ \E outcome \in [S -> Terminal] :
         final' = [t \in Tasks |-> IF t \in S THEN outcome[t] ELSE final[t]]
    /\ succeeded' = [r \in Runs |-> WithStatus(r, "completed", final')]
    /\ failures' = [r \in Runs |-> WithStatus(r, "failed", final')]
    /\ run' = [r \in Runs |-> IF \A t \in RunTasks(r) : final'[t] \in Terminal
                              THEN "completed" ELSE run[r]]

ContractNext ==
    \/ \E r \in Runs : Appear(r)
    \/ \E S \in SUBSET Tasks : Settle(S)

ContractSpec == ContractInit /\ [][ContractNext]_contractVars
============================================================================
