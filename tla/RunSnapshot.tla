---------------------------- MODULE RunSnapshot -----------------------------
(***************************************************************************)
(* TestRunService._create_run once more, for what it copies from the       *)
(* catalogue while users edit it: the requests that get tasks and the      *)
(* values of the environment variables.  Every SELECT sees what is         *)
(* committed when it runs.  Inserting the run and its tasks checks their   *)
(* foreign keys and locks the rows these point to until the transaction    *)
(* ends.  (Module RunCreation has the other half, the stream.)             *)
(***************************************************************************)
EXTENDS Catalogue

CONSTANTS
    Runs,           \* runs anyone tries to create
    RunCollection,  \* the collection of each
    RunRows         \* its data rows; a run without data_rows has a single empty one

ASSUME SnapshotAssumption ==
    /\ RunCollection \in [Runs -> Collections]
    /\ RunRows \in [Runs -> SUBSET Rows]

VARIABLES
    stage,         \* how far the creation of each run is
    api_requests,  \* the requests of its tasks
    config         \* its test_runs.config: the values of the variables

snapshotVars == <<stage, api_requests, config>>

SnapshotInit ==
    /\ stage = [r \in Runs |-> "new"]
    /\ api_requests = [r \in Runs |-> {}]
    /\ config = [r \in Runs |-> NoVariables]

\* A collection without requests gets no run.
ListRequests(r) ==
    /\ stage[r] = "new"
    /\ ListByCollection(RunCollection[r]) # {}
    /\ stage' = [stage EXCEPT ![r] = "listed"]
    /\ api_requests' = [api_requests EXCEPT ![r] = ListByCollection(RunCollection[r])]
    /\ UNCHANGED <<config, catalogueVars>>

\* Without its collection get_by_id is None and the request ends in an error.
ReadVariables(r) ==
    /\ stage[r] = "listed"
    /\ IF RunCollection[r] \in stored
       THEN /\ stage' = [stage EXCEPT ![r] = "configured"]
            /\ config' = [config EXCEPT ![r] = variables[Parent[RunCollection[r]]]]
       ELSE /\ stage' = [stage EXCEPT ![r] = "failed"]
            /\ UNCHANGED config
    /\ UNCHANGED <<api_requests, catalogueVars>>

ReferredTo(r) == {RunCollection[r]} \cup api_requests[r]

\* Mutant: the rows are inserted whatever has become of what they refer to.
InsertUnchecked(r) ==
    /\ stage[r] = "configured"
    /\ stage' = [stage EXCEPT ![r] = "inserted"]
    /\ UNCHANGED <<api_requests, config, catalogueVars>>

\* The flushes of the run and of its tasks; a foreign key may be violated.
InsertRows(r) ==
    /\ stage[r] = "configured"
    /\ stage' = [stage EXCEPT ![r] = IF ReferredTo(r) \subseteq stored
                                     THEN "inserted" ELSE "failed"]
    /\ UNCHANGED <<api_requests, config, catalogueVars>>

\* The transaction ends: it commits, or is rolled back because the stream or
\* the commit failed.
EndCreation(r) ==
    /\ stage[r] = "inserted"
    /\ \E end \in {"committed", "failed"} : stage' = [stage EXCEPT ![r] = end]
    /\ UNCHANGED <<api_requests, config, catalogueVars>>

CreateRun(r) ==
    ListRequests(r) \/ ReadVariables(r) \/ InsertRows(r) \/ EndCreation(r)

\* Rows that a run or its tasks point to.
Held == UNION {ReferredTo(r) : r \in {r \in Runs : stage[r] \in {"inserted", "committed"}}}

\* A delete waits for a transaction that is inserting such rows.  Once they are
\* committed it fails: test_tasks.api_request_id is ON DELETE RESTRICT, and the
\* relationships test_runs and test_tasks do not cascade.
RemoveUnheld(n) ==
    /\ Remove(n)
    /\ Subtree(n) \cap Held = {}

DeleteProject == \E p \in Projects : RemoveUnheld(p)
DeleteCollection == \E c \in Collections : RemoveUnheld(c)
DeleteRequest == \E q \in Requests : RemoveUnheld(q)
DeleteAssertion == \E a \in Assertions : RemoveUnheld(a)

EditCatalogue ==
    /\ \/ CreateProject \/ CreateCollection \/ CreateRequest \/ CreateAssertion
       \/ DeleteProject \/ DeleteCollection \/ DeleteRequest \/ DeleteAssertion
       \/ \E q \in Requests : UpdateRequest(q)
       \/ EditVariables
    /\ UNCHANGED snapshotVars

-----------------------------------------------------------------------------
SnapshotTypeOK ==
    /\ stage \in [Runs -> {"new", "listed", "configured", "inserted", "committed", "failed"}]
    /\ api_requests \in [Runs -> SUBSET Requests]
    /\ config \in [Runs -> Dict]

\* The requests and the collection of a run outlive every edit of the catalogue:
\* process_task finds the api_request of every task there is, and the run's
\* organization can be told from its collection.
TaskRequestsExist == Held \subseteq stored
=============================================================================
