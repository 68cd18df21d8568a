--------------------------- MODULE CollectionRun ----------------------------
(***************************************************************************)
(* The data that flows through a run while users edit the catalogue and    *)
(* workers execute its tasks: TaskProcessor.process_task between the load  *)
(* of a task and its outcome, with the chain context in Redis.             *)
(*                                                                         *)
(* When and how often a task is executed is the matter of TaskPipeline.    *)
(* Here any worker may start any task of a committed run at any time, as   *)
(* often as it likes, and drop it anywhere.                                *)
(***************************************************************************)
EXTENDS RunSnapshot

CONSTANTS
    Jobs,          \* places where a task can be executed at the same time
    Responses,     \* what the target system may answer
    DataNames,     \* the columns of each data row
    MaxExecutions  \* bound: requests sent or about to be

ASSUME RunAssumption ==
    /\ Responses \subseteq Response
    /\ DataNames \in [Rows -> SUBSET Names]
    /\ MaxExecutions \in Nat

VARIABLES
    job,         \* what each worker is at
    executions,  \* every request that was sent, with its outcome
    context,     \* the Redis hash of every run and row
    writer       \* the execution that merged each entry of it; 0 without entry

runVars == <<job, executions, context, writer>>
vars == <<catalogueVars, snapshotVars, runVars>>

Idle == [at |-> "idle"]
Work == [at : {"loaded", "ready", "sent", "merging"}, run : Runs, row : Rows,
         request : Requests, definition : Definition, merged : SUBSET Names,
         chain : Dict, execution : Nat]
Execution == [run : Runs, row : Rows, request : Requests, definition : Definition,
              merged : SUBSET Names, chain : Dict, sent : Dict,
              assertions : SUBSET Assertions,
              response : Responses,
              outcome : {"pending", "passed", "failed"}, extracted : Dict]

Init ==
    /\ CatalogueInit
    /\ SnapshotInit
    /\ job = [j \in Jobs |-> Idle]
    /\ executions = <<>>
    /\ context = [r \in Runs |-> [d \in Rows |-> NoVariables]]
    /\ writer = [r \in Runs |-> [d \in Rows |-> [x \in Names |-> 0]]]

-----------------------------------------------------------------------------
\* data_context of the tasks of a data row
RowData(row) == [x \in Names |-> IF x \in DataNames[row] THEN DataValue(row) ELSE None]

\* The variables that have an entry in the context of a run and row.
Merged(r, row) == {x \in Names : context[r][row][x] # None}

\* process_task reads the task, its request and its run.  merged is history: what
\* earlier requests had made available by then.
Load(j, r, q, row) ==
    /\ job[j] = Idle
    /\ stage[r] = "committed" /\ q \in api_requests[r] /\ row \in RunRows[r]
    /\ q \in stored
    /\ Len(executions) + Cardinality({k \in Jobs : job[k].at \in {"loaded", "ready"}})
         < MaxExecutions
    /\ job' = [job EXCEPT ![j] = [at |-> "loaded", run |-> r, row |-> row, request |-> q,
                                  definition |-> definition[q], merged |-> Merged(r, row),
                                  chain |-> NoVariables, execution |-> 0]]
    /\ UNCHANGED <<executions, context, writer>>

\* Mutant: a task with data of its own gets nothing else.
ReadDataInstead(j) ==
    /\ job[j].at = "loaded"
    /\ job' = [job EXCEPT ![j].at = "ready",
                          ![j].chain = IF DataNames[job[j].row] # {} THEN RowData(job[j].row)
                                       ELSE context[job[j].run][job[j].row]]
    /\ UNCHANGED <<executions, context, writer>>

\* RunContext.get_all, and the data row over it.
ReadContext(j) ==
    /\ job[j].at = "loaded"
    /\ job' = [job EXCEPT ![j].at = "ready",
                          ![j].chain = Overlay(context[job[j].run][job[j].row],
                                               RowData(job[j].row))]
    /\ UNCHANGED <<executions, context, writer>>

Sent(j) == Resolved(job[j].definition.uses, job[j].chain, config[job[j].run])

\* resolve_template raises an UndefinedVariableError.
Unresolved(j) == \E x \in job[j].definition.uses : Sent(j)[x] = None

\* Executor.execute, answered.
Execute(j) ==
    /\ job[j].at = "ready" /\ ~Unresolved(j)
    /\ \E response \in Responses :
         executions' = Append(executions,
           [run |-> job[j].run, row |-> job[j].row, request |-> job[j].request,
            definition |-> job[j].definition, merged |-> job[j].merged,
            chain |-> job[j].chain, sent |-> Sent(j), assertions |-> ListByRequest(job[j].request),
            response |-> response, outcome |-> "pending", extracted |-> NoVariables])
    /\ job' = [job EXCEPT ![j].at = "sent", ![j].execution = Len(executions) + 1]
    /\ UNCHANGED <<context, writer>>

\* The request is not sent, for an undefined variable or an empty token bucket;
\* or a timeout or an httpx.HTTPError is all that comes back.
RequestFails(j) ==
    /\ job[j].at \in {"ready", "sent"}
    /\ job' = [job EXCEPT ![j] = Idle]
    /\ UNCHANGED <<executions, context, writer>>

\* Mutant: one assertion that holds is enough.
SomeAssertionPasses(q, response) ==
    \/ ListByRequest(q) = {}
    \/ \E a \in ListByRequest(q) : Passes(Config[a], response)

\* All assertions the request has by now.
AssertionsPass(q, response) ==
    \A a \in ListByRequest(q) : Passes(Config[a], response)

\* Mutant: what was extracted before a rule failed counts.
ExtractsPartly(vals) == vals = <<>> \/ \E i \in DOMAIN vals : vals[i] # None

\* No rule raised an ExtractionError.
ExtractsAll(vals) == None \notin {vals[i] : i \in DOMAIN vals}

\* Assertions and extraction, and the status that follows from them.
Evaluate(j) ==
    /\ job[j].at = "sent"
    /\ LET n == job[j].execution
           e == executions[n]
           rules == e.definition.extract_rules
       IN  \E vals \in Rounds(rules, e.chain, e.row, n, e.response) :
             LET extracted == Extracted(rules, vals)
                 succeeded == ExtractsAll(vals) /\ AssertionsPass(e.request, e.response)
             IN  /\ executions' = [executions EXCEPT ![n] =
                      IF succeeded THEN [e EXCEPT !.outcome = "passed", !.extracted = extracted]
                      ELSE [e EXCEPT !.outcome = "failed"]]
                 /\ job' = [job EXCEPT ![j] = IF succeeded /\ extracted # NoVariables
                                              THEN [@ EXCEPT !.at = "merging"] ELSE Idle]
    /\ UNCHANGED <<context, writer>>

\* Mutant: one hash for all rows of a run.
MergeIntoRun(j) ==
    /\ job[j].at = "merging"
    /\ LET n == job[j].execution
           e == executions[n]
       IN  /\ context' = [context EXCEPT ![e.run] =
                            [d \in Rows |-> Overlay(@[d], e.extracted)]]
           /\ writer' = [writer EXCEPT ![e.run] =
                [d \in Rows |-> [x \in Names |-> IF e.extracted[x] # None
                                                 THEN n ELSE @[d][x]]]]
    /\ job' = [job EXCEPT ![j] = Idle]
    /\ UNCHANGED executions

\* RunContext.merge: one HSET with everything that was extracted.
Merge(j) ==
    /\ job[j].at = "merging"
    /\ LET n == job[j].execution
           e == executions[n]
       IN  /\ context' = [context EXCEPT ![e.run][e.row] = Overlay(@, e.extracted)]
           /\ writer' = [writer EXCEPT ![e.run][e.row] =
                [x \in Names |-> IF e.extracted[x] # None THEN n ELSE @[x]]]
    /\ job' = [job EXCEPT ![j] = Idle]
    /\ UNCHANGED executions

\* The worker dies, or loses Redis or Postgres.
Abandon(j) ==
    /\ job[j] # Idle
    /\ job' = [job EXCEPT ![j] = Idle]
    /\ UNCHANGED <<executions, context, writer>>

\* A hash goes a day after the last merge into it, whatever is under way then.  A
\* task that has not read it yet will not find it.
ExpireContext(r, row) ==
    /\ context[r][row] # NoVariables
    /\ context' = [context EXCEPT ![r][row] = NoVariables]
    /\ writer' = [writer EXCEPT ![r][row] = [x \in Names |-> 0]]
    /\ job' = [j \in Jobs |->
         IF job[j].at = "loaded" /\ job[j].run = r /\ job[j].row = row
         THEN [job[j] EXCEPT !.merged = {}] ELSE job[j]]
    /\ UNCHANGED executions

JobStep(j) ==
    \/ \E r \in Runs, q \in Requests, row \in Rows : Load(j, r, q, row)
    \/ ReadContext(j) \/ Execute(j) \/ RequestFails(j) \/ Evaluate(j) \/ Merge(j)
    \/ Abandon(j)

Next ==
    \/ EditCatalogue /\ UNCHANGED runVars
    \/ (\E r \in Runs : CreateRun(r)) /\ UNCHANGED runVars
    \/ /\ (\E j \in Jobs : JobStep(j)) \/ (\E r \in Runs, row \in Rows : ExpireContext(r, row))
       /\ UNCHANGED <<catalogueVars, snapshotVars>>

Spec == Init /\ [][Next]_vars

-----------------------------------------------------------------------------
TypeOK ==
    /\ CatalogueTypeOK /\ SnapshotTypeOK
    /\ job \in [Jobs -> Work \cup {Idle}]
    /\ executions \in Seq(Execution)
    /\ context \in [Runs -> [Rows -> Dict]]
    /\ writer \in [Runs -> [Rows -> [Names -> Nat]]]

\* n passed, in this run and with this row.
Passed(n, r, row) ==
    /\ n \in 1..Len(executions)
    /\ executions[n].run = r /\ executions[n].row = row
    /\ executions[n].outcome = "passed"

\* Every variable of the context of a run and a row was extracted by a request of
\* this run and this row that had passed with all its assertions and rules: rows
\* and runs share nothing, and an attempt that is retried leaves nothing behind.
ContextExplained ==
    \A r \in Runs, row \in Rows, x \in Names :
       context[r][row][x] # None =>
          /\ Passed(writer[r][row][x], r, row)
          /\ executions[writer[r][row][x]].extracted[x] = context[r][row][x]

Saves(e) ==
    {e.definition.extract_rules[i].save_as : i \in DOMAIN e.definition.extract_rules}

\* Two attempts of a request that save the same two variables are never seen half
\* and half: a token of one with the user of the other.
NoTornContext ==
    \A r \in Runs, row \in Rows, x, y \in Names :
       LET n == writer[r][row][x]
           m == writer[r][row][y]
       IN  n # 0 /\ m # 0 /\ n # m =>
              ~({x, y} \subseteq Saves(executions[n]) \cap Saves(executions[m]))

\* "Each rule's save_as value becomes available to every subsequent request in the
\* run" (worker/variable_extractor.py), wherever users change a variable and whoever
\* runs at the same time.  A request is sent with the value of its own data row; else
\* with what an earlier request of its run and row extracted.  The value the variable
\* had when the run was created is sent only if the context had none when it was
\* read; and that is never so if one had been merged before the task was loaded and
\* had not expired.  (A task that is loaded before its predecessor has merged may be
\* sent with that older value: the code does not make it wait.)
SentExplained ==
    \A n \in 1..Len(executions) :
       LET e == executions[n]
       IN  \A x \in e.definition.uses :
             IF x \in DataNames[e.row] THEN e.sent[x] = DataValue(e.row)
             ELSE \/ \E m \in 1..n - 1 : /\ Passed(m, e.run, e.row)
                                         /\ e.sent[x] = executions[m].extracted[x]
                  \/ /\ e.chain[x] = None /\ x \notin e.merged
                     /\ e.sent[x] = config[e.run][x]

\* Assertions are read after the answer has come.  One that a request had when it
\* was sent and still has holds of every answer the context was filled from.
AssertedBeforeMerge ==
    \A r \in Runs, row \in Rows, x \in Names :
       LET e == executions[writer[r][row][x]]
       IN  writer[r][row][x] # 0 =>
              \A a \in e.assertions \cap stored : Passes(Config[a], e.response)

\* Below this line: what the inductive invariant adds to these.

WriterKnown ==
    \A r \in Runs, row \in Rows, x \in Names :
       writer[r][row][x] = 0 <=> context[r][row][x] = None

\* A dict read before execution n has the data row on top of what passed requests
\* of the run and row extracted before.
ChainExplained(chain, r, row, n) ==
    \A x \in Names :
       IF x \in DataNames[row] THEN chain[x] = DataValue(row)
       ELSE \/ chain[x] = None
            \/ \E m \in 1..n - 1 : Passed(m, r, row) /\ executions[m].extracted[x] = chain[x]

JobsExplained ==
    \A j \in Jobs : job[j] # Idle =>
       /\ stage[job[j].run] = "committed"
       /\ job[j].at = "ready" =>
            ChainExplained(job[j].chain, job[j].run, job[j].row, Len(executions) + 1)
       /\ job[j].at \in {"sent", "merging"} =>
            /\ job[j].execution \in 1..Len(executions)
            /\ executions[job[j].execution].outcome =
                 (IF job[j].at = "sent" THEN "pending" ELSE "passed")
            /\ \A k \in Jobs \ {j} :
                 job[k].at \in {"sent", "merging"} => job[k].execution # job[j].execution

ExecutionsExplained ==
    \A n \in 1..Len(executions) :
       LET e == executions[n]
       IN  /\ stage[e.run] = "committed"
           /\ ChainExplained(e.chain, e.run, e.row, n)
           /\ \A x \in e.definition.uses : e.sent[x] = Resolve(x, e.chain, config[e.run])
           /\ \A a \in e.assertions : Parent[a] = e.request /\ a \notin unused
           /\ e.outcome = "passed" =>
                /\ \A x \in Saves(e) : e.extracted[x] # None
                /\ \A a \in e.assertions \cap stored : Passes(Config[a], e.response)

\* What had been merged when a task was loaded is in the context until it is read, and
\* in the dict that was read from then on.
MergedIsRead ==
    /\ \A j \in Jobs : job[j] # Idle =>
         /\ job[j].at = "loaded" => job[j].merged \subseteq Merged(job[j].run, job[j].row)
         /\ job[j].at = "ready" => \A x \in job[j].merged : job[j].chain[x] # None
    /\ \A n \in 1..Len(executions) :
         \A x \in executions[n].merged : executions[n].chain[x] # None

\* The type invariant, the foreign keys of the catalogue, and why what is sent and
\* what is in the context may be there.
CollectionRunInv ==
    /\ TypeOK
    /\ WellFormed
    /\ TaskRequestsExist
    /\ JobsExplained
    /\ ExecutionsExplained
    /\ WriterKnown
    /\ ContextExplained
    /\ NoTornContext

-----------------------------------------------------------------------------
\* extract_variables as it is written, round by round with its two dicts.
Loop(e, n) ==
    LET rules == e.definition.extract_rules
        after[i \in 0..Len(rules)] ==
          IF i = 0 THEN [extracted |-> NoVariables, available |-> e.chain, raised |-> FALSE]
          ELSE LET rule == rules[i]
                   before == after[i - 1]
                   value == IF rule.type = "json_path"
                            THEN ExtractJsonPath(e.row, n, e.response, rule.path)
                            ELSE ExtractJwtClaim(before.available[rule.source_var], rule.claim)
               IN  IF before.raised \/ value = None THEN [before EXCEPT !.raised = TRUE]
                   ELSE [before EXCEPT !.extracted[rule.save_as] = value,
                                       !.available[rule.save_as] = value]
    IN  after[Len(rules)]

\* A claim is read from the token the same answer brought when an earlier rule has
\* saved it, from the chain context otherwise: what a passed request extracted is
\* what the loop of extract_variables yields.
ExtractedInOrder ==
    \A n \in 1..Len(executions) :
       executions[n].outcome = "passed" =>
          /\ ~Loop(executions[n], n).raised
          /\ executions[n].extracted = Loop(executions[n], n).extracted
=============================================================================
