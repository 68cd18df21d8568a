------------------------ MODULE CollectionRunProofs -------------------------
(***************************************************************************)
(* The invariant of CollectionRun for every catalogue, every set of runs,  *)
(* rows, requests and rules, and any number of workers.                    *)
(***************************************************************************)
EXTENDS CollectionRun, WellFoundedInduction, SequenceTheorems, TLAPS

\* A set of natural numbers has a least element (used for the last rule that
\* saves a name).
LEMMA Least ==
  ASSUME NEW T, T \subseteq Nat, T # {}
  PROVE  \E x \in T : \A y \in T : x <= y
  <1> DEFINE R == {ss \in Nat \X Nat : ss[1] < ss[2]}
  <1>1. IsWellFoundedOn(R, Nat)
      BY NatLessThanWellFounded DEF OpToRel
  <1>2. PICK x \in T : \A y \in T : ~(<<y, x>> \in R)
      BY <1>1, WFMin
  <1>3. ASSUME NEW y \in T PROVE x <= y
    <2>1. x \in Nat /\ y \in Nat
        OBVIOUS
    <2>2. ~(y < x)
        BY <1>2, <2>1
    <2> QED
        BY <2>1, <2>2
  <1> QED
      BY <1>3

\* Max of indices is one of them.
LEMMA MaxIsElement ==
  ASSUME NEW n \in Nat, NEW S, S \subseteq 1..n, S # {}
  PROVE  Max(S) \in S
  <1> DEFINE T == {n - i : i \in S}
  <1>1. T \subseteq Nat
      OBVIOUS
  <1>2. T # {}
    <2>1. PICK i \in S : TRUE
        OBVIOUS
    <2>2. n - i \in T
        BY <2>1
    <2> QED
        BY <2>2
  <1>3. PICK t \in T : \A y \in T : t <= y
    <2> HIDE DEF T
    <2> QED
        BY <1>1, <1>2, Least
  <1>4. PICK i \in S : t = n - i
      OBVIOUS
  <1>5. ASSUME NEW y \in S PROVE i >= y
    <2>1. n - y \in T
        OBVIOUS
    <2>2. n - i <= n - y
        BY <1>3, <1>4, <2>1
    <2> QED
        BY <2>2
  <1> QED
      BY <1>4, <1>5 DEF Max

-----------------------------------------------------------------------------
\* Dicts laid over each other are dicts (process_task, RunContext.merge).
LEMMA OverlayType ==
  ASSUME NEW base \in Dict, NEW top \in Dict
  PROVE  Overlay(base, top) \in Dict
  BY DEF Overlay, Dict

\* Values of every origin are values (_extract_json_path, data_context).
LEMMA ValueTypes ==
  ASSUME NEW row \in Rows, NEW n \in Nat
  PROVE  /\ DataValue(row) \in Value
         /\ EnvValue(n) \in Value
         /\ \A path \in Paths : ItemOf(row, n, path) \in Value
  BY DEF DataValue, EnvValue, ItemOf, Value

\* A claim of a value is a value or nothing (_extract_jwt_claim).
LEMMA ClaimType ==
  ASSUME NEW value \in Value \cup {None}, NEW claim \in Paths
  PROVE  ExtractJwtClaim(value, claim) \in Value \cup {None}
  <1>1. CASE value = None
      BY <1>1 DEF ExtractJwtClaim
  <1>2. CASE value \in Value
    <2>1. [value EXCEPT !.claim = claim] \in Value
        BY <1>2 DEF Value
    <2> QED
        BY <2>1 DEF ExtractJwtClaim
  <1> QED
      BY <1>1, <1>2

\* What a round of extract_variables may yield is a value or nothing.
LEMMA CandidatesType ==
  ASSUME NEW chain \in Dict, NEW row \in Rows, NEW n \in Nat
  PROVE  Candidates(chain, row, n) \subseteq Value \cup {None}
  <1> DEFINE items == {ItemOf(row, n, path) : path \in Paths}
  <1>1. items \subseteq Value
      BY ValueTypes
  <1>2. \A x \in Names : chain[x] \in Value \cup {None}
      BY DEF Dict
  <1>3. ASSUME NEW v \in items \cup {chain[x] : x \in Names}, NEW claim \in Paths
        PROVE  ExtractJwtClaim(v, claim) \in Value \cup {None}
    <2>1. v \in Value \cup {None}
      <3> HIDE DEF items
      <3> QED
          BY <1>1, <1>2
    <2> QED
        BY <2>1, ClaimType
  <1> QED
      BY <1>1, <1>3 DEF Candidates

\* When no rule fails, every name some rule saves is among what was extracted
\* (extract_variables).
LEMMA ExtractedNames ==
  ASSUME NEW rules \in Seq(Rule), NEW chain \in Dict, NEW row \in Rows, NEW n \in Nat,
         NEW response, NEW vals \in Rounds(rules, chain, row, n, response)
  PROVE  /\ Extracted(rules, vals) \in Dict
         /\ ExtractsAll(vals) =>
              \A i \in DOMAIN rules : Extracted(rules, vals)[rules[i].save_as] # None
  <1>1. vals \in [1..Len(rules) -> Value \cup {None}]
    <2>1. vals \in [1..Len(rules) -> Candidates(chain, row, n)]
        BY DEF Rounds
    <2> QED
        BY <2>1, CandidatesType
  <1>2. Len(rules) \in Nat /\ DOMAIN rules = 1..Len(rules)
      OBVIOUS
  <1>3. \A x \in Names : Saving(rules, Len(rules), x) \subseteq 1..Len(rules)
      BY DEF Saving
  <1>4. \A x \in Names : Saving(rules, Len(rules), x) # {} =>
                         Max(Saving(rules, Len(rules), x)) \in 1..Len(rules)
      BY <1>2, <1>3, MaxIsElement
  <1>5. Extracted(rules, vals) \in Dict
      BY <1>1, <1>4 DEF Extracted, Available, NoVariables, Dict
  <1>6. ASSUME ExtractsAll(vals), NEW i \in DOMAIN rules
        PROVE  Extracted(rules, vals)[rules[i].save_as] # None
    <2>1. rules[i].save_as \in Names
      <3>1. rules[i] \in Rule
          BY <1>2
      <3> QED
          BY <3>1 DEF Rule
    <2>2. i \in Saving(rules, Len(rules), rules[i].save_as)
        BY <1>2 DEF Saving
    <2>3. \A k \in 1..Len(rules) : vals[k] # None
        BY <1>1, <1>6 DEF ExtractsAll
    <2> QED
        BY <1>4, <2>1, <2>2, <2>3 DEF Extracted, Available
  <1> QED
      BY <1>5, <1>6

-----------------------------------------------------------------------------
\* Nothing has run and nothing is kept at first.
LEMMA InitInvariant == Init => CollectionRunInv
  <1> SUFFICES ASSUME Init PROVE CollectionRunInv
      OBVIOUS
  <1> USE EvaluationAssumption, CatalogueAssumption, SnapshotAssumption, RunAssumption
      DEF Init, CatalogueInit, SnapshotInit
  <1>1. NoVariables \in Dict
      BY DEF NoVariables, Dict
  <1>2. TypeOK
    <2>1. CatalogueTypeOK
      <3>1. definition \in [Requests -> Definition]
          OBVIOUS
      <3>2. EnvValue(0) \in Value
          BY DEF EnvValue, Value
      <3>3. variables \in [Projects -> Dict]
          BY <3>2 DEF Dict
      <3> QED
          BY <3>1, <3>3 DEF CatalogueTypeOK
    <2>2. SnapshotTypeOK
        BY <1>1 DEF SnapshotTypeOK
    <2>3. executions \in Seq(Execution)
        OBVIOUS
    <2> QED
        BY <1>1, <2>1, <2>2, <2>3 DEF TypeOK
  <1>3. WellFormed /\ TaskRequestsExist
      BY DEF WellFormed, TaskRequestsExist, Held
  <1>4. JobsExplained
      BY DEF JobsExplained
  <1>5. ExecutionsExplained
      BY DEF ExecutionsExplained
  <1>6. WriterKnown /\ ContextExplained /\ NoTornContext
      BY DEF WriterKnown, ContextExplained, NoTornContext, NoVariables
  <1> QED
      BY <1>2, <1>3, <1>4, <1>5, <1>6 DEF CollectionRunInv

\* A subtree is all there is below a row: what remains has its parents.
LEMMA SubtreeIsClosed ==
  ASSUME stored \subseteq Nodes, NEW n \in Nodes,
         NEW m \in stored, m \notin Subtree(n)
  PROVE  Parent[m] \notin Subtree(n)
  <1> USE CatalogueAssumption DEF Nodes
  <1>1. \A k \in stored : k \in Children(n) => k \notin Projects
      BY DEF Children
  <1>2. \A k \in Children(n), l \in stored :
           Parent[l] = k => l \in Requests \cup Assertions
      BY <1>1 DEF Children
  <1>3. \A k \in Children(n) : \A l \in Children(k) : \A i \in stored :
           Parent[i] = l => i \in Assertions /\ l \notin Assertions
      BY <1>2 DEF Children
  <1>4. \A k \in Children(n) : \A l \in Children(k) : \A i \in stored :
           Parent[i] = l => Parent[m] # i
    <2> SUFFICES ASSUME NEW k \in Children(n), NEW l \in Children(k), NEW i \in stored,
                        Parent[i] = l, Parent[m] = i
                 PROVE  FALSE
        OBVIOUS
    <2>1. i \in Assertions /\ l \in Requests \cup Collections \cup Projects
        BY <1>3 DEF Children
    <2>2. m \notin Assertions \/ i \in Requests
        OBVIOUS
    <2> QED
        BY <1>1, <1>2, <2>1, <2>2 DEF Children
  <1> QED
      BY <1>4 DEF Subtree, Children

\* Users' edits (the services of projects, collections, requests, assertions and
\* variables) keep the invariant: runs hold the rows they need.
LEMMA EditKeepsTypes ==
  ASSUME CollectionRunInv, EditCatalogue
  PROVE  CatalogueTypeOK' /\ WellFormed' /\ TaskRequestsExist'
         /\ unused' \subseteq unused /\ stored' \subseteq stored \cup unused
  <1> USE EvaluationAssumption, CatalogueAssumption
      DEF CollectionRunInv, TypeOK, CatalogueTypeOK, WellFormed, TaskRequestsExist, Edit
  <1>0. Held' = Held
      BY DEF EditCatalogue, snapshotVars, Held, ReferredTo
  <1>1. ASSUME NEW n \in Nodes, Insert(n)
        PROVE  CatalogueTypeOK' /\ WellFormed' /\ TaskRequestsExist'
               /\ unused' \subseteq unused /\ stored' \subseteq stored \cup unused
    <2>1. Parent[n] \in stored \cup {None}
        BY <1>1 DEF Insert, Reachable
    <2> QED
        BY <1>0, <1>1, <2>1 DEF Insert
  <1>2. ASSUME NEW n \in Nodes, RemoveUnheld(n)
        PROVE  CatalogueTypeOK' /\ WellFormed' /\ TaskRequestsExist'
               /\ unused' \subseteq unused /\ stored' \subseteq stored \cup unused
    <2> USE <1>2 DEF RemoveUnheld, Remove
    <2>1. CatalogueTypeOK'
      <3>1. NoVariables \in Dict
          BY DEF NoVariables, Dict
      <3> QED
          BY <3>1
    <2>2. WellFormed'
        BY SubtreeIsClosed
    <2>3. TaskRequestsExist'
        BY <1>0
    <2> QED
        BY <2>1, <2>2, <2>3
  <1>3. ASSUME NEW q \in Requests, UpdateRequest(q)
        PROVE  CatalogueTypeOK' /\ WellFormed' /\ TaskRequestsExist'
               /\ unused' \subseteq unused /\ stored' \subseteq stored \cup unused
      BY <1>0, <1>3 DEF UpdateRequest
  <1>4. ASSUME EditVariables
        PROVE  CatalogueTypeOK' /\ WellFormed' /\ TaskRequestsExist'
               /\ unused' \subseteq unused /\ stored' \subseteq stored \cup unused
    <2> PICK p \in Projects, x \in Names :
           CreateVariable(p, x) \/ UpdateVariable(p, x) \/ DeleteVariable(p, x)
        BY <1>4 DEF EditVariables
    <2>1. edits' \in 0..MaxEdits /\ UNCHANGED <<stored, unused, definition>>
        BY DEF CreateVariable, UpdateVariable, DeleteVariable
    <2>2. EnvValue(edits') \in Value
        BY <2>1, ValueTypes DEF EnvValue, Value
    <2>3. variables' \in [Projects -> Dict]
      <3>1. \A d \in Dict, y \in Names, v \in Value \cup {None} : [d EXCEPT ![y] = v] \in Dict
          BY DEF Dict
      <3>2. variables[p] \in Dict /\ variables[p][x] \in Value \cup {None}
          BY DEF Dict
      <3>3. ASSUME NEW d \in Dict, variables' = [variables EXCEPT ![p] = d]
            PROVE  variables' \in [Projects -> Dict]
          BY <3>3
      <3>4. CASE CreateVariable(p, x) \/ DeleteVariable(p, x)
        <4>1. PICK v \in Value \cup {None} :
                 variables' = [variables EXCEPT ![p] = [variables[p] EXCEPT ![x] = v]]
            BY <2>2, <3>4 DEF CreateVariable, DeleteVariable
        <4> QED
            BY <3>1, <3>2, <3>3, <4>1
      <3>5. CASE UpdateVariable(p, x)
        <4>1. PICK y \in Names, v \in {variables[p][x], EnvValue(edits')} :
                 variables' = [variables EXCEPT
                   ![p] = [[variables[p] EXCEPT ![x] = None] EXCEPT ![y] = v]]
            BY <3>5 DEF UpdateVariable
        <4>2. [variables[p] EXCEPT ![x] = None] \in Dict
            BY <3>1, <3>2
        <4>3. [[variables[p] EXCEPT ![x] = None] EXCEPT ![y] = v] \in Dict
            BY <2>2, <3>1, <3>2, <4>2
        <4> QED
            BY <3>3, <4>1, <4>3
      <3> QED
          BY <3>4, <3>5
    <2> QED
        BY <1>0, <2>1, <2>3
  <1> QED
      BY <1>1, <1>2, <1>3, <1>4
      DEF EditCatalogue, CreateProject, CreateCollection, CreateRequest, CreateAssertion,
          DeleteProject, DeleteCollection, DeleteRequest, DeleteAssertion, Nodes

\* Creating a run (TestRunService._create_run) touches no run that is committed.
LEMMA CreationKeepsTypes ==
  ASSUME CollectionRunInv, NEW r \in Runs, CreateRun(r)
  PROVE  /\ SnapshotTypeOK' /\ TaskRequestsExist'
         /\ UNCHANGED catalogueVars
         /\ \A s \in Runs : stage[s] = "committed" =>
                            stage'[s] = "committed" /\ config'[s] = config[s]
  <1> USE CatalogueAssumption, SnapshotAssumption
      DEF CollectionRunInv, TypeOK, SnapshotTypeOK, CatalogueTypeOK, TaskRequestsExist
  <1>1. CASE ListRequests(r)
    <2>1. Held' = Held
        BY <1>1 DEF ListRequests, Held, ReferredTo
    <2> QED
        BY <1>1, <2>1 DEF ListRequests, ListByCollection, catalogueVars
  <1>2. CASE ReadVariables(r)
    <2>1. Held' = Held
        BY <1>2 DEF ReadVariables, Held, ReferredTo
    <2>2. variables[Parent[RunCollection[r]]] \in Dict
        BY DEF Nodes
    <2> QED
        BY <1>2, <2>1, <2>2 DEF ReadVariables, catalogueVars
  <1>3. CASE InsertRows(r)
    <2>1. Held' \subseteq Held \cup (IF ReferredTo(r) \subseteq stored THEN ReferredTo(r) ELSE {})
        BY <1>3 DEF InsertRows, Held, ReferredTo
    <2> QED
        BY <1>3, <2>1 DEF InsertRows, catalogueVars
  <1>4. CASE EndCreation(r)
    <2>1. Held' \subseteq Held
        BY <1>4 DEF EndCreation, Held, ReferredTo
    <2> QED
        BY <1>4, <2>1 DEF EndCreation, catalogueVars
  <1> QED
      BY <1>1, <1>2, <1>3, <1>4 DEF CreateRun

\* What holds of the workers, the attempts and the context does not depend on rows
\* that come and go, nor on runs under creation.
LEMMA OthersKeepRuns ==
  ASSUME CollectionRunInv, UNCHANGED <<executions, context, writer>>,
         unused' \subseteq unused, stored' \subseteq stored \cup unused,
         \A s \in Runs : stage[s] = "committed" =>
                        stage'[s] = "committed" /\ config'[s] = config[s]
  PROVE  /\ job' = job => JobsExplained'
         /\ ExecutionsExplained'
         /\ WriterKnown' /\ ContextExplained' /\ NoTornContext'
  <1> USE DEF CollectionRunInv
  <1>0. executions' = executions /\ context' = context /\ writer' = writer
      OBVIOUS
  <1>1. WriterKnown' /\ ContextExplained' /\ NoTornContext'
    <2>1. WriterKnown'
        BY <1>0 DEF WriterKnown
    <2>2. ContextExplained'
        BY <1>0 DEF ContextExplained, Passed
    <2>3. NoTornContext'
        BY <1>0 DEF NoTornContext
    <2> QED
        BY <2>1, <2>2, <2>3
  <1>2. \A chain, r, row, n : ChainExplained(chain, r, row, n)' <=> ChainExplained(chain, r, row, n)
      BY <1>0 DEF ChainExplained, Passed
  <1>3. ASSUME job' = job PROVE JobsExplained'
    <2> SUFFICES ASSUME NEW j \in Jobs, job[j] # Idle
                 PROVE  /\ stage'[job[j].run] = "committed"
                        /\ job[j].at = "ready" =>
                             ChainExplained(job[j].chain, job[j].run, job[j].row,
                                            Len(executions) + 1)'
        BY <1>0, <1>3 DEF JobsExplained
    <2>1. job[j].run \in Runs
        BY DEF TypeOK, Work
    <2> QED
        BY <1>0, <1>2, <1>3, <2>1 DEF JobsExplained
  <1>4. ExecutionsExplained'
    <2> SUFFICES ASSUME NEW n \in 1..Len(executions)
                 PROVE  LET e == executions[n]
                        IN  /\ stage'[e.run] = "committed"
                            /\ ChainExplained(e.chain, e.run, e.row, n)'
                            /\ \A x \in e.definition.uses :
                                  e.sent[x] = Resolve(x, e.chain, config'[e.run])
                            /\ \A a \in e.assertions : Parent[a] = e.request /\ a \notin unused'
                            /\ e.outcome = "passed" =>
                                 /\ \A x \in Saves(e) : e.extracted[x] # None
                                 /\ \A a \in e.assertions \cap stored' :
                                      Passes(Config[a], e.response)
        BY <1>0 DEF ExecutionsExplained, Saves
    <2> DEFINE e == executions[n]
    <2>1. e \in Execution
        BY DEF TypeOK
    <2>2. e.run \in Runs
        BY <2>1 DEF Execution
    <2>3. /\ stage[e.run] = "committed"
          /\ ChainExplained(e.chain, e.run, e.row, n)
          /\ \A x \in e.definition.uses : e.sent[x] = Resolve(x, e.chain, config[e.run])
          /\ \A a \in e.assertions : Parent[a] = e.request /\ a \notin unused
          /\ e.outcome = "passed" =>
               /\ \A x \in Saves(e) : e.extracted[x] # None
               /\ \A a \in e.assertions \cap stored : Passes(Config[a], e.response)
        BY DEF ExecutionsExplained
    <2>4. ChainExplained(e.chain, e.run, e.row, n)'
        BY <1>0, <1>2, <2>3
    <2>5. \A a \in e.assertions \cap stored' : a \in stored
        BY <2>3
    <2> HIDE DEF e
    <2>6. stage'[e.run] = "committed" /\ config'[e.run] = config[e.run]
        BY <2>2, <2>3
    <2>7. \A a \in e.assertions : Parent[a] = e.request /\ a \notin unused'
        BY <2>3
    <2>8. e.outcome = "passed" =>
            \A a \in e.assertions \cap stored' : Passes(Config[a], e.response)
        BY <2>3, <2>5
    <2> QED
        BY <2>3, <2>4, <2>6, <2>7, <2>8 DEF e
  <1> QED
      BY <1>1, <1>3, <1>4

\* Steps of the workers leave the catalogue and the rows of the runs alone.
LEMMA WorkersKeepRows ==
  ASSUME CollectionRunInv, UNCHANGED <<catalogueVars, snapshotVars>>
  PROVE  /\ CatalogueTypeOK' /\ SnapshotTypeOK' /\ WellFormed' /\ TaskRequestsExist'
         /\ stored' = stored /\ unused' = unused /\ stage' = stage /\ config' = config
  <1>1. /\ stored' = stored /\ unused' = unused /\ definition' = definition
        /\ variables' = variables /\ edits' = edits
        /\ stage' = stage /\ config' = config /\ api_requests' = api_requests
      BY DEF catalogueVars, snapshotVars
  <1>2. CatalogueTypeOK'
      BY <1>1 DEF CollectionRunInv, TypeOK, CatalogueTypeOK
  <1>3. SnapshotTypeOK'
      BY <1>1 DEF CollectionRunInv, TypeOK, SnapshotTypeOK
  <1>4. WellFormed'
      BY <1>1 DEF CollectionRunInv, WellFormed
  <1>5. TaskRequestsExist'
      BY <1>1 DEF CollectionRunInv, TaskRequestsExist, Held, ReferredTo
  <1> QED
      BY <1>1, <1>2, <1>3, <1>4, <1>5

\* A step that only moves a worker keeps the invariant if it does so for what is
\* said of that worker.
LEMMA JobStepKeeps ==
  ASSUME CollectionRunInv, UNCHANGED <<catalogueVars, snapshotVars>>,
         UNCHANGED <<executions, context, writer>>,
         NEW j \in Jobs, NEW w \in Work \cup {Idle}, job' = [job EXCEPT ![j] = w],
         w # Idle => /\ stage[w.run] = "committed" /\ w.at \in {"loaded", "ready"}
                     /\ w.at = "ready" =>
                          ChainExplained(w.chain, w.run, w.row, Len(executions) + 1)
  PROVE  CollectionRunInv'
  <1> USE DEF CollectionRunInv
  <1>1. CatalogueTypeOK' /\ SnapshotTypeOK' /\ WellFormed' /\ TaskRequestsExist'
        /\ stored' = stored /\ unused' = unused /\ stage' = stage /\ config' = config
      BY WorkersKeepRows
  <1>2. TypeOK'
      BY <1>1 DEF TypeOK
  <1>3. ExecutionsExplained' /\ WriterKnown' /\ ContextExplained' /\ NoTornContext'
      BY <1>1, OthersKeepRuns
  <1>4. job'[j] = w /\ \A k \in Jobs \ {j} : job'[k] = job[k]
      BY DEF TypeOK
  <1>5. \A chain, r, row, n : ChainExplained(chain, r, row, n)' <=> ChainExplained(chain, r, row, n)
      BY DEF ChainExplained, Passed
  <1>6. ~(w.at \in {"sent", "merging"})
      BY DEF Idle
  <1>7. JobsExplained'
    <2> SUFFICES ASSUME NEW k \in Jobs, job'[k] # Idle
                 PROVE  /\ stage[job'[k].run] = "committed"
                        /\ job'[k].at = "ready" =>
                             ChainExplained(job'[k].chain, job'[k].run, job'[k].row,
                                            Len(executions) + 1)
                        /\ job'[k].at \in {"sent", "merging"} =>
                             /\ job'[k].execution \in 1..Len(executions)
                             /\ executions[job'[k].execution].outcome =
                                  (IF job'[k].at = "sent" THEN "pending" ELSE "passed")
                             /\ \A i \in Jobs \ {k} : job'[i].at \in {"sent", "merging"} =>
                                                     job'[i].execution # job'[k].execution
        BY <1>1, <1>5 DEF JobsExplained
    <2>1. CASE k = j
        BY <1>4, <1>6, <2>1
    <2>2. CASE k # j
        BY <1>4, <1>6, <2>2 DEF JobsExplained
    <2> QED
        BY <2>1, <2>2
  <1> QED
      BY <1>1, <1>2, <1>3, <1>7

\* The first reads of process_task.
LEMMA LoadKeeps ==
  ASSUME CollectionRunInv, UNCHANGED <<catalogueVars, snapshotVars>>,
         NEW j \in Jobs, NEW r \in Runs, NEW q \in Requests, NEW row \in Rows,
         Load(j, r, q, row)
  PROVE  CollectionRunInv'
  <1> DEFINE w == [at |-> "loaded", run |-> r, row |-> row, request |-> q,
                   definition |-> definition[q], merged |-> Merged(r, row),
                   chain |-> NoVariables, execution |-> 0]
  <1>1. /\ NoVariables \in Dict /\ definition[q] \in Definition
        /\ Merged(r, row) \in SUBSET Names
      BY DEF NoVariables, Dict, CollectionRunInv, TypeOK, CatalogueTypeOK, Merged
  <1>2. w \in Work
      BY <1>1 DEF Work
  <1>3. job' = [job EXCEPT ![j] = w]
      BY DEF Load
  <1>4. stage[r] = "committed" /\ UNCHANGED <<executions, context, writer>>
      BY DEF Load
  <1>5. w.run = r /\ w.at = "loaded"
      OBVIOUS
  <1> HIDE DEF w
  <1> QED
      BY <1>2, <1>3, <1>4, <1>5, JobStepKeeps

\* A job that is dropped.
LEMMA DropKeeps ==
  ASSUME CollectionRunInv, UNCHANGED <<catalogueVars, snapshotVars>>,
         NEW j \in Jobs, RequestFails(j) \/ Abandon(j)
  PROVE  CollectionRunInv'
  <1>1. job' = [job EXCEPT ![j] = Idle] /\ UNCHANGED <<executions, context, writer>>
      BY DEF RequestFails, Abandon
  <1> QED
      BY <1>1, JobStepKeeps

\* A worker that is at work is at a piece of work.
LEMMA AtWork ==
  ASSUME CollectionRunInv, NEW j \in Jobs, job[j].at # "idle"
  PROVE  job[j] \in Work /\ job[j] # Idle
  BY DEF CollectionRunInv, TypeOK, Idle

\* The read of the context (RunContext.get_all).
LEMMA ReadContextKeeps ==
  ASSUME CollectionRunInv, UNCHANGED <<catalogueVars, snapshotVars>>,
         NEW j \in Jobs, ReadContext(j)
  PROVE  CollectionRunInv'
  <1> DEFINE chain == Overlay(context[job[j].run][job[j].row], RowData(job[j].row))
             w == [job[j] EXCEPT !.at = "ready", !.chain = chain]
  <1>1. job[j] \in Work /\ job[j] # Idle
      BY AtWork DEF ReadContext
  <1>2. job[j].run \in Runs /\ job[j].row \in Rows
      BY <1>1 DEF Work
  <1>3. context[job[j].run][job[j].row] \in Dict
      BY <1>2 DEF CollectionRunInv, TypeOK
  <1>4. RowData(job[j].row) \in Dict
      BY <1>2, ValueTypes DEF RowData, Dict
  <1>5. chain \in Dict
      BY <1>3, <1>4, OverlayType
  <1>6. w \in Work /\ w.at = "ready" /\ w.chain = chain
        /\ w.run = job[j].run /\ w.row = job[j].row
    <2> HIDE DEF chain
    <2> QED
        BY <1>1, <1>5 DEF Work
  <1>7. job' = [job EXCEPT ![j] = w] /\ UNCHANGED <<executions, context, writer>>
      BY DEF ReadContext, CollectionRunInv, TypeOK
  <1>8. stage[job[j].run] = "committed"
      BY <1>1 DEF CollectionRunInv, JobsExplained
  <1>9. ChainExplained(chain, job[j].run, job[j].row, Len(executions) + 1)
    <2> SUFFICES ASSUME NEW x \in Names
                 PROVE  IF x \in DataNames[job[j].row] THEN chain[x] = DataValue(job[j].row)
                        ELSE \/ chain[x] = None
                             \/ \E m \in 1..(Len(executions) + 1) - 1 :
                                   /\ Passed(m, job[j].run, job[j].row)
                                   /\ executions[m].extracted[x] = chain[x]
        BY DEF ChainExplained
    <2>1. CASE x \in DataNames[job[j].row]
      <3>1. DataValue(job[j].row) # None
          BY <1>2, ValueTypes, EvaluationAssumption
      <3> QED
          BY <2>1, <3>1 DEF Overlay, RowData
    <2>2. CASE x \notin DataNames[job[j].row]
      <3> DEFINE m == writer[job[j].run][job[j].row][x]
      <3>1. chain[x] = context[job[j].run][job[j].row][x]
          BY <2>2 DEF Overlay, RowData
      <3>2. chain[x] # None => /\ Passed(m, job[j].run, job[j].row)
                               /\ executions[m].extracted[x] = chain[x]
          BY <1>2, <3>1 DEF CollectionRunInv, ContextExplained
      <3>3. Len(executions) \in Nat
          BY DEF CollectionRunInv, TypeOK
      <3>4. chain[x] # None => m \in 1..(Len(executions) + 1) - 1
        <4>1. (Len(executions) + 1) - 1 = Len(executions)
            BY <3>3
        <4>2. chain[x] # None => m \in 1..Len(executions)
            BY <3>2 DEF Passed
        <4> QED
            BY <4>1, <4>2
      <3> QED
          BY <2>2, <3>2, <3>4
    <2> QED
        BY <2>1, <2>2
  <1> HIDE DEF w
  <1> QED
      BY <1>6, <1>7, <1>8, <1>9, JobStepKeeps

\* An expired context explains itself.
LEMMA ExpiryKeeps ==
  ASSUME CollectionRunInv, UNCHANGED <<catalogueVars, snapshotVars>>,
         NEW r \in Runs, NEW row \in Rows, ExpireContext(r, row)
  PROVE  CollectionRunInv'
  <1> USE DEF ExpireContext, CollectionRunInv
  <1>1. CatalogueTypeOK' /\ SnapshotTypeOK' /\ WellFormed' /\ TaskRequestsExist'
        /\ stored' = stored /\ unused' = unused /\ stage' = stage /\ config' = config
      BY WorkersKeepRows
  <1>2. TypeOK'
    <2>1. NoVariables \in Dict
        BY DEF NoVariables, Dict
    <2>2. context' \in [Runs -> [Rows -> Dict]]
        BY <2>1 DEF TypeOK
    <2>3. writer' \in [Runs -> [Rows -> [Names -> Nat]]]
        BY DEF TypeOK
    <2>4. job' \in [Jobs -> Work \cup {Idle}]
      <3>1. ASSUME NEW j \in Jobs, job[j].at = "loaded"
            PROVE  [job[j] EXCEPT !.merged = {}] \in Work
          BY <3>1, AtWork DEF Work
      <3> QED
          BY <3>1 DEF TypeOK
    <2> QED
        BY <1>1, <2>2, <2>3, <2>4 DEF TypeOK
  <1>3. \A chain, s, d, n : ChainExplained(chain, s, d, n)' <=> ChainExplained(chain, s, d, n)
      BY DEF ChainExplained, Passed
  <1>4. JobsExplained'
    <2>1. ASSUME NEW j \in Jobs
          PROVE  \/ job'[j] = job[j]
                 \/ /\ job[j] # Idle /\ job'[j].at = "loaded"
                    /\ job[j].at = "loaded" /\ job'[j].run = job[j].run
      <3>1. CASE job[j].at = "loaded" /\ job[j].run = r /\ job[j].row = row
          BY <3>1, AtWork DEF Work
      <3>2. CASE ~(job[j].at = "loaded" /\ job[j].run = r /\ job[j].row = row)
          BY <3>2
      <3> QED
          BY <3>1, <3>2
    <2> QED
        BY <1>1, <1>3, <2>1 DEF JobsExplained
  <1>5. ExecutionsExplained'
      BY <1>1, <1>3 DEF ExecutionsExplained, Saves
  <1>6. ASSUME NEW s \in Runs, NEW d \in Rows, NEW x \in Names
        PROVE  \/ context'[s][d][x] = None /\ writer'[s][d][x] = 0
               \/ context'[s][d][x] = context[s][d][x] /\ writer'[s][d][x] = writer[s][d][x]
      BY DEF TypeOK, NoVariables
  <1>7. WriterKnown'
      BY <1>6 DEF WriterKnown
  <1>8. ContextExplained'
      BY <1>6 DEF ContextExplained, Passed
  <1>9. NoTornContext'
      BY <1>6 DEF NoTornContext
  <1> QED
      BY <1>1, <1>2, <1>4, <1>5, <1>7, <1>8, <1>9

\* Appending to a sequence, and replacing an element of it.
LEMMA Appending ==
  ASSUME NEW S, NEW s \in Seq(S), NEW e \in S
  PROVE  /\ Append(s, e) \in Seq(S)
         /\ Len(s) \in Nat /\ Len(Append(s, e)) = Len(s) + 1
         /\ Append(s, e)[Len(s) + 1] = e
         /\ \A i \in 1..Len(s) : Append(s, e)[i] = s[i]
  OBVIOUS

LEMMA Replacing ==
  ASSUME NEW S, NEW s \in Seq(S), NEW n \in 1..Len(s), NEW e \in S
  PROVE  /\ [s EXCEPT ![n] = e] \in Seq(S)
         /\ Len([s EXCEPT ![n] = e]) = Len(s)
         /\ [s EXCEPT ![n] = e][n] = e
         /\ \A i \in 1..Len(s) : i # n => [s EXCEPT ![n] = e][i] = s[i]
  BY ExceptSeq

\* A step that adds an attempt or decides a pending one: what was explained by the
\* attempts that had passed stays explained.
LEMMA MoreAttempts ==
  ASSUME CollectionRunInv, executions' \in Seq(Execution), Len(executions') \in Nat,
         Len(executions) <= Len(executions'),
         \A n \in 1..Len(executions) :
            /\ executions'[n].run = executions[n].run
            /\ executions'[n].row = executions[n].row
            /\ executions'[n].definition = executions[n].definition
            /\ executions[n].outcome = "passed" => executions'[n] = executions[n]
  PROVE  /\ \A chain, r, row, n : ChainExplained(chain, r, row, n)
                                 => ChainExplained(chain, r, row, n)'
         /\ UNCHANGED <<context, writer>> =>
              WriterKnown' /\ ContextExplained' /\ NoTornContext'
  <1> USE DEF CollectionRunInv
  <1>1. Len(executions) \in Nat
      BY DEF TypeOK
  <1>2. \A n, r, row : Passed(n, r, row) => Passed(n, r, row)' /\ executions'[n] = executions[n]
      BY <1>1 DEF Passed
  <1>3. ASSUME NEW chain, NEW r, NEW row, NEW n, ChainExplained(chain, r, row, n)
        PROVE  ChainExplained(chain, r, row, n)'
      BY <1>2, <1>3 DEF ChainExplained
  <1>4. ASSUME UNCHANGED <<context, writer>>
        PROVE  WriterKnown' /\ ContextExplained' /\ NoTornContext'
    <2>1. WriterKnown'
        BY <1>4 DEF WriterKnown
    <2>2. ContextExplained'
        BY <1>2, <1>4 DEF ContextExplained
    <2>3. \A r \in Runs, row \in Rows, x \in Names : writer[r][row][x] # 0 =>
             executions'[writer[r][row][x]] = executions[writer[r][row][x]]
        BY <1>2 DEF WriterKnown, ContextExplained
    <2>4. NoTornContext'
        BY <1>4, <2>3 DEF NoTornContext
    <2> QED
        BY <2>1, <2>2, <2>4
  <1> QED
      BY <1>3, <1>4

\* A request that is sent (Executor.execute) goes out with explained values.
LEMMA ExecuteKeeps ==
  ASSUME CollectionRunInv, UNCHANGED <<catalogueVars, snapshotVars>>,
         NEW j \in Jobs, Execute(j)
  PROVE  CollectionRunInv'
  <1> DEFINE N == Len(executions)
             w == [job[j] EXCEPT !.at = "sent", !.execution = N + 1]
  <1>1. CatalogueTypeOK' /\ SnapshotTypeOK' /\ WellFormed' /\ TaskRequestsExist'
        /\ stored' = stored /\ unused' = unused /\ stage' = stage /\ config' = config
      BY WorkersKeepRows
  <1>2. job[j] \in Work /\ job[j] # Idle /\ job[j].at = "ready"
      BY AtWork DEF Execute
  <1>3. stage[job[j].run] = "committed"
        /\ ChainExplained(job[j].chain, job[j].run, job[j].row, N + 1)
      BY <1>2 DEF CollectionRunInv, JobsExplained
  <1>4. PICK response \in Responses :
          executions' = Append(executions,
           [run |-> job[j].run, row |-> job[j].row, request |-> job[j].request,
            definition |-> job[j].definition, merged |-> job[j].merged,
            chain |-> job[j].chain, sent |-> Sent(j), assertions |-> ListByRequest(job[j].request),
            response |-> response, outcome |-> "pending", extracted |-> NoVariables])
      BY DEF Execute
  <1> DEFINE e == [run |-> job[j].run, row |-> job[j].row, request |-> job[j].request,
                   definition |-> job[j].definition, merged |-> job[j].merged,
                   chain |-> job[j].chain, sent |-> Sent(j),
                   assertions |-> ListByRequest(job[j].request), response |-> response,
                   outcome |-> "pending", extracted |-> NoVariables]
  <1>5. e \in Execution
    <2>1. NoVariables \in Dict
        BY DEF NoVariables, Dict
    <2>2. config[job[j].run] \in Dict
        BY <1>2 DEF Work, CollectionRunInv, TypeOK, SnapshotTypeOK
    <2>3. Sent(j) \in Dict
        BY <1>2, <2>2 DEF Sent, Resolved, Resolve, Work, Dict
    <2>4. ListByRequest(job[j].request) \subseteq Assertions
        BY DEF ListByRequest
    <2> QED
        BY <1>2, <2>1, <2>3, <2>4 DEF Work, Execution
  <1>6. executions' = Append(executions, e) /\ UNCHANGED <<context, writer>>
        /\ job' = [job EXCEPT ![j] = w]
      BY <1>4 DEF Execute, CollectionRunInv, TypeOK
  <1>7. /\ e.run = job[j].run /\ e.row = job[j].row /\ e.outcome = "pending"
        /\ e.chain = job[j].chain /\ e.sent = Sent(j) /\ e.request = job[j].request
        /\ e.definition = job[j].definition /\ e.assertions = ListByRequest(job[j].request)
      OBVIOUS
  <1> HIDE DEF e
  <1>8. executions \in Seq(Execution)
      BY DEF CollectionRunInv, TypeOK
  <1>9. /\ executions' \in Seq(Execution) /\ N \in Nat /\ Len(executions') = N + 1
        /\ executions'[N + 1] = e /\ \A i \in 1..N : executions'[i] = executions[i]
      BY <1>5, <1>6, <1>8, Appending
  <1>10. /\ \A chain, r, row, n : ChainExplained(chain, r, row, n)
                                 => ChainExplained(chain, r, row, n)'
         /\ WriterKnown' /\ ContextExplained' /\ NoTornContext'
      BY <1>6, <1>9, MoreAttempts
  <1>11. w \in Work /\ w.at = "sent" /\ w.execution = N + 1 /\ w.run = job[j].run
    <2>1. N + 1 \in Nat
        BY <1>9
    <2> HIDE DEF N
    <2> QED
        BY <1>2, <2>1 DEF Work
  <1> HIDE DEF w
  <1>12. job'[j] = w /\ \A k \in Jobs \ {j} : job'[k] = job[k]
      BY <1>6 DEF CollectionRunInv, TypeOK
  <1>13. TypeOK'
      BY <1>1, <1>6, <1>9, <1>11 DEF CollectionRunInv, TypeOK
  <1>14. JobsExplained'
    <2> SUFFICES ASSUME NEW k \in Jobs, job'[k] # Idle
                 PROVE  /\ stage[job'[k].run] = "committed"
                        /\ job'[k].at = "ready" =>
                             ChainExplained(job[k].chain, job[k].run, job[k].row,
                                            Len(executions) + 1)'
                        /\ job'[k].at \in {"sent", "merging"} =>
                             /\ job'[k].execution \in 1..Len(executions')
                             /\ executions'[job'[k].execution].outcome =
                                  (IF job'[k].at = "sent" THEN "pending" ELSE "passed")
                             /\ \A i \in Jobs \ {k} : job'[i].at \in {"sent", "merging"} =>
                                                     job'[i].execution # job'[k].execution
        BY <1>1 DEF JobsExplained
    <2>0. \A i \in Jobs : job[i].at \in {"sent", "merging"} => job[i].execution \in 1..N
        BY DEF CollectionRunInv, JobsExplained, Idle
    <2>1. CASE k = j
        BY <1>3, <1>7, <1>9, <1>11, <1>12, <2>0, <2>1
    <2>2. CASE k # j
      <3>1. job'[k] = job[k] /\ stage[job[k].run] = "committed"
          BY <1>12, <2>2 DEF CollectionRunInv, JobsExplained
      <3>2. ASSUME job[k].at = "ready"
            PROVE  ChainExplained(job[k].chain, job[k].run, job[k].row, Len(executions) + 1)'
        <4>1. ChainExplained(job[k].chain, job[k].run, job[k].row, N + 1)
          <5>1. job[k] # Idle
              BY <3>2 DEF Idle
          <5> QED
              BY <3>2, <5>1 DEF CollectionRunInv, JobsExplained
        <4>2. ChainExplained(job[k].chain, job[k].run, job[k].row, (N + 1) + 1)
          <5>1. 1..((N + 1) - 1) \subseteq 1..(((N + 1) + 1) - 1)
              BY <1>9
          <5> QED
              BY <4>1, <5>1 DEF ChainExplained
        <4>3. job'[k] = job[k] /\ Len(executions)' = N + 1
            BY <1>9, <3>1
        <4> QED
            BY <1>10, <4>2, <4>3
      <3>3. ASSUME job[k].at \in {"sent", "merging"}
            PROVE  /\ job[k].execution \in 1..Len(executions')
                   /\ executions'[job[k].execution].outcome =
                        (IF job[k].at = "sent" THEN "pending" ELSE "passed")
                   /\ \A i \in Jobs \ {k} : job'[i].at \in {"sent", "merging"} =>
                                           job'[i].execution # job[k].execution
          BY <1>9, <1>11, <1>12, <2>0, <3>1, <3>3 DEF CollectionRunInv, JobsExplained
      <3> QED
          BY <3>1, <3>2, <3>3
    <2> QED
        BY <2>1, <2>2
  <1>15. ExecutionsExplained'
    <2> SUFFICES ASSUME NEW n \in 1..Len(executions')
                 PROVE  /\ stage[executions'[n].run] = "committed"
                        /\ ChainExplained(executions[n].chain, executions[n].run,
                                          executions[n].row, n)'
                        /\ \A x \in executions'[n].definition.uses :
                              executions'[n].sent[x] =
                                Resolve(x, executions'[n].chain, config[executions'[n].run])
                        /\ \A a \in executions'[n].assertions :
                              Parent[a] = executions'[n].request /\ a \notin unused
                        /\ executions'[n].outcome = "passed" =>
                             /\ \A x \in Saves(executions'[n]) : executions'[n].extracted[x] # None
                             /\ \A a \in executions'[n].assertions \cap stored :
                                  Passes(Config[a], executions'[n].response)
        BY <1>1 DEF ExecutionsExplained
    <2>1. CASE n = N + 1
      <3>1. executions'[n] = e
          BY <1>9, <2>1
      <3>2. ChainExplained(e.chain, e.run, e.row, n)
          BY <1>3, <1>7, <2>1
      <3>3. \A x \in e.definition.uses : e.sent[x] = Resolve(x, e.chain, config[e.run])
          BY <1>2, <1>7 DEF Sent, Resolved, Work, Definition
      <3>4. \A a \in e.assertions : Parent[a] = e.request /\ a \notin unused
          BY <1>7 DEF ListByRequest, Children, CollectionRunInv, WellFormed
      <3>5. ChainExplained(executions[n].chain, executions[n].run, executions[n].row, n)'
          BY <1>10, <3>1, <3>2
      <3> QED
          BY <1>3, <1>7, <3>1, <3>3, <3>4, <3>5
    <2>2. CASE n \in 1..N
      <3>1. executions'[n] = executions[n]
          BY <1>9, <2>2
      <3>2. ChainExplained(executions[n].chain, executions[n].run, executions[n].row, n)
          BY <2>2 DEF CollectionRunInv, ExecutionsExplained
      <3>3. ChainExplained(executions[n].chain, executions[n].run, executions[n].row, n)'
          BY <1>10, <3>1, <3>2
      <3> QED
          BY <2>2, <3>1, <3>3 DEF CollectionRunInv, ExecutionsExplained
    <2> QED
        BY <1>9, <2>1, <2>2
  <1> QED
      BY <1>1, <1>10, <1>13, <1>14, <1>15 DEF CollectionRunInv

\* The answer is evaluated (evaluate_assertions, extract_variables): it passes
\* with all its rules and all the assertions there are by then.
LEMMA EvaluateKeeps ==
  ASSUME CollectionRunInv, UNCHANGED <<catalogueVars, snapshotVars>>,
         NEW j \in Jobs, Evaluate(j)
  PROVE  CollectionRunInv'
  <1> DEFINE n == job[j].execution
             e == executions[n]
             rules == e.definition.extract_rules
  <1>1. CatalogueTypeOK' /\ SnapshotTypeOK' /\ WellFormed' /\ TaskRequestsExist'
        /\ stored' = stored /\ unused' = unused /\ stage' = stage /\ config' = config
      BY WorkersKeepRows
  <1>2. job[j] \in Work /\ job[j] # Idle /\ job[j].at = "sent"
      BY AtWork DEF Evaluate
  <1>3. /\ stage[job[j].run] = "committed"
        /\ n \in 1..Len(executions) /\ e.outcome = "pending"
        /\ \A k \in Jobs \ {j} : job[k].at \in {"sent", "merging"} => job[k].execution # n
      BY <1>2 DEF CollectionRunInv, JobsExplained
  <1>4. executions \in Seq(Execution) /\ Len(executions) \in Nat
      BY DEF CollectionRunInv, TypeOK
  <1>5. e \in Execution
      BY <1>3, <1>4
  <1>6. PICK vals \in Rounds(rules, e.chain, e.row, n, e.response) :
          LET extracted == Extracted(rules, vals)
              succeeded == ExtractsAll(vals) /\ AssertionsPass(e.request, e.response)
          IN  /\ executions' = [executions EXCEPT ![n] =
                   IF succeeded THEN [e EXCEPT !.outcome = "passed", !.extracted = extracted]
                   ELSE [e EXCEPT !.outcome = "failed"]]
              /\ job' = [job EXCEPT ![j] = IF succeeded /\ extracted # NoVariables
                                           THEN [@ EXCEPT !.at = "merging"] ELSE Idle]
      BY DEF Evaluate
  <1> DEFINE extracted == Extracted(rules, vals)
             succeeded == ExtractsAll(vals) /\ AssertionsPass(e.request, e.response)
             f == IF succeeded THEN [e EXCEPT !.outcome = "passed", !.extracted = extracted]
                  ELSE [e EXCEPT !.outcome = "failed"]
             w == IF succeeded /\ extracted # NoVariables
                  THEN [job[j] EXCEPT !.at = "merging"] ELSE Idle
  <1>7. executions' = [executions EXCEPT ![n] = f] /\ job' = [job EXCEPT ![j] = w]
        /\ UNCHANGED <<context, writer>>
      BY <1>6 DEF Evaluate, CollectionRunInv, TypeOK
  <1>8. extracted \in Dict
        /\ (ExtractsAll(vals) => \A i \in DOMAIN rules : extracted[rules[i].save_as] # None)
    <2>1. rules \in Seq(Rule) /\ e.chain \in Dict /\ e.row \in Rows /\ n \in Nat
        BY <1>3, <1>4, <1>5 DEF Execution, Definition
    <2> HIDE DEF n, e, rules
    <2> QED
        BY <2>1, ExtractedNames
  <1>9. /\ f \in Execution
        /\ f.run = e.run /\ f.row = e.row /\ f.request = e.request
        /\ f.definition = e.definition /\ f.chain = e.chain /\ f.sent = e.sent
        /\ f.assertions = e.assertions /\ f.response = e.response
        /\ f.outcome = IF succeeded THEN "passed" ELSE "failed"
        /\ succeeded => f.extracted = extracted
    <2> HIDE DEF e, extracted, succeeded
    <2> QED
        BY <1>5, <1>8 DEF Execution
  <1>10. succeeded => /\ \A x \in Saves(f) : f.extracted[x] # None
                      /\ \A a \in f.assertions \cap stored : Passes(Config[a], f.response)
    <2>1. f.definition.extract_rules = rules
        BY <1>9
    <2>2. ASSUME succeeded PROVE \A x \in Saves(f) : f.extracted[x] # None
      <3>1. ExtractsAll(vals) /\ f.extracted = extracted
          BY <1>9, <2>2
      <3> HIDE DEF f, rules, extracted, e, n
      <3> QED
          BY <1>8, <2>1, <3>1 DEF Saves
    <2>3. ASSUME succeeded
          PROVE  \A a \in f.assertions \cap stored : Passes(Config[a], f.response)
      <3>1. \A a \in e.assertions : Parent[a] = e.request
          BY <1>3 DEF CollectionRunInv, ExecutionsExplained
      <3>2. e.assertions \subseteq Assertions
          BY <1>5 DEF Execution
      <3>3. e.assertions \cap stored \subseteq ListByRequest(e.request)
          BY <3>1, <3>2 DEF ListByRequest, Children
      <3>4. AssertionsPass(e.request, e.response)
          BY <2>3
      <3> HIDE DEF f, e, extracted, succeeded
      <3> QED
          BY <1>9, <3>3, <3>4 DEF AssertionsPass
    <2> QED
        BY <2>2, <2>3
  <1>11. w = Idle \/ /\ w \in Work /\ w.at = "merging" /\ w.execution = n /\ w.run = job[j].run
                     /\ succeeded
    <2> HIDE DEF succeeded, extracted
    <2> QED
        BY <1>2 DEF Work
  <1> HIDE DEF n, f, w, succeeded, extracted, rules
  <1>12. /\ executions' \in Seq(Execution) /\ Len(executions') = Len(executions)
         /\ executions'[n] = f
         /\ \A i \in 1..Len(executions) : i # n => executions'[i] = executions[i]
      BY <1>3, <1>4, <1>7, <1>9, Replacing
  <1>13. /\ \A chain, r, row, m : ChainExplained(chain, r, row, m)
                                 => ChainExplained(chain, r, row, m)'
         /\ WriterKnown' /\ ContextExplained' /\ NoTornContext'
    <2>1. ASSUME NEW i \in 1..Len(executions)
          PROVE  /\ executions'[i].run = executions[i].run
                 /\ executions'[i].row = executions[i].row
                 /\ executions'[i].definition = executions[i].definition
                 /\ executions[i].outcome = "passed" => executions'[i] = executions[i]
        BY <1>3, <1>9, <1>12
    <2> QED
        BY <1>4, <1>7, <1>12, <2>1, MoreAttempts
  <1>14. job'[j] = w /\ \A k \in Jobs \ {j} : job'[k] = job[k]
      BY <1>7 DEF CollectionRunInv, TypeOK
  <1>15. TypeOK'
      BY <1>1, <1>7, <1>11, <1>12 DEF CollectionRunInv, TypeOK
  <1>16. JobsExplained'
    <2> SUFFICES ASSUME NEW k \in Jobs, job'[k] # Idle
                 PROVE  /\ stage[job'[k].run] = "committed"
                        /\ job'[k].at = "ready" =>
                             ChainExplained(job[k].chain, job[k].run, job[k].row,
                                            Len(executions) + 1)'
                        /\ job'[k].at \in {"sent", "merging"} =>
                             /\ job'[k].execution \in 1..Len(executions')
                             /\ executions'[job'[k].execution].outcome =
                                  (IF job'[k].at = "sent" THEN "pending" ELSE "passed")
                             /\ \A i \in Jobs \ {k} : job'[i].at \in {"sent", "merging"} =>
                                                     job'[i].execution # job'[k].execution
        BY <1>1 DEF JobsExplained
    <2>1. CASE k = j
      <3>1. w \in Work /\ w.at = "merging" /\ w.execution = n /\ w.run = job[j].run
            /\ succeeded
          BY <1>11, <1>14, <2>1
      <3> QED
          BY <1>3, <1>9, <1>12, <1>14, <2>1, <3>1
    <2>2. CASE k # j
      <3>1. job'[k] = job[k] /\ stage[job[k].run] = "committed"
          BY <1>14, <2>2 DEF CollectionRunInv, JobsExplained
      <3>2. ASSUME job[k].at = "ready"
            PROVE  ChainExplained(job[k].chain, job[k].run, job[k].row, Len(executions) + 1)'
        <4>1. ChainExplained(job[k].chain, job[k].run, job[k].row, Len(executions) + 1)
          <5>1. job[k] # Idle
              BY <3>2 DEF Idle
          <5> QED
              BY <3>2, <5>1 DEF CollectionRunInv, JobsExplained
        <4>2. job'[k] = job[k] /\ Len(executions)' = Len(executions)
            BY <1>12, <3>1
        <4> QED
            BY <1>13, <4>1, <4>2
      <3>3. ASSUME job[k].at \in {"sent", "merging"}
            PROVE  /\ job[k].execution \in 1..Len(executions')
                   /\ executions'[job[k].execution].outcome =
                        (IF job[k].at = "sent" THEN "pending" ELSE "passed")
                   /\ \A i \in Jobs \ {k} : job'[i].at \in {"sent", "merging"} =>
                                           job'[i].execution # job[k].execution
        <4>1. job[k].execution # n
            BY <1>3, <2>2, <3>3
        <4>2. job'[j].at \in {"sent", "merging"} => job'[j].execution = n
            BY <1>11, <1>14 DEF Idle
        <4>3. job[k].execution \in 1..Len(executions)
              /\ executions[job[k].execution].outcome =
                   (IF job[k].at = "sent" THEN "pending" ELSE "passed")
              /\ \A i \in Jobs \ {k} : job[i].at \in {"sent", "merging"} =>
                                      job[i].execution # job[k].execution
            BY <3>1, <3>3 DEF CollectionRunInv, JobsExplained
        <4> QED
            BY <1>12, <1>14, <4>1, <4>2, <4>3
      <3> QED
          BY <3>1, <3>2, <3>3
    <2> QED
        BY <2>1, <2>2
  <1>17. ExecutionsExplained'
    <2> SUFFICES ASSUME NEW m \in 1..Len(executions')
                 PROVE  /\ stage[executions'[m].run] = "committed"
                        /\ ChainExplained(executions[m].chain, executions[m].run,
                                          executions[m].row, m)'
                        /\ \A x \in executions'[m].definition.uses :
                              executions'[m].sent[x] =
                                Resolve(x, executions'[m].chain, config[executions'[m].run])
                        /\ \A a \in executions'[m].assertions :
                              Parent[a] = executions'[m].request /\ a \notin unused
                        /\ executions'[m].outcome = "passed" =>
                             /\ \A x \in Saves(executions'[m]) : executions'[m].extracted[x] # None
                             /\ \A a \in executions'[m].assertions \cap stored :
                                  Passes(Config[a], executions'[m].response)
        BY <1>1 DEF ExecutionsExplained
    <2>1. m \in 1..Len(executions)
        BY <1>12
    <2>2. /\ stage[executions[m].run] = "committed"
          /\ ChainExplained(executions[m].chain, executions[m].run, executions[m].row, m)
          /\ \A x \in executions[m].definition.uses :
                executions[m].sent[x] =
                  Resolve(x, executions[m].chain, config[executions[m].run])
          /\ \A a \in executions[m].assertions :
                Parent[a] = executions[m].request /\ a \notin unused
          /\ executions[m].outcome = "passed" =>
               /\ \A x \in Saves(executions[m]) : executions[m].extracted[x] # None
               /\ \A a \in executions[m].assertions \cap stored :
                    Passes(Config[a], executions[m].response)
        BY <2>1 DEF CollectionRunInv, ExecutionsExplained
    <2>3. /\ executions'[m].run = executions[m].run /\ executions'[m].row = executions[m].row
          /\ executions'[m].chain = executions[m].chain
          /\ executions'[m].sent = executions[m].sent
          /\ executions'[m].definition = executions[m].definition
          /\ executions'[m].request = executions[m].request
          /\ executions'[m].assertions = executions[m].assertions
        BY <1>9, <1>12, <2>1
    <2>4. ChainExplained(executions[m].chain, executions[m].run, executions[m].row, m)'
        BY <1>13, <2>2, <2>3
    <2>5. CASE m = n
      <3>1. executions'[m] = f
          BY <1>12, <2>5
      <3>2. f.outcome = "passed" => succeeded
          BY <1>9
      <3> QED
          BY <1>10, <2>2, <2>3, <2>4, <3>1, <3>2
    <2>6. CASE m # n
      <3>1. executions'[m] = executions[m]
          BY <1>12, <2>1, <2>6
      <3> QED
          BY <2>2, <2>4, <3>1
    <2> QED
        BY <2>5, <2>6
  <1> QED
      BY <1>1, <1>13, <1>15, <1>16, <1>17 DEF CollectionRunInv

\* What a passed request extracted goes into the context in one piece
\* (RunContext.merge).
LEMMA MergeKeeps ==
  ASSUME CollectionRunInv, UNCHANGED <<catalogueVars, snapshotVars>>,
         NEW j \in Jobs, Merge(j)
  PROVE  CollectionRunInv'
  <1> DEFINE n == job[j].execution
             e == executions[n]
  <1>1. CatalogueTypeOK' /\ SnapshotTypeOK' /\ WellFormed' /\ TaskRequestsExist'
        /\ stored' = stored /\ unused' = unused /\ stage' = stage /\ config' = config
      BY WorkersKeepRows
  <1>2. job[j] \in Work /\ job[j] # Idle /\ job[j].at = "merging"
      BY AtWork DEF Merge
  <1>3. n \in 1..Len(executions) /\ e.outcome = "passed"
      BY <1>2 DEF CollectionRunInv, JobsExplained
  <1>4. executions \in Seq(Execution) /\ Len(executions) \in Nat
        /\ context \in [Runs -> [Rows -> Dict]]
        /\ writer \in [Runs -> [Rows -> [Names -> Nat]]]
        /\ job \in [Jobs -> Work \cup {Idle}]
      BY DEF CollectionRunInv, TypeOK
  <1>5. e.run \in Runs /\ e.row \in Rows /\ e.extracted \in Dict
    <2>1. e \in Execution
        BY <1>3, <1>4
    <2> QED
        BY <2>1 DEF Execution
  <1>6. \A x \in Saves(e) : e.extracted[x] # None
      BY <1>3 DEF CollectionRunInv, ExecutionsExplained
  <1> DEFINE newContext == Overlay(context[e.run][e.row], e.extracted)
             newWriter == [x \in Names |-> IF e.extracted[x] # None THEN n
                                          ELSE writer[e.run][e.row][x]]
  <1>7. /\ context' = [context EXCEPT ![e.run] = [context[e.run] EXCEPT ![e.row] = newContext]]
        /\ writer' = [writer EXCEPT ![e.run] = [writer[e.run] EXCEPT ![e.row] = newWriter]]
        /\ job' = [job EXCEPT ![j] = Idle] /\ executions' = executions
      BY DEF Merge
  <1> HIDE DEF e
  <1>8. newContext \in Dict
    <2>1. context[e.run][e.row] \in Dict
        BY <1>4, <1>5
    <2> QED
        BY <1>5, <2>1, OverlayType
  <1>9. newWriter \in [Names -> Nat]
      BY <1>3, <1>4, <1>5
  <1>10. ASSUME NEW r \in Runs, NEW row \in Rows, NEW x \in Names
         PROVE  \/ /\ context'[r][row][x] = context[r][row][x]
                   /\ writer'[r][row][x] = writer[r][row][x]
                   /\ r # e.run \/ row # e.row \/ e.extracted[x] = None
                \/ /\ context'[r][row][x] = e.extracted[x] /\ e.extracted[x] # None
                   /\ writer'[r][row][x] = n
                   /\ r = e.run /\ row = e.row
    <2>1. newContext[x] = IF e.extracted[x] # None THEN e.extracted[x]
                          ELSE context[e.run][e.row][x]
        BY DEF Overlay
    <2>2. newWriter[x] = IF e.extracted[x] # None THEN n ELSE writer[e.run][e.row][x]
        OBVIOUS
    <2> HIDE DEF newContext, newWriter, n
    <2>3. CASE r = e.run /\ row = e.row
      <3>1. context'[r][row] = newContext /\ writer'[r][row] = newWriter
          BY <1>4, <1>5, <1>7, <2>3
      <3> QED
          BY <2>1, <2>2, <2>3, <3>1
    <2>4. CASE ~(r = e.run /\ row = e.row)
      <3>1. context'[r][row] = context[r][row] /\ writer'[r][row] = writer[r][row]
          BY <1>4, <1>5, <1>7, <2>4
      <3> QED
          BY <2>4, <3>1
    <2> QED
        BY <2>3, <2>4
  <1>11. TypeOK'
    <2> HIDE DEF newContext, newWriter
    <2>1. context' \in [Runs -> [Rows -> Dict]]
        BY <1>4, <1>5, <1>7, <1>8
    <2>2. writer' \in [Runs -> [Rows -> [Names -> Nat]]]
        BY <1>4, <1>5, <1>7, <1>9
    <2> QED
        BY <1>1, <1>4, <1>7, <2>1, <2>2 DEF TypeOK
  <1> HIDE DEF newContext, newWriter
  <1>12. \A chain, s, d, m : ChainExplained(chain, s, d, m)' <=> ChainExplained(chain, s, d, m)
      BY <1>7 DEF ChainExplained, Passed
  <1>13. JobsExplained'
    <2> SUFFICES ASSUME NEW k \in Jobs, job'[k] # Idle
                 PROVE  /\ stage[job'[k].run] = "committed"
                        /\ job'[k].at = "ready" =>
                             ChainExplained(job'[k].chain, job'[k].run, job'[k].row,
                                            Len(executions) + 1)
                        /\ job'[k].at \in {"sent", "merging"} =>
                             /\ job'[k].execution \in 1..Len(executions)
                             /\ executions[job'[k].execution].outcome =
                                  (IF job'[k].at = "sent" THEN "pending" ELSE "passed")
                             /\ \A i \in Jobs \ {k} : job'[i].at \in {"sent", "merging"} =>
                                                     job'[i].execution # job'[k].execution
        BY <1>1, <1>7, <1>12 DEF JobsExplained
    <2>1. job'[j] = Idle /\ \A i \in Jobs \ {j} : job'[i] = job[i]
        BY <1>4, <1>7
    <2>2. k # j
        BY <2>1
    <2> QED
        BY <2>1, <2>2 DEF CollectionRunInv, JobsExplained, Idle
  <1>14. ExecutionsExplained'
      BY <1>1, <1>7, <1>12 DEF CollectionRunInv, ExecutionsExplained, Saves
  <1>15. WriterKnown'
    <2>1. n # 0
        BY <1>3
    <2> HIDE DEF n
    <2> QED
        BY <1>10, <2>1 DEF WriterKnown, CollectionRunInv
  <1>16. ContextExplained'
    <2>0. executions' = executions
        BY <1>7
    <2>1. Passed(n, e.run, e.row)
        BY <1>3 DEF Passed, e
    <2>2. executions[n].extracted = e.extracted
        BY DEF e
    <2> HIDE DEF n
    <2> SUFFICES ASSUME NEW r \in Runs, NEW row \in Rows, NEW x \in Names,
                        context'[r][row][x] # None
                 PROVE  /\ Passed(writer'[r][row][x], r, row)
                        /\ executions[writer'[r][row][x]].extracted[x] = context'[r][row][x]
        BY <2>0 DEF ContextExplained, Passed
    <2>3. CASE /\ context'[r][row][x] = context[r][row][x]
               /\ writer'[r][row][x] = writer[r][row][x]
        BY <2>3 DEF CollectionRunInv, ContextExplained
    <2>4. CASE /\ context'[r][row][x] = e.extracted[x] /\ writer'[r][row][x] = n
               /\ r = e.run /\ row = e.row
        BY <2>1, <2>2, <2>4
    <2> QED
        BY <1>10, <2>3, <2>4
  <1>17. NoTornContext'
    <2>0. executions' = executions
        BY <1>7
    <2>1. \A x \in Saves(executions[n]) : e.extracted[x] # None
        BY <1>6 DEF e
    <2> HIDE DEF n
    <2> SUFFICES ASSUME NEW r \in Runs, NEW row \in Rows, NEW x \in Names, NEW y \in Names,
                        writer'[r][row][x] # 0, writer'[r][row][y] # 0,
                        writer'[r][row][x] # writer'[r][row][y],
                        x \in Saves(executions[writer'[r][row][x]]),
                        y \in Saves(executions[writer'[r][row][x]]),
                        x \in Saves(executions[writer'[r][row][y]]),
                        y \in Saves(executions[writer'[r][row][y]])
                 PROVE  FALSE
        BY <2>0 DEF NoTornContext
    <2>2. CASE r = e.run /\ row = e.row /\ (writer'[r][row][x] = n \/ writer'[r][row][y] = n)
        BY <1>10, <2>1, <2>2
    <2>3. CASE ~(r = e.run /\ row = e.row /\ (writer'[r][row][x] = n \/ writer'[r][row][y] = n))
      <3>1. writer'[r][row][x] = writer[r][row][x] /\ writer'[r][row][y] = writer[r][row][y]
          BY <1>10, <2>3
      <3> QED
          BY <3>1 DEF CollectionRunInv, NoTornContext
    <2> QED
        BY <2>2, <2>3
  <1> QED
      BY <1>1, <1>11, <1>13, <1>14, <1>15, <1>16, <1>17 DEF CollectionRunInv

-----------------------------------------------------------------------------
\* Users keep the invariant, and so do the requests that create runs.
LEMMA UsersKeep ==
  ASSUME CollectionRunInv, UNCHANGED runVars,
         EditCatalogue \/ \E r \in Runs : CreateRun(r)
  PROVE  CollectionRunInv'
  <1> USE DEF CollectionRunInv
  <1>1. UNCHANGED <<executions, context, writer>> /\ job' = job
      BY DEF runVars
  <1>2. /\ CatalogueTypeOK' /\ SnapshotTypeOK' /\ WellFormed' /\ TaskRequestsExist'
        /\ unused' \subseteq unused /\ stored' \subseteq stored \cup unused
        /\ \A s \in Runs : stage[s] = "committed" =>
                            stage'[s] = "committed" /\ config'[s] = config[s]
    <2>1. CASE EditCatalogue
      <3>1. stage' = stage /\ config' = config /\ api_requests' = api_requests
          BY <2>1 DEF EditCatalogue, snapshotVars
      <3>2. SnapshotTypeOK'
          BY <3>1 DEF TypeOK, SnapshotTypeOK
      <3> QED
          BY <2>1, <3>1, <3>2, EditKeepsTypes
    <2>2. ASSUME NEW r \in Runs, CreateRun(r)
          PROVE  /\ CatalogueTypeOK' /\ SnapshotTypeOK' /\ WellFormed' /\ TaskRequestsExist'
                 /\ unused' \subseteq unused /\ stored' \subseteq stored \cup unused
                 /\ \A s \in Runs : stage[s] = "committed" =>
                                     stage'[s] = "committed" /\ config'[s] = config[s]
      <3>1. /\ stored' = stored /\ unused' = unused /\ definition' = definition
            /\ variables' = variables /\ edits' = edits
          BY <2>2, CreationKeepsTypes DEF catalogueVars
      <3>2. CatalogueTypeOK' /\ WellFormed'
          BY <3>1 DEF TypeOK, CatalogueTypeOK, WellFormed
      <3> QED
          BY <2>2, <3>1, <3>2, CreationKeepsTypes
    <2> QED
        BY <2>1, <2>2
  <1>3. JobsExplained' /\ ExecutionsExplained' /\ WriterKnown' /\ ContextExplained'
        /\ NoTornContext'
      BY <1>1, <1>2, OthersKeepRuns
  <1>4. TypeOK'
      BY <1>1, <1>2 DEF TypeOK
  <1> QED
      BY <1>2, <1>3, <1>4

\* Every step keeps the invariant.
LEMMA NextKeeps == CollectionRunInv /\ [Next]_vars => CollectionRunInv'
  <1> SUFFICES ASSUME CollectionRunInv, [Next]_vars PROVE CollectionRunInv'
      OBVIOUS
  <1>1. CASE EditCatalogue /\ UNCHANGED runVars
      BY <1>1, UsersKeep
  <1>2. CASE (\E r \in Runs : CreateRun(r)) /\ UNCHANGED runVars
      BY <1>2, UsersKeep
  <1>3. ASSUME UNCHANGED <<catalogueVars, snapshotVars>>, NEW j \in Jobs, JobStep(j)
        PROVE  CollectionRunInv'
    <2>1. CASE \E r \in Runs, q \in Requests, row \in Rows : Load(j, r, q, row)
        BY <1>3, <2>1, LoadKeeps
    <2>2. CASE ReadContext(j)
        BY <1>3, <2>2, ReadContextKeeps
    <2>3. CASE Execute(j)
        BY <1>3, <2>3, ExecuteKeeps
    <2>4. CASE RequestFails(j) \/ Abandon(j)
        BY <1>3, <2>4, DropKeeps
    <2>5. CASE Evaluate(j)
        BY <1>3, <2>5, EvaluateKeeps
    <2>6. CASE Merge(j)
        BY <1>3, <2>6, MergeKeeps
    <2> QED
        BY <1>3, <2>1, <2>2, <2>3, <2>4, <2>5, <2>6 DEF JobStep
  <1>4. ASSUME UNCHANGED <<catalogueVars, snapshotVars>>,
               NEW r \in Runs, NEW row \in Rows, ExpireContext(r, row)
        PROVE  CollectionRunInv'
      BY <1>4, ExpiryKeeps
  <1>5. CASE UNCHANGED vars
    <2>1. /\ UNCHANGED <<catalogueVars, snapshotVars, executions, context, writer>> /\ job' = job
        BY <1>5 DEF vars, runVars
    <2>2. /\ CatalogueTypeOK' /\ SnapshotTypeOK' /\ WellFormed' /\ TaskRequestsExist'
          /\ stored' = stored /\ unused' = unused /\ stage' = stage /\ config' = config
        BY <2>1, WorkersKeepRows
    <2>3. JobsExplained' /\ ExecutionsExplained' /\ WriterKnown' /\ ContextExplained'
          /\ NoTornContext'
        BY <2>1, <2>2, OthersKeepRuns
    <2>4. TypeOK'
        BY <2>1, <2>2 DEF CollectionRunInv, TypeOK
    <2> QED
        BY <2>2, <2>3, <2>4 DEF CollectionRunInv
  <1> QED
      BY <1>1, <1>2, <1>3, <1>4, <1>5 DEF Next

-----------------------------------------------------------------------------
\* Whatever is edited and created while workers execute, and wherever they drop a
\* task: rows keep their parents, runs keep the requests they need, and what is
\* sent and what is in the context is explained (CollectionRunInv).
THEOREM CollectionRunInvariance == Spec => []CollectionRunInv
  <1>1. Init => CollectionRunInv
      BY InitInvariant
  <1>2. CollectionRunInv /\ [Next]_vars => CollectionRunInv'
      BY NextKeeps
  <1> QED
      BY <1>1, <1>2, PTL DEF Spec

\* The delete of a request or a collection never takes away what the task of a run
\* points to (ON DELETE RESTRICT, and the foreign keys a run's rows are checked
\* against when they are inserted).
THEOREM RunsKeepTheirRequests == Spec => []TaskRequestsExist
  <1>1. CollectionRunInv => TaskRequestsExist
      BY DEF CollectionRunInv
  <1> QED
      BY <1>1, CollectionRunInvariance, PTL

\* Each variable in the hash of a run and a row was extracted by a request of that
\* run and row that passed: RunContext.merge is reached on no other path.
THEOREM ContextComesFromPassedRequests == Spec => []ContextExplained
  <1>1. CollectionRunInv => ContextExplained
      BY DEF CollectionRunInv
  <1> QED
      BY <1>1, CollectionRunInvariance, PTL

\* Two attempts that save the same variables are never mixed in the context: all of
\* an attempt's variables are merged by one HSET.
THEOREM ContextIsNeverTorn == Spec => []NoTornContext
  <1>1. CollectionRunInv => NoTornContext
      BY DEF CollectionRunInv
  <1> QED
      BY <1>1, CollectionRunInvariance, PTL

\* A step that leaves the attempts and their dicts alone, and takes nothing from the
\* context, keeps what had been merged.
LEMMA MergedStays ==
  ASSUME MergedIsRead, executions' = executions,
         \A r, row : Merged(r, row) \subseteq Merged(r, row)',
         NEW j, NEW w, \A k \in Jobs \ {j} : job'[k] = job[k],
         j \in Jobs => job'[j] = w,
         w # Idle =>
           /\ w.at = "loaded" => w.merged \subseteq Merged(w.run, w.row)'
           /\ w.at = "ready" => \A x \in w.merged : w.chain[x] # None
  PROVE  MergedIsRead'
  <1>1. ASSUME NEW k \in Jobs, job'[k] # Idle
        PROVE  /\ job'[k].at = "loaded" =>
                    job'[k].merged \subseteq Merged(job[k].run, job[k].row)'
               /\ job'[k].at = "ready" => \A x \in job'[k].merged : job'[k].chain[x] # None
    <2>1. CASE k = j
        BY <1>1, <2>1
    <2>2. CASE k # j
      <3>1. job'[k] = job[k]
          BY <2>2
      <3>2. /\ job[k].at = "loaded" => job[k].merged \subseteq Merged(job[k].run, job[k].row)
            /\ job[k].at = "ready" => \A x \in job[k].merged : job[k].chain[x] # None
          BY <1>1, <3>1 DEF MergedIsRead
      <3> QED
          BY <3>1, <3>2
    <2> QED
        BY <2>1, <2>2
  <1> QED
      BY <1>1 DEF MergedIsRead, Merged

\* What get_all reads has an entry for everything that is in the context.
LEMMA OverlayKeepsEntries ==
  ASSUME NEW base, NEW top, NEW x \in Names, base[x] # None
  PROVE  Overlay(base, top)[x] # None
  BY DEF Overlay

\* A worker's step, up to the moment its request is sent, loses nothing that had been
\* merged when it loaded the task.
LEMMA MergedIsReadByJob ==
  ASSUME CollectionRunInv, MergedIsRead, NEW j \in Jobs, JobStep(j)
  PROVE  MergedIsRead'
  <1> USE DEF CollectionRunInv
  <1>1. job \in [Jobs -> Work \cup {Idle}] /\ executions \in Seq(Execution)
        /\ Len(executions) \in Nat
      BY DEF TypeOK
  <1>2. ASSUME NEW r \in Runs, NEW q \in Requests, NEW row \in Rows, Load(j, r, q, row)
        PROVE  MergedIsRead'
    <2>1. /\ executions' = executions /\ context' = context
          /\ \A k \in Jobs \ {j} : job'[k] = job[k]
          /\ job'[j].at = "loaded" /\ job'[j].merged = Merged(r, row)
          /\ job'[j].run = r /\ job'[j].row = row
        BY <1>1, <1>2 DEF Load
    <2>2. \A s, d : Merged(s, d)' = Merged(s, d)
        BY <2>1 DEF Merged
    <2> QED
        BY <2>1, <2>2, MergedStays
  <1>3. CASE ReadContext(j)
    <2> DEFINE chain == Overlay(context[job[j].run][job[j].row], RowData(job[j].row))
    <2>1. job[j] \in Work /\ job[j] # Idle /\ job[j].at = "loaded"
        BY <1>3, AtWork DEF ReadContext
    <2>2. /\ executions' = executions /\ context' = context
          /\ \A k \in Jobs \ {j} : job'[k] = job[k]
          /\ job'[j].at = "ready" /\ job'[j].merged = job[j].merged
          /\ job'[j].chain = chain
      <3>1. /\ executions' = executions /\ context' = context
            /\ job' = [job EXCEPT ![j] = [job[j] EXCEPT !.at = "ready", !.chain = chain]]
          BY <1>1, <1>3 DEF ReadContext
      <3> HIDE DEF chain
      <3> QED
          BY <1>1, <2>1, <3>1 DEF Work
    <2>3. \A s, d : Merged(s, d)' = Merged(s, d)
        BY <2>2 DEF Merged
    <2>4. \A x \in job[j].merged :
             x \in Names /\ context[job[j].run][job[j].row][x] # None
        BY <2>1 DEF MergedIsRead, Merged
    <2>5. \A x \in job[j].merged : chain[x] # None
        BY <2>4, OverlayKeepsEntries
    <2> HIDE DEF chain
    <2> QED
        BY <2>2, <2>3, <2>5, MergedStays
  <1>4. CASE Execute(j)
    <2>1. job[j] \in Work /\ job[j] # Idle /\ job[j].at = "ready"
        BY <1>4, AtWork DEF Execute
    <2>2. \A x \in job[j].merged : job[j].chain[x] # None
        BY <2>1 DEF MergedIsRead
    <2>3. PICK e : /\ executions' = Append(executions, e)
                   /\ e.merged = job[j].merged /\ e.chain = job[j].chain
        BY <1>4 DEF Execute
    <2>4. /\ context' = context
          /\ \A k \in Jobs \ {j} : job'[k] = job[k]
          /\ job'[j].at = "sent"
        BY <1>1, <1>4, <2>1 DEF Execute, Work
    <2>5. /\ Len(executions') = Len(executions) + 1
          /\ executions'[Len(executions) + 1] = e
          /\ \A n \in 1..Len(executions) : executions'[n] = executions[n]
        BY <1>1, <2>3
    <2>6. \A n \in 1..Len(executions') :
             \A x \in executions'[n].merged : executions'[n].chain[x] # None
      <3> SUFFICES ASSUME NEW n \in 1..Len(executions'), NEW x \in executions'[n].merged
                   PROVE  executions'[n].chain[x] # None
          OBVIOUS
      <3>1. CASE n \in 1..Len(executions)
          BY <2>5, <3>1 DEF MergedIsRead
      <3>2. CASE n = Len(executions) + 1
          BY <2>2, <2>3, <2>5, <3>2
      <3> QED
          BY <1>1, <2>5, <3>1, <3>2
    <2>7. ASSUME NEW k \in Jobs, job'[k] # Idle
          PROVE  /\ job'[k].at = "loaded" =>
                      job'[k].merged \subseteq Merged(job[k].run, job[k].row)'
                 /\ job'[k].at = "ready" => \A x \in job'[k].merged : job'[k].chain[x] # None
      <3>1. CASE k = j
          BY <2>4, <3>1
      <3>2. CASE k # j
        <4>1. job'[k] = job[k]
            BY <2>4, <3>2
        <4> QED
            BY <2>4, <2>7, <4>1 DEF MergedIsRead, Merged
      <3> QED
          BY <3>1, <3>2
    <2> QED
        BY <2>6, <2>7 DEF MergedIsRead
  <1>5. CASE RequestFails(j) \/ Abandon(j)
    <2>1. /\ executions' = executions /\ context' = context
          /\ \A k \in Jobs \ {j} : job'[k] = job[k]
          /\ job'[j] = Idle
        BY <1>1, <1>5 DEF RequestFails, Abandon
    <2>2. \A s, d : Merged(s, d)' = Merged(s, d)
        BY <2>1 DEF Merged
    <2> QED
        BY <2>1, <2>2, MergedStays
  <1>6. CASE Evaluate(j)
    <2> DEFINE n == job[j].execution
    <2>1. job[j] \in Work /\ job[j] # Idle /\ job[j].at = "sent"
        BY <1>6, AtWork DEF Evaluate
    <2>2. n \in 1..Len(executions)
        BY <2>1 DEF JobsExplained
    <2>3. executions[n] \in Execution
        BY <1>1, <2>2
    <2>4. PICK f : /\ executions' = [executions EXCEPT ![n] = f]
                   /\ f.merged = executions[n].merged /\ f.chain = executions[n].chain
      <3>1. PICK vals : executions' = [executions EXCEPT ![n] =
                IF ExtractsAll(vals) /\ AssertionsPass(executions[n].request, executions[n].response)
                THEN [executions[n] EXCEPT !.outcome = "passed",
                        !.extracted = Extracted(executions[n].definition.extract_rules, vals)]
                ELSE [executions[n] EXCEPT !.outcome = "failed"]]
          BY <1>6 DEF Evaluate
      <3> DEFINE f == IF ExtractsAll(vals)
                           /\ AssertionsPass(executions[n].request, executions[n].response)
                      THEN [executions[n] EXCEPT !.outcome = "passed",
                              !.extracted = Extracted(executions[n].definition.extract_rules, vals)]
                      ELSE [executions[n] EXCEPT !.outcome = "failed"]
      <3>2. f.merged = executions[n].merged /\ f.chain = executions[n].chain
          BY <2>3 DEF Execution
      <3>3. executions' = [executions EXCEPT ![n] = f]
          BY <3>1
      <3> QED
          BY <3>2, <3>3
    <2>5. /\ context' = context
          /\ \A k \in Jobs \ {j} : job'[k] = job[k]
          /\ job'[j] = Idle \/ job'[j].at = "merging"
      <3>1. PICK w \in {Idle, [job[j] EXCEPT !.at = "merging"]} : job' = [job EXCEPT ![j] = w]
          BY <1>1, <1>6 DEF Evaluate
      <3>2. [job[j] EXCEPT !.at = "merging"].at = "merging"
          BY <2>1 DEF Work
      <3> QED
          BY <1>1, <1>6, <3>1, <3>2 DEF Evaluate
    <2> HIDE DEF n
    <2>6. /\ Len(executions') = Len(executions)
          /\ \A i \in 1..Len(executions) : /\ executions'[i].merged = executions[i].merged
                                           /\ executions'[i].chain = executions[i].chain
        BY <1>1, <2>2, <2>4
    <2>7. ASSUME NEW k \in Jobs, job'[k] # Idle
          PROVE  /\ job'[k].at = "loaded" =>
                      job'[k].merged \subseteq Merged(job[k].run, job[k].row)'
                 /\ job'[k].at = "ready" => \A x \in job'[k].merged : job'[k].chain[x] # None
      <3>1. CASE k = j
          BY <2>5, <2>7, <3>1
      <3>2. CASE k # j
        <4>1. job'[k] = job[k]
            BY <2>5, <3>2
        <4> QED
            BY <2>5, <2>7, <4>1 DEF MergedIsRead, Merged
      <3> QED
          BY <3>1, <3>2
    <2>8. \A i \in 1..Len(executions') :
             \A x \in executions'[i].merged : executions'[i].chain[x] # None
        BY <2>6 DEF MergedIsRead
    <2> QED
        BY <2>7, <2>8 DEF MergedIsRead
  <1>7. CASE Merge(j)
    <2> DEFINE e == executions[job[j].execution]
    <2>1. /\ executions' = executions
          /\ \A k \in Jobs \ {j} : job'[k] = job[k]
          /\ job'[j] = Idle
        BY <1>1, <1>7 DEF Merge
    <2>2. context \in [Runs -> [Rows -> Dict]]
        BY DEF TypeOK
    <2>3. context' = [context EXCEPT
             ![e.run] = [context[e.run] EXCEPT
               ![e.row] = Overlay(context[e.run][e.row], e.extracted)]]
        BY <1>7 DEF Merge
    <2> HIDE DEF e
    <2>4. e.run \in Runs /\ e.row \in Rows
      <3>1. job[j] # Idle /\ job[j].at = "merging"
          BY <1>7, AtWork DEF Merge
      <3>2. job[j].execution \in 1..Len(executions)
          BY <3>1 DEF JobsExplained
      <3>3. e \in Execution
          BY <1>1, <3>2 DEF e
      <3> QED
          BY <3>3 DEF Execution
    <2>5. ASSUME NEW k \in Jobs \ {j}, job[k] # Idle, job[k].at = "loaded"
          PROVE  job[k].merged \subseteq Merged(job[k].run, job[k].row)'
      <3>1. job[k] \in Work /\ job[k].run \in Runs /\ job[k].row \in Rows
          BY <1>1, <2>5 DEF Work
      <3>2. ASSUME NEW x \in Names, context[job[k].run][job[k].row][x] # None
            PROVE  context'[job[k].run][job[k].row][x] # None
        <4>1. CASE job[k].run = e.run /\ job[k].row = e.row
          <5>1. context'[e.run][e.row] = Overlay(context[e.run][e.row], e.extracted)
              BY <2>2, <2>3, <2>4
          <5> QED
              BY <3>2, <4>1, <5>1, OverlayKeepsEntries
        <4>2. CASE ~(job[k].run = e.run /\ job[k].row = e.row)
          <5>1. context'[job[k].run][job[k].row] = context[job[k].run][job[k].row]
              BY <2>2, <2>3, <2>4, <3>1, <4>2
          <5> QED
              BY <3>2, <5>1
        <4> QED
            BY <4>1, <4>2
      <3>3. job[k].merged \subseteq Merged(job[k].run, job[k].row)
          BY <2>5 DEF MergedIsRead
      <3> QED
          BY <2>1, <3>2, <3>3 DEF Merged
    <2>6. ASSUME NEW k \in Jobs, job'[k] # Idle
          PROVE  /\ job'[k].at = "loaded" =>
                      job'[k].merged \subseteq Merged(job[k].run, job[k].row)'
                 /\ job'[k].at = "ready" => \A x \in job'[k].merged : job'[k].chain[x] # None
      <3>1. k # j /\ job'[k] = job[k]
          BY <2>1, <2>6
      <3> QED
          BY <2>5, <2>6, <3>1 DEF MergedIsRead
    <2> QED
        BY <2>1, <2>6 DEF MergedIsRead
  <1> QED
      BY <1>2, <1>3, <1>4, <1>5, <1>6, <1>7 DEF JobStep

\* When a hash expires, tasks that have yet to read it have nothing to lose.
LEMMA MergedExpires ==
  ASSUME CollectionRunInv, MergedIsRead,
         NEW r \in Runs, NEW row \in Rows, ExpireContext(r, row)
  PROVE  MergedIsRead'
  <1>1. executions' = executions
      BY DEF ExpireContext
  <1>2. context \in [Runs -> [Rows -> Dict]] /\ job \in [Jobs -> Work \cup {Idle}]
      BY DEF CollectionRunInv, TypeOK
  <1>3. ASSUME NEW k \in Jobs, job'[k] # Idle
        PROVE  /\ job'[k].at = "loaded" =>
                    job'[k].merged \subseteq Merged(job[k].run, job[k].row)'
               /\ job'[k].at = "ready" => \A x \in job'[k].merged : job'[k].chain[x] # None
    <2>1. CASE job[k].at = "loaded" /\ job[k].run = r /\ job[k].row = row
      <3>1. job'[k] = [job[k] EXCEPT !.merged = {}] /\ job[k] \in Work
          BY <2>1, AtWork DEF ExpireContext
      <3> QED
          BY <2>1, <3>1 DEF Work
    <2>2. CASE ~(job[k].at = "loaded" /\ job[k].run = r /\ job[k].row = row)
      <3>1. job'[k] = job[k] /\ job[k] \in Work /\ job[k] # Idle
          BY <1>2, <1>3, <2>2 DEF ExpireContext
      <3>2. job[k].at = "loaded" =>
              context'[job[k].run][job[k].row] = context[job[k].run][job[k].row]
        <4>1. job[k].run \in Runs /\ job[k].row \in Rows
            BY <3>1 DEF Work
        <4> QED
            BY <1>2, <2>2, <4>1 DEF ExpireContext
      <3> QED
          BY <3>1, <3>2 DEF MergedIsRead, Merged
    <2> QED
        BY <2>1, <2>2
  <1> QED
      BY <1>1, <1>3 DEF MergedIsRead

\* What had been merged when a task was loaded is read by it, unless it expires first.
LEMMA MergedIsReadStep ==
  CollectionRunInv /\ MergedIsRead /\ [Next]_vars => MergedIsRead'
  <1> SUFFICES ASSUME CollectionRunInv, MergedIsRead, [Next]_vars PROVE MergedIsRead'
      OBVIOUS
  <1>1. CASE UNCHANGED runVars
      BY <1>1 DEF runVars, MergedIsRead, Merged
  <1>2. ASSUME NEW j \in Jobs, JobStep(j) PROVE MergedIsRead'
      BY <1>2, MergedIsReadByJob
  <1>3. ASSUME NEW r \in Runs, NEW row \in Rows, ExpireContext(r, row) PROVE MergedIsRead'
      BY <1>3, MergedExpires
  <1> QED
      BY <1>1, <1>2, <1>3 DEF Next, vars

\* What is sent for a variable, in this order: the value of the data row; else what
\* an earlier request of the run and row extracted; else, and only when the context
\* had no entry for it when it was read, the value at the creation of the run.  An
\* entry that was merged before the task was loaded is there when it is read, unless
\* its hash has expired.
THEOREM SentValuesAreExplained == Spec => []SentExplained
  <1>1. CollectionRunInv /\ MergedIsRead => SentExplained
    <2> SUFFICES ASSUME CollectionRunInv, MergedIsRead, NEW n \in 1..Len(executions),
                        NEW x \in executions[n].definition.uses
                 PROVE  LET e == executions[n]
                        IN  IF x \in DataNames[e.row] THEN e.sent[x] = DataValue(e.row)
                            ELSE \/ \E m \in 1..n - 1 : /\ Passed(m, e.run, e.row)
                                                        /\ e.sent[x] = executions[m].extracted[x]
                                 \/ /\ e.chain[x] = None /\ x \notin e.merged
                                    /\ e.sent[x] = config[e.run][x]
        BY DEF SentExplained
    <2> DEFINE e == executions[n]
    <2>1. e \in Execution
        BY DEF CollectionRunInv, TypeOK
    <2>2. x \in Names /\ e.row \in Rows
        BY <2>1 DEF Execution, Definition
    <2>3. DataValue(e.row) # None
        BY <2>2, ValueTypes, EvaluationAssumption
    <2>4. ChainExplained(e.chain, e.run, e.row, n)
          /\ e.sent[x] = Resolve(x, e.chain, config[e.run])
        BY DEF CollectionRunInv, ExecutionsExplained
    <2>5. x \in e.merged => e.chain[x] # None
        BY DEF MergedIsRead
    <2> HIDE DEF e
    <2>6. IF x \in DataNames[e.row] THEN e.chain[x] = DataValue(e.row)
          ELSE \/ e.chain[x] = None
               \/ \E m \in 1..n - 1 : Passed(m, e.run, e.row)
                                      /\ executions[m].extracted[x] = e.chain[x]
        BY <2>2, <2>4 DEF ChainExplained
    <2>7. e.sent[x] = IF e.chain[x] # None THEN e.chain[x] ELSE config[e.run][x]
        BY <2>4 DEF Resolve
    <2>8. CASE x \in DataNames[e.row]
        BY <2>3, <2>6, <2>7, <2>8 DEF e
    <2>9. CASE x \notin DataNames[e.row]
        BY <2>5, <2>6, <2>7, <2>9 DEF e
    <2> QED
        BY <2>8, <2>9
  <1>2. Init => MergedIsRead
      BY DEF Init, MergedIsRead
  <1> QED
      BY <1>1, <1>2, MergedIsReadStep, CollectionRunInvariance, PTL DEF Spec

\* What got into the context was asserted, by every assertion the request had when
\* it was sent and has still, though assertions are only read after the answer.
THEOREM MergedIsAsserted == Spec => []AssertedBeforeMerge
  <1>1. CollectionRunInv => AssertedBeforeMerge
    <2> SUFFICES ASSUME CollectionRunInv, NEW r \in Runs, NEW row \in Rows, NEW x \in Names,
                        writer[r][row][x] # 0
                 PROVE  \A a \in executions[writer[r][row][x]].assertions \cap stored :
                           Passes(Config[a], executions[writer[r][row][x]].response)
        BY DEF AssertedBeforeMerge
    <2> DEFINE n == writer[r][row][x]
    <2>1. context[r][row][x] # None
        BY DEF CollectionRunInv, WriterKnown
    <2>2. Passed(n, r, row)
        BY <2>1 DEF CollectionRunInv, ContextExplained
    <2>3. n \in 1..Len(executions) /\ executions[n].outcome = "passed"
        BY <2>2 DEF Passed
    <2> QED
        BY <2>3 DEF CollectionRunInv, ExecutionsExplained
  <1> QED
      BY <1>1, CollectionRunInvariance, PTL

-----------------------------------------------------------------------------
(* What was extracted *)

\* One more round makes one more variable available (available[save_as] = value in
\* the loop of extract_variables).
LEMMA AvailableNext ==
  ASSUME NEW rules, NEW vals, NEW dict, NEW i \in Nat \ {0}, NEW x
  PROVE  Available(rules, vals, dict, i, x) =
           IF rules[i].save_as = x THEN vals[i] ELSE Available(rules, vals, dict, i - 1, x)
  <1>1. ASSUME rules[i].save_as = x
        PROVE  Available(rules, vals, dict, i, x) = vals[i]
    <2>1. i \in Saving(rules, i, x) /\ \A k \in Saving(rules, i, x) : k \in Nat /\ i >= k
        BY <1>1 DEF Saving
    <2>2. Max(Saving(rules, i, x)) = i
        BY <2>1 DEF Max
    <2> QED
        BY <2>1, <2>2 DEF Available
  <1>2. ASSUME rules[i].save_as # x
        PROVE  Saving(rules, i, x) = Saving(rules, i - 1, x)
      BY <1>2 DEF Saving
  <1> QED
      BY <1>1, <1>2 DEF Available

\* Two loops that begin alike and take the same step from the same state end alike.
LEMMA SameLoop ==
  ASSUME NEW N \in Nat, NEW f, NEW g, f[0] = g[0],
         \A i \in 1..N : f[i - 1] = g[i - 1] => f[i] = g[i]
  PROVE  f[N] = g[N]
  <1> DEFINE T == {i \in 0..N : f[i] # g[i]}
  <1> SUFFICES ASSUME T # {} PROVE FALSE
      OBVIOUS
  <1>1. PICK i \in T : \A k \in T : i <= k
    <2>1. T \subseteq Nat
        OBVIOUS
    <2> HIDE DEF T
    <2> QED
        BY <2>1, Least
  <1>2. i \in 1..N /\ i - 1 \in 0..N /\ i - 1 \notin T
      BY <1>1
  <1> QED
      BY <1>1, <1>2

\* The loop of extract_variables computes what the rounds yield when none of them
\* raises.
LEMMA LoopYields ==
  ASSUME NEW e, NEW n, NEW rules \in Seq(Rule), e.definition.extract_rules = rules,
         e.chain \in Dict, NEW vals \in Rounds(rules, e.chain, e.row, n, e.response),
         ExtractsAll(vals)
  PROVE  ~Loop(e, n).raised /\ Loop(e, n).extracted = Extracted(rules, vals)
  <1> DEFINE N == Len(rules)
             First == [extracted |-> NoVariables, available |-> e.chain, raised |-> FALSE]
             Result(i, before) ==
               IF rules[i].type = "json_path"
               THEN ExtractJsonPath(e.row, n, e.response, rules[i].path)
               ELSE ExtractJwtClaim(before.available[rules[i].source_var], rules[i].claim)
             Round(i, before) ==
               LET value == Result(i, before)
               IN  IF before.raised \/ value = None THEN [before EXCEPT !.raised = TRUE]
                   ELSE [before EXCEPT !.extracted[rules[i].save_as] = value,
                                       !.available[rules[i].save_as] = value]
             Is(f) == f = [i \in 0..N |-> IF i = 0 THEN First ELSE Round(i, f[i - 1])]
             after == CHOOSE f : Is(f)
             State(i) == [extracted |-> [x \in Names |-> Available(rules, vals, NoVariables, i, x)],
                          available |-> [x \in Names |-> Available(rules, vals, e.chain, i, x)],
                          raised |-> FALSE]
             g == [i \in 0..N |-> State(i)]
  <1>1. Loop(e, n) = after[N]
      BY DEF Loop
  <1>2. N \in Nat
      OBVIOUS
  <1>3. State(0) = First
    <2>1. \A x : Saving(rules, 0, x) = {}
        BY DEF Saving
    <2>2. [x \in Names |-> e.chain[x]] = e.chain
        BY DEF Dict
    <2>3. [x \in Names |-> NoVariables[x]] = NoVariables
        BY DEF NoVariables
    <2> QED
        BY <2>1, <2>2, <2>3 DEF Available
  <1>4. ASSUME NEW i \in 1..N PROVE Round(i, State(i - 1)) = State(i)
    <2>1. rules[i] \in Rule /\ rules[i].save_as \in Names
        BY DEF Rule
    <2>2. vals[i] = RuleValue(rules, vals, e.chain, e.row, n, e.response, i) /\ vals[i] # None
        BY DEF Rounds, ExtractsAll
    <2>3. Result(i, State(i - 1)) = vals[i]
      <3>1. CASE rules[i].type = "json_path"
          BY <2>2, <3>1 DEF RuleValue
      <3>2. CASE rules[i].type # "json_path"
        <4>1. rules[i].source_var \in Names
            BY <2>1, <3>2 DEF Rule
        <4> QED
            BY <2>2, <3>2, <4>1 DEF RuleValue
      <3> QED
          BY <3>1, <3>2
    <2>4. ASSUME NEW dict
          PROVE  [x \in Names |-> Available(rules, vals, dict, i, x)] =
                   [[x \in Names |-> Available(rules, vals, dict, i - 1, x)]
                       EXCEPT ![rules[i].save_as] = vals[i]]
      <3>1. \A x : Available(rules, vals, dict, i, x) =
                     IF rules[i].save_as = x THEN vals[i]
                     ELSE Available(rules, vals, dict, i - 1, x)
        <4>1. i \in Nat \ {0}
            OBVIOUS
        <4> HIDE DEF N
        <4> QED
            BY <4>1, AvailableNext
      <3> QED
          BY <2>1, <3>1
    <2>5. ~State(i - 1).raised
        OBVIOUS
    <2>6. Round(i, State(i - 1)) =
            [State(i - 1) EXCEPT !.extracted[rules[i].save_as] = vals[i],
                                 !.available[rules[i].save_as] = vals[i]]
      <3> HIDE DEF State, Result
      <3> QED
          BY <2>2, <2>3, <2>5
    <2> DEFINE a == [x \in Names |-> Available(rules, vals, NoVariables, i - 1, x)]
               b == [x \in Names |-> Available(rules, vals, e.chain, i - 1, x)]
    <2>7. State(i) = [State(i - 1) EXCEPT !.extracted[rules[i].save_as] = vals[i],
                                          !.available[rules[i].save_as] = vals[i]]
      <3>1. State(i) = [extracted |-> [a EXCEPT ![rules[i].save_as] = vals[i]],
                        available |-> [b EXCEPT ![rules[i].save_as] = vals[i]],
                        raised |-> FALSE]
          BY <2>4
      <3>2. State(i - 1) = [extracted |-> a, available |-> b, raised |-> FALSE]
          OBVIOUS
      <3>3. PICK r, x, v, c, d : /\ r = State(i - 1) /\ x = rules[i].save_as /\ v = vals[i]
                                 /\ c = a /\ d = b
          OBVIOUS
      <3> HIDE DEF State, a, b
      <3>4. [r EXCEPT !.extracted[x] = v, !.available[x] = v]
              = [extracted |-> [c EXCEPT ![x] = v], available |-> [d EXCEPT ![x] = v],
                 raised |-> FALSE]
        <4> DEFINE A == {[c EXCEPT ![x] = v]}
                   B == {[d EXCEPT ![x] = v]}
                   S == [extracted : A, available : B, raised : {FALSE}]
                   s == [r EXCEPT !.extracted[x] = v, !.available[x] = v]
                   t == [extracted |-> [c EXCEPT ![x] = v], available |-> [d EXCEPT ![x] = v],
                         raised |-> FALSE]
        <4>1. r = [extracted |-> c, available |-> d, raised |-> FALSE]
            BY <3>2, <3>3
        <4>2. s \in S /\ t \in S
            BY <4>1
        <4>3. /\ s.extracted = t.extracted /\ s.available = t.available /\ s.raised = t.raised
          <5> HIDE DEF s, t
          <5> QED
              BY <4>2
        <4> HIDE DEF A, B
        <4>4. \A p, q \in S : p.extracted = q.extracted /\ p.available = q.available
                                /\ p.raised = q.raised => p = q
            OBVIOUS
        <4> HIDE DEF S, s, t
        <4>5. s = t
            BY <4>2, <4>3, <4>4
        <4> QED
            BY <4>5 DEF s, t
      <3> QED
          BY <3>1, <3>3, <3>4
    <2> HIDE DEF Round, State
    <2> QED
        BY <2>6, <2>7
  <1> HIDE DEF First, Round, State
  <1>5. Is(g)
      BY <1>2, <1>3, <1>4
  <1>6. Is(after)
      BY <1>5
  <1>7. after[N] = g[N]
    <2> HIDE DEF N
    <2>1. ASSUME NEW f, Is(f)
          PROVE  f[0] = First /\ \A i \in 1..N : f[i] = Round(i, f[i - 1])
      <3>1. 0 \in 0..N /\ \A i \in 1..N : i \in 0..N /\ i # 0
          BY <1>2
      <3>2. \A i \in 0..N : f[i] = IF i = 0 THEN First ELSE Round(i, f[i - 1])
          BY <2>1
      <3> QED
          BY <3>1, <3>2
    <2> HIDE DEF Is, after, g
    <2>2. /\ after[0] = First /\ \A i \in 1..N : after[i] = Round(i, after[i - 1])
          /\ g[0] = First /\ \A i \in 1..N : g[i] = Round(i, g[i - 1])
        BY <1>5, <1>6, <2>1
    <2>3. \A i \in 1..N : after[i - 1] = g[i - 1] => after[i] = g[i]
        BY <2>2
    <2> QED
        BY <1>2, <2>2, <2>3, SameLoop
  <1>8. g[N] = State(N)
      BY <1>2
  <1> HIDE DEF after, g
  <1> QED
      BY <1>1, <1>7, <1>8 DEF State, Extracted

\* What an execution has extracted is what the loop yields (extract_variables on
\* the execution's own rules, chain context and response).
InOrder(e, n) ==
  e.outcome = "passed" => ~Loop(e, n).raised /\ e.extracted = Loop(e, n).extracted

\* The loop looks at what does not change when an execution is decided.
LEMMA LoopReads ==
  ASSUME NEW e, NEW f, NEW n, f.definition = e.definition, f.chain = e.chain, f.row = e.row,
         f.response = e.response
  PROVE  Loop(f, n) = Loop(e, n)
  BY DEF Loop

\* An execution that is evaluated extracts in order.
LEMMA EvaluatedInOrder ==
  ASSUME CollectionRunInv, NEW j \in Jobs, Evaluate(j)
  PROVE  \E n \in 1..Len(executions) : \E f :
           executions' = [executions EXCEPT ![n] = f] /\ InOrder(f, n)
  <1> DEFINE n == job[j].execution
             e == executions[n]
             rules == e.definition.extract_rules
  <1>1. job[j] \in Work /\ job[j] # Idle /\ job[j].at = "sent"
      BY AtWork DEF Evaluate
  <1>2. n \in 1..Len(executions) /\ e.outcome = "pending"
      BY <1>1 DEF CollectionRunInv, JobsExplained
  <1>3. e \in Execution
      BY <1>2 DEF CollectionRunInv, TypeOK
  <1>4. rules \in Seq(Rule) /\ e.chain \in Dict
      BY <1>3 DEF Execution, Definition
  <1>5. PICK vals \in Rounds(rules, e.chain, e.row, n, e.response) :
          executions' = [executions EXCEPT ![n] =
            IF ExtractsAll(vals) /\ AssertionsPass(e.request, e.response)
            THEN [e EXCEPT !.outcome = "passed", !.extracted = Extracted(rules, vals)]
            ELSE [e EXCEPT !.outcome = "failed"]]
      BY DEF Evaluate
  <1> DEFINE passed == [e EXCEPT !.outcome = "passed", !.extracted = Extracted(rules, vals)]
             failed == [e EXCEPT !.outcome = "failed"]
  <1>6. ASSUME ExtractsAll(vals) PROVE InOrder(passed, n)
    <2>1. ~Loop(e, n).raised /\ Loop(e, n).extracted = Extracted(rules, vals)
      <3> HIDE DEF n, e, rules
      <3> QED
          BY <1>4, <1>6, LoopYields DEF rules
    <2>2. /\ passed.extracted = Extracted(rules, vals)
          /\ passed.definition = e.definition /\ passed.chain = e.chain /\ passed.row = e.row
          /\ passed.response = e.response
      <3> HIDE DEF e, n, rules
      <3> QED
          BY <1>3 DEF Execution
    <2> HIDE DEF passed, e, n, rules
    <2>3. Loop(passed, n) = Loop(e, n)
        BY <2>2, LoopReads
    <2> QED
        BY <2>1, <2>2, <2>3 DEF InOrder
  <1>7. InOrder(failed, n)
    <2>1. failed.outcome = "failed"
      <3> HIDE DEF e, n, rules
      <3> QED
          BY <1>3 DEF Execution
    <2> QED
        BY <2>1 DEF InOrder
  <1>8. \E f \in {passed, failed} : executions' = [executions EXCEPT ![n] = f] /\ InOrder(f, n)
    <2>1. CASE ExtractsAll(vals) /\ AssertionsPass(e.request, e.response)
        BY <1>5, <1>6, <2>1
    <2>2. CASE ~(ExtractsAll(vals) /\ AssertionsPass(e.request, e.response))
        BY <1>5, <1>7, <2>2
    <2> QED
        BY <2>1, <2>2
  <1> HIDE DEF passed, failed, n
  <1> QED
      BY <1>2, <1>8

\* What a request has extracted when it passes is what the loop of extract_variables
\* yields on its answer: claims from the newest token, and no rule skipped.
THEOREM ExtractionIsInOrder == Spec => []ExtractedInOrder
  <1> DEFINE AllInOrder == \A n \in 1..Len(executions) : InOrder(executions[n], n)
  <1>1. Init => AllInOrder
      BY DEF Init
  <1>2. CollectionRunInv /\ AllInOrder /\ [Next]_vars => AllInOrder'
    <2> SUFFICES ASSUME CollectionRunInv, AllInOrder, [Next]_vars PROVE AllInOrder'
        OBVIOUS
    <2>1. executions \in Seq(Execution)
        BY DEF CollectionRunInv, TypeOK
    <2>2. CASE UNCHANGED executions
        BY <2>2
    <2>3. ASSUME NEW j \in Jobs, Execute(j) PROVE AllInOrder'
      <3>1. PICK e : executions' = Append(executions, e) /\ e.outcome = "pending"
          BY <2>3 DEF Execute
      <3> QED
          BY <2>1, <3>1 DEF InOrder
    <2>4. ASSUME NEW j \in Jobs, Evaluate(j) PROVE AllInOrder'
      <3>1. PICK n \in 1..Len(executions) :
              \E f : executions' = [executions EXCEPT ![n] = f] /\ InOrder(f, n)
          BY <2>4, EvaluatedInOrder
      <3>2. PICK f : executions' = [executions EXCEPT ![n] = f] /\ InOrder(f, n)
          BY <3>1
      <3> QED
          BY <2>1, <3>2
    <2> QED
        BY <2>2, <2>3, <2>4 DEF Next, vars, runVars, JobStep, Load, ReadContext, RequestFails,
           Merge, Abandon, ExpireContext
  <1>3. AllInOrder => ExtractedInOrder
      BY DEF InOrder, ExtractedInOrder
  <1> HIDE DEF AllInOrder
  <1> QED
      BY <1>1, <1>2, <1>3, CollectionRunInvariance, PTL DEF Spec
=============================================================================
