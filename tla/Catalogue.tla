----------------------------- MODULE Catalogue ------------------------------
(***************************************************************************)
(* What users edit: projects with their environment variables, and the     *)
(* tree of collections, requests and assertions below them.  One action is *)
(* one HTTP request, at its commit; a request that is refused changes      *)
(* nothing.  Who may make a request is decided in module Membership.       *)
(*                                                                         *)
(* Names and descriptions are left out.  So is order_index: it only        *)
(* decides in which order the tasks of a run go to the stream.             *)
(***************************************************************************)
EXTENDS Evaluation

CONSTANTS
    Projects, Collections, Requests, Assertions,  \* their ids, each used once
    Parent,          \* the foreign key of every row below a project
    Definitions,     \* what users make of each request
    Config,          \* type and config of each assertion
    InitialRows,     \* rows there are at the start
    InitialNames,    \* variables that every project has at the start
    MaxEdits         \* bound: edits of the catalogue

Nodes == Projects \cup Collections \cup Requests \cup Assertions

\* A request as far as its execution depends on it: the names in its url,
\* headers, query_params and body, and its extract_rules.
Definition == [uses : SUBSET Names, extract_rules : Seq(Rule)]

ASSUME CatalogueAssumption ==
    /\ None \notin Nodes
    /\ Parent \in [Nodes -> Nodes \cup {None}]
    /\ \A p \in Projects : Parent[p] = None
    /\ \A c \in Collections : Parent[c] \in Projects
    /\ \A q \in Requests : Parent[q] \in Collections
    /\ \A a \in Assertions : Parent[a] \in Requests
    /\ Definitions \in [Requests -> (SUBSET Definition) \ {{}}]
    /\ Config \in [Assertions -> Assertion]
    /\ InitialRows \subseteq Nodes
    /\ \A n \in InitialRows : Parent[n] \in InitialRows \cup {None}
    /\ InitialNames \subseteq Names
    /\ MaxEdits \in Nat

VARIABLES
    stored,      \* rows of projects, collections, api_requests and assertions
    unused,      \* ids no row has had yet
    definition,  \* of each request
    variables,   \* environment_variables of each project
    edits        \* number of edits so far; dates the value of a variable

catalogueVars == <<stored, unused, definition, variables, edits>>

CatalogueInit ==
    /\ stored = InitialRows
    /\ unused = Nodes \ InitialRows
    /\ definition \in [Requests -> UNION {Definitions[q] : q \in Requests}]
    /\ \A q \in Requests : definition[q] \in Definitions[q]
    /\ variables = [p \in Projects |->
                      [x \in Names |-> IF p \in InitialRows /\ x \in InitialNames
                                       THEN EnvValue(0) ELSE None]]
    /\ edits = 0

-----------------------------------------------------------------------------
Children(n) == {m \in stored : Parent[m] = n}

\* ON DELETE CASCADE, and the same by the ORM's cascade="all, delete-orphan".
Subtree(n) ==
    {n} \cup Children(n)
        \cup {m \in stored : \E k \in Children(n) : Parent[m] = k}
        \cup {m \in stored : \E k \in Children(n) : \E l \in Children(k) : Parent[m] = l}

ListByCollection(c) == Children(c) \cap Requests
ListByRequest(q) == Children(q) \cap Assertions

Edit == edits < MaxEdits /\ edits' = edits + 1

Above(n) == IF n = None THEN None ELSE Parent[n]

\* The rows from n up to its project, which every request about n reads to find
\* the organization it needs membership of.
Reachable(n) ==
    {n, Above(n), Above(Above(n)), Above(Above(Above(n)))} \subseteq stored \cup {None}

\* repository.create, below the row n belongs to.
Insert(n) ==
    /\ n \in unused
    /\ Reachable(Parent[n])
    /\ Edit
    /\ stored' = stored \cup {n}
    /\ unused' = unused \ {n}
    /\ UNCHANGED <<definition, variables>>

CreateProject == \E p \in Projects : Insert(p)
CreateCollection == \E c \in Collections : Insert(c)
CreateRequest == \E q \in Requests : Insert(q)
CreateAssertion == \E a \in Assertions : Insert(a)

\* update_request: any of its fields.
UpdateRequest(q) ==
    /\ Reachable(q)
    /\ Edit
    /\ \E d \in Definitions[q] : definition' = [definition EXCEPT ![q] = d]
    /\ UNCHANGED <<stored, unused, variables>>

\* Mutant: the row goes and the rows below it stay.
RemoveRowOnly(n) ==
    /\ Reachable(n)
    /\ Edit
    /\ stored' = stored \ {n}
    /\ UNCHANGED <<unused, definition, variables>>

\* repository.delete.  The variables of a project go with it.
Remove(n) ==
    /\ Reachable(n)
    /\ Edit
    /\ stored' = stored \ Subtree(n)
    /\ variables' = [p \in Projects |-> IF p = n THEN NoVariables ELSE variables[p]]
    /\ UNCHANGED <<unused, definition>>

-----------------------------------------------------------------------------
\* create_variable; a key the project has is a conflict.
CreateVariable(p, x) ==
    /\ p \in stored /\ variables[p][x] = None
    /\ Edit
    /\ variables' = [variables EXCEPT ![p][x] = EnvValue(edits')]
    /\ UNCHANGED <<stored, unused, definition>>

\* update_variable: a new value, or the value under another key, or both.
UpdateVariable(p, x) ==
    /\ p \in stored /\ variables[p][x] # None
    /\ Edit
    /\ \E y \in Names, value \in {variables[p][x], EnvValue(edits')} :
         /\ y = x \/ variables[p][y] = None
         /\ variables' = [variables EXCEPT
                            ![p] = [@ EXCEPT ![x] = None, ![y] = value]]
    /\ UNCHANGED <<stored, unused, definition>>

DeleteVariable(p, x) ==
    /\ p \in stored /\ variables[p][x] # None
    /\ Edit
    /\ variables' = [variables EXCEPT ![p][x] = None]
    /\ UNCHANGED <<stored, unused, definition>>

EditVariables ==
    \E p \in Projects, x \in Names :
       CreateVariable(p, x) \/ UpdateVariable(p, x) \/ DeleteVariable(p, x)

-----------------------------------------------------------------------------
CatalogueTypeOK ==
    /\ stored \subseteq Nodes
    /\ unused \subseteq Nodes
    /\ definition \in [Requests -> Definition]
    /\ variables \in [Projects -> Dict]
    /\ edits \in 0..MaxEdits

\* Every row but a project has its parent row, and an id is used once.
WellFormed ==
    /\ \A n \in stored : Parent[n] \in stored \cup {None}
    /\ stored \cap unused = {}
=============================================================================
