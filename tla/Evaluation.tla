----------------------------- MODULE Evaluation -----------------------------
(***************************************************************************)
(* What a worker computes of one request: template_resolver.py,            *)
(* assertion_engine.py and variable_extractor.py, as operators.            *)
(*                                                                         *)
(* A template is the set of names it uses.  A value says where it comes    *)
(* from: a version of a project variable, a data row, or the item at a     *)
(* JSONPath of the response of one execution, or a claim of such an item.  *)
(* A dict of variables is a function from Names with None where there is   *)
(* no entry.  A response is its status, its latency, one header and what   *)
(* each JSONPath finds in its body; a body that is not JSON is one in      *)
(* which nothing is found.                                                 *)
(***************************************************************************)
EXTENDS Integers, Sequences, FiniteSetsExt

CONSTANTS
    Names,        \* variable names
    Paths,        \* JSONPaths and claims
    Rows,         \* data rows of a run
    TokenPaths,   \* paths at which responses have a JWT
    TokenRows,    \* data rows that bring a JWT
    TokenClaims,  \* the claims of such a JWT
    None

Value == [source : {"env", "data", "response"}, row : Rows \cup {None}, exec : Nat,
          item : Paths \cup {None}, claim : Paths \cup {None}]

ASSUME EvaluationAssumption ==
    /\ TokenPaths \subseteq Paths /\ TokenClaims \subseteq Paths /\ TokenRows \subseteq Rows
    /\ None \notin Value /\ None \notin Rows

Dict == [Names -> Value \cup {None}]
NoVariables == [x \in Names |-> None]

EnvValue(version) ==
    [source |-> "env", row |-> None, exec |-> version, item |-> None, claim |-> None]
DataValue(row) ==
    [source |-> "data", row |-> row, exec |-> 0, item |-> None, claim |-> None]
ItemOf(row, exec, path) ==
    [source |-> "response", row |-> row, exec |-> exec, item |-> path, claim |-> None]

\* {**base, **top}
Overlay(base, top) == [x \in Names |-> IF top[x] # None THEN top[x] ELSE base[x]]

-----------------------------------------------------------------------------
\* resolve_template for one placeholder; None is UndefinedVariableError.
Resolve(x, chain_context, environment_variables) ==
    IF chain_context[x] # None THEN chain_context[x] ELSE environment_variables[x]

\* What a request sends for the names it uses; resolve_template and
\* resolve_mapping of all its parts.
Resolved(uses, chain_context, environment_variables) ==
    [x \in Names |-> IF x \in uses THEN Resolve(x, chain_context, environment_variables)
                     ELSE None]

-----------------------------------------------------------------------------
Status == {200, 500}
Finding == {"nothing", "expected", "other"}
Response == [status : Status, latency : Nat, header : {"nothing", "expected", "other"},
             body : [Paths -> Finding]]

Assertion ==
    [type : {"status_code_equals"}, expected : Status]
      \cup [type : {"json_path_equals", "json_path_exists"}, path : Paths]
      \cup [type : {"response_time_below"}, max_ms : Nat]
      \cup [type : {"header_equals"}]

\* _evaluate_one.  An assertion that cannot be evaluated has failed.
Passes(assertion, response) ==
    CASE assertion.type = "status_code_equals"  -> response.status = assertion.expected
      [] assertion.type = "json_path_equals"    -> response.body[assertion.path] = "expected"
      [] assertion.type = "json_path_exists"    -> response.body[assertion.path] # "nothing"
      [] assertion.type = "response_time_below" -> response.latency < assertion.max_ms
      [] assertion.type = "header_equals"       -> response.header = "expected"

-----------------------------------------------------------------------------
Rule == [type : {"json_path"}, path : Paths, save_as : Names]
          \cup [type : {"jwt_claim"}, source_var : Names, claim : Paths, save_as : Names]

\* _extract_json_path: the first match, or None for ExtractionError
ExtractJsonPath(row, exec, response, path) ==
    IF response.body[path] = "nothing" THEN None ELSE ItemOf(row, exec, path)

\* A value that can be decoded; a claim of a token is no token.
IsToken(value) ==
    /\ value.claim = None
    /\ \/ value.source = "response" /\ value.item \in TokenPaths
       \/ value.source = "data" /\ value.row \in TokenRows

\* _extract_jwt_claim, on what the source variable holds
ExtractJwtClaim(value, claim) ==
    IF value # None /\ IsToken(value) /\ claim \in TokenClaims
    THEN [value EXCEPT !.claim = claim]
    ELSE None

\* The rules among the first n that save x.
Saving(rules, n, x) == {i \in 1..n : rules[i].save_as = x}

\* available[x] when n rules have run and have yielded vals.
Available(rules, vals, chain_context, n, x) ==
    IF Saving(rules, n, x) = {} THEN chain_context[x] ELSE vals[Max(Saving(rules, n, x))]

\* Mutant: claims are read from what was available before the first rule.
RuleValueFromContext(rules, vals, chain_context, row, exec, response, i) ==
    IF rules[i].type = "json_path"
    THEN ExtractJsonPath(row, exec, response, rules[i].path)
    ELSE ExtractJwtClaim(chain_context[rules[i].source_var], rules[i].claim)

\* The i-th round of the loop in extract_variables.
RuleValue(rules, vals, chain_context, row, exec, response, i) ==
    IF rules[i].type = "json_path"
    THEN ExtractJsonPath(row, exec, response, rules[i].path)
    ELSE ExtractJwtClaim(Available(rules, vals, chain_context, i - 1, rules[i].source_var),
                         rules[i].claim)

\* Whatever the rules yield is one of these.
Candidates(chain_context, row, exec) ==
    LET items == {ItemOf(row, exec, path) : path \in Paths}
    IN  {None} \cup items
          \cup {ExtractJwtClaim(value, claim) :
                  value \in items \cup {chain_context[x] : x \in Names}, claim \in Paths}

\* The values of all rounds: each is computed from the rounds before it.
Rounds(rules, chain_context, row, exec, response) ==
    {vals \in [1..Len(rules) -> Candidates(chain_context, row, exec)] :
       \A i \in 1..Len(rules) :
         vals[i] = RuleValue(rules, vals, chain_context, row, exec, response, i)}

\* extracted, when no round raised
Extracted(rules, vals) ==
    [x \in Names |-> Available(rules, vals, NoVariables, Len(rules), x)]
=============================================================================
