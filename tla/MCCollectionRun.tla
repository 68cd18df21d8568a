-------------------------- MODULE MCCollectionRun ---------------------------
(***************************************************************************)
(* A collection with a login, which saves a token and a user, and an order *)
(* that uses both; a run over two data rows, one of which has a user of    *)
(* its own.                                                                *)
(***************************************************************************)
EXTENDS CollectionRun, TLC

CONSTANTS shop, market, smoke, nightly, login, order, refund, ok, found,
          token, user, tokenPath, userPath, claim, row1, row2, run

MCParent == (shop :> None) @@ (market :> None) @@ (smoke :> shop) @@ (nightly :> shop)
              @@ (login :> smoke) @@ (order :> smoke) @@ (refund :> smoke)
              @@ (ok :> login) @@ (found :> login)

ByPath(path, x) == [type |-> "json_path", path |-> path, save_as |-> x]
ByClaim(c, from, x) == [type |-> "jwt_claim", source_var |-> from, claim |-> c, save_as |-> x]

MCDefinitions ==
    (login :> {[uses |-> {}, extract_rules |-> <<ByPath(tokenPath, token),
                                                 ByClaim(claim, token, user)>>],
               [uses |-> {}, extract_rules |-> <<ByPath(userPath, user),
                                                 ByPath(tokenPath, token)>>]})
      @@ (order :> {[uses |-> {token, user}, extract_rules |-> <<>>]})
      @@ (refund :> {[uses |-> {token}, extract_rules |-> <<ByClaim(claim, user, token)>>]})

MCConfig == (ok :> [type |-> "status_code_equals", expected |-> 200])
              @@ (found :> [type |-> "json_path_exists", path |-> userPath])

Answer(status, paths) ==
    [status |-> status, latency |-> 20, header |-> "nothing",
     body |-> [p \in Paths |-> IF p \in paths THEN "other" ELSE "nothing"]]

MCResponses == {Answer(200, {tokenPath, userPath}), Answer(200, {tokenPath}),
                Answer(200, {userPath}), Answer(500, {tokenPath, userPath})}

MCDataNames == (row1 :> {}) @@ (row2 :> {user})
MCRunCollection == run :> smoke
MCRunRows == run :> {row1, row2}
MCInitialRows == {shop, smoke, login, order, ok}

\* The workers are interchangeable.
JobSymmetry == Permutations(Jobs)
=============================================================================
