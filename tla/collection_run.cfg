SPECIFICATION Spec
CONSTANTS
    shop = shop
    market = market
    smoke = smoke
    nightly = nightly
    login = login
    order = order
    refund = refund
    ok = ok
    found = found
    token = token
    user = user
    tokenPath = tokenPath
    userPath = userPath
    claim = claim
    row1 = row1
    row2 = row2
    run = run
    None = None
    Names = {token, user}
    Paths = {tokenPath, userPath, claim}
    Rows = {row1, row2}
    TokenPaths = {tokenPath}
    TokenClaims = {claim}
    TokenRows = {row2}
    Projects = {shop, market}
    Collections = {smoke, nightly}
    Requests = {login, order, refund}
    Assertions = {ok, found}
    Parent <- MCParent
    Definitions <- MCDefinitions
    Config <- MCConfig
    InitialRows <- MCInitialRows
    InitialNames = {user}
    MaxEdits = 1
    Runs = {run}
    RunCollection <- MCRunCollection
    RunRows <- MCRunRows
    Jobs = {j1, j2}
    Responses <- MCResponses
    DataNames <- MCDataNames
    MaxExecutions = 2
INVARIANTS
    CollectionRunInv
    TaskRequestsExist
    ContextExplained
    NoTornContext
    SentExplained
    AssertedBeforeMerge
    ExtractedInOrder
CHECK_DEADLOCK FALSE
SYMMETRY JobSymmetry
