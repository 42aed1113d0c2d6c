SPECIFICATION Spec
CONSTANTS
    Forms <- mcForms
    ChainOf <- mcChainOf
    Empty = Empty
    Routes = {r1, r2}
    Nothing = Nothing
    MaxQuotes = 2
    Inits = {i1}
    SwapEnvironment = {"edit"}
    RouteIds = {s1, s2}
    BridgeRoutes = {s2}
    HashedRoutes = {s1}
    Window = 2
    MaxOthers = 1
    PollSlots = {1, 2}
    Chains = {1, 2}
    HomeChain = 1
    Addresses = {"native", "token"}
    Listed <- mcListed
    Known <- mcKnown
    NoToken = NoToken
    MaxPicks = 3
    TokensEnvironment = {"fail"}
CHECK_DEADLOCK FALSE
INVARIANT SubmitMatchesForm
