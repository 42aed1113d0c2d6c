SPECIFICATION Spec
CONSTANTS
    OpIds = {1, 2}
    KindOf <- mcKinds
    TxsOf <- mcTxs
    NonceOf <- mcNonces
    OtherTxs = {"x"}
    MAX_OPS = 2
    ActivityEnvironment = {}
    Screens = {s1, s2}
    BalancesEnvironment = {}
    Accts = {a1, a2}
    Chains = {c1}
    NoAcct = NoAcct
    NoState = NoState
    MAX_BLOCK = 1
    FAST_RETRIES = 2
    AccountsEnvironment = {}
    ViewAccts = {v1, v2}
    IdentityRuns = {r1, r2}
    DetailsEnvironment = {}
    SimOps = {1, 2}
    NoSimulation = {}
    MAX_HEAD = 2
    MAX_JOBS = 3
    Estimates = {e1, e2}
    NoEstimate = NoEstimate
    NoFees = NoFees
    MAX_CHANGES = 2
CHECK_DEADLOCK FALSE
INVARIANTS TypeOK NoDuplicateListed SelectedExists LatestSimulationShown
PROPERTIES OpSettles  NetworkRecovers CatchesUp FeesCatchUp
