SPECIFICATION Spec
CONSTANTS
    c1 = c1
    c2 = c2
    c3 = c3
    Calls = {c1, c2, c3}
    SendCalls = {c3}
    SmartAccount = TRUE
    Options = {"bundler", "relayer"}
    Environment = {}
    None = None
    Receipt = Receipt
SYMMETRY Symmetry
CHECK_DEADLOCK FALSE
INVARIANT ResolvedWasSent
INVARIANT RejectedNeverSent
INVARIANT OneAttemptAtATime
PROPERTY NotAddedAfterBroadcast
