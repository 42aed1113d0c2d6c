SPECIFICATION FairSpec
CONSTANTS
    c1 = c1
    c2 = c2
    Calls = {c1, c2}
    SendCalls = {c2}
    SmartAccount = FALSE
    Options = {"relayer","eoa","bundler"}
    Environment = {"close", "reject"}
    None = None
    Receipt = Receipt
CHECK_DEADLOCK FALSE
INVARIANT NoPromiseLost
INVARIANT SentAsReviewed
PROPERTY SubmittedOnce
PROPERTY EveryDappAnswered
