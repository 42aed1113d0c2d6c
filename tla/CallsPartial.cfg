SPECIFICATION Spec
CONSTANTS
    c1 = c1
    c2 = c2
    Calls = {c1, c2}
    SendCalls = {}
    SmartAccount = FALSE
    Options = {"eoa"}
    Environment = {}
    None = None
    Receipt = Receipt
SYMMETRY Symmetry
CHECK_DEADLOCK FALSE
INVARIANT ResolvedWasSent
