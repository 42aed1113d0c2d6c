SPECIFICATION Spec
CONSTANTS
    SecretIds = {"password", "recovery"}
    Values = {"v1", "v2"}
    Keys = {"k1"}
    ExternalKeys = {}
    Seeds = {"s1"}
    Scenarios <- ChangeAndCrash
CHECK_DEADLOCK FALSE
INVARIANT RecoverableWhenLocked
