SPECIFICATION BaseSpec
CONSTANTS
  BaseFocuses = {"interval", "emitter", "statuses"}
  Timeouts <- MCTimeouts
  NoTimeout = "none"
  DefaultTimeout = "long"
  StartOptions <- MCOptions
  MaxCalls = 5
  MaxExecutions = 4
  Wrapped = {"e1", "e2", "c1"}
  Concurrent = {"c1"}
  Handlers = {1, 2}
  Subscribers = {"op1", "op2", "screen"}
  IdOf <- MCIdOf
  NoId = NoId
  NoMethod = NoMethod
  EmitterEnvironment = {}
  Sites = {"s1", "s2"}
  Hosted = {"s2"}
  ListAt <- MCListAt
  Checks = {1, 2}
  MAX_VERSION = 2
  MAX_STARTS = 1
INVARIANTS BaseTypeOK HandlersExclusive
PROPERTIES ImplementsTask UpdatesReachSubscribers StatusesSettle
\* an interval nobody starts stays idle
CHECK_DEADLOCK FALSE
