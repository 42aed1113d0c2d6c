SPECIFICATION InfraSpec
CONSTANTS
    Focuses = {"keystore", "vault", "storage", "message", "requests", "picker", "apps"}
    SecretIds = {"password", "recovery"}
    Values = {"v1", "v2"}
    Keys = {"k1", "k2"}
    ExternalKeys = {"h1"}
    Seeds = {"s1", "s2"}
    Scenarios <- AllScenarios
    MAX_UPLOADS = 2
    StorageOrigins <- mcOrigins
    MAX_RESTARTS = 2
    MAX_WRITES = 2
    Messages = {"m1", "m2"}
    Owners = {"a1", "a2"}
    OwnerOf <- mcOwnerOf
    SmartOwners = {"a2"}
    Signings = {1, 2}
    MAX_INSTALLS = 3
    MessageEnvironment = {}
    Dapps = {"d1", "d2", "d3"}
    Addresses = {"a1", "a2"}
    AddressOf <- mcAddressOf
    RequestsEnvironment = {}
    NoMessage = NoMessage
    NoOne = NoOne
    Iterators = {i1, i2}
    PrivateKeys = {i2}
    Paths = {p1, p2}
    Pages = {1, 2}
    PageCalls = {1, 2}
    AddCalls = {1, 2}
    NoIterator = NoIterator
    NoPath = NoPath
    PickerEnvironment = {}
    AppIds = {"d1", "d2"}
    Predefined = {"d1"}
    AppAccounts = {"a1", "a2"}
    RETRIES = 3
    MAX_RELOADS = 1
    ConnectionsEnvironment = {}
CHECK_DEADLOCK FALSE
INVARIANTS OneMainKey RecoverableBetweenChanges MigrationComplete
INVARIANTS InfraTypeOK MigrationsKeepData ReadsLatestWrite
INVARIANTS  PromiseHeld ImportedWithItsKey ConnectedAsGranted
PROPERTIES InternalKeysStay CancelledStoresNothing
