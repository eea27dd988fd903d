SPECIFICATION Spec
CONSTANTS
    QueueSize = 1
    RequeueWindow = 0
    Retries = 1
    ResultsCap = 1
    Valsets <- MCStays
    MemberOf <- MCStays
    KeptNonces = 1
    MaxNonce = 2
    MaxAtStart = 1
    MaxFailures = 1
    MaxOutages = 1
    MaxStops = 0
    MaxRestarts = 1
    MaxHelpers = 1
INVARIANTS TypeOK NonceAccounting HandledMeansConfirmed NothingElseIsLost
CHECK_DEADLOCK FALSE
