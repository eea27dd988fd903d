SPECIFICATION FairSpec
CONSTANTS
    QueueSize = 1
    RequeueWindow = 0
    Retries = 1
    ResultsCap = 1
    Valsets <- MCChanges
    MemberOf <- MCJoins
    KeptNonces = 2
    MaxNonce = 2
    MaxAtStart = 2
    MaxFailures = 2
    MaxOutages = 0
    MaxStops = 1
    MaxRestarts = 0
    MaxHelpers = 1
INVARIANTS ConfirmsAreDue NoPanicWhileServing
PROPERTIES EnqueuedIsResolved StopReturns
CHECK_DEADLOCK FALSE
