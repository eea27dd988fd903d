SPECIFICATION FairQuerySpec
CONSTANTS
    MaxNonce = 3
    LastMade = 5
    Chains <- MCChains
    FirstStates <- MCFirstStates
    Step = 2
    Keep = 2
    MaxHeight = 6
    MaxFailures = 1
    Validators <- MCValidators
    Power <- MCPower
    QueryChains <- MCQueryChains
    Queries <- MCQueries
    MaxMoniker = 1
    MaxChanges = 1
INVARIANTS ContractIsUsable NotFoundIsNotThere
    QueryTypeOK ReportIsTrue CanRelayIsTrue  SignatureIsTold
PROPERTIES CommandsReturn
CHECK_DEADLOCK FALSE
