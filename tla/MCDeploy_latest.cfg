SPECIFICATION Spec
CONSTANTS
    MaxNonce = 3
    LastMade = 4
    Chains <- MCChains
    FirstStates <- MCFirstStates
    Step = 2
    Keep = 2
    MaxHeight = 4
    MaxFailures = 1
INVARIANTS LatestStartsWithItsSet
CHECK_DEADLOCK FALSE
