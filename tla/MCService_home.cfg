SPECIFICATION FairServiceSpec
CONSTANTS
    relayer = relayer
    another = another
    orchestrator = orchestrator
    keys = keys
    Procs <- MCProcs
    Needs <- MCNeeds
    Services <- MCServices
    Casts <- MCCasts
    Given = {relayer, orchestrator}
    Supervised = relayer
    Inodes <- MCInodes
    MaxCrashes = 1
    MaxEdits = 1
    MaxFailures = 1
INVARIANTS ExclusiveUnlessRaced ClosesUnlessRaced
    ServiceTypeOK EditIsKept RunsConfigured DHTHasItsStore
PROPERTIES ServesAgain
