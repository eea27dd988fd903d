SPECIFICATION Spec
CONSTANTS
    relayer = relayer
    orchestrator = orchestrator
    keys = keys
    Procs <- MCProcs
    Needs <- MCNeeds
    Supervised = relayer
    Inodes <- MCInodes
    MaxCrashes = 0
INVARIANTS LockIsExclusive
