SPECIFICATION FairSpec
CONSTANTS
    first = first
    second = second
    orchestrator = orchestrator
    a1 = a1
    old = old
    changed = changed
    Shells <- MCShells
    Service = orchestrator
    Addrs <- MCAddrs
    Passes <- MCPasses
    Account = a1
    Passphrase = old
    Nicknames <- MCNicknames
    MaxCommands = 3
    MaxCrashes = 1
INVARIANTS TypeOK StoreIsAsReported NextNumberIsFree
PROPERTIES StartsEventually
CHECK_DEADLOCK FALSE
