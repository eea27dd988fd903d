SPECIFICATION FairSpec
CONSTANTS
    orchestrators = orchestrators
    relayer = relayer
    Peers <- MCPeers
    Relayer = relayer
    Members <- MCMembers
    Power <- MCPower
    Home <- MCHome
    Foreign <- MCForeign
    MaxValset = 2
    MaxFailures = 1
    MaxLeaves = 1
INVARIANTS TypeOK FoundIsEnough
PROPERTIES ImplementsQuorum NeverBack EnoughIsFound
