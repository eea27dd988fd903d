SPECIFICATION FairSystemSpec
CONSTANTS
    primary = primary
    backup = backup
    ann = ann
    bob = bob
    Relayers <- MCBoth
    Backups <- MCBackup
    Valsets <- MCValsets
    Retries = 1
    Waits = 1
    Archive = FALSE
    KeptNonces = 3
    StartNonce = 1
    MaxNonce = 3
    MaxPrice = 1
    MaxFailures = 1
    MaxTimeouts = 1
    MaxStops = 1
    MaxRestarts = 0
    Orchestrators <- MCOrchestrators
    Powers <- MCPowersLive
    Honest <- MCOrchestrators
    Blind <- MCNobody
PROPERTIES SystemIsABridge RelayerStops
CHECK_DEADLOCK FALSE
