SPECIFICATION FairSpec
CONSTANTS
    primary = primary
    backup = backup
    Relayers <- MCAlone
    Backups <- MCNobody
    Valsets <- MCValsets
    Retries = 1
    Waits = 2
    Archive = TRUE
    KeptNonces = 2
    StartNonce = 1
    MaxNonce = 3
    MaxPrice = 1
    MaxFailures = 0
    MaxTimeouts = 0
    MaxStops = 0
    MaxRestarts = 0
PROPERTIES PrunedSetIsRecovered
CHECK_DEADLOCK FALSE
