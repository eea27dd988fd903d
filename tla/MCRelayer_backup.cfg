SPECIFICATION Spec
CONSTANTS
    primary = primary
    backup = backup
    Relayers <- MCBoth
    Backups <- MCBackup
    Valsets <- MCValsets
    Retries = 1
    Waits = 2
    Archive = FALSE
    KeptNonces = 3
    StartNonce = 1
    MaxNonce = 3
    MaxPrice = 1
    MaxFailures = 0
    MaxTimeouts = 0
    MaxStops = 0
    MaxRestarts = 0
INVARIANTS BackupWaitsForTheNonce
CHECK_DEADLOCK FALSE
