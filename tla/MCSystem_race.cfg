SPECIFICATION SystemSpec
CONSTANTS
    primary = primary
    backup = backup
    ann = ann
    bob = bob
    Relayers <- MCBoth
    Backups <- MCNobody
    Valsets <- MCValsets
    Retries = 1
    Waits = 2
    Archive = TRUE
    KeptNonces = 1
    StartNonce = 1
    MaxNonce = 3
    MaxPrice = 2
    MaxFailures = 0
    MaxTimeouts = 1
    MaxStops = 0
    MaxRestarts = 1
    Orchestrators <- MCOrchestrators
    Powers <- MCPowersRace
    Honest <- MCOrchestrators
    Blind <- MCNobody
INVARIANTS SystemTypeOK NextIsAccepted NextVerifies SubmittedIsSaved AccountNonceIsFree
PROPERTIES ImplementsRelayers
SYMMETRY MCSymmetry
CHECK_DEADLOCK FALSE
