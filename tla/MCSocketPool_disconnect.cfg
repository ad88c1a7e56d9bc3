SPECIFICATION FairSpec
CONSTANTS
    NULL = NULL
    RUDP = RUDP
    NumSlots = 2
    MaxConnection = 3
    MaxDials = 3
    MaxFields = 2
    Directions = {"both", "s2c"}
    PrimaryDirection = "both"
    LockDisciplines = {{"TX", "RX"}, {"TX", "RX", "DX"}}
INVARIANTS TypeOK DestroyedOnce UsedContextIsAlive DisconnectReleases
 
CHECK_DEADLOCK FALSE
