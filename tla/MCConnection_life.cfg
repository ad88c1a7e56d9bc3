SPECIFICATION FairSpec
CONSTANTS
    NULL = NULL
    DestroyDuringConnect = FALSE
INVARIANTS
    
    OwnsExactly
    TeardownAfterConnect
    FailedConnectCleansUp
    DestroyReleases
    OneUdpChannel

    
CHECK_DEADLOCK FALSE
