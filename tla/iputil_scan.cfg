SPECIFICATION FairSpec
CONSTANTS
    ByteSize = 4
    Sizes = {1, 2, 4, 8, 16, 32, 64}
    AllocatedSets <- AllTakenBut
    Requests <- MCRequests
INVARIANT ScanMatches
PROPERTY ScanTerminates
CHECK_DEADLOCK FALSE
