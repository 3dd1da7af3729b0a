CONSTANTS
    Caller = {g1, g2}
    MaxID = 2
    MaxNotes = 1
    Cap = 1
    MaxDup = 1
SPECIFICATION FairSpec
CHECK_DEADLOCK FALSE
PROPERTY TimeoutBoundsCall
