CONSTANTS
    Tracks = 2
    Channels = {0, 2, 4}
    MaxFrames = 3
    MaxWire = 3
    MaxPending = 3
    Endless = FALSE
SPECIFICATION FairSpec
INVARIANTS MediaIsKept NothingIsMixedUp
 
CHECK_DEADLOCK FALSE
