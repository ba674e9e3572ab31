CONSTANTS
    Tracks = 2
    Channels = {0, 2}
    MaxFrames = 1
    MaxWire = 2
    MaxPending = 1
    Endless = FALSE
SPECIFICATION FairSpec
INVARIANT OtherTracksContinue
CHECK_DEADLOCK FALSE
