CONSTANTS
    SeqMod = 8
    Block = 2
    Window = 15
    TsMod = 16
    Second = 1
    MaxPackets = 5
    Packets <- NoPackets
    MaxIndex = 10
    MaxReorder = 3
    Bases = {6}
    TsBase = 13
    FrameOf <- MCFrameOf
    TsStep = 2
    Sizes = {1}
    MaxTime = 1
    Nothing = Nothing
    Sent <- MCSent
    Views <- MCViews
    Milliseconds = 1000
    LateIdr = 1
    LongGop = 2
    LongWaitFrames = 1
    LongWaitMs = 500
    MaxDigits = 1
    HrdClock = 10
    MaxNalus = 8
    MaxFrames = 5
    MaxEvents = 3
    Tolerated = 20
    MinDuration = 1000
    MinPackets = 3
    MinFrames = 2
SPECIFICATION SpecS
INVARIANTS StreamIsFaithful LossIsExact  DiagnosisIsJustified
CHECK_DEADLOCK FALSE
