\* One capture of two UDP flows.
CONSTANTS
    SequenceMod = 32
    JumpFrom = 5
    JumpTo = 30
    MaxStreams = 3
    MaxSample = 4
    MaxEvents = 1
    None = None
    Flows <- MCFlows
    Bases <- MCBases
    Payloads <- MCPayloads
    Offers <- MCOffers
    MaxWindow = 2
    MaxSent = 5
    MaxDelayed = 2
    MaxCopies = 1
    MaxReports = 1
    MaxBindings = 1
SPECIFICATION SpecUdp
INVARIANTS PacketsAreAccounted UnitsAreWhole
PROPERTY SampleIsPrefix
CHECK_DEADLOCK FALSE
