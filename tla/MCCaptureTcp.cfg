\* One capture of three TCP connections; the table has room for one at a time.
CONSTANTS
    SequenceMod = 32
    JumpFrom = 5
    JumpTo = 30
    MaxStreams = 3
    MaxSample = 9
    MaxEvents = 1
    None = None
    MaxRequests = 3
    MaxMappings = 1
    StringOrder <- MCStringOrder
    Keys <- MCKeys
    Script <- MCScript
    Begun <- MCBegun
    MaxConnections = 1
    MaxTrouble = 1
SPECIFICATION SpecTcp
INVARIANTS ConnectionsDoNotMix HolesReachTheStages ExchangesAreReported MediaIsNamedRight
CHECK_DEADLOCK FALSE
