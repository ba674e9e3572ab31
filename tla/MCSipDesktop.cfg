CONSTANTS
    None_ = None_
    Nothing = None_
    Captures <- MCCaptures
    Statuses = {200, 404, 486}
    Edits = TRUE
    MaxSteps = 24
    Scripts <- MCScripts
    DeviceSends <- MCDeviceSends
    Pauses = {1, 3}
    MaxTrouble = 2
    MaxAged = 1
    MaxArrivals = 4
    MaxClock = 3
    MaxMessages = 100
    MaxTcpFlows = 4
    MaxRtpFlows = 8
    MaxFindings = 50
    MaxBuffer = 400
    Names = {}
    Unspecified = "0.0.0.0"
    MaxBusy = 2
    MaxCached = 2
    BusyLife = 3
    AckLife = 1
    CacheLife = 3
    MaxExpires = 3
    Transports = {"udp", "tcp"}
    FirstLines = {"listening", "other", "garbage"}
    MaxActive = 1
    MaxStarts = 2
    Talks <- MCTalks
    Replies <- MCReplies
SPECIFICATION FairSpecD
INVARIANTS TransactionsFit SuccessEndsCall SipReportIsTrue SimulatorIsSound EnginesAreSound
 
CHECK_DEADLOCK FALSE
