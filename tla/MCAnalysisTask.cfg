CONSTANTS
    Kinds = {"video", "audio", "pcap", "rtsp", "compare"}
    Captures <- MCCaptures
    Sessions <- MCSessions
    MaxTasks = 2
    MaxExports = 1
SPECIFICATION Spec
INVARIANTS OutcomeIsHonest HelpersEnd ExportIsWhole
PROPERTIES CancelStops EveryTaskEnds
CHECK_DEADLOCK FALSE
