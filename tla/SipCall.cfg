\* Two callers with one Call-ID; the first can redial and change its media.
CONSTANTS
    a = a
    b = b
    Callers <- TwoCallers
    CallIds = {x}
    MaxCalls = 2
    Expiry = 1
    MaxCSeq <- Requests
SPECIFICATION FairSpec
INVARIANTS OneSessionPerCall MediaIsWanted
PROPERTIES OnlyByeEnds CallsEnd
CHECK_DEADLOCK FALSE
