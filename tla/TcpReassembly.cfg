CONSTANTS
    SeqSpace = 16
    Isn = 14
    StreamLen = 6
    MaxLen = 3
    MAX_PENDING_BYTES = 4
    MAX_PENDING_SEGMENTS = 2
    SYNC_SEGMENTS = 2
    SYNC_AGE = 1
    SKIP_AGE = 2
    MaxPushes = 4
    MaxStep = 1
SPECIFICATION Spec
INVARIANTS DeliveryIsFaithful NothingForgotten
CHECK_DEADLOCK FALSE
