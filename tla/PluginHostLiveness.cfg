CONSTANTS
    Execs = {"e1", "e2"}
    TaskIds = {"t1"}
    Tokens = {}
    Cancellers = {"c1"}
    MaxVersion = 2
    MaxChanges = 1
    MaxBacklog = 1
    MaxProgress = 1
    Endless = FALSE
SPECIFICATION PromptSpec
PROPERTIES CancelEnds DeadlineEndsCalls
CHECK_DEADLOCK FALSE
