CONSTANTS
    Execs = {"e1", "e2"}
    TaskIds = {"t1", "t2"}
    Tokens = {"k1"}
    Cancellers = {"c1"}
    MaxVersion = 2
    MaxChanges = 1
    MaxBacklog = 1
    MaxProgress = 0
    Endless = FALSE
SPECIFICATION SpecHost
INVARIANTS PluginIsStable NothingIsLeft CancelIsPrecise
CHECK_DEADLOCK FALSE
