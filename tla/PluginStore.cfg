\* One desktop process, with failing system calls and a crash: alone on
\* Windows, elsewhere with a program that lists the store at any moment.
CONSTANTS
    Ids = {"rt", "app"}
    Keys = {"k1", "k2"}
    Packages <- MCPackages
    Writers = {"desktop"}
    Readers = {"cli"}
    Platforms = {TRUE, FALSE}
    RenameReplaces = TRUE
    MaxOps = 5
    MaxFaults = 1
    MaxCrashes = 1
SPECIFICATION AloneSpec
INVARIANTS IndexWellFormed  ReadsCommitted
PROPERTY ImplementsRegistry
CHECK_DEADLOCK FALSE
