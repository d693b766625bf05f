SPECIFICATION LiveSpec
CONSTANTS
    LazyRename = TRUE
    BootLimit = 1
    Procs = {p1}
    Verbs <- AllVerbs
    Units <- BothUnits
    Faults <- AllFaults
    Promises <- Undertakings
PROPERTIES FailedStays PendingResolved
