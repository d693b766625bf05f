SPECIFICATION LiveSpec
CONSTANTS
    LazyRename = FALSE
    Retries = 2
    Procs = {p1}
    Verbs <- AllVerbs
    Units <- BothUnits
    Faults = {}
    Promises <- Undertakings
INVARIANTS BootConfirmed NoOrphanSwitch
PROPERTIES CommitSticks ComesBack PendingResolved
CHECK_DEADLOCK FALSE
