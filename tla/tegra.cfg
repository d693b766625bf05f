SPECIFICATION Spec
CONSTANTS
    LazyRename = FALSE
    Retries = 2
    Procs = {p1}
    Verbs <- AllVerbs
    Units <- BothUnits
    Faults <- HardFaults
    Promises <- Undertakings
INVARIANTS TypeOK Eligible ArmedIsDurable
PROPERTIES InstallTakes RollbackHolds UnwindHolds FailedStays JudgedRight
