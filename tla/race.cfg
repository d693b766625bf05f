SPECIFICATION Spec
CONSTANTS
    LazyRename = FALSE
    BootLimit = 1
    Procs = {p1, p2}
    Verbs <- AllVerbs
    Units <- BothUnits
    Faults <- RacingFaults
    Promises <- Undertakings
SYMMETRY Interchangeable
INVARIANTS Recoverable SettledStays NoOrphanTrial TrialBacked
PROPERTY RollbackReturnsGood
