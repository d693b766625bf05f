SPECIFICATION LiveSpec
CONSTANTS
    LazyRename = FALSE
    BootLimit = 2
    Procs = {p1}
    Verbs <- AllVerbs
    Units <- BothUnits
    Faults <- NoticedFaults
    Promises <- Undertakings
INVARIANTS TypeOK TrialVerified RecoverableInv
PROPERTIES CommitSticks UnwindClean RefusedNotBooted ComesBack KeepsABPromise
