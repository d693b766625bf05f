SPECIFICATION Spec
CONSTANTS
    LazyRename = TRUE
    Retries = 2
    Procs = {p1}
    Verbs <- AllVerbs
    Units <- BothUnits
    Faults = {}
    Promises <- Undertakings
INVARIANT NoOrphanSwitch
