SPECIFICATION Spec
CONSTANTS
    LazyRename = FALSE
    Retries = 2
    Procs = {p1}
    Verbs <- AllVerbs
    Units <- BothUnits
    Faults = {"save"}
    Promises <- Undertakings
PROPERTY MarkGoodRecovers
