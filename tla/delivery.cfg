SPECIFICATION Spec
CONSTANTS
    Images <- ManyImages
    PackOptions <- ManyOptions
    Foreign <- ManyForeign
    Boards <- ManyBoards
    MaxInstalls <- InstallsOf
    Cells = 2
    Pat = 2
    Half = 32
    HistoryCap = 2
    Inodes = {i1, i2, i3}
    NoInode = NoInode
    Procs = {p1}
    TakeTurns = TRUE
INVARIANTS TypeOK BootsWhole BlamelessInstalls PackedIsRaw HistoryTrue
PROPERTIES WriteGated InstallReports RecordAtomic
