SPECIFICATION RecordSpec
CONSTANTS
    Inodes = {i1, i2, i3, i4}
    NoInode = NoInode
    Procs = {p1, p2}
    TakeTurns = FALSE
PROPERTY RecordAtomic
