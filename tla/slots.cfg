SPECIFICATION Spec
CONSTANTS
    Boards <- AllBoards
    OtherDisks <- ManyDisks
    Mishaps = {}
INVARIANTS TypeOK WritesSpare StaysResolvable CapsuleFound
