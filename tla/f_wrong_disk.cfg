SPECIFICATION Spec
CONSTANTS
    Boards <- UbootGpt
    OtherDisks <- ManyDisks
    Mishaps = {"no spare"}
INVARIANT WritesSpare
