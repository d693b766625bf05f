SPECIFICATION Spec
CONSTANTS
    LazyRename = FALSE
    BootLimit = 1
    Procs = {p1}
    Verbs = {"install"}
    Units = {"verify", "commit"}
    Faults = {"markgood"}
    Promises = {"reboot_first", "install_alone"}
PROPERTY CommitSticks
