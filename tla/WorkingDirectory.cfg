SPECIFICATION Spec
CONSTANTS
    Mode = "repl"
    Dirs = {"launch", "sub", "other"}
    Launch = "launch"
    NoDir = "none"
    Args = 3
    FilesIn <- MCFilesIn
    Absolute = {3}
    Typed = 1
    MaxCalls = 2
INVARIANTS
    FilesExplained
    GetcwdExplained
    HistoryExplained
CHECK_DEADLOCK FALSE
