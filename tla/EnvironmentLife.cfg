SPECIFICATION Spec
CONSTANTS
    Natives = {"os", "sys_info", "subprocess"}
    Promises = {"p", "q"}
    MaxExceptions = 4
INVARIANTS
    NoDanglingUse
    InvalidatedInTime
    NothingLeft
