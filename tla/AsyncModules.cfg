SPECIFICATION FairSpec
CONSTANTS
    Names <- MCNames
    Sourced <- MCSourced
    Programs <- AllPrograms
    NoName = "script"
INVARIANTS
    TypeOK
    NothingStranded
    LoadedIsAvailable
    PromiseLedger
PROPERTIES
    ModuleStable
    PromiseResolves
