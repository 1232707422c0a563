SPECIFICATION Spec
CONSTANTS
    Names <- MCNames
    Sourced <- MCSourced
    Programs <- BatchPrograms
    NoName = "script"
INVARIANT LoadedResolves
