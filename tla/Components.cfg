SPECIFICATION FairSpec
CONSTANTS
    a = a
    b = b
    c = c
    Codes <- MCCodes
    Errnos <- MCErrnos
    MessageTexts <- MCMessageTexts
    ErrnoNames <- MCErrnoNames
    EnvNames <- MCEnvNames
    Variable <- MCVariable
    Stored <- MCStored
    Settable <- MCSettable
    Alternate <- MCAlternate
    InheritedNames <- MCInheritedNames
    EnvValues <- MCEnvValues
    Absent = "absent"
    Inherited = "inherited"
    Untouched = "untouched"
    Types <- MCTypes
    Functions <- MCFunctions
    Natives <- MCNatives
    Undefined = "undefined"
    MaxNested = 2
    MaxWrites = 3
    Objects <- MCObjects
    Inspections <- MCInspections
    Null = Null
    StackLimit = 5
    Launches <- MCLaunches
    MaxScripts = 2
    MaxFactories = 1
    MaxMessages = 2
    Ids <- MCIds
    Bad <- MCBad
    FileTexts <- MCFileTexts
    Jsmin <- MCJsmin
    MaxFiles = 2
INVARIANTS
    TypeOK
    ThrownAsPassed
    EnvironConsistent
    ToJSONGuarded
    InspectComplete
    SeenIsTheStack
    ColorsContained
    MessagesShown
    EmbeddedWhole
PROPERTIES
    InspectEnds
CHECK_DEADLOCK FALSE
