SPECIFICATION FairSpec
CONSTANTS
    Sessions <- ScriptSessions
INVARIANTS
    ScriptsInOrder
    OrderlyShutdown
    PromptLedger
PROPERTIES
    StopReturns
    BatchEnds
