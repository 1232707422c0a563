SPECIFICATION FairSpec
CONSTANTS
    Sessions <- PlainSessions
INVARIANTS
    TypeOK
    TurnTaking
PROPERTIES
    KeepsSession
