SPECIFICATION OsFairSpec
CONSTANTS
    bootstrap = bootstrap
    a = a
    b = b
    os = os
    NoName = NoName
    Names <- MCNames
    Sourced = {bootstrap, a, b}
    Broken = {}
    InheritedNames = {}
    Requires <- MCRequires
    NativeNames = {os}
    Registered = {os}
    Natives <- MCNatives
    Bootstrap = bootstrap
    ScriptBodies <- MCScriptBodies
    Mode = "repl"
    MaxDepth = 3
    MaxEntries = 1
INVARIANTS
    NativesScoped
    HalfBuiltOnlyIfStored
PROPERTIES
    EveryEntryReturns
