SPECIFICATION Spec
CONSTANTS
    bootstrap = bootstrap
    a = a
    b = b
    os = os
    NoName = NoName
    Names <- MCNames
    Sourced = {bootstrap, a, b}
    Broken = {}
    InheritedNames = {}
    Requires <- MCRequires
    NativeNames = {os}
    Registered = {os}
    Natives <- MCNatives
    Bootstrap = bootstrap
    ScriptBodies <- MCScriptBodies
    Mode = "batch"
    MaxDepth = 4
    MaxEntries = 2
INVARIANTS
    ExecutedAtMostOnce
