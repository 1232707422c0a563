SPECIFICATION Spec
CONSTANTS
    bootstrap = bootstrap
    node_util = node_util
    app = app
    bad = bad
    ghost = ghost
    toString = toString
    os = os
    nope = nope
    NoName = NoName
    Names <- MCNames
    Sourced = {bootstrap, node_util, app, bad}
    Broken = {bad}
    InheritedNames = {toString}
    Requires <- MCRequires
    NativeNames = {os, nope}
    Registered = {os}
    Natives <- MCNatives
    Bootstrap = bootstrap
    ScriptBodies <- MCScriptBodies
    Rank <- MCRank
    Mode = "repl"
    MaxDepth = 4
    MaxEntries = 3
INVARIANTS
    TypeOK
    SharedExports
PROPERTIES
    CacheStable
    KeepsPromise
