-------------------------- MODULE CommonModuleSystem --------------------------
(***************************************************************************)
(* The CommonJS half of zarun::CommonModuleSystem                          *)
(* (src/zarun/modules/common_module_system.cc): require with its cache,    *)
(* requireNative with its gate, CallModuleMethod, the exceptions that      *)
(* unwind through them, and the bootstrap of a new Environment.            *)
(*                                                                         *)
(* Everything runs on one thread, so the interleavings are those of the    *)
(* call stack: code of a script requires a module, whose body requires     *)
(* another one, which throws, and so on.  The state is that stack and what *)
(* survives a call.  A body is abstracted to the names it requires and the *)
(* natives it asks for; it does so in any order and may throw anywhere.    *)
(* os.modules hands the cache object itself to scripts: OsModules adds     *)
(* what they can do to it.                                                 *)
(*                                                                         *)
(* AMD (define, requireAsync) is not in this module.                       *)
(***************************************************************************)
EXTENDS Integers, SequencesExt

CONSTANTS
    Names,         \* the names code may give to require
    Sourced,       \* the names NativeSourceMap has a source for
    Broken,        \* the sourced names whose source does not compile
    InheritedNames,\* the names a plain object inherits from Object.prototype
    Requires,      \* Requires[m]: the names the body of m requires
    NativeNames,   \* the names code may give to requireNative
    Registered,    \* the natives DidCreateEnvironmentCallback registers
    Natives,       \* Natives[m]: the natives the body of m asks for
    Bootstrap,     \* the module every Environment requires first
    ScriptBodies,  \* the sets of names a script or a method may require
    NoName,        \* the "name" of code that is not a module
    Mode,          \* ZarunShell::Mode(): "repl" or "batch"
    MaxDepth,      \* bound: frames the V8 stack has room for
    MaxEntries     \* bound: scripts and method calls the host starts

ASSUME SourcesAssumption ==
    /\ Sourced \subseteq Names /\ Broken \subseteq Sourced
    /\ InheritedNames \subseteq Names
    /\ Bootstrap \in Sourced \ (Broken \cup InheritedNames)
    /\ NoName \notin Names

ASSUME BodiesAssumption ==
    /\ Requires \in [Names -> SUBSET Names]
    /\ Natives \in [Names -> SUBSET NativeNames]
    /\ Registered \subseteq NativeNames
    /\ ScriptBodies \subseteq SUBSET Names

ASSUME HostAssumption ==
    /\ Mode \in {"repl", "batch"}
    /\ MaxDepth \in Nat \ {0} /\ MaxEntries \in Nat

VARIABLES
    modules,       \* the hidden "modules" object: name -> exports
    runs,          \* history: name -> times its body was started
    held,          \* history: the <<name, value>> pairs require returned
    stack,         \* the frames of the V8 thread, the running one last
    natives,       \* natives_enabled_
    nativeMap,     \* the keys of native_module_map_
    globals,       \* bootstrap got as far as publishing require to scripts
    entries,       \* scripts and method calls started so far
    proc           \* "starting", "running", "aborted" or "invalidated"

vars == <<modules, runs, held, stack, natives, nativeMap, globals, entries, proc>>

(***************************************************************************)
(* Values of require.  An exports object is the number of the execution of *)
(* the module that made it.                                                *)
(***************************************************************************)
Undefined == 0
Inherited == -1

Loadable == Sourced \ Broken

\* Mutant: the cache is never consulted.
GetUncached(n) == IF n \in InheritedNames THEN Inherited ELSE Undefined

\* modules->Get(name): an own property, or one of Object.prototype.
Get(n) == IF modules[n] # Undefined THEN modules[n]
          ELSE IF n \in InheritedNames THEN Inherited
          ELSE Undefined

(***************************************************************************)
(* Frames.  "via" is who entered the code: the host itself (a script or a  *)
(* method), a require of the frame below, the Environment's constructor or *)
(* CallModuleMethod; the last two hold a NativesEnabledScope meanwhile.    *)
(***************************************************************************)
Vias == {"host", "require", "environment", "call"}

Scoped == {"environment", "call"}

Frames == [code : Names \cup {NoName}, run : Nat, via : Vias,
           needs : SUBSET Names, asks : SUBSET NativeNames]

ModuleFrame(n, via) ==
    [code |-> n, run |-> runs[n] + 1, via |-> via,
     needs |-> Requires[n], asks |-> Natives[n]]

\* Code the host entered has no requireNative of its own, but the functions
\* that modules export to it still have theirs.
HostFrame(body) ==
    [code |-> NoName, run |-> 0, via |-> "host", needs |-> body,
     asks |-> IF body = {} THEN {} ELSE NativeNames]

Top == Last(stack)

Idle == proc = "running" /\ stack = <<>>

Executing == proc = "running" /\ stack # <<>>

InModule == Executing /\ Top.code # NoName

AtEnd == Top.needs = {} /\ Top.asks = {}

\* What is left of the stack when the running frame has required n.
Required(n) == [stack EXCEPT ![Len(stack)].needs = @ \ {n}]

\* What is left of the stack when the running frame has asked for q.
Asked(q) == [stack EXCEPT ![Len(stack)].asks = @ \ {q}]

\* natives_enabled_ once the scope of the running frame's entry is closed.
ScopeClosed == IF Top.via \in Scoped THEN natives - 1 ELSE natives

Hold(n, v) == held' = IF v = Undefined THEN held ELSE held \cup {<<n, v>>}

TypeOK ==
    /\ modules \in [Names -> Nat]
    /\ runs \in [Names -> Nat]
    /\ held \subseteq Names \X Int
    /\ stack \in Seq(Frames)
    /\ natives \in Int
    /\ nativeMap \subseteq NativeNames
    /\ globals \in BOOLEAN
    /\ entries \in Nat
    /\ proc \in {"starting", "running", "aborted", "invalidated"}

Init ==
    /\ modules = [n \in Names |-> Undefined]
    /\ runs = [n \in Names |-> 0]
    /\ held = {}
    /\ stack = <<>>
    /\ natives = 0
    /\ nativeMap = {}
    /\ globals = FALSE
    /\ entries = 0
    /\ proc = "starting"

(***************************************************************************)
(* Fatal(): a CHECK failure in batch mode; in the REPL a message, after    *)
(* which the function that called it goes on.                              *)
(***************************************************************************)
Abort ==
    /\ proc' = "aborted"
    /\ UNCHANGED <<modules, runs, held, stack, natives, nativeMap, globals, entries>>

BatchFatal == Mode = "batch" /\ Abort

\* Mutant: Fatal goes on in both modes.
FatalGoesOn == UNCHANGED proc

ReplFatal == Mode = "repl" /\ UNCHANGED proc

(***************************************************************************)
(* LoadModule of a name whose body cannot be entered: there is no source,  *)
(* it does not compile, or V8 has no stack left for it.                    *)
(***************************************************************************)
CanEnter(n) == n \in Loadable /\ Len(stack) < MaxDepth

Enter(n, via, below) ==
    /\ stack' = Append(below, ModuleFrame(n, via))
    /\ runs' = [runs EXCEPT ![n] = @ + 1]

(***************************************************************************)
(* A new Environment: the natives are registered, then bootstrap is        *)
(* required inside a NativesEnabledScope.                                  *)
(***************************************************************************)
DidCreateEnvironment ==
    /\ proc = "starting"
    /\ proc' = "running"
    /\ nativeMap' = Registered
    /\ natives' = natives + 1
    /\ Enter(Bootstrap, "environment", stack)
    /\ UNCHANGED <<modules, held, globals, entries>>

(***************************************************************************)
(* RequireForJsInner called by the running code.                           *)
(***************************************************************************)
\* Mutant: what Get found is stored again as the module's exports.
RequireStoresAgain(n) ==
    /\ Executing /\ n \in Top.needs
    /\ Get(n) # Undefined
    /\ stack' = Required(n)
    /\ Hold(n, Get(n))
    /\ modules' = [modules EXCEPT ![n] = Get(n)]
    /\ UNCHANGED <<runs, natives, nativeMap, globals, entries, proc>>

RequireCached(n) ==
    /\ Executing /\ n \in Top.needs
    /\ Get(n) # Undefined
    /\ stack' = Required(n)
    /\ Hold(n, Get(n))
    /\ UNCHANGED <<modules, runs, natives, nativeMap, globals, entries, proc>>

\* Mutant: the cache is written before the body runs, as Node does.
RequireCachesFirst(n) ==
    /\ Executing /\ n \in Top.needs
    /\ Get(n) = Undefined
    /\ CanEnter(n)
    /\ Enter(n, "require", Required(n))
    /\ modules' = [modules EXCEPT ![n] = runs[n] + 1]
    /\ UNCHANGED <<held, natives, nativeMap, globals, entries, proc>>

RequireLoads(n) ==
    /\ Executing /\ n \in Top.needs
    /\ Get(n) = Undefined
    /\ CanEnter(n)
    /\ Enter(n, "require", Required(n))
    /\ UNCHANGED <<modules, held, natives, nativeMap, globals, entries, proc>>

\* Mutant: a load that fails is tried again until it succeeds.
RequireRetries(n) ==
    /\ Executing /\ n \in Top.needs
    /\ Get(n) = Undefined
    /\ ~CanEnter(n)
    /\ BatchFatal \/ (ReplFatal /\ UNCHANGED vars)

RequireFails(n) ==
    /\ Executing /\ n \in Top.needs
    /\ Get(n) = Undefined
    /\ ~CanEnter(n)
    /\ \/ BatchFatal
       \/ /\ ReplFatal
          /\ stack' = Required(n)
          /\ modules' = [modules EXCEPT ![n] = Undefined]
          /\ UNCHANGED <<runs, held, natives, nativeMap, globals, entries>>

(***************************************************************************)
(* RequireNativeFromString called by the running code.  A denied call      *)
(* throws: here the code catches the exception, ModuleThrows is the case   *)
(* where it does not.                                                      *)
(***************************************************************************)
RequireNativeDenied(q) ==
    /\ Executing /\ q \in Top.asks
    /\ natives = 0
    /\ stack' = Asked(q)
    /\ UNCHANGED <<modules, runs, held, natives, nativeMap, globals, entries, proc>>

RequireNativeFound(q) ==
    /\ Executing /\ q \in Top.asks
    /\ natives # 0 /\ q \in nativeMap
    /\ stack' = Asked(q)
    /\ UNCHANGED <<modules, runs, held, natives, nativeMap, globals, entries, proc>>

RequireNativeMissing(q) ==
    /\ Executing /\ q \in Top.asks
    /\ natives # 0 /\ q \notin nativeMap
    /\ \/ BatchFatal
       \/ /\ ReplFatal
          /\ stack' = Asked(q)
          /\ UNCHANGED <<modules, runs, held, natives, nativeMap, globals, entries>>

(***************************************************************************)
(* The body of a module returns to LoadModule, which returns its exports;  *)
(* RequireForJsInner stores them.  CallModuleMethod then calls the method. *)
(***************************************************************************)
Publish(n, v) == modules' = [modules EXCEPT ![n] = v]

\* Mutant: the exports are returned but not stored.
ReturnedOnly ==
    /\ UNCHANGED modules
    /\ Hold(Top.code, Top.run)
    /\ natives' = ScopeClosed
    /\ globals' = (globals \/ Top.code = Bootstrap)

Published ==
    /\ Publish(Top.code, Top.run)
    /\ Hold(Top.code, Top.run)
    /\ natives' = ScopeClosed
    /\ globals' = (globals \/ Top.code = Bootstrap)

ModuleReturns ==
    /\ InModule /\ AtEnd /\ Top.via # "call"
    /\ Published
    /\ stack' = Front(stack)
    /\ UNCHANGED <<runs, nativeMap, entries, proc>>

CalledModuleReturns ==
    /\ InModule /\ AtEnd /\ Top.via = "call"
    /\ \/ BatchFatal                            \* the method is no function
       \/ /\ ReplFatal
          /\ Published
          /\ stack' = Front(stack)
          /\ UNCHANGED <<runs, nativeMap, entries>>
       \/ /\ Published
          /\ \E body \in ScriptBodies : stack' = Append(Front(stack), HostFrame(body))
          /\ UNCHANGED <<runs, nativeMap, entries, proc>>

(***************************************************************************)
(* An exception leaves the running code.  The TryCatch of the LoadModule   *)
(* that runs it reports the exception and returns undefined, which         *)
(* RequireForJsInner stores; the requiring code goes on.                   *)
(***************************************************************************)
\* Mutant: an exception leaves the scope of the natives open.
ModuleThrowsLeaking ==
    /\ InModule
    /\ \/ BatchFatal
       \/ /\ ReplFatal
          /\ Publish(Top.code, Undefined)
          /\ stack' = Front(stack)
          /\ UNCHANGED <<runs, held, natives, nativeMap, globals, entries>>

ModuleThrows ==
    /\ InModule
    /\ \/ BatchFatal
       \/ /\ ReplFatal
          /\ Publish(Top.code, Undefined)
          /\ natives' = ScopeClosed
          /\ stack' = Front(stack)
          /\ UNCHANGED <<runs, held, nativeMap, globals, entries>>

HostCodeThrows ==
    /\ Executing /\ Top.code = NoName
    /\ \/ BatchFatal
       \/ /\ ReplFatal
          /\ stack' = Front(stack)
          /\ UNCHANGED <<modules, runs, held, natives, nativeMap, globals, entries>>

HostCodeReturns ==
    /\ Executing /\ Top.code = NoName /\ AtEnd
    /\ stack' = Front(stack)
    /\ UNCHANGED <<modules, runs, held, natives, nativeMap, globals, entries, proc>>

(***************************************************************************)
(* The host runs a script.  Scripts find require only as the global that   *)
(* bootstrap defined.                                                      *)
(***************************************************************************)
RunString ==
    /\ Idle /\ entries < MaxEntries
    /\ entries' = entries + 1
    /\ \E body \in IF globals THEN ScriptBodies ELSE {{}} :
          stack' = <<HostFrame(body)>>
    /\ UNCHANGED <<modules, runs, held, natives, nativeMap, globals, proc>>

(***************************************************************************)
(* The host calls a method of module n.  The NativesEnabledScope covers    *)
(* the require and not the call.                                           *)
(***************************************************************************)
\* Mutant: the method call loads the module whether or not it is cached.
CallReloads(n) ==
    /\ Idle /\ entries < MaxEntries /\ CanEnter(n)
    /\ entries' = entries + 1
    /\ natives' = natives + 1
    /\ Enter(n, "call", stack)
    /\ UNCHANGED <<modules, held, proc, nativeMap, globals>>

CallModuleMethod(n) ==
    /\ Idle /\ entries < MaxEntries
    /\ entries' = entries + 1
    /\ \/ /\ Get(n) = Undefined /\ CanEnter(n)
          /\ natives' = natives + 1
          /\ Enter(n, "call", stack)
          /\ UNCHANGED <<modules, held, proc>>
       \/ /\ Get(n) # Undefined
          /\ \E body \in ScriptBodies : stack' = <<HostFrame(body)>>
          /\ Hold(n, Get(n))
          /\ UNCHANGED <<modules, runs, natives, proc>>
    /\ UNCHANGED <<nativeMap, globals>>

\* The module cannot be loaded, or has no such method.
CallModuleMethodFails(n) ==
    /\ Idle /\ entries < MaxEntries
    /\ Get(n) = Undefined => ~CanEnter(n)
    /\ \/ BatchFatal
       \/ /\ ReplFatal
          /\ Hold(n, Get(n))
          /\ entries' = entries + 1
          /\ UNCHANGED <<modules, runs, stack, natives, nativeMap, globals>>

(***************************************************************************)
(* The ScriptContext is torn down once no code runs.  The hidden values    *)
(* are deleted and the natives invalidated: nothing runs afterwards.       *)
(***************************************************************************)
Invalidate ==
    /\ Idle
    /\ proc' = "invalidated"
    /\ UNCHANGED <<modules, runs, held, stack, natives, nativeMap, globals, entries>>

Ended ==
    /\ proc \in {"aborted", "invalidated"}
    /\ UNCHANGED vars

(***************************************************************************)
(* What the running code does unless it throws.                            *)
(***************************************************************************)
Execute ==
    \/ \E n \in Names : RequireCached(n) \/ RequireLoads(n) \/ RequireFails(n)
    \/ \E q \in NativeNames :
          RequireNativeDenied(q) \/ RequireNativeFound(q) \/ RequireNativeMissing(q)
    \/ ModuleReturns \/ CalledModuleReturns \/ HostCodeReturns

Host ==
    \/ DidCreateEnvironment \/ RunString \/ Invalidate
    \/ \E n \in Names : CallModuleMethod(n) \/ CallModuleMethodFails(n)

Next == Execute \/ ModuleThrows \/ HostCodeThrows \/ Host \/ Ended

Spec == Init /\ [][Next]_vars

\* JavaScript that has started keeps running; the host owes nothing.
FairSpec == Spec /\ WF_vars(Execute)

-------------------------------------------------------------------------------
(***************************************************************************)
(* Properties that hold whatever the modules require of each other.        *)
(***************************************************************************)

\* natives_enabled_ is exactly the number of NativesEnabledScopes open: one
\* while the host's own require runs, none otherwise, however that require
\* unwound.  So no script and no method, nor any module either of them loads,
\* is ever handed a native.
NativesScoped ==
    natives = IF stack # <<>> /\ Head(stack).via \in Scoped THEN 1 ELSE 0

\* require never returns the exports of an execution that is still running:
\* unlike Node's, this cache is written after LoadModule and not before it.
NoHalfBuiltExports ==
    \A i \in DOMAIN stack : <<stack[i].code, stack[i].run>> \notin held

(***************************************************************************)
(* What makes the two inductive.                                           *)
(***************************************************************************)
\* Only the frame the host entered can hold a scope: every frame above it
\* was entered by a require of the code below.
EnteredByRequire ==
    \A i \in DOMAIN stack :
        /\ i > 1 => stack[i].via = "require"
        /\ stack[i].code = NoName => stack[i].via = "host"

NothingYet == stack = <<>> /\ \A n \in Names : modules[n] = Undefined /\ runs[n] = 0

GateInv ==
    /\ proc = "starting" => NothingYet
    /\ EnteredByRequire
    /\ NativesScoped

\* Of two executions of one module on the stack the upper one is the later,
\* and neither has exports that anybody got, unless code itself put them into
\* the cache: these executions are in S.
RunsInFlight(S) ==
    \A i \in DOMAIN stack : stack[i].code # NoName =>
        /\ stack[i].run \in 1 .. runs[stack[i].code]
        /\ <<stack[i].code, stack[i].run>> \notin S =>
              /\ modules[stack[i].code] # stack[i].run
              /\ <<stack[i].code, stack[i].run>> \notin held
        /\ \A j \in DOMAIN stack :
              (i < j /\ stack[j].code = stack[i].code) => stack[i].run < stack[j].run

RunsInv(S) ==
    /\ RunsInFlight(S)
    /\ \A n \in Names : modules[n] <= runs[n]
    /\ \A h \in held : h[2] <= runs[h[1]]

\* Doc comment of CommonModuleSystem: "Each module in a ModuleSystem is
\* executed at most once and its exports object cached."
ExecutedAtMostOnce == \A n \in Names : runs[n] <= 1

\* Doc comment of CommonModuleSystem: require "takes a module name as an
\* argument and returns that module's exports object".
RequireReturnsExports == \A h \in held : h[2] # Inherited

\* Code the host started always gives the thread back, or the process is
\* gone: a cycle of requires ends where the stack does.
EveryEntryReturns == stack # <<>> ~> (stack = <<>> \/ proc = "aborted")
===============================================================================
