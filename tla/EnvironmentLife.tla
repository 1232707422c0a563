----------------------------- MODULE EnvironmentLife -----------------------------
(***************************************************************************)
(* How an Environment comes and goes on the backend thread: the objects    *)
(* BackendThread::Init and the constructors of environment.cc and          *)
(* script_context.cc make, the pointers among them, and the order in which *)
(* BackendThread::CleanUp takes them down.  What scripts left behind is    *)
(* still there then: promises whose callbacks hold a weak pointer to the   *)
(* module system, and exceptions (ZarunExceptionWrapper) on the V8 heap,   *)
(* which the collector may free at any time, or the last time in CleanUp.  *)
(*                                                                         *)
(* A step names the objects it uses; "dangling" remembers any use of one   *)
(* that does not exist.                                                    *)
(***************************************************************************)
EXTENDS Integers

CONSTANTS
    Natives,        \* native modules: os, sys_info, subprocess
    Promises,       \* promises of requireAsync a script may leave pending
    MaxExceptions   \* bound: exceptions on the heap

ASSUME LifeAssumption == MaxExceptions \in Nat

Core == {"isolate", "context holder", "v8 context", "source map", "script context", "module system"}

ASSUME NamesAssumption == Natives \cap Core = {}

Objects == Core \cup Natives

VARIABLES
    stage,      \* how far the thread is
    alive,      \* the objects there are
    valid,      \* native modules and the module system: is_valid_
    hidden,     \* the global has the hidden values of the module system
    observed,   \* the registry's list of observers has the module system
    runner,     \* PerContextData points to the script context
    pending,    \* promises with a callback in the registry
    weak,       \* the weak pointers of those callbacks are good
    exceptions, \* exceptions on the heap
    script,     \* a script runs
    dangling    \* history: objects used that did not exist

vars == <<stage, alive, valid, hidden, observed, runner, pending, weak, exceptions, script, dangling>>
heap == <<pending, exceptions, script>>

Stages == {"thread", "isolate", "context", "script context", "module system", "ready",
           "exited", "invalidated", "natives gone", "cleared", "holder", "collect", "ended"}

TypeOK ==
    /\ stage \in Stages /\ alive \subseteq Objects
    /\ valid \subseteq Natives \cup {"module system"}
    /\ hidden \in BOOLEAN /\ observed \in BOOLEAN /\ runner \in BOOLEAN
    /\ weak \in BOOLEAN /\ script \in BOOLEAN
    /\ pending \subseteq Promises /\ exceptions \in 0 .. MaxExceptions
    /\ dangling \subseteq Objects

Init ==
    /\ stage = "thread" /\ alive = {} /\ valid = {}
    /\ hidden = FALSE /\ observed = FALSE /\ runner = FALSE /\ weak = FALSE /\ script = FALSE
    /\ pending = {} /\ exceptions = 0 /\ dangling = {}

Step(from, to) == stage = from /\ stage' = to

Uses(objects) == dangling' = dangling \cup (objects \ alive)

Makes(objects) == alive' = alive \cup objects

Deletes(objects) == alive' = alive \ objects

-------------------------------------------------------------------------------
(***************************************************************************)
(* BackendThread::Init and the constructor of Environment.                 *)
(***************************************************************************)
InitThread ==
    /\ Step("thread", "isolate")
    /\ Makes({"isolate"})
    /\ UNCHANGED <<valid, hidden, observed, runner, weak, heap, dangling>>

\* The holder, the source map and, with the SafeBuiltins extension, the context.
CreateEnvironment ==
    /\ Step("isolate", "context")
    /\ Uses({"isolate"})
    /\ Makes({"context holder", "source map", "v8 context"})
    /\ UNCHANGED <<valid, hidden, observed, runner, weak, heap>>

NewScriptContext ==
    /\ Step("context", "script context")
    /\ Uses({"v8 context", "context holder"})
    /\ Makes({"script context"}) /\ runner' = TRUE
    /\ UNCHANGED <<valid, hidden, observed, weak, heap>>

NewModuleSystem ==
    /\ Step("script context", "module system")
    /\ Uses({"script context", "v8 context", "context holder", "source map"})
    /\ Makes({"module system"}) /\ valid' = {"module system"}
    /\ hidden' = TRUE /\ observed' = TRUE /\ weak' = TRUE
    /\ UNCHANGED <<runner, heap>>

RegisterNativeModule(q) ==
    /\ stage = "module system" /\ q \notin alive
    /\ Uses({"module system", "script context", "isolate"})
    /\ Makes({q}) /\ valid' = valid \cup {q}
    /\ UNCHANGED <<stage, hidden, observed, runner, weak, heap>>

\* bootstrap, which gives the scripts what they need.
Bootstrapped ==
    /\ Step("module system", "ready") /\ Natives \subseteq alive
    /\ Uses({"module system", "source map"} \cup Natives)
    /\ UNCHANGED <<alive, valid, hidden, observed, runner, weak, heap>>

(***************************************************************************)
(* Scripts.                                                                *)
(***************************************************************************)
RunScript ==
    /\ stage = "ready" /\ ~script
    /\ script' = TRUE
    /\ Uses({"script context", "module system"})
    /\ UNCHANGED <<stage, alive, valid, hidden, observed, runner, weak, pending, exceptions>>

ScriptEnds ==
    /\ script
    /\ script' = FALSE
    /\ Uses({"script context"})
    /\ UNCHANGED <<stage, alive, valid, hidden, observed, runner, weak, pending, exceptions>>

\* requireAsync is bound to the module system unretained.
RequireAsync(p) ==
    /\ script /\ p \notin pending
    /\ pending' = pending \cup {p}
    /\ Uses({"module system", "context holder", "v8 context"})
    /\ UNCHANGED <<stage, alive, valid, hidden, observed, runner, weak, exceptions, script>>

\* define runs the observers, the factories and the callbacks of what is
\* complete; OnModuleLoaded is not called through a bad weak pointer.
Define(p) ==
    /\ script /\ p \in pending
    /\ pending' = pending \ {p}
    /\ Uses({"context holder", "v8 context"}
            \cup (IF observed \/ weak THEN {"module system"} ELSE {})
            \cup (IF runner THEN {"script context"} ELSE {}))
    /\ UNCHANGED <<stage, alive, valid, hidden, observed, runner, weak, exceptions, script>>

\* os.throw finds the script context through the runner.
Throw ==
    /\ script /\ exceptions < MaxExceptions
    /\ exceptions' = exceptions + 1
    /\ Uses({"context holder", "v8 context"} \cup (IF runner THEN {"script context"} ELSE {}))
    /\ UNCHANGED <<stage, alive, valid, hidden, observed, runner, weak, pending, script>>

\* The collector frees an exception nobody refers to.
Collect ==
    /\ exceptions > 0 /\ "isolate" \in alive
    /\ exceptions' = exceptions - 1
    /\ UNCHANGED <<stage, alive, valid, hidden, observed, runner, weak, pending, script, dangling>>

(***************************************************************************)
(* BackendThread::CleanUp, after the message loop has ended.               *)
(***************************************************************************)
\* Mutant: the environment is disposed under a running script.
ExitUnderScript ==
    /\ Step("ready", "exited")
    /\ Uses({"isolate", "script context", "v8 context"})
    /\ UNCHANGED <<alive, valid, hidden, observed, runner, weak, heap>>

ExitContext ==
    /\ Step("ready", "exited") /\ ~script
    /\ Uses({"isolate", "script context", "v8 context"})
    /\ UNCHANGED <<alive, valid, hidden, observed, runner, weak, heap>>

\* Mutant: the natives are left to themselves.
InvalidateItself ==
    /\ Step("exited", "invalidated")
    /\ Uses({"module system", "script context", "v8 context"})
    /\ hidden' = FALSE /\ valid' = valid \ {"module system"}
    /\ UNCHANGED <<alive, observed, runner, weak, heap>>

\* ScriptContext::Invalidate resets the module system, whose destructor
\* invalidates it with its natives while the context is still there.
Invalidate ==
    /\ Step("exited", "invalidated")
    /\ Uses({"module system", "script context", "v8 context"} \cup Natives)
    /\ hidden' = FALSE /\ valid' = {}
    /\ UNCHANGED <<alive, observed, runner, weak, heap>>

\* The members of the module system: the weak pointers first, then the natives.
DeleteModuleSystem ==
    /\ Step("invalidated", "natives gone")
    /\ weak' = FALSE /\ Deletes(Natives \cup {"module system"})
    /\ UNCHANGED <<valid, hidden, observed, runner, heap, dangling>>

DeleteScriptContext ==
    /\ Step("natives gone", "cleared")
    /\ Uses({"isolate", "v8 context"})
    /\ Deletes({"script context"})
    /\ UNCHANGED <<valid, hidden, observed, runner, weak, heap>>

\* With the holder go the registry, its observers and callbacks, and the runner.
DeleteContextHolder ==
    /\ Step("cleared", "holder")
    /\ Uses({"isolate", "v8 context", "context holder"})
    /\ Deletes({"context holder", "v8 context"})
    /\ observed' = FALSE /\ runner' = FALSE /\ pending' = {}
    /\ UNCHANGED <<valid, hidden, weak, exceptions, script>>

\* Its other members: the source map, and a handle scope on the isolate.
DeleteEnvironment ==
    /\ Step("holder", "collect")
    /\ Uses({"isolate"})
    /\ Deletes({"source map"})
    /\ UNCHANGED <<valid, hidden, observed, runner, weak, heap>>

\* Mutant: no collection before the isolate goes.
DeleteIsolateAtOnce ==
    /\ Step("collect", "ended")
    /\ Deletes({"isolate"})
    /\ UNCHANGED <<valid, hidden, observed, runner, weak, heap, dangling>>

\* The loop of collections ends when one changes nothing; a full collection is
\* taken to free something as long as there is something to free.
DeleteIsolate ==
    /\ Step("collect", "ended") /\ exceptions = 0
    /\ Deletes({"isolate"})
    /\ UNCHANGED <<valid, hidden, observed, runner, weak, heap, dangling>>

Create ==
    \/ InitThread \/ CreateEnvironment \/ NewScriptContext \/ NewModuleSystem
    \/ Bootstrapped \/ \E q \in Natives : RegisterNativeModule(q)

CleanUp ==
    \/ ExitContext \/ Invalidate \/ DeleteModuleSystem \/ DeleteScriptContext
    \/ DeleteContextHolder \/ DeleteEnvironment \/ DeleteIsolate

Scripts ==
    \/ RunScript \/ ScriptEnds \/ Throw
    \/ \E p \in Promises : RequireAsync(p) \/ Define(p)

Next == Create \/ Scripts \/ Collect \/ CleanUp \/ (stage = "ended" /\ UNCHANGED vars)

Spec == Init /\ [][Next]_vars

-------------------------------------------------------------------------------
\* No step uses an object before its constructor or after its destructor,
\* although the registry keeps a pointer to a dead module system, the context
\* data one to a dead script context and the exceptions one to either.
NoDanglingUse == dangling = {}

\* native_module.h: "Invalidate must be called before this happens", a native
\* module's outliving its context; a module that is gone is not valid either.
\* Invalidate also clears the hidden values, "and we use this as a signal in lazy
\* handlers that we no longer exist": while they are there, so is the module
\* system they point to.
InvalidatedInTime ==
    /\ \A q \in valid : q \in alive /\ "v8 context" \in alive
    /\ "script context" \notin alive => valid = {}
    /\ hidden => {"module system", "script context"} \subseteq alive

\* Nothing is left when the thread ends: no object, no callback, no exception.
NothingLeft == stage = "ended" => alive = {} /\ pending = {} /\ exceptions = 0 /\ ~observed /\ ~runner

(***************************************************************************)
(* The inductive invariant: which objects there are at each stage, and     *)
(* until when the pointers to them may be followed.                        *)
(***************************************************************************)
Open == {"module system", "ready", "exited"}

CoreByStage ==
    /\ "isolate" \in alive <=> stage \notin {"thread", "ended"}
    /\ {"context holder", "v8 context"} \subseteq alive <=>
          stage \notin {"thread", "isolate", "holder", "collect", "ended"}
    /\ "v8 context" \in alive <=> "context holder" \in alive
    /\ "source map" \in alive <=> stage \notin {"thread", "isolate", "collect", "ended"}
    /\ "script context" \in alive <=> stage \in Open \cup {"script context", "invalidated", "natives gone"}
    /\ "module system" \in alive <=> stage \in Open \cup {"invalidated"}

NativesByStage ==
    /\ stage \in {"ready", "exited", "invalidated"} => Natives \subseteq alive
    /\ Natives \cap alive # {} => stage \in Open \cup {"invalidated"}

PointersByStage ==
    /\ valid \subseteq alive /\ (valid # {} => stage \in Open)
    /\ hidden => stage \in Open
    /\ script => stage = "ready"
    /\ stage \in {"holder", "collect", "ended"} => ~observed /\ ~runner /\ pending = {}
    /\ stage = "ended" => exceptions = 0

LifeInv == CoreByStage /\ NativesByStage /\ PointersByStage /\ NoDanglingUse
===============================================================================
