----------------------------- MODULE AsyncModules -----------------------------
(***************************************************************************)
(* The AMD half of zarun::CommonModuleSystem: requireAsync, define and the *)
(* observer OnDidAddPendingModule, over gin's ModuleRegistry, which is not *)
(* in the repository and is modelled from how the code uses it.  require   *)
(* is here with its cache only, to be compared with requireAsync.          *)
(*                                                                         *)
(* All of it is one thread of nested calls: a body defines a module, the   *)
(* observer loads the dependencies, whose bodies define more, and at each  *)
(* return the registry tries its pending modules again.  A frame of the    *)
(* stack is running script code or a loop of the registry or the observer. *)
(***************************************************************************)
EXTENDS Integers, SequencesExt

CONSTANTS
    Names,      \* module ids
    Sourced,    \* the ids NativeSourceMap has a source for
    Programs,   \* the programs looked at, see ProgramKinds
    NoName      \* the id of a script

Dependencies == UNION {[1 .. k -> Names] : k \in 0 .. 2}

Operations == [op : {"require", "requireAsync"}, id : Names]
         \cup [op : {"define"}, id : Names, deps : Dependencies]

\* The operations of the bodies of the sourced ids, of the factory of each id
\* and of the scripts the host runs, ZarunShell::Mode(), and two bounds: the
\* frames the V8 stack has room for and the scripts the host runs.
ProgramKinds ==
    [body : [Sourced -> Seq(Operations)], factory : [Names -> Seq(Operations)],
     scripts : SUBSET Seq(Operations), mode : {"repl", "batch"},
     depth : Nat \ {0}, entries : Nat]

ASSUME ProgramsAssumption ==
    /\ Sourced \subseteq Names /\ NoName \notin Names
    /\ Programs \subseteq ProgramKinds

VARIABLES
    program,    \* the program that runs
    available,  \* the registry: id -> the factory call that made it, or 0
    pending,    \* the registry's pending modules, in order
    waiting,    \* the registry's callbacks: id -> promises that wait for it
    cached,     \* the names require has exports for
    loads,      \* history: name -> times its body was started, at most 2
    made,       \* history: id -> times its factory was called
    failed,     \* history: some load, body or factory failed
    stack,      \* the frames, the running one last
    entries,    \* scripts run so far
    proc        \* "running", "aborted" or "invalidated"

registry == <<available, pending, waiting>>
vars == <<program, registry, cached, loads, made, failed, stack, entries, proc>>

Body == program.body
Factory == program.factory
Scripts == program.scripts
Mode == program.mode
MaxDepth == program.depth
MaxEntries == program.entries

Pending == [id : Names, deps : Dependencies]

\* A frame is running code, the loop of OnDidAddPendingModule over the
\* dependencies, or the loop of AttemptToLoadMoreModules over what it took.
CodeKinds == {"script", "require", "load", "factory"}

Frames == [kind : CodeKinds, id : Names \cup {NoName}, run : Nat, todo : Seq(Operations)]
     \cup [kind : {"loading"}, left : Seq(Names)]
     \cup [kind : {"trying"}, left : Seq(Pending), again : BOOLEAN]

Code(kind, id, run, todo) == [kind |-> kind, id |-> id, run |-> run, todo |-> todo]

Top == Last(stack)
Idle == proc = "running" /\ stack = <<>>
Running(kind) == proc = "running" /\ stack # <<>> /\ Top.kind = kind
RunningCode == proc = "running" /\ stack # <<>> /\ Top.kind \in CodeKinds

\* The next operation of the running code, and the stack after it.
NextIs(op) == RunningCode /\ Top.todo # <<>> /\ Head(Top.todo).op = op
Operation == Head(Top.todo)
Performed == [stack EXCEPT ![Len(stack)].todo = Tail(@)]

Available(id) == available[id] # 0
AllAvailable(deps) == \A i \in DOMAIN deps : Available(deps[i])

TypeOK ==
    /\ program \in Programs
    /\ available \in [Names -> Nat] /\ made \in [Names -> Nat]
    /\ waiting \in [Names -> Nat]
    /\ pending \in Seq(Pending)
    /\ cached \subseteq Sourced
    /\ loads \in [Sourced -> Nat]
    /\ failed \in BOOLEAN /\ entries \in Nat
    /\ stack \in Seq(Frames)
    /\ proc \in {"running", "aborted", "invalidated"}

Init ==
    /\ program \in Programs
    /\ available = [n \in Names |-> 0] /\ made = [n \in Names |-> 0]
    /\ waiting = [n \in Names |-> 0]
    /\ pending = <<>> /\ cached = {} /\ loads = [n \in Sourced |-> 0]
    /\ failed = FALSE /\ stack = <<>> /\ entries = 0 /\ proc = "running"

(***************************************************************************)
(* Fatal, then the frames "below" go on (or the process is gone).          *)
(***************************************************************************)
Fails(below) ==
    \/ /\ Mode = "batch" /\ proc' = "aborted" /\ UNCHANGED <<stack, failed>>
    \/ /\ Mode = "repl" /\ stack' = below /\ failed' = TRUE /\ UNCHANGED proc

\* LoadModule: runs the body of the name, whether or not it ever ran before.
LoadModule(n, kind, below) ==
    \/ /\ n \in Sourced /\ Len(below) < MaxDepth
       /\ stack' = Append(below, Code(kind, n, 0, Body[n]))
       /\ loads' = [loads EXCEPT ![n] = IF @ = 2 THEN 2 ELSE @ + 1]
       /\ UNCHANGED <<failed, proc>>
    \/ /\ n \notin Sourced \/ Len(below) >= MaxDepth
       /\ Fails(below)
       /\ UNCHANGED loads

RunString ==
    /\ Idle /\ entries < MaxEntries
    /\ entries' = entries + 1
    /\ \E s \in Scripts : stack' = <<Code("script", NoName, 0, s)>>
    /\ UNCHANGED <<registry, cached, loads, made, failed, proc>>

Require ==
    /\ NextIs("require")
    /\ \/ /\ Operation.id \in cached
          /\ stack' = Performed
          /\ UNCHANGED <<loads, failed, proc>>
       \/ /\ Operation.id \notin cached
          /\ LoadModule(Operation.id, "require", Performed)
    /\ UNCHANGED <<registry, cached, made, entries>>

(***************************************************************************)
(* RequireAsync: the registry calls back at once when it has the module;   *)
(* otherwise the promise waits and the body is loaded here and now.        *)
(***************************************************************************)
\* Mutant: the promise is not told of a module that is available already.
RequireAsyncWaits ==
    /\ NextIs("requireAsync")
    /\ waiting' = [waiting EXCEPT ![Operation.id] = @ + 1]
    /\ \/ /\ Available(Operation.id)
          /\ stack' = Performed
          /\ UNCHANGED <<loads, failed, proc>>
       \/ /\ ~Available(Operation.id)
          /\ LoadModule(Operation.id, "load", Performed)
    /\ UNCHANGED <<available, pending, cached, made, entries>>

RequireAsync ==
    /\ NextIs("requireAsync")
    /\ LET id == Operation.id IN
       \/ /\ Available(id)
          /\ stack' = Performed
          /\ UNCHANGED <<waiting, loads, failed, proc>>
       \/ /\ ~Available(id)
          /\ waiting' = [waiting EXCEPT ![id] = @ + 1]
          /\ LoadModule(id, "load", Performed)
    /\ UNCHANGED <<available, pending, cached, made, entries>>

(***************************************************************************)
(* The registry loads a module whose dependencies it has: it calls the     *)
(* factory, unless it has the module by now.                               *)
(***************************************************************************)
\* Mutant: the factory is called although the module came meanwhile.
LoadAgain(id, below) ==
    \/ /\ Len(below) < MaxDepth
       /\ made' = [made EXCEPT ![id] = @ + 1]
       /\ stack' = Append(below, Code("factory", id, made[id] + 1, Factory[id]))
       /\ UNCHANGED failed
    \/ /\ Len(below) >= MaxDepth
       /\ stack' = below
       /\ failed' = TRUE
       /\ UNCHANGED made

Load(id, below) ==
    \/ /\ Available(id)
       /\ stack' = below
       /\ UNCHANGED <<made, failed>>
    \/ /\ ~Available(id) /\ Len(below) < MaxDepth
       /\ made' = [made EXCEPT ![id] = @ + 1]
       /\ stack' = Append(below, Code("factory", id, made[id] + 1, Factory[id]))
       /\ UNCHANGED failed
    \/ /\ ~Available(id) /\ Len(below) >= MaxDepth
       /\ stack' = below
       /\ failed' = TRUE
       /\ UNCHANGED made

\* What OnDidAddPendingModule does once the registry has attempted to load.
Observed(id, deps) ==
    IF id \in Sourced THEN <<[kind |-> "loading", left |-> deps]>> ELSE <<>>

\* define: the registry attempts to load the module or keeps it pending, and
\* then notifies its observer.
Define ==
    /\ NextIs("define")
    /\ LET m == [id |-> Operation.id, deps |-> Operation.deps]
           below == Performed \o Observed(m.id, m.deps) IN
       \/ /\ AllAvailable(m.deps)
          /\ Load(m.id, below)
          /\ UNCHANGED pending
       \/ /\ ~AllAvailable(m.deps)
          /\ pending' = Append(pending, m)
          /\ stack' = below
          /\ UNCHANGED <<made, failed>>
    /\ UNCHANGED <<available, waiting, cached, loads, entries, proc>>

(***************************************************************************)
(* OnDidAddPendingModule: the loop over the dependencies.                  *)
(***************************************************************************)
\* Mutant: only the first dependency is loaded.
LoadFirstDependency ==
    /\ Running("loading") /\ Top.left # <<>>
    /\ LET below == [stack EXCEPT ![Len(stack)].left = <<>>] IN
       \/ /\ Available(Head(Top.left))
          /\ stack' = below
          /\ UNCHANGED <<loads, failed, proc>>
       \/ /\ ~Available(Head(Top.left))
          /\ LoadModule(Head(Top.left), "load", below)
    /\ UNCHANGED <<registry, cached, made, entries>>

LoadDependency ==
    /\ Running("loading") /\ Top.left # <<>>
    /\ LET below == [stack EXCEPT ![Len(stack)].left = Tail(@)] IN
       \/ /\ Available(Head(Top.left))
          /\ stack' = below
          /\ UNCHANGED <<loads, failed, proc>>
       \/ /\ ~Available(Head(Top.left))
          /\ LoadModule(Head(Top.left), "load", below)
    /\ UNCHANGED <<registry, cached, made, entries>>

(***************************************************************************)
(* AttemptToLoadMoreModules: passes over the pending modules, taken out of *)
(* the registry for the pass, until one of them loads nothing.             *)
(***************************************************************************)
StartPass ==
    /\ stack' = [stack EXCEPT ![Len(stack)] =
                    [kind |-> "trying", left |-> pending, again |-> FALSE]]
    /\ pending' = <<>>

\* Mutant: the observer does not ask for another attempt.
NoAttempt ==
    /\ Running("loading") /\ Top.left = <<>>
    /\ stack' = Front(stack)
    /\ UNCHANGED <<registry, cached, loads, made, failed, entries, proc>>

AttemptToLoadMoreModules ==
    /\ Running("loading") /\ Top.left = <<>>
    /\ StartPass
    /\ UNCHANGED <<available, waiting, cached, loads, made, failed, entries, proc>>

TryPending ==
    /\ Running("trying") /\ Top.left # <<>>
    /\ LET m == Head(Top.left)
           tried(loaded) == [stack EXCEPT ![Len(stack)] =
                               [Top EXCEPT !.left = Tail(@), !.again = @ \/ loaded]] IN
       \/ /\ AllAvailable(m.deps)
          /\ Load(m.id, tried(TRUE))
          /\ UNCHANGED pending
       \/ /\ ~AllAvailable(m.deps)
          /\ pending' = Append(pending, m)
          /\ stack' = tried(FALSE)
          /\ UNCHANGED <<made, failed>>
    /\ UNCHANGED <<available, waiting, cached, loads, entries, proc>>

PassEnds ==
    /\ Running("trying") /\ Top.left = <<>>
    /\ \/ Top.again /\ StartPass
       \/ ~Top.again /\ stack' = Front(stack) /\ UNCHANGED pending
    /\ UNCHANGED <<available, waiting, cached, loads, made, failed, entries, proc>>

(***************************************************************************)
(* Code returns or throws.  RegisterModule makes the module available and  *)
(* calls everybody who waits back; OnModuleLoaded resolves their promises. *)
(***************************************************************************)
\* Mutant: one promise is taken off the count whether or not one waits.
RegisterForOne ==
    /\ Running("factory") /\ Top.todo = <<>>
    /\ available' = [available EXCEPT ![Top.id] = Top.run]
    /\ waiting' = [waiting EXCEPT ![Top.id] = @ - 1]
    /\ stack' = Front(stack)
    /\ UNCHANGED <<pending, cached, loads, made, failed, entries, proc>>

FactoryReturns ==
    /\ Running("factory") /\ Top.todo = <<>>
    /\ available' = [available EXCEPT ![Top.id] = Top.run]
    /\ waiting' = [waiting EXCEPT ![Top.id] = 0]
    /\ stack' = Front(stack)
    /\ UNCHANGED <<pending, cached, loads, made, failed, entries, proc>>

\* ScriptContext::Call reports the exception; nothing is registered.
FactoryThrows ==
    /\ Running("factory")
    /\ stack' = Front(stack)
    /\ failed' = TRUE
    /\ UNCHANGED <<registry, cached, loads, made, entries, proc>>

\* Only require caches what LoadModule returns.
BodyReturns ==
    /\ Running("require") \/ Running("load")
    /\ Top.todo = <<>>
    /\ cached' = IF Top.kind = "require" THEN cached \cup {Top.id} ELSE cached
    /\ stack' = Front(stack)
    /\ UNCHANGED <<registry, loads, made, failed, entries, proc>>

BodyThrows ==
    /\ Running("require") \/ Running("load")
    /\ Fails(Front(stack))
    /\ cached' = IF Top.kind = "require" /\ proc' = "running" THEN cached \ {Top.id} ELSE cached
    /\ UNCHANGED <<registry, loads, made, entries>>

ScriptReturns ==
    /\ Running("script") /\ Top.todo = <<>>
    /\ stack' = <<>>
    /\ UNCHANGED <<registry, cached, loads, made, failed, entries, proc>>

ScriptThrows ==
    /\ Running("script")
    /\ Fails(<<>>)
    /\ UNCHANGED <<registry, cached, loads, made, entries>>

\* Once no code runs the context is torn down; OnModuleLoaded, should the
\* registry still call it, finds the module system invalid and does nothing.
Invalidate ==
    /\ Idle
    /\ proc' = "invalidated"
    /\ UNCHANGED <<registry, cached, loads, made, failed, stack, entries>>

Ended == proc # "running" /\ UNCHANGED vars

Execute ==
    \/ Require \/ RequireAsync \/ Define
    \/ LoadDependency \/ AttemptToLoadMoreModules \/ TryPending \/ PassEnds
    \/ FactoryReturns \/ BodyReturns \/ ScriptReturns

Throw == FactoryThrows \/ BodyThrows \/ ScriptThrows

\* The code of the modules does not change.
Next == (RunString \/ Execute \/ Throw \/ Invalidate \/ Ended) /\ UNCHANGED program

Spec == Init /\ [][Next]_vars

\* Script code that has started keeps running.
FairSpec == Spec /\ WF_vars(Execute /\ UNCHANGED program)

-------------------------------------------------------------------------------
\* A promise waits exactly as long as the registry lacks its module, also when
\* the factory that provides the module asks for it again.
PromiseLedger == \A n \in Names : waiting[n] > 0 => ~Available(n)

\* At rest no pending module has all its dependencies: the last one to come
\* triggers another attempt.  The observer returns early for an id without a
\* source, so the exception is a module that waits for such an id.
NothingStranded ==
    Idle => \A i \in DOMAIN pending :
        AllAvailable(pending[i].deps) =>
            \E j \in DOMAIN pending[i].deps : pending[i].deps[j] \notin Sourced

\* The sourced modules that define themselves in terms of such modules.
DefinesIn(o, n, S) ==
    o.op = "define" /\ o.id = n /\ \A j \in DOMAIN o.deps : o.deps[j] \in S

Defines(n, S) == \E i \in DOMAIN Body[n] : DefinesIn(Body[n][i], n, S)

Definable == UNION {S \in SUBSET Sourced : \A n \in S : Defines(n, S)}

\* Unless something failed, loading the body of such a module makes it
\* available with all it needs by the time the host has the thread back,
\* whatever was loaded, pending or half loaded when the load began.
LoadedIsAvailable ==
    Idle /\ ~failed => \A n \in Definable : loads[n] > 0 => Available(n)

\* A module that is available is replaced by earlier calls of its factory only,
\* those that were in progress when it came, and by no call that began later.
ModuleStable ==
    [][\A n \in Names : Available(n) => available'[n] <= available[n]]_vars

\* A promise for such a module is resolved, or something failed.
PromiseResolves ==
    \A n \in Sourced :
        n \in Definable /\ waiting[n] > 0 ~> (waiting[n] = 0 \/ failed \/ proc = "aborted")

\* Doc comment of OnModuleLoaded: "Invoked when a module is loaded in response
\* to a requireAsync call. Resolves |resolver| with |value|."
LoadedResolves ==
    Idle /\ ~failed => \A n \in Sourced : loads[n] > 0 => waiting[n] = 0

-------------------------------------------------------------------------------
(***************************************************************************)
(* Why nothing is stranded: an inductive invariant.                        *)
(***************************************************************************)
\* The loops that make another pass over the pending modules before they end.
TriesAgain(f) == f.kind = "loading" \/ (f.kind = "trying" /\ f.again)

\* Only the bottom frame is a script, bodies are those of sourced ids, and the
\* factory of a sourced id is called from a loop that will try again.
WellNested(s) ==
    \A k \in DOMAIN s :
        /\ s[k].kind = "script" => k = 1
        /\ s[k].kind \in {"require", "load"} => s[k].id \in Sourced
        /\ s[k].kind = "factory" => s[k].id \in Names
        /\ s[k].kind = "factory" /\ s[k].id \in Sourced => k > 1 /\ TriesAgain(s[k - 1])

\* While some pending module could be loaded there is such a loop.
Loadable(m) == \A j \in DOMAIN m.deps : Available(m.deps[j]) /\ m.deps[j] \in Sourced

AttemptIsDue(s) == \E k \in DOMAIN s : TriesAgain(s[k])

NoneForgotten == (\E i \in DOMAIN pending : Loadable(pending[i])) => AttemptIsDue(stack)

AsyncInv == WellNested(stack) /\ NoneForgotten

-------------------------------------------------------------------------------
(***************************************************************************)
(* Why what was loaded is available, and why no later call replaces it.    *)
(***************************************************************************)
\* Calls of one factory are numbered as they nest, and none that has yet to
\* return is as late as the one that made the module.
CallsInOrder(s) ==
    \A k \in DOMAIN s : s[k].kind = "factory" =>
        /\ s[k].run \in 1 .. made[s[k].id]
        /\ Available(s[k].id) => s[k].run < available[s[k].id]
        /\ \A j \in DOMAIN s :
              j < k /\ s[j].kind = "factory" /\ s[j].id = s[k].id => s[j].run < s[k].run

CallsInv == CallsInOrder(stack) /\ \A n \in Names : available[n] <= made[n]

\* Above frame k of a stack s: the factory of n runs; m waits for a pass.
MadeAbove(n, s, k) == \E j \in DOMAIN s : j > k /\ s[j].kind = "factory" /\ s[j].id = n

WaitsAbove(m, s, k) ==
    \/ \E i \in DOMAIN pending : pending[i] = m
    \/ \E j \in DOMAIN s :
          j > k /\ s[j].kind = "trying" /\ \E i \in DOMAIN s[j].left : s[j].left[i] = m

\* The loop of frame k will load d or is at it.
Comes(d, s, k) ==
    \/ Available(d)
    \/ \E i \in DOMAIN s[k].left : s[k].left[i] = d
    \/ k + 1 \in DOMAIN s /\ s[k + 1].kind = "load" /\ s[k + 1].id = d

\* The loop of frame k will load n before it ends: first what n needs, then n.
Settles(n, s, k) ==
    k \in DOMAIN s /\ \E m \in Pending :
        /\ m.id = n
        /\ \/ /\ s[k].kind = "loading" /\ WaitsAbove(m, s, k)
              /\ \A i \in DOMAIN m.deps : m.deps[i] \in Definable /\ Comes(m.deps[i], s, k)
           \/ /\ s[k].kind = "trying" /\ AllAvailable(m.deps)
              /\ \E i \in DOMAIN s[k].left : s[k].left[i] = m

\* A body does not end before its module is available: it has yet to define it,
\* or the loop called by its define makes it.
IsBody(s, k) == s[k].kind \in {"require", "load"} /\ s[k].id \in Definable

Owes(s, k) == \E i \in DOMAIN s[k].todo : DefinesIn(s[k].todo[i], s[k].id, Definable)

Delivers(s, k) ==
    Available(s[k].id) \/ Owes(s, k) \/ MadeAbove(s[k].id, s, k) \/ Settles(s[k].id, s, k + 1)

BodiesDeliver(s) == \A k \in DOMAIN s : IsBody(s, k) => Delivers(s, k)

LoadsAnswered(s) ==
    \A n \in Definable : loads[n] > 0 =>
        Available(n) \/ \E k \in DOMAIN s : IsBody(s, k) /\ s[k].id = n

LoadInv == proc = "running" /\ ~failed => BodiesDeliver(stack) /\ LoadsAnswered(stack)
===============================================================================
