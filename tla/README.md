# A TLA+ model of zarun

zarun is a JavaScript shell: V8 and Chromium's `base` and `gin` libraries,
a module system taken from Chromium's extensions, a few native modules and a
read-eval-print loop. Its own code is `src/zarun` and `src/platform/base`
(about 6,000 lines, generated tables included). `src/third_party`, `src/testing`,
`src/tools` and `src/sdch` are vendored; `base`, `gin` and V8 are fetched at
build time and are not in the repository, so what they do is modelled only
through the way zarun uses them.

## 1. Inventory

| part | state | operations | interacts with | what is hard, what makes it correct |
|---|---|---|---|---|
| module system, CommonJS (`modules/common_module_system.cc`, `native_source_map.cc`, `js/bootstrap.js`) | the hidden `modules` object, `natives_enabled_`, `native_module_map_`, the source map | `require`, `requireNative`, `CallModuleMethod`, `RunString`, `Invalidate` | calls JavaScript, which calls it back, to any depth; `Fatal` asks the shell for its mode; `os.modules` gives scripts the cache | re-entrance, exceptions that unwind through C++ frames, cycles, failures that are retried. One exports object per module; the natives gate is open exactly while the host's own require runs |
| module system, AMD (same file, gin's `ModuleRegistry`) | pending and available modules, promise resolvers | `define`, `requireAsync`, `OnDidAddPendingModule`, `OnModuleLoaded` | the registry calls the observer while a module is being added, and is walked again by what the observer loads | promises that are never resolved, modules stranded as pending, bodies run behind the cache's back |
| shell (`zarun_shell.cc`, `zarun_main.cc`) | the mode, the main thread's queue, the quit closure | `Run`, `Repl`, `OnDidRunScript`, `OnBackendApplicationEnd` | posts to the backend and is posted to by it; joins it | order of scripts, prompts and shutdown across two threads |
| backend (`backend/*.cc`) | the thread, its queue, the isolate, V8 | `Start`, `Stop`, `RunScript`, `Init`, `CleanUp`, `DidRunScript` | runs scripts through the ScriptContext, reports to the shell | nothing posted before `Stop` is lost; V8 goes last |
| ScriptContext, Environment | validity, the hidden `__repl_result__`, the delegate, the objects they own | `Run`, `Call`, `Invalidate`, constructors and destructors | own the module system, call the delegate after each run, are pointed to by the registry and the runner | five destructors whose order must suit all pointers; a factory is reported as a script |
| line editor | history | `Prompt`, `AddHistory`, `Open`, `Close` | linenoise, the terminal, the working directory | the end of input is not handled; the history file is a relative path |
| console, standard output (`console.cc`, `utils/standard_out.cc`) | the buffer of standard output, the color of the terminal | `debug`, `log`, `warn`, `error`, `OutputString`, `Fatal` | written to by one thread while the other prompts | colors that leak into prompts, messages lost in an abort |
| exceptions (`exception/`) | none | create and throw V8 or zarun exceptions | `os.throw` | an errno is or-ed into a code and recovered by mask and subtraction |
| safe builtins | saved builtins in the context; `toJSON` of the prototypes while `stringify` runs | `Apply`, `Save`, `JSON.stringify` | every module body; scripts' `toJSON` functions run in its middle | save and restore of `toJSON` when a step of it throws or nests |
| os native, environment variables, `platform/base` | the working directory, the process environment | `chdir`, `getcwd`, `throw`, `modules`, the `environ` interceptors | operating system; the main thread reads files by relative paths | a directory two threads use; five interceptors that look at different things |
| `node_util.js` | the `seen` list of a call of `inspect` | `inspect`, `format`, `inherits` | scripts and their own `inspect` methods | recursion over cyclic values, exceptions half way |
| `tools/zarun_js2c.py` with `native_source_map.cc` | the generated table | build, compile, load | the JavaScript of the modules | an encoding at its boundaries: empty, zero characters, equal names |
| `native_object.h`, `module_provider` (unused), `process_wrapper` (unreachable), `sys_info` | none | | | not part of the models, or only by their life |

`PROJECT.json` lists the same parts with their status, and under `hazards` each
place where the code is easy to get wrong and hard to test, with the property
that covers it.

## 2. The modules

    ExportsOnce   <-- implemented by --  AcyclicModules -- EXTENDS -> CommonModuleSystem
                                         OsModules      -- EXTENDS -> CommonModuleSystem
    ReplSession   <-- implemented by --  ZarunShell
    AsyncModules, EnvironmentLife, WorkingDirectory: one component each
    Components    -- INSTANCE -> ErrorCodes, SystemEnv, SafeBuiltins, NodeUtil,
                                 Console, NativesBuild

The modules that model one component each overlap on purpose: each models the threads and
calls its own component needs (Console and WorkingDirectory the two threads of
ZarunShell, EnvironmentLife the scripts and promises of the module system) and
abstracts the rest.

* **CommonModuleSystem** models the CommonJS half of the module system. All of
  it runs on one thread, so its interleavings are those of the call stack. The
  state is that stack (`stack`, one frame per script, method or module body that
  is running) and what outlives a call: the cache (`modules`), the gate
  (`natives` is `natives_enabled_`), the registered natives, and whether
  bootstrap has published `require` to scripts (`globals`). `runs` and `held` are
  history: how often each body was started, and which name and value pairs
  `require` returned. A body is abstracted to the sets of names it requires and of
  natives it asks for; it does that in any order and may throw at any point. Code
  that has got hold of modules may call their functions, and those carry their
  module's `requireNative` along: so scripts and methods ask for natives too. An
  exports object is the number of the execution that made it.

  | code | actions |
  |---|---|
  | `RequireForJsInner`, `LoadModule` up to the call of the body | `RequireCached`, `RequireLoads`, `RequireFails` |
  | the end of `LoadModule`, `modules->Set` | `ModuleReturns`, `CalledModuleReturns`, `ModuleThrows` |
  | `RequireNativeFromString` | `RequireNativeDenied`, `RequireNativeFound`, `RequireNativeMissing` |
  | `CallModuleMethod` | `CallModuleMethod`, `CallModuleMethodFails`, `CalledModuleReturns` |
  | `RunString` | `RunString`, `HostCodeReturns`, `HostCodeThrows` |
  | `Fatal` | `BatchFatal` (the process aborts), `ReplFatal` (a message, and on it goes) |
  | `DidCreateEnvironmentCallback`, `Invalidate` | the actions `DidCreateEnvironment`, `Invalidate` |

* **AcyclicModules** adds a rank function: a body requires only lower ranks. It
  states what the class comment promises and what holds only then.
* **ExportsOnce** is that promise by itself: a name gets an exports object once,
  and everybody is handed that object.
* **OsModules** adds `os.modules()`: between any two steps code may delete an entry
  of the cache object, or store exports in it. These may be exports that `require`
  returned, and also those the wrapper hands to a body as its argument, which the body
  can store while it is still filling them. `exposed` remembers the executions in
  progress that code put into the cache so.
* **AsyncModules** models AMD: `requireAsync`, `define`, the observer, `require`
  as far as it shares `LoadModule`, and gin's registry (external) from its use:
  `LoadModule` registers a callback or calls it at once, `define` adds a pending
  module, tells the observer, and tries all pending modules, again as long as a
  try made something available. Bodies and factories are sequences of operations.
  The frames of the stack are running code or the loop of the observer or of the
  registry, since each is re-entered from inside. `available[n]` is the number of
  the factory call that made the module, `waiting[n]` counts the promises.
* **ZarunShell** models the main thread, the backend thread, their two task queues
  and the user. Scripts are numbered in the order they are posted. `main` and
  `backend` say where each thread is; `env`, `v8` and `thread` are the objects that
  must be torn down in order; `cause` is set when the process crashes. A crash is
  modelled where the code has one: an unreadable file (`LOG(FATAL)`), `Fatal` in
  batch mode, and three null pointers (end of input, the second `q`, a result
  with no string).
* **ReplSession** is what the user of a plain session sees: prompt, read, answer,
  prompt again.
* **EnvironmentLife** takes the one step `CleanUp` of ZarunShell apart: each
  constructor and destructor from `BackendThread::Init` to the end of
  `CleanUp` names the objects it uses, and `dangling` remembers a use of one that
  is not there. Scripts leave promises and exceptions behind; the collector frees
  exceptions when it likes.
* **WorkingDirectory** models `os.chdir` and `os.getcwd` on the backend thread
  against the main thread's reads of the command line files and the line
  editor's history. Others may remove directories.
* **Console** models the stream operations of a log method one by one, the buffer
  of standard output (by line on a terminal, by block in a pipe), the prompt that
  linenoise writes past that buffer, and the abort that loses it. A result, its flush
  and a prompt come at the end of a script and, while the script goes on, each time an
  AMD factory returns (`ScriptContext::Call` reports it as a script). `pieces` is all
  that `std::cout` was given, `flushed` how much of it is on the terminal, and
  `prompted` has, for each prompt, how much was there and whether the backend was busy.
  The main thread stops the backend, serves the prompts left in its queue, exits, or
  crashes at one of its null pointers.
* **ErrorCodes** models `os.throw` down to the properties of the exception that a
  script catches, with ints as integers and `unsigned short` as `% 65536`.
* **SystemEnv** models the five interceptors of `os.environ` over
  `base::Environment`, which looks names up in the other case too. Names and values go
  there as C strings, which end at U+0000: `Variable` and `Stored` say what is left of
  each, so two names of a script may be one variable.
* **SafeBuiltins** models the safe `JSON.stringify` as three loops (save and clear,
  the real stringify, restore) over prototypes that scripts rewrite before and
  during it.
* **NodeUtil** models `inspect` on object graphs with custom `inspect` methods. The
  text is abstracted to what was written for the value at each path.
* **NativesBuild** models `zarun_js2c.py`, the C++ compiler (external) and
  `NativeSourceMap` on texts of character codes.
* **Components** puts the six modules that share no state with any other
  (ErrorCodes, SystemEnv, SafeBuiltins, NodeUtil, Console, NativesBuild) together:
  each behaviour is one of a single component, chosen at the start, and the
  variables of the others stay unused. Its invariants name the component they speak
  of; the definitions behind them, with their comments, are in the component's
  module. Its constants are those of the components, so its theorems hold for all
  their values.
* **MC...** modules give constants their values. **StackLemmas** has the facts about
  sequences that several proofs need, and the **..._proofs** modules hold the proofs:
  those of OsModules are in CommonModuleSystem_proofs, those of the six small modules
  in Components_proofs.

Definitions marked "Mutant" are variants of the definition they precede with a
plausible bug. No specification uses them; putting one in the place of its
original must break the property `PROJECT.json` names beside it, which shows that
the property depends on that piece of code.

## 3. The runs

| run | instance | shows |
|---|---|---|
| `acyclic_repl` | bootstrap, node_util, an `app` that requires node_util and a missing name, a module that does not compile, `toString`; REPL; 3 entries, stack of 4 | `SharedExports`, `CacheStable`, the refinement `KeepsPromise`, `TypeOK` |
| `acyclic_batch` | the same in batch mode | `ExecutedAtMostOnce` |
| `cyclic_repl` | `a` and `b` require each other, and code edits the cache object at any time; REPL; 1 entry, stack of 3 | `NativesScoped`, `HalfBuiltOnlyIfStored`, `EveryEntryReturns` |
| `cyclic_executed_once` | the same modules without edits and in batch mode, where a throw ends the process and only the cycle can execute a body again | the class comment "executed at most once" fails |
| `inherited_exports` | as `acyclic_repl` | the class comment on what `require` returns fails for `toString` |
| `async_modules` | three programs: a diamond of three AMD modules, a CommonJS module and an id only scripts define, in the REPL and in batch mode, 2 scripts, stack of 12; and AMD modules that need each other, a factory that asks for its own module, 3 scripts, stack of 9 | `NothingStranded`, `LoadedIsAvailable`, `PromiseLedger`, `ModuleStable`, `PromiseResolves`, `TypeOK` |
| `async_never_resolves` | the diamond in batch mode | the comment on `OnModuleLoaded` fails for a module without `define` |
| `shell_plain` | REPL, no command line scripts, no factories, 8 typed scripts | `TurnTaking`, the refinement `KeepsSession` with its liveness, `TypeOK` |
| `shell_scripts` | REPL with 2 command line scripts, 3 typed, 2 factories; and batch with 5 scripts | `ScriptsInOrder`, `OrderlyShutdown`, `PromptLedger`, `StopReturns`, `BatchEnds` |
| `environment_life` | 3 native modules, 2 promises, 4 exceptions | `NoDanglingUse`, `InvalidatedInTime`, `NothingLeft` |
| `working_directory` | 3 files, one by an absolute path, one typed script, 3 directories, 2 calls a script | `FilesExplained`, `GetcwdExplained`, `HistoryExplained` |
| `components` | each of the six small modules, see below | ten properties, see below |

The instances and properties of `components`:

| module | instance | properties |
|---|---|---|
| ErrorCodes | 12 codes and 10 errnos around every bit and boundary | `ThrownAsPassed`: an errno that fits is preserved, and the kinds are not confused |
| SystemEnv | names that differ in case, that have no other case, that setenv refuses, that objects inherit, that U+0000 cuts to another or to nothing; a value it cuts; any environment to begin with | `EnvironConsistent`: reads follow writes up to the cut and under every name cut to the same variable, what is deleted is gone, enumeration agrees with lookup |
| SafeBuiltins | three builtin types, overrides of every kind, calls two deep, 3 writes | `ToJSONGuarded`: overrides are off inside and back afterwards |
| NodeUtil | every graph of three objects with up to two properties, depths 0, 1 and none; and two of three objects with methods of every behaviour, stack of 5 | `InspectComplete`: the text is that of the graph, and only methods throw; `SeenIsTheStack`, `InspectEnds` |
| Console | the REPL on a terminal with 0 or 1 command line scripts, batch of two on a terminal and, colored, into a pipe; 2 scripts, 1 factory, 2 messages | `ColorsContained`: lines in their color, prompts in none unless the backend is busy, and sessions without command line scripts and factories prompt only when it is idle; `MessagesShown`: in order and complete |
| NativesBuild | up to 2 files of 3 ids with up to 2 of 4 kinds of characters | `EmbeddedWhole`: all files, one module each, unchanged |

and `TypeOK` for all of them.

Bounds. `MaxDepth` stands for the size of the V8 stack: 3 frames hold a
script and both modules of a cycle, with the load that no
longer fits as the fourth; in the acyclic instance the longest chain is
script, app, node_util, so the stack never fills there. `MaxEntries` bounds what
the host starts: two or three are a first load, its failure and the retry, and the
code that uses the cached result. With edits of the cache one entry is enough, since it
can require, delete, store and require again by itself, and the cycle needs no stack
deeper than 3 for that. `MaxTyped` and `MaxFactories` only bound the
length of a session. The prompts that pile up need one command line script or one
factory more than the user answers, so 2 and 2 give queues of up to five tasks and
include a second `q`, and scripts typed after the end of the backend.
In AsyncModules 12 frames hold the deepest nest of the diamond (script, observer,
body, registry, factory, for each of its modules), so there only the cyclic
program fills the stack. In NodeUtil a stack of 5 ends methods that answer each other and
is deeper than any graph of three objects. In Console two messages show what the
first leaves behind for the second, and one command line script or one factory is
enough for a prompt while a script runs; three command line files are the least with
a script between two reads.

Fairness. In CommonModuleSystem, OsModules and AsyncModules only code that runs is
fair (`WF_vars(Execute)`): V8 does not stop between two statements. The host owes
no further entry, exceptions are never forced, and nobody has to edit the cache. A
body that loops for ever is outside the model, as a body is a finite set or sequence
of operations. `inspect` is one call on one thread, so all its steps are fair
(`WF_vars(NextInspect)`). In ZarunShell each thread is fair
(`WF_vars(Shell)`, `WF_vars(Backend)`): the operating system schedules both, and a
message loop serves the head of its queue. That assumes that a script ends: one
that does not end blocks the backend, and `q` with it, in zarun as in any model of
it. The user is not fair: he may leave the prompt unanswered for ever. The other
modules state safety only.

Where the code and its comments disagree. The first three are runs that find the
violation (`cyclic_executed_once`, `inherited_exports`, `async_never_resolves`); the
others follow from the actions named:

* "Each module in a ModuleSystem is executed at most once and its exports object
  cached" (`common_module_system.h:38`). The cache is written after the body
  returns, so each module of a cycle is executed again at every level until the V8
  stack is full; and a module that threw has `undefined` stored, so that the next
  `require` executes it again. What is true instead is proved: without cycles and
  in batch mode bodies run once, and without cycles exports are made once in both
  modes. `requireAsync` and `define` load bodies past the cache altogether (`RequireAsync`
  and `LoadDependency` of AsyncModules call `LoadModule` and never look at `cached`).
* `require` "returns that module's exports object" (`common_module_system.h:31`).
  The cache is a plain object, so `require("toString")` returns what
  `Object.prototype` has.
* `OnModuleLoaded` is "invoked when a module is loaded in response to a
  requireAsync call" (`common_module_system.h:161`). It is invoked when a module is
  *defined*: the promise for a CommonJS module stays pending.
* `ZarunError` is an "error code with zarun internal, as bit mask"
  (`exception_code.h:81`). The mask is never taken out, so the internal
  code is lost (`Wrap` and `GetErrorEntry` of ErrorCodes).
* "extensions can override toJSON in incompatible ways, and we need to prevent
  that" (`safe_builtins.cc:84`). Overrides that throw when read or cannot be
  assigned to stay in force (`ClearOne` of SafeBuiltins).

What else the runs say of the code:

* A plain session takes strict turns
  (`TurnTaking`). With `--repl` and scripts, or with AMD factories, every script or
  factory that ends posts a prompt besides the one of `Run`; `PromptLedger` counts
  them exactly. Only then can `q` be typed twice, which calls `Stop` on a null
  pointer, and can a script be typed after the backend has ended, when it is
  silently dropped.
* A module whose definition waits for an id without a source is not tried again by
  the observer (`NothingStranded` has that one exception). A factory that
  asks for its own module runs again inside itself, and when the outer call returns
  it replaces the module the inner one made; `ModuleStable` says that nothing else
  is ever replaced.
* A prompt can come out in the color of a message: with a command line script under
  `--repl`, or after `define("m", [], function() {}); console.log("x")`, the user is
  prompted while a script runs, and the code that ends the color may be in the buffer
  then. `ColorsContained` says that only such prompts are colored.
* A body can give out its own half built exports with `os.modules().a = exports`, and a
  `require` of `a` inside it then returns them. `HalfBuiltOnlyIfStored` says that
  nothing else makes `require` do so: no deletion, no failure, no other edit.
* Two names with U+0000 in them that agree up to it are one variable of `os.environ`,
  and a value is stored up to its first U+0000.
* A file of the command line may be read in a directory it was not named from, but
  only in one that the script of an earlier argument went to.
* `os.getcwd` in a lost directory answers the empty string: the `undefined` the
  callback sets first is overwritten.
* Errnos that are negative or have bit 13 come out as others; a ZarunError with
  such a number comes out as an ErrnoError.
* `Date.prototype.toJSON` counts as an override, since what is compared with is the
  constructor's own `toJSON`, which does not exist; `stringify` restores it.

## 4. The proofs

Under the named assumptions the theorems hold for every value of the constants:
any set of modules, any requires, any depth of stack, any number of entries,
any command line, any directories.

* `TypeCorrect`: `Spec => []TypeOK`. Every other proof about the module system uses it.
* `GateHolds`: `Spec => []NativesScoped`. By itself the counter says nothing about
  the frames below the running one, so the induction goes over `GateInv`:
  `EnteredByRequire` (only the bottom frame can hold a scope, as everything above
  it was entered by a require) and `NothingYet` (before the Environment exists the
  stack and the cache are empty).
* `NoHalfBuilt`: `Spec => []NoHalfBuiltExports`, from `RunsInv`. (No run checks it
  by itself: it is `HalfBuiltOnlyIfStored` with `exposed` empty.) An execution in
  progress has a number that nobody holds and the cache does not have, and of two
  executions of one module on the stack the upper one is the later; this is needed
  when the inner one returns.
* `EditedGate`, `EditedHalfBuilt`: `NativesScoped` and `HalfBuiltOnlyIfStored` for
  `OsSpec`. The new step `ModulesCallback` touches the cache and `exposed` alone. The
  invariant of `NoHalfBuilt` is stated for a set of executions (`RunsInv(S)`): those in
  S excepted, none in progress is held or cached. There S is empty; here it is
  `exposed`, which grows by what `ModulesCallback` stores of the executions in progress
  and loses those that end.
* `AcyclicInvariant`: `Spec => []AcyclicInv` in AcyclicModules. The ranks descend
  along the stack (`StackRanked`), so a module being loaded is never on the stack a
  second time; it is therefore not cached and its execution is the last one
  (`LoadingNotCached`), and whatever code holds is what the cache has
  (`HeldIsCached`).
* `ExportsAreShared`, `CacheIsStable` and `PromiseKept` follow from it;
  `PromiseKept` maps `modules` and the pairs in `held` to the variables of
  ExportsOnce, each `ModuleReturns` to `Publish` and each `RequireCached` to
  `HandOut`.
* `BatchRunsOnce`: in batch mode `Spec => []ExecutedAtMostOnce`, from `StartedOnce`:
  a body that was started is cached, in progress, or was the end of the process.
* `NothingDangles`, `NativesInvalidated`, `EverythingGoes` in
  EnvironmentLife, for any natives, promises and exceptions, from `LifeInv`:
  `CoreByStage` and `NativesByStage` say which objects exist at each stage,
  `PointersByStage` until when pointers to them may be followed. They are needed
  because `dangling = {}` by itself does not say what a later step will find.
* `FilesAreExplained`, `GetcwdIsExplained`,
  `HistoryIsFound` (of `HistoryExplained`) in WorkingDirectory from `DirInv`: `QueueInOrder` (what waits in
  the queue are the numbers after the last script that started) and
  `MovedByScripts` (the process is in the launch directory or where a script that
  started went).
* `ShellTypes`, `ShutdownIsOrderly`, `ScriptsRunInOrder` in ZarunShell, for any
  sessions, from `ShellInv`: `QueueInOrder` (what the scripts that ran leave of the
  numbers posted is what waits, with the quit task behind it), `ThreadsInStep`
  (where the two threads can be at the same time), `PromptsFirst` (before the join
  the main thread has nothing but prompts in its queue) and `ArgumentsFirst`. The
  parts need each other: that `Quit` is only served after the join is `PromptsFirst`,
  that the quit task is only served by a backend that is being joined is
  `QueueInOrder`.
* `LedgerBalances`: `PromptLedger` from `LedgerInv`, by counting the prompts in the
  queue before and after each post and each task (`PromptsAdded`, `PromptsTaken`).
* `TurnsAreTaken`, `SessionIsKept`: under the assumption `PlainOnly` (no command line
  scripts and no factories, which is what the two properties are about) a session is
  at one of the points of `TurnInv`, and each step stays there or goes on to the next.
  That gives `TurnTaking` and the safety half of the refinement of ReplSession.
* `AsyncTypes`, `NoneIsStranded`, `PromisesWait` in AsyncModules, for any program,
  with cycles and failures, from `AsyncInv`: as long as a pending module has all it
  needs, the stack has a loop that will make another pass (`NoneForgotten`). When a
  factory returns, its module may be the last that pending ones lack; that the frame
  below it is such a loop if the id has a source is `WellNested`.
* `WhatWasLoadedIsAvailable` from `LoadInv`, which says of each body on the stack
  what its load still owes (`BodiesDeliver`): its module is available, or it has yet
  to define it, or the factory runs above it, or the loop its define called will
  make it (`Settles`), because that loop loads first what the module needs and then
  the module itself. What it needs may have been pending or half loaded before; so
  `Settles` speaks of what the loop of a frame will still come to, not of the pending
  list alone.
* `ModulesAreStable` from `CallsInv`: the calls of one factory are numbered as they
  nest, and none that has yet to return is as late as the one that made the module.

In Components, for any values of its constants:

* `ComponentsTypes`: every component keeps its types. It rests on the invariants
  below, since a number such as `pos` of a frame stays in its range only because of
  what the frame is about.
* `ThrowsAsPassed`: what was thrown is what the arguments make (`ThrowInv`), and a
  number or-ed below the bit of the kind is what mask and subtraction take out again.
  Codes and errnos are any integers.
* `EnvironAgrees` from `EnvInv`: each variable is what was last done to it under any of
  the names that are cut to it, whatever the cut makes of names and values as long as
  it changes nothing a second time (`NamesAssumption`). Lookups try a second variable,
  so the invariant has to speak of variables one by one.
* `ToJSONIsGuarded` from `ToJSONInv`, for any types and any depth of nested calls: of a
  type that scripts leave alone, the outer call takes a plain `toJSON` away and has
  saved it, and the calls inside it find nothing they could save or change. A value
  that cannot be assigned to is saved too, where putting it back has no effect
  (`SavedRight`). Types that scripts wrote meanwhile are excepted, and all of them when
  they wrote to `Object.prototype`, from which the others inherit.
* `SeenFollowsTheStack`, for any object graph and any inspect methods: `seen` has one
  entry for each expansion on the stack.
* `InspectIsComplete` from `CallsInv` and `TextInv`: the call number n on the stack is
  for what the first n - 1 are expanding, so its path is the stack; and what is
  written is the text of its path, with all properties written that lie before the
  position of its frame. `seen` has no object twice, so the stack is never higher than
  there are objects. Hence the two hypotheses of the theorem: finitely many objects,
  and fewer of them than the stack has frames. They are what makes "only the objects'
  own methods throw" true: on a longer chain without a depth limit V8's stack ends
  `inspect` (`StackOverflow`). The run has 3 objects and 5 frames.
* `ColorsAreContained`, `MessagesAreShown` from `ConsoleInv`: what the backend's current
  call has yet to write begins in the color the pieces so far end in, and its last
  color code ends all color (`OutputInv`); the messages given are the numbers up to
  the current one, in order (`MessagesInv`); whoever reports has flushed before it posts
  the prompt, and between scripts everything is on the terminal (`ReportInv`); and
  without command line scripts and factories the turn is at one place only (`TurnInv`).
* `FilesAreEmbedded` from `BuildInv`, which says what the table and then the map have
  at each stage; the zero that ends an array is the one character `sizeof - 1` leaves
  out.

The acyclic theorems take the ranks as the one assumption about user code
(`RankAssumption`); without it `ExecutedAtMostOnce` is false, as the run
`cyclic_executed_once` shows. CommonModuleSystem itself does not speak of bodies
that AMD executes behind the cache, nor of scripts that write to it: the second is
what OsModules adds, where `SharedExports`, `CacheStable` and `NoHalfBuiltExports` are
lost by definition.
`StackLemmas` has the facts about `Front`, `Last`, `Append` and updates of the last
element that the steps need.

Only model-checked: the liveness properties `EveryEntryReturns`, `PromiseResolves`,
`StopReturns`, `BatchEnds`, `InspectEnds` and the fairness half of `KeepsSession`
(liveness and ENABLED are outside what TLAPS proves). Every invariant and every other
action property that a passing run checks is also a theorem.

## 5. What is not modelled

* The contents of exports, `privates()`, the wrapping of sources; cache entries that
  scripts make up themselves, and the exports of one module stored under another name.
* Names of variables with "=", and strings with half a surrogate pair.
* In Console, an unreadable file, which ends the process while earlier scripts write
  (ZarunShell has it): the files of the command line are readable there.
* A `require` that survives its context: in zarun the context dies with the
  backend thread.
* AMD: a `define` without an id, and calls with a wrong number of arguments, which
  are a `CHECK`. AMD is not part of CommonModuleSystem; its effect on the shell is
  there (`RunFactory`).
* The order in which collections free what scripts left: EnvironmentLife takes a full
  collection to free something as long as there is garbage, as the loop of `CleanUp`
  does.
* Process ends that scripts ask for (`os.abort()`), and the plain getters of `os`
  and `sys_info`, which keep no state.
* In `node_util.js` everything but `inspect`; of its text, the layout.
* `Save` and `Load` of the safe builtins, run once for each context before any script,
  and the wrappers made by `Apply`, which keep no state and hand on receiver and arguments.
* Constants and macros of `zarun_js2c.py`: no macros file is among its inputs.
* linenoise, the history's entries, the line editor for systems without it.
* `module_provider` (unused), `process_wrapper` (nothing creates one), `subprocess`
  (an empty body).

## 6. Plan

Done: the module system with its CommonJS, AMD and edited-cache variants, the shell
with its session, one module for each other part with behaviour worth checking, and
a theorem for every safety property the runs check.
Left: a refinement that joins EnvironmentLife to the step `CleanUp` of ZarunShell, and
the installation of the safe builtins (`Save`, `Load`).
