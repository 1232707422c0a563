------------------------------ MODULE Components ------------------------------
(***************************************************************************)
(* The components that share no state with any other: os.throw,            *)
(* os.environ, $JSON.stringify, inspect, the console and the build.  A     *)
(* behaviour is one of exactly one of them, from any of its initial        *)
(* states; the variables of the others are Unused.                         *)
(***************************************************************************)
EXTENDS Integers, Sequences, FiniteSets

CONSTANTS
    \* os.throw
    Codes, Errnos, MessageTexts, ErrnoNames,
    \* os.environ
    EnvNames, EnvValues, Variable, Stored, Settable, Alternate, InheritedNames,
    Absent, Inherited, Untouched,
    \* $JSON.stringify
    Types, Functions, Natives, Undefined, MaxNested, MaxWrites,
    \* inspect
    Objects, Inspections, Null, StackLimit,
    \* console
    Launches, MaxScripts, MaxFactories, MaxMessages,
    \* the build
    Ids, Bad, FileTexts, Jsmin, MaxFiles

VARIABLES
    component,                                        \* the one that runs
    called, call, thrown,                             \* os.throw
    env, done, crashed,                               \* os.environ
    proto, stack, left, disturbed, writes,            \* $JSON.stringify
    heap, depth, customInspect, root, mode, arg, frames, seen, out, abandoned, \* inspect
    launch, initialized, isConsole, output, pieces, flushed, prompted, messages,
    waiting, scripts, script, factories, prompts, prompting, stopped, process, \* console
    files, stage, next, natives, sourceMap            \* the build

-------------------------------------------------------------------------------
Throw == INSTANCE ErrorCodes WITH Texts <- MessageTexts

Env == INSTANCE SystemEnv WITH Names <- EnvNames, Values <- EnvValues

Builtins == INSTANCE SafeBuiltins

Util == INSTANCE NodeUtil

Terminal == INSTANCE Console

Build == INSTANCE NativesBuild WITH Texts <- FileTexts

ASSUME ComponentAssumptions ==
    /\ Throw!IntAssumption /\ Env!NamesAssumption /\ Builtins!TypesAssumption
    /\ Util!NodeUtilAssumption /\ Terminal!ConsoleAssumption /\ Build!BuildAssumption

-------------------------------------------------------------------------------
Unused == "unused"

Components == {"throw", "environ", "builtins", "inspect", "console", "build"}

Init ==
    /\ component \in Components
    /\ IF component = "throw" THEN Throw!Init
       ELSE called = Unused /\ call = Unused /\ thrown = Unused
    /\ IF component = "environ" THEN Env!Init
       ELSE env = Unused /\ done = Unused /\ crashed = Unused
    /\ IF component = "builtins" THEN Builtins!Init
       ELSE proto = Unused /\ stack = Unused /\ left = Unused /\ disturbed = Unused /\ writes = Unused
    /\ IF component = "inspect" THEN Util!Init
       ELSE /\ heap = Unused /\ depth = Unused /\ customInspect = Unused /\ root = Unused
            /\ mode = Unused /\ arg = Unused /\ frames = Unused /\ seen = Unused
            /\ out = Unused /\ abandoned = Unused
    /\ IF component = "console" THEN Terminal!Init
       ELSE /\ launch = Unused /\ initialized = Unused /\ isConsole = Unused /\ output = Unused
            /\ pieces = Unused /\ flushed = Unused /\ prompted = Unused /\ messages = Unused
            /\ waiting = Unused /\ scripts = Unused /\ script = Unused /\ factories = Unused
            /\ prompts = Unused /\ prompting = Unused /\ stopped = Unused /\ process = Unused
    /\ IF component = "build" THEN Build!Init
       ELSE files = Unused /\ stage = Unused /\ next = Unused /\ natives = Unused /\ sourceMap = Unused

throwVars == <<called, call, thrown>>
environVars == <<env, done, crashed>>
builtinsVars == <<proto, stack, left, disturbed, writes>>
inspectVars ==
    <<heap, depth, customInspect, root, mode, arg, frames, seen, out, abandoned>>
consoleVars ==
    <<launch, initialized, isConsole, output, pieces, flushed, prompted, messages,
      waiting, scripts, script, factories, prompts, prompting, stopped, process>>
buildVars == <<files, stage, next, natives, sourceMap>>
vars == <<component, throwVars, environVars, builtinsVars, inspectVars, consoleVars, buildVars>>

NextInspect ==
    /\ component = "inspect" /\ Util!Next
    /\ UNCHANGED <<component, throwVars, environVars, builtinsVars, consoleVars, buildVars>>

Next ==
    \/ /\ component = "throw" /\ Throw!Next
       /\ UNCHANGED <<component, environVars, builtinsVars, inspectVars, consoleVars, buildVars>>
    \/ /\ component = "environ" /\ Env!Next
       /\ UNCHANGED <<component, throwVars, builtinsVars, inspectVars, consoleVars, buildVars>>
    \/ /\ component = "builtins" /\ Builtins!Next
       /\ UNCHANGED <<component, throwVars, environVars, inspectVars, consoleVars, buildVars>>
    \/ NextInspect
    \/ /\ component = "console" /\ Terminal!Next
       /\ UNCHANGED <<component, throwVars, environVars, builtinsVars, inspectVars, buildVars>>
    \/ /\ component = "build" /\ Build!Next
       /\ UNCHANGED <<component, throwVars, environVars, builtinsVars, inspectVars, consoleVars>>

Spec == Init /\ [][Next]_vars

\* Script code that was called keeps running.
FairSpec == Spec /\ WF_vars(NextInspect)

-------------------------------------------------------------------------------
\* Each component keeps to its types: no number, path or frame goes out of
\* the range its code gives it.
TypeOK ==
    /\ component = "throw" => Throw!TypeOK
    /\ component = "environ" => Env!TypeOK
    /\ component = "builtins" => Builtins!TypeOK
    /\ component = "inspect" => Util!TypeOK
    /\ component = "console" => Terminal!TypeOK
    /\ component = "build" => Build!TypeOK

\* os.throw: an errno that fits below the bit of its kind comes out as the code
\* of an ErrnoError whose message spells the same errno out; any errno, also one
\* that is negative or too large, leaves an ErrnoError an ErrnoError, and none
\* that fits makes one of a ZarunError.
ThrownAsPassed == component = "throw" => Throw!ErrnoPreserved /\ Throw!KindsApart

\* os.environ: of what a script stored under a name it reads what comes before the
\* first U+0000, under every name that is cut to the same variable; what it deleted
\* is not listed and found in the other case only; and enumeration and lookup
\* agree, whatever it does to variables the lookup takes for the same.
EnvironConsistent ==
    component = "environ" => Env!ReadsItsWrites /\ Env!DeletedIsGone /\ Env!EnumerationAgrees

\* $JSON.stringify: no override that can be assigned to applies while the real
\* stringify runs, and afterwards every prototype is as scripts left it, however
\* the calls nested and whatever could not be read or written.
ToJSONGuarded == component = "builtins" => Builtins!OverridesCleared /\ Builtins!ToJSONRestored

\* inspect: the text shows every object down to the depth once on each way to
\* it, and marks exactly the ways back to an object above as circular; only the
\* objects' own methods make inspect throw.
InspectComplete == component = "inspect" => Util!TextComplete /\ Util!OnlyMethodsThrow

\* inspect: ctx.seen holds the objects that are being expanded, also across
\* inspect methods that share it, until an exception cut an expansion short.
SeenIsTheStack == component = "inspect" => Util!SeenIsTheStack

\* inspect: ends, also with methods that answer with each other for ever.
InspectEnds == component = "inspect" ~> component = "inspect" /\ Util!Ended

\* console: each message and result is shown in its own color and in no other; a
\* prompt is colored only if a script runs when it is written, and that does not
\* happen without command line scripts and AMD factories.
ColorsContained ==
    component = "console" =>
        /\ Terminal!LinesInTheirColor
        /\ Terminal!IdlePromptsUncolored /\ Terminal!PlainPromptsIdle

\* console: messages are shown in the order of the calls, all of them by the
\* exit, and on a terminal also when the backend dies of a fatal error.
MessagesShown == component = "console" => Terminal!MessagesInOrder /\ Terminal!FatalShown

\* The build: a program that runs has each file as a module of its own, its text
\* unchanged, and a file dies in the start only of being empty.
EmbeddedWhole ==
    component = "build" =>
        Build!EmbeddedWhole /\ Build!OneFilePerModule /\ Build!DiesOfEmptyFiles
===============================================================================
