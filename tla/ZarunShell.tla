------------------------------ MODULE ZarunShell ------------------------------
(***************************************************************************)
(* The two threads of zarun and what they post to each other:              *)
(*   - the shell (zarun_shell.cc) on the main thread, which posts scripts  *)
(*     to the backend, prompts, stops the backend and leaves;              *)
(*   - the backend (backend_application.cc, backend_thread.cc), which owns *)
(*     the isolate and the Environment, runs the scripts and, in the REPL, *)
(*     posts the next prompt back after each.                              *)
(* Each thread serves a FIFO queue of tasks (base::MessageLoop, external). *)
(***************************************************************************)
EXTENDS Integers, SequencesExt

CONSTANTS
    Sessions    \* the sessions looked at

\* shell_mode_, the number of script files on the command line, and two bounds:
\* the scripts the user types at the prompt and the AMD factories scripts run.
SessionKinds == [mode : {"repl", "batch"}, args : Nat, typed : Nat, factories : Nat]

ASSUME ShellAssumption ==
    /\ Sessions \subseteq SessionKinds
    /\ \A s \in Sessions : s.args = 0 => s.mode = "repl"

VARIABLES
    session,       \* the session this is
    main,          \* where the main thread is
    argsLeft,      \* files of the command line still to be posted
    mainQueue,     \* tasks of the main thread
    thread,        \* main_thread_ is not null
    backend,       \* where the backend thread is
    backendQueue,  \* tasks of the backend: script numbers, 0 is the quit task
    env,           \* environment_ and its isolate: "none", "live", "disposed"
    v8,            \* V8 itself: "off", "on", "disposed"
    result,        \* the script whose value is the hidden __repl_result__
    posted,        \* history: scripts given to RunScript so far
    dropped,       \* history: those posted to a thread that had ended
    ran,           \* history: the scripts run, in order
    printed,       \* history: the scripts whose value was printed
    quits,         \* history: times the user typed q
    factories,     \* history: factories run
    cause          \* why the process crashed, "none" while it has not

shellVars == <<main, argsLeft, thread, quits>>
backendVars == <<backend, env, result, ran, factories>>
vars == <<session, shellVars, backendVars, mainQueue, backendQueue, v8, posted, dropped, printed, cause>>

QuitTask == 0

Mode == session.mode
Args == session.args
MaxTyped == session.typed
MaxFactories == session.factories

Causes == {"none", "unreadable", "end_of_input", "stop_twice", "unprintable", "fatal"}

TypeOK ==
    /\ session \in Sessions
    /\ main \in {"starting", "posting", "loop", "prompt", "joining", "leaving", "exited"}
    /\ argsLeft \in Nat
    /\ mainQueue \in Seq({"Repl", "Terminated", "Quit"})
    /\ thread \in BOOLEAN
    /\ backend \in {"new", "init", "loop", "script", "cleanup", "ended"}
    /\ backendQueue \in Seq(Nat)
    /\ env \in {"none", "live", "disposed"}
    /\ v8 \in {"off", "on", "disposed"}
    /\ result \in Nat /\ posted \in Nat /\ quits \in Nat /\ factories \in Nat
    /\ dropped \subseteq Nat
    /\ ran \in Seq(Nat) /\ printed \in Seq(Nat)
    /\ cause \in Causes

Init ==
    /\ session \in Sessions
    /\ main = "starting" /\ argsLeft = Args /\ thread = FALSE /\ quits = 0
    /\ backend = "new" /\ env = "none" /\ result = 0 /\ ran = <<>> /\ factories = 0
    /\ mainQueue = <<>> /\ backendQueue = <<>>
    /\ v8 = "off" /\ posted = 0 /\ dropped = {} /\ printed = <<>>
    /\ cause = "none"

Alive == cause = "none"

\* CHECK, LOG(FATAL) or a null pointer: the process is gone.
Crash(why) ==
    /\ cause' = why
    /\ UNCHANGED <<shellVars, backendVars, mainQueue, backendQueue, v8, posted, dropped, printed>>

PostToMain(task) == mainQueue' = Append(mainQueue, task)

\* PostTask to a thread whose loop has ended deletes the task.
PostScript ==
    /\ posted' = posted + 1
    /\ IF backend = "ended"
       THEN dropped' = dropped \cup {posted + 1} /\ UNCHANGED backendQueue
       ELSE backendQueue' = Append(backendQueue, posted + 1) /\ UNCHANGED dropped

-------------------------------------------------------------------------------
(***************************************************************************)
(* The main thread.                                                        *)
(***************************************************************************)
\* ZarunShell::Run creates the application and starts the backend.  Nothing
\* here relies on the start waiting for the thread's Init.
Start ==
    /\ Alive /\ main = "starting"
    /\ v8' = "on"
    /\ thread' = TRUE
    /\ backend' = "init"
    /\ main' = "posting"
    /\ UNCHANGED <<argsLeft, quits, env, result, ran, factories, mainQueue,
                   backendQueue, posted, dropped, printed, cause>>

\* Mutant: the loop over the files goes one too far.
PostOneTooMany ==
    /\ Alive /\ main = "posting" /\ argsLeft >= 0
    /\ PostScript
    /\ argsLeft' = argsLeft - 1
    /\ UNCHANGED <<main, thread, quits, backendVars, mainQueue, v8, printed, cause>>

\* One file of the command line is read and posted.
PostArgument ==
    /\ Alive /\ main = "posting" /\ argsLeft > 0
    /\ \/ Crash("unreadable")
       \/ /\ PostScript
          /\ argsLeft' = argsLeft - 1
          /\ UNCHANGED <<main, thread, quits, backendVars, mainQueue, v8, printed, cause>>

\* Mutant: the quit task overtakes the scripts that wait.
StopAtOnce ==
    /\ backendQueue' = <<QuitTask>> \o backendQueue
    /\ main' = "joining"

\* BackendApplication::Stop up to the join of the thread.
BeginStop ==
    /\ backendQueue' = Append(backendQueue, QuitTask)
    /\ main' = "joining"

EnterLoop ==
    /\ Alive /\ main = "posting" /\ argsLeft = 0
    /\ \/ /\ Mode = "repl"
          /\ PostToMain("Repl")
          /\ main' = "loop"
          /\ UNCHANGED backendQueue
       \/ /\ Mode = "batch"
          /\ BeginStop
          /\ UNCHANGED mainQueue
    /\ UNCHANGED <<argsLeft, thread, quits, backendVars, v8, posted, dropped, printed, cause>>

\* Mutant: the thread is let go and not joined.
DetachThread ==
    /\ Alive /\ main = "joining"
    /\ thread' = FALSE
    /\ PostToMain("Terminated")
    /\ main' = "loop"
    /\ UNCHANGED <<argsLeft, quits, backendVars, backendQueue, v8, posted, dropped, printed, cause>>

\* The rest of Stop, once the backend thread has ended.
Joined ==
    /\ Alive /\ main = "joining" /\ backend = "ended"
    /\ thread' = FALSE
    /\ PostToMain("Terminated")
    /\ main' = "loop"
    /\ UNCHANGED <<argsLeft, quits, backendVars, backendQueue, v8, posted, dropped, printed, cause>>

Dispatch(task) ==
    /\ Alive /\ main = "loop"
    /\ mainQueue # <<>> /\ Head(mainQueue) = task
    /\ UNCHANGED <<argsLeft, thread, quits, backendVars, backendQueue, v8, posted,
                   dropped, printed, cause>>

\* Mutant: Repl posts itself and does not prompt.
ReplAgain ==
    /\ Dispatch("Repl")
    /\ mainQueue' = Append(Tail(mainQueue), "Repl")
    /\ UNCHANGED main

DispatchRepl ==
    /\ Dispatch("Repl")
    /\ mainQueue' = Tail(mainQueue)
    /\ main' = "prompt"

\* Mutant: OnBackendApplicationEnd posts itself.
TerminatedAgain ==
    /\ Dispatch("Terminated")
    /\ mainQueue' = Append(Tail(mainQueue), "Terminated")
    /\ UNCHANGED main

\* OnBackendApplicationEnd posts the quit closure.
DispatchTerminated ==
    /\ Dispatch("Terminated")
    /\ mainQueue' = Append(Tail(mainQueue), "Quit")
    /\ UNCHANGED main

\* The loop ends; tasks still queued are deleted with it.
DispatchQuit ==
    /\ Dispatch("Quit")
    /\ mainQueue' = <<>>
    /\ main' = "leaving"

\* main returns and the shell is destroyed at exit, the application with it.
Leave ==
    /\ Alive /\ main = "leaving"
    /\ v8' = "disposed"
    /\ main' = "exited"
    /\ UNCHANGED <<argsLeft, thread, quits, backendVars, mainQueue, backendQueue,
                   posted, dropped, printed, cause>>

(***************************************************************************)
(* The user at the prompt.  An empty line prompts again: nothing changes.  *)
(***************************************************************************)
\* Mutant: the next prompt does not wait for the answer.
TypeAhead ==
    /\ Alive /\ main = "prompt" /\ posted < Args + MaxTyped
    /\ PostScript
    /\ PostToMain("Repl")
    /\ main' = "loop"
    /\ UNCHANGED <<argsLeft, thread, quits, backendVars, v8, printed, cause>>

TypeScript ==
    /\ Alive /\ main = "prompt" /\ posted < Args + MaxTyped
    /\ PostScript
    /\ main' = "loop"
    /\ UNCHANGED <<argsLeft, thread, quits, backendVars, mainQueue, v8, printed, cause>>

TypeQ ==
    /\ Alive /\ main = "prompt" /\ thread
    /\ BeginStop
    /\ quits' = quits + 1
    /\ UNCHANGED <<argsLeft, thread, backendVars, mainQueue, v8, posted, dropped, printed, cause>>

\* Stop dereferences main_thread_.
TypeQAgain ==
    /\ Alive /\ main = "prompt" /\ ~thread
    /\ Crash("stop_twice")

\* LineEditorImpl::Prompt dereferences what linenoise returns.
EndOfInput ==
    /\ Alive /\ main = "prompt"
    /\ Crash("end_of_input")

-------------------------------------------------------------------------------
(***************************************************************************)
(* The backend thread.                                                     *)
(***************************************************************************)
\* Init creates the isolate and the Environment, which requires bootstrap; its
\* failure is fatal in batch mode only.
InitBackend ==
    /\ Alive /\ backend = "init"
    /\ \/ Mode = "batch" /\ Crash("fatal")
       \/ /\ env' = "live"
          /\ backend' = "loop"
          /\ UNCHANGED <<shellVars, result, ran, factories, mainQueue, backendQueue,
                         v8, posted, dropped, printed, cause>>

RunScript ==
    /\ Alive /\ backend = "loop"
    /\ backendQueue # <<>> /\ Head(backendQueue) # QuitTask
    /\ backendQueue' = Tail(backendQueue)
    /\ ran' = Append(ran, Head(backendQueue))
    /\ backend' = "script"
    /\ UNCHANGED <<shellVars, env, result, factories, mainQueue, v8, posted, dropped,
                   printed, cause>>

\* DidRunScript prints the hidden result and posts a prompt.  A value that has
\* no string is a null pointer.
PrintResult(script) ==
    /\ printed' = Append(printed, script)
    /\ PostToMain("Repl")

\* ScriptContext::Call runs an AMD factory of the script and reports it as a
\* script that ran, with the value of the script before.
RunFactory ==
    /\ Alive /\ backend = "script"
    /\ factories < MaxFactories
    /\ Mode = "repl" /\ result # 0
    /\ \/ Crash("unprintable")
       \/ /\ factories' = factories + 1
          /\ PrintResult(result)
          /\ UNCHANGED <<shellVars, backend, env, result, ran, backendQueue, v8,
                         posted, dropped, cause>>

EndReplScript ==
    /\ Alive /\ backend = "script" /\ Mode = "repl"
    /\ \/ Crash("unprintable")
       \/ /\ result' = Last(ran)
          /\ PrintResult(Last(ran))
          /\ backend' = "loop"
          /\ UNCHANGED <<shellVars, env, ran, factories, backendQueue, v8, posted,
                         dropped, cause>>

\* An uncaught exception is fatal in batch mode.
EndBatchScript ==
    /\ Alive /\ backend = "script" /\ Mode = "batch"
    /\ \/ Crash("fatal")
       \/ /\ backend' = "loop"
          /\ UNCHANGED <<shellVars, env, result, ran, factories, mainQueue,
                         backendQueue, v8, posted, dropped, printed, cause>>

QuitBackend ==
    /\ Alive /\ backend = "loop"
    /\ backendQueue # <<>> /\ Head(backendQueue) = QuitTask
    /\ backendQueue' = Tail(backendQueue)
    /\ backend' = "cleanup"
    /\ UNCHANGED <<shellVars, env, result, ran, factories, mainQueue, v8, posted,
                   dropped, printed, cause>>

\* Mutant: the heap never reaches its steady size.
CollectForever ==
    /\ Alive /\ backend = "cleanup"
    /\ UNCHANGED vars

\* CleanUp disposes the Environment and the isolate, then the thread ends and
\* deletes the tasks it has left.
CleanUp ==
    /\ Alive /\ backend = "cleanup"
    /\ env' = "disposed"
    /\ backend' = "ended"
    /\ backendQueue' = <<>>
    /\ UNCHANGED <<shellVars, result, ran, factories, mainQueue, v8, posted, dropped,
                   printed, cause>>

-------------------------------------------------------------------------------
Shell ==
    \/ Start \/ PostArgument \/ EnterLoop \/ Joined
    \/ DispatchRepl \/ DispatchTerminated \/ DispatchQuit \/ Leave

User == TypeScript \/ TypeQ \/ TypeQAgain \/ EndOfInput

Backend ==
    \/ InitBackend \/ RunScript \/ RunFactory \/ EndReplScript \/ EndBatchScript
    \/ QuitBackend \/ CleanUp

Ended == (~Alive \/ main = "exited") /\ UNCHANGED vars

\* The command line never changes.
Next == (Shell \/ User \/ Backend \/ Ended) /\ UNCHANGED session

Spec == Init /\ [][Next]_vars

\* Both threads are scheduled and scripts end; the user owes nothing.
FairSpec == Spec /\ WF_vars(Shell /\ UNCHANGED session) /\ WF_vars(Backend /\ UNCHANGED session)

-------------------------------------------------------------------------------
(***************************************************************************)
(* Properties of every session.                                            *)
(***************************************************************************)
\* Scripts run one at a time in the order they were posted, and when the
\* backend has ended each was run, except those posted after its end: Stop
\* lets the backend finish what was posted before.  So a batch session that
\* ends well has run every script of the command line.
ScriptsInOrder ==
    /\ \A i \in DOMAIN ran : ran[i] = i
    /\ backend = "ended" => Len(ran) + Cardinality(dropped) = posted
    /\ Mode = "batch" /\ main = "exited" /\ Alive => Len(ran) = Args

\* The process leaves, and takes V8 down, only after the backend thread was
\* joined, its Environment and isolate disposed; while a script runs they live.
OrderlyShutdown ==
    /\ backend = "script" => env = "live" /\ v8 = "on" /\ thread
    /\ (main \in {"leaving", "exited"} \/ v8 = "disposed")
          => backend = "ended" /\ env = "disposed" /\ ~thread

\* Each prompt is owed to one printed value, the first one to Run: no prompt
\* is lost and none comes out of nothing.  So with command line scripts or AMD
\* factories there are several prompts for one user.
ReplTasks == Cardinality({i \in DOMAIN mainQueue : mainQueue[i] = "Repl"})

PromptLedger ==
    (Mode = "repl" /\ main \notin {"starting", "posting", "leaving", "exited"}) =>
        ReplTasks + (IF main = "prompt" THEN 1 ELSE 0)
           + (posted - Args) + quits = 1 + Len(printed)

\* Stop always comes back: the main thread never waits on a backend that
\* waits on it.
StopReturns == main = "joining" ~> (main # "joining" \/ ~Alive)

\* A batch session ends.
BatchEnds == Mode = "batch" => <>(main = "exited" \/ ~Alive)

-------------------------------------------------------------------------------
(***************************************************************************)
(* Properties of the plain REPL: no scripts on the command line and no AMD *)
(* factories.                                                              *)
(***************************************************************************)
\* While the user is being prompted the backend has nothing to do, and every
\* line typed so far was run and answered once, in order.
TurnTaking ==
    main = "prompt" =>
        /\ backend \in {"init", "loop"} /\ backendQueue = <<>> /\ mainQueue = <<>>
        /\ posted = Len(ran) /\ printed = ran /\ dropped = {}

\* The session implements ReplSession.
Phase ==
    CASE ~Alive \/ main = "exited" -> "over"
      [] Alive /\ main = "prompt" -> "reading"
      [] Alive /\ main \notin {"prompt", "exited"} /\ quits > 0 -> "quitting"
      [] OTHER -> IF posted > Len(printed) THEN "evaluating" ELSE "busy"

Session ==
    INSTANCE ReplSession WITH phase <- Phase, asked <- posted, answered <- Len(printed)

KeepsSession == Session!FairSpec
-------------------------------------------------------------------------------
(***************************************************************************)
(* Why the safety properties hold: parts of inductive invariants.          *)
(***************************************************************************)
\* What the scripts run and those in the queue are: the numbers in order.  The
\* quit task is behind all of them, and nobody posts until it has been served.
Waiting == posted - Len(ran)

QueueInOrder ==
    /\ Len(ran) <= posted
    /\ \A i \in 1 .. Len(ran) : ran[i] = i
    /\ backend = "script" => ran # <<>>
    /\ backend \notin {"cleanup", "ended"} =>
          /\ Len(backendQueue) = Waiting + (IF main = "joining" THEN 1 ELSE 0)
          /\ \A i \in 1 .. Waiting : backendQueue[i] = Len(ran) + i
          /\ main = "joining" => backendQueue[Waiting + 1] = QuitTask
    /\ backend = "cleanup" => backendQueue = <<>> /\ Waiting = 0
    /\ backend = "ended" => backendQueue = <<>> /\ dropped = Len(ran) + 1 .. posted
    /\ backend # "ended" => dropped = {}

\* Where the two threads can be at the same time, and what they have by then.
ThreadsInStep ==
    /\ main = "starting" <=> backend = "new"
    /\ backend = "cleanup" => main = "joining"
    /\ backend = "ended" => main # "posting"
    /\ thread <=> main # "starting" /\ (backend # "ended" \/ main = "joining")
    /\ main \in {"leaving", "exited"} => ~thread
    /\ env = CASE backend \in {"new", "init"} -> "none"
               [] backend = "ended" -> "disposed"
               [] OTHER -> "live"
    /\ v8 = CASE main = "starting" -> "off" [] main = "exited" -> "disposed" [] OTHER -> "on"

\* Before the join the main thread has only prompts to serve.
PromptsFirst ==
    main = "starting" \/ thread => ToSet(mainQueue) \subseteq {"Repl"}

\* The command line is posted before anything else, and in batch mode there is
\* nothing else.
ArgumentsFirst ==
    /\ main \in {"starting", "posting"} => argsLeft + posted = Args
    /\ Mode = "batch" =>
          /\ main # "prompt" /\ "Repl" \notin ToSet(mainQueue)
          /\ main \notin {"starting", "posting"} => posted = Args
          /\ dropped = {}

ShellInv == QueueInOrder /\ ThreadsInStep /\ PromptsFirst /\ ArgumentsFirst

\* PromptLedger, and before Run posts its prompt only the answers have.
LedgerInv ==
    Mode = "repl" =>
        /\ PromptLedger
        /\ main \in {"starting", "posting"} => quits = 0 /\ ReplTasks = Len(printed)

\* A plain session is at one of these points, which follow each other.
Answered == printed = ran /\ Len(ran) = posted /\ backendQueue = <<>>

AtStart ==
    /\ main \in {"starting", "posting"} /\ mainQueue = <<>>
    /\ backend \in {"new", "init", "loop"} /\ Answered

PromptDue ==
    /\ main = "loop" /\ mainQueue = <<"Repl">>
    /\ backend \in {"init", "loop"} /\ Answered

AtPrompt ==
    /\ main = "prompt" /\ mainQueue = <<>>
    /\ backend \in {"init", "loop"} /\ Answered

LineWaits ==
    /\ main = "loop" /\ mainQueue = <<>>
    /\ backend \in {"init", "loop"} /\ backendQueue = <<posted>>
    /\ posted = Len(ran) + 1 /\ printed = ran

LineRuns ==
    /\ main = "loop" /\ mainQueue = <<>>
    /\ backend = "script" /\ backendQueue = <<>>
    /\ posted = Len(ran) /\ ran = Append(printed, posted)

Quitting ==
    /\ main \in {"joining", "loop", "leaving", "exited"}
    /\ mainQueue \in {<<>>, <<"Terminated">>, <<"Quit">>}
    /\ backend \in {"init", "loop", "cleanup", "ended"}
    /\ IF main = "joining" THEN mainQueue = <<>> ELSE backend = "ended"
    /\ printed = ran /\ Len(ran) = posted

TurnInv ==
    \/ quits = 0 /\ (AtStart \/ PromptDue \/ AtPrompt \/ LineWaits \/ LineRuns)
    \/ quits = 1 /\ Quitting
===============================================================================
