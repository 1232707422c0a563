-------------------------------- MODULE Console --------------------------------
(***************************************************************************)
(* What reaches the terminal: the console methods of scripts (console.cc   *)
(* over utils/standard_out.cc) and the results of the REPL, written by the *)
(* backend thread to std::cout, and the prompts of the main thread, which  *)
(* linenoise writes to the same terminal directly.                         *)
(*                                                                         *)
(* std::cout is buffered by the C library (external): a terminal gets each *)
(* line when it is complete, a file or a pipe gets it when the buffer is   *)
(* flushed.  A color code after the newline waits in the buffer, and what  *)
(* waits is lost when the process aborts.                                  *)
(***************************************************************************)
EXTENDS Integers, SequencesExt

CONSTANTS
    Launches,     \* the ways zarun is started, see Launch
    MaxScripts,   \* bound: those and the typed ones
    MaxFactories, \* bound: AMD factories scripts run
    MaxMessages   \* bound: console calls

Launch == [mode : {"repl", "batch"},
           tty : BOOLEAN,                  \* isatty(stdout)
           color : BOOLEAN, nocolor : BOOLEAN, \* the switches
           args : Nat]                     \* scripts of the command line

ConsoleAssumption ==
    /\ Launches \subseteq Launch
    /\ MaxScripts \in Nat /\ MaxFactories \in Nat /\ MaxMessages \in Nat
    /\ \A l \in Launches : l.args <= MaxScripts

VARIABLES
    launch,     \* how this process was started
    initialized, isConsole, \* standard_out.cc
    output,     \* stream operations the backend's current call has yet to do
    pieces,     \* history: what std::cout was given: color codes and lines
    flushed,    \* how many of them it does not hold back any more
    prompted,   \* history: at each prompt, how many those were and whether the
                \* backend was busy
    messages,   \* history: console calls so far
    waiting,    \* scripts posted that do not run yet
    scripts,    \* history: scripts posted
    script,     \* a script runs
    factories,  \* history: factories reported
    prompts,    \* prompts posted to the main thread
    prompting,  \* the main thread waits in linenoise, or for the backend it stops
    stopped,    \* the backend has been joined
    process     \* "running", "exited", "aborted" by the backend or "crashed" by
                \* the main thread

settings == <<launch, initialized, isConsole>>
terminal == <<pieces, flushed, prompted>>
session == <<waiting, scripts, script, factories, prompts, prompting, stopped>>
vars == <<settings, output, terminal, messages, session, process>>

Levels == [debug |-> "blue", log |-> "green", warn |-> "yellow", error |-> "red"]
Colors == {"none"} \cup Range(Levels)

Piece(op, id, c) == [op |-> op, id |-> id, color |-> c]
Pieces == [op : {"color", "line", "flush", "prompt", "abort"}, id : Nat, color : Colors]

TypeOK ==
    /\ initialized \in BOOLEAN /\ isConsole \in BOOLEAN
    /\ output \in Seq(Pieces) /\ pieces \in Seq(Pieces)
    /\ flushed \in 0 .. Len(pieces)
    /\ prompted \subseteq [at : 0 .. flushed, busy : BOOLEAN]
    /\ messages \in 0 .. MaxMessages
    /\ waiting \in Nat /\ scripts \in 0 .. MaxScripts /\ script \in BOOLEAN
    /\ factories \in 0 .. MaxFactories
    /\ prompts \in Nat /\ prompting \in BOOLEAN /\ stopped \in BOOLEAN
    /\ process \in {"running", "exited", "aborted", "crashed"}

\* The main thread has posted the files and, in the REPL, the first prompt.
Init ==
    /\ launch \in Launches
    /\ initialized = FALSE /\ isConsole = FALSE
    /\ output = <<>> /\ pieces = <<>> /\ flushed = 0 /\ prompted = {}
    /\ messages = 0 /\ waiting = launch.args /\ scripts = launch.args /\ script = FALSE
    /\ factories = 0 /\ stopped = FALSE
    /\ prompts = (IF launch.mode = "repl" THEN 1 ELSE 0) /\ prompting = FALSE
    /\ process = "running"

Running == process = "running"
Idle == ~script /\ output = <<>>
InScript == Running /\ script /\ output = <<>>

-------------------------------------------------------------------------------
(***************************************************************************)
(* The backend thread.                                                     *)
(***************************************************************************)
RunScript ==
    /\ Running /\ ~script /\ waiting > 0
    /\ waiting' = waiting - 1 /\ script' = TRUE
    /\ UNCHANGED <<settings, output, terminal, messages, scripts, factories, prompts,
                   prompting, stopped, process>>

\* EnsureInitialized, at the first output.
WantsColor == ~launch.nocolor /\ (launch.color \/ launch.tty)

\* Mutant: the decoration is not reset.
OutputUnreset(id, c, console) ==
    IF console THEN <<Piece("color", 0, c), Piece("line", id, c)>>
    ELSE <<Piece("line", id, "none")>>

OutputString(id, c, console) ==
    IF console THEN <<Piece("color", 0, c), Piece("line", id, c), Piece("color", 0, "none")>>
    ELSE <<Piece("line", id, "none")>>

AddMessage(c, after) ==
    /\ messages < MaxMessages
    /\ messages' = messages + 1
    /\ initialized' = TRUE
    /\ isConsole' = IF initialized THEN isConsole ELSE WantsColor
    /\ output' = OutputString(messages + 1, c, isConsole') \o after
    /\ UNCHANGED <<launch, terminal, session>>

\* An argument without a string is a null pointer.
BoundLogMethodCallback ==
    /\ InScript
    /\ \/ /\ \E level \in DOMAIN Levels : AddMessage(Levels[level], <<>>)
          /\ UNCHANGED process
       \/ /\ process' = "aborted"
          /\ UNCHANGED <<settings, output, terminal, messages, session>>

\* An uncaught exception in batch mode: the message, then CheckWithMinidump.
Fatal ==
    /\ InScript /\ launch.mode = "batch"
    /\ AddMessage(Levels.error, <<Piece("abort", 0, "none")>>)
    /\ UNCHANGED process

\* OnDidRunScript: the result, flushed, and then the prompt.
Report == <<Piece("line", 0, "none"), Piece("flush", 0, "none"), Piece("prompt", 0, "none")>>

\* A script has left a result for DidRunScript to find.
Answered == scripts - waiting > (IF script THEN 1 ELSE 0)

\* ScriptContext::Call reports a factory as a script that ran, while the script
\* that defined it goes on.  A result without a string is a null pointer.
RunFactory ==
    /\ InScript /\ launch.mode = "repl" /\ Answered
    /\ \/ /\ factories < MaxFactories
          /\ factories' = factories + 1
          /\ output' = Report
          /\ UNCHANGED process
       \/ /\ process' = "aborted"
          /\ UNCHANGED <<output, factories>>
    /\ UNCHANGED <<settings, terminal, messages, waiting, scripts, script, prompts, prompting, stopped>>

ScriptEnds ==
    /\ InScript
    /\ \/ /\ script' = FALSE
          /\ output' = IF launch.mode = "repl" THEN Report ELSE <<>>
          /\ UNCHANGED process
       \/ /\ launch.mode = "repl" /\ process' = "aborted"
          /\ UNCHANGED <<output, script>>
    /\ UNCHANGED <<settings, terminal, messages, waiting, scripts, factories, prompts,
                   prompting, stopped>>

(***************************************************************************)
(* std::cout.                                                              *)
(***************************************************************************)
Flush == flushed' = Len(pieces')

Write ==
    /\ Running /\ output # <<>>
    /\ output' = Tail(output)
    /\ LET p == Head(output) IN
       /\ pieces' = IF p.op \in {"color", "line"} THEN Append(pieces, p) ELSE pieces
       /\ IF p.op = "flush" \/ (p.op = "line" /\ launch.tty) THEN Flush ELSE UNCHANGED flushed
       /\ prompts' = IF p.op = "prompt" THEN prompts + 1 ELSE prompts
       /\ process' = IF p.op = "abort" THEN "aborted" ELSE process
    /\ UNCHANGED <<settings, prompted, messages, waiting, scripts, script, factories,
                   prompting, stopped>>

\* A full buffer is written out.
BufferFull ==
    /\ Running /\ flushed < Len(pieces)
    /\ UNCHANGED <<settings, output, pieces, prompted, messages, session, process>>
    /\ Flush

-------------------------------------------------------------------------------
(***************************************************************************)
(* The main thread.                                                        *)
(***************************************************************************)
\* linenoise writes the prompt, in whatever color the terminal has by then.
Prompt ==
    /\ Running /\ prompts > 0 /\ ~prompting
    /\ prompts' = prompts - 1 /\ prompting' = TRUE
    /\ prompted' = prompted \cup {[at |-> flushed, busy |-> ~Idle]}
    /\ UNCHANGED <<settings, output, pieces, flushed, messages, waiting, scripts, script,
                   factories, stopped, process>>

\* A script that is posted after the end of the backend is dropped.
TypeScript ==
    /\ Running /\ prompting
    /\ \/ /\ ~stopped /\ scripts < MaxScripts
          /\ waiting' = waiting + 1 /\ scripts' = scripts + 1
       \/ stopped /\ UNCHANGED <<waiting, scripts>>
    /\ prompting' = FALSE
    /\ UNCHANGED <<settings, output, terminal, messages, script, factories, prompts, stopped,
                   process>>

\* The end of the input, and a second "q", are null pointers.
ShellCrashes ==
    /\ Running /\ prompting
    /\ process' = "crashed"
    /\ UNCHANGED <<settings, output, terminal, messages, session>>

\* "q", or the end of the files of a batch: the backend serves what waits, and
\* is joined.
Stop ==
    /\ Running /\ Idle /\ waiting = 0 /\ ~stopped
    /\ launch.mode = "repl" => prompting
    /\ stopped' = TRUE /\ prompting' = FALSE
    /\ UNCHANGED <<settings, output, terminal, messages, waiting, scripts, script, factories,
                   prompts, process>>

\* Mutant: what std::cout holds back is lost.
ExitUnflushed ==
    /\ Running /\ stopped /\ prompts = 0 /\ ~prompting
    /\ process' = "exited"
    /\ UNCHANGED <<settings, output, terminal, messages, session>>

\* The prompts in the queue have been served; exit flushes std::cout.
Exit ==
    /\ Running /\ stopped /\ prompts = 0 /\ ~prompting
    /\ process' = "exited"
    /\ UNCHANGED <<settings, output, pieces, prompted, messages, session>>
    /\ Flush

Next == RunScript \/ BoundLogMethodCallback \/ Fatal \/ RunFactory \/ ScriptEnds \/ Write
        \/ BufferFull \/ Prompt \/ TypeScript \/ ShellCrashes \/ Stop \/ Exit
        \/ (~Running /\ UNCHANGED vars)

Spec == Init /\ [][Next]_vars

-------------------------------------------------------------------------------
\* The terminal writes in color c once it got the first n pieces.
InColor(n, c) ==
    LET codes == {i \in 1 .. n : pieces[i].op = "color"} IN
    \/ codes = {} /\ c = "none"
    \/ \E i \in codes : pieces[i].color = c /\ \A j \in codes : j <= i

IsMessage(p) == p.op = "line" /\ p.id # 0

Shown(id) == \E i \in 1 .. flushed : IsMessage(pieces[i]) /\ pieces[i].id = id

\* Every message and every result stands on the terminal in its own color and in
\* no other, although the code that ends a color waits in the buffer.
LinesInTheirColor ==
    \A i \in 1 .. flushed : pieces[i].op = "line" => InColor(i, pieces[i].color)

\* A prompt is colored only if the backend runs a script, or reports one, when
\* linenoise writes it: between scripts the color of the last message has ended
\* on the terminal, and not only in the buffer.
IdlePromptsUncolored == \A p \in prompted : p.busy \/ InColor(p.at, "none")

\* Without command line scripts and factories the user is asked between scripts
\* only, so that no prompt of such a session is colored.
PlainPromptsIdle == launch.args = 0 /\ factories = 0 => \A p \in prompted : ~p.busy

\* The messages are shown in the order of the calls and none is left out, and
\* all of them have been shown when the process exits, with the color ended.
MessagesInOrder ==
    /\ \A j \in 1 .. flushed : IsMessage(pieces[j]) =>
          {pieces[i].id : i \in {i \in 1 .. j : IsMessage(pieces[i])}} = 1 .. pieces[j].id
    /\ \A i, j \in 1 .. flushed :
          i # j /\ IsMessage(pieces[i]) /\ IsMessage(pieces[j]) => pieces[i].id # pieces[j].id
    /\ process = "exited" => (\A id \in 1 .. messages : Shown(id)) /\ InColor(flushed, "none")

\* On a terminal a fatal error, like every message before it, is shown when the
\* backend aborts.  In a pipe what the buffer holds back is lost; what is shown is
\* the first of the messages.
FatalShown == launch.tty /\ process = "aborted" => \A id \in 1 .. messages : Shown(id)

-------------------------------------------------------------------------------
(***************************************************************************)
(* Why that is so: what the backend's current call may have yet to write.  *)
(***************************************************************************)
\* A line follows the code of its color, the last code ends all color, and the
\* prompt follows a flush.
OutputInv ==
    /\ \A k \in DOMAIN output : output[k].op = "line" =>
          IF k = 1 THEN InColor(Len(pieces), output[k].color)
          ELSE output[k - 1].op = "color" /\ output[k - 1].color = output[k].color
    /\ \/ InColor(Len(pieces), "none") /\ \A k \in DOMAIN output : output[k].op # "color"
       \/ \E k \in DOMAIN output :
             /\ output[k].op = "color" /\ output[k].color = "none"
             /\ \A j \in DOMAIN output : j > k => output[j].op # "color"
    /\ \A k \in DOMAIN output :
          /\ output[k].op = "prompt" => k = Len(output) /\ (k > 1 => output[k - 1].op = "flush")
          /\ output[k].op = "abort" => k = Len(output)

Pending == \E k \in DOMAIN output : IsMessage(output[k])

Given == IF Pending THEN messages - 1 ELSE messages

\* The messages std::cout was given, in order, and the one that is next.
MessagesInv ==
    /\ \A k \in DOMAIN output : IsMessage(output[k]) =>
          output[k].id = messages /\ \A j \in DOMAIN output : IsMessage(output[j]) => j = k
    /\ \A i \in DOMAIN pieces : IsMessage(pieces[i]) => pieces[i].id \in 1 .. Given
    /\ \A id \in 1 .. Given : \E i \in DOMAIN pieces : IsMessage(pieces[i]) /\ pieces[i].id = id
    /\ \A i, j \in DOMAIN pieces :
          IsMessage(pieces[i]) /\ IsMessage(pieces[j]) /\ i < j => pieces[i].id < pieces[j].id

\* After the report of a script everything is on the terminal; a batch asks nobody.
ReportInv ==
    /\ output # <<>> /\ output[1].op = "prompt" => flushed = Len(pieces)
    /\ IF launch.mode = "repl"
       THEN script \/ IF output = <<>> THEN flushed = Len(pieces)
                      ELSE output[Len(output)].op = "prompt"
       ELSE prompts = 0 /\ \A k \in DOMAIN output : output[k].op # "prompt"

\* Without command line scripts and factories the turn is at one place only.
TurnInv ==
    launch.args = 0 /\ factories = 0 =>
        /\ prompts > 0 \/ prompting => Idle /\ waiting = 0
        /\ prompts > 0 => prompts = 1 /\ ~prompting
        /\ waiting > 0 => waiting = 1 /\ Idle
        /\ \A k \in DOMAIN output : output[k].op = "prompt" => ~script

ConsoleInv ==
    /\ OutputInv /\ MessagesInv /\ ReportInv /\ TurnInv
    /\ \A i \in DOMAIN pieces : pieces[i].op = "line" =>
          InColor(i, pieces[i].color) /\ (launch.tty => i <= flushed)
    /\ IdlePromptsUncolored /\ PlainPromptsIdle
    /\ stopped => Idle /\ waiting = 0
    /\ process = "aborted" => ~Pending
    /\ process = "exited" => output = <<>> /\ flushed = Len(pieces)
===============================================================================
