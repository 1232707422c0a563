---------------------------- MODULE WorkingDirectory ----------------------------
(***************************************************************************)
(* The working directory of the process, which both threads use.  Scripts  *)
(* move it with os.chdir and ask for it with os.getcwd on the backend      *)
(* thread (modules/cpp/os.cc), while the main thread resolves the paths of *)
(* the command line against it, one by one, as it posts the files          *)
(* (ZarunShell::Run, ReadFile), and the line editor loads and saves its    *)
(* history in it.                                                          *)
(*                                                                         *)
(* A path is a directory, or the number of an argument.  Others may remove *)
(* directories at any time.                                                *)
(***************************************************************************)
EXTENDS Integers, Sequences

CONSTANTS
    Mode,       \* "repl" or "batch"
    Dirs,       \* directories
    Launch,     \* the one the program is started in
    NoDir,      \* stands for no directory
    Args,       \* number of files on the command line
    FilesIn,    \* FilesIn[d]: the arguments that name a file in d
    Absolute,   \* the arguments that are absolute paths
    Typed,      \* bound: scripts typed at the prompt
    MaxCalls    \* bound: calls of os.chdir and os.getcwd in each script

ASSUME DirectoryAssumption ==
    /\ Mode \in {"repl", "batch"} /\ Launch \in Dirs /\ NoDir \notin Dirs
    /\ Args \in Nat /\ Typed \in Nat /\ MaxCalls \in Nat
    /\ FilesIn \in [Dirs -> SUBSET (1 .. Args)] /\ Absolute \subseteq 1 .. Args

Arguments == 1 .. Args

\* The scripts: those of the arguments, then the typed ones.
Scripts == 1 .. Args + Typed

VARIABLES
    cwd,        \* the directory of the process
    removed,    \* directories that are no longer there
    next,       \* the argument or typed script whose turn it is
    readIn,     \* history: the directory each argument was read in
    queue,      \* scripts posted to the backend thread
    script,     \* the one that runs, or 0
    calls,      \* calls it has made
    went,       \* history: the directories each script went to
    answer,     \* history: the last answer of os.getcwd and the script it went to
    history,    \* where the line editor loaded and saved
    process     \* "running", "unreadable", "exited"

vars == <<cwd, removed, next, readIn, queue, script, calls, went, answer, history, process>>

Undefined == "undefined"
Empty == ""

TypeOK ==
    /\ cwd \in Dirs /\ removed \subseteq Dirs
    /\ next \in 1 .. Args + Typed + 1 /\ readIn \in [Arguments -> Dirs \cup {NoDir}]
    /\ queue \in Seq(Scripts) /\ script \in 0 .. Args + Typed
    /\ calls \in 0 .. MaxCalls /\ went \in [Scripts -> SUBSET Dirs]
    /\ answer \in [path : Dirs \cup {Empty}, to : 0 .. Args + Typed]
    /\ history \in [loaded : Dirs \cup {NoDir}, saved : Dirs \cup {NoDir}]
    /\ process \in {"running", "unreadable", "exited"}

\* ZarunShell's constructor opens the line editor of a REPL.
Init ==
    /\ cwd = Launch /\ removed = {}
    /\ next = 1 /\ readIn = [a \in Arguments |-> NoDir]
    /\ queue = <<>> /\ script = 0 /\ calls = 0
    /\ went = [s \in Scripts |-> {}]
    /\ answer = [path |-> Empty, to |-> 0]
    /\ history = [loaded |-> IF Mode = "repl" THEN Launch ELSE NoDir, saved |-> NoDir]
    /\ process = "running"

Running == process = "running"

(***************************************************************************)
(* The main thread.                                                        *)
(***************************************************************************)
Readable(a) == a \in Absolute \/ (cwd \notin removed /\ a \in FilesIn[cwd])

\* Mutant: the first argument is read last.
ReadLastFirst ==
    /\ Running /\ next <= Args
    /\ readIn' = [readIn EXCEPT ![Args + 1 - next] = cwd]
    /\ queue' = Append(queue, Args + 1 - next) /\ next' = next + 1
    /\ UNCHANGED <<cwd, removed, script, calls, went, answer, history, process>>

\* RunScript of the next argument: ReadFile, then the post.
ReadArgument ==
    /\ Running /\ next <= Args
    /\ \/ /\ Readable(next)
          /\ readIn' = [readIn EXCEPT ![next] = cwd]
          /\ queue' = Append(queue, next) /\ next' = next + 1
          /\ UNCHANGED process
       \/ /\ ~Readable(next)
          /\ process' = "unreadable"
          /\ UNCHANGED <<readIn, queue, next>>
    /\ UNCHANGED <<cwd, removed, script, calls, went, answer, history>>

\* A line of the REPL is posted as it is.
TypeScript ==
    /\ Running /\ Mode = "repl" /\ next \in Args + 1 .. Args + Typed
    /\ queue' = Append(queue, next) /\ next' = next + 1
    /\ UNCHANGED <<cwd, removed, readIn, script, calls, went, answer, history, process>>

\* Mutant: the history is saved in a directory of its own.
ExitAnywhere ==
    /\ Running /\ next > Args /\ queue = <<>> /\ script = 0
    /\ process' = "exited"
    /\ \E d \in Dirs : history' = [history EXCEPT !.saved = d]
    /\ UNCHANGED <<cwd, removed, next, readIn, queue, script, calls, went, answer>>

\* The end of the program; ~ZarunShell closes the line editor.
Exit ==
    /\ Running /\ next > Args /\ queue = <<>> /\ script = 0
    /\ process' = "exited"
    /\ history' = IF Mode = "repl" /\ cwd \notin removed THEN [history EXCEPT !.saved = cwd] ELSE history
    /\ UNCHANGED <<cwd, removed, next, readIn, queue, script, calls, went, answer>>

(***************************************************************************)
(* The backend thread.                                                     *)
(***************************************************************************)
RunScript ==
    /\ Running /\ script = 0 /\ queue # <<>>
    /\ script' = Head(queue) /\ queue' = Tail(queue) /\ calls' = 0
    /\ UNCHANGED <<cwd, removed, next, readIn, went, answer, history, process>>

InScript == Running /\ script # 0

\* A call of a script, of which there are few.
Called == InScript /\ calls < MaxCalls /\ calls' = calls + 1

\* Wrong arguments, or a directory that is not there, answer false without a
\* step.
ChangeDirectory(d) ==
    /\ Called
    /\ d \notin removed
    /\ cwd' = d
    /\ went' = [went EXCEPT ![script] = @ \cup {d}]
    /\ UNCHANGED <<removed, next, readIn, queue, script, answer, history, process>>

Answers(path) ==
    /\ Called
    /\ answer' = [path |-> path, to |-> script]
    /\ UNCHANGED <<cwd, removed, next, readIn, queue, script, went, history, process>>

\* Mutant: the callback returns after it answered undefined.
GetCurrentDirectoryReturns == Answers(IF cwd \in removed THEN Undefined ELSE cwd)

\* The empty path replaces the undefined that was set for a lost directory.
GetCurrentWorkingDirectory == Answers(IF cwd \in removed THEN Empty ELSE cwd)

ScriptEnds ==
    /\ InScript
    /\ script' = 0
    /\ UNCHANGED <<cwd, removed, next, readIn, queue, calls, went, answer, history, process>>

\* Others remove a directory.
Removed(d) ==
    /\ Running /\ d \notin removed
    /\ removed' = removed \cup {d}
    /\ UNCHANGED <<cwd, next, readIn, queue, script, calls, went, answer, history, process>>

Next ==
    \/ ReadArgument \/ TypeScript \/ Exit \/ RunScript \/ ScriptEnds \/ GetCurrentWorkingDirectory
    \/ \E d \in Dirs : ChangeDirectory(d) \/ Removed(d)

Spec == Init /\ [][Next]_vars

-------------------------------------------------------------------------------
\* A file of the command line may be looked up in a directory it was not named
\* from, but only in one that the script of an earlier argument went to: the
\* first file is always the one the user named.
ReadsExplained ==
    \A a \in Arguments : readIn[a] \in {NoDir, Launch} \cup UNION {went[b] : b \in 1 .. a - 1}

\* The program dies of an unreadable file only if it cannot be read where the
\* user named it either, or an earlier script moved, or the directory is lost.
UnreadableExplained ==
    process = "unreadable" =>
        \/ next \notin FilesIn[Launch]
        \/ \E b \in 1 .. next - 1 : went[b] # {}
        \/ Launch \in removed

\* What the main thread finds where it looks for the files of the command line
\* is explained by what the scripts before did, and by nothing else.
FilesExplained == ReadsExplained /\ UnreadableExplained

\* os.getcwd tells a script a place to which the scripts up to it
\* have gone, as nothing else moves the process, or the empty path; it is
\* never undefined, which the callback sets on its way.
GetcwdExplained ==
    answer.path \in {Empty, Launch} \cup UNION {went[b] : b \in 1 .. answer.to}

\* The history is saved where it was loaded, so that the next session finds it,
\* or where a script of this one went; a batch saves none.
HistoryExplained ==
    /\ history.saved # NoDir => history.loaded # NoDir
    /\ history.saved \in {NoDir, history.loaded} \cup UNION {went[s] : s \in Scripts}

(***************************************************************************)
(* The inductive invariant.  Scripts start in the order of their numbers,  *)
(* so the process is where one of those that started left it.              *)
(***************************************************************************)
Started == next - 1 - Len(queue)

QueueInOrder ==
    /\ Started >= 0 /\ \A i \in 1 .. Len(queue) : queue[i] = Started + i
    /\ script \in {0, Started}
    /\ \A s \in Scripts : went[s] # {} => s <= Started

MovedByScripts == cwd \in {Launch} \cup UNION {went[s] : s \in 1 .. Started}

AskedByScripts == answer.to <= Started /\ GetcwdExplained

HistoryOpen ==
    /\ history.loaded = IF Mode = "repl" THEN Launch ELSE NoDir
    /\ Running => history.saved = NoDir

DirInv ==
    /\ QueueInOrder /\ MovedByScripts /\ AskedByScripts /\ HistoryOpen
    /\ ReadsExplained /\ UnreadableExplained /\ HistoryExplained
===============================================================================
