--------------------------- MODULE ZarunShell_proofs ---------------------------
(***************************************************************************)
(* The safety of ZarunShell for any sessions: any number of command line   *)
(* files, typed scripts and factories.                                     *)
(***************************************************************************)
EXTENDS ZarunShell, FiniteSetTheorems, FunctionTheorems, TLAPS

Tasks == {"Repl", "Terminated", "Quit"}

-------------------------------------------------------------------------------
(***************************************************************************)
(* Queues.                                                                 *)
(***************************************************************************)
\* Taking the head of a queue moves the others up.
LEMMA HeadTaken ==
    ASSUME NEW S, NEW q \in Seq(S), q # <<>>
    PROVE  /\ Tail(q) \in Seq(S) /\ Len(q) \in Nat \ {0} /\ Len(Tail(q)) = Len(q) - 1
           /\ Head(q) = q[1] /\ Head(q) \in S
           /\ \A i \in 1 .. Len(q) - 1 : Tail(q)[i] = q[i + 1]
  OBVIOUS

\* A task goes behind the others.
LEMMA TaskAdded ==
    ASSUME NEW S, NEW q \in Seq(S), NEW e \in S
    PROVE  /\ Append(q, e) \in Seq(S) /\ Len(q) \in Nat /\ Len(Append(q, e)) = Len(q) + 1
           /\ Append(q, e)[Len(q) + 1] = e
           /\ \A i \in 1 .. Len(q) : Append(q, e)[i] = q[i]
  OBVIOUS

\* The script that runs is the last of those that ran.
LEMMA LastRan ==
    ASSUME NEW S, NEW q \in Seq(S), q # <<>>
    PROVE  Last(q) = q[Len(q)] /\ Last(q) \in S
  BY DEF Last

\* A queue of no tasks is the empty one.
LEMMA NoTask ==
    ASSUME NEW S, NEW q \in Seq(S), Len(q) = 0
    PROVE  q = <<>>
<1> SUFFICES ASSUME q # <<>> PROVE FALSE
  OBVIOUS
<1> QED
  BY HeadTaken

\* What is in a queue that a task was added to, and in one it was taken from.
LEMMA TasksIn ==
    ASSUME NEW S, NEW q \in Seq(S)
    PROVE  /\ ToSet(<<>>) = {}
           /\ \A e \in S : ToSet(Append(q, e)) = ToSet(q) \cup {e}
           /\ q # <<>> => /\ Head(q) \in ToSet(q)
                          /\ ToSet(Tail(q)) \subseteq ToSet(q)
<1>1. ToSet(<<>>) = {}
  BY DEF ToSet
<1>2. ASSUME NEW e \in S PROVE ToSet(Append(q, e)) = ToSet(q) \cup {e}
  <2>1. DOMAIN Append(q, e) = 1 .. Len(q) + 1 /\ DOMAIN q = 1 .. Len(q)
    OBVIOUS
  <2>2. ToSet(q) \subseteq ToSet(Append(q, e)) /\ e \in ToSet(Append(q, e))
    BY <2>1, TaskAdded DEF ToSet
  <2>3. ASSUME NEW x \in ToSet(Append(q, e)) PROVE x \in ToSet(q) \cup {e}
    <3>1. PICK i \in 1 .. Len(q) + 1 : x = Append(q, e)[i]
      BY <2>1 DEF ToSet
    <3>2. CASE i = Len(q) + 1
      BY <3>1, <3>2, TaskAdded
    <3>3. CASE i \in 1 .. Len(q)
      BY <2>1, <3>1, <3>3, TaskAdded DEF ToSet
    <3> QED
      BY <3>2, <3>3, TaskAdded
  <2> QED
    BY <2>2, <2>3
<1>3. ASSUME q # <<>> PROVE Head(q) \in ToSet(q) /\ ToSet(Tail(q)) \subseteq ToSet(q)
  <2>1. DOMAIN q = 1 .. Len(q) /\ DOMAIN Tail(q) = 1 .. Len(q) - 1 /\ Len(q) \in Nat \ {0}
    BY <1>3
  <2>2. \A i \in 1 .. Len(q) - 1 : Tail(q)[i] = q[i + 1] /\ i + 1 \in 1 .. Len(q)
    BY <1>3
  <2>3. 1 \in 1 .. Len(q) /\ Head(q) = q[1]
    BY <1>3, <2>1
  <2> QED
    BY <2>1, <2>2, <2>3 DEF ToSet
<1> QED
  BY <1>1, <1>2, <1>3

\* The backend's queue holds scripts in order, and the quit task comes last.
LEMMA NextTask ==
    ASSUME TypeOK, QueueInOrder, backendQueue # <<>>, backend \notin {"cleanup", "ended"}
    PROVE  /\ Waiting \in Nat
           /\ Head(backendQueue) = QuitTask =>
                 main = "joining" /\ Waiting = 0 /\ Tail(backendQueue) = <<>>
           /\ Head(backendQueue) # QuitTask => Waiting > 0 /\ Head(backendQueue) = Len(ran) + 1
<1>1. Waiting \in Nat /\ Len(ran) \in Nat
  BY DEF TypeOK, QueueInOrder, Waiting
<1>2. Head(backendQueue) = backendQueue[1] /\ Len(backendQueue) \in Nat \ {0}
  BY DEF TypeOK
<1>3. CASE Waiting = 0
  <2>1. main = "joining" /\ Len(backendQueue) = 1 /\ backendQueue[1] = QuitTask
    BY <1>1, <1>2, <1>3 DEF QueueInOrder
  <2>2. Tail(backendQueue) \in Seq(Nat) /\ Len(Tail(backendQueue)) = 0
    BY <2>1, HeadTaken DEF TypeOK
  <2>3. Tail(backendQueue) = <<>>
    BY <2>2, NoTask
  <2> QED
    BY <1>1, <1>2, <1>3, <2>1, <2>3
<1>4. CASE Waiting > 0
  <2>1. 1 \in 1 .. Waiting
    BY <1>1, <1>4
  <2>2. backendQueue[1] = Len(ran) + 1
    BY <1>1, <2>1 DEF QueueInOrder
  <2> QED
    BY <1>1, <1>2, <1>4, <2>2 DEF QuitTask
<1> QED
  BY <1>1, <1>3, <1>4

-------------------------------------------------------------------------------
(***************************************************************************)
(* Types.                                                                  *)
(***************************************************************************)
\* The session that was chosen has its types.
LEMMA SessionType ==
    ASSUME TypeOK
    PROVE  /\ Args \in Nat /\ MaxTyped \in Nat /\ MaxFactories \in Nat
           /\ Mode \in {"repl", "batch"} /\ (Args = 0 => Mode = "repl")
  BY ShellAssumption DEF TypeOK, SessionKinds, Args, MaxTyped, MaxFactories, Mode

LEMMA PostedType ==
    ASSUME TypeOK, PostScript
    PROVE  posted' \in Nat /\ backendQueue' \in Seq(Nat) /\ dropped' \subseteq Nat
<1>1. posted + 1 \in Nat /\ Append(backendQueue, posted + 1) \in Seq(Nat)
  BY DEF TypeOK
<1> QED
  BY <1>1 DEF PostScript, TypeOK

LEMMA CrashType ==
    ASSUME TypeOK, NEW why \in Causes, Crash(why), UNCHANGED session
    PROVE  TypeOK'
  BY DEF TypeOK, Crash, shellVars, backendVars

LEMMA PrintType ==
    ASSUME TypeOK, NEW n \in Nat, PrintResult(n)
    PROVE  printed' \in Seq(Nat) /\ mainQueue' \in Seq(Tasks)
  BY DEF TypeOK, PrintResult, PostToMain, Tasks

\* The types hold in every state.  That the script that ends is one that ran is
\* the part of QueueInOrder they need.
LEMMA TypeInit == Init => TypeOK
<1> SUFFICES ASSUME Init PROVE TypeOK
  OBVIOUS
<1>1. thread \in BOOLEAN
  BY Zenon DEF Init
<1>2. Args \in Nat
  BY ShellAssumption DEF Init, SessionKinds, Args
<1> QED
  BY <1>1, <1>2 DEF Init, TypeOK, Causes

LEMMA TypeStep == TypeOK /\ QueueInOrder /\ [Next]_vars => TypeOK'
<1> SUFFICES ASSUME TypeOK, QueueInOrder, [Next]_vars PROVE TypeOK'
  OBVIOUS
<1>0. CASE UNCHANGED vars
  BY <1>0 DEF vars, shellVars, backendVars, TypeOK
<1>1. ASSUME Start, UNCHANGED session PROVE TypeOK'
  BY <1>1 DEF Start, TypeOK, Causes, shellVars, backendVars
<1>2. ASSUME PostArgument, UNCHANGED session PROVE TypeOK'
  <2>1. argsLeft - 1 \in Nat
    BY <1>2 DEF PostArgument, TypeOK
  <2> QED
    BY <1>2, <2>1, PostedType, CrashType DEF PostArgument, TypeOK, Causes, backendVars
<1>3. ASSUME EnterLoop, UNCHANGED session PROVE TypeOK'
  <2>1. Append(mainQueue, "Repl") \in Seq(Tasks) /\ Append(backendQueue, 0) \in Seq(Nat)
    BY DEF TypeOK, Tasks
  <2> QED
    BY <1>3, <2>1 DEF EnterLoop, PostToMain, BeginStop, QuitTask, TypeOK, Tasks, backendVars
<1>4. ASSUME Joined, UNCHANGED session PROVE TypeOK'
  <2>1. thread' \in BOOLEAN
    BY <1>4, Zenon DEF Joined
  <2> QED
    BY <1>4, <2>1 DEF Joined, PostToMain, TypeOK, Causes, backendVars
<1>5. ASSUME DispatchRepl, UNCHANGED session PROVE TypeOK'
  BY <1>5 DEF DispatchRepl, Dispatch, TypeOK, Causes, shellVars, backendVars
<1>6. ASSUME DispatchTerminated, UNCHANGED session PROVE TypeOK'
  BY <1>6 DEF DispatchTerminated, Dispatch, TypeOK, Causes, shellVars, backendVars
<1>7. ASSUME DispatchQuit, UNCHANGED session PROVE TypeOK'
  BY <1>7 DEF DispatchQuit, Dispatch, TypeOK, Causes, shellVars, backendVars
<1>8. ASSUME Leave, UNCHANGED session PROVE TypeOK'
  BY <1>8 DEF Leave, TypeOK, Causes, shellVars, backendVars
<1>9. ASSUME TypeScript, UNCHANGED session PROVE TypeOK'
  BY <1>9, PostedType DEF TypeScript, TypeOK, backendVars
<1>10. ASSUME TypeQ, UNCHANGED session PROVE TypeOK'
  BY <1>10 DEF TypeQ, BeginStop, QuitTask, TypeOK, Causes, shellVars, backendVars
<1>11. ASSUME TypeQAgain, UNCHANGED session PROVE TypeOK'
  BY <1>11 DEF TypeQAgain, Crash, TypeOK, Causes, shellVars, backendVars
<1>12. ASSUME EndOfInput, UNCHANGED session PROVE TypeOK'
  BY <1>12 DEF EndOfInput, Crash, TypeOK, Causes, shellVars, backendVars
<1>13. ASSUME InitBackend, UNCHANGED session PROVE TypeOK'
  BY <1>13 DEF InitBackend, Crash, TypeOK, Causes, shellVars, backendVars
<1>14. ASSUME RunScript, UNCHANGED session PROVE TypeOK'
  BY <1>14 DEF RunScript, TypeOK, Causes, shellVars, backendVars
<1>15. ASSUME RunFactory, UNCHANGED session PROVE TypeOK'
  <2>1. ASSUME factories' = factories + 1, PrintResult(result),
               UNCHANGED <<shellVars, backend, env, result, ran, backendQueue,
                           v8, posted, dropped, cause>>
        PROVE  TypeOK'
    <3>1. factories' \in Nat /\ result \in Nat
      BY <2>1 DEF TypeOK
    <3> QED
      BY <1>15, <2>1, <3>1, PrintType DEF TypeOK, shellVars, Tasks
  <2> QED
    BY <1>15, <2>1, CrashType DEF RunFactory, Causes
<1>16. ASSUME EndReplScript, UNCHANGED session PROVE TypeOK'
  <2>1. Last(ran) \in Nat
    BY <1>16, LastRan DEF EndReplScript, QueueInOrder, TypeOK
  <2> QED
    BY <1>16, <2>1, PrintType, CrashType DEF EndReplScript, TypeOK, Causes, shellVars, Tasks
<1>17. ASSUME EndBatchScript, UNCHANGED session PROVE TypeOK'
  BY <1>17 DEF EndBatchScript, Crash, TypeOK, Causes, shellVars, backendVars
<1>18. ASSUME QuitBackend, UNCHANGED session PROVE TypeOK'
  BY <1>18 DEF QuitBackend, TypeOK, Causes, shellVars, backendVars
<1>19. ASSUME CleanUp, UNCHANGED session PROVE TypeOK'
  BY <1>19 DEF CleanUp, TypeOK, Causes, shellVars, backendVars
<1> QED
  BY <1>0, <1>1, <1>2, <1>3, <1>4, <1>5, <1>6, <1>7, <1>8, <1>9, <1>10, <1>11, <1>12,
     <1>13, <1>14, <1>15, <1>16, <1>17, <1>18, <1>19
     DEF Next, Shell, User, Backend, Ended

\* What the queue of the main thread holds after a post and after a task.
LEMMA TaskPosted ==
    ASSUME TypeOK, NEW task \in Tasks, PostToMain(task)
    PROVE  ToSet(mainQueue') = ToSet(mainQueue) \cup {task}
<1>1. mainQueue \in Seq(Tasks)
  BY DEF TypeOK, Tasks
<1> QED
  BY <1>1, TasksIn DEF PostToMain

LEMMA TaskServed ==
    ASSUME TypeOK, NEW task \in Tasks, Dispatch(task)
    PROVE  /\ task \in ToSet(mainQueue) /\ Tail(mainQueue) \in Seq(Tasks)
           /\ ToSet(Tail(mainQueue)) \subseteq ToSet(mainQueue)
           /\ ToSet(Append(Tail(mainQueue), "Quit")) \subseteq ToSet(mainQueue) \cup {"Quit"}
<1>1. mainQueue \in Seq(Tasks) /\ mainQueue # <<>> /\ Head(mainQueue) = task
  BY DEF TypeOK, Tasks, Dispatch
<1>2. Tail(mainQueue) \in Seq(Tasks) /\ "Quit" \in Tasks
  BY <1>1, HeadTaken DEF Tasks
<1>3. ToSet(Append(Tail(mainQueue), "Quit")) = ToSet(Tail(mainQueue)) \cup {"Quit"}
  BY <1>2, TasksIn
<1>4. task \in ToSet(mainQueue) /\ ToSet(Tail(mainQueue)) \subseteq ToSet(mainQueue)
  BY <1>1, TasksIn
<1> QED
  BY <1>2, <1>3, <1>4

-------------------------------------------------------------------------------
(***************************************************************************)
(* The two threads.                                                        *)
(***************************************************************************)
\* Each step takes both threads along: the quit task is served by a backend that
\* is being joined, and the closure that ends the loop by a shell that joined it.
LEMMA ThreadsStep ==
    TypeOK /\ QueueInOrder /\ ThreadsInStep /\ PromptsFirst /\ [Next]_vars
        => ThreadsInStep'
<1> SUFFICES ASSUME TypeOK, QueueInOrder, ThreadsInStep, PromptsFirst, [Next]_vars
             PROVE ThreadsInStep'
  OBVIOUS
<1>0. CASE UNCHANGED vars
  BY <1>0 DEF vars, shellVars, backendVars, ThreadsInStep, TypeOK
<1>1. ASSUME Start, UNCHANGED session PROVE ThreadsInStep'
  BY <1>1 DEF Start, ThreadsInStep, TypeOK, shellVars, backendVars
<1>2. ASSUME PostArgument, UNCHANGED session PROVE ThreadsInStep'
  BY <1>2 DEF PostArgument, PostScript, Crash, ThreadsInStep, TypeOK, shellVars, backendVars
<1>3. ASSUME EnterLoop, UNCHANGED session PROVE ThreadsInStep'
  BY <1>3
     DEF EnterLoop, PostToMain, BeginStop, QuitTask, ThreadsInStep, TypeOK, shellVars,
         backendVars
<1>4. ASSUME Joined, UNCHANGED session PROVE ThreadsInStep'
  BY <1>4 DEF Joined, PostToMain, ThreadsInStep, TypeOK, shellVars, backendVars
<1>5. ASSUME DispatchRepl, UNCHANGED session PROVE ThreadsInStep'
  BY <1>5 DEF DispatchRepl, Dispatch, ThreadsInStep, TypeOK, shellVars, backendVars
<1>6. ASSUME DispatchTerminated, UNCHANGED session PROVE ThreadsInStep'
  BY <1>6 DEF DispatchTerminated, Dispatch, ThreadsInStep, TypeOK, shellVars, backendVars
<1>7. ASSUME DispatchQuit, UNCHANGED session PROVE ThreadsInStep'
  <2>1. main # "starting" /\ ~thread
    BY <1>7, TasksIn DEF DispatchQuit, Dispatch, PromptsFirst, TypeOK
  <2> QED
    BY <1>7, <2>1 DEF DispatchQuit, Dispatch, ThreadsInStep, TypeOK, backendVars
<1>8. ASSUME Leave, UNCHANGED session PROVE ThreadsInStep'
  BY <1>8 DEF Leave, ThreadsInStep, TypeOK, shellVars, backendVars
<1>9. ASSUME TypeScript, UNCHANGED session PROVE ThreadsInStep'
  BY <1>9 DEF TypeScript, PostScript, ThreadsInStep, TypeOK, shellVars, backendVars
<1>10. ASSUME TypeQ, UNCHANGED session PROVE ThreadsInStep'
  BY <1>10 DEF TypeQ, BeginStop, QuitTask, ThreadsInStep, TypeOK, shellVars, backendVars
<1>11. ASSUME TypeQAgain, UNCHANGED session PROVE ThreadsInStep'
  BY <1>11 DEF TypeQAgain, Crash, ThreadsInStep, TypeOK, shellVars, backendVars
<1>12. ASSUME EndOfInput, UNCHANGED session PROVE ThreadsInStep'
  BY <1>12 DEF EndOfInput, Crash, ThreadsInStep, TypeOK, shellVars, backendVars
<1>13. ASSUME InitBackend, UNCHANGED session PROVE ThreadsInStep'
  BY <1>13 DEF InitBackend, Crash, ThreadsInStep, TypeOK, shellVars, backendVars
<1>14. ASSUME RunScript, UNCHANGED session PROVE ThreadsInStep'
  BY <1>14 DEF RunScript, ThreadsInStep, TypeOK, shellVars, backendVars
<1>15. ASSUME RunFactory, UNCHANGED session PROVE ThreadsInStep'
  BY <1>15
     DEF RunFactory, Crash, PrintResult, PostToMain, ThreadsInStep, TypeOK, shellVars,
         backendVars
<1>16. ASSUME EndReplScript, UNCHANGED session PROVE ThreadsInStep'
  BY <1>16
     DEF EndReplScript, Crash, PrintResult, PostToMain, ThreadsInStep, TypeOK,
         shellVars, backendVars
<1>17. ASSUME EndBatchScript, UNCHANGED session PROVE ThreadsInStep'
  BY <1>17 DEF EndBatchScript, Crash, ThreadsInStep, TypeOK, shellVars, backendVars
<1>18. ASSUME QuitBackend, UNCHANGED session PROVE ThreadsInStep'
  <2>1. main = "joining"
    BY <1>18, NextTask DEF QuitBackend
  <2> QED
    BY <1>18, <2>1 DEF QuitBackend, ThreadsInStep, TypeOK, shellVars
<1>19. ASSUME CleanUp, UNCHANGED session PROVE ThreadsInStep'
  BY <1>19 DEF CleanUp, ThreadsInStep, TypeOK, shellVars, backendVars
<1> QED
  BY <1>0, <1>1, <1>2, <1>3, <1>4, <1>5, <1>6, <1>7, <1>8, <1>9, <1>10, <1>11, <1>12,
     <1>13, <1>14, <1>15, <1>16, <1>17, <1>18, <1>19
     DEF Next, Shell, User, Backend, Ended

\* Only the join posts something else than prompts.
LEMMA PromptsStep == TypeOK /\ ThreadsInStep /\ PromptsFirst /\ [Next]_vars => PromptsFirst'
<1> SUFFICES ASSUME TypeOK, ThreadsInStep, PromptsFirst, [Next]_vars PROVE PromptsFirst'
  OBVIOUS
<1>0. CASE UNCHANGED vars
  BY <1>0 DEF vars, shellVars, backendVars, PromptsFirst, ThreadsInStep
<1>1. ASSUME Start, UNCHANGED session PROVE PromptsFirst'
  BY <1>1 DEF Start, PromptsFirst, ThreadsInStep, shellVars, backendVars
<1>2. ASSUME PostArgument, UNCHANGED session PROVE PromptsFirst'
  BY <1>2
     DEF PostArgument, PostScript, Crash, PromptsFirst, ThreadsInStep, shellVars,
         backendVars
<1>3. ASSUME EnterLoop, UNCHANGED session PROVE PromptsFirst'
  <2>1. PostToMain("Repl") => ToSet(mainQueue') = ToSet(mainQueue) \cup {"Repl"}
    BY TaskPosted DEF Tasks
  <2> QED
    BY <1>3, <2>1 DEF EnterLoop, BeginStop, PromptsFirst, ThreadsInStep, backendVars
<1>4. ASSUME Joined, UNCHANGED session PROVE PromptsFirst'
  <2>1. ToSet(mainQueue') = ToSet(mainQueue) \cup {"Terminated"}
    BY <1>4, TaskPosted DEF Joined, Tasks
  <2> QED
    BY <1>4, <2>1 DEF Joined, PromptsFirst, ThreadsInStep, backendVars
<1>5. ASSUME DispatchRepl, UNCHANGED session PROVE PromptsFirst'
  <2>1. "Repl" \in ToSet(mainQueue) /\ ToSet(mainQueue') \subseteq ToSet(mainQueue)
    BY <1>5, TaskServed DEF DispatchRepl, Tasks
  <2> QED
    BY <1>5, <2>1 DEF DispatchRepl, Dispatch, PromptsFirst, ThreadsInStep, backendVars
<1>6. ASSUME DispatchTerminated, UNCHANGED session PROVE PromptsFirst'
  <2>1. /\ "Terminated" \in ToSet(mainQueue)
        /\ ToSet(mainQueue') \subseteq ToSet(mainQueue) \cup {"Quit"}
    BY <1>6, TaskServed DEF DispatchTerminated, Tasks
  <2> QED
    BY <1>6, <2>1 DEF DispatchTerminated, Dispatch, PromptsFirst, ThreadsInStep, backendVars
<1>7. ASSUME DispatchQuit, UNCHANGED session PROVE PromptsFirst'
  <2>1. "Quit" \in ToSet(mainQueue) /\ ToSet(mainQueue') = {}
    BY <1>7, TaskServed, TasksIn DEF DispatchQuit, Tasks
  <2> QED
    BY <1>7, <2>1 DEF DispatchQuit, Dispatch, PromptsFirst, ThreadsInStep, backendVars
<1>8. ASSUME Leave, UNCHANGED session PROVE PromptsFirst'
  BY <1>8 DEF Leave, PromptsFirst, ThreadsInStep, shellVars, backendVars
<1>9. ASSUME TypeScript, UNCHANGED session PROVE PromptsFirst'
  BY <1>9 DEF TypeScript, PostScript, PromptsFirst, ThreadsInStep, shellVars, backendVars
<1>10. ASSUME TypeQ, UNCHANGED session PROVE PromptsFirst'
  BY <1>10 DEF TypeQ, BeginStop, QuitTask, PromptsFirst, ThreadsInStep, shellVars, backendVars
<1>11. ASSUME TypeQAgain, UNCHANGED session PROVE PromptsFirst'
  BY <1>11 DEF TypeQAgain, Crash, PromptsFirst, ThreadsInStep, shellVars, backendVars
<1>12. ASSUME EndOfInput, UNCHANGED session PROVE PromptsFirst'
  BY <1>12 DEF EndOfInput, Crash, PromptsFirst, ThreadsInStep, shellVars, backendVars
<1>13. ASSUME InitBackend, UNCHANGED session PROVE PromptsFirst'
  BY <1>13 DEF InitBackend, Crash, PromptsFirst, ThreadsInStep, shellVars, backendVars
<1>14. ASSUME RunScript, UNCHANGED session PROVE PromptsFirst'
  BY <1>14 DEF RunScript, PromptsFirst, ThreadsInStep, shellVars, backendVars
<1>15. ASSUME RunFactory, UNCHANGED session PROVE PromptsFirst'
  <2>1. PostToMain("Repl") => ToSet(mainQueue') = ToSet(mainQueue) \cup {"Repl"}
    BY TaskPosted DEF Tasks
  <2> QED
    BY <1>15, <2>1
       DEF RunFactory, Crash, PrintResult, PromptsFirst, ThreadsInStep, shellVars,
           backendVars
<1>16. ASSUME EndReplScript, UNCHANGED session PROVE PromptsFirst'
  <2>1. PostToMain("Repl") => ToSet(mainQueue') = ToSet(mainQueue) \cup {"Repl"}
    BY TaskPosted DEF Tasks
  <2> QED
    BY <1>16, <2>1
       DEF EndReplScript, Crash, PrintResult, PromptsFirst, ThreadsInStep, shellVars,
           backendVars
<1>17. ASSUME EndBatchScript, UNCHANGED session PROVE PromptsFirst'
  BY <1>17 DEF EndBatchScript, Crash, PromptsFirst, ThreadsInStep, shellVars, backendVars
<1>18. ASSUME QuitBackend, UNCHANGED session PROVE PromptsFirst'
  BY <1>18 DEF QuitBackend, PromptsFirst, ThreadsInStep, shellVars, backendVars
<1>19. ASSUME CleanUp, UNCHANGED session PROVE PromptsFirst'
  BY <1>19 DEF CleanUp, PromptsFirst, ThreadsInStep, shellVars, backendVars
<1> QED
  BY <1>0, <1>1, <1>2, <1>3, <1>4, <1>5, <1>6, <1>7, <1>8, <1>9, <1>10, <1>11, <1>12,
     <1>13, <1>14, <1>15, <1>16, <1>17, <1>18, <1>19
     DEF Next, Shell, User, Backend, Ended

\* In batch mode nothing prompts, so nothing is posted after the files.
LEMMA ArgumentsStep == TypeOK /\ ThreadsInStep /\ ArgumentsFirst /\ [Next]_vars => ArgumentsFirst'
<1> SUFFICES ASSUME TypeOK, ThreadsInStep, ArgumentsFirst, [Next]_vars PROVE ArgumentsFirst'
  OBVIOUS
<1>0. CASE UNCHANGED vars
  BY <1>0 DEF vars, shellVars, backendVars, ArgumentsFirst, ThreadsInStep, Args, Mode, TypeOK
<1>1. ASSUME Start, UNCHANGED session PROVE ArgumentsFirst'
  BY <1>1 DEF Start, ArgumentsFirst, ThreadsInStep, Args, Mode, TypeOK, shellVars, backendVars
<1>2. ASSUME PostArgument, UNCHANGED session PROVE ArgumentsFirst'
  BY <1>2
     DEF PostArgument, PostScript, Crash, ArgumentsFirst, ThreadsInStep, Args, Mode,
         TypeOK, shellVars, backendVars
<1>3. ASSUME EnterLoop, UNCHANGED session PROVE ArgumentsFirst'
  <2>1. PostToMain("Repl") => ToSet(mainQueue') = ToSet(mainQueue) \cup {"Repl"}
    BY TaskPosted DEF Tasks
  <2> QED
    BY <1>3, <2>1
       DEF EnterLoop, BeginStop, ArgumentsFirst, ThreadsInStep, Args, Mode, TypeOK,
           backendVars
<1>4. ASSUME Joined, UNCHANGED session PROVE ArgumentsFirst'
  <2>1. ToSet(mainQueue') = ToSet(mainQueue) \cup {"Terminated"}
    BY <1>4, TaskPosted DEF Joined, Tasks
  <2> QED
    BY <1>4, <2>1 DEF Joined, ArgumentsFirst, ThreadsInStep, Args, Mode, TypeOK, backendVars
<1>5. ASSUME DispatchRepl, UNCHANGED session PROVE ArgumentsFirst'
  <2>1. "Repl" \in ToSet(mainQueue) /\ ToSet(mainQueue') \subseteq ToSet(mainQueue)
    BY <1>5, TaskServed DEF DispatchRepl, Tasks
  <2> QED
    BY <1>5, <2>1
       DEF DispatchRepl, Dispatch, ArgumentsFirst, ThreadsInStep, Args, Mode, TypeOK,
           backendVars
<1>6. ASSUME DispatchTerminated, UNCHANGED session PROVE ArgumentsFirst'
  <2>1. /\ "Terminated" \in ToSet(mainQueue)
        /\ ToSet(mainQueue') \subseteq ToSet(mainQueue) \cup {"Quit"}
    BY <1>6, TaskServed DEF DispatchTerminated, Tasks
  <2> QED
    BY <1>6, <2>1
       DEF DispatchTerminated, Dispatch, ArgumentsFirst, ThreadsInStep, Args, Mode,
           TypeOK, backendVars
<1>7. ASSUME DispatchQuit, UNCHANGED session PROVE ArgumentsFirst'
  <2>1. "Quit" \in ToSet(mainQueue) /\ ToSet(mainQueue') = {}
    BY <1>7, TaskServed, TasksIn DEF DispatchQuit, Tasks
  <2> QED
    BY <1>7, <2>1
       DEF DispatchQuit, Dispatch, ArgumentsFirst, ThreadsInStep, Args, Mode, TypeOK,
           backendVars
<1>8. ASSUME Leave, UNCHANGED session PROVE ArgumentsFirst'
  BY <1>8 DEF Leave, ArgumentsFirst, ThreadsInStep, Args, Mode, TypeOK, shellVars, backendVars
<1>9. ASSUME TypeScript, UNCHANGED session PROVE ArgumentsFirst'
  BY <1>9
     DEF TypeScript, PostScript, ArgumentsFirst, ThreadsInStep, Args, Mode, TypeOK,
         shellVars, backendVars
<1>10. ASSUME TypeQ, UNCHANGED session PROVE ArgumentsFirst'
  BY <1>10
     DEF TypeQ, BeginStop, QuitTask, ArgumentsFirst, ThreadsInStep, Args, Mode, TypeOK,
         shellVars, backendVars
<1>11. ASSUME TypeQAgain, UNCHANGED session PROVE ArgumentsFirst'
  BY <1>11
     DEF TypeQAgain, Crash, ArgumentsFirst, ThreadsInStep, Args, Mode, TypeOK,
         shellVars, backendVars
<1>12. ASSUME EndOfInput, UNCHANGED session PROVE ArgumentsFirst'
  BY <1>12
     DEF EndOfInput, Crash, ArgumentsFirst, ThreadsInStep, Args, Mode, TypeOK,
         shellVars, backendVars
<1>13. ASSUME InitBackend, UNCHANGED session PROVE ArgumentsFirst'
  BY <1>13
     DEF InitBackend, Crash, ArgumentsFirst, ThreadsInStep, Args, Mode, TypeOK,
         shellVars, backendVars
<1>14. ASSUME RunScript, UNCHANGED session PROVE ArgumentsFirst'
  BY <1>14
     DEF RunScript, ArgumentsFirst, ThreadsInStep, Args, Mode, TypeOK, shellVars,
         backendVars
<1>15. ASSUME RunFactory, UNCHANGED session PROVE ArgumentsFirst'
  <2>1. PostToMain("Repl") => ToSet(mainQueue') = ToSet(mainQueue) \cup {"Repl"}
    BY TaskPosted DEF Tasks
  <2> QED
    BY <1>15, <2>1
       DEF RunFactory, Crash, PrintResult, ArgumentsFirst, ThreadsInStep, Args, Mode,
           TypeOK, shellVars, backendVars
<1>16. ASSUME EndReplScript, UNCHANGED session PROVE ArgumentsFirst'
  <2>1. PostToMain("Repl") => ToSet(mainQueue') = ToSet(mainQueue) \cup {"Repl"}
    BY TaskPosted DEF Tasks
  <2> QED
    BY <1>16, <2>1
       DEF EndReplScript, Crash, PrintResult, ArgumentsFirst, ThreadsInStep, Args,
           Mode, TypeOK, shellVars, backendVars
<1>17. ASSUME EndBatchScript, UNCHANGED session PROVE ArgumentsFirst'
  BY <1>17
     DEF EndBatchScript, Crash, ArgumentsFirst, ThreadsInStep, Args, Mode, TypeOK,
         shellVars, backendVars
<1>18. ASSUME QuitBackend, UNCHANGED session PROVE ArgumentsFirst'
  BY <1>18
     DEF QuitBackend, ArgumentsFirst, ThreadsInStep, Args, Mode, TypeOK, shellVars,
         backendVars
<1>19. ASSUME CleanUp, UNCHANGED session PROVE ArgumentsFirst'
  BY <1>19
     DEF CleanUp, ArgumentsFirst, ThreadsInStep, Args, Mode, TypeOK, shellVars,
         backendVars
<1> QED
  BY <1>0, <1>1, <1>2, <1>3, <1>4, <1>5, <1>6, <1>7, <1>8, <1>9, <1>10, <1>11, <1>12,
     <1>13, <1>14, <1>15, <1>16, <1>17, <1>18, <1>19
     DEF Next, Shell, User, Backend, Ended

-------------------------------------------------------------------------------
(***************************************************************************)
(* What the backend was given.                                             *)
(***************************************************************************)
\* Steps that neither post nor serve.
LEMMA QueueKept ==
    ASSUME QueueInOrder, UNCHANGED <<ran, backendQueue, posted, dropped>>,
           (main' = "joining" <=> main = "joining") \/ backend' = "ended",
           \/ backend' = backend
           \/ backend \notin {"cleanup", "ended"} /\ backend' \notin {"script", "cleanup", "ended"}
    PROVE  QueueInOrder'
<1>1. Waiting' = Waiting
  BY DEF Waiting
<1> QED
  BY <1>1 DEF QueueInOrder

\* A script is posted.
LEMMA ScriptPosted ==
    ASSUME TypeOK, QueueInOrder, PostScript, UNCHANGED <<ran, backend>>,
           main # "joining", main' # "joining", backend # "cleanup"
    PROVE  QueueInOrder'
<1>1. posted \in Nat /\ Len(ran) \in Nat /\ Len(ran) <= posted /\ posted' = posted + 1
  BY DEF TypeOK, QueueInOrder, PostScript
<1>2. Waiting' = Waiting + 1 /\ Waiting \in Nat /\ Waiting = posted - Len(ran)
  BY <1>1 DEF Waiting
<1>3. CASE backend = "ended"
  <2>1. (Len(ran) + 1 .. posted) \cup {posted + 1} = Len(ran) + 1 .. posted + 1
    BY <1>1
  <2>2. dropped' = Len(ran) + 1 .. posted'
    BY <1>1, <1>3, <2>1 DEF QueueInOrder, PostScript
  <2> QED
    BY <1>1, <1>3, <2>2 DEF QueueInOrder, PostScript
<1>4. CASE backend # "ended"
  <2> DEFINE q == backendQueue
  <2>1. q \in Seq(Nat) /\ posted + 1 \in Nat /\ q' = Append(q, posted + 1)
    BY <1>1, <1>4 DEF TypeOK, PostScript
  <2>2. Len(q) = Waiting /\ \A i \in 1 .. Waiting : q[i] = Len(ran) + i
    BY <1>2, <1>4 DEF QueueInOrder
  <2>3. \A i \in 1 .. Waiting' : q'[i] = Len(ran) + i
    <3>1. q'[Waiting + 1] = posted + 1 /\ \A i \in 1 .. Waiting : q'[i] = q[i]
      BY <2>1, <2>2, TaskAdded
    <3> HIDE DEF q
    <3>2. \A i \in 1 .. Waiting + 1 : i \in 1 .. Waiting \/ i = Waiting + 1
      BY <1>2
    <3>3. posted + 1 = Len(ran) + (Waiting + 1)
      BY <1>1, <1>2
    <3> QED
      BY <1>2, <2>2, <3>1, <3>2, <3>3
  <2>4. Len(q') = Waiting'
    BY <1>2, <2>1, <2>2, TaskAdded
  <2> QED
    BY <1>1, <1>4, <2>3, <2>4 DEF QueueInOrder, PostScript
<1> QED
  BY <1>3, <1>4

\* The quit task is posted, before the thread has ended.
LEMMA StopPosted ==
    ASSUME TypeOK, QueueInOrder, BeginStop, UNCHANGED <<ran, backend, posted, dropped>>,
           main # "joining", backend \notin {"cleanup", "ended"}
    PROVE  QueueInOrder'
<1> DEFINE q == backendQueue
<1>1. Waiting' = Waiting /\ Waiting \in Nat
  BY DEF Waiting, QueueInOrder, TypeOK
<1>2. q \in Seq(Nat) /\ QuitTask \in Nat /\ q' = Append(q, QuitTask) /\ main' = "joining"
  BY DEF TypeOK, BeginStop, QuitTask
<1>3. Len(q) = Waiting /\ \A i \in 1 .. Waiting : q[i] = Len(ran) + i
  BY <1>1 DEF QueueInOrder
<1>4. Len(q') = Waiting + 1 /\ q'[Waiting + 1] = QuitTask /\ \A i \in 1 .. Waiting : q'[i] = q[i]
  BY <1>2, <1>3, TaskAdded
<1> QED
  BY <1>1, <1>2, <1>3, <1>4 DEF QueueInOrder

\* The scripts that ran and those that wait stay the numbers in order.
LEMMA QueueStep == TypeOK /\ ThreadsInStep /\ QueueInOrder /\ [Next]_vars => QueueInOrder'
<1> SUFFICES ASSUME TypeOK, ThreadsInStep, QueueInOrder, [Next]_vars PROVE QueueInOrder'
  OBVIOUS
<1>0. CASE UNCHANGED vars
  BY <1>0 DEF vars, shellVars, backendVars, QueueInOrder, Waiting
<1>1. ASSUME Start, UNCHANGED session PROVE QueueInOrder'
  BY <1>1, QueueKept DEF Start, ThreadsInStep, shellVars, backendVars
<1>2. ASSUME PostArgument, UNCHANGED session PROVE QueueInOrder'
  <2>1. CASE Crash("unreadable")
    BY <1>2, <2>1, QueueKept DEF Crash, shellVars, backendVars
  <2>2. CASE PostScript /\ UNCHANGED <<main, backendVars>>
    BY <1>2, <2>2, ScriptPosted DEF PostArgument, ThreadsInStep, backendVars
  <2> QED
    BY <1>2, <2>1, <2>2 DEF PostArgument
<1>3. ASSUME EnterLoop, UNCHANGED session PROVE QueueInOrder'
  <2>1. CASE BeginStop
    BY <1>3, <2>1, StopPosted DEF EnterLoop, ThreadsInStep, backendVars
  <2>2. CASE main' = "loop" /\ UNCHANGED backendQueue
    BY <1>3, <2>2, QueueKept DEF EnterLoop, backendVars
  <2> QED
    BY <1>3, <2>1, <2>2 DEF EnterLoop
<1>4. ASSUME Joined, UNCHANGED session PROVE QueueInOrder'
  BY <1>4, QueueKept DEF Joined, backendVars
<1>5. ASSUME DispatchRepl, UNCHANGED session PROVE QueueInOrder'
  BY <1>5, QueueKept DEF DispatchRepl, Dispatch, shellVars, backendVars
<1>6. ASSUME DispatchTerminated, UNCHANGED session PROVE QueueInOrder'
  BY <1>6, QueueKept DEF DispatchTerminated, Dispatch, shellVars, backendVars
<1>7. ASSUME DispatchQuit, UNCHANGED session PROVE QueueInOrder'
  BY <1>7, QueueKept DEF DispatchQuit, Dispatch, shellVars, backendVars
<1>8. ASSUME Leave, UNCHANGED session PROVE QueueInOrder'
  BY <1>8, QueueKept DEF Leave, shellVars, backendVars
<1>9. ASSUME TypeScript, UNCHANGED session PROVE QueueInOrder'
  BY <1>9, ScriptPosted DEF TypeScript, ThreadsInStep, backendVars
<1>10. ASSUME TypeQ, UNCHANGED session PROVE QueueInOrder'
  BY <1>10, StopPosted DEF TypeQ, ThreadsInStep, backendVars
<1>11. ASSUME TypeQAgain, UNCHANGED session PROVE QueueInOrder'
  BY <1>11, QueueKept DEF TypeQAgain, Crash, shellVars, backendVars
<1>12. ASSUME EndOfInput, UNCHANGED session PROVE QueueInOrder'
  BY <1>12, QueueKept DEF EndOfInput, Crash, shellVars, backendVars
<1>13. ASSUME InitBackend, UNCHANGED session PROVE QueueInOrder'
  BY <1>13, QueueKept DEF InitBackend, Crash, shellVars, backendVars
<1>14. ASSUME RunScript, UNCHANGED session PROVE QueueInOrder'
  <2> DEFINE q == backendQueue
  <2>1. q \in Seq(Nat) /\ q # <<>> /\ posted \in Nat /\ ran \in Seq(Nat) /\ Len(ran) \in Nat
    BY <1>14 DEF RunScript, TypeOK
  <2>2. Waiting \in Nat \ {0} /\ Head(q) = Len(ran) + 1
    BY <1>14, NextTask DEF RunScript
  <2>3. /\ Len(Tail(q)) = Len(q) - 1
        /\ \A i \in 1 .. Len(q) - 1 : Tail(q)[i] = q[i + 1]
    BY <2>1, HeadTaken
  <2>4. /\ Len(ran') = Len(ran) + 1 /\ ran'[Len(ran) + 1] = Len(ran) + 1
        /\ \A i \in 1 .. Len(ran) : ran'[i] = ran[i]
    BY <1>14, <2>1, <2>2, TaskAdded DEF RunScript
  <2>5. Waiting' = Waiting - 1 /\ Waiting = posted - Len(ran)
    BY <1>14, <2>1, <2>4 DEF RunScript, Waiting
  <2>6. /\ q' = Tail(q) /\ backend = "loop" /\ backend' = "script"
        /\ UNCHANGED <<main, posted, dropped>>
    BY <1>14 DEF RunScript, shellVars
  <2>7. ran' # <<>>
    BY <2>1, <2>4
  <2>8. \A i \in 1 .. Len(ran') : ran'[i] = i
    <3>1. \A i \in 1 .. Len(ran) : ran[i] = i
      BY DEF QueueInOrder
    <3>2. \A i \in 1 .. Len(ran) + 1 : i \in 1 .. Len(ran) \/ i = Len(ran) + 1
      BY <2>1
    <3> QED
      BY <2>4, <3>1, <3>2
  <2>9. Len(ran') <= posted' /\ dropped' = {}
    BY <2>1, <2>2, <2>4, <2>5, <2>6 DEF QueueInOrder
  <2>10. /\ Len(q') = Waiting' + (IF main' = "joining" THEN 1 ELSE 0)
         /\ main' = "joining" => q'[Waiting' + 1] = QuitTask
         /\ \A i \in 1 .. Waiting' : q'[i] = Len(ran') + i
    <3>1. /\ Len(q) = Waiting + (IF main = "joining" THEN 1 ELSE 0)
          /\ main = "joining" => q[Waiting + 1] = QuitTask
          /\ \A i \in 1 .. Waiting : q[i] = Len(ran) + i
      BY <2>6 DEF QueueInOrder
    <3> HIDE DEF q
    <3>2. \A i \in 1 .. Waiting - 1 : Tail(q)[i] = Len(ran) + 1 + i
      BY <2>1, <2>2, <2>3, <3>1
    <3>3. main = "joining" => Tail(q)[Waiting] = QuitTask
      BY <2>1, <2>2, <2>3, <3>1
    <3> QED
      BY <2>1, <2>2, <2>3, <2>4, <2>5, <2>6, <3>1, <3>2, <3>3
  <2> QED
    BY <2>6, <2>7, <2>8, <2>9, <2>10 DEF QueueInOrder
<1>15. ASSUME RunFactory, UNCHANGED session PROVE QueueInOrder'
  BY <1>15, QueueKept DEF RunFactory, Crash, PrintResult, shellVars, backendVars
<1>16. ASSUME EndReplScript, UNCHANGED session PROVE QueueInOrder'
  BY <1>16, QueueKept DEF EndReplScript, Crash, PrintResult, shellVars, backendVars
<1>17. ASSUME EndBatchScript, UNCHANGED session PROVE QueueInOrder'
  BY <1>17, QueueKept DEF EndBatchScript, Crash, shellVars, backendVars
<1>18. ASSUME QuitBackend, UNCHANGED session PROVE QueueInOrder'
  <2>1. Waiting = 0 /\ backendQueue' = <<>>
    BY <1>18, NextTask DEF QuitBackend
  <2> QED
    BY <1>18, <2>1 DEF QuitBackend, QueueInOrder, Waiting
<1>19. ASSUME CleanUp, UNCHANGED session PROVE QueueInOrder'
  <2>1. posted \in Nat /\ Len(ran) \in Nat /\ Waiting = 0 /\ dropped = {}
    BY <1>19 DEF CleanUp, QueueInOrder, TypeOK
  <2>2. Len(ran) + 1 .. posted = {}
    BY <2>1 DEF Waiting
  <2> QED
    BY <1>19, <2>1, <2>2 DEF CleanUp, QueueInOrder, Waiting
<1> QED
  BY <1>0, <1>1, <1>2, <1>3, <1>4, <1>5, <1>6, <1>7, <1>8, <1>9, <1>10, <1>11, <1>12,
     <1>13, <1>14, <1>15, <1>16, <1>17, <1>18, <1>19
     DEF Next, Shell, User, Backend, Ended

-------------------------------------------------------------------------------
(***************************************************************************)
(* The shutdown and the order of the scripts.                              *)
(***************************************************************************)
LEMMA ShellInit == Init => ShellInv
<1> SUFFICES ASSUME Init PROVE ShellInv
  OBVIOUS
<1>0. Args \in Nat
  BY ShellAssumption DEF Init, SessionKinds, Args
<1>1. posted = 0 /\ Len(ran) = 0 /\ Waiting = 0 /\ ToSet(mainQueue) = {}
  <2>1. ToSet(<<>>) = {}
    BY DEF ToSet
  <2>2. posted = 0 /\ Len(ran) = 0 /\ mainQueue = <<>>
    BY DEF Init
  <2> QED
    BY <2>1, <2>2 DEF Waiting
<1>2. QueueInOrder
  BY <1>1 DEF Init, QueueInOrder
<1>3. ThreadsInStep
  BY DEF Init, ThreadsInStep
<1>4. PromptsFirst /\ ArgumentsFirst
  BY <1>0, <1>1 DEF Init, PromptsFirst, ArgumentsFirst
<1> QED
  BY <1>2, <1>3, <1>4 DEF ShellInv

LEMMA ShellInvariant == Spec => [](TypeOK /\ ShellInv)
<1>1. Init => TypeOK /\ ShellInv
  BY TypeInit, ShellInit
<1>2. TypeOK /\ ShellInv /\ [Next]_vars => (TypeOK /\ ShellInv)'
  BY TypeStep, QueueStep, ThreadsStep, PromptsStep, ArgumentsStep DEF ShellInv
<1> QED
  BY <1>1, <1>2, PTL DEF Spec

\* Every variable keeps its type: the queues hold tasks of their threads.
THEOREM ShellTypes == Spec => []TypeOK
  BY ShellInvariant, PTL

\* The process leaves, and takes V8 down, only after the backend thread was
\* joined and its Environment and isolate disposed.
THEOREM ShutdownIsOrderly == Spec => []OrderlyShutdown
<1>1. TypeOK /\ ShellInv => OrderlyShutdown
  BY DEF TypeOK, ShellInv, ThreadsInStep, OrderlyShutdown
<1> QED
  BY <1>1, ShellInvariant, PTL

\* Scripts run in the order they were posted, and each of them, but for those
\* posted to a backend that had ended.
THEOREM ScriptsRunInOrder == Spec => []ScriptsInOrder
<1>1. ASSUME TypeOK, ShellInv PROVE ScriptsInOrder
  <2>1. DOMAIN ran = 1 .. Len(ran)
    BY <1>1 DEF TypeOK
  <2>2. PICK n \in Nat : n = Len(ran)
    BY <1>1 DEF TypeOK
  <2>3. posted \in Nat /\ n <= posted
    BY <1>1, <2>2 DEF TypeOK, ShellInv, QueueInOrder
  <2>4. \A i \in DOMAIN ran : ran[i] = i
    BY <1>1, <2>1 DEF ShellInv, QueueInOrder
  <2>5. ASSUME backend = "ended" PROVE n + Cardinality(dropped) = posted
    <3>1. dropped = n + 1 .. posted
      BY <1>1, <2>5, <2>2 DEF ShellInv, QueueInOrder
    <3>2. n + 1 \in Int /\ posted \in Int
      BY <2>3
    <3>3. Cardinality(dropped) = IF n + 1 > posted THEN 0 ELSE posted - (n + 1) + 1
      BY <3>1, <3>2, FS_Interval
    <3> QED
      BY <2>3, <3>3
  <2>6. ASSUME Mode = "batch", main = "exited" PROVE n = Args
    <3>1. backend = "ended" /\ posted = Args /\ dropped = {}
      BY <1>1, <2>6 DEF TypeOK, ShellInv, ThreadsInStep, ArgumentsFirst
    <3>2. n + 1 .. posted = {}
      BY <1>1, <2>2, <3>1 DEF ShellInv, QueueInOrder
    <3>3. posted < n + 1
      BY <2>3, <3>2
    <3> QED
      BY <2>3, <3>1, <3>3
  <2> QED
    BY <2>4, <2>5, <2>6, <2>2 DEF ScriptsInOrder
<1> QED
  BY <1>1, ShellInvariant, PTL

-------------------------------------------------------------------------------
(***************************************************************************)
(* The prompts that are owed.                                              *)
(***************************************************************************)
PromptsIn(q) == {i \in DOMAIN q : q[i] = "Repl"}

\* A task put behind the others is one more prompt if it is one.
LEMMA PromptsAdded ==
    ASSUME NEW q \in Seq(Tasks), NEW e \in Tasks
    PROVE  /\ IsFiniteSet(PromptsIn(q)) /\ Cardinality(PromptsIn(q)) \in Nat
           /\ Cardinality(PromptsIn(Append(q, e)))
                = Cardinality(PromptsIn(q)) + (IF e = "Repl" THEN 1 ELSE 0)
<1>1. Len(q) \in Nat /\ DOMAIN q = 1 .. Len(q) /\ DOMAIN Append(q, e) = 1 .. Len(q) + 1
  OBVIOUS
<1>2. IsFiniteSet(PromptsIn(q)) /\ Cardinality(PromptsIn(q)) \in Nat
  <2>1. IsFiniteSet(1 .. Len(q)) /\ PromptsIn(q) \in SUBSET (1 .. Len(q))
    BY <1>1, FS_Interval DEF PromptsIn
  <2> QED
    BY <2>1, FS_Subset, FS_CardinalityType
<1>3. CASE e = "Repl"
  <2>1. PromptsIn(Append(q, e)) = PromptsIn(q) \cup {Len(q) + 1}
    <3>1. ASSUME NEW i \in 1 .. Len(q) + 1
          PROVE  i \in PromptsIn(Append(q, e)) <=> i \in PromptsIn(q) \cup {Len(q) + 1}
      <4>1. CASE i = Len(q) + 1
        BY <1>1, <1>3, <4>1, TaskAdded DEF PromptsIn
      <4>2. CASE i \in 1 .. Len(q)
        BY <1>1, <4>2, TaskAdded DEF PromptsIn
      <4> QED
        BY <1>1, <4>1, <4>2
    <3>2. /\ PromptsIn(Append(q, e)) \subseteq 1 .. Len(q) + 1
          /\ PromptsIn(q) \cup {Len(q) + 1} \subseteq 1 .. Len(q) + 1
      BY <1>1 DEF PromptsIn
    <3> QED
      BY <3>1, <3>2
  <2>2. Len(q) + 1 \notin PromptsIn(q)
    BY <1>1 DEF PromptsIn
  <2> QED
    BY <1>2, <1>3, <2>1, <2>2, FS_AddElement
<1>4. CASE e # "Repl"
  <2>1. PromptsIn(Append(q, e)) = PromptsIn(q)
    <3>1. ASSUME NEW i \in 1 .. Len(q) + 1
          PROVE  i \in PromptsIn(Append(q, e)) <=> i \in PromptsIn(q)
      <4>1. CASE i = Len(q) + 1
        BY <1>1, <1>4, <4>1, TaskAdded DEF PromptsIn
      <4>2. CASE i \in 1 .. Len(q)
        BY <1>1, <4>2, TaskAdded DEF PromptsIn
      <4> QED
        BY <1>1, <4>1, <4>2
    <3>2. /\ PromptsIn(Append(q, e)) \subseteq 1 .. Len(q) + 1
          /\ PromptsIn(q) \subseteq 1 .. Len(q) + 1
      BY <1>1 DEF PromptsIn
    <3> QED
      BY <3>1, <3>2
  <2> QED
    BY <1>2, <1>4, <2>1
<1> QED
  BY <1>2, <1>3, <1>4

\* Serving a task that is a prompt leaves one less: the others move up by one.
LEMMA PromptsTaken ==
    ASSUME NEW q \in Seq(Tasks), q # <<>>
    PROVE  Cardinality(PromptsIn(Tail(q)))
             = Cardinality(PromptsIn(q)) - (IF Head(q) = "Repl" THEN 1 ELSE 0)
<1> DEFINE t == Tail(q)
           rest == PromptsIn(q) \ {1}
           up == [i \in PromptsIn(t) |-> i + 1]
<1>1. /\ Len(q) \in Nat \ {0} /\ DOMAIN q = 1 .. Len(q)
      /\ t \in Seq(Tasks) /\ DOMAIN t = 1 .. Len(q) - 1
  BY HeadTaken
<1>2. Head(q) = q[1] /\ \A i \in 1 .. Len(q) - 1 : t[i] = q[i + 1]
  BY HeadTaken
<1>3. /\ IsFiniteSet(PromptsIn(q)) /\ Cardinality(PromptsIn(q)) \in Nat
      /\ IsFiniteSet(PromptsIn(t)) /\ Cardinality(PromptsIn(t)) \in Nat
  <2>1. "Repl" \in Tasks
    BY DEF Tasks
  <2> QED
    BY <1>1, <2>1, PromptsAdded
<1> HIDE DEF t
<1>4. 1 \in PromptsIn(q) <=> Head(q) = "Repl"
  BY <1>1, <1>2 DEF PromptsIn
<1>5. Cardinality(rest) = Cardinality(PromptsIn(q)) - (IF Head(q) = "Repl" THEN 1 ELSE 0)
  <2>1. Cardinality(rest) = IF 1 \in PromptsIn(q) THEN Cardinality(PromptsIn(q)) - 1
                            ELSE Cardinality(PromptsIn(q))
    BY <1>3, FS_RemoveElement
  <2> QED
    BY <1>3, <1>4, <2>1
<1>6. up \in Bijection(PromptsIn(t), rest)
  <2>1. \A i \in PromptsIn(t) : i \in Nat /\ i + 1 \in rest
    BY <1>1, <1>2 DEF PromptsIn
  <2>2. up \in [PromptsIn(t) -> rest]
    BY <2>1
  <2>3. \A i, j \in PromptsIn(t) : up[i] = up[j] => i = j
    BY <2>1
  <2>4. \A j \in rest : \E i \in PromptsIn(t) : up[i] = j
    <3>1. SUFFICES ASSUME NEW j \in rest PROVE j - 1 \in PromptsIn(t) /\ up[j - 1] = j
      OBVIOUS
    <3>2. j \in 2 .. Len(q) /\ q[j] = "Repl" /\ j - 1 \in 1 .. Len(q) - 1 /\ (j - 1) + 1 = j
      BY <1>1 DEF PromptsIn
    <3>3. j - 1 \in PromptsIn(t)
      BY <1>1, <1>2, <3>2 DEF PromptsIn
    <3> QED
      BY <3>2, <3>3
  <2> QED
    BY <2>2, <2>3, <2>4, Fun_IsBij
<1>7. Cardinality(rest) = Cardinality(PromptsIn(t))
  BY <1>3, <1>6, FS_Bijection DEF ExistsBijection
<1> QED
  BY <1>5, <1>7 DEF t

\* The prompts of the main thread's queue are counted by ReplTasks.
LEMMA ReplCounted ==
    ASSUME TypeOK
    PROVE  ReplTasks = Cardinality(PromptsIn(mainQueue)) /\ ReplTasks \in Nat
<1>1. mainQueue \in Seq(Tasks) /\ "Repl" \in Tasks
  BY DEF TypeOK, Tasks
<1>2. ReplTasks = Cardinality(PromptsIn(mainQueue))
  BY DEF ReplTasks, PromptsIn
<1> QED
  BY <1>1, <1>2, PromptsAdded

LEMMA ReplPosted ==
    ASSUME TypeOK, NEW task \in Tasks, PostToMain(task)
    PROVE  ReplTasks' = ReplTasks + (IF task = "Repl" THEN 1 ELSE 0)
<1>1. mainQueue \in Seq(Tasks) /\ mainQueue' = Append(mainQueue, task)
  BY DEF TypeOK, Tasks, PostToMain
<1>2. ReplTasks' = Cardinality(PromptsIn(Append(mainQueue, task)))
  BY <1>1 DEF ReplTasks, PromptsIn
<1> QED
  BY <1>1, <1>2, PromptsAdded, ReplCounted

LEMMA ReplServed ==
    ASSUME TypeOK, NEW task \in Tasks, Dispatch(task),
           \/ mainQueue' = Tail(mainQueue)
           \/ mainQueue' = Append(Tail(mainQueue), "Quit")
    PROVE  ReplTasks' = ReplTasks - (IF task = "Repl" THEN 1 ELSE 0)
<1> DEFINE t == Tail(mainQueue)
<1>1. mainQueue \in Seq(Tasks) /\ mainQueue # <<>> /\ Head(mainQueue) = task /\ "Quit" \in Tasks
  BY DEF TypeOK, Tasks, Dispatch
<1>2. t \in Seq(Tasks)
  BY <1>1, HeadTaken
<1>3. Cardinality(PromptsIn(Append(t, "Quit"))) = Cardinality(PromptsIn(t))
  <2>1. /\ Cardinality(PromptsIn(t)) \in Nat
        /\ Cardinality(PromptsIn(Append(t, "Quit"))) = Cardinality(PromptsIn(t)) + 0
    BY <1>1, <1>2, PromptsAdded
  <2> QED
    BY <2>1
<1>4. Cardinality(PromptsIn(t)) = ReplTasks - (IF task = "Repl" THEN 1 ELSE 0)
  BY <1>1, PromptsTaken, ReplCounted
<1>5. ReplTasks' = Cardinality(PromptsIn(mainQueue'))
  BY DEF ReplTasks, PromptsIn
<1> QED
  BY <1>3, <1>4, <1>5

\* Every prompt served or posted is entered on the other side.
LEMMA LedgerStep ==
    TypeOK /\ ThreadsInStep /\ ArgumentsFirst /\ LedgerInv /\ [Next]_vars
        => LedgerInv'
<1> SUFFICES ASSUME TypeOK, ThreadsInStep, ArgumentsFirst, LedgerInv, [Next]_vars PROVE LedgerInv'
  OBVIOUS
<1>a. UNCHANGED mainQueue => ReplTasks' = ReplTasks
  BY DEF ReplTasks
<1>b. /\ ReplTasks \in Nat /\ posted \in Nat /\ Args \in Nat /\ quits \in Nat
      /\ Len(printed) \in Nat /\ \A n \in Nat : Len(Append(printed, n)) = Len(printed) + 1
  BY ReplCounted, SessionType DEF TypeOK
<1>c. Len(ran) \in Nat /\ result \in Nat
  BY DEF TypeOK
<1>0. CASE UNCHANGED vars
  BY <1>0, <1>a DEF vars, shellVars, backendVars, LedgerInv, PromptLedger, Mode, Args
<1>1. ASSUME Start, UNCHANGED session PROVE LedgerInv'
  BY <1>1, <1>a DEF Start, LedgerInv, PromptLedger, Mode, Args, shellVars, backendVars
<1>2. ASSUME PostArgument, UNCHANGED session PROVE LedgerInv'
  BY <1>2, <1>a
     DEF PostArgument, PostScript, Crash, LedgerInv, PromptLedger, Mode, Args,
         shellVars, backendVars
<1>3. ASSUME EnterLoop, UNCHANGED session PROVE LedgerInv'
  <2>1. PostToMain("Repl") => ReplTasks' = ReplTasks + 1
    BY <1>b, ReplPosted DEF Tasks
  <2> QED
    BY <1>3, <1>a, <1>b, <2>1
       DEF EnterLoop, ArgumentsFirst, BeginStop, LedgerInv, PromptLedger, Mode, Args,
           shellVars, backendVars
<1>4. ASSUME Joined, UNCHANGED session PROVE LedgerInv'
  <2>1. PostToMain("Terminated") => ReplTasks' = ReplTasks
    BY <1>b, ReplPosted DEF Tasks
  <2> QED
    BY <1>4, <1>a, <1>b, <2>1
       DEF Joined, LedgerInv, PromptLedger, Mode, Args, shellVars, backendVars
<1>5. ASSUME DispatchRepl, UNCHANGED session PROVE LedgerInv'
  <2>1. ReplTasks' = ReplTasks - 1
    BY <1>5, <1>b, ReplServed DEF DispatchRepl, Tasks
  <2> QED
    BY <1>5, <1>a, <1>b, <2>1
       DEF DispatchRepl, Dispatch, LedgerInv, PromptLedger, Mode, Args, backendVars
<1>6. ASSUME DispatchTerminated, UNCHANGED session PROVE LedgerInv'
  <2>1. ReplTasks' = ReplTasks
    BY <1>6, <1>b, ReplServed DEF DispatchTerminated, Tasks
  <2> QED
    BY <1>6, <1>a, <1>b, <2>1
       DEF DispatchTerminated, Dispatch, LedgerInv, PromptLedger, Mode, Args,
           backendVars
<1>7. ASSUME DispatchQuit, UNCHANGED session PROVE LedgerInv'
  BY <1>7 DEF DispatchQuit, Dispatch, LedgerInv, PromptLedger, Mode
<1>8. ASSUME Leave, UNCHANGED session PROVE LedgerInv'
  BY <1>8, <1>a DEF Leave, LedgerInv, PromptLedger, Mode, Args, shellVars, backendVars
<1>9. ASSUME TypeScript, UNCHANGED session PROVE LedgerInv'
  BY <1>9, <1>a, <1>b
     DEF TypeScript, PostScript, LedgerInv, PromptLedger, Mode, Args, shellVars,
         backendVars
<1>10. ASSUME TypeQ, UNCHANGED session PROVE LedgerInv'
  BY <1>10, <1>a, <1>b
     DEF TypeQ, BeginStop, QuitTask, LedgerInv, PromptLedger, Mode, Args, shellVars,
         backendVars
<1>11. ASSUME TypeQAgain, UNCHANGED session PROVE LedgerInv'
  BY <1>11, <1>a
     DEF TypeQAgain, Crash, LedgerInv, PromptLedger, Mode, Args, shellVars, backendVars
<1>12. ASSUME EndOfInput, UNCHANGED session PROVE LedgerInv'
  BY <1>12, <1>a
     DEF EndOfInput, Crash, LedgerInv, PromptLedger, Mode, Args, shellVars, backendVars
<1>13. ASSUME InitBackend, UNCHANGED session PROVE LedgerInv'
  BY <1>13, <1>a
     DEF InitBackend, Crash, LedgerInv, PromptLedger, Mode, Args, shellVars, backendVars
<1>14. ASSUME RunScript, UNCHANGED session PROVE LedgerInv'
  BY <1>14, <1>a DEF RunScript, LedgerInv, PromptLedger, Mode, Args, shellVars, backendVars
<1>15. ASSUME RunFactory, UNCHANGED session PROVE LedgerInv'
  <2>1. PostToMain("Repl") => ReplTasks' = ReplTasks + 1
    BY <1>b, ReplPosted DEF Tasks
  <2>2. CASE Crash("unprintable")
    BY <1>15, <1>a, <2>2 DEF Crash, LedgerInv, PromptLedger, Mode, Args, shellVars
  <2>3. CASE PrintResult(result) /\ UNCHANGED <<shellVars, posted>>
    <3>1. ReplTasks' = ReplTasks + 1 /\ Len(printed') = Len(printed) + 1
      BY <1>b, <1>c, <2>1, <2>3 DEF PrintResult
    <3> QED
      BY <1>15, <1>b, <2>3, <3>1 DEF LedgerInv, PromptLedger, Mode, Args, shellVars
  <2> QED
    BY <1>15, <2>2, <2>3 DEF RunFactory
<1>16. ASSUME EndReplScript, UNCHANGED session PROVE LedgerInv'
  <2>1. PostToMain("Repl") => ReplTasks' = ReplTasks + 1
    BY <1>b, ReplPosted DEF Tasks
  <2> QED
    BY <1>16, <1>a, <1>b, <2>1
       DEF EndReplScript, ThreadsInStep, Crash, PrintResult, LedgerInv, PromptLedger,
           Mode, Args, shellVars, backendVars
<1>17. ASSUME EndBatchScript, UNCHANGED session PROVE LedgerInv'
  BY <1>17, <1>a
     DEF EndBatchScript, Crash, LedgerInv, PromptLedger, Mode, Args, shellVars,
         backendVars
<1>18. ASSUME QuitBackend, UNCHANGED session PROVE LedgerInv'
  BY <1>18, <1>a DEF QuitBackend, LedgerInv, PromptLedger, Mode, Args, shellVars, backendVars
<1>19. ASSUME CleanUp, UNCHANGED session PROVE LedgerInv'
  BY <1>19, <1>a DEF CleanUp, LedgerInv, PromptLedger, Mode, Args, shellVars, backendVars
<1> QED
  BY <1>0, <1>1, <1>2, <1>3, <1>4, <1>5, <1>6, <1>7, <1>8, <1>9, <1>10, <1>11, <1>12,
     <1>13, <1>14, <1>15, <1>16, <1>17, <1>18, <1>19
     DEF Next, Shell, User, Backend, Ended

\* Each prompt is owed to one printed value, the first one to Run.
THEOREM LedgerBalances == Spec => []PromptLedger
<1>1. Init => LedgerInv
  <2> SUFFICES ASSUME Init PROVE LedgerInv
    OBVIOUS
  <2>1. /\ main = "starting" /\ quits = 0 /\ Len(printed) = 0
        /\ {i \in DOMAIN mainQueue : mainQueue[i] = "Repl"} = {}
    BY DEF Init
  <2>2. ReplTasks = 0
    BY <2>1, FS_EmptySet DEF ReplTasks
  <2> QED
    BY <2>1, <2>2 DEF LedgerInv, PromptLedger
<1>2. TypeOK /\ ShellInv /\ LedgerInv /\ [Next]_vars => LedgerInv'
  BY LedgerStep DEF ShellInv
<1>3. LedgerInv => PromptLedger
  BY DEF LedgerInv, PromptLedger
<1> QED
  BY <1>1, <1>2, <1>3, ShellInvariant, PTL DEF Spec

-------------------------------------------------------------------------------
(***************************************************************************)
(* The plain REPL.                                                         *)
(***************************************************************************)
\* No scripts on the command line and no factories.
PlainOnly == \A s \in Sessions : s.mode = "repl" /\ s.args = 0 /\ s.factories = 0

\* Queues of one task.
LEMMA OneTask ==
    ASSUME NEW a, NEW b
    PROVE  /\ Append(<<>>, a) = <<a>> /\ <<a>> # <<>>
           /\ Head(<<a>>) = a /\ Tail(<<a>>) = <<>>
           /\ Append(Tail(<<a>>), b) = <<b>>
  OBVIOUS

LEMMA LastAdded ==
    ASSUME NEW q \in Seq(Nat), NEW n \in Nat
    PROVE  Last(Append(q, n)) = n
  BY TaskAdded DEF Last

\* From each point a step stays at it or goes on to the next.
LEMMA TurnStep == PlainOnly /\ TypeOK /\ ShellInv /\ TurnInv /\ [Next]_vars => TurnInv'
<1> SUFFICES ASSUME PlainOnly, TypeOK, ShellInv, TurnInv, [Next]_vars PROVE TurnInv'
  OBVIOUS
<1> USE DEF ShellInv
<1>a. Mode = "repl" /\ Args = 0 /\ MaxFactories = 0
  BY DEF PlainOnly, Mode, Args, MaxFactories, TypeOK
<1>b. /\ posted \in Nat /\ argsLeft \in Nat /\ factories \in Nat
      /\ printed \in Seq(Nat) /\ ran \in Seq(Nat) /\ Len(ran) \in Nat
  BY DEF TypeOK
<1>0. CASE UNCHANGED vars
  BY <1>0
     DEF vars, shellVars, backendVars, TurnInv, AtStart, PromptDue, AtPrompt, LineWaits,
         LineRuns, Quitting, Answered
<1>1. ASSUME Start, UNCHANGED session PROVE TurnInv'
  BY <1>1, <1>a
     DEF Start, ThreadsInStep, TurnInv, AtStart, PromptDue, AtPrompt, LineWaits,
         LineRuns, Quitting, Answered, shellVars, backendVars
<1>2. ASSUME PostArgument, UNCHANGED session PROVE TurnInv'
  <2>1. argsLeft = 0
    BY <1>2, <1>a, <1>b DEF PostArgument, ArgumentsFirst
  <2> QED
    BY <1>2, <2>1 DEF PostArgument
<1>3. ASSUME EnterLoop, UNCHANGED session PROVE TurnInv'
  <2>1. AtStart /\ quits = 0
    BY <1>3
       DEF EnterLoop, TurnInv, AtStart, PromptDue, AtPrompt, LineWaits, LineRuns,
           Quitting, Answered
  <2>2. /\ mainQueue' = <<"Repl">> /\ main' = "loop"
        /\ UNCHANGED <<backendQueue, backendVars, quits, printed, posted>>
    BY <1>3, <1>a, <2>1, OneTask DEF EnterLoop, PostToMain, AtStart, shellVars
  <2>3. backend # "new"
    BY <1>3 DEF EnterLoop, ThreadsInStep
  <2> QED
    BY <2>1, <2>2, <2>3 DEF TurnInv, AtStart, PromptDue, Answered, backendVars
<1>4. ASSUME Joined, UNCHANGED session PROVE TurnInv'
  <2>1. Quitting /\ quits = 1
    BY <1>4
       DEF Joined, TurnInv, AtStart, PromptDue, AtPrompt, LineWaits, LineRuns,
           Quitting, Answered
  <2>2. mainQueue = <<>>
    BY <1>4, <2>1 DEF Joined, Quitting
  <2> QED
    BY <1>4, <2>1, <2>2, OneTask DEF Joined, PostToMain, TurnInv, Quitting, backendVars
<1>5. ASSUME DispatchRepl, UNCHANGED session PROVE TurnInv'
  <2>1. mainQueue = <<"Repl">> /\ PromptDue /\ quits = 0
    BY <1>5, OneTask
       DEF DispatchRepl, Dispatch, TurnInv, AtStart, PromptDue, AtPrompt, LineWaits,
           LineRuns, Quitting, Answered
  <2>2. mainQueue' = <<>>
    BY <1>5, <2>1, OneTask DEF DispatchRepl
  <2> QED
    BY <1>5, <2>1, <2>2
       DEF DispatchRepl, Dispatch, TurnInv, PromptDue, AtPrompt, Answered, backendVars
<1>6. ASSUME DispatchTerminated, UNCHANGED session PROVE TurnInv'
  <2>1. mainQueue = <<"Terminated">> /\ Quitting /\ quits = 1
    BY <1>6, OneTask
       DEF DispatchTerminated, Dispatch, TurnInv, AtStart, PromptDue, AtPrompt,
           LineWaits, LineRuns, Quitting, Answered
  <2>2. mainQueue' = <<"Quit">>
    BY <1>6, <2>1, OneTask DEF DispatchTerminated
  <2> QED
    BY <1>6, <2>1, <2>2 DEF DispatchTerminated, Dispatch, TurnInv, Quitting, backendVars
<1>7. ASSUME DispatchQuit, UNCHANGED session PROVE TurnInv'
  <2>1. mainQueue = <<"Quit">> /\ Quitting /\ quits = 1
    BY <1>7, OneTask
       DEF DispatchQuit, Dispatch, TurnInv, AtStart, PromptDue, AtPrompt, LineWaits,
           LineRuns, Quitting, Answered
  <2> QED
    BY <1>7, <2>1 DEF DispatchQuit, Dispatch, TurnInv, Quitting, backendVars
<1>8. ASSUME Leave, UNCHANGED session PROVE TurnInv'
  BY <1>8, <1>a
     DEF Leave, TurnInv, AtStart, PromptDue, AtPrompt, LineWaits, LineRuns, Quitting,
         Answered, shellVars, backendVars
<1>9. ASSUME TypeScript, UNCHANGED session PROVE TurnInv'
  <2>1. AtPrompt /\ quits = 0
    BY <1>9
       DEF TypeScript, TurnInv, AtStart, PromptDue, AtPrompt, LineWaits, LineRuns,
           Quitting, Answered
  <2>2. backendQueue' = <<posted'>> /\ posted' = posted + 1
    BY <1>9, <2>1, OneTask DEF TypeScript, PostScript, AtPrompt, Answered
  <2> QED
    BY <1>9, <2>1, <2>2 DEF TypeScript, TurnInv, AtPrompt, Answered, LineWaits, backendVars
<1>10. ASSUME TypeQ, UNCHANGED session PROVE TurnInv'
  <2>1. AtPrompt /\ quits = 0
    BY <1>10
       DEF TypeQ, TurnInv, AtStart, PromptDue, AtPrompt, LineWaits, LineRuns,
           Quitting, Answered
  <2> QED
    BY <1>10, <2>1 DEF TypeQ, BeginStop, TurnInv, AtPrompt, Answered, Quitting, backendVars
<1>11. ASSUME TypeQAgain, UNCHANGED session PROVE TurnInv'
  BY <1>11, <1>a
     DEF TypeQAgain, Crash, TurnInv, AtStart, PromptDue, AtPrompt, LineWaits, LineRuns,
         Quitting, Answered, shellVars, backendVars
<1>12. ASSUME EndOfInput, UNCHANGED session PROVE TurnInv'
  BY <1>12, <1>a
     DEF EndOfInput, Crash, TurnInv, AtStart, PromptDue, AtPrompt, LineWaits, LineRuns,
         Quitting, Answered, shellVars, backendVars
<1>13. ASSUME InitBackend, UNCHANGED session PROVE TurnInv'
  BY <1>13, <1>a
     DEF InitBackend, Crash, TurnInv, AtStart, PromptDue, AtPrompt, LineWaits, LineRuns,
         Quitting, Answered, shellVars, backendVars
<1>14. ASSUME RunScript, UNCHANGED session PROVE TurnInv'
  <2>1. ~Quitting
    BY <1>14, NextTask DEF RunScript, Quitting, Waiting
  <2>2. LineWaits /\ quits = 0
    BY <1>14, <2>1
       DEF RunScript, TurnInv, AtStart, PromptDue, AtPrompt, LineWaits, LineRuns,
           Quitting, Answered
  <2>3. Head(backendQueue) = posted /\ Tail(backendQueue) = <<>>
    BY <2>2, OneTask DEF LineWaits
  <2>4. ran' = Append(printed, posted) /\ Len(ran') = posted
    BY <1>14, <1>b, <2>2, <2>3 DEF RunScript, LineWaits
  <2> QED
    BY <1>14, <2>2, <2>3, <2>4 DEF RunScript, TurnInv, LineWaits, LineRuns, shellVars
<1>15. ASSUME RunFactory, UNCHANGED session PROVE TurnInv'
  BY <1>15, <1>a, <1>b DEF RunFactory
<1>16. ASSUME EndReplScript, UNCHANGED session PROVE TurnInv'
  <2>1. LineRuns /\ quits = 0
    BY <1>16
       DEF EndReplScript, TurnInv, AtStart, PromptDue, AtPrompt, LineWaits, LineRuns,
           Quitting, Answered
  <2>2. CASE Crash("unprintable")
    BY <1>16, <2>1, <2>2 DEF Crash, TurnInv, LineRuns, shellVars, backendVars
  <2>3. CASE /\ PrintResult(Last(ran)) /\ backend' = "loop"
             /\ UNCHANGED <<shellVars, ran, backendQueue, posted>>
    <3>1. Last(ran) = posted
      BY <1>b, <2>1, LastAdded DEF LineRuns
    <3>2. printed' = ran /\ mainQueue' = <<"Repl">>
      BY <2>1, <2>3, <3>1, OneTask DEF PrintResult, PostToMain, LineRuns
    <3> QED
      BY <2>1, <2>3, <3>2 DEF TurnInv, LineRuns, PromptDue, Answered, shellVars
  <2> QED
    BY <1>16, <2>2, <2>3 DEF EndReplScript
<1>17. ASSUME EndBatchScript, UNCHANGED session PROVE TurnInv'
  BY <1>17, <1>a
     DEF EndBatchScript, Crash, TurnInv, AtStart, PromptDue, AtPrompt, LineWaits,
         LineRuns, Quitting, Answered, shellVars, backendVars
<1>18. ASSUME QuitBackend, UNCHANGED session PROVE TurnInv'
  <2>1. main = "joining" /\ Tail(backendQueue) = <<>>
    BY <1>18, NextTask DEF QuitBackend
  <2> QED
    BY <1>18, <2>1
       DEF QuitBackend, TurnInv, AtStart, PromptDue, AtPrompt, LineWaits, LineRuns,
           Quitting, Answered, shellVars
<1>19. ASSUME CleanUp, UNCHANGED session PROVE TurnInv'
  BY <1>19
     DEF CleanUp, ThreadsInStep, TurnInv, AtStart, PromptDue, AtPrompt, LineWaits,
         LineRuns, Quitting, Answered, shellVars
<1> QED
  BY <1>0, <1>1, <1>2, <1>3, <1>4, <1>5, <1>6, <1>7, <1>8, <1>9, <1>10, <1>11, <1>12,
     <1>13, <1>14, <1>15, <1>16, <1>17, <1>18, <1>19
     DEF Next, Shell, User, Backend, Ended

LEMMA TurnInvariant == PlainOnly /\ Spec => [](TypeOK /\ ShellInv /\ TurnInv)
<1> SUFFICES ASSUME PlainOnly PROVE Spec => [](TypeOK /\ ShellInv /\ TurnInv)
  OBVIOUS
<1>1. Init => TurnInv
  BY DEF Init, TurnInv, AtStart, Answered, PlainOnly, Args
<1>2. TypeOK /\ ShellInv /\ TurnInv /\ [Next]_vars => TurnInv'
  BY TurnStep
<1> QED
  BY <1>1, <1>2, ShellInvariant, PTL DEF Spec

\* While the user of a plain REPL is prompted the backend has nothing to do,
\* and every line was run and answered once, in order.
THEOREM TurnsAreTaken == PlainOnly /\ Spec => []TurnTaking
<1> SUFFICES ASSUME PlainOnly PROVE Spec => []TurnTaking
  OBVIOUS
<1>1. TypeOK /\ ShellInv /\ TurnInv => TurnTaking
  BY DEF TypeOK, ShellInv, QueueInOrder, TurnInv, AtStart, PromptDue, AtPrompt, LineWaits,
         LineRuns, Quitting, Answered, TurnTaking
<1> QED
  BY <1>1, TurnInvariant, PTL

(***************************************************************************)
(* The safety half of the refinement: what a plain session does is what    *)
(* ReplSession allows.                                                     *)
(***************************************************************************)
LEMMA PhaseStays ==
    UNCHANGED <<main, quits, posted, printed, cause>> => UNCHANGED Session!vars
  BY DEF Phase, Alive, Session!vars

LEMMA CrashEnds ==
    ASSUME Alive, main # "exited", NEW why \in Causes \ {"none"}, Crash(why)
    PROVE  Session!End
  BY DEF Alive, Crash, Phase, Session!End

LEMMA SessionStep ==
    ASSUME PlainOnly, TypeOK, ShellInv, TurnInv, [Next]_vars
    PROVE  [Session!Next]_(Session!vars)
<1> USE DEF ShellInv
<1>a. Mode = "repl" /\ Args = 0 /\ MaxFactories = 0
  BY DEF PlainOnly, Mode, Args, MaxFactories, TypeOK
<1>b. /\ posted \in Nat /\ argsLeft \in Nat /\ factories \in Nat /\ Len(printed) \in Nat
      /\ printed \in Seq(Nat) /\ ran \in Seq(Nat) /\ Len(ran) \in Nat
  BY DEF TypeOK
<1>0. CASE UNCHANGED vars
  BY <1>0, PhaseStays DEF vars, shellVars
<1>1. ASSUME Start, UNCHANGED session PROVE Session!Next \/ UNCHANGED Session!vars
  <2>1. quits = 0 /\ posted = Len(printed)
    BY <1>1
       DEF Start, TurnInv, AtStart, PromptDue, AtPrompt, LineWaits, LineRuns,
           Quitting, Answered
  <2> QED
    BY <1>1, <1>b, <2>1 DEF Start, Alive, Phase, Session!vars
<1>2. ASSUME PostArgument, UNCHANGED session PROVE Session!Next \/ UNCHANGED Session!vars
  <2>1. argsLeft = 0
    BY <1>2, <1>a, <1>b DEF PostArgument, ArgumentsFirst
  <2> QED
    BY <1>2, <2>1 DEF PostArgument
<1>3. ASSUME EnterLoop, UNCHANGED session PROVE Session!Next \/ UNCHANGED Session!vars
  <2>1. quits = 0 /\ posted = Len(printed)
    BY <1>3
       DEF EnterLoop, TurnInv, AtStart, PromptDue, AtPrompt, LineWaits, LineRuns,
           Quitting, Answered
  <2> QED
    BY <1>3, <1>a, <1>b, <2>1 DEF EnterLoop, Alive, Phase, Session!vars
<1>4. ASSUME Joined, UNCHANGED session PROVE Session!Next \/ UNCHANGED Session!vars
  <2>1. quits = 1
    BY <1>4
       DEF Joined, TurnInv, AtStart, PromptDue, AtPrompt, LineWaits, LineRuns,
           Quitting, Answered
  <2> QED
    BY <1>4, <1>b, <2>1 DEF Joined, Alive, Phase, Session!vars
<1>5. ASSUME DispatchRepl, UNCHANGED session PROVE Session!Next \/ UNCHANGED Session!vars
  <2>1. quits = 0 /\ posted = Len(printed)
    BY <1>5, OneTask
       DEF DispatchRepl, Dispatch, TurnInv, AtStart, PromptDue, AtPrompt, LineWaits,
           LineRuns, Quitting, Answered
  <2> QED
    BY <1>5, <1>b, <2>1 DEF DispatchRepl, Dispatch, Alive, Phase, Session!Next, Session!Prompt
<1>6. ASSUME DispatchTerminated, UNCHANGED session PROVE Session!Next \/ UNCHANGED Session!vars
  BY <1>6, PhaseStays DEF DispatchTerminated, Dispatch
<1>7. ASSUME DispatchQuit, UNCHANGED session PROVE Session!Next \/ UNCHANGED Session!vars
  <2>1. quits = 1
    BY <1>7, OneTask
       DEF DispatchQuit, Dispatch, TurnInv, AtStart, PromptDue, AtPrompt, LineWaits,
           LineRuns, Quitting, Answered
  <2> QED
    BY <1>7, <1>b, <2>1 DEF DispatchQuit, Dispatch, Alive, Phase, Session!vars
<1>8. ASSUME Leave, UNCHANGED session PROVE Session!Next \/ UNCHANGED Session!vars
  <2>1. quits = 1
    BY <1>8
       DEF Leave, TurnInv, AtStart, PromptDue, AtPrompt, LineWaits, LineRuns,
           Quitting, Answered
  <2> QED
    BY <1>8, <1>b, <2>1 DEF Leave, Alive, Phase, Session!Next, Session!End
<1>9. ASSUME TypeScript, UNCHANGED session PROVE Session!Next \/ UNCHANGED Session!vars
  <2>1. quits = 0 /\ posted = Len(printed)
    BY <1>9
       DEF TypeScript, TurnInv, AtStart, PromptDue, AtPrompt, LineWaits, LineRuns,
           Quitting, Answered
  <2> QED
    BY <1>9, <1>b, <2>1 DEF TypeScript, PostScript, Alive, Phase, Session!Next, Session!Read
<1>10. ASSUME TypeQ, UNCHANGED session PROVE Session!Next \/ UNCHANGED Session!vars
  <2>1. quits = 0
    BY <1>10
       DEF TypeQ, TurnInv, AtStart, PromptDue, AtPrompt, LineWaits, LineRuns,
           Quitting, Answered
  <2> QED
    BY <1>10, <1>b, <2>1 DEF TypeQ, BeginStop, Alive, Phase, Session!Next, Session!Quit
<1>11. ASSUME TypeQAgain, UNCHANGED session PROVE Session!Next \/ UNCHANGED Session!vars
  BY <1>11, CrashEnds DEF TypeQAgain, Causes, Session!Next
<1>12. ASSUME EndOfInput, UNCHANGED session PROVE Session!Next \/ UNCHANGED Session!vars
  BY <1>12, CrashEnds DEF EndOfInput, Causes, Session!Next
<1>13. ASSUME InitBackend, UNCHANGED session PROVE Session!Next \/ UNCHANGED Session!vars
  BY <1>13, <1>a, PhaseStays DEF InitBackend, shellVars
<1>14. ASSUME RunScript, UNCHANGED session PROVE Session!Next \/ UNCHANGED Session!vars
  BY <1>14, PhaseStays DEF RunScript, shellVars, backendVars
<1>15. ASSUME RunFactory, UNCHANGED session PROVE Session!Next \/ UNCHANGED Session!vars
  BY <1>15, <1>a, <1>b DEF RunFactory
<1>16. ASSUME EndReplScript, UNCHANGED session PROVE Session!Next \/ UNCHANGED Session!vars
  <2>1. LineRuns /\ quits = 0
    BY <1>16
       DEF EndReplScript, TurnInv, AtStart, PromptDue, AtPrompt, LineWaits, LineRuns,
           Quitting, Answered
  <2>2. CASE Crash("unprintable")
    BY <1>16, <2>1, <2>2, CrashEnds DEF EndReplScript, LineRuns, Causes, Session!Next
  <2>3. CASE PrintResult(Last(ran)) /\ UNCHANGED <<shellVars, posted, cause>>
    <3>1. posted = Len(printed) + 1 /\ Len(printed') = Len(printed) + 1
      <4>1. Last(ran) = posted
        BY <1>b, <2>1, LastAdded DEF LineRuns
      <4>2. printed' = ran /\ Len(ran) = posted
        BY <2>1, <2>3, <4>1 DEF PrintResult, LineRuns
      <4>3. Len(ran) = Len(printed) + 1
        BY <1>b, <2>1, TaskAdded DEF LineRuns
      <4> QED
        BY <4>2, <4>3
    <3> QED
      BY <1>16, <1>b, <2>1, <2>3, <3>1
         DEF EndReplScript, LineRuns, shellVars, Alive, Phase, Session!Next, Session!Answer
  <2> QED
    BY <1>16, <2>2, <2>3 DEF EndReplScript
<1>17. ASSUME EndBatchScript, UNCHANGED session PROVE Session!Next \/ UNCHANGED Session!vars
  BY <1>17, <1>a DEF EndBatchScript
<1>18. ASSUME QuitBackend, UNCHANGED session PROVE Session!Next \/ UNCHANGED Session!vars
  BY <1>18, PhaseStays DEF QuitBackend, shellVars, backendVars
<1>19. ASSUME CleanUp, UNCHANGED session PROVE Session!Next \/ UNCHANGED Session!vars
  BY <1>19, PhaseStays DEF CleanUp, shellVars, backendVars
<1>20. CASE Ended
  BY <1>20, PhaseStays DEF Ended, vars, shellVars
<1> QED
  BY <1>0, <1>1, <1>2, <1>3, <1>4, <1>5, <1>6, <1>7, <1>8, <1>9, <1>10, <1>11, <1>12,
     <1>13, <1>14, <1>15, <1>16, <1>17, <1>18, <1>19, <1>20
     DEF Next, Shell, User, Backend

\* A plain session implements ReplSession, but for its fairness: it never
\* prompts while it owes an answer, and never answers what was not asked.
THEOREM SessionIsKept == PlainOnly /\ Spec => Session!Spec
<1> SUFFICES ASSUME PlainOnly PROVE Spec => Session!Spec
  OBVIOUS
<1>1. Init => Session!Init
  <2> SUFFICES ASSUME Init PROVE Session!Init
    OBVIOUS
  <2>1. main = "starting" /\ quits = 0 /\ posted = 0 /\ Len(printed) = 0 /\ cause = "none"
    BY DEF Init
  <2> QED
    BY <2>1 DEF Phase, Alive, Session!Init
<1>2. TypeOK /\ ShellInv /\ TurnInv /\ [Next]_vars => [Session!Next]_(Session!vars)
  BY SessionStep
<1> QED
  BY <1>1, <1>2, TurnInvariant, PTL DEF Spec, Session!Spec
===============================================================================
