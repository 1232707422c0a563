------------------------- MODULE WorkingDirectory_proofs -------------------------
(***************************************************************************)
(* Where files are read, where os.getcwd is and where the history goes,    *)
(* for any command line, any directories and any number of typed scripts.  *)
(***************************************************************************)
EXTENDS WorkingDirectory, TLAPS

LEMMA DirInit == Init => TypeOK /\ DirInv
<1> SUFFICES ASSUME Init PROVE TypeOK /\ DirInv
  OBVIOUS
<1> USE DirectoryAssumption DEF Init
<1>1. TypeOK
  <2>1. /\ cwd \in Dirs /\ removed \subseteq Dirs
        /\ next \in 1 .. Args + Typed + 1 /\ calls \in 0 .. MaxCalls /\ script \in 0 .. Args + Typed
    OBVIOUS
  <2>2. queue \in Seq(Scripts) /\ went \in [Scripts -> SUBSET Dirs] /\ readIn \in [Arguments -> Dirs \cup {NoDir}]
    OBVIOUS
  <2>3. 0 \in 0 .. Args + Typed
    OBVIOUS
  <2>4. answer \in [path : Dirs \cup {Empty}, to : 0 .. Args + Typed]
    BY <2>3
  <2>5. history \in [loaded : Dirs \cup {NoDir}, saved : Dirs \cup {NoDir}]
    BY Zenon
  <2>6. process \in {"running", "unreadable", "exited"}
    OBVIOUS
  <2> QED
    BY <2>1, <2>2, <2>4, <2>5, <2>6 DEF TypeOK
<1>2. QueueInOrder
  BY DEF QueueInOrder, Started, Scripts
<1>3. MovedByScripts /\ AskedByScripts
  BY DEF MovedByScripts, AskedByScripts, GetcwdExplained, Started
<1>4. HistoryOpen /\ HistoryExplained
  BY DEF HistoryOpen, HistoryExplained
<1>5. ReadsExplained /\ UnreadableExplained
  BY DEF ReadsExplained, UnreadableExplained, Arguments
<1> QED
  BY <1>1, <1>2, <1>3, <1>4, <1>5 DEF DirInv

-------------------------------------------------------------------------------
(***************************************************************************)
(* The queue.                                                              *)
(***************************************************************************)
\* A posted script goes behind the others, and none starts.
LEMMA Posted ==
  ASSUME TypeOK, QueueInOrder, next \in Scripts,
         queue' = Append(queue, next), next' = next + 1, UNCHANGED <<script, went>>
  PROVE  /\ queue' \in Seq(Scripts) /\ next' \in 1 .. Args + Typed + 1
         /\ QueueInOrder' /\ Started' = Started
<1> USE DirectoryAssumption
<1>1. queue' \in Seq(Scripts) /\ Len(queue') = Len(queue) + 1 /\ Len(queue) \in Nat
  BY DEF TypeOK
<1>2. next \in Nat /\ next' \in 1 .. Args + Typed + 1
  BY DEF Scripts
<1>3. Started' = Started
  BY <1>1, <1>2 DEF Started
<1>4. \A i \in 1 .. Len(queue') : queue'[i] = Started + i
  <2> SUFFICES ASSUME NEW i \in 1 .. Len(queue') PROVE queue'[i] = Started + i
    OBVIOUS
  <2>1. CASE i = Len(queue')
    BY <1>1, <1>2, <2>1 DEF Started, TypeOK
  <2>2. CASE i # Len(queue')
    BY <1>1, <2>2 DEF QueueInOrder, TypeOK
  <2> QED
    BY <2>1, <2>2
<1> QED
  BY <1>1, <1>2, <1>3, <1>4 DEF QueueInOrder

\* The script that starts is the next in number.
LEMMA Started1 ==
  ASSUME TypeOK, QueueInOrder, queue # <<>>, script' = Head(queue), queue' = Tail(queue),
         UNCHANGED <<next, went>>
  PROVE  /\ queue' \in Seq(Scripts) /\ script' \in Scripts
         /\ QueueInOrder' /\ Started' = Started + 1
<1> USE DirectoryAssumption
<1>1. queue \in Seq(Scripts) /\ Len(queue) \in Nat /\ Len(queue) # 0 /\ next \in Nat
  BY DEF TypeOK
<1>2. queue' \in Seq(Scripts) /\ Len(queue') = Len(queue) - 1
  BY <1>1
<1>3. script' = queue[1] /\ queue[1] \in Scripts
  BY <1>1
<1>4. Started' = Started + 1 /\ Started \in Int
  BY <1>1, <1>2 DEF Started
<1>5. \A i \in 1 .. Len(queue') : queue'[i] = Started' + i
  <2> SUFFICES ASSUME NEW i \in 1 .. Len(queue') PROVE queue'[i] = Started' + i
    OBVIOUS
  <2>1. i + 1 \in 1 .. Len(queue) /\ queue'[i] = queue[i + 1]
    BY <1>1, <1>2
  <2>2. queue[i + 1] = Started + (i + 1)
    BY <2>1 DEF QueueInOrder
  <2> QED
    BY <1>4, <2>1, <2>2
<1>6. script' = Started'
  BY <1>1, <1>3, <1>4 DEF QueueInOrder
<1>7. \A s \in Scripts : went'[s] # {} => s <= Started'
  BY <1>4 DEF QueueInOrder, Scripts
<1> QED
  BY <1>2, <1>3, <1>4, <1>5, <1>6, <1>7 DEF QueueInOrder

\* The steps that post nothing, start nothing and move nothing.
LEMMA QueueRests ==
  ASSUME QueueInOrder, UNCHANGED <<queue, next, went>>, script' \in {0, script}
  PROVE  QueueInOrder' /\ Started' = Started
BY DEF QueueInOrder, Started

-------------------------------------------------------------------------------
\* What a step that moves nothing keeps.
LEMMA Stays ==
  ASSUME TypeOK, DirInv, Running, UNCHANGED <<cwd, went, answer>>, Started <= Started', Started' \in Int
  PROVE  MovedByScripts' /\ AskedByScripts'
<1>1. Started \in Int /\ answer.to \in Int
  BY DirectoryAssumption DEF TypeOK, Started
<1>2. MovedByScripts'
  BY <1>1 DEF DirInv, MovedByScripts
<1>3. AskedByScripts'
  BY <1>1 DEF DirInv, AskedByScripts, GetcwdExplained
<1> QED
  BY <1>2, <1>3

LEMMA DirRead == TypeOK /\ DirInv /\ ReadArgument => TypeOK' /\ DirInv'
<1> SUFFICES ASSUME TypeOK, DirInv, ReadArgument PROVE TypeOK' /\ DirInv'
  OBVIOUS
<1> USE DirectoryAssumption
<1>0. Started \in Int /\ next \in Arguments /\ next \in Scripts /\ next - 1 \in Nat /\ Len(queue) \in Nat
  BY DEF TypeOK, Started, ReadArgument, Arguments, Scripts
<1>1. ASSUME Readable(next), readIn' = [readIn EXCEPT ![next] = cwd],
             queue' = Append(queue, next), next' = next + 1, UNCHANGED process
      PROVE  TypeOK' /\ DirInv'
  <2>1. queue' \in Seq(Scripts) /\ next' \in 1 .. Args + Typed + 1 /\ QueueInOrder' /\ Started' = Started
    BY <1>0, <1>1, Posted DEF ReadArgument, DirInv
  <2>2. TypeOK'
    BY <1>0, <1>1, <2>1 DEF ReadArgument, TypeOK
  <2>3. MovedByScripts' /\ AskedByScripts'
    BY <1>0, <2>1, Stays DEF ReadArgument
  <2>4. HistoryOpen' /\ HistoryExplained' /\ UnreadableExplained'
    BY <1>1 DEF ReadArgument, DirInv, HistoryOpen, HistoryExplained, UnreadableExplained, Running
  <2>5. ReadsExplained'
    <3>1. cwd \in {Launch} \cup UNION {went[b] : b \in 1 .. next - 1}
      BY <1>0 DEF DirInv, MovedByScripts, Started
    <3>2. readIn'[next] = cwd /\ \A a \in Arguments : a # next => readIn'[a] = readIn[a]
      BY <1>0, <1>1 DEF TypeOK
    <3> QED
      BY <3>1, <3>2 DEF ReadArgument, DirInv, ReadsExplained
  <2> QED
    BY <2>1, <2>2, <2>3, <2>4, <2>5 DEF DirInv
<1>2. ASSUME ~Readable(next), process' = "unreadable", UNCHANGED <<readIn, queue, next>>
      PROVE  TypeOK' /\ DirInv'
  <2>1. QueueInOrder' /\ Started' = Started
    BY <1>2, QueueRests DEF ReadArgument, DirInv
  <2>2. TypeOK'
    BY <1>2 DEF ReadArgument, TypeOK
  <2>3. MovedByScripts' /\ AskedByScripts'
    BY <1>0, <2>1, Stays DEF ReadArgument
  <2>4. HistoryOpen' /\ HistoryExplained' /\ ReadsExplained'
    BY <1>2 DEF ReadArgument, DirInv, HistoryOpen, HistoryExplained, ReadsExplained, Running
  <2>5. UnreadableExplained'
    <3>1. cwd = Launch \/ \E b \in 1 .. next - 1 : went[b] # {}
      BY <1>0 DEF DirInv, MovedByScripts, Started
    <3>2. cwd \in removed \/ next \notin FilesIn[cwd]
      BY <1>2 DEF Readable
    <3> QED
      BY <1>2, <3>1, <3>2 DEF ReadArgument, UnreadableExplained
  <2> QED
    BY <2>1, <2>2, <2>3, <2>4, <2>5 DEF DirInv
<1> QED
  BY <1>1, <1>2 DEF ReadArgument

LEMMA DirType == TypeOK /\ DirInv /\ TypeScript => TypeOK' /\ DirInv'
<1> SUFFICES ASSUME TypeOK, DirInv, TypeScript PROVE TypeOK' /\ DirInv'
  OBVIOUS
<1> USE DirectoryAssumption
<1>0. Started \in Int /\ next \in Scripts
  BY DEF TypeOK, Started, TypeScript, Scripts
<1>1. queue' \in Seq(Scripts) /\ next' \in 1 .. Args + Typed + 1 /\ QueueInOrder' /\ Started' = Started
  BY <1>0, Posted DEF TypeScript, DirInv
<1>2. TypeOK'
  BY <1>1 DEF TypeScript, TypeOK
<1>3. MovedByScripts' /\ AskedByScripts'
  BY <1>0, <1>1, Stays DEF TypeScript
<1>4. HistoryOpen' /\ HistoryExplained' /\ ReadsExplained' /\ UnreadableExplained'
  BY DEF TypeScript, DirInv, HistoryOpen, HistoryExplained, ReadsExplained, UnreadableExplained, Running
<1> QED
  BY <1>1, <1>2, <1>3, <1>4 DEF DirInv

LEMMA DirExit == TypeOK /\ DirInv /\ Exit => TypeOK' /\ DirInv'
<1> SUFFICES ASSUME TypeOK, DirInv, Exit PROVE TypeOK' /\ DirInv'
  OBVIOUS
<1> USE DirectoryAssumption
<1>1. history' \in [loaded : Dirs \cup {NoDir}, saved : Dirs \cup {NoDir}] /\ history'.loaded = history.loaded
      /\ (history' = history \/ (Mode = "repl" /\ history'.saved = cwd))
  BY DEF Exit, TypeOK
<1>2. TypeOK'
  BY <1>1 DEF Exit, TypeOK
<1>3. QueueInOrder' /\ Started' = Started
  BY QueueRests DEF Exit, DirInv
<1>4. MovedByScripts' /\ AskedByScripts'
  BY <1>3, Stays DEF Exit, TypeOK, Started
<1>5. HistoryOpen' /\ ReadsExplained' /\ UnreadableExplained'
  BY <1>1 DEF Exit, DirInv, HistoryOpen, ReadsExplained, UnreadableExplained, Running
<1>6. HistoryExplained'
  <2>1. Started \in Int /\ \A b \in 1 .. Started : b \in Scripts
    BY DEF Started, Exit, TypeOK, Scripts
  <2>2. cwd \in {Launch} \cup UNION {went[s] : s \in Scripts}
    BY <2>1 DEF DirInv, MovedByScripts
  <2>3. history.saved = NoDir /\ (Mode = "repl" => history.loaded = Launch /\ Launch # NoDir)
    BY DEF Exit, DirInv, HistoryOpen, Running
  <2> QED
    BY <1>1, <2>2, <2>3 DEF Exit, HistoryExplained
<1> QED
  BY <1>2, <1>3, <1>4, <1>5, <1>6 DEF DirInv

LEMMA DirRun == TypeOK /\ DirInv /\ RunScript => TypeOK' /\ DirInv'
<1> SUFFICES ASSUME TypeOK, DirInv, RunScript PROVE TypeOK' /\ DirInv'
  OBVIOUS
<1> USE DirectoryAssumption
<1>1. queue' \in Seq(Scripts) /\ script' \in Scripts /\ QueueInOrder' /\ Started' = Started + 1
  BY Started1 DEF RunScript, DirInv
<1>2. TypeOK'
  BY <1>1 DEF RunScript, TypeOK, Scripts
<1>3. MovedByScripts' /\ AskedByScripts'
  BY <1>1, Stays DEF RunScript, TypeOK, Started
<1>4. HistoryOpen' /\ HistoryExplained' /\ ReadsExplained' /\ UnreadableExplained'
  BY DEF RunScript, DirInv, HistoryOpen, HistoryExplained, ReadsExplained, UnreadableExplained, Running
<1> QED
  BY <1>1, <1>2, <1>3, <1>4 DEF DirInv

LEMMA DirChange == TypeOK /\ DirInv /\ (\E d \in Dirs : ChangeDirectory(d)) => TypeOK' /\ DirInv'
<1> SUFFICES ASSUME TypeOK, DirInv, NEW d \in Dirs, ChangeDirectory(d) PROVE TypeOK' /\ DirInv'
  OBVIOUS
<1> USE DirectoryAssumption
<1>0. script \in Scripts /\ Started \in Int /\ script = Started
  BY DEF ChangeDirectory, Called, InScript, TypeOK, Scripts, DirInv, QueueInOrder, Started
<1>1. /\ went' \in [Scripts -> SUBSET Dirs] /\ went'[script] = went[script] \cup {d}
      /\ \A s \in Scripts : s # script => went'[s] = went[s]
  BY <1>0 DEF ChangeDirectory, TypeOK
<1>2. TypeOK'
  BY <1>1 DEF ChangeDirectory, Called, TypeOK
<1>3. QueueInOrder' /\ Started' = Started
  <2>1. Started' = Started
    BY DEF ChangeDirectory, Started
  <2> QED
    BY <1>0, <1>1, <2>1 DEF ChangeDirectory, DirInv, QueueInOrder, Scripts
<1>4. \A n \in Int : n <= Args + Typed => UNION {went[b] : b \in 1 .. n} \subseteq UNION {went'[b] : b \in 1 .. n}
  BY <1>1 DEF Scripts
<1>5. MovedByScripts'
  <2>1. d \in went'[script] /\ script \in 1 .. Started'
    BY <1>0, <1>1, <1>3 DEF Scripts
  <2> QED
    BY <2>1 DEF ChangeDirectory, MovedByScripts
<1>6. AskedByScripts'
  BY <1>3, <1>4 DEF ChangeDirectory, DirInv, AskedByScripts, GetcwdExplained, TypeOK
<1>7. ReadsExplained'
  BY <1>4 DEF ChangeDirectory, DirInv, ReadsExplained, Arguments
<1>8. UnreadableExplained' /\ HistoryOpen' /\ HistoryExplained'
  BY DEF ChangeDirectory, Called, InScript, DirInv, UnreadableExplained, HistoryOpen, HistoryExplained, Running
<1> QED
  BY <1>2, <1>3, <1>5, <1>6, <1>7, <1>8 DEF DirInv

LEMMA DirAsk == TypeOK /\ DirInv /\ GetCurrentWorkingDirectory => TypeOK' /\ DirInv'
<1> SUFFICES ASSUME TypeOK, DirInv, GetCurrentWorkingDirectory PROVE TypeOK' /\ DirInv'
  OBVIOUS
<1> USE DirectoryAssumption
<1>0. script \in Scripts /\ Started \in Int /\ script = Started
  BY DEF GetCurrentWorkingDirectory, Answers, Called, InScript, TypeOK, Scripts, DirInv, QueueInOrder, Started
<1>1. answer'.path \in {cwd, Empty} /\ answer'.to = script /\ answer' = [path |-> answer'.path, to |-> script]
  BY DEF GetCurrentWorkingDirectory, Answers
<1>2. TypeOK'
  BY <1>0, <1>1 DEF GetCurrentWorkingDirectory, Answers, Called, TypeOK, Scripts
<1>3. QueueInOrder' /\ Started' = Started
  BY QueueRests DEF GetCurrentWorkingDirectory, Answers, DirInv
<1>4. MovedByScripts'
  BY <1>3 DEF GetCurrentWorkingDirectory, Answers, DirInv, MovedByScripts
<1>5. AskedByScripts'
  BY <1>0, <1>1, <1>3 DEF GetCurrentWorkingDirectory, Answers, DirInv, MovedByScripts, AskedByScripts, GetcwdExplained
<1>6. ReadsExplained' /\ UnreadableExplained' /\ HistoryOpen' /\ HistoryExplained'
  BY DEF GetCurrentWorkingDirectory, Answers, DirInv, ReadsExplained, UnreadableExplained, HistoryOpen,
         HistoryExplained, Running
<1> QED
  BY <1>2, <1>3, <1>4, <1>5, <1>6 DEF DirInv

LEMMA DirOther ==
  TypeOK /\ DirInv /\ (ScriptEnds \/ \E d \in Dirs : Removed(d)) => TypeOK' /\ DirInv'
<1> SUFFICES ASSUME TypeOK, DirInv, ScriptEnds \/ \E d \in Dirs : Removed(d) PROVE TypeOK' /\ DirInv'
  OBVIOUS
<1> USE DirectoryAssumption
<1>1. Running /\ UNCHANGED <<cwd, next, readIn, queue, calls, went, answer, history, process>>
      /\ script' \in {0, script}
  BY DEF ScriptEnds, InScript, Removed
<1>2. TypeOK'
  BY <1>1 DEF ScriptEnds, InScript, Removed, TypeOK
<1>3. QueueInOrder' /\ Started' = Started
  BY <1>1, QueueRests DEF DirInv
<1>4. MovedByScripts' /\ AskedByScripts'
  BY <1>1, <1>3, Stays DEF TypeOK, Started
<1>5. ReadsExplained' /\ HistoryOpen' /\ HistoryExplained'
  BY <1>1 DEF DirInv, ReadsExplained, HistoryOpen, HistoryExplained, Running
<1>6. UnreadableExplained'
  BY <1>1 DEF UnreadableExplained, Running
<1> QED
  BY <1>2, <1>3, <1>4, <1>5, <1>6 DEF DirInv

LEMMA DirStutter == TypeOK /\ DirInv /\ UNCHANGED vars => TypeOK' /\ DirInv'
<1> SUFFICES ASSUME TypeOK, DirInv, UNCHANGED vars PROVE TypeOK' /\ DirInv'
  OBVIOUS
<1> USE DEF vars
<1>1. TypeOK'
  BY DEF TypeOK
<1>2. QueueInOrder' /\ MovedByScripts' /\ AskedByScripts'
  BY DEF DirInv, QueueInOrder, Started, MovedByScripts, AskedByScripts, GetcwdExplained
<1>3. ReadsExplained' /\ UnreadableExplained' /\ HistoryOpen' /\ HistoryExplained'
  BY DEF DirInv, ReadsExplained, UnreadableExplained, HistoryOpen, HistoryExplained, Running
<1> QED
  BY <1>1, <1>2, <1>3 DEF DirInv

-------------------------------------------------------------------------------
\* The inductive invariant.
LEMMA DirInvariant == Spec => [](TypeOK /\ DirInv)
<1>1. TypeOK /\ DirInv /\ [Next]_vars => (TypeOK /\ DirInv)'
  BY DirRead, DirType, DirExit, DirRun, DirChange, DirAsk, DirOther, DirStutter DEF Next
<1> QED
  BY <1>1, DirInit, PTL DEF Spec

\* A file is looked up where the user named it or where a script of an earlier
\* argument went, and the program dies of an unreadable one only if it cannot be
\* read where the user named it, an earlier script moved, or the directory is lost.
THEOREM FilesAreExplained == Spec => []FilesExplained
<1>1. DirInv => FilesExplained
  BY DEF DirInv, FilesExplained
<1> QED
  BY <1>1, DirInvariant, PTL

\* os.getcwd tells where the scripts up to the asking one went.
THEOREM GetcwdIsExplained == Spec => []GetcwdExplained
<1>1. DirInv => GetcwdExplained
  BY DEF DirInv, AskedByScripts
<1> QED
  BY <1>1, DirInvariant, PTL

\* The history is saved where it was loaded or where a script went.
THEOREM HistoryIsFound == Spec => []HistoryExplained
<1>1. DirInv => HistoryExplained
  BY DEF DirInv
<1> QED
  BY <1>1, DirInvariant, PTL
===============================================================================
