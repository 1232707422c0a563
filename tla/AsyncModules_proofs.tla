-------------------------- MODULE AsyncModules_proofs --------------------------
(***************************************************************************)
(* The registry for any ids, bodies, factories and scripts, cyclic or not: *)
(* types, promises that wait, modules that are not left behind, and what   *)
(* was loaded being available for good.                                    *)
(***************************************************************************)
EXTENDS AsyncModules, StackLemmas

-------------------------------------------------------------------------------
(***************************************************************************)
(* Operations and frames.                                                  *)
(***************************************************************************)
\* The program that was chosen has its types.
LEMMA ProgramType ==
    ASSUME TypeOK
    PROVE  /\ Body \in [Sourced -> Seq(Operations)]
           /\ Factory \in [Names -> Seq(Operations)]
           /\ Scripts \subseteq Seq(Operations)
           /\ MaxDepth \in Nat /\ Sourced \subseteq Names /\ NoName \notin Names
  BY ProgramsAssumption
     DEF TypeOK, ProgramKinds, Body, Factory, Scripts, MaxDepth

\* Dependencies are sequences of ids.
LEMMA DependenciesType ==
    ASSUME NEW deps \in Dependencies
    PROVE  deps \in Seq(Names)
<1>1. PICK k \in 0 .. 2 : deps \in [1 .. k -> Names]
  BY DEF Dependencies
<1>2. k \in Nat
  OBVIOUS
<1> QED
  BY <1>1, <1>2, SeqDef

LEMMA OperationType ==
    ASSUME NEW o \in Operations
    PROVE  /\ o.id \in Names
           /\ o.op = "define" => o.deps \in Dependencies
  BY DEF Operations

LEMMA CodeFrame ==
    ASSUME NEW kind \in CodeKinds, NEW id \in Names \cup {NoName}, NEW run \in Nat,
           NEW todo \in Seq(Operations)
    PROVE  /\ Code(kind, id, run, todo) \in Frames
           /\ Code(kind, id, run, todo).kind = kind /\ Code(kind, id, run, todo).id = id
  BY DEF Code, Frames

LEMMA LoopFrame ==
    /\ \A deps \in Seq(Names) : [kind |-> "loading", left |-> deps] \in Frames
    /\ \A q \in Seq(Pending), b \in BOOLEAN :
          [kind |-> "trying", left |-> q, again |-> b] \in Frames
  BY DEF Frames

\* What a frame of each kind has, and its next state.
LEMMA FrameType ==
    ASSUME NEW f \in Frames
    PROVE  /\ f.kind \in CodeKinds \cup {"loading", "trying"}
           /\ f.kind \in CodeKinds =>
                 /\ f.id \in Names \cup {NoName} /\ f.run \in Nat /\ f.todo \in Seq(Operations)
                 /\ \A t \in Seq(Operations) :
                       LET g == [f EXCEPT !.todo = t]
                       IN  g \in Frames /\ g.kind = f.kind /\ g.id = f.id
           /\ f.kind = "loading" =>
                 /\ f.left \in Seq(Names)
                 /\ \A q \in Seq(Names) :
                       LET g == [f EXCEPT !.left = q]
                       IN  g \in Frames /\ g.kind = "loading"
           /\ f.kind = "trying" =>
                 /\ f.left \in Seq(Pending) /\ f.again \in BOOLEAN
                 /\ \A q \in Seq(Pending), b \in BOOLEAN :
                       LET g == [f EXCEPT !.left = q, !.again = b]
                       IN  g \in Frames /\ g.kind = "trying" /\ g.again = b
<1>1. CASE f \in [kind : CodeKinds, id : Names \cup {NoName}, run : Nat, todo : Seq(Operations)]
  <2>1. f.kind \in CodeKinds /\ f.id \in Names \cup {NoName} /\ f.run \in Nat
        /\ f.todo \in Seq(Operations)
    BY <1>1
  <2>2. ASSUME NEW t \in Seq(Operations)
        PROVE  LET g == [f EXCEPT !.todo = t]
               IN  g \in Frames /\ g.kind = f.kind /\ g.id = f.id
    BY <1>1 DEF Frames
  <2> QED
    BY <2>1, <2>2 DEF CodeKinds
<1>2. CASE f \in [kind : {"loading"}, left : Seq(Names)]
  <2>1. f.kind = "loading" /\ f.left \in Seq(Names)
    BY <1>2
  <2>2. ASSUME NEW q \in Seq(Names)
        PROVE  LET g == [f EXCEPT !.left = q] IN g \in Frames /\ g.kind = "loading"
    BY <1>2 DEF Frames
  <2> QED
    BY <2>1, <2>2 DEF CodeKinds
<1>3. CASE f \in [kind : {"trying"}, left : Seq(Pending), again : BOOLEAN]
  <2>1. f.kind = "trying" /\ f.left \in Seq(Pending) /\ f.again \in BOOLEAN
    BY <1>3
  <2>2. ASSUME NEW q \in Seq(Pending), NEW b \in BOOLEAN
        PROVE  LET g == [f EXCEPT !.left = q, !.again = b]
               IN  g \in Frames /\ g.kind = "trying" /\ g.again = b
    BY <1>3 DEF Frames
  <2> QED
    BY <2>1, <2>2 DEF CodeKinds
<1> QED
  BY <1>1, <1>2, <1>3 DEF Frames

-------------------------------------------------------------------------------
(***************************************************************************)
(* The stack.                                                              *)
(***************************************************************************)
StackOK(s) == s \in Seq(Frames) /\ WellNested(s)

\* From s to t no attempt that is due is lost.
Keeps(s, t) == AttemptIsDue(s) => AttemptIsDue(t)

\* The running frame goes on.
LEMMA Updated ==
    ASSUME NEW s, StackOK(s), s # <<>>, NEW g \in Frames,
           \/ Last(s).kind \notin CodeKinds /\ g.kind \notin CodeKinds
           \/ g.kind = Last(s).kind /\ g.id = Last(s).id
    PROVE  LET t == [s EXCEPT ![Len(s)] = g]
           IN  /\ StackOK(t) /\ t # <<>> /\ Last(t) = g /\ Len(t) = Len(s)
               /\ (TriesAgain(Last(s)) => TriesAgain(g)) => Keeps(s, t)
<1> DEFINE t == [s EXCEPT ![Len(s)] = g]
<1>1. s \in Seq(Frames) /\ Len(s) \in Nat \ {0} /\ DOMAIN s = 1 .. Len(s) /\ Last(s) = s[Len(s)]
  BY FrontOfStack DEF StackOK
<1>2. /\ t \in Seq(Frames) /\ t # <<>> /\ Len(t) = Len(s) /\ DOMAIN t = DOMAIN s
      /\ t[Len(s)] = g /\ \A i \in DOMAIN s : i # Len(s) => t[i] = s[i]
  BY <1>1, TopUpdated
<1>3. Last(t) = g
  BY <1>2, FrontOfStack
<1> HIDE DEF t
<1>4. ASSUME NEW k \in DOMAIN t
      PROVE  /\ t[k].kind = "script" => k = 1
             /\ t[k].kind \in {"require", "load"} => t[k].id \in Sourced
             /\ t[k].kind = "factory" => t[k].id \in Names
             /\ t[k].kind = "factory" /\ t[k].id \in Sourced => k > 1 /\ TriesAgain(t[k - 1])
  <2>1. /\ s[k].kind = "script" => k = 1
        /\ s[k].kind \in {"require", "load"} => s[k].id \in Sourced
        /\ s[k].kind = "factory" => s[k].id \in Names
        /\ s[k].kind = "factory" /\ s[k].id \in Sourced => k > 1 /\ TriesAgain(s[k - 1])
    BY <1>2 DEF StackOK, WellNested
  <2>2. k > 1 => t[k - 1] = s[k - 1]
    BY <1>1, <1>2
  <2>3. CASE k # Len(s)
    BY <1>2, <2>1, <2>2, <2>3
  <2>4. CASE k = Len(s)
    BY <1>1, <1>2, <2>1, <2>2, <2>4 DEF CodeKinds
  <2> QED
    BY <2>3, <2>4
<1>5. WellNested(t)
  BY <1>4 DEF WellNested
<1>6. ASSUME TriesAgain(Last(s)) => TriesAgain(g) PROVE Keeps(s, t)
  BY <1>1, <1>2, <1>6 DEF Keeps, AttemptIsDue
<1> QED
  BY <1>2, <1>3, <1>5, <1>6 DEF StackOK, t

\* A call.
LEMMA Pushed ==
    ASSUME NEW s, StackOK(s), NEW f \in Frames,
           f.kind = "script" => s = <<>>,
           f.kind \in {"require", "load"} => f.id \in Sourced,
           f.kind = "factory" => f.id \in Names,
           f.kind = "factory" /\ f.id \in Sourced => s # <<>> /\ TriesAgain(Last(s))
    PROVE  /\ StackOK(Append(s, f)) /\ Keeps(s, Append(s, f))
           /\ Append(s, f) # <<>> /\ Last(Append(s, f)) = f
<1> DEFINE t == Append(s, f)
<1>1. s \in Seq(Frames) /\ Len(s) \in Nat /\ DOMAIN s = 1 .. Len(s)
  BY DEF StackOK
<1>2. /\ t \in Seq(Frames) /\ DOMAIN t = 1 .. Len(s) + 1 /\ t[Len(s) + 1] = f
      /\ \A i \in 1 .. Len(s) : t[i] = s[i]
  BY <1>1, PushOnStack
<1>3. t # <<>> /\ Len(t) = Len(s) + 1
  BY <1>1
<1>4. Last(t) = f
  BY <1>2, <1>3 DEF Last
<1>5. s # <<>> => Last(s) = s[Len(s)] /\ Len(s) \in Nat \ {0}
  BY <1>1, FrontOfStack
<1> HIDE DEF t
<1>6. ASSUME NEW k \in DOMAIN t
      PROVE  /\ t[k].kind = "script" => k = 1
             /\ t[k].kind \in {"require", "load"} => t[k].id \in Sourced
             /\ t[k].kind = "factory" => t[k].id \in Names
             /\ t[k].kind = "factory" /\ t[k].id \in Sourced => k > 1 /\ TriesAgain(t[k - 1])
  <2>1. CASE k \in 1 .. Len(s)
    <3>1. /\ s[k].kind = "script" => k = 1
          /\ s[k].kind \in {"require", "load"} => s[k].id \in Sourced
          /\ s[k].kind = "factory" => s[k].id \in Names
          /\ s[k].kind = "factory" /\ s[k].id \in Sourced => k > 1 /\ TriesAgain(s[k - 1])
      BY <1>1, <2>1 DEF StackOK, WellNested
    <3>2. k > 1 => t[k - 1] = s[k - 1]
      BY <1>1, <1>2, <2>1
    <3> QED
      BY <1>2, <2>1, <3>1, <3>2
  <2>2. CASE k = Len(s) + 1
    <3>1. s = <<>> => k = 1
      BY <2>2
    <3>2. s # <<>> => k > 1 /\ t[k - 1] = Last(s)
      BY <1>1, <1>2, <1>5, <2>2
    <3> QED
      BY <1>2, <2>2, <3>1, <3>2
  <2> QED
    BY <1>1, <1>2, <2>1, <2>2
<1>7. WellNested(t)
  BY <1>6 DEF WellNested
<1>8. Keeps(s, t)
  BY <1>1, <1>2 DEF Keeps, AttemptIsDue
<1> QED
  BY <1>2, <1>3, <1>4, <1>7, <1>8 DEF StackOK, t

\* A return.  Below the factory of a sourced id an attempt is due.
LEMMA Popped ==
    ASSUME NEW s, StackOK(s), s # <<>>
    PROVE  /\ StackOK(Front(s)) /\ Last(s) \in Frames
           /\ ~TriesAgain(Last(s)) => Keeps(s, Front(s))
           /\ Last(s).kind \in {"require", "load"} => Last(s).id \in Sourced
           /\ Last(s).kind = "factory" => Last(s).id \in Names
           /\ Last(s).kind = "factory" /\ Last(s).id \in Sourced => AttemptIsDue(Front(s))
           /\ Last(s).kind = "script" => ~AttemptIsDue(s)
<1> DEFINE t == Front(s)
<1>1. /\ t \in Seq(Frames) /\ Len(s) \in Nat \ {0} /\ DOMAIN t = 1 .. Len(s) - 1
      /\ DOMAIN s = 1 .. Len(s) /\ Last(s) \in Frames /\ Last(s) = s[Len(s)]
      /\ \A i \in 1 .. Len(s) - 1 : t[i] = s[i]
  BY FrontOfStack DEF StackOK
<1> HIDE DEF t
<1>2. \A k \in DOMAIN s :
        /\ s[k].kind = "script" => k = 1
        /\ s[k].kind \in {"require", "load"} => s[k].id \in Sourced
        /\ s[k].kind = "factory" => s[k].id \in Names
        /\ s[k].kind = "factory" /\ s[k].id \in Sourced => k > 1 /\ TriesAgain(s[k - 1])
  BY DEF StackOK, WellNested
<1>3. WellNested(t)
  <2>1. \A k \in DOMAIN t : k \in DOMAIN s /\ t[k] = s[k] /\ (k > 1 => t[k - 1] = s[k - 1])
    BY <1>1
  <2> QED
    BY <1>2, <2>1 DEF WellNested
<1>4. ASSUME ~TriesAgain(Last(s)) PROVE Keeps(s, t)
  <2>1. SUFFICES ASSUME NEW k \in DOMAIN s, TriesAgain(s[k]) PROVE AttemptIsDue(t)
    BY DEF Keeps, AttemptIsDue
  <2>2. k # Len(s)
    BY <1>1, <1>4, <2>1
  <2>3. k \in DOMAIN t /\ t[k] = s[k]
    BY <1>1, <2>2
  <2> QED
    BY <2>1, <2>3 DEF AttemptIsDue
<1>5. Len(s) \in DOMAIN s
  BY <1>1
<1>6. ASSUME Last(s).kind = "factory", Last(s).id \in Sourced PROVE AttemptIsDue(t)
  <2>1. Len(s) > 1 /\ TriesAgain(s[Len(s) - 1])
    BY <1>1, <1>2, <1>5, <1>6
  <2>2. Len(s) - 1 \in DOMAIN t /\ t[Len(s) - 1] = s[Len(s) - 1]
    BY <1>1, <2>1
  <2> QED
    BY <2>1, <2>2 DEF AttemptIsDue
<1>7. ASSUME Last(s).kind = "script" PROVE ~AttemptIsDue(s)
  <2>1. Len(s) = 1
    BY <1>1, <1>2, <1>5, <1>7
  <2>2. DOMAIN s = {1} /\ s[1].kind = "script"
    BY <1>1, <1>7, <2>1
  <2> QED
    BY <2>2 DEF AttemptIsDue, TriesAgain
<1> QED
  BY <1>1, <1>2, <1>3, <1>4, <1>5, <1>6, <1>7 DEF StackOK, t

-------------------------------------------------------------------------------
(***************************************************************************)
(* The parts of the actions.                                               *)
(***************************************************************************)
Procs == {"running", "aborted", "invalidated"}

LEMMA FailsKeeps ==
    ASSUME NEW below, TypeOK, StackOK(stack), StackOK(below), Keeps(stack, below), Fails(below)
    PROVE  StackOK(stack') /\ Keeps(stack, stack') /\ failed' \in BOOLEAN /\ proc' \in Procs
<1>1. CASE Mode = "batch" /\ proc' = "aborted" /\ UNCHANGED <<stack, failed>>
  BY <1>1 DEF TypeOK, Keeps, Procs
<1>2. CASE Mode = "repl" /\ stack' = below /\ failed' = TRUE /\ UNCHANGED proc
  BY <1>2 DEF TypeOK, Keeps, Procs
<1> QED
  BY <1>1, <1>2 DEF Fails

LEMMA LoadModuleKeeps ==
    ASSUME NEW n \in Names, NEW kind \in {"require", "load"}, NEW below,
           TypeOK, StackOK(stack), StackOK(below), Keeps(stack, below),
           LoadModule(n, kind, below)
    PROVE  /\ StackOK(stack') /\ Keeps(stack, stack')
           /\ failed' \in BOOLEAN /\ proc' \in Procs /\ loads' \in [Sourced -> Nat]
<1>1. CASE /\ n \in Sourced
           /\ stack' = Append(below, Code(kind, n, 0, Body[n]))
           /\ loads' = [loads EXCEPT ![n] = IF @ = 2 THEN 2 ELSE @ + 1]
           /\ UNCHANGED <<failed, proc>>
  <2> DEFINE f == Code(kind, n, 0, Body[n])
  <2>1. Body[n] \in Seq(Operations)
    BY <1>1, ProgramType
  <2>2. f \in Frames /\ f.kind = kind /\ f.id = n
    BY <2>1, CodeFrame DEF CodeKinds
  <2> HIDE DEF f
  <2>3. StackOK(Append(below, f)) /\ Keeps(below, Append(below, f))
    BY <1>1, <2>2, Pushed
  <2>4. stack' = Append(below, f)
    BY <1>1 DEF f
  <2>5. loads' \in [Sourced -> Nat]
    BY <1>1 DEF TypeOK
  <2> QED
    BY <1>1, <2>3, <2>4, <2>5 DEF TypeOK, Keeps, Procs
<1>2. CASE Fails(below) /\ UNCHANGED loads
  BY <1>2, FailsKeeps DEF TypeOK
<1> QED
  BY <1>1, <1>2 DEF LoadModule

LEMMA LoadKeeps ==
    ASSUME NEW id \in Names, NEW below, TypeOK, StackOK(below), Keeps(stack, below),
           id \in Sourced => below # <<>> /\ TriesAgain(Last(below)),
           Load(id, below)
    PROVE  /\ StackOK(stack') /\ Keeps(stack, stack')
           /\ failed' \in BOOLEAN /\ made' \in [Names -> Nat]
<1>1. CASE stack' = below /\ UNCHANGED <<made, failed>>
  BY <1>1 DEF TypeOK
<1>2. CASE /\ made' = [made EXCEPT ![id] = @ + 1]
           /\ stack' = Append(below, Code("factory", id, made[id] + 1, Factory[id]))
           /\ UNCHANGED failed
  <2> DEFINE f == Code("factory", id, made[id] + 1, Factory[id])
  <2>1. Factory[id] \in Seq(Operations) /\ made[id] + 1 \in Nat
    BY ProgramType DEF TypeOK
  <2>2. f \in Frames /\ f.kind = "factory" /\ f.id = id
    BY <2>1, CodeFrame DEF CodeKinds
  <2> HIDE DEF f
  <2>3. StackOK(Append(below, f)) /\ Keeps(below, Append(below, f))
    BY <2>2, Pushed
  <2>4. stack' = Append(below, f)
    BY <1>2 DEF f
  <2>5. made' \in [Names -> Nat]
    BY <1>2 DEF TypeOK
  <2> QED
    BY <1>2, <2>3, <2>4, <2>5 DEF TypeOK, Keeps
<1>3. CASE stack' = below /\ failed' = TRUE /\ UNCHANGED made
  BY <1>3 DEF TypeOK
<1> QED
  BY <1>1, <1>2, <1>3 DEF Load

\* The running code has performed its next operation.
LEMMA PerformedOK ==
    ASSUME TypeOK, StackOK(stack), NEW op, NextIs(op)
    PROVE  /\ Operation \in Operations /\ Operation.op = op
           /\ StackOK(Performed) /\ Keeps(stack, Performed) /\ Performed # <<>>
<1>1. stack # <<>> /\ Top.kind \in CodeKinds /\ Top.todo # <<>> /\ Operation.op = op
  BY DEF NextIs, RunningCode, Operation
<1>2. Top \in Frames /\ Top = stack[Len(stack)] /\ Len(stack) \in DOMAIN stack
  BY <1>1, FrontOfStack DEF Top, StackOK
<1>3. Top.todo \in Seq(Operations)
  BY <1>1, <1>2, FrameType
<1>4. Operation \in Operations /\ Tail(Top.todo) \in Seq(Operations)
  BY <1>1, <1>3 DEF Operation
<1> DEFINE g == [Top EXCEPT !.todo = Tail(Top.todo)]
<1>5. g \in Frames /\ g.kind = Top.kind /\ g.id = Top.id
  <2>1. \A t \in Seq(Operations) :
          [Top EXCEPT !.todo = t] \in Frames /\ [Top EXCEPT !.todo = t].kind = Top.kind
          /\ [Top EXCEPT !.todo = t].id = Top.id
    BY <1>1, <1>2, FrameType
  <2> QED
    BY <1>4, <2>1
<1>6. Performed = [stack EXCEPT ![Len(stack)] = g]
  BY <1>2 DEF Performed
<1> HIDE DEF g
<1>7. ~TriesAgain(Last(stack))
  BY <1>1 DEF TriesAgain, Top, CodeKinds
<1>8. StackOK(Performed) /\ Keeps(stack, Performed) /\ Performed # <<>>
  BY <1>1, <1>5, <1>6, <1>7, Updated DEF Top
<1> QED
  BY <1>1, <1>4, <1>8

\* A step that makes no module available.
LEMMA StepKeeps ==
    ASSUME TypeOK, AsyncInv, UNCHANGED <<program, available>>,
           StackOK(stack'), Keeps(stack, stack') \/ pending' = <<>>,
           \/ UNCHANGED pending
           \/ pending' = <<>>
           \/ \E m \in Pending : pending' = Append(pending, m) /\ ~AllAvailable(m.deps),
           waiting' \in [Names -> Nat], made' \in [Names -> Nat], loads' \in [Sourced -> Nat],
           cached' \subseteq Sourced, failed' \in BOOLEAN, entries' \in Nat, proc' \in Procs
    PROVE  TypeOK' /\ AsyncInv'
<1>1. pending \in Seq(Pending)
  BY DEF TypeOK
<1>2. /\ pending' \in Seq(Pending)
      /\ (\E i \in DOMAIN pending' : Loadable(pending'[i]))
            => \E i \in DOMAIN pending : Loadable(pending[i])
  <2>1. CASE UNCHANGED pending
    BY <1>1, <2>1
  <2>2. CASE pending' = <<>>
    BY <2>2
  <2>3. ASSUME NEW m \in Pending, pending' = Append(pending, m), ~AllAvailable(m.deps)
        PROVE  /\ pending' \in Seq(Pending)
               /\ (\E i \in DOMAIN pending' : Loadable(pending'[i]))
                     => \E i \in DOMAIN pending : Loadable(pending[i])
    <3>1. /\ pending' \in Seq(Pending) /\ DOMAIN pending = 1 .. Len(pending)
          /\ DOMAIN pending' = 1 .. Len(pending) + 1 /\ pending'[Len(pending) + 1] = m
          /\ \A i \in 1 .. Len(pending) : pending'[i] = pending[i]
      BY <1>1, <2>3, PushOnStack
    <3>2. ~Loadable(m)
      BY <2>3 DEF Loadable, AllAvailable
    <3>3. \A i \in DOMAIN pending' : i = Len(pending) + 1 \/ i \in DOMAIN pending
      BY <1>1, <3>1
    <3> QED
      BY <3>1, <3>2, <3>3
  <2> QED
    BY <2>1, <2>2, <2>3
<1>3. NoneForgotten'
  <2>1. SUFFICES ASSUME \E i \in DOMAIN pending' : Loadable(pending[i])' PROVE AttemptIsDue(stack')
    BY DEF NoneForgotten, AttemptIsDue, TriesAgain
  <2>2. \E i \in DOMAIN pending' : Loadable(pending'[i])
    BY <2>1 DEF Loadable, Available
  <2>3. pending' # <<>>
    BY <2>2
  <2> QED
    BY <1>2, <2>2, <2>3 DEF AsyncInv, NoneForgotten, Keeps
<1>4. WellNested(stack)'
  BY DEF StackOK, WellNested, TriesAgain
<1>5. TypeOK'
  BY <1>2 DEF TypeOK, StackOK, Procs
<1> QED
  BY <1>3, <1>4, <1>5 DEF AsyncInv

-------------------------------------------------------------------------------
(***************************************************************************)
(* The steps.                                                              *)
(***************************************************************************)
LEMMA AsyncInit == Init => TypeOK /\ AsyncInv
<1> SUFFICES ASSUME Init PROVE TypeOK /\ AsyncInv
  OBVIOUS
<1>1. TypeOK
  <2>1. failed \in BOOLEAN
    BY Zenon DEF Init
  <2> QED
    BY <2>1 DEF Init, TypeOK
<1>2. AsyncInv
  BY DEF Init, AsyncInv, WellNested, NoneForgotten
<1> QED
  BY <1>1, <1>2

\* What every step may use.
LEMMA StackIsOK == TypeOK /\ AsyncInv => StackOK(stack)
  BY DEF TypeOK, AsyncInv, StackOK

LEMMA RunStringStep ==
    ASSUME TypeOK, AsyncInv, RunString, UNCHANGED program
    PROVE  TypeOK' /\ AsyncInv'
<1>1. PICK s \in Scripts : stack' = <<Code("script", NoName, 0, s)>>
  BY DEF RunString
<1> DEFINE f == Code("script", NoName, 0, s)
<1>2. f \in Frames /\ f.kind = "script"
  <2>1. s \in Seq(Operations)
    BY <1>1, ProgramType
  <2>2. "script" \in CodeKinds /\ NoName \in Names \cup {NoName} /\ 0 \in Nat
    BY DEF CodeKinds
  <2> QED
    BY <2>1, <2>2 DEF Code, Frames
<1>3. stack = <<>> /\ stack' = <<f>>
  BY <1>1 DEF RunString, Idle
<1> HIDE DEF f
<1>4. StackOK(Append(<<>>, f)) /\ Keeps(<<>>, Append(<<>>, f))
  BY <1>2, <1>3, StackIsOK, Pushed
<1>5. Append(<<>>, f) = <<f>>
  OBVIOUS
<1>6. StackOK(stack') /\ Keeps(stack, stack')
  BY <1>3, <1>4, <1>5
<1> QED
  BY <1>6, StepKeeps DEF RunString, registry, TypeOK, Procs

LEMMA RequireStep ==
    ASSUME TypeOK, AsyncInv, Require, UNCHANGED program
    PROVE  TypeOK' /\ AsyncInv'
<1>1. /\ Operation \in Operations /\ StackOK(stack) /\ StackOK(Performed)
      /\ Keeps(stack, Performed)
  BY PerformedOK, StackIsOK DEF Require
<1>2. Operation.id \in Names
  BY <1>1, OperationType
<1>3. /\ StackOK(stack') /\ Keeps(stack, stack')
      /\ failed' \in BOOLEAN /\ proc' \in Procs /\ loads' \in [Sourced -> Nat]
  <2>1. CASE stack' = Performed /\ UNCHANGED <<loads, failed, proc>>
    BY <1>1, <2>1 DEF TypeOK, Procs
  <2>2. CASE LoadModule(Operation.id, "require", Performed)
    BY <1>1, <1>2, <2>2, LoadModuleKeeps
  <2> QED
    BY <2>1, <2>2 DEF Require
<1> QED
  BY <1>3, StepKeeps DEF Require, registry, TypeOK

LEMMA RequireAsyncStep ==
    ASSUME TypeOK, AsyncInv, RequireAsync, UNCHANGED program
    PROVE  TypeOK' /\ AsyncInv'
<1>1. /\ Operation \in Operations /\ StackOK(stack) /\ StackOK(Performed)
      /\ Keeps(stack, Performed)
  BY PerformedOK, StackIsOK DEF RequireAsync
<1>2. Operation.id \in Names
  BY <1>1, OperationType
<1>3. /\ StackOK(stack') /\ Keeps(stack, stack') /\ waiting' \in [Names -> Nat]
      /\ failed' \in BOOLEAN /\ proc' \in Procs /\ loads' \in [Sourced -> Nat]
  <2>1. CASE stack' = Performed /\ UNCHANGED <<waiting, loads, failed, proc>>
    BY <1>1, <2>1 DEF TypeOK, Procs
  <2>2. CASE /\ waiting' = [waiting EXCEPT ![Operation.id] = @ + 1]
             /\ LoadModule(Operation.id, "load", Performed)
    <3>1. waiting' \in [Names -> Nat]
      BY <1>2, <2>2 DEF TypeOK
    <3> QED
      BY <1>1, <1>2, <2>2, <3>1, LoadModuleKeeps
  <2> QED
    BY <2>1, <2>2 DEF RequireAsync
<1> QED
  BY <1>3, StepKeeps DEF RequireAsync, registry, TypeOK

LEMMA DefineStep ==
    ASSUME TypeOK, AsyncInv, Define, UNCHANGED program
    PROVE  TypeOK' /\ AsyncInv'
<1> DEFINE m == [id |-> Operation.id, deps |-> Operation.deps]
           below == Performed \o Observed(m.id, m.deps)
<1>1. /\ Operation \in Operations /\ Operation.op = "define" /\ StackOK(stack)
      /\ StackOK(Performed) /\ Keeps(stack, Performed) /\ Performed # <<>>
  BY PerformedOK, StackIsOK DEF Define
<1>2. Operation.id \in Names /\ Operation.deps \in Dependencies
  BY <1>1, OperationType
<1>3. m \in Pending /\ m.id \in Names /\ m.deps \in Seq(Names) /\ m.deps = Operation.deps
  BY <1>2, DependenciesType DEF Pending
<1>4. /\ StackOK(below) /\ Keeps(stack, below)
      /\ m.id \in Sourced => below # <<>> /\ TriesAgain(Last(below))
  <2> DEFINE f == [kind |-> "loading", left |-> m.deps]
  <2>1. f \in Frames /\ f.kind = "loading"
    BY <1>3, LoopFrame
  <2>2. CASE m.id \in Sourced
    <3>1. below = Performed \o <<f>>
      BY <2>2 DEF Observed
    <3> HIDE DEF f, m, below
    <3>2. below = Append(Performed, f)
      BY <1>1, <2>1, <3>1, AppendIsConcat DEF StackOK
    <3> QED
      BY <1>1, <2>1, <3>2, Pushed DEF Keeps, TriesAgain
  <2>3. CASE m.id \notin Sourced
    <3>1. below = Performed \o <<>>
      BY <2>3 DEF Observed
    <3> HIDE DEF below, m
    <3>2. below = Performed
      BY <1>1, <3>1, ConcatEmptySeq DEF StackOK
    <3> QED
      BY <1>1, <2>3, <3>2
  <2> QED
    BY <2>2, <2>3
<1>5. \/ AllAvailable(m.deps) /\ Load(m.id, below) /\ UNCHANGED pending
      \/ /\ ~AllAvailable(m.deps) /\ pending' = Append(pending, m) /\ stack' = below
         /\ UNCHANGED <<made, failed>>
  BY DEF Define
<1> HIDE DEF m, below
<1>6. StackOK(stack') /\ Keeps(stack, stack') /\ failed' \in BOOLEAN /\ made' \in [Names -> Nat]
  <2>1. CASE Load(m.id, below)
    BY <1>3, <1>4, <2>1, LoadKeeps
  <2>2. CASE stack' = below /\ UNCHANGED <<made, failed>>
    BY <1>4, <2>2 DEF TypeOK
  <2> QED
    BY <1>5, <2>1, <2>2
<1>7. \/ UNCHANGED pending
      \/ \E d \in Pending : pending' = Append(pending, d) /\ ~AllAvailable(d.deps)
  BY <1>3, <1>5
<1> QED
  BY <1>6, <1>7, StepKeeps DEF Define, TypeOK, Procs

\* The loops of the observer and of the registry.
LEMMA LoadDependencyStep ==
    ASSUME TypeOK, AsyncInv, LoadDependency, UNCHANGED program
    PROVE  TypeOK' /\ AsyncInv'
<1> DEFINE g == [Top EXCEPT !.left = Tail(Top.left)]
           below == [stack EXCEPT ![Len(stack)].left = Tail(@)]
<1>1. StackOK(stack) /\ stack # <<>> /\ Top.kind = "loading" /\ Top.left # <<>>
  BY StackIsOK DEF LoadDependency, Running
<1>2. Top \in Frames /\ Top = stack[Len(stack)]
  BY <1>1, FrontOfStack DEF Top, StackOK
<1>3. Top.left \in Seq(Names)
  BY <1>1, <1>2, FrameType
<1>4. Head(Top.left) \in Names /\ Tail(Top.left) \in Seq(Names)
  BY <1>1, <1>3
<1>5. g \in Frames /\ g.kind = "loading"
  <2>1. \A q \in Seq(Names) :
           [Top EXCEPT !.left = q] \in Frames /\ [Top EXCEPT !.left = q].kind = "loading"
    BY <1>1, <1>2, FrameType
  <2> QED
    BY <1>4, <2>1
<1>6. below = [stack EXCEPT ![Len(stack)] = g]
  BY <1>2
<1>7. \/ stack' = below /\ UNCHANGED <<loads, failed, proc>>
      \/ LoadModule(Head(Top.left), "load", below)
  BY DEF LoadDependency
<1> HIDE DEF g, below
<1>8. StackOK(below) /\ Keeps(stack, below)
  BY <1>1, <1>5, <1>6, Updated DEF Top, TriesAgain, CodeKinds
<1>9. /\ StackOK(stack') /\ Keeps(stack, stack')
      /\ failed' \in BOOLEAN /\ proc' \in Procs /\ loads' \in [Sourced -> Nat]
  <2>1. CASE stack' = below /\ UNCHANGED <<loads, failed, proc>>
    BY <1>8, <2>1 DEF TypeOK, Procs
  <2>2. CASE LoadModule(Head(Top.left), "load", below)
    BY <1>1, <1>4, <1>8, <2>2, LoadModuleKeeps
  <2> QED
    BY <1>7, <2>1, <2>2
<1> QED
  BY <1>9, StepKeeps DEF LoadDependency, registry, TypeOK

\* A pass takes all pending modules along, so that none of them waits for one.
LEMMA StartPassKeeps ==
    ASSUME TypeOK, AsyncInv, stack # <<>>, Top.kind \in {"loading", "trying"}, StartPass
    PROVE  StackOK(stack') /\ pending' = <<>>
<1> DEFINE g == [kind |-> "trying", left |-> pending, again |-> FALSE]
<1>1. g \in Frames /\ g.kind = "trying"
  BY LoopFrame DEF TypeOK
<1>2. stack' = [stack EXCEPT ![Len(stack)] = g] /\ pending' = <<>>
  BY DEF StartPass
<1> HIDE DEF g
<1> QED
  BY <1>1, <1>2, StackIsOK, Updated DEF Top, CodeKinds

LEMMA AttemptStep ==
    ASSUME TypeOK, AsyncInv, AttemptToLoadMoreModules, UNCHANGED program
    PROVE  TypeOK' /\ AsyncInv'
<1>1. StackOK(stack') /\ pending' = <<>>
  BY StartPassKeeps DEF AttemptToLoadMoreModules, Running
<1> QED
  BY <1>1, StepKeeps DEF AttemptToLoadMoreModules, TypeOK, Procs

LEMMA TryPendingStep ==
    ASSUME TypeOK, AsyncInv, TryPending, UNCHANGED program
    PROVE  TypeOK' /\ AsyncInv'
<1> DEFINE m == Head(Top.left)
           g(loaded) == [Top EXCEPT !.left = Tail(Top.left), !.again = Top.again \/ loaded]
           tried(loaded) == [stack EXCEPT ![Len(stack)] =
                               [Top EXCEPT !.left = Tail(@), !.again = @ \/ loaded]]
<1>1. StackOK(stack) /\ stack # <<>> /\ Top.kind = "trying" /\ Top.left # <<>>
  BY StackIsOK DEF TryPending, Running
<1>2. Top \in Frames /\ Top = stack[Len(stack)]
  BY <1>1, FrontOfStack DEF Top, StackOK
<1>3. Top.left \in Seq(Pending) /\ Top.again \in BOOLEAN
  BY <1>1, <1>2, FrameType
<1>4. m \in Pending /\ m.id \in Names /\ Tail(Top.left) \in Seq(Pending)
  <2>1. m \in Pending /\ Tail(Top.left) \in Seq(Pending)
    BY <1>1, <1>3, HeadTailProperties
  <2> QED
    BY <2>1 DEF Pending
<1>5. ASSUME NEW loaded \in BOOLEAN
      PROVE  /\ StackOK(tried(loaded)) /\ Keeps(stack, tried(loaded))
             /\ tried(loaded) # <<>> /\ (loaded => TriesAgain(Last(tried(loaded))))
  <2>1. \A q \in Seq(Pending), b \in BOOLEAN :
           LET h == [Top EXCEPT !.left = q, !.again = b]
           IN  h \in Frames /\ h.kind = "trying" /\ h.again = b
    BY <1>1, <1>2, FrameType
  <2>2. (Top.again \/ loaded) \in BOOLEAN
    BY <1>3
  <2>3. g(loaded) \in Frames /\ g(loaded).kind = "trying" /\ g(loaded).again = (Top.again \/ loaded)
    BY <1>4, <2>1, <2>2
  <2>4. tried(loaded) = [stack EXCEPT ![Len(stack)] = g(loaded)]
    OBVIOUS
  <2> HIDE DEF g, tried
  <2>5. /\ TriesAgain(Top) => TriesAgain(g(loaded))
        /\ loaded => TriesAgain(g(loaded))
    BY <1>1, <2>3 DEF TriesAgain
  <2> QED
    BY <1>1, <2>3, <2>4, <2>5, Updated DEF Top, CodeKinds
<1>6. \/ AllAvailable(m.deps) /\ Load(m.id, tried(TRUE)) /\ UNCHANGED pending
      \/ /\ ~AllAvailable(m.deps) /\ pending' = Append(pending, m) /\ stack' = tried(FALSE)
         /\ UNCHANGED <<made, failed>>
  BY DEF TryPending
<1> HIDE DEF m, tried
<1>7. StackOK(stack') /\ Keeps(stack, stack') /\ failed' \in BOOLEAN /\ made' \in [Names -> Nat]
  <2>1. CASE Load(m.id, tried(TRUE))
    BY <1>4, <1>5, <2>1, LoadKeeps
  <2>2. CASE stack' = tried(FALSE) /\ UNCHANGED <<made, failed>>
    BY <1>5, <2>2 DEF TypeOK
  <2> QED
    BY <1>6, <2>1, <2>2
<1>8. \/ UNCHANGED pending
      \/ \E d \in Pending : pending' = Append(pending, d) /\ ~AllAvailable(d.deps)
  BY <1>4, <1>6
<1> QED
  BY <1>7, <1>8, StepKeeps DEF TryPending, TypeOK, Procs

LEMMA PassEndsStep ==
    ASSUME TypeOK, AsyncInv, PassEnds, UNCHANGED program
    PROVE  TypeOK' /\ AsyncInv'
<1>1. StackOK(stack) /\ stack # <<>> /\ Top.kind = "trying"
  BY StackIsOK DEF PassEnds, Running
<1>2. /\ StackOK(stack') /\ (Keeps(stack, stack') \/ pending' = <<>>)
      /\ UNCHANGED pending \/ pending' = <<>>
  <2>1. CASE StartPass
    BY <1>1, <2>1, StartPassKeeps
  <2>2. CASE ~Top.again /\ stack' = Front(stack) /\ UNCHANGED pending
    BY <1>1, <2>2, Popped DEF TriesAgain, Top
  <2> QED
    BY <2>1, <2>2 DEF PassEnds
<1> QED
  BY <1>2, StepKeeps DEF PassEnds, TypeOK, Procs

\* A factory returns: its module may be the last that pending ones lack, and
\* the loop that called it will try them, or they need an id without a source.
LEMMA FactoryReturnsStep ==
    ASSUME TypeOK, AsyncInv, FactoryReturns, UNCHANGED program
    PROVE  TypeOK' /\ AsyncInv'
<1>1. StackOK(stack) /\ stack # <<>> /\ Top.kind = "factory" /\ ~TriesAgain(Top)
  BY StackIsOK DEF FactoryReturns, Running, TriesAgain
<1>2. /\ StackOK(stack') /\ Top \in Frames /\ Top.id \in Names /\ Keeps(stack, stack')
      /\ Top.id \in Sourced => AttemptIsDue(stack')
  BY <1>1, Popped DEF FactoryReturns, Top
<1>3. Top.run \in Nat
  BY <1>1, <1>2, FrameType DEF CodeKinds
<1>4. available' \in [Names -> Nat] /\ waiting' \in [Names -> Nat]
  BY <1>3 DEF FactoryReturns, TypeOK
<1>5. TypeOK'
  BY <1>2, <1>4 DEF FactoryReturns, TypeOK, StackOK
<1>6. WellNested(stack)'
  BY <1>2 DEF StackOK, WellNested, TriesAgain
<1>7. NoneForgotten'
  <2>1. SUFFICES ASSUME NEW i \in DOMAIN pending, Loadable(pending[i])', ~AttemptIsDue(stack')
                 PROVE  FALSE
    BY DEF FactoryReturns, NoneForgotten, AttemptIsDue, TriesAgain
  <2>2. Top.id \notin Sourced /\ ~AttemptIsDue(stack)
    BY <1>2, <2>1 DEF Keeps
  <2>3. \A n \in Sourced : available'[n] = available[n]
    BY <2>2 DEF FactoryReturns, TypeOK
  <2>4. Loadable(pending[i])
    BY <2>1, <2>3 DEF Loadable, Available, FactoryReturns
  <2> QED
    BY <2>2, <2>4 DEF AsyncInv, NoneForgotten
<1> QED
  BY <1>5, <1>6, <1>7 DEF AsyncInv

LEMMA FactoryThrowsStep ==
    ASSUME TypeOK, AsyncInv, FactoryThrows, UNCHANGED program
    PROVE  TypeOK' /\ AsyncInv'
<1>1. StackOK(stack) /\ stack # <<>> /\ Top.kind = "factory" /\ ~TriesAgain(Top)
  BY StackIsOK DEF FactoryThrows, Running, TriesAgain
<1>2. StackOK(stack') /\ Keeps(stack, stack')
  BY <1>1, Popped DEF FactoryThrows, Top
<1> QED
  BY <1>2, StepKeeps DEF FactoryThrows, registry, TypeOK, Procs

LEMMA BodyEndsStep ==
    ASSUME TypeOK, AsyncInv, BodyReturns \/ BodyThrows, UNCHANGED program
    PROVE  TypeOK' /\ AsyncInv'
<1>1. StackOK(stack) /\ stack # <<>> /\ Top.kind \in {"require", "load"} /\ ~TriesAgain(Top)
  BY StackIsOK DEF BodyReturns, BodyThrows, Running, TriesAgain
<1>2. StackOK(Front(stack)) /\ Keeps(stack, Front(stack)) /\ Top.id \in Sourced
  BY <1>1, Popped DEF Top
<1>3. /\ StackOK(stack') /\ Keeps(stack, stack') /\ failed' \in BOOLEAN /\ proc' \in Procs
      /\ cached' \subseteq Sourced
      /\ UNCHANGED <<registry, loads, made, entries>>
  <2>1. CASE BodyReturns
    BY <1>2, <2>1 DEF BodyReturns, TypeOK, Procs
  <2>2. CASE BodyThrows
    BY <1>1, <1>2, <2>2, FailsKeeps DEF BodyThrows, TypeOK
  <2> QED
    BY <2>1, <2>2
<1> QED
  BY <1>3, StepKeeps DEF registry, TypeOK

\* A script is the only frame, and then no attempt is due.
LEMMA ScriptEndsStep ==
    ASSUME TypeOK, AsyncInv, ScriptReturns \/ ScriptThrows, UNCHANGED program
    PROVE  TypeOK' /\ AsyncInv'
<1>1. StackOK(stack) /\ stack # <<>> /\ Top.kind = "script"
  BY StackIsOK DEF ScriptReturns, ScriptThrows, Running
<1>2. StackOK(<<>>) /\ Keeps(stack, <<>>)
  <2>1. StackOK(<<>>)
    BY NoFrame DEF StackOK, WellNested
  <2>2. ~AttemptIsDue(stack)
    BY <1>1, Popped DEF Top
  <2> QED
    BY <2>1, <2>2 DEF Keeps
<1>3. /\ StackOK(stack') /\ Keeps(stack, stack') /\ failed' \in BOOLEAN /\ proc' \in Procs
      /\ UNCHANGED <<registry, cached, loads, made, entries>>
  <2>1. CASE ScriptReturns
    BY <1>2, <2>1 DEF ScriptReturns, TypeOK, Procs
  <2>2. CASE ScriptThrows
    BY <1>1, <1>2, <2>2, FailsKeeps DEF ScriptThrows
  <2> QED
    BY <2>1, <2>2
<1> QED
  BY <1>3, StepKeeps DEF registry, TypeOK

LEMMA AsyncStep == TypeOK /\ AsyncInv /\ [Next]_vars => TypeOK' /\ AsyncInv'
<1> SUFFICES ASSUME TypeOK, AsyncInv, [Next]_vars PROVE TypeOK' /\ AsyncInv'
  OBVIOUS
<1>1. CASE UNCHANGED vars
  BY <1>1, StackIsOK, StepKeeps DEF vars, registry, TypeOK, Procs, Keeps
<1>2. CASE Invalidate /\ UNCHANGED program
  BY <1>2, StackIsOK, StepKeeps DEF Invalidate, registry, TypeOK, Procs, Keeps
<1>3. CASE Execute /\ UNCHANGED program
  BY <1>3, RequireStep, RequireAsyncStep, DefineStep, LoadDependencyStep, AttemptStep,
     TryPendingStep, PassEndsStep, FactoryReturnsStep, BodyEndsStep, ScriptEndsStep DEF Execute
<1>4. CASE Throw /\ UNCHANGED program
  BY <1>4, FactoryThrowsStep, BodyEndsStep, ScriptEndsStep DEF Throw
<1>5. CASE RunString /\ UNCHANGED program
  BY <1>5, RunStringStep
<1> QED
  BY <1>1, <1>2, <1>3, <1>4, <1>5 DEF Next, Ended

LEMMA AsyncInvariant == Spec => [](TypeOK /\ AsyncInv)
  BY AsyncInit, AsyncStep, PTL DEF Spec

-------------------------------------------------------------------------------
\* The registry, the promises and the stack keep their types.
THEOREM AsyncTypes == Spec => []TypeOK
  BY AsyncInvariant, PTL

\* When no code runs no pending module has all it needs, whatever cycles, failures
\* and re-entrant definitions there were, but for those that need an id without
\* a source.
THEOREM NoneIsStranded == Spec => []NothingStranded
<1>1. TypeOK /\ AsyncInv => NothingStranded
  <2> SUFFICES ASSUME AsyncInv, Idle, NEW i \in DOMAIN pending, AllAvailable(pending[i].deps)
               PROVE  \E j \in DOMAIN pending[i].deps : pending[i].deps[j] \notin Sourced
    BY DEF NothingStranded
  <2>1. ~AttemptIsDue(stack)
    BY DEF Idle, AttemptIsDue
  <2>2. ~Loadable(pending[i])
    BY <2>1 DEF AsyncInv, NoneForgotten
  <2> QED
    BY <2>2 DEF Loadable, AllAvailable
<1> QED
  BY <1>1, AsyncInvariant, PTL

\* A promise waits only as long as the registry lacks its module.
THEOREM PromisesWait == Spec => []PromiseLedger
<1>1. Init => PromiseLedger
  BY DEF Init, PromiseLedger
<1>2. TypeOK /\ PromiseLedger /\ [Next]_vars => PromiseLedger'
  <2> SUFFICES ASSUME TypeOK, PromiseLedger, [Next]_vars PROVE PromiseLedger'
    OBVIOUS
  <2>1. CASE UNCHANGED <<available, waiting>>
    BY <2>1 DEF PromiseLedger, Available
  <2>2. CASE RequireAsync
    BY <2>2 DEF RequireAsync, PromiseLedger, Available, TypeOK
  <2>3. CASE FactoryReturns
    BY <2>3 DEF FactoryReturns, PromiseLedger, Available, TypeOK
  <2> QED
    BY <2>1, <2>2, <2>3
       DEF Next, Execute, Throw, RunString, Require, Define, LoadDependency,
           AttemptToLoadMoreModules, TryPending, PassEnds, BodyReturns, ScriptReturns,
           FactoryThrows, BodyThrows, ScriptThrows, Invalidate, Ended, registry, vars
<1> QED
  BY <1>1, <1>2, AsyncInvariant, PTL DEF Spec

-------------------------------------------------------------------------------
(***************************************************************************)
(* The stack before and after a step, frame by frame.                      *)
(***************************************************************************)
\* The running code, before and after its next operation.
LEMMA PerformedShape ==
    ASSUME TypeOK, StackOK(stack), NEW op, NextIs(op)
    PROVE  /\ stack # <<>> /\ Len(stack) \in Nat \ {0} /\ DOMAIN stack = 1 .. Len(stack)
           /\ Performed \in Seq(Frames) /\ Len(Performed) = Len(stack)
           /\ \A i \in 1 .. Len(stack) - 1 : Performed[i] = stack[i]
           /\ LET f == stack[Len(stack)]
                  g == Performed[Len(stack)]
              IN  /\ f.kind \in CodeKinds /\ f.todo \in Seq(Operations) /\ f.todo # <<>>
                  /\ g.kind = f.kind /\ g.id = f.id /\ g.run = f.run /\ g.todo = Tail(f.todo)
                  /\ Operation = Head(f.todo) /\ Operation.op = op
<1>1. stack # <<>> /\ Top.kind \in CodeKinds /\ Top.todo # <<>> /\ Operation.op = op
  BY DEF NextIs, RunningCode, Operation
<1>2. /\ Top \in Frames /\ Top = stack[Len(stack)] /\ Len(stack) \in Nat \ {0}
      /\ DOMAIN stack = 1 .. Len(stack) /\ stack \in Seq(Frames)
  BY <1>1, FrontOfStack DEF Top, StackOK
<1>3. /\ Top.todo \in Seq(Operations) /\ Top.run \in Nat
      /\ Top.id \in Names \cup {NoName}
  BY <1>1, <1>2, FrameType
<1> DEFINE g == [Top EXCEPT !.todo = Tail(Top.todo)]
<1>4. Top \in [kind : CodeKinds, id : Names \cup {NoName}, run : Nat, todo : Seq(Operations)]
  BY <1>1, <1>2 DEF Frames, CodeKinds
<1>5. /\ g \in Frames
      /\ g.kind = Top.kind /\ g.id = Top.id /\ g.run = Top.run /\ g.todo = Tail(Top.todo)
  <2>1. Tail(Top.todo) \in Seq(Operations)
    BY <1>1, <1>3
  <2> QED
    BY <1>4, <2>1 DEF Frames
<1>6. Performed = [stack EXCEPT ![Len(stack)] = g]
  BY <1>2 DEF Performed
<1> HIDE DEF g
<1>7. /\ Performed \in Seq(Frames) /\ Len(Performed) = Len(stack)
      /\ Performed[Len(stack)] = g
      /\ \A i \in 1 .. Len(stack) - 1 : Performed[i] = stack[i]
  BY <1>1, <1>2, <1>5, <1>6, TopUpdated
<1> QED
  BY <1>1, <1>2, <1>3, <1>5, <1>7 DEF Operation

\* The loop of the observer, before and after its next dependency.
LEMMA LoadingShape ==
    ASSUME TypeOK, StackOK(stack), Running("loading"), Top.left # <<>>
    PROVE  LET t == [stack EXCEPT ![Len(stack)].left = Tail(@)]
               f == stack[Len(stack)]
           IN  /\ stack # <<>> /\ Len(stack) \in Nat \ {0} /\ DOMAIN stack = 1 .. Len(stack)
               /\ t \in Seq(Frames) /\ Len(t) = Len(stack)
               /\ \A i \in 1 .. Len(stack) - 1 : t[i] = stack[i]
               /\ f.kind = "loading" /\ f.left \in Seq(Names) /\ f.left # <<>>
               /\ t[Len(stack)].kind = "loading" /\ t[Len(stack)].left = Tail(f.left)
               /\ Top = f
<1> DEFINE g == [Top EXCEPT !.left = Tail(Top.left)]
           t == [stack EXCEPT ![Len(stack)].left = Tail(@)]
<1>1. stack # <<>> /\ Top.kind = "loading"
  BY DEF Running
<1>2. /\ Top \in Frames /\ Top = stack[Len(stack)] /\ Len(stack) \in Nat \ {0}
      /\ DOMAIN stack = 1 .. Len(stack) /\ stack \in Seq(Frames)
  BY <1>1, FrontOfStack DEF Top, StackOK
<1>3. Top \in [kind : {"loading"}, left : Seq(Names)]
  BY <1>1, <1>2 DEF Frames, CodeKinds
<1>4. g \in Frames /\ g.kind = "loading" /\ g.left = Tail(Top.left)
  <2>1. Tail(Top.left) \in Seq(Names)
    BY <1>3
  <2> QED
    BY <1>3, <2>1 DEF Frames
<1>5. t = [stack EXCEPT ![Len(stack)] = g]
  BY <1>2
<1> HIDE DEF g, t
<1>6. /\ t \in Seq(Frames) /\ Len(t) = Len(stack) /\ t[Len(stack)] = g
      /\ \A i \in 1 .. Len(stack) - 1 : t[i] = stack[i]
  BY <1>1, <1>2, <1>4, <1>5, TopUpdated
<1>7. Top.left \in Seq(Names)
  BY <1>3
<1>8. /\ t \in Seq(Frames) /\ Len(t) = Len(stack)
      /\ \A i \in 1 .. Len(stack) - 1 : t[i] = stack[i]
      /\ t[Len(stack)].kind = "loading" /\ t[Len(stack)].left = Tail(Top.left)
  BY <1>4, <1>6
<1> QED
  BY <1>1, <1>2, <1>7, <1>8 DEF t

\* The loop over the pending modules, before and after the next one.
LEMMA TryingShape ==
    ASSUME TypeOK, StackOK(stack), Running("trying"), Top.left # <<>>, NEW loaded \in BOOLEAN
    PROVE  LET t == [stack EXCEPT ![Len(stack)] =
                        [Top EXCEPT !.left = Tail(@), !.again = @ \/ loaded]]
               f == stack[Len(stack)]
           IN  /\ stack # <<>> /\ Len(stack) \in Nat \ {0} /\ DOMAIN stack = 1 .. Len(stack)
               /\ t \in Seq(Frames) /\ Len(t) = Len(stack)
               /\ \A i \in 1 .. Len(stack) - 1 : t[i] = stack[i]
               /\ f.kind = "trying" /\ f.left \in Seq(Pending) /\ f.left # <<>>
               /\ t[Len(stack)].kind = "trying" /\ t[Len(stack)].left = Tail(f.left)
               /\ Top = f
<1> DEFINE g == [Top EXCEPT !.left = Tail(Top.left), !.again = Top.again \/ loaded]
           t == [stack EXCEPT ![Len(stack)] =
                        [Top EXCEPT !.left = Tail(@), !.again = @ \/ loaded]]
<1>1. stack # <<>> /\ Top.kind = "trying"
  BY DEF Running
<1>2. /\ Top \in Frames /\ Top = stack[Len(stack)] /\ Len(stack) \in Nat \ {0}
      /\ DOMAIN stack = 1 .. Len(stack) /\ stack \in Seq(Frames)
  BY <1>1, FrontOfStack DEF Top, StackOK
<1>3. Top \in [kind : {"trying"}, left : Seq(Pending), again : BOOLEAN]
  BY <1>1, <1>2 DEF Frames, CodeKinds
<1>4. g \in Frames /\ g.kind = "trying" /\ g.left = Tail(Top.left)
  <2>1. Tail(Top.left) \in Seq(Pending)
    BY <1>3
  <2>2. (Top.again \/ loaded) \in BOOLEAN
    BY <1>3
  <2> QED
    BY <1>3, <2>1, <2>2 DEF Frames
<1>5. t = [stack EXCEPT ![Len(stack)] = g]
  BY <1>2
<1> HIDE DEF g, t
<1>6. /\ t \in Seq(Frames) /\ Len(t) = Len(stack) /\ t[Len(stack)] = g
      /\ \A i \in 1 .. Len(stack) - 1 : t[i] = stack[i]
  BY <1>1, <1>2, <1>4, <1>5, TopUpdated
<1>7. Top.left \in Seq(Pending)
  BY <1>3
<1>8. /\ t \in Seq(Frames) /\ Len(t) = Len(stack)
      /\ \A i \in 1 .. Len(stack) - 1 : t[i] = stack[i]
      /\ t[Len(stack)].kind = "trying" /\ t[Len(stack)].left = Tail(Top.left)
  BY <1>4, <1>6
<1> QED
  BY <1>1, <1>2, <1>7, <1>8 DEF t

\* The loop that begins a pass.
LEMMA StartPassShape ==
    ASSUME TypeOK, StackOK(stack), stack # <<>>, StartPass
    PROVE  /\ Len(stack) \in Nat \ {0} /\ DOMAIN stack = 1 .. Len(stack)
           /\ stack' \in Seq(Frames) /\ Len(stack') = Len(stack)
           /\ \A i \in 1 .. Len(stack) - 1 : stack'[i] = stack[i]
           /\ stack'[Len(stack)].kind = "trying" /\ stack'[Len(stack)].left = pending
           /\ pending' = <<>>
<1> DEFINE g == [kind |-> "trying", left |-> pending, again |-> FALSE]
<1>1. g \in Frames /\ g.kind = "trying" /\ g.left = pending
  BY LoopFrame DEF TypeOK
<1>2. stack' = [stack EXCEPT ![Len(stack)] = g] /\ pending' = <<>>
  BY DEF StartPass
<1> HIDE DEF g
<1>3. stack \in Seq(Frames) /\ Len(stack) \in Nat \ {0} /\ DOMAIN stack = 1 .. Len(stack)
  BY DEF StackOK
<1>4. /\ stack' \in Seq(Frames) /\ Len(stack') = Len(stack) /\ stack'[Len(stack)] = g
      /\ \A i \in 1 .. Len(stack) - 1 : stack'[i] = stack[i]
  BY <1>1, <1>2, <1>3, TopUpdated
<1> QED
  BY <1>1, <1>2, <1>3, <1>4

-------------------------------------------------------------------------------
(***************************************************************************)
(* Calls of factories are in order.                                        *)
(***************************************************************************)
\* The calls of factories in progress in t are those of s, or fewer.
NoNewCall(s, t) ==
    \A k \in DOMAIN t : t[k].kind = "factory" =>
        /\ k \in DOMAIN s /\ s[k].kind = "factory"
        /\ t[k].id = s[k].id /\ t[k].run = s[k].run

LEMMA NoNewCallKeeps ==
    ASSUME NEW s, NEW t, NoNewCall(s, t), CallsInOrder(s)
    PROVE  CallsInOrder(t)
  BY DEF NoNewCall, CallsInOrder

LEMMA NoNewCallPushed ==
    ASSUME NEW s, NEW t \in Seq(Frames), NEW f \in Frames, f.kind # "factory", NoNewCall(s, t)
    PROVE  NoNewCall(s, Append(t, f))
<1> DEFINE u == Append(t, f)
<1>1. /\ u \in Seq(Frames) /\ Len(t) \in Nat /\ DOMAIN u = 1 .. Len(t) + 1
      /\ u[Len(t) + 1] = f /\ \A i \in 1 .. Len(t) : u[i] = t[i] /\ DOMAIN t = 1 .. Len(t)
  BY PushOnStack
<1> HIDE DEF u
<1>2. \A k \in DOMAIN u : k = Len(t) + 1 \/ (k \in DOMAIN t /\ u[k] = t[k])
  BY <1>1
<1>3. NoNewCall(s, u)
  BY <1>1, <1>2 DEF NoNewCall
<1> QED
  BY <1>3 DEF u

\* A pop, and an update that leaves a factory's call what it is.
LEMMA NoNewCallPopped ==
    ASSUME StackOK(stack), stack # <<>>
    PROVE  NoNewCall(stack, Front(stack)) /\ NoNewCall(stack, <<>>) /\ NoNewCall(stack, stack)
<1>1. NoNewCall(stack, Front(stack))
  BY FrontOfStack DEF StackOK, NoNewCall
<1> QED
  BY <1>1 DEF NoNewCall

LEMMA NoNewCallUpdated ==
    ASSUME NEW t \in Seq(Frames), Len(stack) \in Nat \ {0}, Len(t) = Len(stack),
           DOMAIN stack = 1 .. Len(stack),
           \A i \in 1 .. Len(stack) - 1 : t[i] = stack[i],
           t[Len(stack)].kind = "factory" =>
               /\ stack[Len(stack)].kind = "factory"
               /\ t[Len(stack)].id = stack[Len(stack)].id
               /\ t[Len(stack)].run = stack[Len(stack)].run
    PROVE  NoNewCall(stack, t)
<1>1. DOMAIN t = 1 .. Len(stack)
  OBVIOUS
<1>2. \A k \in DOMAIN t : k = Len(stack) \/ k \in 1 .. Len(stack) - 1
  BY <1>1
<1> QED
  BY <1>1, <1>2 DEF NoNewCall

\* A step that calls no factory and registers no module.
LEMMA NoCallStep ==
    ASSUME CallsInv, UNCHANGED <<made, available>>, NoNewCall(stack, stack')
    PROVE  CallsInv'
<1>1. CallsInOrder(stack')
  BY NoNewCallKeeps DEF CallsInv
<1>2. CallsInOrder(stack)'
  BY <1>1 DEF CallsInOrder, Available
<1> QED
  BY <1>2 DEF CallsInv

\* Failing and loading a body call no factory.
LEMMA LoadModuleNoCall ==
    ASSUME NEW n \in Names, NEW kind \in {"require", "load"}, NEW below \in Seq(Frames),
           TypeOK, StackOK(stack), stack # <<>>, NoNewCall(stack, below),
           LoadModule(n, kind, below) \/ Fails(below)
    PROVE  NoNewCall(stack, stack')
<1>1. CASE Fails(below)
  BY <1>1, NoNewCallPopped DEF Fails
<1>2. CASE n \in Sourced /\ stack' = Append(below, Code(kind, n, 0, Body[n]))
  <2> DEFINE f == Code(kind, n, 0, Body[n])
  <2>1. Body[n] \in Seq(Operations)
    BY <1>2, ProgramType
  <2>2. f \in Frames /\ f.kind = kind
    BY <2>1, CodeFrame DEF CodeKinds
  <2> HIDE DEF f
  <2>3. NoNewCall(stack, Append(below, f))
    BY <2>2, NoNewCallPushed
  <2> QED
    BY <1>2, <2>3 DEF f
<1> QED
  BY <1>1, <1>2 DEF LoadModule

\* A factory is called when its module is not there, with the next number.
LEMMA LoadCalls ==
    ASSUME NEW id \in Names, NEW below \in Seq(Frames), TypeOK, StackOK(stack),
           CallsInv, NoNewCall(stack, below), Load(id, below), UNCHANGED available
    PROVE  CallsInv'
<1>1. CallsInOrder(below)
  BY NoNewCallKeeps DEF CallsInv
<1>2. CASE stack' = below /\ UNCHANGED made
  BY <1>1, <1>2 DEF CallsInv, CallsInOrder, Available
<1>3. CASE /\ ~Available(id)
           /\ made' = [made EXCEPT ![id] = @ + 1]
           /\ stack' = Append(below, Code("factory", id, made[id] + 1, Factory[id]))
  <2> DEFINE f == Code("factory", id, made[id] + 1, Factory[id])
             t == Append(below, f)
  <2>1. Factory[id] \in Seq(Operations) /\ made[id] \in Nat
    BY ProgramType DEF TypeOK
  <2>2. f \in Frames /\ f.kind = "factory" /\ f.id = id /\ f.run = made[id] + 1
    <3>1. f.run = made[id] + 1
      BY DEF Code
    <3>2. made[id] + 1 \in Nat /\ "factory" \in CodeKinds /\ id \in Names \cup {NoName}
      BY <2>1 DEF CodeKinds
    <3> QED
      BY <2>1, <3>1, <3>2, CodeFrame
  <2> HIDE DEF f
  <2>3. /\ t \in Seq(Frames) /\ Len(below) \in Nat /\ DOMAIN t = 1 .. Len(below) + 1
        /\ t[Len(below) + 1] = f /\ \A i \in 1 .. Len(below) : t[i] = below[i]
        /\ DOMAIN below = 1 .. Len(below)
    BY <2>2, PushOnStack
  <2> HIDE DEF t
  <2>4. /\ made' \in [Names -> Nat] /\ made'[id] = made[id] + 1
        /\ \A n \in Names : n # id => made'[n] = made[n]
    BY <1>3 DEF TypeOK
  <2>5. ASSUME NEW k \in DOMAIN t, t[k].kind = "factory"
        PROVE  /\ t[k].run \in 1 .. made'[t[k].id]
               /\ Available(t[k].id) => t[k].run < available[t[k].id]
               /\ \A j \in DOMAIN t :
                     j < k /\ t[j].kind = "factory" /\ t[j].id = t[k].id => t[j].run < t[k].run
    <3>1. CASE k = Len(below) + 1
      <4>1. t[k].id = id /\ t[k].run = made[id] + 1
        BY <2>2, <2>3, <3>1
      <4>2. ASSUME NEW j \in DOMAIN t, j < k, t[j].kind = "factory", t[j].id = t[k].id
            PROVE  t[j].run < t[k].run
        <5>1. j \in DOMAIN below /\ t[j] = below[j]
          BY <2>3, <3>1, <4>2
        <5>2. below[j].run \in 1 .. made[id]
          BY <1>1, <4>1, <4>2, <5>1 DEF CallsInOrder
        <5> QED
          BY <2>1, <4>1, <5>1, <5>2
      <4> QED
        BY <1>3, <2>1, <2>4, <4>1, <4>2
    <3>2. CASE k \in DOMAIN below
      <4>1. t[k] = below[k] /\ \A j \in DOMAIN t : j < k => j \in DOMAIN below /\ t[j] = below[j]
        BY <2>3, <3>2
      <4>2. /\ below[k].run \in 1 .. made[below[k].id]
            /\ Available(below[k].id) => below[k].run < available[below[k].id]
            /\ \A j \in DOMAIN below :
                 j < k /\ below[j].kind = "factory" /\ below[j].id = below[k].id
                     => below[j].run < below[k].run
        BY <1>1, <2>5, <3>2, <4>1 DEF CallsInOrder
      <4>3. below[k].id \in Names
        <5>1. k \in DOMAIN stack /\ stack[k].kind = "factory" /\ stack[k].id = below[k].id
          BY <2>5, <3>2, <4>1 DEF NoNewCall
        <5> QED
          BY <5>1 DEF StackOK, WellNested
      <4>4. below[k].run \in 1 .. made'[below[k].id]
        <5>1. made[below[k].id] \in Nat /\ made'[below[k].id] \in Nat
          BY <2>4, <4>3 DEF TypeOK
        <5>2. made[below[k].id] <= made'[below[k].id]
          BY <2>1, <2>4, <4>3, <5>1
        <5> QED
          BY <4>2, <5>1, <5>2
      <4> QED
        BY <4>1, <4>2, <4>4
    <3> QED
      BY <2>3, <3>1, <3>2
  <2>6. CallsInOrder(stack)'
    BY <1>3, <2>5 DEF CallsInOrder, Available, t, f
  <2>7. ASSUME NEW n \in Names PROVE available'[n] <= made'[n]
    <3>1. available[n] \in Nat /\ made[n] \in Nat /\ available[n] <= made[n]
      BY DEF CallsInv, TypeOK
    <3> QED
      BY <2>4, <3>1
  <2> QED
    BY <2>6, <2>7 DEF CallsInv
<1> QED
  BY <1>2, <1>3 DEF Load

\* A factory returns: the calls of it that are still in progress are earlier.
LEMMA ReturnCalls ==
    ASSUME TypeOK, StackOK(stack), CallsInv, FactoryReturns
    PROVE  /\ CallsInv'
           /\ \A n \in Names : Available(n) => available'[n] <= available[n]
<1> DEFINE L == Len(stack)
           f == stack[Len(stack)]
<1>1. /\ stack # <<>> /\ L \in Nat \ {0} /\ DOMAIN stack = 1 .. L /\ Top = f
      /\ stack' \in Seq(Frames) /\ DOMAIN stack' = 1 .. L - 1
      /\ \A i \in 1 .. L - 1 : stack'[i] = stack[i]
  BY FrontOfStack DEF FactoryReturns, Running, Top, StackOK
<1>2. f.kind = "factory" /\ f.id \in Names /\ L \in DOMAIN stack
  BY <1>1 DEF FactoryReturns, Running, StackOK, WellNested
<1>3. f.run \in 1 .. made[f.id] /\ (Available(f.id) => f.run < available[f.id])
  BY <1>2 DEF CallsInv, CallsInOrder
<1>4. /\ available' \in [DOMAIN available -> Nat \cup {f.run}]
      /\ available'[f.id] = f.run
      /\ \A n \in Names : n # f.id => available'[n] = available[n]
      /\ UNCHANGED made
  BY <1>1, <1>2 DEF FactoryReturns, TypeOK
<1>5. \A n \in Names : available[n] \in Nat /\ made[n] \in Nat /\ available[n] <= made[n]
  BY DEF CallsInv, TypeOK
<1> HIDE DEF L, f
<1>6. ASSUME NEW k \in DOMAIN stack', stack'[k].kind = "factory"
      PROVE  /\ stack'[k].run \in 1 .. made[stack'[k].id]
             /\ available'[stack'[k].id] # 0 => stack'[k].run < available'[stack'[k].id]
             /\ \A j \in DOMAIN stack' :
                   j < k /\ stack'[j].kind = "factory" /\ stack'[j].id = stack'[k].id
                       => stack'[j].run < stack'[k].run
  <2>1. /\ k \in DOMAIN stack /\ k < L /\ stack'[k] = stack[k]
        /\ \A j \in DOMAIN stack' : j \in DOMAIN stack /\ stack'[j] = stack[j]
    BY <1>1
  <2>2. /\ stack[k].run \in 1 .. made[stack[k].id] /\ stack[k].id \in Names
        /\ Available(stack[k].id) => stack[k].run < available[stack[k].id]
        /\ \A j \in DOMAIN stack :
              j < k /\ stack[j].kind = "factory" /\ stack[j].id = stack[k].id
                  => stack[j].run < stack[k].run
    BY <1>6, <2>1 DEF CallsInv, CallsInOrder, StackOK, WellNested
  <2>3. stack[k].id = f.id => stack[k].run < f.run
    BY <1>1, <1>2, <1>6, <2>1 DEF CallsInv, CallsInOrder, L, f
  <2> QED
    BY <1>4, <2>1, <2>2, <2>3 DEF Available
<1>7. CallsInOrder(stack)'
  BY <1>4, <1>6 DEF CallsInOrder, Available
<1>8. \A n \in Names : available'[n] <= made'[n]
  BY <1>2, <1>3, <1>4, <1>5
<1>9. \A n \in Names : Available(n) => available'[n] <= available[n]
  BY <1>2, <1>3, <1>4, <1>5
<1> QED
  BY <1>7, <1>8, <1>9 DEF CallsInv

\* What define leaves below the factory.
LEMMA DefineShape ==
    ASSUME TypeOK, StackOK(stack), NextIs("define")
    PROVE  LET id == Operation.id
               deps == Operation.deps
               below == Performed \o Observed(id, deps)
           IN  /\ id \in Names /\ deps \in Seq(Names) /\ [id |-> id, deps |-> deps] \in Pending
               /\ below \in Seq(Frames)
               /\ \A i \in 1 .. Len(stack) : below[i] = Performed[i]
               /\ id \notin Sourced => Len(below) = Len(stack)
               /\ id \in Sourced => /\ Len(below) = Len(stack) + 1
                                    /\ below[Len(stack) + 1] = [kind |-> "loading", left |-> deps]
<1> DEFINE id == Operation.id
           deps == Operation.deps
           f == [kind |-> "loading", left |-> deps]
           below == Performed \o Observed(id, deps)
<1>1. Operation \in Operations /\ Operation.op = "define"
  BY PerformedOK
<1>2. id \in Names /\ deps \in Dependencies /\ deps \in Seq(Names)
  BY <1>1, OperationType, DependenciesType
<1>3. Performed \in Seq(Frames) /\ Len(Performed) = Len(stack) /\ Len(stack) \in Nat
  BY PerformedShape
<1>4. f \in Frames
  BY <1>2, LoopFrame
<1>5. [id |-> id, deps |-> deps] \in Pending
  BY <1>2 DEF Pending
<1>6. CASE id \in Sourced
  <2>1. below = Performed \o <<f>>
    BY <1>6 DEF Observed
  <2> HIDE DEF below, f
  <2>2. below = Append(Performed, f)
    BY <1>3, <1>4, <2>1, AppendIsConcat
  <2>3. /\ below \in Seq(Frames) /\ Len(below) = Len(stack) + 1 /\ below[Len(stack) + 1] = f
        /\ \A i \in 1 .. Len(stack) : below[i] = Performed[i]
    BY <1>3, <1>4, <2>2, AppendProperties
  <2> QED
    BY <1>2, <1>5, <1>6, <2>3 DEF below, f
<1>7. CASE id \notin Sourced
  <2>1. below = Performed \o <<>>
    BY <1>7 DEF Observed
  <2>2. below = Performed
    BY <1>3, <2>1, ConcatEmptySeq
  <2> QED
    BY <1>2, <1>3, <1>5, <1>7, <2>2
<1> QED
  BY <1>6, <1>7

\* Every step keeps the calls in order and replaces no module by a later call.
LEMMA CallsStep ==
    ASSUME TypeOK, AsyncInv, CallsInv, [Next]_vars
    PROVE  /\ CallsInv'
           /\ \A n \in Names : Available(n) => available'[n] <= available[n]
<1>1. StackOK(stack)
  BY StackIsOK
<1>2. CASE FactoryReturns
  BY <1>1, <1>2, ReturnCalls
<1>3. ASSUME UNCHANGED <<made, available>>, NoNewCall(stack, stack')
      PROVE  CallsInv' /\ UNCHANGED available
  BY <1>3, NoCallStep
<1>9. UNCHANGED available => \A n \in Names : Available(n) => available'[n] <= available[n]
  BY DEF TypeOK
<1>4. CASE Define
  <2> DEFINE m == [id |-> Operation.id, deps |-> Operation.deps]
             below == Performed \o Observed(m.id, m.deps)
  <2>1. /\ m.id = Operation.id /\ m.deps = Operation.deps /\ m.id \in Names
        /\ below \in Seq(Frames)
        /\ Len(below) = Len(stack) \/ Len(below) = Len(stack) + 1
        /\ \A i \in 1 .. Len(stack) : below[i] = Performed[i]
        /\ Len(below) = Len(stack) + 1 => below[Len(stack) + 1].kind = "loading"
    BY <1>1, <1>4, DefineShape DEF Define
  <2>2. \/ Load(m.id, below) \/ (stack' = below /\ UNCHANGED made)
    BY <1>4 DEF Define
  <2>3. UNCHANGED available
    BY <1>4 DEF Define
  <2> HIDE DEF m, below
  <2>4. NoNewCall(stack, below)
    <3>1. /\ Len(stack) \in Nat \ {0} /\ DOMAIN stack = 1 .. Len(stack)
          /\ \A i \in 1 .. Len(stack) - 1 : Performed[i] = stack[i]
          /\ Performed[Len(stack)].kind = stack[Len(stack)].kind
          /\ Performed[Len(stack)].id = stack[Len(stack)].id
          /\ Performed[Len(stack)].run = stack[Len(stack)].run
      BY <1>1, <1>4, PerformedShape DEF Define
    <3>2. ASSUME NEW k \in DOMAIN below, below[k].kind = "factory"
          PROVE  /\ k \in DOMAIN stack /\ stack[k].kind = "factory"
                 /\ below[k].id = stack[k].id /\ below[k].run = stack[k].run
      <4>1. k \in 1 .. Len(stack)
        BY <2>1, <3>1, <3>2
      <4>2. k = Len(stack) \/ k \in 1 .. Len(stack) - 1
        BY <3>1, <4>1
      <4>3. below[k] = Performed[k]
        BY <2>1, <4>1
      <4>4. CASE k = Len(stack)
        BY <3>1, <3>2, <4>1, <4>3, <4>4
      <4>5. CASE k \in 1 .. Len(stack) - 1
        BY <3>1, <3>2, <4>1, <4>3, <4>5
      <4> QED
        BY <4>2, <4>4, <4>5
    <3> QED
      BY <3>2 DEF NoNewCall
  <2>5. ASSUME Load(m.id, below) PROVE CallsInv'
    BY <1>1, <2>1, <2>3, <2>4, <2>5, LoadCalls
  <2>6. ASSUME stack' = below /\ UNCHANGED made PROVE CallsInv'
    BY <1>3, <2>3, <2>4, <2>6
  <2>7. CallsInv'
    BY <2>2, <2>5, <2>6
  <2> QED
    BY <2>3, <2>7, <1>9
<1>5. CASE Require \/ RequireAsync
  <2>1. /\ UNCHANGED <<made, available>> /\ Operation.id \in Names
        /\ \/ stack' = Performed
           \/ LoadModule(Operation.id, "require", Performed)
           \/ LoadModule(Operation.id, "load", Performed)
    <3>1. Operation \in Operations
      BY <1>1, <1>5, PerformedOK DEF Require, RequireAsync
    <3> QED
      BY <1>5, <3>1, OperationType DEF Require, RequireAsync, registry
  <2>2. /\ stack # <<>> /\ Performed \in Seq(Frames) /\ NoNewCall(stack, Performed)
    BY <1>1, <1>5, PerformedShape, NoNewCallUpdated DEF Require, RequireAsync
  <2>3. NoNewCall(stack, stack')
    BY <1>1, <2>1, <2>2, LoadModuleNoCall
  <2> QED
    BY <1>3, <1>9, <2>1, <2>3
<1>6. CASE LoadDependency
  <2> DEFINE t == [stack EXCEPT ![Len(stack)].left = Tail(@)]
  <2>1. /\ UNCHANGED <<made, available>> /\ Running("loading") /\ Top.left # <<>>
        /\ stack' = t \/ LoadModule(Head(Top.left), "load", t)
    BY <1>6 DEF LoadDependency, registry
  <2>2. /\ stack # <<>> /\ t \in Seq(Frames) /\ Head(Top.left) \in Names
        /\ NoNewCall(stack, t)
    <3>1. /\ stack # <<>> /\ Len(stack) \in Nat \ {0} /\ DOMAIN stack = 1 .. Len(stack)
          /\ t \in Seq(Frames) /\ Len(t) = Len(stack) /\ t[Len(stack)].kind = "loading"
          /\ \A i \in 1 .. Len(stack) - 1 : t[i] = stack[i]
          /\ Top.left \in Seq(Names)
      BY <1>1, <2>1, LoadingShape
    <3> HIDE DEF t
    <3>2. NoNewCall(stack, t)
      BY <3>1, NoNewCallUpdated
    <3>3. Head(Top.left) \in Names
      BY <2>1, <3>1
    <3> QED
      BY <3>1, <3>2, <3>3
  <2> HIDE DEF t
  <2>3. NoNewCall(stack, stack')
    BY <1>1, <2>1, <2>2, LoadModuleNoCall
  <2> QED
    BY <1>3, <1>9, <2>1, <2>3
<1>7. CASE TryPending
  <2> DEFINE m == Head(Top.left)
             tried(loaded) == [stack EXCEPT ![Len(stack)] =
                                [Top EXCEPT !.left = Tail(@), !.again = @ \/ loaded]]
  <2>1. /\ UNCHANGED available /\ Running("trying") /\ Top.left # <<>>
        /\ \/ Load(m.id, tried(TRUE))
           \/ stack' = tried(FALSE) /\ UNCHANGED made
    BY <1>7 DEF TryPending
  <2>2. m.id \in Names
    <3>1. Top.left \in Seq(Pending)
      BY <1>1, <2>1, TryingShape
    <3>2. m \in Pending
      BY <2>1, <3>1
    <3> QED
      BY <3>2 DEF Pending
  <2>3. ASSUME NEW b \in BOOLEAN PROVE tried(b) \in Seq(Frames) /\ NoNewCall(stack, tried(b))
    BY <1>1, <2>1, TryingShape, NoNewCallUpdated
  <2> HIDE DEF m, tried
  <2>4. CallsInv'
    BY <1>1, <1>3, <2>1, <2>2, <2>3, LoadCalls
  <2> QED
    BY <1>9, <2>1, <2>4
<1>8. CASE AttemptToLoadMoreModules \/ PassEnds
  <2>1. UNCHANGED <<made, available>> /\ stack # <<>> /\ (StartPass \/ stack' = Front(stack))
    BY <1>8 DEF AttemptToLoadMoreModules, PassEnds, Running
  <2>2. NoNewCall(stack, stack')
    BY <1>1, <2>1, StartPassShape, NoNewCallPopped, NoNewCallUpdated
  <2> QED
    BY <1>3, <1>9, <2>1, <2>2
<1>10. CASE FactoryThrows \/ BodyReturns \/ BodyThrows \/ ScriptReturns \/ ScriptThrows
  <2>1. /\ UNCHANGED <<made, available>> /\ stack # <<>>
        /\ stack' = Front(stack) \/ stack' = <<>> \/ stack' = stack
    BY <1>10
       DEF FactoryThrows, BodyReturns, BodyThrows, ScriptReturns, ScriptThrows, Fails, Running, registry
  <2> QED
    BY <1>1, <1>3, <1>9, <2>1, NoNewCallPopped
<1>11. CASE RunString
  <2>1. /\ UNCHANGED <<made, available>>
        /\ \E s \in Scripts : stack' = <<Code("script", NoName, 0, s)>>
    BY <1>11 DEF RunString, registry
  <2>2. PICK s \in Scripts : stack' = <<Code("script", NoName, 0, s)>>
    BY <2>1
  <2>3. DOMAIN stack' = {1} /\ stack'[1].kind = "script"
    BY <2>2 DEF Code
  <2> QED
    BY <1>3, <1>9, <2>1, <2>3 DEF NoNewCall
<1>12. CASE Invalidate \/ Ended \/ UNCHANGED vars
  <2>1. UNCHANGED <<made, available, stack>>
    BY <1>12 DEF Invalidate, Ended, vars, registry
  <2>2. NoNewCall(stack, stack')
    BY <2>1 DEF NoNewCall
  <2> QED
    BY <1>3, <1>9, <2>1, <2>2
<1> QED
  BY <1>2, <1>4, <1>5, <1>6, <1>7, <1>8, <1>10, <1>11, <1>12 DEF Next, Execute, Throw

-------------------------------------------------------------------------------
(***************************************************************************)
(* What was loaded is available.                                           *)
(***************************************************************************)
\* The definable modules are those whose body defines them in terms of such.
LEMMA DefinableIsClosed ==
    ASSUME NEW n \in Definable
    PROVE  n \in Sourced /\ Defines(n, Definable)
<1>1. PICK S \in SUBSET Sourced : n \in S /\ \A x \in S : Defines(x, S)
  BY DEF Definable
<1>2. S \subseteq Definable
  BY <1>1 DEF Definable
<1>3. Defines(n, S)
  BY <1>1
<1> HIDE DEF Definable
<1> QED
  BY <1>1, <1>2, <1>3 DEF Defines, DefinesIn

LEMMA DefinableStays ==
    ASSUME UNCHANGED program
    PROVE  Definable' = Definable
  BY DEF Definable, Defines, DefinesIn, Body

\* Above frame k a module waits or is being made, or it has been made; and the
\* same for the loop of frame k.
Cared(m, k) == WaitsAbove(m, stack, k) \/ MadeAbove(m.id, stack, k) \/ Available(m.id)

Settled(n, k) == Available(n) \/ MadeAbove(n, stack, k) \/ Settles(n, stack, k)

\* What a step does to the stack of l frames: those below the top stay, and the
\* top stays what it is or has done what it is for.
Continues(l) ==
    /\ \A n \in Names : Available(n) => Available(n)'
    /\ stack' \in Seq(Frames) /\ l - 1 <= Len(stack')
    /\ \A k \in 1 .. l - 1 : stack'[k] = stack[k]
    /\ stack[l].kind \in {"factory", "require", "load"} =>
          \/ l <= Len(stack') /\ stack'[l].kind = stack[l].kind /\ stack'[l].id = stack[l].id
          \/ available'[stack[l].id] # 0
          \/ stack[l].kind # "factory" /\ stack[l].id \notin Definable
    /\ \A m \in Pending : WaitsAbove(m, stack, l - 1) => Cared(m, l - 1)'
    /\ \A n \in Names : Settles(n, stack, l) => Settled(n, l)'

\* A module that waits above any frame below the top.
LEMMA CaredKept ==
    ASSUME StackOK(stack), NEW l \in Nat \ {0}, Len(stack) = l, Continues(l),
           NEW k \in 1 .. l - 1, NEW m \in Pending, WaitsAbove(m, stack, k)
    PROVE  Cared(m, k)'
<1>1. DOMAIN stack = 1 .. l /\ stack' \in Seq(Frames) /\ DOMAIN stack' = 1 .. Len(stack')
      /\ Len(stack') \in Nat
  BY DEF StackOK, Continues
<1>2. CASE WaitsAbove(m, stack, l - 1)
  <2>1. Cared(m, l - 1)'
    BY <1>2 DEF Continues
  <2>2. \A j \in DOMAIN stack' : j > l - 1 => j > k
    BY <1>1
  <2> QED
    BY <2>1, <2>2 DEF Cared, WaitsAbove, MadeAbove
<1>3. CASE ~WaitsAbove(m, stack, l - 1)
  <2>1. PICK j \in DOMAIN stack :
           j > k /\ stack[j].kind = "trying" /\ \E i \in DOMAIN stack[j].left : stack[j].left[i] = m
    BY <1>3 DEF WaitsAbove
  <2>2. j \in 1 .. l - 1
    BY <1>1, <1>3, <2>1 DEF WaitsAbove
  <2>3. j \in DOMAIN stack' /\ stack'[j] = stack[j]
    BY <1>1, <2>2 DEF Continues
  <2> QED
    BY <2>1, <2>3 DEF Cared, WaitsAbove
<1> QED
  BY <1>2, <1>3

\* A loop below the top goes on to settle what it would.
LEMMA SettlesKept ==
    ASSUME StackOK(stack), NEW l \in Nat \ {0}, Len(stack) = l, Continues(l), UNCHANGED program,
           NEW k \in 1 .. l - 1, NEW n \in Names, Settles(n, stack, k)
    PROVE  Settled(n, k)'
<1>1. DOMAIN stack = 1 .. l /\ stack' \in Seq(Frames) /\ DOMAIN stack' = 1 .. Len(stack')
      /\ Len(stack') \in Nat /\ k \in DOMAIN stack' /\ stack'[k] = stack[k]
  BY DEF StackOK, Continues
<1>2. PICK m \in Pending :
        /\ m.id = n
        /\ \/ /\ stack[k].kind = "loading" /\ WaitsAbove(m, stack, k)
              /\ \A i \in DOMAIN m.deps : m.deps[i] \in Definable /\ Comes(m.deps[i], stack, k)
           \/ /\ stack[k].kind = "trying" /\ AllAvailable(m.deps)
              /\ \E i \in DOMAIN stack[k].left : stack[k].left[i] = m
  BY DEF Settles
<1>3. CASE stack[k].kind = "trying"
  <2>1. \A i \in DOMAIN m.deps : m.deps[i] \in Names
    BY DependenciesType DEF Pending
  <2>2. AllAvailable(m.deps)'
    BY <1>2, <1>3, <2>1 DEF AllAvailable, Continues
  <2> QED
    BY <1>1, <1>2, <1>3, <2>2 DEF Settled, Settles
<1>4. CASE stack[k].kind = "loading"
  <2>1. Cared(m, k)'
    BY <1>2, <1>4, CaredKept
  <2>2. ASSUME NEW i \in DOMAIN m.deps
        PROVE  m.deps[i] \in Definable' /\ Comes(m.deps[i], stack, k)'
    <3> DEFINE d == m.deps[i]
    <3>1. d \in Definable /\ d \in Names /\ Definable' = Definable /\ Comes(d, stack, k)
      BY <1>2, <1>4, DefinableStays, DefinableIsClosed, ProgramsAssumption
    <3> HIDE DEF d
    <3>2. CASE Available(d)
      BY <3>1, <3>2 DEF Continues, Comes, d
    <3>3. CASE \E x \in DOMAIN stack[k].left : stack[k].left[x] = d
      BY <1>1, <3>1, <3>3 DEF Comes, d
    <3>4. CASE k + 1 \in DOMAIN stack /\ stack[k + 1].kind = "load" /\ stack[k + 1].id = d
      <4>1. CASE k + 1 < l
        <5>1. k + 1 \in DOMAIN stack' /\ stack'[k + 1] = stack[k + 1]
          BY <1>1, <4>1 DEF Continues
        <5> QED
          BY <3>1, <3>4, <5>1 DEF Comes, d
      <4>2. CASE k + 1 = l
        <5>1. \/ l <= Len(stack') /\ stack'[l].kind = stack[l].kind /\ stack'[l].id = stack[l].id
              \/ available'[stack[l].id] # 0
          BY <3>1, <3>4, <4>2 DEF Continues
        <5> QED
          BY <1>1, <3>1, <3>4, <4>2, <5>1 DEF Comes, Available, d
      <4> QED
        BY <1>1, <3>4, <4>1, <4>2
    <3> QED
      BY <3>1, <3>2, <3>3, <3>4 DEF Comes
  <2>3. CASE WaitsAbove(m, stack, k)'
    BY <1>1, <1>2, <1>4, <2>2, <2>3 DEF Settled, Settles
  <2> QED
    BY <1>2, <2>1, <2>3 DEF Cared, Settled
<1> QED
  BY <1>2, <1>3, <1>4

\* A body below the top delivers as before.
LEMMA DeliversKept ==
    ASSUME StackOK(stack), NEW l \in Nat \ {0}, Len(stack) = l, Continues(l), UNCHANGED program,
           NEW k \in 1 .. l - 1, IsBody(stack, k), Delivers(stack, k)
    PROVE  Delivers(stack, k)'
<1>0. PICK n : n = stack[k].id
  OBVIOUS
<1>1. DOMAIN stack = 1 .. l /\ stack' \in Seq(Frames) /\ DOMAIN stack' = 1 .. Len(stack')
      /\ Len(stack') \in Nat /\ k \in DOMAIN stack' /\ stack'[k] = stack[k]
  BY DEF StackOK, Continues
<1>2. n \in Definable /\ n \in Names /\ Definable' = Definable
  BY <1>0, DefinableStays, DefinableIsClosed, ProgramsAssumption DEF IsBody
<1>3. CASE Available(n)
  <2>1. Available(n)'
    BY <1>2, <1>3 DEF Continues
  <2> QED
    BY <1>0, <1>1, <2>1 DEF Delivers
<1>4. CASE Owes(stack, k)
  BY <1>0, <1>1, <1>2, <1>4 DEF Delivers, Owes, DefinesIn
<1>5. CASE MadeAbove(n, stack, k)
  <2>1. PICK j \in DOMAIN stack : j > k /\ stack[j].kind = "factory" /\ stack[j].id = n
    BY <1>5 DEF MadeAbove
  <2>2. CASE j < l
    <3>1. j \in DOMAIN stack' /\ stack'[j] = stack[j]
      BY <1>1, <2>1, <2>2 DEF Continues
    <3> QED
      BY <1>0, <1>1, <2>1, <3>1 DEF Delivers, MadeAbove
  <2>3. CASE j = l
    <3>1. \/ l <= Len(stack') /\ stack'[l].kind = stack[l].kind /\ stack'[l].id = stack[l].id
          \/ available'[stack[l].id] # 0
      BY <2>1, <2>3 DEF Continues
    <3>2. l <= Len(stack') => l \in DOMAIN stack'
      BY <1>1
    <3>3. CASE available'[n] # 0
      BY <1>0, <1>1, <3>3 DEF Delivers, Available
    <3>4. CASE l \in DOMAIN stack' /\ stack'[l].kind = "factory" /\ stack'[l].id = n
      BY <1>0, <1>1, <3>4 DEF Delivers, MadeAbove
    <3> QED
      BY <2>1, <2>3, <3>1, <3>2, <3>3, <3>4
  <2> QED
    BY <1>1, <2>1, <2>2, <2>3
<1>6. CASE Settles(n, stack, k + 1)
  <2>1. Settled(n, k + 1)'
    <3>1. CASE k + 1 = l
      BY <1>2, <1>6, <3>1 DEF Continues
    <3>2. CASE k + 1 \in 1 .. l - 1
      BY <1>2, <1>6, <3>2, SettlesKept
    <3> QED
      BY <3>1, <3>2
  <2>2. \A j \in DOMAIN stack' : j > k + 1 => j > k
    BY <1>1
  <2> QED
    BY <1>0, <1>1, <2>1, <2>2 DEF Delivers, Settled, MadeAbove
<1> QED
  BY <1>0, <1>3, <1>4, <1>5, <1>6 DEF Delivers

\* The bodies that are new or were running deliver, and what was loaded is known.
LEMMA LoadsKept ==
    ASSUME StackOK(stack), NEW l \in Nat \ {0}, Len(stack) = l, Continues(l), UNCHANGED program,
           BodiesDeliver(stack), LoadsAnswered(stack),
           \A k \in DOMAIN stack' : k >= l /\ IsBody(stack, k)' => Delivers(stack, k)',
           \A n \in Definable : loads'[n] > 0 =>
               \/ loads[n] > 0
               \/ \E k \in DOMAIN stack' : stack'[k].kind \in {"require", "load"} /\ stack'[k].id = n
    PROVE  BodiesDeliver(stack)' /\ LoadsAnswered(stack)'
<1>1. DOMAIN stack = 1 .. l /\ stack' \in Seq(Frames) /\ DOMAIN stack' = 1 .. Len(stack')
      /\ Len(stack') \in Nat /\ Definable' = Definable
  BY DefinableStays DEF StackOK, Continues
<1>2. ASSUME NEW k \in DOMAIN stack', IsBody(stack, k)'
      PROVE  Delivers(stack, k)'
  <2>1. CASE k < l
    <3>1. k \in 1 .. l - 1 /\ k \in DOMAIN stack /\ stack'[k] = stack[k]
      BY <1>1, <2>1 DEF Continues
    <3>2. IsBody(stack, k)
      BY <1>1, <1>2, <3>1 DEF IsBody
    <3> QED
      BY <3>1, <3>2, DeliversKept DEF BodiesDeliver
  <2> QED
    BY <1>1, <1>2, <2>1
<1>3. ASSUME NEW n \in Definable, loads'[n] > 0
      PROVE  Available(n)' \/ \E k \in DOMAIN stack' : IsBody(stack, k)' /\ stack'[k].id = n
  <2>1. n \in Names
    BY DefinableIsClosed, ProgramsAssumption
  <2>2. CASE \E k \in DOMAIN stack' : stack'[k].kind \in {"require", "load"} /\ stack'[k].id = n
    BY <1>1, <1>3, <2>2 DEF IsBody
  <2>3. CASE Available(n)
    BY <2>1, <2>3 DEF Continues
  <2>4. ASSUME NEW k \in DOMAIN stack, IsBody(stack, k), stack[k].id = n
        PROVE  Available(n)' \/ \E i \in DOMAIN stack' : IsBody(stack, i)' /\ stack'[i].id = n
    <3>1. CASE k < l
      <4>1. k \in DOMAIN stack' /\ stack'[k] = stack[k]
        BY <1>1, <3>1 DEF Continues
      <4> QED
        BY <1>1, <2>4, <4>1 DEF IsBody
    <3>2. CASE k = l
      <4>1. \/ l <= Len(stack') /\ stack'[l].kind = stack[l].kind /\ stack'[l].id = stack[l].id
            \/ available'[stack[l].id] # 0
        BY <2>4, <3>2 DEF Continues, IsBody
      <4>2. l <= Len(stack') => l \in DOMAIN stack'
        BY <1>1
      <4> QED
        BY <1>1, <2>4, <3>2, <4>1, <4>2 DEF IsBody, Available
    <3> QED
      BY <1>1, <3>1, <3>2
  <2> QED
    BY <1>3, <2>2, <2>3, <2>4 DEF LoadsAnswered
<1> QED
  BY <1>1, <1>2, <1>3 DEF BodiesDeliver, LoadsAnswered

-------------------------------------------------------------------------------
(***************************************************************************)
(* Code: operations.                                                       *)
(***************************************************************************)
\* A step of the running code that takes nothing away.
LEMMA CodeContinues ==
    ASSUME TypeOK, StackOK(stack), NEW op, NextIs(op), NEW l \in Nat \ {0}, Len(stack) = l,
           UNCHANGED available, stack' \in Seq(Frames), l <= Len(stack'),
           \A i \in 1 .. l : stack'[i] = Performed[i],
           \A i \in DOMAIN pending : \E j \in DOMAIN pending' : pending'[j] = pending[i]
    PROVE  Continues(l)
<1>1. /\ DOMAIN stack = 1 .. l
      /\ \A i \in 1 .. l - 1 : Performed[i] = stack[i]
      /\ stack[l].kind \in CodeKinds
      /\ Performed[l].kind = stack[l].kind /\ Performed[l].id = stack[l].id
  BY PerformedShape
<1>2. stack[l].kind \notin {"loading", "trying"}
  BY <1>1 DEF CodeKinds
<1>3. ASSUME NEW m \in Pending, WaitsAbove(m, stack, l - 1)
      PROVE  Cared(m, l - 1)'
  <2>1. \A j \in DOMAIN stack : j > l - 1 => j = l
    BY <1>1
  <2>2. \E i \in DOMAIN pending : pending[i] = m
    BY <1>2, <1>3, <2>1 DEF WaitsAbove
  <2>3. \E i \in DOMAIN pending' : pending'[i] = m
    BY <2>2
  <2> QED
    BY <2>3 DEF Cared, WaitsAbove
<1>4. \A n \in Names : ~Settles(n, stack, l)
  BY <1>2 DEF Settles
<1>5. \A n \in Names : Available(n) => Available(n)'
  BY DEF Available
<1>6. l - 1 <= Len(stack') /\ \A k \in 1 .. l - 1 : stack'[k] = stack[k]
  <2>1. Len(stack') \in Nat
    OBVIOUS
  <2> QED
    BY <1>1, <2>1
<1> QED
  BY <1>1, <1>3, <1>4, <1>5, <1>6 DEF Continues

\* The running body still delivers, unless the operation is its define.
LEMMA CodeDelivers ==
    ASSUME TypeOK, StackOK(stack), NEW op, NextIs(op), NEW l \in Nat \ {0}, Len(stack) = l,
           UNCHANGED <<program, available>>, stack'[l] = Performed[l],
           BodiesDeliver(stack), IsBody(stack, l)', ~DefinesIn(Operation, stack[l].id, Definable)
    PROVE  Delivers(stack, l)'
<1>1. /\ DOMAIN stack = 1 .. l
      /\ stack[l].kind \in CodeKinds /\ stack[l].todo \in Seq(Operations) /\ stack[l].todo # <<>>
      /\ stack'[l].kind = stack[l].kind /\ stack'[l].id = stack[l].id
      /\ stack'[l].todo = Tail(stack[l].todo)
      /\ Operation = Head(stack[l].todo)
  BY PerformedShape
<1>2. IsBody(stack, l) /\ Definable' = Definable /\ l \in DOMAIN stack
  BY <1>1, DefinableStays DEF IsBody
<1>3. Delivers(stack, l)
  BY <1>2 DEF BodiesDeliver
<1>4. ~MadeAbove(stack[l].id, stack, l) /\ ~Settles(stack[l].id, stack, l + 1)
  BY <1>1 DEF MadeAbove, Settles
<1>5. CASE Available(stack[l].id)
  <2>1. available'[stack'[l].id] # 0
    BY <1>1, <1>5 DEF Available
  <2> QED
    BY <2>1 DEF Delivers, Available
<1>6. CASE Owes(stack, l)
  <2>1. PICK i \in DOMAIN stack[l].todo : DefinesIn(stack[l].todo[i], stack[l].id, Definable)
    BY <1>6 DEF Owes
  <2>2. i # 1
    BY <1>1, <2>1
  <2>3. i - 1 \in DOMAIN Tail(stack[l].todo) /\ Tail(stack[l].todo)[i - 1] = stack[l].todo[i]
    BY <1>1, <2>1, <2>2
  <2>4. i - 1 \in DOMAIN stack'[l].todo /\ DefinesIn(stack'[l].todo[i - 1], stack'[l].id, Definable')
    BY <1>1, <1>2, <2>1, <2>3
  <2> QED
    BY <2>4 DEF Delivers, Owes, DefinesIn
<1> QED
  BY <1>3, <1>4, <1>5, <1>6 DEF Delivers

\* A body that starts has yet to define its module.
LEMMA BodyOwes ==
    ASSUME UNCHANGED program, NEW k, IsBody(stack, k)', stack'[k].todo = Body[stack'[k].id]
    PROVE  Delivers(stack, k)'
<1>1. PICK n : n = stack'[k].id
  OBVIOUS
<1>2. n \in Definable /\ Definable' = Definable
  BY <1>1, DefinableStays DEF IsBody
<1>3. PICK i \in DOMAIN Body[n] : DefinesIn(Body[n][i], n, Definable)
  BY <1>2, DefinableIsClosed DEF Defines
<1>4. i \in DOMAIN stack'[k].todo /\ DefinesIn(stack'[k].todo[i], stack'[k].id, Definable')
  BY <1>1, <1>2, <1>3
<1> QED
  BY <1>4 DEF Delivers, Owes, DefinesIn

\* Loading a body, when nothing fails.
LEMMA LoadModuleRuns ==
    ASSUME TypeOK, NEW n \in Names, NEW kind \in {"require", "load"}, NEW below \in Seq(Frames),
           LoadModule(n, kind, below), proc' = "running", ~failed'
    PROVE  /\ n \in Sourced /\ stack' \in Seq(Frames) /\ Len(stack') = Len(below) + 1
           /\ Len(below) \in Nat
           /\ \A i \in 1 .. Len(below) : stack'[i] = below[i]
           /\ stack'[Len(below) + 1].kind = kind /\ stack'[Len(below) + 1].id = n
           /\ stack'[Len(below) + 1].todo = Body[n]
           /\ \A x \in Sourced : x # n => loads'[x] = loads[x]
<1>1. /\ n \in Sourced /\ stack' = Append(below, Code(kind, n, 0, Body[n]))
      /\ loads' = [loads EXCEPT ![n] = IF @ = 2 THEN 2 ELSE @ + 1]
  BY DEF LoadModule, Fails
<1> DEFINE f == Code(kind, n, 0, Body[n])
<1>2. f.todo = Body[n]
  BY DEF Code
<1>3. f \in Frames /\ f.kind = kind /\ f.id = n
  BY <1>1, ProgramType, CodeFrame DEF CodeKinds
<1>4. stack' = Append(below, f)
  BY <1>1
<1> HIDE DEF f
<1>5. /\ stack' \in Seq(Frames) /\ Len(stack') = Len(below) + 1 /\ Len(below) \in Nat
      /\ \A i \in 1 .. Len(below) : stack'[i] = below[i]
      /\ stack'[Len(below) + 1] = f
  BY <1>3, <1>4, AppendProperties
<1>6. \A x \in Sourced : x # n => loads'[x] = loads[x]
  BY <1>1 DEF TypeOK
<1> QED
  BY <1>1, <1>2, <1>3, <1>5, <1>6

\* require and requireAsync: nothing more, or the body of the id above.
LEMMA RequiresLoads ==
    ASSUME TypeOK, StackOK(stack), BodiesDeliver(stack), LoadsAnswered(stack),
           Require \/ RequireAsync, UNCHANGED program, proc' = "running", ~failed'
    PROVE  BodiesDeliver(stack)' /\ LoadsAnswered(stack)'
<1>1. PICK l \in Nat \ {0} : l = Len(stack)
  BY PerformedShape DEF Require, RequireAsync
<1>2. PICK op \in {"require", "requireAsync"} : NextIs(op)
  BY DEF Require, RequireAsync
<1>3. /\ Performed \in Seq(Frames) /\ Len(Performed) = l
      /\ Operation.op = op /\ Operation \in Operations
  BY <1>1, <1>2, PerformedShape, PerformedOK
<1>4. PICK n \in Names : n = Operation.id
  BY <1>3, OperationType
<1>5. /\ UNCHANGED <<available, pending>>
      /\ \/ stack' = Performed /\ UNCHANGED loads
         \/ LoadModule(n, "require", Performed)
         \/ LoadModule(n, "load", Performed)
  BY <1>4 DEF Require, RequireAsync, registry
<1>6. /\ stack' \in Seq(Frames) /\ l <= Len(stack') /\ Len(stack') <= l + 1
      /\ \A i \in 1 .. l : stack'[i] = Performed[i]
      /\ Len(stack') = l + 1 => stack'[l + 1].todo = Body[stack'[l + 1].id]
      /\ UNCHANGED loads \/ (/\ \A x \in Sourced : x # n => loads'[x] = loads[x]
                             /\ Len(stack') = l + 1 /\ stack'[l + 1].id = n
                             /\ stack'[l + 1].kind \in {"require", "load"})
  <2>1. CASE stack' = Performed /\ UNCHANGED loads
    BY <1>3, <2>1
  <2>2. ASSUME NEW kind \in {"require", "load"}, LoadModule(n, kind, Performed)
        PROVE  /\ stack' \in Seq(Frames) /\ Len(stack') = l + 1
               /\ \A i \in 1 .. l : stack'[i] = Performed[i]
               /\ stack'[l + 1].todo = Body[stack'[l + 1].id]
               /\ \A x \in Sourced : x # n => loads'[x] = loads[x]
               /\ stack'[l + 1].id = n /\ stack'[l + 1].kind \in {"require", "load"}
    BY <1>3, <2>2, LoadModuleRuns
  <2> QED
    BY <1>5, <2>1, <2>2
<1>7. Continues(l)
  BY <1>1, <1>2, <1>5, <1>6, CodeContinues
<1>8. /\ DOMAIN stack' = 1 .. Len(stack') /\ Len(stack') \in {l, l + 1}
      /\ \A k \in DOMAIN stack' : k >= l => k = l \/ (k = l + 1 /\ Len(stack') = l + 1)
  <2>1. PICK p \in Nat : p = Len(stack') /\ DOMAIN stack' = 1 .. p
    BY <1>6
  <2>2. l <= p /\ p <= l + 1
    BY <1>6, <2>1
  <2>3. p = l \/ p = l + 1
    BY <2>2
  <2>4. \A k \in 1 .. p : k >= l => k = l \/ (k = l + 1 /\ p = l + 1)
    BY <2>3
  <2> QED
    BY <2>1, <2>3, <2>4
<1>9. ASSUME NEW k \in DOMAIN stack', k >= l, IsBody(stack, k)'
      PROVE  Delivers(stack, k)'
  <2>1. CASE k = l
    <3>1. ~DefinesIn(Operation, stack[l].id, Definable)
      BY <1>2, <1>3 DEF DefinesIn
    <3> QED
      BY <1>1, <1>2, <1>5, <1>6, <1>9, <2>1, <3>1, CodeDelivers
  <2>2. CASE k = l + 1
    <3>1. stack'[k].todo = Body[stack'[k].id]
      BY <1>6, <1>8, <1>9, <2>2
    <3> QED
      BY <1>9, <3>1, BodyOwes
  <2> QED
    BY <1>8, <1>9, <2>1, <2>2
<1>10. ASSUME NEW x \in Definable, loads'[x] > 0
       PROVE  \/ loads[x] > 0
              \/ \E k \in DOMAIN stack' : stack'[k].kind \in {"require", "load"} /\ stack'[k].id = x
  <2>1. CASE UNCHANGED loads
    BY <1>10, <2>1
  <2>2. CASE /\ \A y \in Sourced : y # n => loads'[y] = loads[y]
             /\ Len(stack') = l + 1 /\ stack'[l + 1].id = n
             /\ stack'[l + 1].kind \in {"require", "load"}
    <3>1. l + 1 \in DOMAIN stack' /\ x \in Sourced
      BY <1>8, <2>2, DefinableIsClosed
    <3> QED
      BY <1>10, <2>2, <3>1
  <2> QED
    BY <1>6, <2>1, <2>2
<1> QED
  BY <1>1, <1>7, <1>9, <1>10, LoadsKept

\* Loading a module that has all its dependencies, when nothing fails.
LEMMA LoadRuns ==
    ASSUME TypeOK, NEW id \in Names, NEW below \in Seq(Frames), Load(id, below), ~failed'
    PROVE  /\ stack' \in Seq(Frames) /\ Len(below) \in Nat
           /\ \A i \in 1 .. Len(below) : stack'[i] = below[i]
           /\ \/ Len(stack') = Len(below) /\ Available(id)
              \/ /\ Len(stack') = Len(below) + 1 /\ stack'[Len(below) + 1].kind = "factory"
                 /\ stack'[Len(below) + 1].id = id
<1>1. CASE Available(id) /\ stack' = below
  BY <1>1
<1>2. CASE stack' = Append(below, Code("factory", id, made[id] + 1, Factory[id]))
  <2> DEFINE f == Code("factory", id, made[id] + 1, Factory[id])
  <2>1. Factory[id] \in Seq(Operations) /\ made[id] + 1 \in Nat
    BY ProgramType DEF TypeOK
  <2>2. f \in Frames /\ f.kind = "factory" /\ f.id = id
    BY <2>1, CodeFrame DEF CodeKinds
  <2>3. stack' = Append(below, f)
    BY <1>2
  <2> HIDE DEF f
  <2>4. /\ stack' \in Seq(Frames) /\ Len(stack') = Len(below) + 1 /\ Len(below) \in Nat
        /\ \A i \in 1 .. Len(below) : stack'[i] = below[i]
        /\ stack'[Len(below) + 1] = f
    BY <2>2, <2>3, AppendProperties
  <2> QED
    BY <2>2, <2>4
<1> QED
  BY <1>1, <1>2 DEF Load

\* define: the module is made, or the loop of its observer will make it.
LEMMA DefineLoads ==
    ASSUME TypeOK, StackOK(stack), BodiesDeliver(stack), LoadsAnswered(stack),
           Define, UNCHANGED program, proc' = "running", ~failed'
    PROVE  BodiesDeliver(stack)' /\ LoadsAnswered(stack)'
<1>1. PICK l \in Nat \ {0} : l = Len(stack)
  BY PerformedShape DEF Define
<1>2. NextIs("define") /\ UNCHANGED <<available, loads>>
  BY DEF Define
<1>3. /\ DOMAIN stack = 1 .. l /\ Performed \in Seq(Frames) /\ Len(Performed) = l
      /\ Performed[l].kind = stack[l].kind /\ Performed[l].id = stack[l].id
      /\ Operation.op = "define" /\ Operation \in Operations
  BY <1>1, <1>2, PerformedShape, PerformedOK
<1> DEFINE below0 == Performed \o Observed(Operation.id, Operation.deps)
<1>4. PICK m \in Pending : m = [id |-> Operation.id, deps |-> Operation.deps]
  BY <1>2, DefineShape
<1>5. m.id = Operation.id /\ m.deps = Operation.deps /\ m.id \in Names /\ m.deps \in Seq(Names)
  BY <1>2, <1>4, DefineShape
<1>6. PICK below \in Seq(Frames) : below = below0
  BY <1>2, DefineShape
<1>7. /\ \A i \in 1 .. l : below[i] = Performed[i]
      /\ m.id \notin Sourced => Len(below) = l
      /\ m.id \in Sourced => Len(below) = l + 1 /\ below[l + 1] = [kind |-> "loading", left |-> m.deps]
  BY <1>1, <1>2, <1>5, <1>6, DefineShape
<1>8. \/ AllAvailable(m.deps) /\ Load(m.id, below) /\ UNCHANGED pending
      \/ pending' = Append(pending, m) /\ stack' = below
  BY <1>4, <1>5, <1>6 DEF Define
<1> HIDE DEF below0
<1>9. PICK b \in {l, l + 1} : b = Len(below)
  BY <1>7
<1>10. PICK p \in Nat : p = Len(stack') /\ DOMAIN stack' = 1 .. p /\ stack' \in Seq(Frames)
  <2>1. stack' \in Seq(Frames)
    BY <1>5, <1>8, LoadRuns
  <2> QED
    BY <2>1
<1>11. /\ \A i \in 1 .. b : stack'[i] = below[i]
       /\ \/ p = b /\ Available(m.id)
          \/ p = b + 1 /\ stack'[b + 1].kind = "factory" /\ stack'[b + 1].id = m.id
          \/ p = b /\ pending' = Append(pending, m)
  BY <1>5, <1>8, <1>9, <1>10, LoadRuns
<1>12. /\ pending \in Seq(Pending)
       /\ \A i \in DOMAIN pending : \E j \in DOMAIN pending' : pending'[j] = pending[i]
       /\ pending' = Append(pending, m) => \E j \in DOMAIN pending' : pending'[j] = m
  <2>1. pending \in Seq(Pending)
    BY DEF TypeOK
  <2>2. CASE pending' = Append(pending, m)
    <3>1. /\ DOMAIN pending' = 1 .. Len(pending) + 1 /\ pending'[Len(pending) + 1] = m
          /\ \A i \in 1 .. Len(pending) : pending'[i] = pending[i]
          /\ DOMAIN pending = 1 .. Len(pending) /\ Len(pending) \in Nat
      BY <2>1, <2>2, PushOnStack
    <3> QED
      BY <2>1, <2>2, <3>1
  <2> QED
    BY <1>8, <2>1, <2>2
<1>13. l <= p /\ \A i \in 1 .. l : stack'[i] = Performed[i]
  <2>1. l <= b /\ b <= p
    BY <1>11
  <2>2. \A i \in 1 .. l : i \in 1 .. b
    BY <2>1
  <2> QED
    BY <1>7, <1>11, <2>1, <2>2
<1>14. Continues(l)
  BY <1>1, <1>2, <1>10, <1>12, <1>13, CodeContinues
<1>15. ASSUME NEW k \in DOMAIN stack', k >= l, IsBody(stack, k)'
       PROVE  Delivers(stack, k)'
  <2>1. k = l
    <3>1. k \in {l, l + 1, l + 2} /\ k <= p
      BY <1>10, <1>11, <1>15
    <3>2. CASE k \in l + 1 .. b
      <4>1. k = l + 1 /\ b = l + 1
        BY <1>9, <3>2
      <4>2. stack'[k].kind = "loading"
        BY <1>7, <1>9, <1>11, <4>1
      <4> QED
        BY <1>15, <4>2 DEF IsBody
    <3>3. CASE k = b + 1
      <4>1. stack'[k].kind = "factory"
        BY <1>10, <1>11, <1>15, <3>3
      <4> QED
        BY <1>15, <4>1 DEF IsBody
    <3> QED
      BY <1>9, <1>11, <1>15, <3>1, <3>2, <3>3
  <2>2. CASE ~DefinesIn(Operation, stack[l].id, Definable)
    BY <1>1, <1>2, <1>13, <1>15, <2>1, <2>2, CodeDelivers
  <2>3. CASE DefinesIn(Operation, stack[l].id, Definable)
    <3>1. m.id = stack[l].id /\ \A j \in DOMAIN m.deps : m.deps[j] \in Definable
      BY <1>5, <2>3 DEF DefinesIn
    <3>2. stack'[l].id = m.id /\ stack'[l].kind = stack[l].kind /\ Definable' = Definable
      BY <1>3, <1>13, <3>1, DefinableStays
    <3>3. m.id \in Definable /\ m.id \in Sourced
      BY <1>15, <2>1, <3>2, DefinableIsClosed DEF IsBody
    <3>4. b = l + 1 /\ l + 1 \in DOMAIN stack' /\ stack'[l + 1] = [kind |-> "loading", left |-> m.deps]
      BY <1>7, <1>9, <1>10, <1>11, <3>3
    <3>5. CASE Available(m.id)
      <4>1. available'[stack'[l].id] # 0
        BY <1>2, <3>2, <3>5 DEF Available
      <4> QED
        BY <2>1, <4>1 DEF Delivers, Available
    <3>6. CASE p = b + 1 /\ stack'[b + 1].kind = "factory" /\ stack'[b + 1].id = m.id
      <4>1. l + 2 \in DOMAIN stack' /\ l + 2 > l /\ stack'[l + 2].kind = "factory"
            /\ stack'[l + 2].id = stack'[l].id
        BY <1>10, <3>2, <3>4, <3>6
      <4> QED
        BY <2>1, <4>1 DEF Delivers, MadeAbove
    <3>7. CASE pending' = Append(pending, m)
      <4>1. \E j \in DOMAIN pending' : pending'[j] = m
        BY <1>12, <3>7
      <4>2. ASSUME NEW i \in DOMAIN m.deps
            PROVE  m.deps[i] \in Definable' /\ Comes(m.deps[i], stack, l + 1)'
        <5>1. i \in DOMAIN stack'[l + 1].left /\ stack'[l + 1].left[i] = m.deps[i]
          BY <3>4
        <5> QED
          BY <3>1, <3>2, <5>1 DEF Comes
      <4>3. Settles(m.id, stack, l + 1)'
        BY <3>4, <4>1, <4>2 DEF Settles, WaitsAbove
      <4> QED
        BY <2>1, <3>2, <4>3 DEF Delivers
    <3> QED
      BY <1>11, <3>5, <3>6, <3>7
  <2> QED
    BY <2>2, <2>3
<1>16. \A n \in Definable : loads'[n] > 0 => loads[n] > 0
  BY <1>2
<1> QED
  BY <1>1, <1>14, <1>15, <1>16, LoadsKept

-------------------------------------------------------------------------------
(***************************************************************************)
(* The loops.                                                              *)
(***************************************************************************)
\* A module that waits above the frame below a loop is pending or in the loop.
LEMMA WaitsAtTop ==
    ASSUME StackOK(stack), NEW l \in Nat \ {0}, Len(stack) = l, NEW m \in Pending
    PROVE  /\ WaitsAbove(m, stack, l) => \E i \in DOMAIN pending : pending[i] = m
           /\ WaitsAbove(m, stack, l - 1) =>
                 \/ \E i \in DOMAIN pending : pending[i] = m
                 \/ stack[l].kind = "trying" /\ \E i \in DOMAIN stack[l].left : stack[l].left[i] = m
<1>1. DOMAIN stack = 1 .. l
  BY DEF StackOK
<1>2. \A j \in DOMAIN stack : ~(j > l) /\ (j > l - 1 => j = l)
  BY <1>1
<1> QED
  BY <1>2 DEF WaitsAbove

\* The next dependency is available or its body is loaded.
LEMMA LoadDependencyLoads ==
    ASSUME TypeOK, StackOK(stack), BodiesDeliver(stack), LoadsAnswered(stack),
           LoadDependency, UNCHANGED program, proc' = "running", ~failed'
    PROVE  BodiesDeliver(stack)' /\ LoadsAnswered(stack)'
<1> DEFINE below0 == [stack EXCEPT ![Len(stack)].left = Tail(@)]
<1>1. Running("loading") /\ Top.left # <<>> /\ UNCHANGED <<available, pending>>
  BY DEF LoadDependency, registry
<1>2. PICK l \in Nat \ {0} : l = Len(stack)
  BY <1>1, LoadingShape
<1>3. PICK below \in Seq(Frames) : below = below0
  BY <1>1, LoadingShape
<1>4. /\ DOMAIN stack = 1 .. l /\ Len(below) = l
      /\ \A i \in 1 .. l - 1 : below[i] = stack[i]
      /\ stack[l].kind = "loading" /\ stack[l].left \in Seq(Names) /\ stack[l].left # <<>>
      /\ below[l].kind = "loading" /\ below[l].left = Tail(stack[l].left) /\ Top = stack[l]
  BY <1>1, <1>2, <1>3, LoadingShape
<1>5. PICK n \in Names : n = Head(stack[l].left)
  BY <1>4
<1>6. \/ Available(n) /\ stack' = below /\ UNCHANGED loads
      \/ LoadModule(n, "load", below)
  BY <1>3, <1>4, <1>5 DEF LoadDependency
<1> HIDE DEF below0
<1>7. /\ stack' \in Seq(Frames)
      /\ \A i \in 1 .. l : stack'[i] = below[i]
      /\ \/ Len(stack') = l /\ Available(n) /\ UNCHANGED loads
         \/ /\ Len(stack') = l + 1 /\ stack'[l + 1].kind = "load" /\ stack'[l + 1].id = n
            /\ stack'[l + 1].todo = Body[n] /\ \A x \in Sourced : x # n => loads'[x] = loads[x]
  <2>1. CASE Available(n) /\ stack' = below /\ UNCHANGED loads
    BY <1>4, <2>1
  <2>2. CASE LoadModule(n, "load", below)
    BY <1>4, <2>2, LoadModuleRuns
  <2> QED
    BY <1>6, <2>1, <2>2
<1>8. PICK p \in {l, l + 1} : p = Len(stack') /\ DOMAIN stack' = 1 .. p
  BY <1>7
<1>9. Continues(l)
  <2>1. ASSUME NEW m \in Pending, WaitsAbove(m, stack, l - 1)
        PROVE  Cared(m, l - 1)'
    <3>1. \E i \in DOMAIN pending : pending[i] = m
      BY <1>2, <1>4, <2>1, WaitsAtTop
    <3> QED
      BY <1>1, <3>1 DEF Cared, WaitsAbove
  <2>2. ASSUME NEW x \in Names, Settles(x, stack, l)
        PROVE  Settled(x, l)'
    <3>1. PICK m \in Pending :
            /\ m.id = x /\ WaitsAbove(m, stack, l)
            /\ \A i \in DOMAIN m.deps : m.deps[i] \in Definable /\ Comes(m.deps[i], stack, l)
      BY <1>4, <2>2 DEF Settles
    <3>2. \E i \in DOMAIN pending' : pending'[i] = m
      BY <1>1, <1>2, <3>1, WaitsAtTop
    <3>3. ASSUME NEW i \in DOMAIN m.deps
          PROVE  m.deps[i] \in Definable' /\ Comes(m.deps[i], stack, l)'
      <4>1. PICK d : d = m.deps[i]
        OBVIOUS
      <4>2. d \in Definable' /\ Comes(d, stack, l)
        BY <3>1, <4>1, DefinableStays
      <4>3. \/ Available(d)
            \/ d = n
            \/ \E j \in DOMAIN Tail(stack[l].left) : Tail(stack[l].left)[j] = d
        <5>1. CASE \E j \in DOMAIN stack[l].left : stack[l].left[j] = d
          <6>1. PICK j \in DOMAIN stack[l].left : stack[l].left[j] = d
            BY <5>1
          <6>2. CASE j = 1
            BY <1>4, <1>5, <6>1, <6>2
          <6>3. CASE j # 1
            <7>1. j - 1 \in DOMAIN Tail(stack[l].left) /\ Tail(stack[l].left)[j - 1] = d
              BY <1>4, <6>1, <6>3
            <7> QED
              BY <7>1
          <6> QED
            BY <6>2, <6>3
        <5>2. l + 1 \notin DOMAIN stack
          BY <1>4
        <5> QED
          BY <4>2, <5>1, <5>2 DEF Comes
      <4>4. CASE Available(d)
        BY <1>1, <4>1, <4>2, <4>4 DEF Comes, Available
      <4>5. CASE d = n /\ ~Available(d)
        <5>1. l + 1 \in DOMAIN stack' /\ stack'[l + 1].kind = "load" /\ stack'[l + 1].id = d
          BY <1>7, <1>8, <4>5
        <5> QED
          BY <4>1, <4>2, <5>1 DEF Comes
      <4>6. CASE \E j \in DOMAIN Tail(stack[l].left) : Tail(stack[l].left)[j] = d
        <5>1. stack'[l].left = Tail(stack[l].left)
          BY <1>4, <1>7
        <5> QED
          BY <4>1, <4>2, <4>6, <5>1 DEF Comes
      <4> QED
        BY <4>3, <4>4, <4>5, <4>6
    <3>4. l \in DOMAIN stack' /\ stack'[l].kind = "loading"
      BY <1>4, <1>7, <1>8
    <3> QED
      BY <3>1, <3>2, <3>3, <3>4 DEF Settled, Settles, WaitsAbove
  <2>3. \A k \in 1 .. l - 1 : stack'[k] = stack[k]
    BY <1>4, <1>7
  <2>4. l - 1 <= Len(stack') /\ \A x \in Names : Available(x) => Available(x)'
    BY <1>1, <1>8 DEF Available
  <2> QED
    BY <1>4, <1>7, <2>1, <2>2, <2>3, <2>4 DEF Continues
<1>10. ASSUME NEW k \in DOMAIN stack', k >= l, IsBody(stack, k)'
       PROVE  Delivers(stack, k)'
  <2>1. k # l
    BY <1>4, <1>7, <1>10 DEF IsBody
  <2>2. k = l + 1 /\ p = l + 1
    BY <1>8, <1>10, <2>1
  <2>3. stack'[k].todo = Body[stack'[k].id]
    BY <1>7, <1>8, <2>2
  <2> QED
    BY <1>10, <2>3, BodyOwes
<1>11. ASSUME NEW x \in Definable, loads'[x] > 0
       PROVE  \/ loads[x] > 0
              \/ \E k \in DOMAIN stack' : stack'[k].kind \in {"require", "load"} /\ stack'[k].id = x
  <2>1. CASE UNCHANGED loads
    BY <1>11, <2>1
  <2>2. CASE /\ \A y \in Sourced : y # n => loads'[y] = loads[y]
             /\ Len(stack') = l + 1 /\ stack'[l + 1].id = n /\ stack'[l + 1].kind = "load"
    <3>1. l + 1 \in DOMAIN stack' /\ x \in Sourced
      BY <1>8, <2>2, DefinableIsClosed
    <3> QED
      BY <1>11, <2>2, <3>1
  <2> QED
    BY <1>7, <2>1, <2>2
<1> QED
  BY <1>2, <1>9, <1>10, <1>11, LoadsKept

\* A pass takes the pending modules along; the observer begins one when all
\* dependencies of its module came.
LEMMA StartPassLoads ==
    ASSUME TypeOK, StackOK(stack), BodiesDeliver(stack), LoadsAnswered(stack),
           Running("loading") \/ Running("trying"), Top.left = <<>>, StartPass,
           UNCHANGED <<program, available, loads>>
    PROVE  BodiesDeliver(stack)' /\ LoadsAnswered(stack)'
<1>1. stack # <<>> /\ Top.kind \in {"loading", "trying"}
  BY DEF Running
<1>2. PICK l \in Nat \ {0} : l = Len(stack)
  BY <1>1, StartPassShape
<1>3. /\ DOMAIN stack = 1 .. l /\ stack' \in Seq(Frames) /\ Len(stack') = l
      /\ \A i \in 1 .. l - 1 : stack'[i] = stack[i]
      /\ stack'[l].kind = "trying" /\ stack'[l].left = pending
  BY <1>1, <1>2, StartPassShape
<1>4. stack[l].kind \in {"loading", "trying"} /\ stack[l].left = <<>>
  BY <1>1, <1>2, FrontOfStack DEF Top, StackOK
<1>5. DOMAIN stack' = 1 .. l /\ l \in DOMAIN stack'
  BY <1>3
<1>6. Continues(l)
  <2>1. ASSUME NEW m \in Pending, WaitsAbove(m, stack, l - 1)
        PROVE  Cared(m, l - 1)'
    <3>1. \E i \in DOMAIN pending : pending[i] = m
      BY <1>2, <1>4, <2>1, WaitsAtTop
    <3>2. l > l - 1
      OBVIOUS
    <3> QED
      BY <1>3, <1>5, <3>1, <3>2 DEF Cared, WaitsAbove
  <2>2. ASSUME NEW x \in Names, Settles(x, stack, l)
        PROVE  Settled(x, l)'
    <3>1. PICK m \in Pending :
            /\ m.id = x /\ WaitsAbove(m, stack, l)
            /\ \A i \in DOMAIN m.deps : m.deps[i] \in Definable /\ Comes(m.deps[i], stack, l)
      BY <1>4, <2>2 DEF Settles
    <3>2. \E i \in DOMAIN pending : pending[i] = m
      BY <1>2, <3>1, WaitsAtTop
    <3>3. AllAvailable(m.deps)'
      <4>1. l + 1 \notin DOMAIN stack
        BY <1>3
      <4>2. \A i \in DOMAIN m.deps : Available(m.deps[i])
        BY <1>4, <3>1, <4>1 DEF Comes
      <4> QED
        BY <4>2 DEF AllAvailable, Available
    <3> QED
      BY <1>3, <1>5, <3>1, <3>2, <3>3 DEF Settled, Settles
  <2>3. l - 1 <= Len(stack') /\ \A x \in Names : Available(x) => Available(x)'
    BY <1>3 DEF Available
  <2> QED
    BY <1>3, <1>4, <2>1, <2>2, <2>3 DEF Continues
<1>7. ASSUME NEW k \in DOMAIN stack', k >= l, IsBody(stack, k)'
      PROVE  Delivers(stack, k)'
  <2>1. k = l
    BY <1>5, <1>7
  <2> QED
    BY <1>3, <1>7, <2>1 DEF IsBody
<1> QED
  BY <1>2, <1>6, <1>7, LoadsKept

\* The next module of a pass: made, pending again, or made already.
LEMMA TryPendingLoads ==
    ASSUME TypeOK, StackOK(stack), BodiesDeliver(stack), LoadsAnswered(stack),
           TryPending, UNCHANGED program, ~failed'
    PROVE  BodiesDeliver(stack)' /\ LoadsAnswered(stack)'
<1> DEFINE tried(b) == [stack EXCEPT ![Len(stack)] =
                          [Top EXCEPT !.left = Tail(@), !.again = @ \/ b]]
<1>1. Running("trying") /\ Top.left # <<>> /\ UNCHANGED <<available, loads>>
  BY DEF TryPending
<1>2. PICK l \in Nat \ {0} : l = Len(stack)
  BY <1>1, TryingShape
<1>3. /\ DOMAIN stack = 1 .. l /\ Top = stack[l]
      /\ stack[l].kind = "trying" /\ stack[l].left \in Seq(Pending) /\ stack[l].left # <<>>
      /\ \A b \in BOOLEAN :
            /\ tried(b) \in Seq(Frames) /\ Len(tried(b)) = l
            /\ \A i \in 1 .. l - 1 : tried(b)[i] = stack[i]
            /\ tried(b)[l].kind = "trying" /\ tried(b)[l].left = Tail(stack[l].left)
  BY <1>1, <1>2, TryingShape
<1>4. PICK m \in Pending : m = Head(stack[l].left)
  <2> HIDE DEF tried
  <2>1. stack[l].left \in Seq(Pending) /\ stack[l].left # <<>>
    BY <1>3
  <2>2. Head(stack[l].left) \in Pending
    BY <2>1, HeadTailProperties
  <2> QED
    BY <2>2
<1>5. m.id \in Names
  BY DEF Pending
<1>6. PICK below \in Seq(Frames) :
         /\ Len(below) = l /\ \A i \in 1 .. l - 1 : below[i] = stack[i]
         /\ below[l].kind = "trying" /\ below[l].left = Tail(stack[l].left)
         /\ \/ AllAvailable(m.deps) /\ Load(m.id, below) /\ UNCHANGED pending
            \/ ~AllAvailable(m.deps) /\ pending' = Append(pending, m) /\ stack' = below
  <2>1. \/ AllAvailable(m.deps) /\ Load(m.id, tried(TRUE)) /\ UNCHANGED pending
        \/ ~AllAvailable(m.deps) /\ pending' = Append(pending, m) /\ stack' = tried(FALSE)
    BY <1>3, <1>4 DEF TryPending
  <2> HIDE DEF tried
  <2> QED
    BY <1>3, <2>1
<1> HIDE DEF tried
<1>7. /\ stack' \in Seq(Frames)
      /\ \A i \in 1 .. l : stack'[i] = below[i]
      /\ \/ Len(stack') = l /\ Available(m.id) /\ UNCHANGED pending
         \/ /\ Len(stack') = l + 1 /\ stack'[l + 1].kind = "factory" /\ stack'[l + 1].id = m.id
            /\ UNCHANGED pending
         \/ Len(stack') = l /\ ~AllAvailable(m.deps) /\ pending' = Append(pending, m)
  <2>1. CASE Load(m.id, below) /\ UNCHANGED pending
    BY <1>5, <1>6, <2>1, LoadRuns
  <2>2. CASE ~AllAvailable(m.deps) /\ pending' = Append(pending, m) /\ stack' = below
    BY <1>6, <2>2
  <2> QED
    BY <1>6, <2>1, <2>2
<1>8. PICK p \in {l, l + 1} : p = Len(stack') /\ DOMAIN stack' = 1 .. p
  BY <1>7
<1>9. /\ \A i \in DOMAIN pending : \E j \in DOMAIN pending' : pending'[j] = pending[i]
      /\ ~AllAvailable(m.deps) /\ pending' = Append(pending, m) => \E j \in DOMAIN pending' : pending'[j] = m
  <2>1. CASE pending' = Append(pending, m)
    <3>1. pending \in Seq(Pending)
      BY DEF TypeOK
    <3>2. /\ DOMAIN pending' = 1 .. Len(pending) + 1 /\ pending'[Len(pending) + 1] = m
          /\ \A i \in 1 .. Len(pending) : pending'[i] = pending[i]
          /\ DOMAIN pending = 1 .. Len(pending) /\ Len(pending) \in Nat
      BY <2>1, <3>1, PushOnStack
    <3> QED
      BY <3>2
  <2> QED
    BY <1>7, <2>1
<1>10. l \in DOMAIN stack' /\ stack'[l].kind = "trying" /\ stack'[l].left = Tail(stack[l].left)
  BY <1>6, <1>7, <1>8
\* The next module is made above the loop or pending.
<1>11. \/ Available(m.id)'
       \/ l + 1 \in DOMAIN stack' /\ stack'[l + 1].kind = "factory" /\ stack'[l + 1].id = m.id
       \/ ~AllAvailable(m.deps) /\ \E j \in DOMAIN pending' : pending'[j] = m
  BY <1>1, <1>7, <1>8, <1>9 DEF Available
<1>12. ASSUME NEW x, \E i \in DOMAIN stack[l].left : stack[l].left[i] = x
       PROVE  x = m \/ \E i \in DOMAIN stack'[l].left : stack'[l].left[i] = x
  <2>1. PICK i \in DOMAIN stack[l].left : stack[l].left[i] = x
    BY <1>12
  <2>2. CASE i = 1
    BY <1>3, <1>4, <2>1, <2>2
  <2>3. CASE i # 1
    <3>1. i - 1 \in DOMAIN Tail(stack[l].left) /\ Tail(stack[l].left)[i - 1] = x
      BY <1>3, <2>1, <2>3
    <3> QED
      BY <1>10, <3>1
  <2> QED
    BY <2>2, <2>3
<1>13. Continues(l)
  <2>1. ASSUME NEW x \in Pending, WaitsAbove(x, stack, l - 1)
        PROVE  Cared(x, l - 1)'
    <3>1. \/ \E i \in DOMAIN pending : pending[i] = x
          \/ \E i \in DOMAIN stack[l].left : stack[l].left[i] = x
      BY <1>2, <2>1, WaitsAtTop
    <3>2. l > l - 1 /\ l + 1 > l - 1
      OBVIOUS
    <3>3. CASE \E i \in DOMAIN pending : pending[i] = x
      <4>1. \E i \in DOMAIN pending' : pending'[i] = x
        BY <1>9, <3>3
      <4> QED
        BY <4>1 DEF Cared, WaitsAbove
    <3>4. CASE \E i \in DOMAIN stack'[l].left : stack'[l].left[i] = x
      BY <1>10, <3>2, <3>4 DEF Cared, WaitsAbove
    <3>5. CASE x = m
      BY <1>11, <3>2, <3>5 DEF Cared, WaitsAbove, MadeAbove
    <3> QED
      BY <1>12, <3>1, <3>3, <3>4, <3>5
  <2>2. ASSUME NEW n \in Names, Settles(n, stack, l)
        PROVE  Settled(n, l)'
    <3>1. PICK x \in Pending :
            /\ x.id = n /\ AllAvailable(x.deps)
            /\ \E i \in DOMAIN stack[l].left : stack[l].left[i] = x
      BY <1>3, <2>2 DEF Settles
    <3>2. AllAvailable(x.deps)'
      BY <1>1, <3>1 DEF AllAvailable, Available
    <3>3. CASE \E i \in DOMAIN stack'[l].left : stack'[l].left[i] = x
      BY <1>10, <3>1, <3>2, <3>3 DEF Settled, Settles
    <3>4. CASE x = m
      <4>1. l + 1 > l
        OBVIOUS
      <4> QED
        BY <1>11, <3>1, <3>4, <4>1 DEF Settled, MadeAbove
    <3> QED
      BY <1>12, <3>1, <3>3, <3>4
  <2>3. \A k \in 1 .. l - 1 : stack'[k] = stack[k]
    BY <1>6, <1>7
  <2>4. l - 1 <= Len(stack') /\ \A x \in Names : Available(x) => Available(x)'
    BY <1>1, <1>8 DEF Available
  <2> QED
    BY <1>3, <1>7, <2>1, <2>2, <2>3, <2>4 DEF Continues
<1>14. ASSUME NEW k \in DOMAIN stack', k >= l, IsBody(stack, k)'
       PROVE  Delivers(stack, k)'
  <2>1. k # l
    BY <1>10, <1>14 DEF IsBody
  <2>2. k = l + 1 /\ p = l + 1
    BY <1>8, <1>14, <2>1
  <2>3. stack'[k].kind = "factory"
    BY <1>7, <1>8, <2>2
  <2> QED
    BY <1>14, <2>3 DEF IsBody
<1> QED
  BY <1>1, <1>2, <1>13, <1>14, LoadsKept

-------------------------------------------------------------------------------
(***************************************************************************)
(* Returns.                                                                *)
(***************************************************************************)
\* The top frame has done what it is for.
LEMMA ReturnLoads ==
    ASSUME TypeOK, StackOK(stack), BodiesDeliver(stack), LoadsAnswered(stack), stack # <<>>,
           stack' = Front(stack), UNCHANGED <<program, pending, loads>>,
           \A n \in Names : Available(n) => Available(n)',
           Top.kind # "loading", Top.kind = "trying" => Top.left = <<>>,
           Top.kind \in {"factory", "require", "load"} =>
               available'[Top.id] # 0 \/ (Top.kind # "factory" /\ Top.id \notin Definable)
    PROVE  BodiesDeliver(stack)' /\ LoadsAnswered(stack)'
<1>1. PICK l \in Nat \ {0} : l = Len(stack)
  BY FrontOfStack DEF StackOK
<1>2. /\ DOMAIN stack = 1 .. l /\ stack' \in Seq(Frames) /\ DOMAIN stack' = 1 .. l - 1
      /\ \A i \in 1 .. l - 1 : stack'[i] = stack[i]
      /\ Top = stack[l]
  BY <1>1, FrontOfStack DEF StackOK, Top
<1>3. l - 1 <= Len(stack')
  BY <1>2
<1>4. ASSUME NEW m \in Pending, WaitsAbove(m, stack, l - 1)
      PROVE  Cared(m, l - 1)'
  <2>1. \E i \in DOMAIN pending : pending[i] = m
    BY <1>1, <1>2, <1>4, WaitsAtTop
  <2> QED
    BY <2>1 DEF Cared, WaitsAbove
<1>5. \A n \in Names : ~Settles(n, stack, l)
  BY <1>2 DEF Settles
<1>6. Continues(l)
  BY <1>2, <1>3, <1>4, <1>5 DEF Continues
<1>7. \A k \in DOMAIN stack' : ~(k >= l)
  BY <1>2
<1> QED
  BY <1>1, <1>6, <1>7, LoadsKept

LEMMA ReturnsLoads ==
    ASSUME TypeOK, AsyncInv, CallsInv, BodiesDeliver(stack), LoadsAnswered(stack), UNCHANGED program,
           \/ FactoryReturns \/ BodyReturns \/ ScriptReturns
           \/ PassEnds /\ ~Top.again
    PROVE  BodiesDeliver(stack)' /\ LoadsAnswered(stack)'
<1>1. StackOK(stack) /\ stack # <<>>
  BY StackIsOK DEF FactoryReturns, BodyReturns, ScriptReturns, PassEnds, Running
<1>0. PICK l \in Nat \ {0} : l = Len(stack)
  BY <1>1, FrontOfStack DEF StackOK
<1>2. l = Len(stack) /\ DOMAIN stack = 1 .. l /\ Top = stack[l] /\ l \in DOMAIN stack
  <2>1. DOMAIN stack = 1 .. l /\ Top = stack[l]
    BY <1>0, <1>1, FrontOfStack DEF StackOK, Top
  <2> QED
    BY <1>0, <2>1
<1>3. UNCHANGED available => \A n \in Names : Available(n) => Available(n)'
  BY DEF Available
<1>4. CASE FactoryReturns
  <2>1. Top.kind = "factory" /\ Top.id \in Names /\ Top.run \in 1 .. made[Top.id]
    BY <1>1, <1>2, <1>4 DEF FactoryReturns, Running, StackOK, WellNested, CallsInv, CallsInOrder
  <2>2. Top.run # 0
    BY <2>1 DEF TypeOK
  <2>3. /\ available'[Top.id] # 0
        /\ \A n \in Names : n # Top.id => available'[n] = available[n]
    BY <1>4, <2>1, <2>2 DEF FactoryReturns, TypeOK
  <2>4. \A n \in Names : Available(n) => Available(n)'
    BY <2>3 DEF Available
  <2>5. stack' = Front(stack) /\ UNCHANGED <<pending, loads>>
    BY <1>4 DEF FactoryReturns
  <2> QED
    BY <1>1, <2>1, <2>3, <2>4, <2>5, ReturnLoads
<1>5. CASE BodyReturns
  <2>1. /\ Top.kind \in {"require", "load"} /\ Top.todo = <<>>
        /\ stack' = Front(stack) /\ UNCHANGED <<available, pending, loads>>
    BY <1>5 DEF BodyReturns, Running, registry
  <2>2. ASSUME Top.id \in Definable PROVE available'[Top.id] # 0
    <3>1. IsBody(stack, l) /\ Delivers(stack, l)
      BY <1>2, <2>1, <2>2 DEF IsBody, BodiesDeliver
    <3>2. ~Owes(stack, l)
      BY <1>2, <2>1 DEF Owes
    <3>3. ~MadeAbove(stack[l].id, stack, l) /\ ~Settles(stack[l].id, stack, l + 1)
      BY <1>2 DEF MadeAbove, Settles
    <3>4. Available(Top.id)
      BY <1>2, <3>1, <3>2, <3>3 DEF Delivers
    <3> QED
      BY <2>1, <3>4 DEF Available
  <2> QED
    BY <1>1, <1>3, <2>1, <2>2, ReturnLoads
<1>6. CASE ScriptReturns
  <2>1. /\ Top.kind = "script" /\ stack' = <<>> /\ UNCHANGED <<available, pending, loads>>
    BY <1>6 DEF ScriptReturns, Running, registry
  <2>2. l = 1
    BY <1>1, <1>2, <2>1 DEF StackOK, WellNested
  <2>3. Front(stack) = <<>>
    <3>1. stack \in Seq(Frames) /\ Len(stack) = 1
      BY <1>1, <1>2, <2>2 DEF StackOK
    <3> QED
      BY <3>1 DEF Front
  <2> QED
    BY <1>1, <1>3, <2>1, <2>3, ReturnLoads
<1>7. CASE PassEnds /\ ~Top.again
  <2>1. /\ Top.kind = "trying" /\ Top.left = <<>>
        /\ stack' = Front(stack) /\ UNCHANGED <<available, pending, loads>>
    BY <1>7 DEF PassEnds, Running
  <2> QED
    BY <1>1, <1>3, <2>1, ReturnLoads
<1> QED
  BY <1>4, <1>5, <1>6, <1>7

-------------------------------------------------------------------------------
(***************************************************************************)
(* The invariant.                                                          *)
(***************************************************************************)
LEMMA LoadInit == Init => LoadInv /\ CallsInv
<1> SUFFICES ASSUME Init PROVE LoadInv /\ CallsInv
  OBVIOUS
<1>1. stack = <<>> /\ \A n \in Sourced : loads[n] = 0
  BY DEF Init
<1>2. LoadInv
  BY <1>1, DefinableIsClosed DEF LoadInv, BodiesDeliver, LoadsAnswered
<1>3. CallsInv
  <2>1. \A n \in Names : available[n] = 0 /\ made[n] = 0
    BY DEF Init
  <2> QED
    BY <1>1, <2>1 DEF CallsInv, CallsInOrder
<1> QED
  BY <1>2, <1>3

LEMMA LoadStep ==
    ASSUME TypeOK, AsyncInv, CallsInv, LoadInv, [Next]_vars
    PROVE  LoadInv'
<1> SUFFICES ASSUME proc' = "running", ~failed'
             PROVE  BodiesDeliver(stack)' /\ LoadsAnswered(stack)'
  BY DEF LoadInv
<1>1. StackOK(stack) /\ UNCHANGED program
  BY StackIsOK DEF Next, vars
<1>2. proc = "running" /\ ~failed
  BY DEF Next, Execute, Throw, RunString, Require, RequireAsync, Define, Load, LoadDependency,
         LoadModule, Fails, AttemptToLoadMoreModules, TryPending, PassEnds, FactoryReturns,
         BodyReturns, ScriptReturns, FactoryThrows, BodyThrows, ScriptThrows, Invalidate, Ended,
         vars, TypeOK, NextIs, RunningCode, Running, Idle
<1>3. BodiesDeliver(stack) /\ LoadsAnswered(stack)
  BY <1>2 DEF LoadInv
<1>4. CASE UNCHANGED vars
  <2>1. Definable' = Definable
    BY <1>1, DefinableStays
  <2>2. UNCHANGED <<stack, available, pending, loads>>
    BY <1>4 DEF vars, registry
  <2>3. BodiesDeliver(stack)'
    BY <1>3, <2>1, <2>2
       DEF BodiesDeliver, IsBody, Delivers, Owes, MadeAbove, Settles, WaitsAbove, Comes, Available,
           AllAvailable
  <2>4. LoadsAnswered(stack)'
    BY <1>3, <2>1, <2>2 DEF LoadsAnswered, IsBody, Available
  <2> QED
    BY <2>3, <2>4
<1>5. CASE RunString
  <2>1. stack = <<>> /\ UNCHANGED <<available, loads>> /\ Definable' = Definable
    BY <1>1, <1>5, DefinableStays DEF RunString, Idle, registry
  <2>2. DOMAIN stack' = {1} /\ stack'[1].kind = "script"
    BY <1>5 DEF RunString, Code
  <2>3. BodiesDeliver(stack)'
    BY <2>2 DEF BodiesDeliver, IsBody
  <2>4. LoadsAnswered(stack)'
    BY <1>3, <2>1 DEF LoadsAnswered, Available
  <2> QED
    BY <2>3, <2>4
<1>6. CASE Execute
  <2>1. CASE Require \/ RequireAsync
    BY <1>1, <1>3, <2>1, RequiresLoads
  <2>2. CASE Define
    BY <1>1, <1>3, <2>2, DefineLoads
  <2>3. CASE LoadDependency
    BY <1>1, <1>3, <2>3, LoadDependencyLoads
  <2>4. CASE AttemptToLoadMoreModules \/ (PassEnds /\ StartPass)
    BY <1>1, <1>3, <2>4, StartPassLoads DEF AttemptToLoadMoreModules, PassEnds
  <2>5. CASE TryPending
    BY <1>1, <1>3, <2>5, TryPendingLoads
  <2>6. CASE FactoryReturns \/ BodyReturns \/ ScriptReturns \/ (PassEnds /\ ~Top.again)
    BY <1>1, <1>3, <2>6, ReturnsLoads
  <2> QED
    BY <1>6, <2>1, <2>2, <2>3, <2>4, <2>5, <2>6 DEF Execute, PassEnds
<1>7. ~Throw /\ ~Invalidate /\ ~Ended
  BY DEF Throw, FactoryThrows, BodyThrows, ScriptThrows, Fails, Invalidate, Ended, vars
<1> QED
  BY <1>4, <1>5, <1>6, <1>7 DEF Next

LEMMA LoadInvariant == Spec => [](TypeOK /\ AsyncInv /\ CallsInv /\ LoadInv)
<1>1. Init => TypeOK /\ AsyncInv /\ CallsInv /\ LoadInv
  BY AsyncInit, LoadInit
<1>2. TypeOK /\ AsyncInv /\ CallsInv /\ LoadInv /\ [Next]_vars => (TypeOK /\ AsyncInv /\ CallsInv /\ LoadInv)'
  BY AsyncStep, CallsStep, LoadStep
<1> QED
  BY <1>1, <1>2, PTL DEF Spec

-------------------------------------------------------------------------------
\* Whatever was loaded, pending or half loaded when a body began, once the host
\* has the thread back, and unless something failed, its module is available
\* with all it needs.
THEOREM WhatWasLoadedIsAvailable == Spec => []LoadedIsAvailable
<1>1. LoadInv => LoadedIsAvailable
  BY DEF LoadInv, LoadedIsAvailable, LoadsAnswered, Idle
<1> QED
  BY <1>1, LoadInvariant, PTL

\* A module that is available is never replaced by a later call of its factory.
THEOREM ModulesAreStable == Spec => ModuleStable
<1>1. TypeOK /\ AsyncInv /\ CallsInv /\ LoadInv /\ [Next]_vars
         => [\A n \in Names : Available(n) => available'[n] <= available[n]]_vars
  BY CallsStep
<1> QED
  BY <1>1, LoadInvariant, PTL DEF Spec, ModuleStable
===============================================================================
