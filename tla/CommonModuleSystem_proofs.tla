----------------------- MODULE CommonModuleSystem_proofs -----------------------
(***************************************************************************)
(* What holds of CommonModuleSystem for every set of modules, cyclic or    *)
(* not, in both modes: type correctness, the natives gate, and no exports  *)
(* of an unfinished execution.                                             *)
(***************************************************************************)
EXTENDS OsModules, StackLemmas

(***************************************************************************)
(* The stack after each kind of step.                                      *)
(***************************************************************************)
\* The frame a require or a requireNative leaves, and the frames below it.
LEMMA RequiredFrame ==
    ASSUME stack \in Seq(Frames), stack # <<>>, NEW n
    PROVE  /\ Required(n) \in Seq(Frames)
           /\ Len(Required(n)) = Len(stack)
           /\ Required(n) # <<>>
           /\ DOMAIN Required(n) = DOMAIN stack
           /\ \A i \in DOMAIN stack :
                 /\ Required(n)[i].code = stack[i].code
                 /\ Required(n)[i].run = stack[i].run
                 /\ Required(n)[i].via = stack[i].via
                 /\ Required(n)[i].needs \subseteq stack[i].needs
<1> DEFINE e == [stack[Len(stack)] EXCEPT !.needs = @ \ {n}]
<1>1. Required(n) = [stack EXCEPT ![Len(stack)] = e]
  BY DEF Required
<1>2. Len(stack) \in DOMAIN stack /\ stack[Len(stack)] \in Frames
  OBVIOUS
<1>3. /\ e \in Frames
      /\ e.code = stack[Len(stack)].code
      /\ e.run = stack[Len(stack)].run
      /\ e.via = stack[Len(stack)].via
      /\ e.needs \subseteq stack[Len(stack)].needs
  BY <1>2 DEF Frames
<1> HIDE DEF e
<1> QED
  BY <1>1, <1>2, <1>3, TopUpdated

LEMMA AskedFrame ==
    ASSUME stack \in Seq(Frames), stack # <<>>, NEW q
    PROVE  /\ Asked(q) \in Seq(Frames)
           /\ Len(Asked(q)) = Len(stack)
           /\ Asked(q) # <<>>
           /\ DOMAIN Asked(q) = DOMAIN stack
           /\ \A i \in DOMAIN stack :
                 /\ Asked(q)[i].code = stack[i].code
                 /\ Asked(q)[i].run = stack[i].run
                 /\ Asked(q)[i].via = stack[i].via
                 /\ Asked(q)[i].needs \subseteq stack[i].needs
<1> DEFINE e == [stack[Len(stack)] EXCEPT !.asks = @ \ {q}]
<1>1. Asked(q) = [stack EXCEPT ![Len(stack)] = e]
  BY DEF Asked
<1>2. Len(stack) \in DOMAIN stack /\ stack[Len(stack)] \in Frames
  OBVIOUS
<1>3. /\ e \in Frames
      /\ e.code = stack[Len(stack)].code
      /\ e.run = stack[Len(stack)].run
      /\ e.via = stack[Len(stack)].via
      /\ e.needs \subseteq stack[Len(stack)].needs
  BY <1>2 DEF Frames
<1> HIDE DEF e
<1> QED
  BY <1>1, <1>2, <1>3, TopUpdated

\* New frames are frames.
LEMMA NewFrames ==
    ASSUME runs \in [Names -> Nat]
    PROVE  /\ \A n \in Names, via \in Vias :
                 /\ ModuleFrame(n, via) \in Frames
                 /\ ModuleFrame(n, via).code = n
                 /\ ModuleFrame(n, via).run = runs[n] + 1
                 /\ ModuleFrame(n, via).via = via
                 /\ ModuleFrame(n, via).needs = Requires[n]
           /\ \A body \in ScriptBodies :
                 /\ HostFrame(body) \in Frames
                 /\ HostFrame(body).code = NoName
                 /\ HostFrame(body).via = "host"
           /\ HostFrame({}) \in Frames
           /\ HostFrame({}).code = NoName
           /\ HostFrame({}).via = "host"
  BY SourcesAssumption, BodiesAssumption DEF ModuleFrame, HostFrame, Frames, Vias

\* A require hands out the exports of an execution that was started.
LEMMA GetType ==
    ASSUME modules \in [Names -> Nat], NEW n \in Names
    PROVE  Get(n) \in Int
  BY DEF Get, Undefined, Inherited

(***************************************************************************)
(* Type correctness.                                                       *)
(***************************************************************************)
LEMMA TypeInit == Init => TypeOK
<1> SUFFICES ASSUME Init PROVE TypeOK
  OBVIOUS
<1>1. modules \in [Names -> Nat] /\ runs \in [Names -> Nat] /\ held \subseteq Names \X Int
  BY DEF Init, Undefined
<1>2. stack \in Seq(Frames)
  BY NoFrame DEF Init
<1>3. natives \in Int /\ nativeMap \subseteq NativeNames /\ entries \in Nat
  BY DEF Init
<1>5. globals \in BOOLEAN
  BY Zenon DEF Init
<1>4. proc \in {"starting", "running", "aborted", "invalidated"}
  BY DEF Init
<1> QED
  BY <1>1, <1>2, <1>3, <1>4, <1>5 DEF TypeOK

LEMMA TypeNext == TypeOK /\ [Next]_vars => TypeOK'
<1> SUFFICES ASSUME TypeOK, [Next]_vars PROVE TypeOK'
  OBVIOUS
<1> USE DEF TypeOK
<1>0. Bootstrap \in Names
  BY SourcesAssumption
<1>1. CASE Abort
  BY <1>1 DEF Abort
<1>2. CASE DidCreateEnvironment
  <2>1. ModuleFrame(Bootstrap, "environment") \in Frames
    BY <1>0, NewFrames DEF Vias
  <2> QED
    BY <1>0, <1>2, <2>1, PushOnStack, BodiesAssumption DEF DidCreateEnvironment, Enter
<1>3. ASSUME NEW n \in Names, RequireCached(n) PROVE TypeOK'
  BY <1>3, RequiredFrame, GetType DEF RequireCached, Executing, Hold
<1>4. ASSUME NEW n \in Names, RequireLoads(n) PROVE TypeOK'
  <2>1. ModuleFrame(n, "require") \in Frames
    BY NewFrames DEF Vias
  <2>2. Required(n) \in Seq(Frames)
    BY <1>4, RequiredFrame DEF RequireLoads, Executing
  <2> QED
    BY <1>4, <2>1, <2>2, PushOnStack DEF RequireLoads, Enter
<1>5. ASSUME NEW n \in Names, RequireFails(n) PROVE TypeOK'
  BY <1>1, <1>5, RequiredFrame
     DEF RequireFails, Executing, BatchFatal, ReplFatal, Undefined
<1>6. ASSUME NEW q \in NativeNames,
             RequireNativeDenied(q) \/ RequireNativeFound(q) \/ RequireNativeMissing(q)
      PROVE  TypeOK'
  BY <1>1, <1>6, AskedFrame
     DEF RequireNativeDenied, RequireNativeFound, RequireNativeMissing,
         Executing, BatchFatal, ReplFatal
<1>7. ASSUME Executing, Top.code # NoName PROVE
        /\ Front(stack) \in Seq(Frames)
        /\ Top.code \in Names /\ Top.run \in Nat /\ Top.run \in Int
        /\ ScopeClosed \in Int
  <2>1. Front(stack) \in Seq(Frames) /\ Top \in Frames
    BY <1>7, FrontOfStack DEF Executing, Top
  <2> QED
    BY <1>7, <2>1 DEF Frames, ScopeClosed
<1>8. ASSUME InModule, Published PROVE
        /\ modules' \in [Names -> Nat] /\ held' \subseteq Names \X Int
        /\ natives' \in Int /\ globals' \in BOOLEAN
  BY <1>7, <1>8 DEF InModule, Published, Publish, Hold
<1>9. CASE ModuleReturns
  BY <1>7, <1>8, <1>9 DEF ModuleReturns, InModule
<1>10. CASE CalledModuleReturns
  <2>1. \A body \in ScriptBodies : Append(Front(stack), HostFrame(body)) \in Seq(Frames)
    BY <1>7, <1>10, NewFrames, PushOnStack DEF CalledModuleReturns, InModule
  <2> QED
    BY <1>1, <1>7, <1>8, <1>10, <2>1
       DEF CalledModuleReturns, InModule, BatchFatal, ReplFatal
<1>11. CASE ModuleThrows
  <2>1. [modules EXCEPT ![Top.code] = Undefined] \in [Names -> Nat]
    BY DEF Undefined
  <2>2. CASE BatchFatal
    BY <1>1, <2>2 DEF BatchFatal
  <2>3. CASE ~BatchFatal
    <3>1. Front(stack) \in Seq(Frames) /\ ScopeClosed \in Int
      BY <1>7, <1>11 DEF ModuleThrows, InModule
    <3> QED
      BY <1>11, <2>1, <2>3, <3>1 DEF ModuleThrows, ReplFatal, Publish
  <2> QED
    BY <2>2, <2>3
<1>12. CASE HostCodeThrows \/ HostCodeReturns
  BY <1>1, <1>12, FrontOfStack
     DEF HostCodeThrows, HostCodeReturns, Executing, BatchFatal, ReplFatal
<1>13. \A body \in ScriptBodies \cup {{}} : <<HostFrame(body)>> \in Seq(Frames)
  BY NewFrames, SingleFrame
<1>14. CASE RunString
  BY <1>13, <1>14 DEF RunString
<1>15. ASSUME NEW n \in Names, CallModuleMethod(n) PROVE TypeOK'
  <2>1. Append(stack, ModuleFrame(n, "call")) \in Seq(Frames)
    BY NewFrames, PushOnStack DEF Vias
  <2>2. Hold(n, Get(n)) => held' \subseteq Names \X Int
    BY GetType DEF Hold
  <2>3. CASE Enter(n, "call", stack) /\ natives' = natives + 1 /\ UNCHANGED <<modules, held, proc>>
    BY <1>15, <2>1, <2>3 DEF CallModuleMethod, Enter
  <2>4. CASE \E body \in ScriptBodies :
                /\ stack' = <<HostFrame(body)>>
                /\ Hold(n, Get(n))
                /\ UNCHANGED <<modules, runs, natives, proc>>
    BY <1>13, <1>15, <2>2, <2>4 DEF CallModuleMethod
  <2> QED
    BY <1>15, <2>3, <2>4 DEF CallModuleMethod
<1>16. ASSUME NEW n \in Names, CallModuleMethodFails(n) PROVE TypeOK'
  <2>1. Hold(n, Get(n)) => held' \subseteq Names \X Int
    BY GetType DEF Hold
  <2>2. CASE BatchFatal
    BY <1>1, <2>2 DEF BatchFatal
  <2>3. CASE ~BatchFatal
    <3>1. /\ Hold(n, Get(n)) /\ entries' = entries + 1
          /\ UNCHANGED <<modules, runs, stack, natives, nativeMap, globals, proc>>
      BY <1>16, <2>3 DEF CallModuleMethodFails, ReplFatal
    <3> QED
      BY <2>1, <3>1
  <2> QED
    BY <2>2, <2>3
<1>17. CASE Invalidate
  BY <1>17 DEF Invalidate
<1>18. CASE Ended \/ UNCHANGED vars
  BY <1>18 DEF Ended, vars
<1> QED
  BY <1>2, <1>3, <1>4, <1>5, <1>6, <1>9, <1>10, <1>11, <1>12, <1>14, <1>15,
     <1>16, <1>17, <1>18 DEF Next, Execute, Host

\* The variables keep the types the C++ declares for them.
THEOREM TypeCorrect == Spec => []TypeOK
  BY TypeInit, TypeNext, PTL DEF Spec

(***************************************************************************)
(* The natives gate.  A step leaves the entry frame where it is and        *)
(* natives_enabled_ alone, or enters code from an empty stack, or empties  *)
(* the stack.                                                              *)
(***************************************************************************)
LEMMA GateInit == Init => GateInv
<1> SUFFICES ASSUME Init PROVE GateInv
  OBVIOUS
<1>1. stack = <<>> /\ natives = 0
  BY DEF Init
<1> QED
  BY <1>1, NoFrame DEF Init, GateInv, NothingYet, EnteredByRequire, NativesScoped

\* A step that keeps the entry frame and only pushes frames entered by require.
LEMMA GateKept ==
    ASSUME GateInv, stack \in Seq(Frames), stack # <<>>,
           stack' \in Seq(Frames), stack' # <<>>, natives' = natives,
           proc' # "starting",
           \A i \in DOMAIN stack' :
              \/ /\ i \in DOMAIN stack
                 /\ stack'[i].via = stack[i].via
                 /\ stack'[i].code = stack[i].code
              \/ /\ i > 1
                 /\ stack'[i].via = "require"
                 /\ stack'[i].code # NoName
    PROVE  GateInv'
<1>1. 1 \in DOMAIN stack /\ 1 \in DOMAIN stack'
  OBVIOUS
<1>2. EnteredByRequire'
  BY DEF GateInv, EnteredByRequire
<1>3. Head(stack').via = Head(stack).via
  BY <1>1
<1>4. NativesScoped'
  BY <1>3 DEF GateInv, NativesScoped
<1> QED
  BY <1>2, <1>4 DEF GateInv

\* A step that enters code from an empty stack, or empties the stack.
LEMMA GateSingle ==
    ASSUME NEW f \in Frames, stack' = <<f>>, proc' # "starting",
           natives' = IF f.via \in Scoped THEN 1 ELSE 0,
           f.code = NoName => f.via = "host"
    PROVE  GateInv'
<1>1. stack' # <<>> /\ DOMAIN stack' = {1} /\ stack'[1] = f
  BY SingleFrame
<1>2. Head(stack') = f
  BY <1>1
<1> QED
  BY <1>1, <1>2 DEF GateInv, EnteredByRequire, NativesScoped

LEMMA GateEmpty ==
    ASSUME stack' = <<>>, natives' = 0, proc' # "starting"
    PROVE  GateInv'
  BY NoFrame DEF GateInv, EnteredByRequire, NativesScoped

\* Popping the entry frame closes its scope; popping another has none to close.
LEMMA GatePopped ==
    ASSUME GateInv, stack \in Seq(Frames), stack # <<>>, stack' = Front(stack),
           natives' = ScopeClosed, proc' # "starting"
    PROVE  GateInv'
<1>1. /\ Front(stack) \in Seq(Frames)
      /\ Len(stack) \in Nat \ {0}
      /\ DOMAIN Front(stack) = 1 .. Len(stack) - 1
      /\ DOMAIN stack = 1 .. Len(stack)
      /\ \A i \in 1 .. Len(stack) - 1 : Front(stack)[i] = stack[i]
      /\ Top = stack[Len(stack)]
  BY FrontOfStack DEF Top
<1>2. CASE Len(stack) = 1
  <2>1. stack' = <<>>
    BY <1>1, <1>2
  <2>2. natives' = 0
    BY <1>1, <1>2 DEF ScopeClosed, GateInv, NativesScoped
  <2> QED
    BY <2>1, <2>2, GateEmpty
<1>3. CASE Len(stack) > 1
  <2>1. Top.via = "require"
    BY <1>1, <1>3 DEF GateInv, EnteredByRequire
  <2>2. natives' = natives
    BY <2>1 DEF ScopeClosed, Scoped
  <2>3. stack' \in Seq(Frames) /\ stack' # <<>>
    BY <1>1, <1>3
  <2>4. \A i \in DOMAIN stack' : i \in DOMAIN stack /\ stack'[i] = stack[i]
    BY <1>1
  <2> QED
    BY <2>2, <2>3, <2>4, GateKept
<1> QED
  BY <1>1, <1>2, <1>3

\* A module that CallModuleMethod loads is the only frame of the stack.
LEMMA CalledIsAlone ==
    ASSUME GateInv, stack \in Seq(Frames), InModule, Top.via = "call"
    PROVE  Len(stack) = 1 /\ Top = stack[1] /\ Front(stack) = <<>>
<1>1. Len(stack) \in Nat \ {0} /\ Top = stack[Len(stack)]
  BY FrontOfStack DEF InModule, Executing, Top
<1>2. Len(stack) \in DOMAIN stack
  BY <1>1
<1>3. Len(stack) > 1 => stack[Len(stack)].via = "require"
  BY <1>2 DEF GateInv, EnteredByRequire
<1>4. \A k \in Nat \ {0} : k = 1 \/ k > 1
  OBVIOUS
<1>5. Len(stack) = 1
  BY <1>1, <1>3, <1>4
<1> QED
  BY <1>1, <1>5 DEF Front

LEMMA GateNext == TypeOK /\ GateInv /\ [Next]_vars => GateInv'
<1> SUFFICES ASSUME TypeOK, GateInv, [Next]_vars PROVE GateInv'
  OBVIOUS
<1>0. stack \in Seq(Frames) /\ runs \in [Names -> Nat] /\ Bootstrap \in Names
  BY SourcesAssumption DEF TypeOK
<1>1. ASSUME UNCHANGED <<stack, natives>>,
             proc' = "starting" => UNCHANGED <<modules, runs, proc>>
      PROVE  GateInv'
  BY <1>1 DEF GateInv, NothingYet, EnteredByRequire, NativesScoped
<1>2. CASE Abort
  BY <1>1, <1>2 DEF Abort
<1>3. CASE DidCreateEnvironment
  <2>1. stack = <<>> /\ natives = 0
    BY <1>3 DEF DidCreateEnvironment, GateInv, NothingYet, NativesScoped
  <2> DEFINE f == ModuleFrame(Bootstrap, "environment")
  <2>2. f \in Frames /\ f.code = Bootstrap /\ f.via = "environment"
    BY <1>0, NewFrames DEF Vias
  <2>3. stack' = <<f>> /\ natives' = 1 /\ proc' = "running"
    BY <1>3, <2>1 DEF DidCreateEnvironment, Enter
  <2> HIDE DEF f
  <2> QED
    BY <2>2, <2>3, GateSingle, <1>0, SourcesAssumption DEF Scoped
<1>4. ASSUME NEW n \in Names, RequireCached(n) \/ RequireFails(n)
      PROVE  GateInv'
  <2>1. Executing
    BY <1>4 DEF RequireCached, RequireFails
  <2>2. CASE stack' = Required(n) /\ UNCHANGED <<natives, proc>>
    BY <1>0, <2>1, <2>2, RequiredFrame, GateKept DEF Executing
  <2> QED
    BY <1>2, <1>4, <2>2 DEF RequireCached, RequireFails, BatchFatal, ReplFatal
<1>5. ASSUME NEW n \in Names, RequireLoads(n) PROVE GateInv'
  <2>1. Executing
    BY <1>5 DEF RequireLoads
  <2> DEFINE f == ModuleFrame(n, "require")
  <2>2. f \in Frames /\ f.code = n /\ f.via = "require"
    BY <1>0, NewFrames DEF Vias
  <2>3. stack' = Append(Required(n), f) /\ UNCHANGED <<natives, proc>>
    BY <1>5 DEF RequireLoads, Enter
  <2> HIDE DEF f
  <2>4. /\ Required(n) \in Seq(Frames)
        /\ Len(Required(n)) = Len(stack)
        /\ Required(n) # <<>>
        /\ DOMAIN Required(n) = DOMAIN stack
        /\ \A i \in DOMAIN stack :
              /\ Required(n)[i].code = stack[i].code
              /\ Required(n)[i].via = stack[i].via
    BY <1>0, <2>1, RequiredFrame DEF Executing
  <2>5. /\ stack' \in Seq(Frames) /\ stack' # <<>>
        /\ DOMAIN stack' = 1 .. Len(stack) + 1
        /\ stack'[Len(stack) + 1] = f
        /\ \A i \in 1 .. Len(stack) : stack'[i] = Required(n)[i]
    BY <2>2, <2>3, <2>4, PushOnStack
  <2>6. DOMAIN stack = 1 .. Len(stack) /\ Len(stack) \in Nat \ {0}
    BY <1>0, <2>1 DEF Executing
  <2> QED
    BY <1>0, <2>1, <2>2, <2>3, <2>4, <2>5, <2>6, GateKept, SourcesAssumption
       DEF Executing
<1>6. ASSUME NEW q \in NativeNames,
             RequireNativeDenied(q) \/ RequireNativeFound(q) \/ RequireNativeMissing(q)
      PROVE  GateInv'
  <2>1. Executing
    BY <1>6 DEF RequireNativeDenied, RequireNativeFound, RequireNativeMissing
  <2>2. CASE stack' = Asked(q) /\ UNCHANGED <<natives, proc>>
    BY <1>0, <2>1, <2>2, AskedFrame, GateKept DEF Executing
  <2> QED
    BY <1>2, <1>6, <2>2
       DEF RequireNativeDenied, RequireNativeFound, RequireNativeMissing,
           BatchFatal, ReplFatal
<1>7. ASSUME Executing, stack' = Front(stack), natives' = ScopeClosed, UNCHANGED proc
      PROVE  GateInv'
  BY <1>0, <1>7, GatePopped DEF Executing
<1>8. CASE ModuleReturns \/ ModuleThrows
  BY <1>2, <1>7, <1>8
     DEF ModuleReturns, ModuleThrows, InModule, Published, BatchFatal, ReplFatal
<1>9. CASE CalledModuleReturns
  <2>1. CASE BatchFatal
    BY <1>2, <2>1 DEF BatchFatal
  <2>2. CASE stack' = Front(stack) /\ Published /\ UNCHANGED proc
    BY <1>7, <1>9, <2>2 DEF CalledModuleReturns, InModule, Published
  <2>3. ASSUME NEW body \in ScriptBodies, Published, UNCHANGED proc,
               stack' = Append(Front(stack), HostFrame(body))
        PROVE  GateInv'
    <3>1. Len(stack) = 1 /\ Top = stack[1] /\ Front(stack) = <<>>
      BY <1>0, <1>9, CalledIsAlone DEF CalledModuleReturns
    <3>4. stack' = <<HostFrame(body)>>
      BY <2>3, <3>1
    <3>5. natives = 1
      BY <1>0, <1>9, <3>1
         DEF CalledModuleReturns, InModule, Executing, GateInv, NativesScoped, Scoped
    <3>6. natives' = 0
      BY <1>9, <2>3, <3>5 DEF Published, ScopeClosed, CalledModuleReturns, Scoped
    <3> QED
      BY <1>0, <1>9, <2>3, <3>4, <3>6, NewFrames, GateSingle
         DEF CalledModuleReturns, InModule, Executing, Scoped
  <2> QED
    BY <1>9, <2>1, <2>2, <2>3 DEF CalledModuleReturns, ReplFatal
<1>10. CASE HostCodeThrows \/ HostCodeReturns
  <2>1. Executing /\ Top.code = NoName
    BY <1>10 DEF HostCodeThrows, HostCodeReturns
  <2>2. /\ Len(stack) \in Nat \ {0} /\ DOMAIN stack = 1 .. Len(stack)
        /\ Top = stack[Len(stack)]
    BY <1>0, <2>1, FrontOfStack DEF Executing, Top
  <2>3. ScopeClosed = natives
    BY <2>1, <2>2 DEF GateInv, EnteredByRequire, ScopeClosed, Scoped
  <2> QED
    BY <1>2, <1>7, <1>10, <2>1, <2>3
       DEF HostCodeThrows, HostCodeReturns, BatchFatal, ReplFatal
<1>11. ASSUME Idle PROVE stack = <<>> /\ natives = 0 /\ proc = "running"
  BY <1>11 DEF Idle, GateInv, NativesScoped
<1>12. ASSUME Idle, NEW body \in ScriptBodies \cup {{}}, stack' = <<HostFrame(body)>>,
              UNCHANGED <<natives, proc>>
       PROVE  GateInv'
  BY <1>0, <1>11, <1>12, NewFrames, GateSingle DEF Scoped
<1>13. CASE RunString
  BY <1>12, <1>13 DEF RunString
<1>14. ASSUME NEW n \in Names, CallModuleMethod(n) PROVE GateInv'
  <2>1. CASE natives' = natives + 1 /\ Enter(n, "call", stack) /\ UNCHANGED proc
    <3> DEFINE f == ModuleFrame(n, "call")
    <3>1. f \in Frames /\ f.code = n /\ f.via = "call"
      BY <1>0, NewFrames DEF Vias
    <3>2. stack' = <<f>> /\ natives' = 1 /\ proc' = "running"
      BY <1>11, <1>14, <2>1 DEF CallModuleMethod, Enter
    <3> HIDE DEF f
    <3> QED
      BY <3>1, <3>2, GateSingle, SourcesAssumption DEF Scoped
  <2> QED
    BY <1>12, <1>14, <2>1 DEF CallModuleMethod
<1>15. ASSUME NEW n \in Names, CallModuleMethodFails(n) PROVE GateInv'
  BY <1>1, <1>2, <1>15 DEF CallModuleMethodFails, Idle, BatchFatal, ReplFatal
<1>16. CASE Invalidate \/ Ended \/ UNCHANGED vars
  BY <1>1, <1>16 DEF Invalidate, Ended, vars
<1> QED
  BY <1>3, <1>4, <1>5, <1>6, <1>8, <1>9, <1>10, <1>13, <1>14, <1>15, <1>16
     DEF Next, Execute, Host

\* natives_enabled_ always is the number of scopes open: whatever throws or
\* fails, no script and no method is handed a native.
THEOREM GateHolds == Spec => []NativesScoped
<1>1. Init => TypeOK /\ GateInv
  BY TypeInit, GateInit
<1>2. TypeOK /\ GateInv /\ [Next]_vars => (TypeOK /\ GateInv)'
  BY TypeNext, GateNext
<1>3. GateInv => NativesScoped
  BY DEF GateInv
<1> QED
  BY <1>1, <1>2, <1>3, PTL DEF Spec

(***************************************************************************)
(* Exports of unfinished executions.                                       *)
(***************************************************************************)
LEMMA RunsInit == ASSUME NEW S PROVE Init => RunsInv(S)
<1> SUFFICES ASSUME Init PROVE RunsInv(S)
  OBVIOUS
<1>1. stack = <<>> /\ held = {}
  BY DEF Init
<1>2. \A n \in Names : modules[n] = 0 /\ runs[n] = 0
  BY DEF Init, Undefined
<1> QED
  BY <1>1, <1>2, NoFrame DEF RunsInv, RunsInFlight

\* Frames stay or go, or are the host's; what is handed out comes from the
\* cache, and the cache at most loses entries.
LEMMA RunsKept ==
    ASSUME NEW S, TypeOK, RunsInv(S), UNCHANGED runs,
           \A i \in DOMAIN stack' :
              \/ stack'[i].code = NoName
              \/ /\ i \in DOMAIN stack
                 /\ stack'[i].code = stack[i].code
                 /\ stack'[i].run = stack[i].run,
           \A n \in Names : modules'[n] \in {modules[n], Undefined},
           \A h \in held' : h \in held \/ \E n \in Names : h = <<n, Get(n)>>
    PROVE  RunsInv(S)'
<1>1. \A i \in DOMAIN stack : stack[i] \in Frames
  BY DEF TypeOK
<1>2. \A n \in Names : Get(n) \in {modules[n], Inherited, Undefined}
  BY DEF Get
<1>3. \A n \in Names : modules[n] \in Nat /\ runs[n] \in Nat
  BY DEF TypeOK
<1>4. ASSUME NEW i \in DOMAIN stack', stack'[i].code # NoName
      PROVE  /\ i \in DOMAIN stack
             /\ stack'[i].code = stack[i].code /\ stack'[i].run = stack[i].run
             /\ stack[i].code \in Names
             /\ stack[i].run \in 1 .. runs[stack[i].code]
             /\ <<stack[i].code, stack[i].run>> \notin S =>
                   /\ modules[stack[i].code] # stack[i].run
                   /\ <<stack[i].code, stack[i].run>> \notin held
  BY <1>1, <1>4 DEF Frames, RunsInv, RunsInFlight
<1>5. ASSUME NEW i \in DOMAIN stack', stack'[i].code # NoName
      PROVE  /\ stack'[i].run \in 1 .. runs'[stack'[i].code]
             /\ <<stack'[i].code, stack'[i].run>> \notin S =>
                   /\ modules'[stack'[i].code] # stack'[i].run
                   /\ <<stack'[i].code, stack'[i].run>> \notin held'
             /\ \A j \in DOMAIN stack' :
                   (i < j /\ stack'[j].code = stack'[i].code) => stack'[i].run < stack'[j].run
  <2>1. stack'[i].run \in 1 .. runs'[stack'[i].code]
    BY <1>4, <1>5
  <2>2. <<stack[i].code, stack[i].run>> \notin S => modules'[stack'[i].code] # stack'[i].run
    <3>1. modules'[stack[i].code] \in {modules[stack[i].code], 0}
      BY <1>4, <1>5 DEF Undefined
    <3>2. stack[i].run # 0
      <4>1. stack[i].run \in 1 .. runs[stack[i].code] /\ runs[stack[i].code] \in Nat
        BY <1>3, <1>4, <1>5
      <4> QED
        BY <4>1
    <3> QED
      BY <1>4, <1>5, <3>1, <3>2
  <2>3. <<stack[i].code, stack[i].run>> \notin S =>
           \A n \in Names : <<stack[i].code, stack[i].run>> # <<n, Get(n)>>
    <3> SUFFICES ASSUME NEW n \in Names, stack[i].code = n, stack[i].run = Get(n),
                        <<stack[i].code, stack[i].run>> \notin S
                 PROVE  FALSE
      OBVIOUS
    <3>1. Get(n) \in {modules[n], -1, 0}
      BY <1>2 DEF Inherited, Undefined
    <3>2. stack[i].run \in 1 .. runs[n] /\ runs[n] \in Nat /\ stack[i].run # modules[n]
      BY <1>3, <1>4, <1>5
    <3> QED
      BY <3>1, <3>2
  <2>4. <<stack'[i].code, stack'[i].run>> \notin S => <<stack'[i].code, stack'[i].run>> \notin held'
    BY <1>4, <1>5, <2>3
  <2>5. ASSUME NEW j \in DOMAIN stack', i < j, stack'[j].code = stack'[i].code
        PROVE  stack'[i].run < stack'[j].run
    BY <1>4, <1>5, <2>5 DEF RunsInv, RunsInFlight
  <2> QED
    BY <1>4, <1>5, <2>1, <2>2, <2>4, <2>5
<1>6. \A n \in Names : modules'[n] <= runs'[n]
  BY <1>3 DEF RunsInv, Undefined
<1>7. ASSUME NEW h \in held' PROVE h[2] <= runs'[h[1]]
  <2>1. CASE h \in held
    BY <2>1 DEF RunsInv
  <2>2. ASSUME NEW n \in Names, h = <<n, Get(n)>> PROVE h[2] <= runs'[h[1]]
    BY <1>2, <1>3, <2>2 DEF RunsInv, Inherited, Undefined
  <2> QED
    BY <2>1, <2>2
<1> QED
  BY <1>5, <1>6, <1>7 DEF RunsInv, RunsInFlight

\* A body is entered above frames that stay.
LEMMA RunsEntered ==
    ASSUME NEW S, TypeOK, RunsInv(S), UNCHANGED <<modules, held>>,
           NEW n \in Names, NEW below \in Seq(Frames), NEW f \in Frames,
           f.code = n, f.run = runs[n] + 1,
           stack' = Append(below, f),
           runs' = [runs EXCEPT ![n] = @ + 1],
           \A i \in DOMAIN below :
              /\ i \in DOMAIN stack
              /\ below[i].code = stack[i].code
              /\ below[i].run = stack[i].run
    PROVE  RunsInv(S)'
<1>1. \A i \in DOMAIN stack : stack[i] \in Frames
  BY DEF TypeOK
<1>2. \A m \in Names : modules[m] \in Nat /\ runs[m] \in Nat
  BY DEF TypeOK
<1>3. \A m \in Names : runs'[m] = IF m = n THEN runs[m] + 1 ELSE runs[m]
  BY DEF TypeOK
<1>4. /\ DOMAIN stack' = 1 .. Len(below) + 1
      /\ Len(below) \in Nat /\ DOMAIN below = 1 .. Len(below)
      /\ stack'[Len(below) + 1] = f
      /\ \A i \in 1 .. Len(below) : stack'[i] = below[i]
  BY PushOnStack
<1>5. ASSUME NEW i \in DOMAIN below, below[i].code # NoName
      PROVE  /\ stack'[i].code \in Names
             /\ stack'[i].run \in 1 .. runs[stack'[i].code]
             /\ <<stack'[i].code, stack'[i].run>> \notin S =>
                   /\ modules[stack'[i].code] # stack'[i].run
                   /\ <<stack'[i].code, stack'[i].run>> \notin held
             /\ \A j \in DOMAIN below :
                   (i < j /\ stack'[j].code = stack'[i].code) => stack'[i].run < stack'[j].run
  BY <1>1, <1>4, <1>5 DEF Frames, RunsInv, RunsInFlight
<1>6. /\ f.run \in 1 .. runs'[f.code]
      /\ modules[f.code] # f.run
      /\ <<f.code, f.run>> \notin held
  <2>1. f.run = runs[n] + 1 /\ runs[n] \in Nat /\ runs'[n] = runs[n] + 1 /\ modules[n] <= runs[n]
    BY <1>2, <1>3 DEF RunsInv
  <2>2. \A h \in held : h[2] <= runs[h[1]]
    BY DEF RunsInv
  <2>3. <<n, runs[n] + 1>> \notin held
    BY <2>1, <2>2
  <2> QED
    BY <1>2, <2>1, <2>3
<1>7. RunsInFlight(S)'
  <2> SUFFICES ASSUME NEW i \in DOMAIN stack', stack'[i].code # NoName
               PROVE  /\ stack'[i].run \in 1 .. runs'[stack'[i].code]
                      /\ <<stack'[i].code, stack'[i].run>> \notin S =>
                            /\ modules[stack'[i].code] # stack'[i].run
                            /\ <<stack'[i].code, stack'[i].run>> \notin held
                      /\ \A j \in DOMAIN stack' :
                            (i < j /\ stack'[j].code = stack'[i].code)
                               => stack'[i].run < stack'[j].run
    BY DEF RunsInFlight
  <2>0. \A j \in DOMAIN stack' : j \in 1 .. Len(below) \/ j = Len(below) + 1
    BY <1>4
  <2>1. CASE i = Len(below) + 1
    <3>1. \A j \in DOMAIN stack' : ~(i < j)
      BY <1>4, <2>1
    <3>2. stack'[i] = f
      BY <1>4, <2>1
    <3> QED
      BY <1>6, <3>1, <3>2
  <2>2. CASE i \in 1 .. Len(below)
    <3>1. /\ stack'[i].code \in Names
          /\ stack'[i].run \in 1 .. runs[stack'[i].code]
          /\ <<stack'[i].code, stack'[i].run>> \notin S =>
                /\ modules[stack'[i].code] # stack'[i].run
                /\ <<stack'[i].code, stack'[i].run>> \notin held
          /\ \A j \in DOMAIN below :
                (i < j /\ stack'[j].code = stack'[i].code) => stack'[i].run < stack'[j].run
      BY <1>4, <1>5, <2>2
    <3>2. stack'[i].run \in 1 .. runs'[stack'[i].code]
      BY <1>2, <1>3, <3>1
    <3>3. ASSUME NEW j \in DOMAIN stack', stack'[j].code = stack'[i].code, i < j
          PROVE  stack'[i].run < stack'[j].run
      <4>1. CASE j \in DOMAIN below
        BY <3>1, <3>3, <4>1
      <4>2. CASE j = Len(below) + 1
        BY <1>2, <1>4, <3>1, <3>3, <4>2
      <4> QED
        BY <1>4, <2>0, <4>1, <4>2
    <3> QED
      BY <3>1, <3>2, <3>3
  <2> QED
    BY <2>0, <2>1, <2>2
<1>8. \A m \in Names : modules'[m] <= runs'[m]
  BY <1>2, <1>3 DEF RunsInv
<1>9. \A h \in held' : h[2] <= runs'[h[1]]
  <2> SUFFICES ASSUME NEW h \in held PROVE h[2] <= runs'[h[1]]
    OBVIOUS
  <2>1. h[1] \in Names /\ h[2] \in Int /\ h[2] <= runs[h[1]]
    BY DEF TypeOK, RunsInv
  <2> QED
    BY <1>2, <1>3, <2>1
<1> QED
  BY <1>7, <1>8, <1>9 DEF RunsInv

\* The running body returns its exports; other executions of the same module
\* below it started earlier, so the exports are not theirs.
LEMMA RunsPublished ==
    ASSUME NEW S, TypeOK, RunsInv(S), UNCHANGED runs, InModule, Published,
           \A i \in DOMAIN stack' :
              \/ stack'[i].code = NoName
              \/ i \in 1 .. Len(stack) - 1 /\ stack'[i] = stack[i]
    PROVE  RunsInv(S)'
<1> DEFINE c == Top.code
           r == Top.run
<1>1. /\ stack \in Seq(Frames) /\ Len(stack) \in Nat \ {0}
      /\ DOMAIN stack = 1 .. Len(stack) /\ Top = stack[Len(stack)]
      /\ Top \in Frames
  BY FrontOfStack DEF TypeOK, InModule, Executing, Top
<1>2. \A n \in Names : modules[n] \in Nat /\ runs[n] \in Nat
  BY DEF TypeOK
<1>3. c \in Names /\ Len(stack) \in DOMAIN stack
  BY <1>1 DEF InModule, Frames
<1>4. r \in 1 .. runs[c]
  BY <1>1, <1>3 DEF RunsInv, RunsInFlight, InModule
<1>5. /\ modules' = [modules EXCEPT ![c] = r]
      /\ held' = IF r = 0 THEN held ELSE held \cup {<<c, r>>}
  BY DEF Published, Publish, Hold, Undefined
<1> HIDE DEF c, r
<1>6. /\ \A n \in Names : modules'[n] = IF n = c THEN r ELSE modules[n]
      /\ \A h \in held' : h \in held \/ h = <<c, r>>
  BY <1>3, <1>5 DEF TypeOK
<1>7. ASSUME NEW i \in DOMAIN stack', stack'[i].code # NoName
      PROVE  /\ i \in DOMAIN stack /\ i < Len(stack) /\ stack'[i] = stack[i]
             /\ stack[i].code \in Names
             /\ stack[i].run \in 1 .. runs[stack[i].code]
             /\ <<stack[i].code, stack[i].run>> \notin S =>
                   /\ modules[stack[i].code] # stack[i].run
                   /\ <<stack[i].code, stack[i].run>> \notin held
             /\ stack[i].code = c => stack[i].run < r
  <2>1. i \in DOMAIN stack /\ i < Len(stack) /\ stack'[i] = stack[i]
    BY <1>1, <1>7
  <2>2. stack[i].code \in Names
    <3>1. stack[i] \in Frames
      BY <1>1, <2>1
    <3> QED
      BY <1>7, <2>1, <3>1 DEF Frames
  <2>3. stack[i].code = c => stack[i].run < r
    BY <1>1, <1>3, <1>7, <2>1 DEF RunsInv, RunsInFlight, c, r
  <2> QED
    BY <1>7, <2>1, <2>2, <2>3 DEF RunsInv, RunsInFlight
<1>8. ASSUME NEW i \in DOMAIN stack', stack'[i].code # NoName
      PROVE  /\ stack'[i].run \in 1 .. runs'[stack'[i].code]
             /\ <<stack'[i].code, stack'[i].run>> \notin S =>
                   /\ modules'[stack'[i].code] # stack'[i].run
                   /\ <<stack'[i].code, stack'[i].run>> \notin held'
             /\ \A j \in DOMAIN stack' :
                   (i < j /\ stack'[j].code = stack'[i].code) => stack'[i].run < stack'[j].run
  <2>1. stack[i].code = c => stack[i].run # r
    <3>1. stack[i].run \in 1 .. runs[stack[i].code] /\ runs[stack[i].code] \in Nat
      BY <1>2, <1>7, <1>8
    <3>2. r \in Int /\ stack[i].run \in Int
      BY <1>2, <1>3, <1>4, <3>1
    <3>3. \A x, y \in Int : x < y => x # y
      OBVIOUS
    <3> QED
      BY <1>7, <1>8, <3>2, <3>3
  <2>2. stack'[i].run \in 1 .. runs'[stack'[i].code]
    BY <1>7, <1>8
  <2>3. <<stack'[i].code, stack'[i].run>> \notin S => modules'[stack'[i].code] # stack'[i].run
    BY <1>6, <1>7, <1>8, <2>1
  <2>4. <<stack'[i].code, stack'[i].run>> \notin S => <<stack'[i].code, stack'[i].run>> \notin held'
    BY <1>6, <1>7, <1>8, <2>1
  <2>5. ASSUME NEW j \in DOMAIN stack', i < j, stack'[j].code = stack'[i].code
        PROVE  stack'[i].run < stack'[j].run
    BY <1>7, <1>8, <2>5 DEF RunsInv, RunsInFlight
  <2> QED
    BY <2>2, <2>3, <2>4, <2>5
<1>9. r <= runs[c]
  BY <1>2, <1>3, <1>4
<1>10. \A n \in Names : modules'[n] <= runs'[n]
  BY <1>6, <1>9 DEF RunsInv
<1>11. \A h \in held' : h[2] <= runs'[h[1]]
  BY <1>6, <1>9 DEF RunsInv
<1> QED
  BY <1>8, <1>10, <1>11 DEF RunsInv, RunsInFlight

LEMMA RunsNext ==
    ASSUME NEW S
    PROVE  TypeOK /\ GateInv /\ RunsInv(S) /\ [Next]_vars => RunsInv(S)'
<1> SUFFICES ASSUME TypeOK, GateInv, RunsInv(S), [Next]_vars PROVE RunsInv(S)'
  OBVIOUS
<1>0. stack \in Seq(Frames) /\ runs \in [Names -> Nat] /\ Bootstrap \in Names
  BY SourcesAssumption DEF TypeOK
<1>1. ASSUME UNCHANGED <<stack, runs, modules>>,
             \A h \in held' : h \in held \/ \E n \in Names : h = <<n, Get(n)>>
      PROVE  RunsInv(S)'
  BY <1>1, RunsKept
<1>2. CASE Abort
  BY <1>1, <1>2 DEF Abort
<1>3. ASSUME NEW n \in Names, Hold(n, Get(n))
      PROVE  \A h \in held' : h \in held \/ \E m \in Names : h = <<m, Get(m)>>
  BY <1>3 DEF Hold
<1>4. ASSUME stack = <<>>, NEW n \in Names, NEW via \in Vias, Enter(n, via, stack),
             UNCHANGED <<modules, held>>
      PROVE  RunsInv(S)'
  <2> DEFINE f == ModuleFrame(n, via)
  <2>1. f \in Frames /\ f.code = n /\ f.run = runs[n] + 1
    BY <1>0, NewFrames
  <2>2. stack' = Append(stack, f) /\ runs' = [runs EXCEPT ![n] = @ + 1]
    BY <1>4 DEF Enter
  <2> HIDE DEF f
  <2> QED
    BY <1>0, <1>4, <2>1, <2>2, RunsEntered
<1>5. CASE DidCreateEnvironment
  BY <1>0, <1>4, <1>5 DEF DidCreateEnvironment, GateInv, NothingYet, Vias
<1>6. ASSUME NEW n \in Names, RequireCached(n) \/ RequireFails(n)
      PROVE  RunsInv(S)'
  <2>1. Executing
    BY <1>6 DEF RequireCached, RequireFails
  <2>2. CASE RequireCached(n)
    BY <1>0, <1>3, <2>1, <2>2, RequiredFrame, RunsKept DEF RequireCached, Executing
  <2>3. CASE RequireFails(n) /\ ~BatchFatal
    <3>1. /\ stack' = Required(n) /\ UNCHANGED <<runs, held>>
          /\ modules' = [modules EXCEPT ![n] = Undefined]
      BY <2>3 DEF RequireFails
    <3>2. \A m \in Names : modules'[m] \in {modules[m], Undefined}
      BY <3>1 DEF TypeOK
    <3> QED
      BY <1>0, <2>1, <3>1, <3>2, RequiredFrame, RunsKept DEF Executing
  <2> QED
    BY <1>2, <1>6, <2>2, <2>3 DEF BatchFatal
<1>7. ASSUME NEW n \in Names, RequireLoads(n) PROVE RunsInv(S)'
  <2> DEFINE f == ModuleFrame(n, "require")
  <2>1. f \in Frames /\ f.code = n /\ f.run = runs[n] + 1
    BY <1>0, NewFrames DEF Vias
  <2>2. /\ stack' = Append(Required(n), f) /\ runs' = [runs EXCEPT ![n] = @ + 1]
        /\ UNCHANGED <<modules, held>> /\ stack # <<>>
    BY <1>7 DEF RequireLoads, Enter, Executing
  <2> HIDE DEF f
  <2> DEFINE below == Required(n)
  <2>3. /\ below \in Seq(Frames)
        /\ \A i \in DOMAIN below :
              /\ i \in DOMAIN stack
              /\ below[i].code = stack[i].code
              /\ below[i].run = stack[i].run
    BY <1>0, <2>2, RequiredFrame
  <2>4. stack' = Append(below, f)
    BY <2>2
  <2> HIDE DEF below
  <2> QED
    BY <2>1, <2>2, <2>3, <2>4, RunsEntered
<1>8. ASSUME NEW q \in NativeNames,
             RequireNativeDenied(q) \/ RequireNativeFound(q) \/ RequireNativeMissing(q)
      PROVE  RunsInv(S)'
  <2>1. Executing
    BY <1>8 DEF RequireNativeDenied, RequireNativeFound, RequireNativeMissing
  <2>2. CASE stack' = Asked(q) /\ UNCHANGED <<modules, runs, held>>
    BY <1>0, <2>1, <2>2, AskedFrame, RunsKept DEF Executing
  <2> QED
    BY <1>2, <1>8, <2>2
       DEF RequireNativeDenied, RequireNativeFound, RequireNativeMissing, BatchFatal
<1>9. ASSUME Executing
      PROVE  /\ Front(stack) \in Seq(Frames)
             /\ DOMAIN Front(stack) = 1 .. Len(stack) - 1
             /\ \A i \in 1 .. Len(stack) - 1 : Front(stack)[i] = stack[i]
             /\ 1 .. Len(stack) - 1 \subseteq DOMAIN stack
  BY <1>0, <1>9, FrontOfStack DEF Executing
<1>10. CASE ModuleReturns
  BY <1>9, <1>10, RunsPublished DEF ModuleReturns, InModule
<1>11. CASE CalledModuleReturns
  <2>1. CASE BatchFatal
    BY <1>2, <2>1 DEF BatchFatal
  <2>2. CASE stack' = Front(stack) /\ Published /\ UNCHANGED runs
    BY <1>9, <1>11, <2>2, RunsPublished DEF CalledModuleReturns, InModule
  <2>3. ASSUME NEW body \in ScriptBodies, Published, UNCHANGED runs,
               stack' = Append(Front(stack), HostFrame(body))
        PROVE  RunsInv(S)'
    <3> DEFINE f == HostFrame(body)
    <3>1. f \in Frames /\ f.code = NoName
      BY <1>0, NewFrames
    <3> HIDE DEF f
    <3>2. stack' = Append(Front(stack), f)
      BY <2>3 DEF f
    <3>3. /\ DOMAIN stack' = 1 .. Len(Front(stack)) + 1
          /\ Len(Front(stack)) \in Nat
          /\ DOMAIN Front(stack) = 1 .. Len(Front(stack))
          /\ stack'[Len(Front(stack)) + 1] = f
          /\ \A i \in 1 .. Len(Front(stack)) : stack'[i] = Front(stack)[i]
      BY <1>9, <1>11, <3>1, <3>2, PushOnStack DEF CalledModuleReturns, InModule
    <3>4. ASSUME NEW i \in DOMAIN stack'
          PROVE  \/ stack'[i].code = NoName
                 \/ i \in 1 .. Len(stack) - 1 /\ stack'[i] = stack[i]
      <4>1. i \in 1 .. Len(Front(stack)) \/ i = Len(Front(stack)) + 1
        BY <3>3
      <4> QED
        BY <1>9, <1>11, <3>1, <3>3, <4>1 DEF CalledModuleReturns, InModule
    <3> QED
      BY <1>11, <2>3, <3>4, RunsPublished DEF CalledModuleReturns
  <2> QED
    BY <1>11, <2>1, <2>2, <2>3 DEF CalledModuleReturns
<1>12. CASE ModuleThrows
  <2>1. CASE ~BatchFatal
    <3>1. /\ stack' = Front(stack) /\ UNCHANGED <<runs, held>>
          /\ modules' = [modules EXCEPT ![Top.code] = Undefined]
      BY <1>12, <2>1 DEF ModuleThrows, Publish
    <3>2. \A m \in Names : modules'[m] \in {modules[m], Undefined}
      BY <3>1 DEF TypeOK
    <3> QED
      BY <1>9, <1>12, <3>1, <3>2, RunsKept DEF ModuleThrows, InModule
  <2> QED
    BY <1>2, <2>1 DEF BatchFatal
<1>13. CASE HostCodeThrows \/ HostCodeReturns
  <2>1. Executing
    BY <1>13 DEF HostCodeThrows, HostCodeReturns
  <2>2. CASE stack' = Front(stack) /\ UNCHANGED <<modules, runs, held>>
    BY <1>9, <2>1, <2>2, RunsKept
  <2> QED
    BY <1>2, <1>13, <2>2 DEF HostCodeThrows, HostCodeReturns, BatchFatal
<1>14. ASSUME NEW body \in ScriptBodies \cup {{}}, stack' = <<HostFrame(body)>>,
              UNCHANGED <<modules, runs>>,
              \A h \in held' : h \in held \/ \E n \in Names : h = <<n, Get(n)>>
       PROVE  RunsInv(S)'
  <2> DEFINE f == HostFrame(body)
  <2>1. f \in Frames /\ f.code = NoName
    BY <1>0, NewFrames
  <2> HIDE DEF f
  <2>2. DOMAIN stack' = {1} /\ stack'[1] = f
    BY <1>14, <2>1, SingleFrame DEF f
  <2> QED
    BY <1>14, <2>1, <2>2, RunsKept
<1>15. CASE RunString
  BY <1>14, <1>15 DEF RunString
<1>16. ASSUME NEW n \in Names, CallModuleMethod(n) PROVE RunsInv(S)'
  <2>1. CASE Enter(n, "call", stack) /\ UNCHANGED <<modules, held>>
    BY <1>4, <1>16, <2>1 DEF CallModuleMethod, Idle, Vias
  <2>2. ASSUME NEW body \in ScriptBodies, stack' = <<HostFrame(body)>>,
               Hold(n, Get(n)), UNCHANGED <<modules, runs>>
        PROVE  RunsInv(S)'
    BY <1>3, <1>14, <2>2
  <2> QED
    BY <1>16, <2>1, <2>2 DEF CallModuleMethod
<1>17. ASSUME NEW n \in Names, CallModuleMethodFails(n) PROVE RunsInv(S)'
  BY <1>1, <1>2, <1>3, <1>17 DEF CallModuleMethodFails, BatchFatal
<1>18. CASE Invalidate \/ Ended \/ UNCHANGED vars
  BY <1>1, <1>18 DEF Invalidate, Ended, vars
<1> QED
  BY <1>5, <1>6, <1>7, <1>8, <1>10, <1>11, <1>12, <1>13, <1>15, <1>16, <1>17, <1>18
     DEF Next, Execute, Host

\* Whatever a program requires, cycles included, require never returns the
\* exports of a body that is still running.
THEOREM NoHalfBuilt == Spec => []NoHalfBuiltExports
<1>1. Init => TypeOK /\ GateInv /\ RunsInv({})
  BY TypeInit, GateInit, RunsInit
<1>2. TypeOK /\ GateInv /\ RunsInv({}) /\ [Next]_vars => (TypeOK /\ GateInv /\ RunsInv({}))'
  BY TypeNext, GateNext, RunsNext
<1>3. TypeOK /\ RunsInv({}) => NoHalfBuiltExports
  BY SourcesAssumption DEF TypeOK, RunsInv, RunsInFlight, NoHalfBuiltExports, Frames
<1> QED
  BY <1>1, <1>2, <1>3, PTL DEF Spec

-------------------------------------------------------------------------------
(***************************************************************************)
(* The same when code edits the cache (OsModules): the executions whose    *)
(* exports it stored while they run are the exceptions of RunsInv.         *)
(***************************************************************************)
\* An edit stores undefined or exports of an execution there was.
LEMMA EditType ==
  ASSUME TypeOK, NEW n \in Names, ModulesCallback(n)
  PROVE  /\ TypeOK'
         /\ \A m \in Names : modules'[m] <= runs[m] \/ modules'[m] = modules[m]
<1>1. PICK v \in Writes(n) : Publish(n, v)
  BY DEF ModulesCallback
<1>2. v \in Nat /\ v <= runs[n]
  BY DEF Writes, Undefined, TypeOK
<1>3. modules' = [modules EXCEPT ![n] = v]
  BY <1>1 DEF Publish
<1> QED
  BY <1>2, <1>3 DEF ModulesCallback, TypeOK

\* The gate does not depend on the cache once the environment has started.
LEMMA EditGate ==
  ASSUME GateInv, NEW n \in Names, ModulesCallback(n)
  PROVE  GateInv'
<1>1. proc # "starting" /\ proc' = proc
  BY DEF ModulesCallback, HasOs, Executing
<1> QED
  BY <1>1 DEF GateInv, EnteredByRequire, NativesScoped, ModulesCallback

\* An edit that stores the exports of an execution in progress exposes it.
LEMMA EditRuns ==
  ASSUME TypeOK, RunsInv(exposed), NEW n \in Names, ModulesCallback(n)
  PROVE  RunsInv(exposed)'
<1>1. PICK v \in Writes(n) :
         Publish(n, v) /\ exposed' = exposed \cup ({<<n, v>>} \cap InProgress)
  BY DEF ModulesCallback
<1>2. \A m \in Names : modules'[m] = IF m = n THEN v ELSE modules[m]
  BY <1>1 DEF Publish, TypeOK
<1>3. UNCHANGED <<runs, held, stack>>
  BY DEF ModulesCallback
<1>4. \A m \in Names : modules'[m] <= runs'[m]
  BY <1>3, EditType DEF RunsInv
<1>5. ASSUME NEW i \in DOMAIN stack, stack[i].code # NoName,
             <<stack[i].code, stack[i].run>> \notin exposed'
      PROVE  /\ modules'[stack[i].code] # stack[i].run
             /\ <<stack[i].code, stack[i].run>> \notin held
  <2>1. stack[i].code \in Names
    <3>1. stack[i] \in Frames
      BY DEF TypeOK
    <3> QED
      BY <1>5, <3>1 DEF Frames
  <2>2. <<stack[i].code, stack[i].run>> \in InProgress
    BY DEF InProgress
  <2>3. <<stack[i].code, stack[i].run>> # <<n, v>>
    BY <1>1, <1>5, <2>2
  <2>4. /\ modules[stack[i].code] # stack[i].run
        /\ <<stack[i].code, stack[i].run>> \notin held
    BY <1>1, <1>5 DEF RunsInv, RunsInFlight
  <2> QED
    BY <1>2, <2>1, <2>3, <2>4
<1>6. RunsInFlight(exposed)'
  BY <1>3, <1>5 DEF RunsInv, RunsInFlight
<1> QED
  BY <1>3, <1>4, <1>6 DEF RunsInv

\* Other steps add no exception, and forget those that are not in progress.
LEMMA UneditedRuns ==
  ASSUME TypeOK, GateInv, RunsInv(exposed), [Next]_vars, exposed' = exposed \cap InProgress'
  PROVE  RunsInv(exposed)'
<1>1. PICK S : S = exposed
  OBVIOUS
<1>2. RunsInv(S)
  BY <1>1
<1>3. RunsInv(S)'
  BY <1>2, RunsNext
<1>4. \A i \in DOMAIN stack' : <<stack'[i].code, stack'[i].run>> \in InProgress'
  BY DEF InProgress
<1>5. \A i \in DOMAIN stack' :
         <<stack'[i].code, stack'[i].run>> \notin exposed' => <<stack'[i].code, stack'[i].run>> \notin S
  BY <1>1, <1>4
<1> QED
  BY <1>3, <1>5 DEF RunsInv, RunsInFlight

EditedInv == TypeOK /\ GateInv /\ RunsInv(exposed)

\* The three invariants together, with edits of the cache at any point.
LEMMA EditedInvariant == OsSpec => []EditedInv
<1>1. OsInit => EditedInv
  <2> SUFFICES ASSUME OsInit PROVE EditedInv
    OBVIOUS
  <2>1. PICK S : S = exposed
    OBVIOUS
  <2>2. RunsInv(S)
    BY RunsInit DEF OsInit
  <2> QED
    BY <2>1, <2>2, TypeInit, GateInit DEF EditedInv, OsInit
<1>2. EditedInv /\ [OsNext]_osVars => EditedInv'
  <2>1. ASSUME EditedInv, Next, exposed' = exposed \cap InProgress' PROVE EditedInv'
    BY <2>1, TypeNext, GateNext, UneditedRuns DEF EditedInv
  <2>2. ASSUME EditedInv, NEW n \in Names, ModulesCallback(n) PROVE EditedInv'
    BY <2>2, EditType, EditGate, EditRuns DEF EditedInv
  <2>3. ASSUME EditedInv, UNCHANGED osVars PROVE EditedInv'
    <3>1. UNCHANGED vars
      BY <2>3 DEF osVars
    <3>2. TypeOK' /\ GateInv'
      BY <2>3, <3>1, TypeNext, GateNext DEF EditedInv
    <3>3. UNCHANGED <<stack, runs, modules, held, exposed>>
      BY <2>3 DEF osVars, vars
    <3> QED
      BY <2>3, <3>2, <3>3 DEF EditedInv, RunsInv, RunsInFlight
  <2> QED
    BY <2>1, <2>2, <2>3 DEF OsNext
<1> QED
  BY <1>1, <1>2, PTL DEF OsSpec

\* Scripts that delete and store entries of the module cache, while modules
\* are being loaded, do not open the gate to the natives.
THEOREM EditedGate == OsSpec => []NativesScoped
<1>1. EditedInv => NativesScoped
  BY DEF EditedInv, GateInv
<1> QED
  BY <1>1, EditedInvariant, PTL

\* Nor do they make require return the exports of a body that still runs, other
\* than those they stored in the cache themselves.
THEOREM EditedHalfBuilt == OsSpec => []HalfBuiltOnlyIfStored
<1>1. EditedInv => HalfBuiltOnlyIfStored
  BY SourcesAssumption
     DEF EditedInv, TypeOK, RunsInv, RunsInFlight, HalfBuiltOnlyIfStored, Frames
<1> QED
  BY <1>1, EditedInvariant, PTL
===============================================================================
