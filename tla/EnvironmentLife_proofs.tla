------------------------- MODULE EnvironmentLife_proofs -------------------------
(***************************************************************************)
(* An Environment is built and taken down in order, whatever native        *)
(* modules it has and however many promises and exceptions scripts leave.  *)
(***************************************************************************)
EXTENDS EnvironmentLife, TLAPS

LEMMA LifeInit == Init => TypeOK /\ LifeInv
<1> SUFFICES ASSUME Init PROVE TypeOK /\ LifeInv
  OBVIOUS
<1> USE DEF Init
<1>0. exceptions \in 0 .. MaxExceptions
  BY LifeAssumption
<1>1. TypeOK
  BY <1>0, Zenon DEF TypeOK, Stages
<1>2. CoreByStage /\ NativesByStage
  BY DEF CoreByStage, NativesByStage, Open
<1>3. PointersByStage /\ NoDanglingUse
  BY DEF PointersByStage, NoDanglingUse
<1> QED
  BY <1>1, <1>2, <1>3 DEF LifeInv

\* The constructors keep the invariant.
LEMMA LifeCreate == TypeOK /\ LifeInv /\ Create => TypeOK' /\ LifeInv'
<1> SUFFICES ASSUME TypeOK, LifeInv, Create PROVE TypeOK' /\ LifeInv'
  OBVIOUS
<1> USE NamesAssumption
   DEF TypeOK, LifeInv, CoreByStage, NativesByStage, PointersByStage, NoDanglingUse, Open,
       Step, Uses, Makes, heap, Objects, Core, Stages
<1>1. CASE InitThread
  BY <1>1 DEF InitThread
<1>2. CASE CreateEnvironment
  BY <1>2 DEF CreateEnvironment
<1>3. CASE NewScriptContext
  BY <1>3 DEF NewScriptContext
<1>4. CASE NewModuleSystem
  BY <1>4 DEF NewModuleSystem
<1>5. CASE Bootstrapped
  BY <1>5 DEF Bootstrapped
<1>6. ASSUME NEW q \in Natives, RegisterNativeModule(q) PROVE TypeOK' /\ LifeInv'
  BY <1>6 DEF RegisterNativeModule
<1> QED
  BY <1>1, <1>2, <1>3, <1>4, <1>5, <1>6 DEF Create

\* The heap has room for what is thrown and something to free.
LEMMA HeapBound == exceptions \in 0 .. MaxExceptions /\ (Throw \/ Collect) => exceptions' \in 0 .. MaxExceptions
<1>1. exceptions \in 0 .. MaxExceptions /\ exceptions < MaxExceptions /\ exceptions' = exceptions + 1
        => exceptions' \in 0 .. MaxExceptions
  BY LifeAssumption
<1>2. exceptions \in 0 .. MaxExceptions /\ exceptions > 0 /\ exceptions' = exceptions - 1
        => exceptions' \in 0 .. MaxExceptions
  BY LifeAssumption
<1> QED
  BY <1>1, <1>2, Zenon DEF Throw, Collect

\* Scripts run only when everything is there, and the collector needs the
\* isolate alone.
LEMMA LifeScripts == TypeOK /\ LifeInv /\ (Scripts \/ Collect) => TypeOK' /\ LifeInv'
<1> SUFFICES ASSUME TypeOK, LifeInv, Scripts \/ Collect PROVE TypeOK' /\ LifeInv'
  OBVIOUS
<1>0. Throw \/ Collect => exceptions' \in 0 .. MaxExceptions
  BY HeapBound, Zenon DEF TypeOK
<1> USE LifeAssumption, NamesAssumption
   DEF TypeOK, LifeInv, CoreByStage, NativesByStage, PointersByStage, NoDanglingUse, Open,
       Uses, Objects, Core, Stages
<1>1. CASE RunScript
  BY <1>1 DEF RunScript
<1>2. CASE ScriptEnds
  BY <1>2 DEF ScriptEnds
<1>3. CASE Throw
  <2>1. exceptions' \in 0 .. MaxExceptions
    BY <1>0, <1>3, Zenon
  <2>2. script = TRUE /\ stage = "ready"
    BY <1>3 DEF Throw
  <2>3. dangling' = {}
    BY <1>3, <2>2 DEF Throw
  <2>4. TypeOK'
    BY <1>3, <2>1, <2>3 DEF Throw
  <2>5. CoreByStage' /\ NativesByStage'
    BY <1>3 DEF Throw
  <2>6. PointersByStage'
    BY <1>3, <2>2 DEF Throw
  <2> QED
    BY <2>3, <2>4, <2>5, <2>6
<1>4. ASSUME NEW p \in Promises, RequireAsync(p) PROVE TypeOK' /\ LifeInv'
  BY <1>4 DEF RequireAsync
<1>5. ASSUME NEW p \in Promises, Define(p) PROVE TypeOK' /\ LifeInv'
  BY <1>5 DEF Define
<1>6. CASE Collect
  <2>1. exceptions' \in 0 .. MaxExceptions
    BY <1>0, <1>6, Zenon
  <2>2. stage # "ended"
    BY <1>6 DEF Collect
  <2>3. TypeOK'
    BY <1>6, <2>1 DEF Collect
  <2>4. CoreByStage' /\ NativesByStage'
    BY <1>6 DEF Collect
  <2>5. PointersByStage' /\ NoDanglingUse'
    BY <1>6, <2>2 DEF Collect
  <2> QED
    BY <2>3, <2>4, <2>5
<1> QED
  BY <1>1, <1>2, <1>3, <1>4, <1>5, <1>6 DEF Scripts

\* The destructors: each one finds what it uses.
LEMMA LifeCleanUp == TypeOK /\ LifeInv /\ CleanUp => TypeOK' /\ LifeInv'
<1> SUFFICES ASSUME TypeOK, LifeInv, CleanUp PROVE TypeOK' /\ LifeInv'
  OBVIOUS
<1> USE NamesAssumption
   DEF TypeOK, LifeInv, CoreByStage, NativesByStage, PointersByStage, NoDanglingUse, Open,
       Step, Uses, Deletes, heap, Objects, Core, Stages
<1>1. CASE ExitContext
  BY <1>1 DEF ExitContext
<1>2. CASE Invalidate
  BY <1>2 DEF Invalidate
<1>3. CASE DeleteModuleSystem
  BY <1>3 DEF DeleteModuleSystem
<1>4. CASE DeleteScriptContext
  BY <1>4 DEF DeleteScriptContext
<1>5. CASE DeleteContextHolder
  BY <1>5 DEF DeleteContextHolder
<1>6. CASE DeleteEnvironment
  BY <1>6 DEF DeleteEnvironment
<1>7. CASE DeleteIsolate
  BY <1>7 DEF DeleteIsolate
<1> QED
  BY <1>1, <1>2, <1>3, <1>4, <1>5, <1>6, <1>7 DEF CleanUp

LEMMA LifeInvariant == Spec => [](TypeOK /\ LifeInv)
<1>1. TypeOK /\ LifeInv /\ [Next]_vars => (TypeOK /\ LifeInv)'
  <2>1. TypeOK /\ LifeInv /\ UNCHANGED vars => (TypeOK /\ LifeInv)'
    <3>1. TypeOK /\ UNCHANGED vars => TypeOK'
      BY DEF TypeOK, vars
    <3>2. CoreByStage /\ NativesByStage /\ UNCHANGED vars => CoreByStage' /\ NativesByStage'
      BY DEF CoreByStage, NativesByStage, vars
    <3>3. PointersByStage /\ NoDanglingUse /\ UNCHANGED vars => PointersByStage' /\ NoDanglingUse'
      BY DEF PointersByStage, NoDanglingUse, vars
    <3> QED
      BY <3>1, <3>2, <3>3 DEF LifeInv
  <2> QED
    BY <2>1, LifeCreate, LifeScripts, LifeCleanUp DEF Next
<1> QED
  BY <1>1, LifeInit, PTL DEF Spec

\* No constructor, script or destructor uses an object that is not there.
THEOREM NothingDangles == Spec => []NoDanglingUse
<1>1. LifeInv => NoDanglingUse
  BY DEF LifeInv
<1> QED
  BY <1>1, LifeInvariant, PTL

\* Native modules are invalidated while their context still exists, and the
\* hidden values of the global never outlive what they point to.
THEOREM NativesInvalidated == Spec => []InvalidatedInTime
<1>1. LifeInv => InvalidatedInTime
  BY DEF LifeInv, CoreByStage, PointersByStage, InvalidatedInTime, Open
<1> QED
  BY <1>1, LifeInvariant, PTL

\* The thread leaves nothing behind.
THEOREM EverythingGoes == Spec => []NothingLeft
<1>1. TypeOK /\ LifeInv => NothingLeft
  <2> SUFFICES ASSUME TypeOK, LifeInv, stage = "ended"
               PROVE  alive = {} /\ pending = {} /\ exceptions = 0 /\ ~observed /\ ~runner
    BY DEF NothingLeft
  <2>1. alive = {}
    BY DEF TypeOK, Objects, Core, LifeInv, CoreByStage, NativesByStage, Open
  <2> QED
    BY <2>1 DEF LifeInv, PointersByStage
<1> QED
  BY <1>1, LifeInvariant, PTL
===============================================================================
