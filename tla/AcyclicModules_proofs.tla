------------------------- MODULE AcyclicModules_proofs -------------------------
(***************************************************************************)
(* When no module requires itself, the cache keeps the promise of the      *)
(* class comment: for every set of modules that can be ranked, and in both *)
(* modes, code that requires a name always gets the one exports object     *)
(* made for it; in batch mode the body also runs once only.                *)
(***************************************************************************)
EXTENDS AcyclicModules, CommonModuleSystem_proofs

LEMMA AcyclicInit == Init => AcyclicInv
<1> SUFFICES ASSUME Init PROVE AcyclicInv
  OBVIOUS
<1>1. stack = <<>> /\ held = {}
  BY DEF Init
<1>2. \A n \in Names : modules[n] = Undefined
  BY DEF Init
<1>3. StackRanked /\ NeedsOfModule /\ LoadingNotCached
  BY <1>1, NoFrame DEF StackRanked, NeedsOfModule, LoadingNotCached
<1> QED
  BY <1>1, <1>2, <1>3, SourcesAssumption DEF AcyclicInv, HeldIsCached, InheritedNotCached

(***************************************************************************)
(* A module being loaded is not on the stack twice.                        *)
(***************************************************************************)
LEMMA StackDistinct ==
    ASSUME TypeOK, AcyclicInv,
           NEW i \in DOMAIN stack, NEW j \in DOMAIN stack, i # j,
           stack[i].code # NoName
    PROVE  stack[i].code # stack[j].code
<1>1. stack[i] \in Frames /\ stack[j] \in Frames /\ i \in Int /\ j \in Int
  BY DEF TypeOK
<1>2. \A m \in Names : Rank[m] \in Nat
  BY RankAssumption
<1>3. SUFFICES ASSUME stack[i].code = stack[j].code PROVE FALSE
  OBVIOUS
<1>4. stack[i].code \in Names
  BY <1>1 DEF Frames
<1>5. Rank[stack[i].code] < Rank[stack[i].code]
  BY <1>1, <1>3 DEF AcyclicInv, StackRanked
<1>6. \A k \in Nat : ~(k < k)
  OBVIOUS
<1> QED
  BY <1>2, <1>4, <1>5, <1>6

\* What the running code requires is not being loaded.
LEMMA RequiredNotLoading ==
    ASSUME TypeOK, AcyclicInv, Executing, NEW n \in Top.needs, n \in Names
    PROVE  \A i \in DOMAIN stack : stack[i].code # NoName =>
              Rank[n] < Rank[stack[i].code] /\ stack[i].code # n
<1>1. /\ stack \in Seq(Frames) /\ Len(stack) \in Nat \ {0}
      /\ DOMAIN stack = 1 .. Len(stack) /\ Top = stack[Len(stack)]
  BY FrontOfStack DEF TypeOK, Executing, Top
<1>2. \A m \in Names : Rank[m] \in Nat
  BY RankAssumption
<1>3. SUFFICES ASSUME NEW i \in DOMAIN stack, stack[i].code # NoName
               PROVE  Rank[n] < Rank[stack[i].code] /\ stack[i].code # n
  OBVIOUS
<1>4. Len(stack) \in DOMAIN stack /\ (i = Len(stack) \/ i < Len(stack))
  BY <1>1
<1>5. Top.code # NoName /\ (i < Len(stack) => Rank[Top.code] < Rank[stack[i].code])
  BY <1>1, <1>3, <1>4 DEF AcyclicInv, StackRanked
<1>6. stack[i].code \in Names /\ Top.code \in Names
  <2>1. stack[i] \in Frames /\ Top \in Frames
    BY <1>1, <1>4
  <2> QED
    BY <1>3, <1>5, <2>1 DEF Frames
<1>7. n \in Requires[Top.code]
  BY <1>1, <1>4, <1>5 DEF AcyclicInv, NeedsOfModule
<1>8. Rank[n] < Rank[Top.code]
  BY <1>6, <1>7, RankAssumption
<1>9. Rank[n] < Rank[stack[i].code]
  <2>1. \A x, y, z \in Nat : (x < y /\ y < z) => x < z
    OBVIOUS
  <2> QED
    BY <1>1, <1>2, <1>4, <1>5, <1>6, <1>8, <2>1
<1>10. \A k \in Nat : ~(k < k)
  OBVIOUS
<1> QED
  BY <1>2, <1>6, <1>9, <1>10

(***************************************************************************)
(* The invariant across the three kinds of step.                           *)
(***************************************************************************)
\* Frames stay or go, or are the host's and alone; nothing is published.
LEMMA AcyclicKept ==
    ASSUME TypeOK, AcyclicInv, UNCHANGED <<modules, runs>>,
           \/ \A i \in DOMAIN stack' :
                 /\ i \in DOMAIN stack
                 /\ stack'[i].code = stack[i].code
                 /\ stack'[i].run = stack[i].run
                 /\ stack'[i].needs \subseteq stack[i].needs
           \/ \A i \in DOMAIN stack' : stack'[i].code = NoName,
           \/ held' = held
           \/ \E n \in Names : Get(n) # Undefined /\ held' = held \cup {<<n, Get(n)>>}
    PROVE  AcyclicInv'
<1>1. StackRanked' /\ NeedsOfModule' /\ LoadingNotCached'
  BY DEF AcyclicInv, StackRanked, NeedsOfModule, LoadingNotCached
<1>2. HeldIsCached'
  <2>1. \A n \in Names : modules[n] \in Nat
    BY DEF TypeOK
  <2>2. ASSUME NEW n \in Names, Get(n) # Undefined
        PROVE  \/ Get(n) = Inherited /\ n \in InheritedNames
               \/ Get(n) = modules[n] /\ Get(n) > 0 /\ n \notin InheritedNames
    BY <2>1, <2>2 DEF Get, AcyclicInv, InheritedNotCached, Undefined
  <2>3. CASE held' = held
    BY <2>3 DEF AcyclicInv, HeldIsCached
  <2>4. ASSUME NEW n \in Names, Get(n) # Undefined, held' = held \cup {<<n, Get(n)>>}
        PROVE  HeldIsCached'
    <3> SUFFICES ASSUME NEW h \in held'
                 PROVE  \/ h[2] = Inherited /\ h[1] \in InheritedNames
                        \/ h[2] = modules[h[1]] /\ h[2] > 0 /\ h[1] \notin InheritedNames
      BY DEF HeldIsCached
    <3>1. CASE h \in held
      BY <3>1 DEF AcyclicInv, HeldIsCached
    <3>2. CASE h = <<n, Get(n)>>
      <4>1. h[1] = n /\ h[2] = Get(n)
        BY <3>2
      <4> QED
        BY <2>2, <2>4, <4>1
    <3> QED
      BY <2>4, <3>1, <3>2
  <2> QED
    BY <2>3, <2>4
<1>3. InheritedNotCached'
  BY DEF AcyclicInv, InheritedNotCached
<1> QED
  BY <1>1, <1>2, <1>3 DEF AcyclicInv

\* A body is entered above frames that stay, all of a higher rank.
LEMMA AcyclicEntered ==
    ASSUME TypeOK, AcyclicInv, UNCHANGED <<modules, held>>,
           NEW n \in Names, NEW below \in Seq(Frames), NEW f \in Frames,
           f.code = n, f.run = runs[n] + 1, f.needs = Requires[n],
           Get(n) = Undefined,
           stack' = Append(below, f),
           runs' = [runs EXCEPT ![n] = @ + 1],
           \A i \in DOMAIN below :
              /\ i \in DOMAIN stack
              /\ below[i].code = stack[i].code
              /\ below[i].run = stack[i].run
              /\ below[i].needs \subseteq stack[i].needs,
           \A i \in DOMAIN stack : stack[i].code # NoName =>
              Rank[n] < Rank[stack[i].code] /\ stack[i].code # n
    PROVE  AcyclicInv'
<1>1. /\ Len(below) \in Nat /\ DOMAIN below = 1 .. Len(below)
      /\ DOMAIN stack' = 1 .. Len(below) + 1
      /\ stack'[Len(below) + 1] = f
      /\ \A i \in 1 .. Len(below) : stack'[i] = below[i]
  BY PushOnStack
<1>2. \A i \in DOMAIN stack' : i \in 1 .. Len(below) \/ i = Len(below) + 1
  BY <1>1
<1>3. n # NoName
  BY SourcesAssumption
<1>4. modules[n] = Undefined /\ n \notin InheritedNames
  BY DEF Get, Inherited, Undefined
<1>5. runs[n] \in Nat /\ runs'[n] = runs[n] + 1 /\ \A m \in Names \ {n} : runs'[m] = runs[m]
  BY DEF TypeOK
<1>6. ASSUME NEW i \in 1 .. Len(below), stack'[i].code # NoName
      PROVE  /\ i \in DOMAIN stack
             /\ stack'[i].code = stack[i].code /\ stack'[i].run = stack[i].run
             /\ stack'[i].needs \subseteq stack[i].needs
             /\ stack'[i].code \in Names \ {n} /\ Rank[n] < Rank[stack'[i].code]
  <2>1. /\ i \in DOMAIN stack
        /\ stack'[i].code = stack[i].code /\ stack'[i].run = stack[i].run
        /\ stack'[i].needs \subseteq stack[i].needs
    BY <1>1
  <2>2. stack[i] \in Frames
    BY <2>1 DEF TypeOK
  <2> QED
    BY <1>6, <2>1, <2>2 DEF Frames
<1>7. StackRanked'
  <2> SUFFICES ASSUME NEW i \in DOMAIN stack', NEW j \in DOMAIN stack',
                      i < j, stack'[i].code # NoName
               PROVE  /\ stack'[j].code # NoName
                      /\ Rank[stack'[j].code] < Rank[stack'[i].code]
    BY DEF StackRanked
  <2>1. i \in 1 .. Len(below)
    BY <1>1
  <2>2. CASE j = Len(below) + 1
    BY <1>1, <1>3, <1>6, <2>1, <2>2
  <2>3. CASE j \in 1 .. Len(below)
    <3>1. stack[i].code # NoName /\ i \in DOMAIN stack /\ stack'[i].code = stack[i].code
      BY <1>6, <2>1
    <3>2. j \in DOMAIN stack /\ stack'[j].code = stack[j].code
      BY <1>1, <2>3
    <3> QED
      BY <3>1, <3>2 DEF AcyclicInv, StackRanked
  <2> QED
    BY <1>2, <2>2, <2>3
<1>8. NeedsOfModule'
  BY <1>1, <1>2, <1>6 DEF AcyclicInv, NeedsOfModule
<1>9. LoadingNotCached'
  <2> SUFFICES ASSUME NEW i \in DOMAIN stack', stack'[i].code # NoName
               PROVE  /\ modules[stack'[i].code] = Undefined
                      /\ stack'[i].code \notin InheritedNames
                      /\ stack'[i].run = runs'[stack'[i].code]
                      /\ stack'[i].run > 0
    BY DEF LoadingNotCached
  <2>1. CASE i = Len(below) + 1
    BY <1>1, <1>4, <1>5, <2>1
  <2>2. CASE i \in 1 .. Len(below)
    BY <1>5, <1>6, <2>2 DEF AcyclicInv, LoadingNotCached
  <2> QED
    BY <1>2, <2>1, <2>2
<1>10. HeldIsCached' /\ InheritedNotCached'
  BY DEF AcyclicInv, HeldIsCached, InheritedNotCached
<1> QED
  BY <1>7, <1>8, <1>9, <1>10 DEF AcyclicInv

\* What a body that returns publishes was not in the cache, and nobody has
\* other exports of its module.
LEMMA PublishedIsFirst ==
    ASSUME TypeOK, AcyclicInv, InModule, Published
    PROVE  /\ Top.code \in Names /\ Top.run \in Nat \ {0}
           /\ Top.code \notin InheritedNames
           /\ modules[Top.code] = Undefined
           /\ modules' = [modules EXCEPT ![Top.code] = Top.run]
           /\ held' = held \cup {<<Top.code, Top.run>>}
<1>1. /\ stack \in Seq(Frames) /\ Len(stack) \in Nat \ {0}
      /\ DOMAIN stack = 1 .. Len(stack) /\ Top = stack[Len(stack)] /\ Top \in Frames
  BY FrontOfStack DEF TypeOK, InModule, Executing, Top
<1>2. Len(stack) \in DOMAIN stack
  BY <1>1
<1>3. /\ modules[Top.code] = Undefined /\ Top.code \notin InheritedNames
      /\ Top.run > 0
  BY <1>1, <1>2 DEF AcyclicInv, LoadingNotCached, InModule
<1>4. Top.code \in Names /\ Top.run \in Nat
  BY <1>1 DEF Frames, InModule
<1>5. Top.run # 0 /\ Top.run \in Nat \ {0}
  BY <1>3, <1>4
<1> QED
  BY <1>3, <1>4, <1>5 DEF Published, Publish, Hold, Undefined

LEMMA AcyclicPublished ==
    ASSUME TypeOK, AcyclicInv, UNCHANGED runs, InModule, Published,
           \/ \A i \in DOMAIN stack' : i \in 1 .. Len(stack) - 1 /\ stack'[i] = stack[i]
           \/ \A i \in DOMAIN stack' : stack'[i].code = NoName
    PROVE  AcyclicInv'
<1> DEFINE c == Top.code
           r == Top.run
<1>1. /\ c \in Names /\ r \in Nat \ {0} /\ c \notin InheritedNames
      /\ modules[c] = Undefined
      /\ modules' = [modules EXCEPT ![c] = r]
      /\ held' = held \cup {<<c, r>>}
  BY PublishedIsFirst
<1>2. /\ stack \in Seq(Frames) /\ Len(stack) \in Nat \ {0}
      /\ DOMAIN stack = 1 .. Len(stack) /\ Top = stack[Len(stack)]
      /\ c # NoName
  BY FrontOfStack DEF TypeOK, InModule, Executing, Top
<1>3. \A n \in Names : modules'[n] = IF n = c THEN r ELSE modules[n]
  BY <1>1 DEF TypeOK
<1>4. StackRanked' /\ NeedsOfModule'
  BY <1>2 DEF AcyclicInv, StackRanked, NeedsOfModule
<1>5. ASSUME NEW i \in 1 .. Len(stack) - 1, stack[i].code # NoName
      PROVE  i \in DOMAIN stack /\ stack[i].code \in Names \ {c}
  <2>0. \A k \in Nat \ {0} : \A j \in 1 .. k - 1 : j \in 1 .. k /\ k \in 1 .. k /\ j # k
    OBVIOUS
  <2>1. i \in DOMAIN stack /\ Len(stack) \in DOMAIN stack /\ i # Len(stack)
    BY <1>2, <2>0
  <2>2. stack[i] \in Frames
    BY <1>2, <2>1
  <2>3. stack[i].code # c
    BY <1>2, <1>5, <2>1, StackDistinct
  <2> QED
    BY <1>5, <2>1, <2>2, <2>3 DEF Frames
<1>6. LoadingNotCached'
  BY <1>3, <1>5 DEF AcyclicInv, LoadingNotCached
<1> HIDE DEF c, r
<1>7. HeldIsCached'
  <2> SUFFICES ASSUME NEW h \in held'
               PROVE  \/ h[2] = Inherited /\ h[1] \in InheritedNames
                      \/ h[2] = modules'[h[1]] /\ h[2] > 0 /\ h[1] \notin InheritedNames
    BY DEF HeldIsCached
  <2>1. CASE h \in held
    <3>1. h[1] \in Names
      BY <2>1 DEF TypeOK
    <3>2. \/ h[2] = Inherited /\ h[1] \in InheritedNames
          \/ h[2] = modules[h[1]] /\ h[2] > 0 /\ h[1] \notin InheritedNames
      BY <2>1 DEF AcyclicInv, HeldIsCached
    <3>3. h[1] = c => h[2] = Inherited /\ h[1] \in InheritedNames
      BY <1>1, <3>2 DEF Undefined
    <3>4. h[1] # c => modules'[h[1]] = modules[h[1]]
      BY <1>3, <3>1
    <3> QED
      BY <3>2, <3>3, <3>4
  <2>2. CASE h = <<c, r>>
    <3>1. h[1] = c /\ h[2] = r
      BY <2>2
    <3> QED
      BY <1>1, <1>3, <3>1
  <2> QED
    BY <1>1, <2>1, <2>2
<1>8. InheritedNotCached'
  BY <1>1, <1>3, SourcesAssumption DEF AcyclicInv, InheritedNotCached
<1> QED
  BY <1>4, <1>6, <1>7, <1>8 DEF AcyclicInv

(***************************************************************************)
(* What each step does to the cache and to what was handed out.            *)
(***************************************************************************)
SilentStep == UNCHANGED <<modules, held>>

HandOutStep ==
    \E n \in Names :
        Get(n) # Undefined /\ held' = held \cup {<<n, Get(n)>>} /\ UNCHANGED modules

PublishStep == InModule /\ Published

\* Storing undefined where undefined was stores nothing.
LEMMA ClearedIsSame ==
    ASSUME TypeOK, NEW n \in Names, modules[n] = Undefined,
           modules' = [modules EXCEPT ![n] = Undefined]
    PROVE  modules' = modules
  BY DEF TypeOK

\* The module whose body runs is not in the cache.
LEMMA LoadingTop ==
    ASSUME TypeOK, AcyclicInv, InModule
    PROVE  modules[Top.code] = Undefined /\ Top.code \in Names
<1>1. /\ stack \in Seq(Frames) /\ Len(stack) \in Nat \ {0}
      /\ DOMAIN stack = 1 .. Len(stack) /\ Top = stack[Len(stack)] /\ Top \in Frames
  BY FrontOfStack DEF TypeOK, InModule, Executing, Top
<1>2. Len(stack) \in DOMAIN stack /\ Top.code # NoName
  BY <1>1 DEF InModule
<1> QED
  BY <1>1, <1>2 DEF AcyclicInv, LoadingNotCached, Frames

LEMMA StepKinds ==
    ASSUME TypeOK, AcyclicInv, [Next]_vars
    PROVE  SilentStep \/ HandOutStep \/ PublishStep
<1>1. ASSUME Abort PROVE SilentStep
  BY <1>1 DEF Abort, SilentStep
<1>2. ASSUME NEW n \in Names, RequireCached(n) PROVE HandOutStep
  BY <1>2 DEF RequireCached, Hold, HandOutStep
<1>3. ASSUME NEW n \in Names, RequireFails(n) PROVE SilentStep
  <2>1. modules[n] = Undefined
    BY <1>3 DEF RequireFails, Get, Undefined, Inherited
  <2> QED
    BY <1>1, <1>3, <2>1, ClearedIsSame DEF RequireFails, BatchFatal, SilentStep
<1>4. CASE ModuleThrows
  <2>1. modules[Top.code] = Undefined /\ Top.code \in Names
    BY <1>4, LoadingTop DEF ModuleThrows
  <2> QED
    BY <1>1, <1>4, <2>1, ClearedIsSame DEF ModuleThrows, BatchFatal, Publish, SilentStep
<1>5. CASE ModuleReturns \/ CalledModuleReturns
  BY <1>1, <1>5 DEF ModuleReturns, CalledModuleReturns, BatchFatal, PublishStep, SilentStep
<1>6. ASSUME NEW n \in Names, Hold(n, Get(n)), UNCHANGED modules
      PROVE  SilentStep \/ HandOutStep
  BY <1>6 DEF Hold, SilentStep, HandOutStep
<1>7. ASSUME NEW n \in Names, CallModuleMethod(n) \/ CallModuleMethodFails(n)
      PROVE  SilentStep \/ HandOutStep
  BY <1>1, <1>6, <1>7 DEF CallModuleMethod, CallModuleMethodFails, BatchFatal, SilentStep
<1>8. CASE \/ DidCreateEnvironment \/ RunString \/ Invalidate \/ Ended
           \/ HostCodeThrows \/ HostCodeReturns \/ UNCHANGED vars
  BY <1>1, <1>8
     DEF DidCreateEnvironment, RunString, Invalidate, Ended, HostCodeThrows,
         HostCodeReturns, BatchFatal, vars, SilentStep
<1>9. ASSUME NEW n \in Names, RequireLoads(n) PROVE SilentStep
  BY <1>9 DEF RequireLoads, SilentStep
<1>10. ASSUME NEW q \in NativeNames,
              RequireNativeDenied(q) \/ RequireNativeFound(q) \/ RequireNativeMissing(q)
       PROVE  SilentStep
  BY <1>1, <1>10
     DEF RequireNativeDenied, RequireNativeFound, RequireNativeMissing, BatchFatal,
         SilentStep
<1> QED
  BY <1>2, <1>3, <1>4, <1>5, <1>7, <1>8, <1>9, <1>10 DEF Next, Execute, Host

(***************************************************************************)
(* The invariant is inductive.                                             *)
(***************************************************************************)
LEMMA AcyclicNext == TypeOK /\ GateInv /\ AcyclicInv /\ [Next]_vars => AcyclicInv'
<1> SUFFICES ASSUME TypeOK, GateInv, AcyclicInv, [Next]_vars PROVE AcyclicInv'
  OBVIOUS
<1>0. stack \in Seq(Frames) /\ runs \in [Names -> Nat] /\ Bootstrap \in Names
  BY SourcesAssumption DEF TypeOK
<1>1. ASSUME UNCHANGED <<stack, runs, modules>>,
             held' = held \/ \E n \in Names : Get(n) # Undefined /\ held' = held \cup {<<n, Get(n)>>}
      PROVE  AcyclicInv'
  BY <1>1, AcyclicKept
<1>2. ASSUME Abort PROVE AcyclicInv'
  BY <1>1, <1>2 DEF Abort
<1>3. ASSUME NEW n \in Names, Hold(n, Get(n))
      PROVE  held' = held \/ \E m \in Names : Get(m) # Undefined /\ held' = held \cup {<<m, Get(m)>>}
  BY <1>3 DEF Hold
<1>4. ASSUME stack = <<>>, NEW n \in Names, NEW via \in Vias, Enter(n, via, stack),
             Get(n) = Undefined, UNCHANGED <<modules, held>>
      PROVE  AcyclicInv'
  <2> DEFINE f == ModuleFrame(n, via)
  <2>1. f \in Frames /\ f.code = n /\ f.run = runs[n] + 1 /\ f.needs = Requires[n]
    BY <1>0, NewFrames
  <2>2. stack' = Append(stack, f) /\ runs' = [runs EXCEPT ![n] = @ + 1]
    BY <1>4 DEF Enter
  <2> HIDE DEF f
  <2>3. \A i \in DOMAIN stack : FALSE
    BY <1>4
  <2> QED
    BY <1>0, <1>4, <2>1, <2>2, <2>3, AcyclicEntered
<1>5. CASE DidCreateEnvironment
  <2>1. stack = <<>>
    BY <1>5 DEF DidCreateEnvironment, GateInv, NothingYet
  <2>2. Get(Bootstrap) = Undefined
    <3>1. Bootstrap \notin InheritedNames
      BY SourcesAssumption
    <3>2. modules[Bootstrap] = Undefined
      BY <1>0, <1>5 DEF DidCreateEnvironment, GateInv, NothingYet
    <3> QED
      BY <3>1, <3>2 DEF Get
  <2> QED
    BY <1>0, <1>4, <1>5, <2>1, <2>2 DEF DidCreateEnvironment, Vias
<1>6. ASSUME NEW n \in Names, RequireCached(n) \/ RequireFails(n)
      PROVE  AcyclicInv'
  <2>1. stack # <<>>
    BY <1>6 DEF RequireCached, RequireFails, Executing
  <2>2. CASE RequireCached(n)
    BY <1>0, <1>3, <2>1, <2>2, RequiredFrame, AcyclicKept DEF RequireCached
  <2>3. CASE RequireFails(n) /\ ~BatchFatal
    <3>1. modules[n] = Undefined
      BY <2>3 DEF RequireFails, Get, Undefined, Inherited
    <3>2. stack' = Required(n) /\ UNCHANGED <<modules, runs, held>>
      BY <2>3, <3>1, ClearedIsSame DEF RequireFails
    <3> QED
      BY <1>0, <2>1, <3>2, RequiredFrame, AcyclicKept
  <2> QED
    BY <1>2, <1>6, <2>2, <2>3 DEF BatchFatal
<1>7. ASSUME NEW n \in Names, RequireLoads(n) PROVE AcyclicInv'
  <2> DEFINE f == ModuleFrame(n, "require")
  <2>1. f \in Frames /\ f.code = n /\ f.run = runs[n] + 1 /\ f.needs = Requires[n]
    BY <1>0, NewFrames DEF Vias
  <2>2. /\ stack' = Append(Required(n), f) /\ runs' = [runs EXCEPT ![n] = @ + 1]
        /\ UNCHANGED <<modules, held>> /\ stack # <<>>
        /\ Executing /\ n \in Top.needs /\ Get(n) = Undefined
    BY <1>7 DEF RequireLoads, Enter, Executing
  <2> HIDE DEF f
  <2> DEFINE below == Required(n)
  <2>3. /\ below \in Seq(Frames)
        /\ \A i \in DOMAIN below :
              /\ i \in DOMAIN stack
              /\ below[i].code = stack[i].code
              /\ below[i].run = stack[i].run
              /\ below[i].needs \subseteq stack[i].needs
    BY <1>0, <2>2, RequiredFrame
  <2>4. stack' = Append(below, f)
    BY <2>2
  <2>5. \A i \in DOMAIN stack : stack[i].code # NoName =>
              Rank[n] < Rank[stack[i].code] /\ stack[i].code # n
    BY <2>2, RequiredNotLoading
  <2>6. /\ runs' = [runs EXCEPT ![n] = @ + 1] /\ Get(n) = Undefined
        /\ UNCHANGED <<modules, held>>
    BY <2>2
  <2> HIDE DEF below
  <2> QED
    BY <2>1, <2>3, <2>4, <2>5, <2>6, AcyclicEntered
<1>8. ASSUME NEW q \in NativeNames,
             RequireNativeDenied(q) \/ RequireNativeFound(q) \/ RequireNativeMissing(q)
      PROVE  AcyclicInv'
  <2>1. stack # <<>>
    BY <1>8 DEF RequireNativeDenied, RequireNativeFound, RequireNativeMissing, Executing
  <2>2. CASE stack' = Asked(q) /\ UNCHANGED <<modules, runs, held>>
    BY <1>0, <2>1, <2>2, AskedFrame, AcyclicKept
  <2> QED
    BY <1>2, <1>8, <2>2
       DEF RequireNativeDenied, RequireNativeFound, RequireNativeMissing, BatchFatal
<1>9. ASSUME Executing
      PROVE  /\ Front(stack) \in Seq(Frames)
             /\ DOMAIN Front(stack) = 1 .. Len(stack) - 1
             /\ \A i \in 1 .. Len(stack) - 1 : Front(stack)[i] = stack[i]
             /\ 1 .. Len(stack) - 1 \subseteq DOMAIN stack
             /\ Len(stack) \in Nat \ {0}
  BY <1>0, <1>9, FrontOfStack DEF Executing
<1>10. CASE ModuleReturns
  BY <1>9, <1>10, AcyclicPublished DEF ModuleReturns, InModule
<1>11. CASE CalledModuleReturns
  <2>1. CASE BatchFatal
    BY <1>2, <2>1 DEF BatchFatal
  <2>2. CASE stack' = Front(stack) /\ Published /\ UNCHANGED runs
    BY <1>9, <1>11, <2>2, AcyclicPublished DEF CalledModuleReturns, InModule
  <2>3. ASSUME NEW body \in ScriptBodies, Published, UNCHANGED runs,
               stack' = Append(Front(stack), HostFrame(body))
        PROVE  AcyclicInv'
    <3> DEFINE f == HostFrame(body)
    <3>1. f \in Frames /\ f.code = NoName
      BY <1>0, NewFrames
    <3>2. Front(stack) = <<>>
      BY <1>0, <1>11, CalledIsAlone DEF CalledModuleReturns
    <3>3. stack' = <<f>>
      BY <2>3, <3>2
    <3> HIDE DEF f
    <3>4. \A i \in DOMAIN stack' : stack'[i].code = NoName
      BY <3>1, <3>3, SingleFrame
    <3> QED
      BY <1>11, <2>3, <3>4, AcyclicPublished DEF CalledModuleReturns
  <2> QED
    BY <1>11, <2>1, <2>2, <2>3 DEF CalledModuleReturns
<1>12. CASE ModuleThrows
  <2>1. CASE ~BatchFatal
    <3>1. /\ stack' = Front(stack) /\ UNCHANGED <<runs, held>>
          /\ modules' = [modules EXCEPT ![Top.code] = Undefined]
      BY <1>12, <2>1 DEF ModuleThrows, Publish
    <3>2. modules[Top.code] = Undefined /\ Top.code \in Names
      BY <1>12, LoadingTop DEF ModuleThrows
    <3>3. modules' = modules
      BY <3>1, <3>2, ClearedIsSame
    <3> QED
      BY <1>9, <1>12, <3>1, <3>3, AcyclicKept DEF ModuleThrows, InModule
  <2> QED
    BY <1>2, <1>12, <2>1 DEF BatchFatal
<1>13. CASE HostCodeThrows \/ HostCodeReturns
  <2>1. Executing
    BY <1>13 DEF HostCodeThrows, HostCodeReturns
  <2>2. CASE stack' = Front(stack) /\ UNCHANGED <<modules, runs, held>>
    BY <1>9, <2>1, <2>2, AcyclicKept
  <2> QED
    BY <1>2, <1>13, <2>2 DEF HostCodeThrows, HostCodeReturns, BatchFatal
<1>14. ASSUME NEW body \in ScriptBodies \cup {{}}, stack' = <<HostFrame(body)>>,
              UNCHANGED <<modules, runs>>,
              held' = held \/ \E n \in Names : Get(n) # Undefined /\ held' = held \cup {<<n, Get(n)>>}
       PROVE  AcyclicInv'
  <2> DEFINE f == HostFrame(body)
  <2>1. f \in Frames /\ f.code = NoName
    BY <1>0, NewFrames
  <2> HIDE DEF f
  <2>2. DOMAIN stack' = {1} /\ stack'[1] = f
    BY <1>14, <2>1, SingleFrame DEF f
  <2> QED
    BY <1>14, <2>1, <2>2, AcyclicKept
<1>15. CASE RunString
  BY <1>14, <1>15 DEF RunString
<1>16. ASSUME NEW n \in Names, CallModuleMethod(n) PROVE AcyclicInv'
  <2>1. CASE Enter(n, "call", stack) /\ Get(n) = Undefined /\ UNCHANGED <<modules, held>>
    BY <1>4, <1>16, <2>1 DEF CallModuleMethod, Idle, Vias
  <2>2. ASSUME NEW body \in ScriptBodies, stack' = <<HostFrame(body)>>,
               Hold(n, Get(n)), UNCHANGED <<modules, runs>>
        PROVE  AcyclicInv'
    BY <1>3, <1>14, <2>2
  <2> QED
    BY <1>16, <2>1, <2>2 DEF CallModuleMethod
<1>17. ASSUME NEW n \in Names, CallModuleMethodFails(n) PROVE AcyclicInv'
  BY <1>1, <1>2, <1>3, <1>17 DEF CallModuleMethodFails, BatchFatal
<1>18. CASE Invalidate \/ Ended \/ UNCHANGED vars
  BY <1>1, <1>18 DEF Invalidate, Ended, vars
<1> QED
  BY <1>5, <1>6, <1>7, <1>8, <1>10, <1>11, <1>12, <1>13, <1>15, <1>16, <1>17, <1>18
     DEF Next, Execute, Host

AllInv == TypeOK /\ GateInv /\ AcyclicInv

LEMMA AllInvariant == Spec => []AllInv
<1>1. Init => AllInv
  BY TypeInit, GateInit, AcyclicInit DEF AllInv
<1>2. AllInv /\ [Next]_vars => AllInv'
  BY TypeNext, GateNext, AcyclicNext DEF AllInv
<1> QED
  BY <1>1, <1>2, PTL DEF Spec

\* The runs' inductive invariant, for every acyclic set of modules.
THEOREM AcyclicInvariant == Spec => []AcyclicInv
<1>1. AllInv => AcyclicInv
  BY DEF AllInv
<1> QED
  BY <1>1, AllInvariant, PTL

\* Everybody who required a name, in whatever frame and whatever failed in
\* between, was handed the same object.
THEOREM ExportsAreShared == Spec => []SharedExports
<1>1. AllInv => SharedExports
  <2> SUFFICES ASSUME AllInv, NEW g \in held, NEW h \in held, g[1] = h[1]
               PROVE  g[2] = h[2]
    BY DEF SharedExports
  <2> QED
    BY DEF AllInv, AcyclicInv, HeldIsCached
<1> QED
  BY <1>1, AllInvariant, PTL

\* No step replaces a cached exports object.
THEOREM CacheIsStable == Spec => CacheStable
<1> DEFINE Stable == \A n \in Names : modules[n] # Undefined => modules'[n] = modules[n]
<1>1. AllInv /\ [Next]_vars => [Stable]_vars
  <2> SUFFICES ASSUME AllInv, [Next]_vars PROVE Stable
    OBVIOUS
  <2>1. CASE SilentStep \/ HandOutStep
    BY <2>1 DEF SilentStep, HandOutStep
  <2>2. CASE PublishStep
    <3>1. /\ Top.code \in Names /\ modules[Top.code] = Undefined
          /\ modules' = [modules EXCEPT ![Top.code] = Top.run]
      BY <2>2, PublishedIsFirst DEF AllInv, PublishStep
    <3> QED
      BY <3>1 DEF AllInv, TypeOK
  <2> QED
    BY <2>1, <2>2, StepKinds DEF AllInv
<1> QED
  BY <1>1, AllInvariant, PTL DEF Spec, CacheStable

\* CommonModuleSystem implements ExportsOnce: a step publishes the first
\* exports of a name, hands out the published ones, or does neither.
THEOREM PromiseKept == Spec => KeepsPromise
<1>1. Init => Promise!Init
  BY DEF Init, Promise!Init, Handed, Undefined
<1>2. AllInv /\ [Next]_vars => [Promise!Next]_<<modules, Handed>>
  <2> SUFFICES ASSUME AllInv, [Next]_vars
               PROVE  Promise!Next \/ UNCHANGED <<modules, Handed>>
    OBVIOUS
  <2>1. CASE SilentStep
    BY <2>1 DEF SilentStep, Handed
  <2>2. CASE HandOutStep
    <3>1. PICK n \in Names :
             Get(n) # Undefined /\ held' = held \cup {<<n, Get(n)>>} /\ UNCHANGED modules
      BY <2>2 DEF HandOutStep
    <3>2. CASE modules[n] # Undefined
      <4>1. Get(n) = modules[n] /\ Get(n) # Inherited
        BY <3>1, <3>2 DEF Get, AllInv, TypeOK, Inherited
      <4>2. Handed' = Handed \cup {<<n, modules[n]>>}
        BY <3>1, <4>1 DEF Handed
      <4> QED
        BY <3>1, <3>2, <4>2 DEF Promise!Next, Promise!HandOut, Undefined
    <3>3. CASE modules[n] = Undefined
      <4>1. Get(n) = Inherited
        BY <3>1, <3>3 DEF Get
      <4>2. Handed' = Handed
        BY <3>1, <4>1 DEF Handed
      <4> QED
        BY <3>1, <4>2
    <3> QED
      BY <3>2, <3>3
  <2>3. CASE PublishStep
    <3> DEFINE c == Top.code
               r == Top.run
    <3>1. /\ c \in Names /\ r \in Nat \ {0} /\ modules[c] = Undefined
          /\ modules' = [modules EXCEPT ![c] = r]
          /\ held' = held \cup {<<c, r>>}
      BY <2>3, PublishedIsFirst DEF AllInv, PublishStep
    <3> HIDE DEF c, r
    <3>2. modules'[c] = r
      BY <3>1 DEF AllInv, TypeOK
    <3>3. Handed' = Handed \cup {<<c, r>>}
      BY <3>1 DEF Handed, Inherited
    <3>4. Promise!Publish(c)
      BY <3>1, <3>2, <3>3 DEF Promise!Publish, Undefined
    <3> QED
      BY <3>1, <3>4 DEF Promise!Next
  <2> QED
    BY <2>1, <2>2, <2>3, StepKinds DEF AllInv
<1> QED
  BY <1>1, <1>2, AllInvariant, PTL DEF Spec, KeepsPromise, Promise!Spec

(***************************************************************************)
(* Batch mode: the first failure ends the process, so a body that was      *)
(* started never has to be started again.                                  *)
(***************************************************************************)
\* A step that starts no body and forgets none.
LEMMA StartedKept ==
    ASSUME StartedOnce, UNCHANGED runs,
           \A n \in Names : modules[n] # Undefined => modules'[n] # Undefined,
           proc = "aborted" => proc' = "aborted",
           \A i \in DOMAIN stack : stack[i].code \in Names =>
              \/ proc' = "aborted"
              \/ modules'[stack[i].code] # Undefined
              \/ \E j \in DOMAIN stack' : stack'[j].code = stack[i].code
    PROVE  StartedOnce'
  BY DEF StartedOnce

\* A body is started only when it is neither cached nor in progress.
LEMMA StartedEntered ==
    ASSUME TypeOK, StartedOnce, UNCHANGED modules, proc # "aborted",
           NEW n \in Names, NEW below \in Seq(Frames), NEW f \in Frames,
           f.code = n, modules[n] = Undefined,
           stack' = Append(below, f),
           runs' = [runs EXCEPT ![n] = @ + 1],
           DOMAIN below = DOMAIN stack,
           \A i \in DOMAIN stack : below[i].code = stack[i].code,
           \A i \in DOMAIN stack : stack[i].code # n
    PROVE  StartedOnce'
<1>1. /\ Len(below) \in Nat /\ DOMAIN below = 1 .. Len(below)
      /\ DOMAIN stack' = 1 .. Len(below) + 1
      /\ stack'[Len(below) + 1] = f
      /\ \A i \in 1 .. Len(below) : stack'[i] = below[i]
  BY PushOnStack
<1>2. \A m \in Names : runs[m] \in Nat /\ runs'[m] = IF m = n THEN runs[m] + 1 ELSE runs[m]
  BY DEF TypeOK
<1>3. runs[n] = 0
  <2>1. runs[n] # 1 /\ runs[n] <= 1
    BY DEF StartedOnce
  <2> QED
    BY <1>2, <2>1
<1>4. Len(below) + 1 \in DOMAIN stack'
  BY <1>1
<1>5. \A i \in DOMAIN stack : i \in DOMAIN stack' /\ stack'[i].code = stack[i].code
  BY <1>1
<1> SUFFICES ASSUME NEW m \in Names
             PROVE  /\ runs'[m] <= 1
                    /\ runs'[m] = 1 =>
                          \/ modules'[m] # Undefined
                          \/ proc' = "aborted"
                          \/ \E i \in DOMAIN stack' : stack'[i].code = m
  BY DEF StartedOnce
<1>6. CASE m = n
  BY <1>1, <1>2, <1>3, <1>4, <1>6
<1>7. CASE m # n
  BY <1>2, <1>5, <1>7 DEF StartedOnce
<1> QED
  BY <1>6, <1>7

LEMMA BatchInit == Init => StartedOnce
  BY DEF Init, StartedOnce

LEMMA BatchNext ==
    Mode = "batch" /\ AllInv /\ StartedOnce /\ [Next]_vars => StartedOnce'
<1> SUFFICES ASSUME Mode = "batch", AllInv, StartedOnce, [Next]_vars PROVE StartedOnce'
  OBVIOUS
<1>0. /\ stack \in Seq(Frames) /\ runs \in [Names -> Nat]
      /\ TypeOK /\ GateInv /\ AcyclicInv
      /\ Bootstrap \in Names /\ NoName \notin Names
  BY SourcesAssumption DEF AllInv, TypeOK
<1>1. ~ReplFatal
  BY DEF ReplFatal
<1>2. \A n \in Names : modules[n] # Undefined => modules'[n] = modules[n]
  <2>1. CASE PublishStep
    <3>1. /\ Top.code \in Names /\ modules[Top.code] = Undefined
          /\ modules' = [modules EXCEPT ![Top.code] = Top.run]
      BY <1>0, <2>1, PublishedIsFirst DEF PublishStep
    <3> QED
      BY <1>0, <3>1 DEF TypeOK
  <2> QED
    BY <1>0, <2>1, StepKinds DEF SilentStep, HandOutStep
<1>3. ASSUME UNCHANGED runs, proc = "aborted" => proc' = "aborted",
             \A i \in DOMAIN stack : stack[i].code \in Names =>
                \/ proc' = "aborted"
                \/ modules'[stack[i].code] # Undefined
                \/ \E j \in DOMAIN stack' : stack'[j].code = stack[i].code
      PROVE  StartedOnce'
  BY <1>2, <1>3, StartedKept
<1>4. ASSUME BatchFatal PROVE StartedOnce'
  BY <1>3, <1>4 DEF BatchFatal, Abort
<1>5. ASSUME stack = <<>>, NEW n \in Names, NEW via \in Vias, Enter(n, via, stack),
             Get(n) = Undefined, UNCHANGED modules, proc # "aborted"
      PROVE  StartedOnce'
  <2> DEFINE f == ModuleFrame(n, via)
  <2>1. f \in Frames /\ f.code = n
    BY <1>0, NewFrames
  <2>2. stack' = Append(stack, f) /\ runs' = [runs EXCEPT ![n] = @ + 1]
    BY <1>5 DEF Enter
  <2>3. modules[n] = Undefined
    BY <1>5 DEF Get, Undefined, Inherited
  <2> HIDE DEF f
  <2>4. \A i \in DOMAIN stack : FALSE
    BY <1>5
  <2> QED
    BY <1>0, <1>5, <2>1, <2>2, <2>3, <2>4, StartedEntered
<1>6. CASE DidCreateEnvironment
  <2>1. stack = <<>> /\ modules[Bootstrap] = Undefined
    BY <1>0, <1>6 DEF DidCreateEnvironment, GateInv, NothingYet
  <2>2. Get(Bootstrap) = Undefined
    BY <2>1, SourcesAssumption DEF Get
  <2> QED
    BY <1>0, <1>5, <1>6, <2>1, <2>2 DEF DidCreateEnvironment, Vias
<1>7. ASSUME NEW n \in Names, RequireCached(n) \/ RequireFails(n)
      PROVE  StartedOnce'
  <2>1. stack # <<>>
    BY <1>7 DEF RequireCached, RequireFails, Executing
  <2>2. CASE RequireCached(n)
    BY <1>0, <1>3, <2>1, <2>2, RequiredFrame DEF RequireCached
  <2> QED
    BY <1>1, <1>4, <1>7, <2>2 DEF RequireFails
<1>8. ASSUME NEW n \in Names, RequireLoads(n) PROVE StartedOnce'
  <2> DEFINE f == ModuleFrame(n, "require")
             below == Required(n)
  <2>1. f \in Frames /\ f.code = n
    BY <1>0, NewFrames DEF Vias
  <2>2. /\ stack' = Append(below, f) /\ runs' = [runs EXCEPT ![n] = @ + 1]
        /\ UNCHANGED modules /\ stack # <<>> /\ proc # "aborted"
        /\ Executing /\ n \in Top.needs /\ Get(n) = Undefined
    BY <1>8 DEF RequireLoads, Enter, Executing
  <2>3. /\ below \in Seq(Frames) /\ DOMAIN below = DOMAIN stack
        /\ \A i \in DOMAIN stack : below[i].code = stack[i].code
    BY <1>0, <2>2, RequiredFrame
  <2>4. \A i \in DOMAIN stack : stack[i].code # n
    BY <1>0, <2>2, RequiredNotLoading
  <2>5. modules[n] = Undefined
    BY <2>2 DEF Get, Undefined, Inherited
  <2> HIDE DEF f, below
  <2> QED
    BY <1>0, <2>1, <2>2, <2>3, <2>4, <2>5, StartedEntered
<1>9. ASSUME NEW q \in NativeNames,
             RequireNativeDenied(q) \/ RequireNativeFound(q) \/ RequireNativeMissing(q)
      PROVE  StartedOnce'
  <2>1. stack # <<>>
    BY <1>9 DEF RequireNativeDenied, RequireNativeFound, RequireNativeMissing, Executing
  <2>2. CASE stack' = Asked(q) /\ UNCHANGED <<modules, runs, proc>>
    BY <1>0, <1>3, <2>1, <2>2, AskedFrame
  <2> QED
    BY <1>1, <1>4, <1>9, <2>2
       DEF RequireNativeDenied, RequireNativeFound, RequireNativeMissing
<1>10. ASSUME Executing
       PROVE  /\ Front(stack) \in Seq(Frames)
              /\ DOMAIN Front(stack) = 1 .. Len(stack) - 1
              /\ \A i \in 1 .. Len(stack) - 1 : Front(stack)[i] = stack[i]
              /\ \A i \in DOMAIN stack : i \in 1 .. Len(stack) - 1 \/ stack[i] = Top
              /\ Len(stack) \in Nat \ {0} /\ DOMAIN stack = 1 .. Len(stack)
  BY <1>0, <1>10, FrontOfStack DEF Executing, Top
<1>11. ASSUME InModule, Published PROVE modules'[Top.code] # Undefined /\ Top.code \in Names
  <2>1. /\ Top.code \in Names /\ Top.run \in Nat \ {0}
        /\ modules' = [modules EXCEPT ![Top.code] = Top.run]
    BY <1>0, <1>11, PublishedIsFirst
  <2> QED
    BY <1>0, <2>1 DEF TypeOK, Undefined
<1>12. CASE ModuleReturns
  <2>1. stack' = Front(stack) /\ UNCHANGED <<runs, proc>> /\ InModule /\ Published /\ Executing
    BY <1>12 DEF ModuleReturns, InModule
  <2> QED
    BY <1>3, <1>10, <1>11, <2>1
<1>13. CASE CalledModuleReturns
  <2>1. ASSUME Published, UNCHANGED <<runs, proc>> PROVE StartedOnce'
    <3>1. Len(stack) = 1 /\ Top = stack[1] /\ DOMAIN stack = 1 .. Len(stack)
      BY <1>0, <1>10, <1>13, CalledIsAlone DEF CalledModuleReturns, InModule
    <3>2. \A i \in DOMAIN stack : stack[i] = Top
      BY <3>1
    <3> QED
      BY <1>3, <1>11, <1>13, <2>1, <3>2 DEF CalledModuleReturns
  <2> QED
    BY <1>1, <1>4, <1>13, <2>1 DEF CalledModuleReturns
<1>14. CASE ModuleThrows
  BY <1>1, <1>4, <1>14 DEF ModuleThrows
<1>15. CASE HostCodeThrows
  BY <1>1, <1>4, <1>15 DEF HostCodeThrows
<1>16. CASE HostCodeReturns
  <2>1. /\ Executing /\ Top.code \notin Names /\ stack' = Front(stack)
        /\ UNCHANGED <<modules, runs, proc>>
    BY <1>0, <1>16 DEF HostCodeReturns
  <2> QED
    BY <1>3, <1>10, <2>1
<1>17. CASE RunString
  BY <1>3, <1>17 DEF RunString, Idle
<1>18. ASSUME NEW n \in Names, CallModuleMethod(n) PROVE StartedOnce'
  <2>1. stack = <<>> /\ proc = "running"
    BY <1>18 DEF CallModuleMethod, Idle
  <2>2. \A i \in DOMAIN stack : FALSE
    BY <2>1
  <2>3. CASE Enter(n, "call", stack) /\ Get(n) = Undefined /\ UNCHANGED <<modules, proc>>
    BY <1>5, <2>1, <2>3 DEF Vias
  <2>4. CASE UNCHANGED <<runs, proc>>
    BY <1>3, <2>2, <2>4
  <2> QED
    BY <1>18, <2>3, <2>4 DEF CallModuleMethod
<1>19. ASSUME NEW n \in Names, CallModuleMethodFails(n) PROVE StartedOnce'
  BY <1>1, <1>4, <1>19 DEF CallModuleMethodFails
<1>20. CASE Invalidate \/ Ended \/ UNCHANGED vars
  BY <1>3, <1>20 DEF Invalidate, Idle, Ended, vars
<1> QED
  BY <1>6, <1>7, <1>8, <1>9, <1>12, <1>13, <1>14, <1>15, <1>16, <1>17, <1>18, <1>19, <1>20
     DEF Next, Execute, Host

\* In batch mode every module's body runs at most once, as the comment says.
THEOREM BatchRunsOnce == Mode = "batch" /\ Spec => []ExecutedAtMostOnce
<1> SUFFICES ASSUME Mode = "batch" PROVE Spec => []ExecutedAtMostOnce
  OBVIOUS
<1>1. Init => StartedOnce
  BY BatchInit
<1>2. AllInv /\ StartedOnce /\ [Next]_vars => StartedOnce'
  BY BatchNext
<1>3. StartedOnce => ExecutedAtMostOnce
  BY DEF StartedOnce, ExecutedAtMostOnce
<1> QED
  BY <1>1, <1>2, <1>3, AllInvariant, PTL DEF Spec
===============================================================================
