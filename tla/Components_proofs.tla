-------------------------- MODULE Components_proofs --------------------------
(***************************************************************************)
(* Proofs about the components that share no state.  Each has its          *)
(* inductive invariant, shown for its own initial states and steps, and    *)
(* what follows from it; the theorems about the module Components that     *)
(* come of them are at the end.                                            *)
(***************************************************************************)
EXTENDS Components, FiniteSetTheorems, StackLemmas

-------------------------------------------------------------------------------
(***************************************************************************)
(* os.throw.                                                               *)
(***************************************************************************)
\* The errnos below the bits of their kinds.
Small == 0 .. Throw!ZarunErrnoError - 1

LEMMA SmallIsInt == Small \subseteq Int /\ 0 \in Small
  BY DEF Small, Throw!ZarunErrnoError

LEMMA ShortTypes == (\A x \in Int : Throw!UnsignedShort(x) \in Throw!Shorts) /\ {0, 1, 3} \subseteq Throw!Shorts
  BY DEF Throw!UnsignedShort, Throw!Shorts

LEMMA KindTypes ==
    /\ {Throw!V8GeneralError, Throw!ZarunErrnoError, Throw!ZarunError} \subseteq Int
    /\ Throw!ZarunErrnoError # Throw!ZarunError
    /\ ~Throw!IsV8Error(Throw!ZarunErrnoError) /\ ~Throw!IsV8Error(Throw!ZarunError)
  BY DEF Throw!V8GeneralError, Throw!ZarunErrnoError, Throw!ZarunError, Throw!IsV8Error

LEMMA V8Index ==
    ASSUME NEW code \in Int, Throw!IsV8Error(code)
    PROVE  code - Throw!V8GeneralError + 1 \in 1 .. 5
  BY DEF Throw!V8GeneralError, Throw!IsV8Error

\* Or sets the bit of an int, whatever its sign, and the mask gets a small
\* errno back.
LEMMA OrSetsBit ==
    ASSUME NEW e \in Int, NEW w, w = Throw!Or(e, Throw!ZarunErrnoError)
    PROVE  /\ w \in Int
           /\ Throw!HasBit(w, Throw!ZarunErrnoError)
           /\ e \in Small => Throw!UnsignedShort(w - Throw!ZarunErrnoError) = e
<1>1. e \div 8192 \in Int /\ (e + 8192) \div 8192 = e \div 8192 + 1
  OBVIOUS
<1>2. (e \div 8192) % 2 # 1 => (e \div 8192 + 1) % 2 = 1
  BY <1>1
<1>3. e \in 0 .. 8192 - 1 => (e \div 8192) % 2 # 1 /\ (e + 8192 - 8192) % 65536 = e
  OBVIOUS
<1>4. CASE (e \div 8192) % 2 = 1
  <2>1. w = e
    BY <1>4 DEF Throw!Or, Throw!HasBit, Throw!ZarunErrnoError
  <2> QED
    BY <1>3, <1>4, <2>1 DEF Throw!HasBit, Throw!ZarunErrnoError, Small
<1>5. CASE (e \div 8192) % 2 # 1
  <2>1. w = e + 8192
    BY <1>5 DEF Throw!Or, Throw!HasBit, Throw!ZarunErrnoError
  <2>2. (w \div 8192) % 2 = 1
    BY <1>1, <1>2, <1>5, <2>1
  <2> QED
    BY <1>3, <2>1, <2>2 DEF Throw!HasBit, Throw!ZarunErrnoError, Throw!UnsignedShort, Small
<1> QED
  BY <1>4, <1>5

LEMMA OrOfZarunError ==
    ASSUME NEW e \in Int, NEW w, w = Throw!Or(e, Throw!ZarunError)
    PROVE  /\ w \in Int
           /\ e \in Small => ~Throw!HasBit(w, Throw!ZarunErrnoError)
<1>1. e \in 0 .. 8192 - 1 => (e \div 16384) % 2 # 1 /\ ((e + 16384) \div 8192) % 2 # 1
  OBVIOUS
<1>2. w \in {e, e + 16384}
  BY DEF Throw!Or, Throw!ZarunError
<1>3. e \in 0 .. 8192 - 1 => w = e + 16384
  BY <1>1 DEF Throw!Or, Throw!HasBit, Throw!ZarunError
<1> QED
  BY <1>1, <1>2, <1>3 DEF Throw!HasBit, Throw!ZarunErrnoError, Small

LEMMA EntryType ==
    ASSUME NEW ec \in Int, NEW entry, entry = Throw!GetErrorEntry(ec)
    PROVE  entry.name \in Throw!Names /\ entry.name # "ErrnoError" /\ entry.code \in Throw!Shorts
<1>1. /\ Throw!CoreExceptions[1].name = "IndexSizeError" /\ Throw!CoreExceptions[1].code = 1
      /\ Throw!CoreExceptions[2].name = "GenericError" /\ Throw!CoreExceptions[2].code = 3
  BY DEF Throw!CoreExceptions
<1>2. Len(Throw!CoreExceptions) = 2
  BY DEF Throw!CoreExceptions
<1>3. PICK i \in 1 .. 2 : entry = Throw!CoreExceptions[i]
  BY <1>2 DEF Throw!GetErrorEntry, Throw!IndexSizeError
<1>4. entry.name \in Throw!Names
  BY <1>3 DEF Throw!Names
<1>5. i = 1 \/ i = 2
  OBVIOUS
<1>6. entry.name # "ErrnoError" /\ entry.code \in Throw!Shorts
  BY <1>1, <1>3, <1>5, ShortTypes
<1> QED
  BY <1>4, <1>6

\* Wrapping gives an ErrnoError its errno and any other error its table entry.
LEMMA Wrapped ==
    ASSUME NEW code \in Int, NEW text, NEW errno \in SUBSET Int, NEW named \in SUBSET ErrnoNames,
           NEW x, x = Throw!Wrap(code, Throw!Message(text, errno, named))
    PROVE  /\ Throw!IsException(x) /\ x.errno = errno
           /\ Throw!HasBit(code, Throw!ZarunErrnoError) =>
                 /\ x.type = "ErrnoError"
                 /\ x.code = Throw!UnsignedShort(code - Throw!ZarunErrnoError)
           /\ ~Throw!HasBit(code, Throw!ZarunErrnoError) => x.type # "ErrnoError"
<1>1. PICK m : m = Throw!Message(text, errno, named)
  OBVIOUS
<1>2. m = [type |-> "", code |-> 0, text |-> text, errno |-> errno, named |-> named]
  BY <1>1 DEF Throw!Message
<1>3. CASE Throw!HasBit(code, Throw!ZarunErrnoError)
  <2>1. PICK c \in Throw!Shorts : c = Throw!UnsignedShort(code - Throw!ZarunErrnoError)
    BY ShortTypes, KindTypes
  <2>2. x = [m EXCEPT !.type = "ErrnoError", !.code = c]
    BY <1>1, <1>3, <2>1 DEF Throw!Wrap
  <2>3. x.type = "ErrnoError" /\ x.code = c /\ x.errno = errno /\ x.named = named
    BY <1>2, <2>2
  <2>4. "ErrnoError" \in Throw!Names
    BY DEF Throw!Names
  <2>5. Throw!IsException(x)
    BY <2>3, <2>4 DEF Throw!IsException
  <2> QED
    BY <1>3, <2>1, <2>3, <2>5
<1>4. CASE ~Throw!HasBit(code, Throw!ZarunErrnoError)
  <2>1. PICK entry : entry = Throw!GetErrorEntry(code)
    OBVIOUS
  <2>2. x = [m EXCEPT !.type = entry.name, !.code = entry.code]
    BY <1>1, <1>4, <2>1 DEF Throw!Wrap
  <2>3. x.type = entry.name /\ x.code = entry.code /\ x.errno = errno /\ x.named = named
    BY <1>2, <2>2
  <2>4. entry.name \in Throw!Names /\ entry.name # "ErrnoError" /\ entry.code \in Throw!Shorts
    BY <2>1, EntryType
  <2>5. Throw!IsException(x)
    BY <2>3, <2>4 DEF Throw!IsException
  <2> QED
    BY <1>4, <2>3, <2>4, <2>5
<1> QED
  BY <1>3, <1>4

\* What os.throw throws for the arguments that arrive.
LEMMA CreatedAsPassed ==
    ASSUME NEW code \in Int, NEW text, NEW e \in Int,
           NEW X, X = Throw!CreateException(code, text, e)
    PROVE  /\ \A x \in X : Throw!IsException(x)
           /\ code = Throw!ZarunErrnoError => X # {} /\ \A x \in X :
                 /\ x.type = "ErrnoError" /\ x.errno = {e}
                 /\ e \in Small => x.code = e
           /\ code = Throw!ZarunError /\ e \in Small => \A x \in X : x.type # "ErrnoError"
<1>1. CASE Throw!IsV8Error(code)
  <2>1. PICK i \in 1 .. 5 : i = code - Throw!V8GeneralError + 1
    BY <1>1, V8Index
  <2>2. PICK x : x = Throw!V8Error(code, text)
    OBVIOUS
  <2>3. x.type = Throw!V8Names[i] /\ x.code = 0 /\ x.errno = {} /\ x.named = {}
    BY <2>1, <2>2 DEF Throw!V8Error
  <2>4. Throw!V8Names[i] \in Throw!Names
    BY DEF Throw!Names
  <2>5. Throw!IsException(x)
    BY <2>3, <2>4, ShortTypes DEF Throw!IsException
  <2>6. X = {x}
    BY <1>1, <2>2 DEF Throw!CreateException
  <2> QED
    BY <1>1, <2>5, <2>6, KindTypes
<1>2. CASE code = Throw!ZarunErrnoError
  <2>2. PICK named \in SUBSET ErrnoNames : named = Throw!ErrnoString(e)
    BY DEF Throw!ErrnoString
  <2>3. PICK w \in Int : /\ w = Throw!Or(e, Throw!ZarunErrnoError)
                         /\ Throw!HasBit(w, Throw!ZarunErrnoError)
                         /\ e \in Small => Throw!UnsignedShort(w - Throw!ZarunErrnoError) = e
    BY OrSetsBit
  <2>5. PICK x : x = Throw!Wrap(w, Throw!Message(text, {e}, named))
    OBVIOUS
  <2>6. X = {x}
    BY <1>2, <2>2, <2>3, <2>5, KindTypes DEF Throw!CreateException
  <2>7. /\ Throw!IsException(x) /\ x.errno = {e} /\ x.type = "ErrnoError"
        /\ x.code = Throw!UnsignedShort(w - Throw!ZarunErrnoError)
    <3>1. {e} \in SUBSET Int
      OBVIOUS
    <3> QED
      BY <2>3, <2>5, <3>1, Wrapped
  <2> QED
    BY <1>2, <2>3, <2>6, <2>7, KindTypes
<1>3. CASE code = Throw!ZarunError
  <2>3. PICK w \in Int : /\ w = Throw!Or(e, Throw!ZarunError)
                         /\ e \in Small => ~Throw!HasBit(w, Throw!ZarunErrnoError)
    BY OrOfZarunError
  <2>5. PICK x : x = Throw!Wrap(w, Throw!Message(text, {}, {}))
    OBVIOUS
  <2>6. X = {x}
    BY <1>3, <2>3, <2>5, KindTypes DEF Throw!CreateException
  <2>7. Throw!IsException(x) /\ (e \in Small => x.type # "ErrnoError")
    BY <2>3, <2>5, Wrapped
  <2> QED
    BY <1>3, <2>6, <2>7, KindTypes
<1>4. CASE ~Throw!IsV8Error(code) /\ code # Throw!ZarunErrnoError /\ code # Throw!ZarunError
  BY <1>4 DEF Throw!CreateException
<1> QED
  BY <1>1, <1>2, <1>3, <1>4

LEMMA CallType ==
    ASSUME NEW c \in Throw!Calls
    PROVE  c.code \in Int /\ c.errno \in Int /\ c.length \in 0 .. 6
  BY ComponentAssumptions DEF Throw!Calls, Throw!IntAssumption

LEMMA MadeIsException ==
    ASSUME NEW c \in Throw!Calls, NEW x \in Throw!MadeOf(c)
    PROVE  Throw!IsException(x)
<1>1. Throw!CodeOf(c) \in Int /\ Throw!ErrnoOf(c) \in Int
  BY CallType, KindTypes DEF Throw!CodeOf, Throw!ErrnoOf
<1>2. \/ x = Throw!ArgumentsError
      \/ x \in Throw!CreateException(Throw!CodeOf(c), Throw!TextOf(c), Throw!ErrnoOf(c))
  BY DEF Throw!MadeOf
<1>3. PICK a : a = Throw!ArgumentsError
  OBVIOUS
<1>4. Throw!IsException(a)
  <2>1. a.type = "" /\ a.code = 0 /\ a.errno = {} /\ a.named = {}
    BY <1>3 DEF Throw!ArgumentsError, Throw!Message
  <2> QED
    BY <2>1, ShortTypes DEF Throw!IsException, Throw!Names
<1> QED
  BY <1>1, <1>2, <1>3, <1>4, CreatedAsPassed

\* A call has thrown what its arguments make.
ThrowInv ==
    /\ called \in BOOLEAN
    /\ called => call \in Throw!Calls /\ thrown = Throw!MadeOf(call)
    /\ ~called => call = Throw!NoCall /\ thrown = {}

LEMMA ThrowInit == Throw!Init => ThrowInv
  BY DEF Throw!Init, ThrowInv

LEMMA ThrowStep == ThrowInv /\ Throw!Next => ThrowInv'
<1>1. ASSUME Throw!Catch PROVE ThrowInv'
  BY <1>1 DEF Throw!Catch, ThrowInv
<1>2. ASSUME Throw!ThrowCallback PROVE ThrowInv'
  <2>1. PICK c \in Throw!Calls : call' = c /\ thrown' = Throw!MadeOf(c) /\ called' = TRUE
    BY <1>2 DEF Throw!ThrowCallback
  <2>2. Throw!MadeOf(call)' = Throw!MadeOf(c)
    BY <2>1 DEF Throw!MadeOf, Throw!CodeOf, Throw!TextOf, Throw!ErrnoOf
  <2> QED
    BY <2>1, <2>2 DEF ThrowInv
<1> QED
  BY <1>1, <1>2 DEF Throw!Next

LEMMA ThrowTypes == ThrowInv => Throw!TypeOK
<1> SUFFICES ASSUME ThrowInv PROVE Throw!TypeOK
  OBVIOUS
<1>1. ASSUME NEW x \in thrown PROVE Throw!IsException(x)
  BY <1>1, MadeIsException DEF ThrowInv
<1>2. called \in BOOLEAN /\ call \in Throw!Calls \cup {Throw!NoCall}
  BY DEF ThrowInv
<1> QED
  BY <1>1, <1>2 DEF Throw!TypeOK

LEMMA ThrowShows == ThrowInv => Throw!ErrnoPreserved /\ Throw!KindsApart
<1> SUFFICES ASSUME ThrowInv PROVE Throw!ErrnoPreserved /\ Throw!KindsApart
  OBVIOUS
<1>1. ASSUME NEW code \in Int, NEW n \in 1 .. 5, Throw!Passed(code, n)
      PROVE  /\ call.errno \in Int /\ call.length \in n .. 5
             /\ thrown = Throw!CreateException(code, Throw!TextOf(call), Throw!ErrnoOf(call))
  <2>1. /\ called /\ call.code = code /\ call.length \in n .. 5 /\ call.bad \notin 1 .. call.length
        /\ call \in Throw!Calls /\ thrown = Throw!MadeOf(call)
    BY <1>1 DEF Throw!Passed, ThrowInv
  <2>2. ~(call.length > 5) /\ call.length # 0 /\ call.errno \in Int
    BY <2>1, CallType
  <2>3. Throw!CodeOf(call) = code
    BY <2>1, <2>2 DEF Throw!CodeOf
  <2>4. thrown = Throw!CreateException(code, Throw!TextOf(call), Throw!ErrnoOf(call))
    BY <2>1, <2>2, <2>3 DEF Throw!MadeOf
  <2> QED
    BY <2>1, <2>2, <2>4
<1>2. ASSUME NEW e \in Int, NEW text
      PROVE  /\ LET X == Throw!CreateException(Throw!ZarunErrnoError, text, e)
                IN  X # {} /\ \A x \in X : /\ x.type = "ErrnoError" /\ x.errno = {e}
                                           /\ e \in Small => x.code = e
             /\ e \in Small => \A x \in Throw!CreateException(Throw!ZarunError, text, e) : x.type # "ErrnoError"
  BY CreatedAsPassed, KindTypes
<1>3. Throw!ErrnoPreserved
  <2> SUFFICES ASSUME Throw!Passed(Throw!ZarunErrnoError, 3), call.errno \in Small
               PROVE  /\ thrown # {}
                      /\ \A x \in thrown : x.type = "ErrnoError" /\ x.code = call.errno /\ x.errno = {x.code}
    BY DEF Throw!ErrnoPreserved, Small
  <2>1. /\ call.errno \in Int /\ call.length \in 3 .. 5
        /\ thrown = Throw!CreateException(Throw!ZarunErrnoError, Throw!TextOf(call), Throw!ErrnoOf(call))
    BY <1>1, KindTypes
  <2>2. Throw!ErrnoOf(call) = call.errno
    BY <2>1 DEF Throw!ErrnoOf
  <2> QED
    BY <1>2, <2>1, <2>2, SmallIsInt
<1>4. Throw!KindsApart
  <2>1. ASSUME Throw!Passed(Throw!ZarunErrnoError, 1)
        PROVE  thrown # {} /\ \A x \in thrown : x.type = "ErrnoError"
    <3>1. Throw!ErrnoOf(call) \in Int
      BY <1>1, <2>1, KindTypes DEF Throw!ErrnoOf
    <3>2. thrown = Throw!CreateException(Throw!ZarunErrnoError, Throw!TextOf(call), Throw!ErrnoOf(call))
      BY <1>1, <2>1, KindTypes
    <3> QED
      BY <1>2, <3>1, <3>2
  <2>2. ASSUME Throw!Passed(Throw!ZarunError, 1), call.errno \in Small
        PROVE  \A x \in thrown : x.type # "ErrnoError"
    <3>1. Throw!ErrnoOf(call) \in Small /\ Throw!ErrnoOf(call) \in Int
      BY <2>2, SmallIsInt DEF Throw!ErrnoOf
    <3>2. thrown = Throw!CreateException(Throw!ZarunError, Throw!TextOf(call), Throw!ErrnoOf(call))
      BY <1>1, <2>2, KindTypes
    <3> QED
      BY <1>2, <3>1, <3>2
  <2> QED
    BY <2>1, <2>2 DEF Throw!KindsApart, Small
<1> QED
  BY <1>3, <1>4

-------------------------------------------------------------------------------
(***************************************************************************)
(* os.environ.                                                             *)
(***************************************************************************)
\* The environment has what was last done to each variable, if it can be stored.
EnvInv ==
    /\ Env!TypeOK
    /\ \A x \in Env!Variables :
          /\ x \in Settable /\ done[x] \in EnvValues => env[x] = Stored[done[x]]
          /\ done[x] = Absent => env[x] = Absent

LEMMA EnvInit == Env!Init => EnvInv
  BY ComponentAssumptions DEF Env!Init, Env!TypeOK, Env!NamesAssumption, EnvInv

LEMMA EnvStep ==
    ASSUME EnvInv, Env!Next
    PROVE  EnvInv'
<1> USE ComponentAssumptions DEF Env!NamesAssumption
<1>1. ASSUME NEW n \in EnvNames, Env!EnvDeleter(n)
      PROVE  EnvInv'
  <2>1. PICK x \in Env!Variables : x = Variable[n]
    OBVIOUS
  <2>2. /\ env' = [env EXCEPT ![x] = Absent] /\ done' = [done EXCEPT ![x] = Absent]
        /\ UNCHANGED crashed
    BY <1>1, <2>1 DEF Env!EnvDeleter
  <2> QED
    BY <2>1, <2>2 DEF EnvInv, Env!TypeOK
<1>2. ASSUME NEW n \in EnvNames, NEW v \in EnvValues, Env!EnvSetter(n, v)
      PROVE  EnvInv'
  <2>1. PICK x \in Env!Variables : x = Variable[n]
    OBVIOUS
  <2>2. PICK t \in Env!Texts : t = Stored[v]
    BY DEF Env!Texts
  <2>3. /\ env' = (IF x \in Settable THEN [env EXCEPT ![x] = t] ELSE env)
        /\ done' = [done EXCEPT ![x] = v]
        /\ crashed' \in BOOLEAN
    BY <1>2, <2>1, <2>2 DEF EnvInv, Env!TypeOK, Env!EnvSetter
  <2>4. /\ done' \in [Env!Variables -> EnvValues \cup {Absent, Untouched}]
        /\ done'[x] = v /\ v # Absent
        /\ \A y \in Env!Variables : y # x => done'[y] = done[y]
    BY <2>3 DEF EnvInv, Env!TypeOK
  <2>5. /\ env' \in [Env!Variables -> Env!Texts \cup {Absent}]
        /\ x \in Settable => env'[x] = t
        /\ \A y \in Env!Variables : y # x \/ x \notin Settable => env'[y] = env[y]
    BY <2>3 DEF EnvInv, Env!TypeOK
  <2> QED
    BY <2>2, <2>3, <2>4, <2>5 DEF EnvInv, Env!TypeOK
<1>3. CASE UNCHANGED <<env, done>> /\ crashed' \in BOOLEAN
  BY <1>3 DEF EnvInv, Env!TypeOK
<1> QED
  BY <1>1, <1>2, <1>3 DEF Env!Next, Env!EnvSetterCrashes, Env!vars, EnvInv, Env!TypeOK

\* What is stored is text, and no text is the answer for an absent variable.
LEMMA EnvShows == EnvInv => Env!ReadsItsWrites /\ Env!DeletedIsGone /\ Env!EnumerationAgrees
<1> USE ComponentAssumptions
        DEF Env!NamesAssumption, EnvInv, Env!TypeOK, Env!GetVar, Env!HasVar, Env!EnvGetter,
            Env!EnvQuery, Env!EnvEnumerator, Env!GetAll
<1> SUFFICES ASSUME EnvInv
             PROVE  Env!ReadsItsWrites /\ Env!DeletedIsGone /\ Env!EnumerationAgrees
  OBVIOUS
<1>1. Env!ReadsItsWrites
  <2>1. \A v \in EnvValues : Stored[v] # Absent
    OBVIOUS
  <2> QED
    BY <2>1 DEF Env!ReadsItsWrites
<1>2. Env!DeletedIsGone
  BY DEF Env!DeletedIsGone
<1>3. Env!EnumerationAgrees
  <2>1. \A x \in Env!Variables : x \in EnvNames /\ Variable[x] = x
    BY DEF Env!Variables
  <2> QED
    BY <2>1 DEF Env!EnumerationAgrees
<1> QED
  BY <1>1, <1>2, <1>3

-------------------------------------------------------------------------------
(***************************************************************************)
(* $JSON.stringify.                                                        *)
(***************************************************************************)
BuiltinsInv == Builtins!TypeOK /\ Builtins!ToJSONInv

Values == Functions \cup {Undefined}

Kind(k, v) == [kind |-> k, value |-> v]

LEMMA TypesInOrder ==
    /\ Len(Types) \in Nat \ {0} /\ DOMAIN Types = 1 .. Len(Types) /\ 1 \in DOMAIN Types
    /\ Builtins!Object = Types[1]
    /\ \A i \in DOMAIN Types : Types[i] \in Builtins!TypeSet
    /\ \A i, j \in DOMAIN Types : Types[i] = Types[j] => i = j
    /\ \A t \in Builtins!TypeSet : \E i \in DOMAIN Types : t = Types[i]
<1>1. /\ Types \in Seq(STRING) /\ Len(Types) > 0
      /\ \A i, j \in DOMAIN Types : Types[i] = Types[j] => i = j
  BY ComponentAssumptions DEF Builtins!TypesAssumption, Builtins!IsInjective
<1>2. Len(Types) \in Nat \ {0} /\ DOMAIN Types = 1 .. Len(Types)
  BY <1>1
<1>3. 1 \in DOMAIN Types
  BY <1>2
<1> QED
  BY <1>1, <1>2, <1>3 DEF Builtins!TypeSet, Builtins!Object

LEMMA PropertyType ==
    ASSUME NEW p \in Builtins!Properties
    PROVE  /\ p.kind \in {"none", "throws", "data", "fixed"} /\ p.value \in Values
           /\ p.kind \in {"none", "throws"} => p.value = Undefined
           /\ p.kind = "data" => p = Kind("data", p.value)
  BY DEF Builtins!Properties, Values, Kind

LEMMA DataProperty ==
    ASSUME NEW v \in Values
    PROVE  /\ Kind("data", v) \in Builtins!Properties
           /\ Kind("data", v).kind = "data" /\ Kind("data", v).value = v
  BY DEF Builtins!Properties, Values, Kind

\* What a type of its own or Object gives, and what an assignment changes.
LEMMA FoundAndAssigned ==
    ASSUME NEW t \in Builtins!TypeSet, NEW v \in Values, proto \in [Builtins!TypeSet -> Builtins!Properties]
    PROVE  /\ Builtins!Found(t) \in Builtins!Properties
           /\ proto[t].kind # "none" => Builtins!Found(t) = proto[t]
           /\ proto[t].kind = "none" => Builtins!Found(t) = proto[Builtins!Object]
           /\ Builtins!Assigned(t, v) \in [Builtins!TypeSet -> Builtins!Properties]
           /\ \A u \in Builtins!TypeSet : u # t => Builtins!Assigned(t, v)[u] = proto[u]
           /\ Builtins!Found(t).kind \in {"fixed", "throws"} => Builtins!Assigned(t, v)[t] = proto[t]
           /\ Builtins!Found(t).kind \notin {"fixed", "throws"} =>
                 Builtins!Assigned(t, v)[t] = Kind("data", v)
<1>1. Builtins!Object \in Builtins!TypeSet
  BY TypesInOrder
<1>2. PICK d \in Builtins!Properties : d = Kind("data", v)
  BY DataProperty
<1>3. Builtins!Assigned(t, v) =
        IF Builtins!Found(t).kind \in {"fixed", "throws"} THEN proto ELSE [proto EXCEPT ![t] = d]
  BY <1>2 DEF Builtins!Assigned, Kind
<1>4. Builtins!Assigned(t, v) \in [Builtins!TypeSet -> Builtins!Properties]
  BY <1>3
<1> QED
  BY <1>1, <1>2, <1>3, <1>4 DEF Builtins!Found

LEMMA SavedType ==
    ASSUME NEW s \in Builtins!SavedValues, NEW i \in DOMAIN Types, NEW v \in Values
    PROVE  /\ Builtins!Save(s, i, v) \in Builtins!SavedValues
           /\ DOMAIN Builtins!Save(s, i, v) = DOMAIN s \cup {i}
           /\ Builtins!Save(s, i, v)[i] = v
           /\ \A k \in DOMAIN s : k # i => Builtins!Save(s, i, v)[k] = s[k]
           /\ \A k \in DOMAIN s : s[k] \in Values
<1>1. PICK D \in SUBSET DOMAIN Types : s \in [D -> Values]
  BY DEF Builtins!SavedValues, Values
<1>2. DOMAIN s = D
  BY <1>1
<1>3. PICK r : r = [k \in D \cup {i} |-> IF k = i THEN v ELSE s[k]]
  OBVIOUS
<1>4. r \in [D \cup {i} -> Values]
  BY <1>1, <1>3
<1>5. r = Builtins!Save(s, i, v)
  BY <1>2, <1>3 DEF Builtins!Save
<1>6. D \cup {i} \in SUBSET DOMAIN Types
  OBVIOUS
<1>7. r \in Builtins!SavedValues
  BY <1>4, <1>6 DEF Builtins!SavedValues, Values
<1> QED
  BY <1>1, <1>2, <1>3, <1>5, <1>7

LEMMA FrameType ==
    ASSUME NEW f \in Builtins!Frames
    PROVE  /\ f.phase \in {"clear", "run", "restore"} /\ f.i \in 1 .. Len(Types) + 1
           /\ f.saved \in Builtins!SavedValues
  BY DEF Builtins!Frames

LEMMA TheTop ==
    ASSUME Builtins!TypeOK, stack # <<>>
    PROVE  /\ stack \in Seq(Builtins!Frames) /\ DOMAIN stack = 1 .. Len(stack)
           /\ Len(stack) \in Nat \ {0} /\ 1 \in DOMAIN stack /\ Len(stack) \in DOMAIN stack
           /\ Builtins!Top = stack[Len(stack)] /\ Builtins!Top \in Builtins!Frames
           /\ \A k \in DOMAIN stack : stack[k] \in Builtins!Frames
<1>1. stack \in Seq(Builtins!Frames)
  BY DEF Builtins!TypeOK
<1>2. Len(stack) \in Nat \ {0} /\ DOMAIN stack = 1 .. Len(stack)
  BY <1>1
<1> QED
  BY <1>1, <1>2 DEF Builtins!Top, Builtins!Last

LEMMA TopReplaced ==
    ASSUME Builtins!TypeOK, stack # <<>>, NEW phase \in {"clear", "run", "restore"},
           NEW i \in 1 .. Len(Types) + 1, NEW saved \in Builtins!SavedValues,
           NEW s, s = Builtins!With(phase, i, saved)
    PROVE  /\ s \in Seq(Builtins!Frames) /\ s # <<>> /\ Len(s) = Len(stack) /\ DOMAIN s = DOMAIN stack
           /\ s[Len(stack)].phase = phase /\ s[Len(stack)].i = i /\ s[Len(stack)].saved = saved
           /\ \A k \in DOMAIN stack : k # Len(stack) => s[k] = stack[k]
<1>1. PICK f : f = [phase |-> phase, i |-> i, saved |-> saved]
  OBVIOUS
<1>2. f \in Builtins!Frames
  BY <1>1 DEF Builtins!Frames
<1>3. s = [stack EXCEPT ![Len(stack)] = f]
  BY <1>1 DEF Builtins!With
<1>4. stack \in Seq(Builtins!Frames)
  BY TheTop
<1>5. /\ s \in Seq(Builtins!Frames) /\ s # <<>> /\ Len(s) = Len(stack) /\ DOMAIN s = DOMAIN stack
      /\ s[Len(stack)] = f
      /\ \A k \in DOMAIN stack : k # Len(stack) => s[k] = stack[k]
  BY <1>2, <1>3, <1>4, TopUpdated
<1> QED
  BY <1>1, <1>5

\* A step of the call on top keeps the invariant if it does so for each type
\* that scripts leave alone.
LEMMA TopStep ==
    ASSUME BuiltinsInv, stack # <<>>, NEW phase \in {"clear", "run", "restore"},
           NEW i \in 1 .. Len(Types) + 1, NEW saved \in Builtins!SavedValues,
           stack' = Builtins!With(phase, i, saved),
           proto' \in [Builtins!TypeSet -> Builtins!Properties],
           UNCHANGED <<left, disturbed, writes>>, NEW n, n = Len(stack),
           \A j \in DOMAIN Types : ~Builtins!Disturbed(Types[j]) =>
              Builtins!OuterTakesAway(j)' /\ Builtins!SavedRight(n, j)'
    PROVE  BuiltinsInv'
<1>1. /\ stack' \in Seq(Builtins!Frames) /\ stack' # <<>> /\ Len(stack') = Len(stack)
      /\ DOMAIN stack' = DOMAIN stack
      /\ \A k \in DOMAIN stack : k # Len(stack) => stack'[k] = stack[k]
  BY TopReplaced DEF BuiltinsInv
<1>2. Builtins!TypeOK'
  BY <1>1 DEF BuiltinsInv, Builtins!TypeOK
<1>3. \A k \in DOMAIN stack' : k < Len(stack') => stack'[k].phase = "run"
  BY <1>1, TheTop DEF BuiltinsInv, Builtins!ToJSONInv
<1>4. ASSUME NEW j \in DOMAIN Types, ~Builtins!Disturbed(Types[j])', NEW k \in DOMAIN stack'
      PROVE  Builtins!OuterTakesAway(j)' /\ Builtins!SavedRight(k, j)'
  <2>1. ~Builtins!Disturbed(Types[j])
    BY <1>4 DEF Builtins!Disturbed
  <2>2. CASE k = n
    BY <2>1, <2>2
  <2>3. CASE k # n
    <3>1. stack'[k] = stack[k] /\ left' = left /\ k \in DOMAIN stack
      BY <1>1, <1>4, <2>3
    <3>2. Builtins!SavedRight(k, j)
      BY <2>1, <3>1 DEF BuiltinsInv, Builtins!ToJSONInv
    <3>3. k = 1 => stack'[1] = stack[1]
      BY <3>1
    <3> QED
      BY <2>1, <3>1, <3>2, <3>3 DEF Builtins!SavedRight, Builtins!Past
  <2> QED
    BY <2>2, <2>3
<1> QED
  BY <1>1, <1>2, <1>3, <1>4 DEF BuiltinsInv, Builtins!ToJSONInv

\* What the invariant says of a type that scripts leave alone, and of Object,
\* which they then leave alone too.
LEMMA LeftAlone ==
    ASSUME BuiltinsInv, stack # <<>>, NEW j \in DOMAIN Types, ~Builtins!Disturbed(Types[j])
    PROVE  /\ Builtins!OuterTakesAway(j) /\ Builtins!OuterTakesAway(1)
           /\ \A k \in DOMAIN stack : Builtins!SavedRight(k, j)
           /\ Types[j] \in Builtins!TypeSet /\ Builtins!Object = Types[1]
           /\ left[Types[j]] \in Builtins!Properties /\ left[Types[1]] \in Builtins!Properties
<1>1. ~Builtins!Disturbed(Types[1])
  BY TypesInOrder DEF Builtins!Disturbed
<1> QED
  BY <1>1, TypesInOrder DEF BuiltinsInv, Builtins!ToJSONInv, Builtins!TypeOK

LEMMA ClearedType ==
    ASSUME NEW p \in Builtins!Properties
    PROVE  /\ Builtins!Cleared(p) \in Builtins!Properties
           /\ Builtins!Cleared(p).kind = p.kind
           /\ p.kind # "data" => Builtins!Cleared(p) = p
           /\ p.kind \in {"none", "data"} => Builtins!Cleared(p).value = Undefined
           /\ p.kind = "data" => Builtins!Cleared(p) = Kind("data", Undefined)
           /\ p.kind = "data" /\ p.value = Undefined => Builtins!Cleared(p) = p
<1>1. PICK d \in Builtins!Properties : d = Kind("data", Undefined) /\ d.kind = "data" /\ d.value = Undefined
  BY DataProperty DEF Values
<1>2. Builtins!Cleared(p) = IF p.kind = "data" THEN d ELSE p
  BY <1>1 DEF Builtins!Cleared, Kind
<1> QED
  BY <1>1, <1>2, PropertyType

\* What a lookup finds for a type that scripts leave alone, when Object is
\* taken away already and the type perhaps not yet.
LEMMA FoundLeftAlone ==
    ASSUME BuiltinsInv, NEW j \in DOMAIN Types, ~Builtins!Disturbed(Types[j]),
           NEW p, p = left[Types[j]], NEW o, o = left[Types[1]],
           p \in Builtins!Properties, o \in Builtins!Properties,
           proto[Types[j]] \in {p, Builtins!Cleared(p)},
           proto[Types[1]] \in {o, Builtins!Cleared(o)},
           j # 1 => proto[Types[1]] = Builtins!Cleared(o)
    PROVE  /\ p.kind # "none" => Builtins!Found(Types[j]) = proto[Types[j]]
           /\ p.kind = "none" /\ Builtins!Readable(Types[j]) /\ Builtins!Found(Types[j]).value # Undefined
              => o.kind = "fixed"
           /\ p.kind = "none" /\ o.kind = "fixed" => Builtins!Found(Types[j]).kind = "fixed"
<1>1. proto \in [Builtins!TypeSet -> Builtins!Properties] /\ Types[j] \in Builtins!TypeSet
      /\ Builtins!Object = Types[1]
  BY TypesInOrder DEF BuiltinsInv, Builtins!TypeOK
<1>2. proto[Types[j]].kind = p.kind
  BY ClearedType
<1>3. /\ p.kind # "none" => Builtins!Found(Types[j]) = proto[Types[j]]
      /\ p.kind = "none" => Builtins!Found(Types[j]) = proto[Types[1]]
  BY <1>1, <1>2 DEF Builtins!Found
<1>4. proto[Types[1]].kind = o.kind
  BY ClearedType
<1>5. CASE j = 1
  <2>1. p.kind = "none" => p.value = Undefined /\ proto[Types[j]] = p
    BY PropertyType, ClearedType
  <2> QED
    BY <1>3, <1>4, <1>5, <2>1
<1>6. CASE j # 1
  <2>1. o.kind \in {"none", "data"} => proto[Types[1]].value = Undefined
    BY <1>6, ClearedType
  <2>2. o.kind \in {"none", "data", "fixed", "throws"}
    BY PropertyType
  <2> QED
    BY <1>3, <1>4, <2>1, <2>2 DEF Builtins!Readable
<1> QED
  BY <1>5, <1>6

\* While a type is not yet, or no longer, taken away, and in the calls inside.
LEMMA WhereItStands ==
    ASSUME BuiltinsInv, stack # <<>>, NEW j \in DOMAIN Types, ~Builtins!Disturbed(Types[j]),
           NEW p, p = left[Types[j]], NEW o, o = left[Types[1]]
    PROVE  /\ p \in Builtins!Properties /\ o \in Builtins!Properties
           /\ proto[Types[j]] \in {p, Builtins!Cleared(p)}
           /\ proto[Types[1]] \in {o, Builtins!Cleared(o)}
           /\ Len(stack) # 1 => proto[Types[j]] = Builtins!Cleared(p) /\ proto[Types[1]] = Builtins!Cleared(o)
           /\ Builtins!TakenAway(stack[1], j) => proto[Types[j]] = Builtins!Cleared(p)
           /\ ~Builtins!TakenAway(stack[1], j) => proto[Types[j]] = p
           /\ Builtins!TakenAway(stack[1], 1) => proto[Types[1]] = Builtins!Cleared(o)
<1>1. /\ proto[Types[j]] = IF Builtins!TakenAway(stack[1], j) THEN Builtins!Cleared(p) ELSE p
      /\ proto[Types[1]] = IF Builtins!TakenAway(stack[1], 1) THEN Builtins!Cleared(o) ELSE o
      /\ p \in Builtins!Properties /\ o \in Builtins!Properties
  BY LeftAlone DEF Builtins!OuterTakesAway
<1>2. Len(stack) # 1 => Builtins!TakenAway(stack[1], j) /\ Builtins!TakenAway(stack[1], 1)
  <2>1. Len(stack) # 1 => stack[1].phase = "run"
    BY TheTop DEF BuiltinsInv, Builtins!ToJSONInv
  <2> QED
    BY <2>1 DEF Builtins!TakenAway, Builtins!Past
<1> QED
  BY <1>1, <1>2

LEMMA ClearStep == BuiltinsInv /\ Builtins!ClearOne => BuiltinsInv'
<1> SUFFICES ASSUME BuiltinsInv, Builtins!ClearOne PROVE BuiltinsInv'
  OBVIOUS
<1>1. PICK f, m, n, t : f = Builtins!Top /\ m = f.i /\ n = Len(stack) /\ t = Types[m]
  OBVIOUS
<1>2. /\ stack # <<>> /\ f.phase = "clear" /\ m \in DOMAIN Types /\ m + 1 \in 1 .. Len(Types) + 1
      /\ f = stack[n] /\ n \in DOMAIN stack /\ n \in Nat \ {0} /\ f.saved \in Builtins!SavedValues
      /\ t \in Builtins!TypeSet
  <2>1. stack # <<>> /\ f.phase = "clear" /\ m <= Len(Types)
    BY <1>1 DEF Builtins!ClearOne, Builtins!In
  <2>2. f = stack[n] /\ f \in Builtins!Frames /\ n \in DOMAIN stack /\ n \in Nat \ {0}
    BY <1>1, <2>1, TheTop DEF BuiltinsInv
  <2>3. m \in 1 .. Len(Types) + 1 /\ f.saved \in Builtins!SavedValues
    BY <1>1, <2>2, FrameType
  <2>4. m \in DOMAIN Types /\ m + 1 \in 1 .. Len(Types) + 1
    BY <2>1, <2>3, TypesInOrder
  <2> QED
    BY <1>1, <2>1, <2>2, <2>3, <2>4, TypesInOrder
<1>3. PICK saved \in Builtins!SavedValues :
        /\ stack' = Builtins!With("clear", m + 1, saved)
        /\ DOMAIN saved \subseteq DOMAIN f.saved \cup {m}
        /\ \A k \in DOMAIN f.saved : k \in DOMAIN saved /\ (k # m => saved[k] = f.saved[k])
        /\ proto' \in [Builtins!TypeSet -> Builtins!Properties]
        /\ \A u \in Builtins!TypeSet : u # t => proto'[u] = proto[u]
        /\ \/ /\ Builtins!Readable(t) /\ Builtins!Found(t).value # Undefined
              /\ m \in DOMAIN saved /\ saved[m] = Builtins!Found(t).value
              /\ proto' = Builtins!Assigned(t, Undefined)
           \/ /\ ~Builtins!Readable(t) \/ Builtins!Found(t).value = Undefined
              /\ saved = f.saved /\ proto' = proto
  <2>1. Undefined \in Values /\ proto \in [Builtins!TypeSet -> Builtins!Properties]
    BY DEF Values, BuiltinsInv, Builtins!TypeOK
  <2>2. CASE /\ Builtins!Readable(t) /\ Builtins!Found(t).value # Undefined
             /\ stack' = Builtins!Saved(m, Builtins!Found(t).value)
             /\ proto' = Builtins!Assigned(t, Undefined)
    <3>1. Builtins!Found(t).value \in Values
      BY <1>2, <2>1, FoundAndAssigned, PropertyType
    <3>2. PICK v \in Values, g \in Builtins!SavedValues : v = Builtins!Found(t).value /\ g = f.saved
      BY <1>2, <3>1
    <3>3. PICK saved : saved = Builtins!Save(g, m, v)
      OBVIOUS
    <3>4. /\ saved \in Builtins!SavedValues /\ DOMAIN saved = DOMAIN g \cup {m}
          /\ saved[m] = v
          /\ \A k \in DOMAIN g : k # m => saved[k] = g[k]
      <4>1. m \in DOMAIN Types
        BY <1>2
      <4> QED
        BY <3>3, <4>1, SavedType
    <3>5. stack' = Builtins!With("clear", m + 1, saved)
      BY <1>1, <2>2, <3>2, <3>3 DEF Builtins!Saved
    <3>6. /\ proto' \in [Builtins!TypeSet -> Builtins!Properties]
          /\ \A u \in Builtins!TypeSet : u # t => proto'[u] = proto[u]
      BY <1>2, <2>1, <2>2, FoundAndAssigned
    <3> QED
      BY <2>2, <3>2, <3>4, <3>5, <3>6
  <2>3. CASE /\ ~Builtins!Readable(t) \/ Builtins!Found(t).value = Undefined
             /\ stack' = Builtins!NextType /\ proto' = proto
    <3>1. stack' = Builtins!With("clear", m + 1, f.saved)
      BY <1>1, <1>2, <2>3 DEF Builtins!NextType
    <3> QED
      BY <1>2, <2>1, <2>3, <3>1
  <2> QED
    BY <1>1, <2>2, <2>3 DEF Builtins!ClearOne
<1>4. UNCHANGED <<left, disturbed, writes>>
  BY DEF Builtins!ClearOne
<1>5. /\ Len(stack') = n /\ stack'[n].phase = "clear" /\ stack'[n].i = m + 1 /\ stack'[n].saved = saved
      /\ n # 1 => stack'[1] = stack[1] /\ stack[1].phase = "run"
  <2>1. n # 1 => 1 \in DOMAIN stack /\ 1 < n
    BY <1>1, <1>2, TheTop DEF BuiltinsInv
  <2>2. Builtins!TypeOK /\ \A k \in DOMAIN stack : k < Len(stack) => stack[k].phase = "run"
    BY DEF BuiltinsInv, Builtins!ToJSONInv
  <2>3. /\ Len(stack') = n /\ stack'[n].phase = "clear" /\ stack'[n].i = m + 1 /\ stack'[n].saved = saved
        /\ \A k \in DOMAIN stack : k # n => stack'[k] = stack[k]
    <3>1. PICK q \in 1 .. Len(Types) + 1 : q = m + 1
      BY <1>2
    <3>2. /\ Len(stack') = Len(stack)
          /\ stack'[Len(stack)].phase = "clear" /\ stack'[Len(stack)].i = q
          /\ stack'[Len(stack)].saved = saved
          /\ \A k \in DOMAIN stack : k # Len(stack) => stack'[k] = stack[k]
      <4>1. stack # <<>> /\ stack' = Builtins!With("clear", q, saved)
        BY <1>2, <1>3, <3>1
      <4> QED
        BY <2>2, <4>1, TopReplaced
    <3> QED
      BY <1>1, <3>1, <3>2
  <2> QED
    BY <1>1, <2>1, <2>2, <2>3
<1>6. ASSUME NEW j \in DOMAIN Types, ~Builtins!Disturbed(Types[j])
      PROVE  Builtins!OuterTakesAway(j)' /\ Builtins!SavedRight(n, j)'
  <2>1. PICK p, o : p = left[Types[j]] /\ o = left[Types[1]]
    OBVIOUS
  <2>2. /\ p \in Builtins!Properties /\ o \in Builtins!Properties
        /\ proto[Types[j]] \in {p, Builtins!Cleared(p)} /\ proto[Types[1]] \in {o, Builtins!Cleared(o)}
        /\ n # 1 => proto[Types[j]] = Builtins!Cleared(p) /\ proto[Types[1]] = Builtins!Cleared(o)
        /\ Builtins!TakenAway(stack[1], j) => proto[Types[j]] = Builtins!Cleared(p)
        /\ ~Builtins!TakenAway(stack[1], j) => proto[Types[j]] = p
        /\ Builtins!TakenAway(stack[1], 1) => proto[Types[1]] = Builtins!Cleared(o)
    BY <1>1, <1>2, <1>6, <2>1, WhereItStands
  <2>3. Builtins!SavedRight(n, j) /\ left' = left
    BY <1>2, <1>4, <1>6, LeftAlone
  <2>4. j \in 1 .. Len(Types) /\ m \in 1 .. Len(Types)
    BY <1>2, TypesInOrder
  <2>5. CASE j # m
    <3>1. proto'[Types[j]] = proto[Types[j]]
      BY <1>1, <1>2, <1>3, <2>5, TypesInOrder
    <3>2. Builtins!TakenAway(stack'[1], j) <=> Builtins!TakenAway(stack[1], j)
      BY <1>1, <1>2, <1>5, <2>4, <2>5 DEF Builtins!TakenAway, Builtins!Past
    <3>3. Builtins!OuterTakesAway(j)'
      BY <2>1, <2>2, <2>3, <3>1, <3>2 DEF Builtins!OuterTakesAway
    <3>4. Builtins!Past(stack'[1], j) => n # 1 \/ Builtins!Past(stack[1], j)
      BY <1>1, <1>2, <1>5, <2>4, <2>5 DEF Builtins!Past
    <3>5. /\ j \in DOMAIN saved <=> j \in DOMAIN f.saved
          /\ j \in DOMAIN saved => saved[j] = f.saved[j]
      BY <1>3, <2>5
    <3>6. Builtins!SavedRight(n, j)'
      BY <1>2, <1>5, <2>3, <3>4, <3>5 DEF Builtins!SavedRight
    <3> QED
      BY <3>3, <3>6
  <2>6. CASE j = m
    <3>1. n = 1 => /\ ~Builtins!TakenAway(stack[1], j)
                   /\ j # 1 => Builtins!TakenAway(stack[1], 1)
      <4>1. n = 1 => stack[1].phase = "clear" /\ stack[1].i = m
        BY <1>1, <1>2
      <4>2. ~(m > j) /\ (j # 1 => m > 1)
        BY <2>4, <2>6
      <4> QED
        BY <4>1, <4>2 DEF Builtins!TakenAway, Builtins!Past
    <3>2. /\ n = 1 => proto[Types[j]] = p
          /\ n # 1 => proto[Types[j]] = Builtins!Cleared(p)
          /\ j # 1 => proto[Types[1]] = Builtins!Cleared(o)
      BY <2>2, <3>1
    <3>3. Builtins!TakenAway(stack'[1], j)
      BY <1>2, <1>5, <2>4, <2>6 DEF Builtins!TakenAway, Builtins!Past
    <3>4. /\ p.kind # "none" => Builtins!Found(t) = proto[t]
          /\ p.kind = "none" /\ Builtins!Readable(t) /\ Builtins!Found(t).value # Undefined
             => o.kind = "fixed"
          /\ p.kind = "none" /\ o.kind = "fixed" => Builtins!Found(t).kind = "fixed"
      BY <1>1, <1>6, <2>1, <2>2, <2>6, <3>2, FoundLeftAlone
    <3>5. CASE p.kind = "data"
      <4>1. Builtins!Cleared(p) = Kind("data", Undefined) /\ Builtins!Cleared(p).kind = "data"
            /\ Builtins!Cleared(p).value = Undefined
        BY <2>2, <3>5, ClearedType
      <4>2. Builtins!Found(t) = proto[t] /\ proto[t].kind = "data"
        BY <1>1, <2>2, <2>6, <3>4, <3>5, <4>1
      <4>3. proto'[t] = Builtins!Cleared(p)
        <5>1. CASE proto' = Builtins!Assigned(t, Undefined)
          BY <1>2, <4>1, <4>2, <5>1, FoundAndAssigned DEF BuiltinsInv, Builtins!TypeOK, Values
        <5>2. CASE proto' = proto /\ (~Builtins!Readable(t) \/ Builtins!Found(t).value = Undefined)
          <6>1. proto[t].value = Undefined
            BY <4>2, <5>2 DEF Builtins!Readable
          <6>2. proto[t] = Builtins!Cleared(p)
            BY <1>1, <2>2, <2>6, <3>5, <6>1, ClearedType
          <6> QED
            BY <5>2, <6>2
        <5> QED
          BY <1>3, <5>1, <5>2
      <4>4. p.value # Undefined /\ n = 1 => j \in DOMAIN saved
        BY <1>1, <1>3, <2>6, <3>2, <4>2 DEF Builtins!Readable
      <4>5. j \in DOMAIN saved => n = 1 /\ saved[j] = p.value
        <5>1. CASE Builtins!Found(t).value # Undefined /\ saved[m] = Builtins!Found(t).value
          BY <1>1, <2>6, <3>2, <4>1, <4>2, <5>1
        <5>2. CASE saved = f.saved
          BY <1>2, <2>1, <2>3, <3>5, <5>2 DEF Builtins!SavedRight
        <5> QED
          BY <1>3, <5>1, <5>2
      <4>6. Builtins!OuterTakesAway(j)'
        BY <1>1, <2>1, <2>3, <2>6, <3>3, <4>3 DEF Builtins!OuterTakesAway
      <4>7. Builtins!SavedRight(n, j)'
        BY <1>5, <2>1, <2>3, <3>5, <4>4, <4>5 DEF Builtins!SavedRight
      <4> QED
        BY <4>6, <4>7
    <3>6. CASE p.kind # "data"
      <4>1. Builtins!Cleared(p) = p /\ proto[t] = p
        BY <1>1, <2>2, <2>6, <3>6, ClearedType
      <4>2. proto'[t] = p
        <5>1. CASE /\ Builtins!Readable(t) /\ Builtins!Found(t).value # Undefined
                   /\ proto' = Builtins!Assigned(t, Undefined)
          <6>1. p.kind = "none" => Builtins!Found(t).kind = "fixed"
            BY <3>4, <5>1
          <6>2. Builtins!Found(t).kind \in {"fixed", "throws"}
            BY <2>2, <3>4, <3>6, <4>1, <6>1, PropertyType
          <6> QED
            BY <1>2, <4>1, <5>1, <6>2, FoundAndAssigned DEF BuiltinsInv, Builtins!TypeOK, Values
        <5> QED
          BY <1>3, <4>1, <5>1
      <4>3. p.kind = "none" /\ j \in DOMAIN saved => o.kind = "fixed"
        <5>1. CASE Builtins!Readable(t) /\ Builtins!Found(t).value # Undefined
          BY <3>4, <5>1
        <5>2. CASE saved = f.saved
          BY <1>2, <2>1, <2>3, <5>2, TypesInOrder DEF Builtins!SavedRight
        <5> QED
          BY <1>3, <5>1, <5>2
      <4>4. Builtins!OuterTakesAway(j)'
        BY <1>1, <2>1, <2>3, <2>6, <3>3, <4>1, <4>2 DEF Builtins!OuterTakesAway
      <4>5. Builtins!SavedRight(n, j)'
        BY <1>5, <2>1, <2>3, <3>6, <4>3, TypesInOrder DEF Builtins!SavedRight
      <4> QED
        BY <4>4, <4>5
    <3> QED
      BY <3>5, <3>6
  <2> QED
    BY <2>5, <2>6
<1> QED
  BY <1>1, <1>2, <1>3, <1>4, <1>6, TopStep

LEMMA RestoreStep == BuiltinsInv /\ Builtins!RestoreOne => BuiltinsInv'
<1> SUFFICES ASSUME BuiltinsInv, Builtins!RestoreOne PROVE BuiltinsInv'
  OBVIOUS
<1>1. PICK f, m, n, t : f = Builtins!Top /\ m = f.i /\ n = Len(stack) /\ t = Types[m]
  OBVIOUS
<1>2. /\ stack # <<>> /\ f.phase = "restore" /\ m \in DOMAIN Types /\ m + 1 \in 1 .. Len(Types) + 1
      /\ f = stack[n] /\ n \in DOMAIN stack /\ n \in Nat \ {0} /\ f.saved \in Builtins!SavedValues
      /\ t \in Builtins!TypeSet
  <2>1. stack # <<>> /\ f.phase = "restore" /\ m <= Len(Types)
    BY <1>1 DEF Builtins!RestoreOne, Builtins!In
  <2>2. f = stack[n] /\ f \in Builtins!Frames /\ n \in DOMAIN stack /\ n \in Nat \ {0}
    BY <1>1, <2>1, TheTop DEF BuiltinsInv
  <2>3. m \in 1 .. Len(Types) + 1 /\ f.saved \in Builtins!SavedValues
    BY <1>1, <2>2, FrameType
  <2>4. m \in DOMAIN Types /\ m + 1 \in 1 .. Len(Types) + 1
    BY <2>1, <2>3, TypesInOrder
  <2> QED
    BY <1>1, <2>1, <2>2, <2>3, <2>4, TypesInOrder
<1>3. /\ stack' = Builtins!With("restore", m + 1, f.saved)
      /\ proto' = IF m \in DOMAIN f.saved THEN Builtins!Assigned(t, f.saved[m]) ELSE proto
      /\ UNCHANGED <<left, disturbed, writes>>
  BY <1>1, <1>2 DEF Builtins!RestoreOne, Builtins!NextType
<1>4. /\ proto \in [Builtins!TypeSet -> Builtins!Properties]
      /\ proto' \in [Builtins!TypeSet -> Builtins!Properties]
      /\ \A u \in Builtins!TypeSet : u # t => proto'[u] = proto[u]
  <2>1. proto \in [Builtins!TypeSet -> Builtins!Properties]
    BY DEF BuiltinsInv, Builtins!TypeOK
  <2>2. ASSUME m \in DOMAIN f.saved
        PROVE  /\ proto' \in [Builtins!TypeSet -> Builtins!Properties]
               /\ \A u \in Builtins!TypeSet : u # t => proto'[u] = proto[u]
    <3>1. PICK v \in Values : v = f.saved[m]
      BY <1>2, <2>2, SavedType, TypesInOrder DEF Values
    <3>2. proto' = Builtins!Assigned(t, v)
      BY <1>3, <2>2, <3>1
    <3> QED
      BY <1>2, <2>1, <3>2, FoundAndAssigned
  <2> QED
    BY <1>3, <2>1, <2>2
<1>5. /\ Len(stack') = n /\ stack'[n].phase = "restore" /\ stack'[n].i = m + 1
      /\ stack'[n].saved = f.saved
      /\ n # 1 => stack'[1] = stack[1] /\ stack[1].phase = "run"
  <2>1. n # 1 => 1 \in DOMAIN stack /\ 1 < n
    BY <1>1, <1>2, TheTop DEF BuiltinsInv
  <2>2. Builtins!TypeOK /\ \A k \in DOMAIN stack : k < Len(stack) => stack[k].phase = "run"
    BY DEF BuiltinsInv, Builtins!ToJSONInv
  <2>3. /\ Len(stack') = n /\ stack'[n].phase = "restore" /\ stack'[n].i = m + 1
        /\ stack'[n].saved = f.saved
        /\ \A k \in DOMAIN stack : k # n => stack'[k] = stack[k]
    <3>1. PICK q \in 1 .. Len(Types) + 1, saved \in Builtins!SavedValues : q = m + 1 /\ saved = f.saved
      BY <1>2
    <3>2. /\ Len(stack') = Len(stack)
          /\ stack'[Len(stack)].phase = "restore" /\ stack'[Len(stack)].i = q
          /\ stack'[Len(stack)].saved = saved
          /\ \A k \in DOMAIN stack : k # Len(stack) => stack'[k] = stack[k]
      <4>1. stack # <<>> /\ stack' = Builtins!With("restore", q, saved)
        BY <1>2, <1>3, <3>1
      <4> QED
        BY <2>2, <4>1, TopReplaced
    <3> QED
      BY <1>1, <3>1, <3>2
  <2> QED
    BY <1>1, <2>1, <2>2, <2>3
<1>6. ASSUME NEW j \in DOMAIN Types, ~Builtins!Disturbed(Types[j])
      PROVE  Builtins!OuterTakesAway(j)' /\ Builtins!SavedRight(n, j)'
  <2>1. PICK p, o : p = left[Types[j]] /\ o = left[Types[1]]
    OBVIOUS
  <2>2. /\ p \in Builtins!Properties /\ o \in Builtins!Properties
        /\ proto[Types[j]] \in {p, Builtins!Cleared(p)} /\ proto[Types[1]] \in {o, Builtins!Cleared(o)}
        /\ n # 1 => proto[Types[j]] = Builtins!Cleared(p) /\ proto[Types[1]] = Builtins!Cleared(o)
        /\ Builtins!TakenAway(stack[1], j) => proto[Types[j]] = Builtins!Cleared(p)
        /\ ~Builtins!TakenAway(stack[1], j) => proto[Types[j]] = p
    BY <1>1, <1>2, <1>6, <2>1, WhereItStands
  <2>3. Builtins!SavedRight(n, j) /\ left' = left
    BY <1>2, <1>3, <1>6, LeftAlone
  <2>4. j \in 1 .. Len(Types) /\ m \in 1 .. Len(Types)
    BY <1>2, TypesInOrder
  <2>5. Builtins!SavedRight(n, j)'
    <3>1. Builtins!Past(stack'[1], j) => n # 1 \/ Builtins!Past(stack[1], j)
      BY <1>1, <1>2, <1>5 DEF Builtins!Past
    <3> QED
      BY <1>2, <1>5, <2>3, <3>1 DEF Builtins!SavedRight
  <2>6. CASE j # m
    <3>1. proto'[Types[j]] = proto[Types[j]]
      BY <1>1, <1>2, <1>4, <2>6, TypesInOrder
    <3>2. Builtins!TakenAway(stack'[1], j) <=> Builtins!TakenAway(stack[1], j)
      BY <1>1, <1>2, <1>5, <2>4, <2>6 DEF Builtins!TakenAway, Builtins!Past
    <3> QED
      BY <2>1, <2>2, <2>3, <2>5, <3>1, <3>2 DEF Builtins!OuterTakesAway
  <2>7. CASE j = m
    <3>1. /\ n = 1 => Builtins!TakenAway(stack[1], j) /\ ~Builtins!TakenAway(stack'[1], j)
          /\ n # 1 => Builtins!TakenAway(stack'[1], j)
      <4>1. n = 1 => /\ stack[1].phase = "restore" /\ stack[1].i = m
                     /\ stack'[1].phase = "restore" /\ stack'[1].i = m + 1
        BY <1>1, <1>2, <1>5
      <4>2. m <= j /\ ~(m + 1 <= j)
        BY <2>4, <2>7
      <4>3. n # 1 => stack'[1].phase = "run"
        BY <1>5
      <4> QED
        BY <4>1, <4>2, <4>3 DEF Builtins!TakenAway, Builtins!Past
    <3>2. proto[t] = Builtins!Cleared(p)
      BY <1>1, <2>2, <2>7, <3>1
    <3>3. proto'[t] = IF n = 1 THEN p ELSE Builtins!Cleared(p)
      <4>1. CASE p.kind = "data"
        <5>1. proto[t].kind = "data" /\ Builtins!Found(t) = proto[t]
          BY <1>2, <1>4, <2>2, <3>2, <4>1, ClearedType, FoundAndAssigned DEF Values
        <5>2. CASE m \in DOMAIN f.saved
          <6>1. n = 1 /\ f.saved[m] = p.value
            BY <1>2, <2>1, <2>3, <2>7, <4>1, <5>2 DEF Builtins!SavedRight
          <6>2. PICK v \in Values : v = p.value
            BY <2>2, PropertyType
          <6>3. proto' = Builtins!Assigned(t, v)
            BY <1>3, <5>2, <6>1, <6>2
          <6>4. proto'[t] = Kind("data", v)
            BY <1>2, <1>4, <5>1, <6>3, FoundAndAssigned
          <6>5. p = Kind("data", p.value)
            BY <2>2, <4>1, PropertyType
          <6> QED
            BY <6>1, <6>2, <6>4, <6>5
        <5>3. CASE m \notin DOMAIN f.saved
          <6>1. n = 1 => p.value = Undefined
            <7>1. n = 1 => Builtins!Past(stack[1], j)
              BY <3>1 DEF Builtins!TakenAway
            <7> QED
              BY <1>2, <2>1, <2>3, <2>7, <4>1, <5>3, <7>1 DEF Builtins!SavedRight
          <6>2. n = 1 => Builtins!Cleared(p) = p
            BY <2>2, <4>1, <6>1, ClearedType
          <6> QED
            BY <1>3, <3>2, <5>3, <6>2
        <5> QED
          BY <5>2, <5>3
      <4>2. CASE p.kind # "data"
        <5>1. Builtins!Cleared(p) = p
          BY <2>2, <4>2, ClearedType
        <5>2. CASE m \in DOMAIN f.saved
          <6>1. PICK v \in Values : v = f.saved[m]
            BY <1>2, <5>2, SavedType, TypesInOrder DEF Values
          <6>2. proto' = Builtins!Assigned(t, v)
            BY <1>3, <5>2, <6>1
          <6>3. Builtins!Found(t).kind \in {"fixed", "throws"}
            <7>1. CASE p.kind = "none"
              <8>1. o.kind = "fixed"
                BY <1>2, <2>1, <2>3, <2>7, <5>2, <7>1, TypesInOrder DEF Builtins!SavedRight
              <8>2. proto[Types[1]].kind = "fixed"
                BY <2>2, <8>1, ClearedType
              <8>3. Builtins!Found(t) = proto[Types[1]]
                BY <1>2, <1>4, <3>2, <5>1, <7>1, FoundAndAssigned, TypesInOrder DEF Values
              <8> QED
                BY <8>2, <8>3
            <7>2. CASE p.kind # "none"
              <8>1. p.kind \in {"fixed", "throws"}
                BY <2>2, <4>2, <7>2, PropertyType
              <8>2. Builtins!Found(t) = p
                BY <1>2, <1>4, <3>2, <5>1, <7>2, FoundAndAssigned DEF Values
              <8> QED
                BY <8>1, <8>2
            <7> QED
              BY <7>1, <7>2
          <6>4. proto'[t] = proto[t]
            BY <1>2, <1>4, <6>2, <6>3, FoundAndAssigned
          <6> QED
            BY <3>2, <5>1, <6>4
        <5>3. CASE m \notin DOMAIN f.saved
          BY <1>3, <3>2, <5>1, <5>3
        <5> QED
          BY <5>2, <5>3
      <4> QED
        BY <4>1, <4>2
    <3> QED
      BY <1>1, <2>1, <2>3, <2>5, <2>7, <3>1, <3>3 DEF Builtins!OuterTakesAway
  <2> QED
    BY <2>6, <2>7
<1> QED
  BY <1>1, <1>2, <1>3, <1>4, <1>6, TopStep

\* The call begins or ends the real stringify: nothing is taken or put back.
LEMMA PhaseStep == BuiltinsInv /\ (Builtins!CallBuiltin \/ Builtins!BuiltinEnds) => BuiltinsInv'
<1> SUFFICES ASSUME BuiltinsInv, Builtins!CallBuiltin \/ Builtins!BuiltinEnds PROVE BuiltinsInv'
  OBVIOUS
<1>1. PICK f, n : f = Builtins!Top /\ n = Len(stack)
  OBVIOUS
<1>2. /\ stack # <<>> /\ f = stack[n] /\ n \in DOMAIN stack /\ n \in Nat \ {0}
      /\ f.saved \in Builtins!SavedValues /\ f.i \in 1 .. Len(Types) + 1
  <2>1. stack # <<>>
    BY DEF Builtins!CallBuiltin, Builtins!BuiltinEnds, Builtins!In
  <2> QED
    BY <1>1, <2>1, TheTop, FrameType DEF BuiltinsInv
<1>3. /\ UNCHANGED <<proto, left, disturbed, writes>>
      /\ \/ f.phase = "clear" /\ f.i > Len(Types) /\ stack' = Builtins!With("run", f.i, f.saved)
         \/ f.phase = "run" /\ stack' = Builtins!With("restore", 1, f.saved)
  BY <1>1 DEF Builtins!CallBuiltin, Builtins!BuiltinEnds, Builtins!In
<1>4. PICK phase \in {"run", "restore"}, i \in 1 .. Len(Types) + 1, saved \in Builtins!SavedValues :
        /\ saved = f.saved /\ stack' = Builtins!With(phase, i, saved)
        /\ \/ f.phase = "clear" /\ f.i > Len(Types) /\ phase = "run"
           \/ f.phase = "run" /\ phase = "restore" /\ i = 1
  BY <1>2, <1>3, TypesInOrder
<1>5. /\ stack'[n].phase = phase /\ stack'[n].i = i /\ stack'[n].saved = saved
      /\ n # 1 => stack'[1] = stack[1]
  <2>1. /\ stack'[Len(stack)].phase = phase /\ stack'[Len(stack)].i = i
        /\ stack'[Len(stack)].saved = saved
        /\ \A k \in DOMAIN stack : k # Len(stack) => stack'[k] = stack[k]
    BY <1>2, <1>4, TopReplaced DEF BuiltinsInv
  <2> QED
    BY <1>1, <1>2, <2>1, TheTop DEF BuiltinsInv
<1>6. ASSUME NEW j \in DOMAIN Types, ~Builtins!Disturbed(Types[j])
      PROVE  Builtins!OuterTakesAway(j)' /\ Builtins!SavedRight(n, j)'
  <2>1. Builtins!OuterTakesAway(j) /\ Builtins!SavedRight(n, j) /\ left' = left /\ proto' = proto
    BY <1>2, <1>3, <1>6, LeftAlone
  <2>2. /\ Builtins!Past(stack'[1], j) <=> Builtins!Past(stack[1], j)
        /\ Builtins!TakenAway(stack'[1], j) <=> Builtins!TakenAway(stack[1], j)
    <3>1. j \in 1 .. Len(Types)
      BY TypesInOrder
    <3>2. CASE f.phase = "clear" /\ f.i > Len(Types) /\ phase = "run"
      BY <1>2, <1>5, <3>1, <3>2, TypesInOrder DEF Builtins!Past, Builtins!TakenAway
    <3>3. CASE f.phase = "run" /\ phase = "restore" /\ i = 1
      BY <1>2, <1>5, <3>1, <3>3 DEF Builtins!Past, Builtins!TakenAway
    <3> QED
      BY <1>4, <3>2, <3>3
  <2>3. Builtins!OuterTakesAway(j)'
    BY <2>1, <2>2 DEF Builtins!OuterTakesAway
  <2>4. Builtins!SavedRight(n, j)'
    BY <1>2, <1>4, <1>5, <2>1, <2>2 DEF Builtins!SavedRight
  <2> QED
    BY <2>3, <2>4
<1> QED
  BY <1>1, <1>2, <1>3, <1>4, <1>6, TopStep DEF BuiltinsInv, Builtins!TypeOK

\* A call begins inside of the real stringify of the one below, if there is one.
LEMMA StringifyStep == BuiltinsInv /\ Builtins!Stringify => BuiltinsInv'
<1> SUFFICES ASSUME BuiltinsInv, Builtins!Stringify PROVE BuiltinsInv'
  OBVIOUS
<1>1. PICK f : f = [phase |-> "clear", i |-> 1, saved |-> <<>>]
  OBVIOUS
<1>2. f \in Builtins!Frames /\ f.phase = "clear" /\ f.i = 1 /\ DOMAIN f.saved = {}
  <2>1. 1 \in 1 .. Len(Types) + 1
    BY TypesInOrder
  <2>2. <<>> \in [{} -> Values]
    OBVIOUS
  <2>3. <<>> \in Builtins!SavedValues
    BY <2>2 DEF Builtins!SavedValues, Values
  <2>4. f \in Builtins!Frames
    BY <1>1, <2>1, <2>3 DEF Builtins!Frames
  <2> QED
    BY <1>1, <2>4
<1>3. stack' = Append(stack, f) /\ UNCHANGED <<proto, left, disturbed, writes>>
  BY <1>1 DEF Builtins!Stringify
<1>4. PICK n \in Nat : n = Len(stack) /\ stack \in Seq(Builtins!Frames) /\ DOMAIN stack = 1 .. n
  BY DEF BuiltinsInv, Builtins!TypeOK
<1>5. /\ stack' \in Seq(Builtins!Frames) /\ DOMAIN stack' = 1 .. n + 1 /\ Len(stack') = n + 1
      /\ stack'[n + 1] = f /\ \A k \in 1 .. n : stack'[k] = stack[k]
  BY <1>2, <1>3, <1>4, PushOnStack
<1>6. Builtins!TypeOK'
  BY <1>3, <1>5 DEF BuiltinsInv, Builtins!TypeOK
<1>7. stack # <<>> => n # 0 /\ stack[n].phase = "run"
  BY <1>4 DEF Builtins!Stringify, Builtins!ScriptRuns, Builtins!In, Builtins!Top, Builtins!Last
<1>8. \A k \in 1 .. n : stack[k].phase = "run"
  BY <1>4, <1>7 DEF BuiltinsInv, Builtins!ToJSONInv
<1>9. \A k \in DOMAIN stack' : k < Len(stack') => stack'[k].phase = "run"
  BY <1>5, <1>8
<1>10. ASSUME NEW j \in DOMAIN Types, ~Builtins!Disturbed(Types[j])'
       PROVE  Builtins!OuterTakesAway(j)' /\ \A k \in DOMAIN stack' : Builtins!SavedRight(k, j)'
  <2>1. ~Builtins!Disturbed(Types[j])
    BY <1>3, <1>10 DEF Builtins!Disturbed
  <2>2. CASE stack = <<>>
    <3>1. n = 0 /\ stack'[1] = f /\ DOMAIN stack' = {1}
      BY <1>4, <1>5, <2>2
    <3>2. ~Builtins!Past(f, j)
      <4>1. ~(1 > j)
        BY TypesInOrder
      <4> QED
        BY <1>2, <4>1 DEF Builtins!Past
    <3>3. proto' = left'
      BY <1>3, <2>2 DEF BuiltinsInv, Builtins!ToJSONInv
    <3>4. Builtins!OuterTakesAway(j)'
      BY <3>1, <3>2, <3>3 DEF Builtins!OuterTakesAway, Builtins!TakenAway
    <3>5. Builtins!SavedRight(1, j)'
      BY <1>2, <3>1, <3>2 DEF Builtins!SavedRight
    <3> QED
      BY <3>1, <3>4, <3>5
  <2>3. CASE stack # <<>>
    <3>1. n # 0 /\ stack'[1] = stack[1] /\ n + 1 # 1
      BY <1>5, <1>7, <2>3
    <3>2. Builtins!OuterTakesAway(j)'
      BY <1>3, <2>1, <2>3, <3>1, LeftAlone DEF Builtins!OuterTakesAway
    <3>3. Builtins!SavedRight(n + 1, j)'
      BY <1>2, <1>5, <3>1 DEF Builtins!SavedRight
    <3>4. ASSUME NEW k \in 1 .. n
          PROVE  Builtins!SavedRight(k, j)'
      <4>1. stack'[k] = stack[k] /\ left' = left /\ Builtins!SavedRight(k, j)
        BY <1>3, <1>4, <1>5, <2>1, <2>3, <3>4, LeftAlone
      <4> QED
        BY <3>1, <4>1 DEF Builtins!SavedRight
    <3> QED
      BY <1>5, <3>2, <3>3, <3>4
  <2> QED
    BY <2>2, <2>3
<1>11. stack' # <<>>
  BY <1>5
<1> QED
  BY <1>6, <1>9, <1>10, <1>11 DEF BuiltinsInv, Builtins!ToJSONInv

\* Outside of stringify what scripts install is theirs, inside it disturbs.
LEMMA InstallStep ==
    ASSUME BuiltinsInv, NEW t \in Builtins!TypeSet, NEW p \in Builtins!Properties,
           Builtins!InstallToJSON(t, p)
    PROVE  BuiltinsInv'
<1>1. /\ proto' = [proto EXCEPT ![t] = p] /\ stack' = stack /\ writes' = writes + 1
      /\ writes < MaxWrites
      /\ IF stack = <<>> THEN left' = [left EXCEPT ![t] = p] /\ UNCHANGED disturbed
         ELSE disturbed' = disturbed \cup {t} /\ UNCHANGED left
  BY DEF Builtins!InstallToJSON
<1>2. MaxWrites \in Nat /\ Builtins!TypeOK
  BY ComponentAssumptions DEF Builtins!TypesAssumption, BuiltinsInv
<1>3. Builtins!TypeOK'
  <2>1. writes' \in 0 .. MaxWrites
    BY <1>1, <1>2 DEF Builtins!TypeOK
  <2> QED
    BY <1>1, <1>2, <2>1 DEF Builtins!TypeOK
<1>4. stack' = <<>> => proto' = left' /\ disturbed' = {}
  BY <1>1 DEF BuiltinsInv, Builtins!ToJSONInv
<1>5. \A k \in DOMAIN stack' : k < Len(stack') => stack'[k].phase = "run"
  BY <1>1 DEF BuiltinsInv, Builtins!ToJSONInv
<1>6. ASSUME NEW j \in DOMAIN Types, stack' # <<>>, ~Builtins!Disturbed(Types[j])'
      PROVE  Builtins!OuterTakesAway(j)' /\ \A k \in DOMAIN stack' : Builtins!SavedRight(k, j)'
  <2>1. stack # <<>> /\ left' = left /\ stack' = stack /\ disturbed' = disturbed \cup {t}
    BY <1>1, <1>6
  <2>2. ~Builtins!Disturbed(Types[j]) /\ Types[j] # t
    BY <1>6, <2>1 DEF Builtins!Disturbed
  <2>3. proto'[Types[j]] = proto[Types[j]]
    BY <1>1, <1>2, <2>2, TypesInOrder DEF Builtins!TypeOK
  <2>4. Builtins!OuterTakesAway(j)'
    BY <2>1, <2>2, <2>3, LeftAlone DEF Builtins!OuterTakesAway
  <2>5. \A k \in DOMAIN stack' : Builtins!SavedRight(k, j)'
    BY <2>1, <2>2, LeftAlone DEF Builtins!SavedRight
  <2> QED
    BY <2>4, <2>5
<1> QED
  BY <1>3, <1>4, <1>5, <1>6 DEF BuiltinsInv, Builtins!ToJSONInv

LEMMA ReturnStep == BuiltinsInv /\ Builtins!Return => BuiltinsInv'
<1> SUFFICES ASSUME BuiltinsInv, Builtins!Return PROVE BuiltinsInv'
  OBVIOUS
<1>1. /\ stack # <<>> /\ Builtins!Top.phase = "restore" /\ Builtins!Top.i > Len(Types)
      /\ stack' = Builtins!Front(stack) /\ UNCHANGED <<proto, writes>>
  BY DEF Builtins!Return, Builtins!In
<1>2. PICK n \in Nat \ {0} : n = Len(stack)
  BY <1>1, TheTop DEF BuiltinsInv
<1>3. /\ stack' \in Seq(Builtins!Frames) /\ DOMAIN stack = 1 .. n
      /\ DOMAIN stack' = 1 .. n - 1 /\ Len(stack') = n - 1
      /\ \A k \in 1 .. n - 1 : stack'[k] = stack[k]
  <2>1. stack \in Seq(Builtins!Frames) /\ stack' = Front(stack)
    BY <1>1 DEF BuiltinsInv, Builtins!TypeOK, Builtins!Front, Front
  <2> QED
    BY <1>1, <1>2, <2>1, FrontOfStack
<1>4. \A k \in DOMAIN stack' : k < Len(stack') => stack'[k].phase = "run"
  BY <1>2, <1>3 DEF BuiltinsInv, Builtins!ToJSONInv
<1>5. CASE n = 1
  <2>1. /\ left' = [t \in Builtins!TypeSet |-> IF Builtins!Disturbed(t) THEN proto[t] ELSE left[t]]
        /\ disturbed' = {}
    BY <1>2, <1>5 DEF Builtins!Return
  <2>2. ASSUME NEW t \in Builtins!TypeSet
        PROVE  left'[t] = proto[t]
    <3>1. CASE Builtins!Disturbed(t)
      BY <2>1, <3>1
    <3>2. CASE ~Builtins!Disturbed(t)
      <4>1. PICK j \in DOMAIN Types : t = Types[j]
        BY TypesInOrder
      <4>2. ~Builtins!TakenAway(stack[1], j)
        <5>1. stack[1].phase = "restore" /\ stack[1].i > Len(Types) /\ stack[1].i \in 1 .. Len(Types) + 1
          BY <1>1, <1>2, <1>5, TheTop, FrameType DEF BuiltinsInv
        <5>2. ~(stack[1].i <= j)
          BY <5>1, TypesInOrder
        <5> QED
          BY <5>1, <5>2 DEF Builtins!TakenAway
      <4>3. proto[t] = left[t]
        BY <1>1, <3>2, <4>1, <4>2, LeftAlone DEF Builtins!OuterTakesAway
      <4> QED
        BY <2>1, <3>2, <4>3
    <3> QED
      BY <3>1, <3>2
  <2>3. proto \in [Builtins!TypeSet -> Builtins!Properties] /\ left \in [Builtins!TypeSet -> Builtins!Properties]
    BY DEF BuiltinsInv, Builtins!TypeOK
  <2>4. left' \in [Builtins!TypeSet -> Builtins!Properties]
    BY <2>1, <2>3
  <2>5. left' = proto'
    BY <1>1, <2>1, <2>2, <2>3, <2>4
  <2>6. stack' = <<>>
    BY <1>3, <1>5
  <2>7. Builtins!TypeOK'
    BY <1>1, <1>3, <2>1, <2>4 DEF BuiltinsInv, Builtins!TypeOK
  <2> QED
    BY <1>4, <2>1, <2>5, <2>6, <2>7 DEF BuiltinsInv, Builtins!ToJSONInv
<1>6. CASE n # 1
  <2>1. UNCHANGED <<left, disturbed>>
    BY <1>2, <1>6 DEF Builtins!Return
  <2>2. stack' # <<>> /\ stack'[1] = stack[1]
    BY <1>3, <1>6
  <2>3. Builtins!TypeOK'
    BY <1>1, <1>3, <2>1 DEF BuiltinsInv, Builtins!TypeOK
  <2>4. ASSUME NEW j \in DOMAIN Types, ~Builtins!Disturbed(Types[j])'
        PROVE  Builtins!OuterTakesAway(j)' /\ \A k \in DOMAIN stack' : Builtins!SavedRight(k, j)'
    <3>1. ~Builtins!Disturbed(Types[j])
      BY <2>1, <2>4 DEF Builtins!Disturbed
    <3>2. Builtins!OuterTakesAway(j)'
      BY <1>1, <2>1, <2>2, <3>1, LeftAlone DEF Builtins!OuterTakesAway
    <3>3. ASSUME NEW k \in DOMAIN stack'
          PROVE  Builtins!SavedRight(k, j)'
      <4>1. k \in DOMAIN stack /\ stack'[k] = stack[k]
        BY <1>3, <3>3
      <4>2. Builtins!SavedRight(k, j)
        BY <1>1, <3>1, <4>1, LeftAlone
      <4> QED
        BY <2>1, <2>2, <4>1, <4>2 DEF Builtins!SavedRight
    <3> QED
      BY <3>2, <3>3
  <2> QED
    BY <1>4, <2>2, <2>3, <2>4 DEF BuiltinsInv, Builtins!ToJSONInv
<1> QED
  BY <1>5, <1>6

LEMMA BuiltinsInit == Builtins!Init => BuiltinsInv
<1> SUFFICES ASSUME Builtins!Init PROVE BuiltinsInv
  OBVIOUS
<1>1. /\ proto = [t \in Builtins!TypeSet |-> IF t \in DOMAIN Natives THEN Kind("data", Natives[t])
                                             ELSE Builtins!None]
      /\ left = proto /\ stack = <<>> /\ disturbed = {} /\ writes = 0
  BY DEF Builtins!Init, Kind
<1>2. Builtins!None \in Builtins!Properties
  BY DEF Builtins!None, Builtins!Properties
<1>3. \A t \in DOMAIN Natives : Kind("data", Natives[t]) \in Builtins!Properties
  BY ComponentAssumptions, DataProperty DEF Builtins!TypesAssumption, Values
<1>4. proto \in [Builtins!TypeSet -> Builtins!Properties]
  BY <1>1, <1>2, <1>3
<1>5. 0 \in 0 .. MaxWrites
  BY ComponentAssumptions DEF Builtins!TypesAssumption
<1>6. Builtins!TypeOK
  BY <1>1, <1>4, <1>5 DEF Builtins!TypeOK
<1> QED
  BY <1>1, <1>6 DEF BuiltinsInv, Builtins!ToJSONInv

LEMMA BuiltinsStep == BuiltinsInv /\ Builtins!Next => BuiltinsInv'
  BY InstallStep, StringifyStep, ClearStep, PhaseStep, RestoreStep, ReturnStep DEF Builtins!Next

\* What the invariant shows.
LEMMA BuiltinsShow == BuiltinsInv => Builtins!OverridesCleared /\ Builtins!ToJSONRestored
<1> SUFFICES ASSUME BuiltinsInv PROVE Builtins!OverridesCleared /\ Builtins!ToJSONRestored
  OBVIOUS
<1>1. Builtins!ToJSONRestored
  BY DEF BuiltinsInv, Builtins!ToJSONInv, Builtins!ToJSONRestored
<1>2. ASSUME Builtins!In("run"), disturbed = {}, NEW t \in Builtins!TypeSet,
             Builtins!Found(t).kind \in {"none", "data"}
      PROVE  Builtins!Found(t).value = Undefined
  <2>1. stack # <<>> /\ stack[Len(stack)].phase = "run"
    BY <1>2 DEF Builtins!In, Builtins!Top, Builtins!Last
  <2>2. stack[1].phase = "run"
    <3>1. CASE Len(stack) = 1
      BY <2>1, <3>1
    <3>2. CASE Len(stack) # 1
      BY <2>1, <3>2, TheTop DEF BuiltinsInv, Builtins!ToJSONInv
    <3> QED
      BY <3>1, <3>2
  <2>3. PICK j \in DOMAIN Types : t = Types[j]
    BY TypesInOrder
  <2>4. \A i \in DOMAIN Types : Builtins!TakenAway(stack[1], i)
    BY <2>2 DEF Builtins!TakenAway, Builtins!Past
  <2>5. ~Builtins!Disturbed(Types[j])
    BY <1>2 DEF Builtins!Disturbed
  <2>6. PICK p, o : p = left[Types[j]] /\ o = left[Types[1]]
    OBVIOUS
  <2>7. /\ p \in Builtins!Properties /\ o \in Builtins!Properties
        /\ proto[Types[j]] = Builtins!Cleared(p) /\ proto[Types[1]] = Builtins!Cleared(o)
    BY <2>1, <2>4, <2>5, <2>6, TypesInOrder, WhereItStands
  <2>8. Builtins!Found(t) \in {Builtins!Cleared(p), Builtins!Cleared(o)}
    BY <2>3, <2>7, TypesInOrder DEF Builtins!Found
  <2> QED
    BY <1>2, <2>7, <2>8, ClearedType
<1>3. Builtins!OverridesCleared
  BY <1>2 DEF Builtins!OverridesCleared
<1> QED
  BY <1>1, <1>3

-------------------------------------------------------------------------------
(***************************************************************************)
(* inspect.                                                                *)
(***************************************************************************)
LEMMA SameCardinality == \A S : Util!Cardinality(S) = Cardinality(S)
  BY Zenon DEF Util!Cardinality, Cardinality

\* An object of the heap.
LEMMA OfHeap ==
    ASSUME Util!TypeOK, NEW o \in Objects
    PROVE  /\ heap[o].of \in Objects /\ heap[o].kind \in Util!Kinds
           /\ heap[o].props \in Seq(Util!Values) /\ Len(heap[o].props) \in Nat
           /\ DOMAIN heap[o].props = 1 .. Len(heap[o].props)
           /\ \A k \in 1 .. Len(heap[o].props) : heap[o].props[k] \in Util!Values
<1>1. heap[o] \in Util!HeapObject
  BY DEF Util!TypeOK
<1>2. heap[o].of \in Objects /\ heap[o].kind \in Util!Kinds
  BY <1>1 DEF Util!HeapObject
<1>3. heap[o].props \in Seq(Util!Values)
  <2>1. Objects \cup {"primitive", "accessor"} = Util!Values
    BY DEF Util!Values
  <2> QED
    BY <1>1, <2>1 DEF Util!HeapObject
<1> QED
  BY <1>2, <1>3

\* The frame on top.
LEMMA TopFrame ==
    ASSUME Util!TypeOK, frames # <<>>
    PROVE  /\ Util!Top \in Util!Frame /\ Util!Top = frames[Len(frames)]
           /\ Len(frames) \in Nat \ {0} /\ DOMAIN frames = 1 .. Len(frames)
           /\ Util!Pop \in Seq(Util!Frame) /\ Len(Util!Pop) = Len(frames) - 1
           /\ DOMAIN Util!Pop = 1 .. Len(frames) - 1
           /\ \A i \in 1 .. Len(frames) - 1 : Util!Pop[i] = frames[i]
<1>1. frames \in Seq(Util!Frame)
  BY DEF Util!TypeOK
<1>2. PICK L \in Nat : L = Len(frames)
  BY <1>1
<1>3. L # 0 /\ DOMAIN frames = 1 .. L
  BY <1>1, <1>2
<1>4. PICK g : g = Front(frames)
  OBVIOUS
<1>5. /\ g \in Seq(Util!Frame) /\ DOMAIN g = 1 .. L - 1
      /\ \A i \in 1 .. L - 1 : g[i] = frames[i]
      /\ Last(frames) \in Util!Frame /\ Last(frames) = frames[L]
  BY <1>1, <1>2, <1>4, FrontOfStack
<1>6. Len(g) = L - 1
  <2>1. PICK n \in Nat : n = Len(g)
    <3>1. g \in Seq(Util!Frame)
      BY <1>5
    <3> QED
      BY <3>1, LenProperties
  <2>2. PICK m \in Nat : m = L - 1
    BY <1>3
  <2>3. 1 .. n = 1 .. m
    BY <1>5, <2>1, <2>2
  <2>4. (n \in 1 .. n \/ n = 0) /\ (m \in 1 .. m \/ m = 0)
    OBVIOUS
  <2> QED
    BY <2>1, <2>2, <2>3, <2>4
<1>7. Util!Top = Last(frames) /\ Util!Pop = g
  BY <1>4 DEF Util!Top, Util!Pop, Util!Last, Last, Util!Front, Front
<1> QED
  BY <1>2, <1>3, <1>5, <1>6, <1>7

\* A frame more.
LEMMA FramePushed ==
    ASSUME Util!TypeOK, NEW f \in Util!Frame, frames' = Append(frames, f)
    PROVE  /\ frames' \in Seq(Util!Frame) /\ Len(frames) \in Nat
           /\ Len(frames') = Len(frames) + 1
           /\ DOMAIN frames = 1 .. Len(frames) /\ DOMAIN frames' = 1 .. Len(frames) + 1
           /\ frames'[Len(frames) + 1] = f
           /\ \A i \in 1 .. Len(frames) : frames'[i] = frames[i]
  BY AppendProperties DEF Util!TypeOK

\* Something more is written.
LEMMA TextWritten ==
    ASSUME Util!TypeOK, NEW path \in Seq(Util!Values), NEW text \in Util!Labels,
           Util!Writes(path, text)
    PROVE  /\ out' \in Seq(Seq(Util!Values) \X Util!Labels) /\ Len(out) \in Nat
           /\ Len(out') = Len(out) + 1
           /\ DOMAIN out = 1 .. Len(out) /\ DOMAIN out' = 1 .. Len(out) + 1
           /\ out'[Len(out) + 1] = <<path, text>>
           /\ \A i \in 1 .. Len(out) : out'[i] = out[i]
<1>1. <<path, text>> \in Seq(Util!Values) \X Util!Labels
  OBVIOUS
<1> QED
  BY <1>1, AppendProperties DEF Util!TypeOK, Util!Writes

LEMMA UtilInit == Util!Init => Util!TypeOK /\ Util!UtilInv
<1> SUFFICES ASSUME Util!Init
             PROVE  Util!TypeOK /\ Util!UtilInv
  OBVIOUS
<1>1. PICK i \in Inspections :
         heap = i.heap /\ depth = i.depth /\ customInspect = i.customInspect /\ root = i.root
  BY DEF Util!Init
<1>2. /\ heap \in [Objects -> Util!HeapObject] /\ depth \in Nat \cup {Null}
      /\ customInspect \in BOOLEAN /\ root \in Objects /\ Null \notin Int
      /\ StackLimit \in Nat
  BY <1>1, ComponentAssumptions DEF Util!NodeUtilAssumption
<1>3. PICK path : path = Append(<<>>, root)
  OBVIOUS
<1>4. arg = [v |-> root, recurse |-> depth, path |-> path]
  BY <1>3 DEF Util!Init, Util!Call
<1>5. /\ path \in Seq(Util!Values) /\ path = <<root>> /\ Len(path) = 1 /\ path[1] = root
      /\ root \in Util!Values
  BY <1>2, <1>3 DEF Util!Values
<1>6. arg \in Util!Arguments /\ arg.v # "accessor"
  BY <1>2, <1>4, <1>5, ComponentAssumptions DEF Util!Arguments, Util!NodeUtilAssumption
<1>7. Util!TypeOK
  BY <1>2, <1>6 DEF Util!TypeOK, Util!Init
<1>8. Util!PositionsInv
  BY DEF Util!PositionsInv, Util!Init
<1>9. Util!SeenIsTheStack
  <2>1. Util!Expansions(Len(frames)) = {} /\ Len(seen) = 0
    BY DEF Util!Expansions, Util!Init
  <2> QED
    BY <2>1, FS_EmptySet, SameCardinality DEF Util!SeenIsTheStack
<1>10. Util!CallsInv
  <2>1. Len(frames) = 0 /\ Len(seen) = 0 /\ DOMAIN frames = {} /\ DOMAIN seen = {} /\ mode = "call"
    BY DEF Util!Init
  <2>2. Util!IsCall(arg, 1)
    BY <1>2, <1>4, <1>5 DEF Util!IsCall
  <2>3. arg.v \notin Util!Range(seen)
    BY <2>1 DEF Util!Range
  <2> QED
    BY <2>1, <2>2, <2>3 DEF Util!CallsInv
<1>11. Util!TextInv
  <2>1. DOMAIN frames = {} /\ DOMAIN out = {} /\ mode = "call" /\ arg.path = <<root>>
    BY <1>4, <1>5 DEF Util!Init
  <2>2. Util!Written = {}
    BY <2>1 DEF Util!Written
  <2> QED
    BY <2>1, <2>2 DEF Util!TextInv, Util!Reached
<1> QED
  BY <1>7, <1>8, <1>9, <1>10, <1>11 DEF Util!UtilInv

\* What stands in a frame or is called with.
LEMMA CallTyped ==
    ASSUME NEW task \in Util!Arguments, NEW v \in Util!Values, NEW recurse \in Int \cup {Null}
    PROVE  /\ Util!Call(v, recurse, task.path) \in Util!Arguments
           /\ Util!Call(v, recurse, task.path).v = v
           /\ Util!Call(v, recurse, task.path).recurse = recurse
           /\ Util!Call(v, recurse, task.path).path = Append(task.path, v)
<1>1. Append(task.path, v) \in Seq(Util!Values)
  BY DEF Util!Arguments
<1> QED
  BY <1>1 DEF Util!Call, Util!Arguments

LEMMA FrameTyped ==
    ASSUME NEW op \in {"expand", "value", "inspect", "catch"}, NEW v \in Objects,
           NEW task \in Util!Arguments, NEW pos \in Nat,
           NEW f, f = [op |-> op, v |-> v, arg |-> task, pos |-> pos]
    PROVE  f \in Util!Frame /\ f.op = op /\ f.v = v /\ f.arg = task /\ f.pos = pos
  BY DEF Util!Frame

LEMMA OfFrame ==
    ASSUME NEW f \in Util!Frame
    PROVE  f.v \in Objects /\ f.arg \in Util!Arguments /\ f.pos \in Nat
           /\ f.op \in {"expand", "value", "inspect", "catch"}
  BY DEF Util!Frame

LEMMA OfArguments ==
    ASSUME NEW task \in Util!Arguments
    PROVE  task.v \in Util!Values /\ task.recurse \in Int \cup {Null} /\ task.path \in Seq(Util!Values)
  BY DEF Util!Arguments

\* Nothing but mode and a longer text.
LEMMA FramesKept ==
    ASSUME Util!TypeOK, Util!PositionsInv, UNCHANGED <<Util!options, frames>>,
           Len(out) <= Len(out'), Len(out') \in Nat
    PROVE  Util!PositionsInv'
<1>1. Len(out) \in Nat /\ \A i \in DOMAIN frames : frames[i].pos \in Nat
  <2>1. \A i \in DOMAIN frames : frames[i] \in Util!Frame
    BY DEF Util!TypeOK
  <2> QED
    BY <2>1, OfFrame DEF Util!TypeOK
<1> QED
  BY <1>1 DEF Util!PositionsInv, Util!options

LEMMA CallInspectTypes ==
    ASSUME Util!TypeOK, Util!PositionsInv, Util!CallInspect
    PROVE  Util!TypeOK' /\ Util!PositionsInv'
<1>1. /\ mode = "call" /\ Len(frames) < StackLimit /\ arg.v \in Objects
      /\ UNCHANGED <<heap, depth, customInspect, root, seen, abandoned>>
      /\ arg \in Util!Arguments /\ depth \in Int \cup {Null} /\ StackLimit \in Nat
  BY ComponentAssumptions
     DEF Util!NodeUtilAssumption, Util!CallInspect, Util!Called, Util!Hooked, Util!options, Util!TypeOK
<1>2. PICK h : h = heap[arg.v]
  OBVIOUS
<1>3. h.of \in Objects
  BY <1>1, <1>2, OfHeap
<1>4. CASE Util!Goes("return") /\ Util!Writes(arg.path, "custom") /\ UNCHANGED frames
  <2>1. "custom" \in Util!Labels /\ arg.path \in Seq(Util!Values)
    BY <1>1, OfArguments DEF Util!Labels
  <2>2. out' \in Seq(Seq(Util!Values) \X Util!Labels) /\ Len(out) \in Nat /\ Len(out') = Len(out) + 1
    BY <1>4, <2>1, TextWritten
  <2>3. Util!PositionsInv'
    BY <1>1, <1>4, <2>2, FramesKept DEF Util!options
  <2>4. Util!TypeOK'
    BY <1>1, <1>4, <2>2 DEF Util!TypeOK, Util!Goes
  <2> QED
    BY <2>3, <2>4
<1>5. CASE Util!Goes("throw") /\ UNCHANGED <<frames, out>>
  <2>1. Len(out) \in Nat
    BY DEF Util!TypeOK
  <2>2. Util!PositionsInv'
    BY <1>1, <1>5, <2>1, FramesKept DEF Util!options
  <2>3. Util!TypeOK'
    BY <1>1, <1>5 DEF Util!TypeOK, Util!Goes
  <2> QED
    BY <2>2, <2>3
<1>6. CASE /\ h.hook \in {"value", "inspect", "catch"}
           /\ frames' = Append(frames, [op |-> h.hook, v |-> arg.v, arg |-> arg, pos |-> Len(out)])
           /\ Util!Calls(Util!Call(h.of, IF h.hook = "value" THEN arg.recurse ELSE depth, arg.path))
           /\ UNCHANGED out
  <2>1. PICK recurse \in Int \cup {Null} : recurse = IF h.hook = "value" THEN arg.recurse ELSE depth
    BY <1>1, OfArguments
  <2>2. mode' = "call" /\ arg' = Util!Call(h.of, recurse, arg.path)
    BY <1>6, <2>1 DEF Util!Calls
  <2>3. h.of \in Util!Values /\ h.of # "accessor"
    BY <1>3, ComponentAssumptions DEF Util!Values, Util!NodeUtilAssumption
  <2>4. arg' \in Util!Arguments /\ arg'.v # "accessor"
    BY <1>1, <2>2, <2>3, CallTyped
  <2>5. PICK P \in Nat : P = Len(out)
    BY DEF Util!TypeOK
  <2>6. PICK f : f = [op |-> h.hook, v |-> arg.v, arg |-> arg, pos |-> P]
    OBVIOUS
  <2>7. f \in Util!Frame /\ f.op # "expand" /\ f.pos = P
    BY <1>1, <1>6, <2>6, FrameTyped
  <2>8. /\ frames' \in Seq(Util!Frame) /\ Len(frames) \in Nat
        /\ Len(frames') = Len(frames) + 1
        /\ DOMAIN frames = 1 .. Len(frames) /\ DOMAIN frames' = 1 .. Len(frames) + 1
        /\ frames'[Len(frames) + 1] = f
        /\ \A i \in 1 .. Len(frames) : frames'[i] = frames[i]
    BY <1>6, <2>5, <2>6, <2>7, FramePushed
  <2>9. Util!TypeOK'
    BY <1>1, <1>6, <2>2, <2>4, <2>8 DEF Util!TypeOK
  <2>10. \A i \in DOMAIN frames : frames[i].op # "expand" => frames[i].pos <= P
    BY <2>5 DEF Util!PositionsInv
  <2>11. Util!PositionsInv'
    BY <1>1, <1>6, <2>5, <2>7, <2>8, <2>10 DEF Util!PositionsInv
  <2> QED
    BY <2>9, <2>11
<1> QED
  BY <1>2, <1>4, <1>5, <1>6 DEF Util!CallInspect

LEMMA FormatLeafTypes ==
    ASSUME Util!TypeOK, Util!PositionsInv, Util!FormatLeaf
    PROVE  Util!TypeOK' /\ Util!PositionsInv'
<1>1. /\ mode' = "return" /\ UNCHANGED <<heap, depth, customInspect, root, arg, frames, seen, abandoned>>
      /\ Util!Writes(arg.path, Util!TextOf(arg.v, arg.recurse))
      /\ arg \in Util!Arguments /\ arg.v # "accessor"
  BY DEF Util!FormatLeaf, Util!options, Util!TypeOK, Util!Goes
<1>2. Util!TextOf(arg.v, arg.recurse) \in Util!Labels
  <2>1. arg.v \in Objects \/ arg.v = "primitive"
    BY <1>1, OfArguments DEF Util!Values
  <2>2. arg.v \in Objects => heap[arg.v].kind \in Util!Kinds
    BY OfHeap
  <2> QED
    BY <2>1, <2>2 DEF Util!TextOf, Util!Labels
<1>3. out' \in Seq(Seq(Util!Values) \X Util!Labels) /\ Len(out) \in Nat /\ Len(out') = Len(out) + 1
  BY <1>1, <1>2, OfArguments, TextWritten
<1>4. Util!PositionsInv'
  BY <1>1, <1>3, FramesKept DEF Util!options
<1>5. Util!TypeOK'
  BY <1>1, <1>3 DEF Util!TypeOK
<1> QED
  BY <1>4, <1>5

LEMMA ExpandTypes ==
    ASSUME Util!TypeOK, Util!PositionsInv, Util!Expand
    PROVE  Util!TypeOK' /\ Util!PositionsInv'
<1>1. /\ mode' = "return" /\ UNCHANGED <<heap, depth, customInspect, root, arg, abandoned>>
      /\ Util!Writes(arg.path, "expanded") /\ Len(frames) < StackLimit
      /\ arg \in Util!Arguments /\ arg.v \in Objects /\ StackLimit \in Nat
      /\ seen' = Append(seen, arg.v)
  BY ComponentAssumptions
     DEF Util!NodeUtilAssumption, Util!Expand, Util!Called, Util!HasKeys, Util!options, Util!TypeOK, Util!Goes
<1>2. "expanded" \in Util!Labels
  BY DEF Util!Labels
<1>3. out' \in Seq(Seq(Util!Values) \X Util!Labels) /\ Len(out) \in Nat /\ Len(out') = Len(out) + 1
  BY <1>1, <1>2, OfArguments, TextWritten
<1>4. PICK f : f = [op |-> "expand", v |-> arg.v, arg |-> arg, pos |-> 1]
  OBVIOUS
<1>5. f \in Util!Frame /\ f.op = "expand" /\ f.v = arg.v /\ f.pos = 1
  BY <1>1, <1>4, FrameTyped
<1>6. frames' = Append(frames, f)
  BY <1>4 DEF Util!Expand
<1>7. /\ frames' \in Seq(Util!Frame) /\ Len(frames) \in Nat
      /\ Len(frames') = Len(frames) + 1
      /\ DOMAIN frames = 1 .. Len(frames) /\ DOMAIN frames' = 1 .. Len(frames) + 1
      /\ frames'[Len(frames) + 1] = f
      /\ \A i \in 1 .. Len(frames) : frames'[i] = frames[i]
  BY <1>5, <1>6, FramePushed
<1>8. seen' \in Seq(Objects)
  BY <1>1, AppendProperties DEF Util!TypeOK
<1>9. Util!TypeOK'
  BY <1>1, <1>3, <1>7, <1>8 DEF Util!TypeOK
<1>10. Len(heap[arg.v].props) \in Nat
  BY <1>1, OfHeap
<1>11. Util!PositionsInv'
  <2>1. f.pos \in 1 .. Len(heap[f.v].props) + 1
    BY <1>5, <1>10
  <2> QED
    <3>1. \A i \in DOMAIN frames' :
             IF frames'[i].op = "expand" THEN frames'[i].pos \in 1 .. Len(heap[frames'[i].v].props) + 1
             ELSE frames'[i].pos <= Len(out')
      <4> TAKE i \in DOMAIN frames'
      <4>1. CASE i = Len(frames) + 1
        BY <1>5, <1>7, <2>1, <4>1
      <4>2. CASE i \in DOMAIN frames
        <5>1. frames[i].pos \in Nat
          BY <4>2, OfFrame DEF Util!TypeOK
        <5> QED
          BY <1>3, <1>7, <4>2, <5>1 DEF Util!PositionsInv
      <4> QED
        BY <1>7, <4>1, <4>2
    <3> QED
      BY <1>1, <1>5, <1>7, <3>1 DEF Util!PositionsInv
<1> QED
  BY <1>9, <1>11

\* The top frame goes.
LEMMA PopKeeps ==
    ASSUME Util!TypeOK, Util!PositionsInv, frames # <<>>, frames' = Util!Pop,
           UNCHANGED Util!options, Len(out') \in Nat,
           IF Util!Top.op = "expand" THEN Len(out) <= Len(out') ELSE Util!Top.pos <= Len(out')
    PROVE  frames' \in Seq(Util!Frame) /\ Len(frames') <= StackLimit /\ Util!PositionsInv'
<1>1. PICK L \in Nat : L = Len(frames)
  BY DEF Util!TypeOK
<1>2. /\ Util!Top = frames[L] /\ L # 0 /\ DOMAIN frames = 1 .. L
      /\ frames' \in Seq(Util!Frame) /\ Len(frames') = L - 1 /\ DOMAIN frames' = 1 .. L - 1
      /\ \A i \in 1 .. L - 1 : frames'[i] = frames[i]
  BY <1>1, TopFrame
<1>3. Len(frames') <= StackLimit
  BY <1>1, <1>2, ComponentAssumptions DEF Util!NodeUtilAssumption, Util!TypeOK
<1>4. Len(out) \in Nat /\ \A i \in DOMAIN frames : frames[i].pos \in Nat
  <2>1. \A i \in DOMAIN frames : frames[i] \in Util!Frame
    BY DEF Util!TypeOK
  <2> QED
    BY <2>1, OfFrame DEF Util!TypeOK
<1>5. ASSUME NEW i \in 1 .. L - 1, frames[i].op # "expand"
      PROVE  frames[i].pos <= Len(out')
  <2>1. i \in DOMAIN frames /\ L \in DOMAIN frames /\ i < L
    BY <1>2
  <2>2. CASE Util!Top.op = "expand"
    BY <1>4, <1>5, <2>1, <2>2 DEF Util!PositionsInv
  <2>3. CASE Util!Top.op # "expand"
    BY <1>2, <1>4, <1>5, <2>1, <2>3 DEF Util!PositionsInv
  <2> QED
    BY <2>2, <2>3
<1>6. \A i \in DOMAIN frames' :
         IF frames'[i].op = "expand" THEN frames'[i].pos \in 1 .. Len(heap[frames'[i].v].props) + 1
         ELSE frames'[i].pos <= Len(out')
  BY <1>2, <1>5 DEF Util!PositionsInv
<1>7. \A i, j \in DOMAIN frames' :
         i < j /\ frames'[i].op # "expand" /\ frames'[j].op # "expand" => frames'[i].pos <= frames'[j].pos
  BY <1>2 DEF Util!PositionsInv
<1> QED
  BY <1>2, <1>3, <1>6, <1>7 DEF Util!PositionsInv, Util!options

LEMMA FormatPropertyTypes ==
    ASSUME Util!TypeOK, Util!PositionsInv, Util!FormatProperty
    PROVE  Util!TypeOK' /\ Util!PositionsInv'
<1>1. /\ mode = "return" /\ frames # <<>> /\ Util!Top.op = "expand"
      /\ Util!Top.pos <= Len(heap[Util!Top.v].props)
      /\ frames' = Util!Advanced
      /\ UNCHANGED <<heap, depth, customInspect, root, seen, abandoned>>
  BY DEF Util!FormatProperty, Util!Expanding, Util!options
<1>2. PICK L \in Nat : L = Len(frames)
  BY DEF Util!TypeOK
<1>3. PICK f \in Util!Frame : f = Util!Top
  BY <1>1, TopFrame
<1>4. /\ f = frames[L] /\ L # 0 /\ DOMAIN frames = 1 .. L /\ frames \in Seq(Util!Frame)
      /\ f.v \in Objects /\ f.arg \in Util!Arguments /\ f.pos \in Nat
  BY <1>1, <1>2, <1>3, TopFrame, OfFrame DEF Util!TypeOK
<1>5. /\ heap[f.v].props \in Seq(Util!Values) /\ Len(heap[f.v].props) \in Nat
      /\ \A k \in 1 .. Len(heap[f.v].props) : heap[f.v].props[k] \in Util!Values
  BY <1>4, OfHeap
<1>6. f.pos \in 1 .. Len(heap[f.v].props)
  <2>1. L \in DOMAIN frames
    BY <1>4
  <2>2. f.pos \in 1 .. Len(heap[f.v].props) + 1
    BY <1>1, <1>3, <1>4, <2>1 DEF Util!PositionsInv
  <2> QED
    BY <1>1, <1>3, <1>5, <2>2
<1>7. PICK g : g = [f EXCEPT !.pos = f.pos + 1]
  OBVIOUS
<1>8. g \in Util!Frame /\ g.op = "expand" /\ g.v = f.v /\ g.arg = f.arg /\ g.pos = f.pos + 1
  <2>1. f.pos + 1 \in Nat
    BY <1>4
  <2> QED
    BY <1>1, <1>3, <1>7, <2>1 DEF Util!Frame
<1>9. frames' = [frames EXCEPT ![L] = g]
  BY <1>1, <1>2, <1>4, <1>7 DEF Util!Advanced
<1>10. /\ frames' \in Seq(Util!Frame) /\ Len(frames') = L /\ DOMAIN frames' = 1 .. L
       /\ frames'[L] = g /\ \A i \in 1 .. L : i # L => frames'[i] = frames[i]
  BY <1>1, <1>2, <1>4, <1>8, <1>9, TopUpdated
<1>11. PICK child : child = heap[f.v].props[f.pos]
  OBVIOUS
<1>12. child = Util!Child /\ child \in Util!Values
  BY <1>3, <1>5, <1>6, <1>11 DEF Util!Child
<1>13. f.arg.path \in Seq(Util!Values) /\ Append(f.arg.path, child) \in Seq(Util!Values)
  <2>1. f.arg.path \in Seq(Util!Values)
    BY <1>4, OfArguments
  <2> QED
    BY <1>12, <2>1, AppendProperties
<1>14. /\ out' \in Seq(Seq(Util!Values) \X Util!Labels) /\ Len(out') \in Nat /\ Len(out) <= Len(out')
       /\ arg' \in Util!Arguments /\ arg'.v # "accessor" /\ mode' \in {"call", "return"}
  <2>1. CASE /\ Util!Writes(Append(Util!Top.arg.path, Util!Child),
                            IF Util!Child = "accessor" THEN "[Getter]" ELSE "[Circular]")
             /\ Util!Goes("return")
    <3>1. PICK text : text = IF Util!Child = "accessor" THEN "[Getter]" ELSE "[Circular]"
      OBVIOUS
    <3>2. text \in Util!Labels
      BY <3>1 DEF Util!Labels
    <3>3. Util!Writes(Append(f.arg.path, child), text)
      BY <1>3, <1>12, <2>1, <3>1
    <3>4. out' \in Seq(Seq(Util!Values) \X Util!Labels) /\ Len(out) \in Nat /\ Len(out') = Len(out) + 1
      BY <1>13, <3>2, <3>3, TextWritten
    <3> QED
      BY <2>1, <3>4 DEF Util!Goes, Util!TypeOK
  <2>2. CASE /\ Util!Child # "accessor"
             /\ Util!Calls(Util!Call(Util!Child, IF Util!Top.arg.recurse = Null THEN Null
                                                 ELSE Util!Top.arg.recurse - 1, Util!Top.arg.path))
             /\ UNCHANGED out
    <3>1. PICK recurse \in Int \cup {Null} :
             recurse = IF f.arg.recurse = Null THEN Null ELSE f.arg.recurse - 1
      <4>1. f.arg.recurse \in Int \cup {Null}
        BY <1>4, OfArguments
      <4>2. CASE f.arg.recurse = Null
        BY <4>2
      <4>3. CASE f.arg.recurse # Null /\ f.arg.recurse \in Int
        <5>1. f.arg.recurse - 1 \in Int
          BY <4>3
        <5> QED
          BY <4>3, <5>1
      <4> QED
        BY <4>1, <4>2, <4>3
    <3>2. mode' = "call" /\ arg' = Util!Call(child, recurse, f.arg.path)
      BY <1>3, <1>12, <2>2, <3>1 DEF Util!Calls
    <3>3. arg' \in Util!Arguments /\ arg'.v # "accessor"
      BY <1>4, <1>12, <2>2, <3>2, CallTyped
    <3> QED
      BY <2>2, <3>2, <3>3 DEF Util!TypeOK
  <2> QED
    BY <2>1, <2>2 DEF Util!FormatProperty
<1>15. Util!TypeOK'
  BY <1>1, <1>2, <1>10, <1>14 DEF Util!TypeOK
<1>16. /\ Len(out) \in Nat
       /\ \A i \in 1 .. L : frames[i].pos \in Nat /\
             IF frames[i].op = "expand" THEN frames[i].pos \in 1 .. Len(heap[frames[i].v].props) + 1
             ELSE frames[i].pos <= Len(out)
  <2>1. \A i \in 1 .. L : frames[i] \in Util!Frame
    BY <1>2, <1>4
  <2>2. \A i \in 1 .. L : frames[i].pos \in Nat
    BY <2>1, OfFrame
  <2>3. Len(out) \in Nat
    BY DEF Util!TypeOK
  <2> QED
    BY <1>4, <2>2, <2>3 DEF Util!PositionsInv
<1>17. \A i \in 1 .. L :
         IF frames'[i].op = "expand" THEN frames'[i].pos \in 1 .. Len(heap[frames'[i].v].props) + 1
         ELSE frames'[i].pos <= Len(out')
  <2> TAKE i \in 1 .. L
  <2>1. CASE i = L
    BY <1>5, <1>6, <1>8, <1>10, <2>1
  <2>2. CASE i # L
    BY <1>10, <1>14, <1>16, <2>2
  <2> QED
    BY <2>1, <2>2
<1>18. \A i, j \in 1 .. L :
         i < j /\ frames'[i].op # "expand" /\ frames'[j].op # "expand" => frames'[i].pos <= frames'[j].pos
  BY <1>4, <1>8, <1>10 DEF Util!PositionsInv
<1>19. Util!PositionsInv'
  BY <1>1, <1>10, <1>17, <1>18 DEF Util!PositionsInv
<1> QED
  BY <1>15, <1>19

LEMMA PopTypes ==
    ASSUME Util!TypeOK, Util!PositionsInv, Util!Expanded \/ Util!HookReturns
    PROVE  Util!TypeOK' /\ Util!PositionsInv'
<1>1. /\ frames # <<>> /\ frames' = Util!Pop /\ UNCHANGED <<Util!options, mode, arg, out, abandoned>>
      /\ UNCHANGED seen \/ seen' = Util!Front(seen)
  BY DEF Util!Expanded, Util!HookReturns, Util!Expanding
<1>2. Len(out) \in Nat /\ (Util!Top.op # "expand" => Util!Top.pos <= Len(out))
  <2>1. Util!Top = frames[Len(frames)] /\ Len(frames) \in DOMAIN frames
    BY <1>1, TopFrame
  <2>2. Len(out) \in Nat
    BY DEF Util!TypeOK
  <2> QED
    BY <2>1, <2>2 DEF Util!PositionsInv
<1>3. frames' \in Seq(Util!Frame) /\ Len(frames') <= StackLimit /\ Util!PositionsInv'
  BY <1>1, <1>2, PopKeeps
<1>4. seen' \in Seq(Objects)
  <2>1. seen \in Seq(Objects)
    BY DEF Util!TypeOK
  <2>2. SubSeq(seen, 1, Len(seen) - 1) \in Seq(Objects)
    BY <2>1
  <2> QED
    BY <1>1, <2>1, <2>2 DEF Util!Front
<1> QED
  BY <1>1, <1>3, <1>4 DEF Util!TypeOK, Util!options

LEMMA UnwindTypes ==
    ASSUME Util!TypeOK, Util!PositionsInv, Util!Unwind
    PROVE  Util!TypeOK' /\ Util!PositionsInv'
<1>1. /\ frames # <<>> /\ frames' = Util!Pop /\ UNCHANGED <<Util!options, seen, arg>>
      /\ mode' \in {"return", "throw"}
      /\ abandoned' = IF Util!Top.op = "expand" THEN abandoned \cup {Util!Top.v} ELSE abandoned
  BY DEF Util!Unwind, Util!Goes
<1>2. PICK f \in Util!Frame : f = Util!Top
  BY <1>1, TopFrame
<1>3. f.v \in Objects /\ f.arg.path \in Seq(Util!Values) /\ f.pos \in Nat
  BY OfFrame, OfArguments
<1>4. PICK P \in Nat : P = Len(out)
  BY DEF Util!TypeOK
<1>5. f.op # "expand" => f.pos <= P
  <2>1. Util!Top = frames[Len(frames)] /\ Len(frames) \in DOMAIN frames
    BY <1>1, TopFrame
  <2> QED
    BY <1>2, <1>4, <2>1 DEF Util!PositionsInv
<1>6. /\ out' \in Seq(Seq(Util!Values) \X Util!Labels) /\ Len(out') \in Nat
      /\ IF f.op = "expand" THEN P <= Len(out') ELSE f.pos <= Len(out')
  <2>1. CASE f.op = "catch"
    <3>1. out' = Append(SubSeq(out, 1, f.pos), <<f.arg.path, "custom">>)
      BY <1>2, <2>1 DEF Util!Unwind
    <3>2. out \in Seq(Seq(Util!Values) \X Util!Labels)
      BY DEF Util!TypeOK
    <3>3. PICK s : s = SubSeq(out, 1, f.pos)
      OBVIOUS
    <3>4. s \in Seq(Seq(Util!Values) \X Util!Labels) /\ Len(s) = f.pos
      <4>1. f.pos <= P
        BY <1>5, <2>1
      <4>2. \A i \in 1 .. f.pos : out[i] \in Seq(Util!Values) \X Util!Labels
        BY <1>3, <1>4, <3>2, <4>1
      <4>3. /\ SubSeq(out, 1, f.pos) \in Seq(Seq(Util!Values) \X Util!Labels)
            /\ Len(SubSeq(out, 1, f.pos)) = IF 1 <= f.pos THEN f.pos - 1 + 1 ELSE 0
        BY <1>3, <3>2, <4>2, SubSeqProperties
      <4> QED
        BY <1>3, <3>3, <4>3
    <3>5. <<f.arg.path, "custom">> \in Seq(Util!Values) \X Util!Labels
      BY <1>3 DEF Util!Labels
    <3>6. PICK e \in Seq(Util!Values) \X Util!Labels : e = <<f.arg.path, "custom">>
      BY <3>5
    <3>7. out' = Append(s, e)
      BY <3>1, <3>3, <3>6
    <3>8. out' \in Seq(Seq(Util!Values) \X Util!Labels) /\ Len(out') = f.pos + 1
      BY <3>4, <3>6, <3>7, AppendProperties
    <3> QED
      BY <1>3, <2>1, <3>8
  <2>2. CASE f.op # "catch"
    <3>1. out' = out
      BY <1>2, <2>2 DEF Util!Unwind
    <3> QED
      BY <1>4, <1>5, <3>1 DEF Util!TypeOK
  <2> QED
    BY <2>1, <2>2
<1>7. frames' \in Seq(Util!Frame) /\ Len(frames') <= StackLimit /\ Util!PositionsInv'
  BY <1>1, <1>2, <1>4, <1>6, PopKeeps
<1>8. abandoned' \subseteq Objects
  BY <1>1, <1>2, <1>3 DEF Util!TypeOK
<1> QED
  BY <1>1, <1>6, <1>7, <1>8 DEF Util!TypeOK, Util!options

LEMMA UtilTypes ==
    ASSUME Util!TypeOK, Util!PositionsInv, Util!Next
    PROVE  Util!TypeOK' /\ Util!PositionsInv'
<1>1. CASE Util!StackOverflow
  <2>1. UNCHANGED <<heap, depth, customInspect, root, frames, seen, out, abandoned, arg>> /\ mode' = "throw"
    BY <1>1 DEF Util!StackOverflow, Util!Goes, Util!options
  <2> QED
    BY <2>1 DEF Util!TypeOK, Util!PositionsInv
<1> QED
  BY <1>1, CallInspectTypes, FormatLeafTypes, ExpandTypes, FormatPropertyTypes, PopTypes, UnwindTypes
     DEF Util!Next

\* The objects that are being expanded can be counted.
LEMMA ExpansionsCounted ==
    ASSUME NEW i \in Nat
    PROVE  /\ IsFiniteSet(Util!Expansions(i)) /\ Util!Cardinality(Util!Expansions(i)) \in Nat
           /\ Util!Cardinality(Util!Expansions(i)) = Cardinality(Util!Expansions(i))
<1>1. IsFiniteSet(1 .. i)
  BY FS_Interval
<1>2. Util!Expansions(i) \in SUBSET (1 .. i)
  BY DEF Util!Expansions
<1>3. IsFiniteSet(Util!Expansions(i))
  BY <1>1, <1>2, FS_Subset
<1> QED
  BY <1>3, FS_CardinalityType, SameCardinality

\* Neither the expansions nor seen change.
LEMMA SeenKept ==
    ASSUME Util!SeenIsTheStack, UNCHANGED seen, abandoned' = {} => abandoned = {},
           NEW L \in Nat, L = Len(frames), NEW M \in Nat, M = Len(frames'),
           NEW N \in Nat, N <= L, N <= M,
           \A i \in 1 .. N : frames'[i].op = frames[i].op /\ frames'[i].v = frames[i].v,
           \A i \in 1 .. L : i > N => frames[i].op # "expand",
           \A i \in 1 .. M : i > N => frames'[i].op # "expand"
    PROVE  Util!SeenIsTheStack'
<1>1. \A i \in 1 .. N : Util!Expansions(i)' = Util!Expansions(i)
  BY DEF Util!Expansions
<1>2. Util!Expansions(L) \subseteq 1 .. N /\ Util!Expansions(M)' = Util!Expansions(L)
  BY DEF Util!Expansions
<1> QED
  BY <1>1, <1>2 DEF Util!SeenIsTheStack

LEMMA ExpandSeen ==
    ASSUME Util!TypeOK, Util!SeenIsTheStack, Util!Expand
    PROVE  Util!SeenIsTheStack'
<1> SUFFICES ASSUME abandoned' = {}
             PROVE  Util!SeenIsTheStack'
  BY DEF Util!SeenIsTheStack
<1>1. abandoned = {} /\ seen' = Append(seen, arg.v) /\ arg.v \in Objects /\ seen \in Seq(Objects)
  BY DEF Util!Expand, Util!HasKeys, Util!TypeOK
<1>2. PICK f : f = [op |-> "expand", v |-> arg.v, arg |-> arg, pos |-> 1]
  OBVIOUS
<1>3. f \in Util!Frame /\ f.op = "expand" /\ f.v = arg.v
  BY <1>1, <1>2, FrameTyped DEF Util!TypeOK
<1>4. frames' = Append(frames, f)
  BY <1>2 DEF Util!Expand
<1>5. PICK L \in Nat : L = Len(frames)
  BY DEF Util!TypeOK
<1>6. PICK M \in Nat : M = L + 1
  OBVIOUS
<1>7. Len(frames') = M /\ frames'[M] = f /\ \A i \in 1 .. L : frames'[i] = frames[i]
  BY <1>3, <1>4, <1>5, <1>6, FramePushed
<1>8. \A i \in 1 .. L : Util!Expansions(i)' = Util!Expansions(i)
  BY <1>7 DEF Util!Expansions
<1>9. Util!Expansions(M)' = Util!Expansions(L) \cup {M} /\ M \notin Util!Expansions(L)
  BY <1>3, <1>6, <1>7 DEF Util!Expansions
<1>10. PICK C \in Nat : C = Util!Cardinality(Util!Expansions(L))
  BY ExpansionsCounted
<1>11. Util!Cardinality(Util!Expansions(M)') = C + 1
  <2>1. Cardinality(Util!Expansions(L) \cup {M}) = Cardinality(Util!Expansions(L)) + 1
    BY <1>9, ExpansionsCounted, FS_AddElement
  <2> QED
    BY <1>9, <1>10, <2>1, ExpansionsCounted, SameCardinality
<1>12. Len(seen) = C
  BY <1>1, <1>5, <1>10 DEF Util!SeenIsTheStack
<1>13. Len(seen') = C + 1 /\ seen'[C + 1] = arg.v /\ \A k \in 1 .. C : seen'[k] = seen[k]
  BY <1>1, <1>12, AppendProperties
<1>14. ASSUME NEW i \in Util!Expansions(L)
       PROVE  seen'[Util!Cardinality(Util!Expansions(i)')] = frames'[i].v
  <2>1. i \in 1 .. L /\ frames[i].op = "expand"
    BY DEF Util!Expansions
  <2>2. PICK D \in Nat : D = Util!Cardinality(Util!Expansions(i))
    BY <2>1, ExpansionsCounted
  <2>3. D <= C /\ D # 0
    <3>1. Util!Expansions(i) \in SUBSET Util!Expansions(L) /\ i \in Util!Expansions(i)
      BY <2>1 DEF Util!Expansions
    <3>2. Cardinality(Util!Expansions(i)) <= Cardinality(Util!Expansions(L))
      BY <3>1, ExpansionsCounted, FS_Subset
    <3>3. Cardinality(Util!Expansions(i)) # 0
      BY <2>1, <3>1, ExpansionsCounted, FS_EmptySet
    <3> QED
      BY <1>10, <2>1, <2>2, <3>2, <3>3, ExpansionsCounted
  <2>4. seen[D] = frames[i].v
    BY <1>1, <1>5, <2>2 DEF Util!SeenIsTheStack
  <2> QED
    BY <1>7, <1>8, <1>13, <2>1, <2>2, <2>3, <2>4
<1>15. \A i \in Util!Expansions(M)' : seen'[Util!Cardinality(Util!Expansions(i)')] = frames'[i].v
  BY <1>3, <1>7, <1>9, <1>11, <1>13, <1>14
<1> QED
  BY <1>7, <1>11, <1>13, <1>15 DEF Util!SeenIsTheStack

LEMMA ExpandedSeen ==
    ASSUME Util!TypeOK, Util!SeenIsTheStack, Util!Expanded
    PROVE  Util!SeenIsTheStack'
<1> SUFFICES ASSUME abandoned' = {}
             PROVE  Util!SeenIsTheStack'
  BY DEF Util!SeenIsTheStack
<1>1. /\ abandoned = {} /\ seen' = Util!Front(seen) /\ seen \in Seq(Objects)
      /\ frames # <<>> /\ frames' = Util!Pop /\ Util!Top.op = "expand"
  BY DEF Util!Expanded, Util!Expanding, Util!TypeOK
<1>2. PICK L \in Nat : L = Len(frames)
  BY DEF Util!TypeOK
<1>3. L # 0 /\ Len(frames') = L - 1 /\ frames[L].op = "expand" /\ \A i \in 1 .. L - 1 : frames'[i] = frames[i]
  BY <1>1, <1>2, TopFrame
<1>4. PICK M \in Nat : M = L - 1
  BY <1>3
<1>5. \A i \in 1 .. M : Util!Expansions(i)' = Util!Expansions(i)
  BY <1>3, <1>4 DEF Util!Expansions
<1>6. Util!Expansions(M)' = Util!Expansions(L) \ {L} /\ L \in Util!Expansions(L)
  BY <1>3, <1>4 DEF Util!Expansions
<1>7. PICK C \in Nat : C = Util!Cardinality(Util!Expansions(L))
  BY ExpansionsCounted
<1>8. Util!Cardinality(Util!Expansions(M)') = C - 1 /\ C # 0
  <2>1. Cardinality(Util!Expansions(L) \ {L}) = Cardinality(Util!Expansions(L)) - 1
    BY <1>6, ExpansionsCounted, FS_RemoveElement
  <2>2. Cardinality(Util!Expansions(L)) # 0
    BY <1>6, ExpansionsCounted, FS_EmptySet
  <2> QED
    BY <1>6, <1>7, <2>1, <2>2, ExpansionsCounted, SameCardinality
<1>9. Len(seen) = C
  BY <1>1, <1>2, <1>7 DEF Util!SeenIsTheStack
<1>10. Len(seen') = C - 1 /\ \A k \in 1 .. C - 1 : seen'[k] = seen[k]
  <2>1. seen' = SubSeq(seen, 1, C - 1)
    BY <1>1, <1>9 DEF Util!Front
  <2>2. \A k \in 1 .. C - 1 : seen[k] \in Objects
    BY <1>1, <1>9
  <2>3. /\ Len(SubSeq(seen, 1, C - 1)) = IF 1 <= C - 1 THEN C - 1 - 1 + 1 ELSE 0
        /\ \A k \in 1 .. C - 1 - 1 + 1 : SubSeq(seen, 1, C - 1)[k] = seen[1 + k - 1]
    BY <1>1, <2>2, SubSeqProperties
  <2> QED
    BY <1>8, <2>1, <2>3
<1>11. ASSUME NEW i \in Util!Expansions(M)'
       PROVE  seen'[Util!Cardinality(Util!Expansions(i)')] = frames'[i].v
  <2>1. i \in 1 .. M /\ i \in Util!Expansions(L)
    BY <1>4, <1>6 DEF Util!Expansions
  <2>2. PICK D \in Nat : D = Util!Cardinality(Util!Expansions(i))
    BY <2>1, ExpansionsCounted
  <2>3. D <= C - 1 /\ D # 0
    <3>1. Util!Expansions(i) \in SUBSET (Util!Expansions(L) \ {L}) /\ i \in Util!Expansions(i)
      BY <1>4, <2>1 DEF Util!Expansions
    <3>2. /\ IsFiniteSet(Util!Expansions(L) \ {L})
          /\ Cardinality(Util!Expansions(L) \ {L}) = Cardinality(Util!Expansions(L)) - 1
      BY <1>6, ExpansionsCounted, FS_RemoveElement
    <3>3. Cardinality(Util!Expansions(i)) <= Cardinality(Util!Expansions(L) \ {L})
      BY <3>1, <3>2, FS_Subset
    <3>4. Cardinality(Util!Expansions(i)) # 0
      BY <2>1, <3>1, ExpansionsCounted, FS_EmptySet
    <3> QED
      BY <1>7, <2>1, <2>2, <3>2, <3>3, <3>4, ExpansionsCounted
  <2>4. seen[D] = frames[i].v
    BY <1>1, <1>2, <2>1, <2>2 DEF Util!SeenIsTheStack
  <2> QED
    BY <1>3, <1>4, <1>5, <1>10, <2>1, <2>2, <2>3, <2>4
<1> QED
  BY <1>3, <1>4, <1>8, <1>10, <1>11 DEF Util!SeenIsTheStack

LEMMA UtilSeen ==
    ASSUME Util!TypeOK, Util!SeenIsTheStack, Util!Next
    PROVE  Util!SeenIsTheStack'
<1>1. PICK L \in Nat : L = Len(frames)
  BY DEF Util!TypeOK
<1>2. CASE UNCHANGED <<frames, seen, abandoned>>
  BY <1>1, <1>2, SeenKept
<1>3. CASE Util!CallInspect
  <2>1. arg.v \in Objects /\ arg \in Util!Arguments /\ Len(out) \in Nat /\ UNCHANGED <<seen, abandoned>>
    BY <1>3 DEF Util!CallInspect, Util!Hooked, Util!TypeOK
  <2>2. CASE heap[arg.v].hook \in {"value", "inspect", "catch"}
    <3>1. PICK f : f = [op |-> heap[arg.v].hook, v |-> arg.v, arg |-> arg, pos |-> Len(out)]
      OBVIOUS
    <3>2. f \in Util!Frame /\ f.op # "expand"
      BY <2>1, <2>2, <3>1, FrameTyped
    <3>3. frames' = Append(frames, f)
      BY <1>3, <2>2, <3>1 DEF Util!CallInspect
    <3>4. /\ Len(frames') = L + 1 /\ frames'[L + 1] = f /\ \A i \in 1 .. L : frames'[i] = frames[i]
      BY <1>1, <3>2, <3>3, FramePushed
    <3>5. PICK M \in Nat : M = L + 1
      OBVIOUS
    <3>6. \A i \in 1 .. M : i > L => frames'[i].op # "expand"
      BY <3>2, <3>4, <3>5
    <3>7. /\ M = Len(frames') /\ L <= L /\ L <= M /\ (abandoned' = {} => abandoned = {})
          /\ \A i \in 1 .. L : frames'[i].op = frames[i].op /\ frames'[i].v = frames[i].v
          /\ \A i \in 1 .. L : i > L => frames[i].op # "expand"
      BY <2>1, <3>4, <3>5
    <3> QED
      BY <1>1, <2>1, <3>6, <3>7, SeenKept
  <2>3. CASE heap[arg.v].hook \notin {"value", "inspect", "catch"}
    <3>1. UNCHANGED frames
      BY <1>3, <2>3 DEF Util!CallInspect
    <3> QED
      BY <1>2, <2>1, <3>1
  <2> QED
    BY <2>2, <2>3
<1>4. CASE Util!FormatProperty
  <2>1. frames # <<>> /\ frames' = Util!Advanced /\ UNCHANGED <<seen, abandoned>>
    BY <1>4 DEF Util!FormatProperty, Util!Expanding
  <2>2. DOMAIN frames = 1 .. L /\ frames[L] \in Util!Frame
    BY <1>1, <2>1, TopFrame
  <2>3. Len(frames') = L /\ \A i \in 1 .. L : frames'[i].op = frames[i].op /\ frames'[i].v = frames[i].v
    <3>1. frames' = [frames EXCEPT ![L].pos = @ + 1]
      BY <1>1, <2>1 DEF Util!Advanced
    <3>2. frames \in Seq(Util!Frame) /\ \A i \in 1 .. L : frames[i] \in Util!Frame
      BY <1>1 DEF Util!TypeOK
    <3>3. Len(frames') = L
      BY <1>1, <3>1, <3>2
    <3>4. frames' = [frames EXCEPT ![L] = [frames[L] EXCEPT !.pos = @ + 1]]
      BY <2>2, <3>1
    <3>5. \A f \in Util!Frame : [f EXCEPT !.pos = @ + 1].op = f.op /\ [f EXCEPT !.pos = @ + 1].v = f.v
      BY DEF Util!Frame
    <3> QED
      BY <2>2, <3>2, <3>3, <3>4, <3>5
  <2> QED
    BY <1>1, <2>1, <2>3, SeenKept
<1>5. CASE frames # <<>> /\ frames' = Util!Pop /\ Util!Top.op # "expand" /\ UNCHANGED <<seen, abandoned>>
  <2>1. /\ L # 0 /\ Len(frames') = L - 1 /\ frames[L].op # "expand"
        /\ \A i \in 1 .. L - 1 : frames'[i] = frames[i]
    BY <1>1, <1>5, TopFrame
  <2>2. PICK N \in Nat : N = L - 1
    BY <2>1
  <2>3. \A i \in 1 .. L : i > N => frames[i].op # "expand"
    BY <2>1, <2>2
  <2> QED
    BY <1>1, <1>5, <2>1, <2>2, <2>3, SeenKept
<1>6. CASE Util!Unwind
  <2>1. CASE Util!Top.op = "expand"
    <3>1. abandoned' # {}
      BY <1>6, <2>1 DEF Util!Unwind
    <3> QED
      BY <3>1 DEF Util!SeenIsTheStack
  <2>2. CASE Util!Top.op # "expand"
    BY <1>5, <1>6, <2>2 DEF Util!Unwind
  <2> QED
    BY <2>1, <2>2
<1> QED
  BY <1>2, <1>3, <1>4, <1>5, <1>6, ExpandSeen, ExpandedSeen
     DEF Util!Next, Util!FormatLeaf, Util!StackOverflow, Util!HookReturns

(***************************************************************************)
(* Without inspect methods.                                                *)
(***************************************************************************)
PlainInv == Util!NoMethods => Util!CallsInv /\ Util!TextInv

\* The path q is p and then c.
IsPathTo(q, p, c) ==
    /\ q \in Seq(Util!Values) /\ Len(p) \in Nat /\ Len(q) = Len(p) + 1
    /\ Util!Last(q) = c /\ Util!Front(q) = p
    /\ q[Len(p) + 1] = c /\ \A i \in 1 .. Len(p) : q[i] = p[i]

LEMMA PathTo ==
    ASSUME NEW p \in Seq(Util!Values), NEW c \in Util!Values, NEW q, q = Append(p, c)
    PROVE  IsPathTo(q, p, c)
<1>1. PICK n \in Nat : n = Len(p)
  OBVIOUS
<1>2. PICK S : S = Util!Values
  OBVIOUS
<1>3. p \in Seq(S) /\ c \in S
  BY <1>2
<1>4. q \in Seq(S) /\ Len(q) = n + 1 /\ q[n + 1] = c /\ \A i \in 1 .. n : q[i] = p[i]
  BY <1>1, <1>3, AppendProperties
<1>5. Util!Last(q) = c
  BY <1>4 DEF Util!Last
<1>6. Util!Front(q) = p
  <2>1. PICK r : r = SubSeq(q, 1, n)
    OBVIOUS
  <2>2. Util!Front(q) = r
    BY <1>4, <2>1 DEF Util!Front
  <2>3. \A i \in 1 .. n : q[i] \in S
    BY <1>3, <1>4
  <2>4. /\ SubSeq(q, 1, n) \in Seq(S)
        /\ Len(SubSeq(q, 1, n)) = IF 1 <= n THEN n - 1 + 1 ELSE 0
        /\ \A i \in 1 .. n - 1 + 1 : SubSeq(q, 1, n)[i] = q[1 + i - 1]
    BY <1>4, <2>3, SubSeqProperties
  <2>5. r \in Seq(S) /\ Len(r) = n /\ \A i \in 1 .. n : r[i] = p[i]
    BY <1>1, <1>4, <2>1, <2>4
  <2>6. r = p
    BY <1>1, <1>3, <2>5, SeqEqual
  <2> QED
    BY <2>2, <2>6
<1> QED
  BY <1>1, <1>2, <1>4, <1>5, <1>6 DEF IsPathTo

\* What a call is for depends on the ways to it only.
LEMMA OptionsKept ==
    ASSUME UNCHANGED Util!options
    PROVE  /\ \A p : (Util!Opens(p)' <=> Util!Opens(p)) /\ Util!Text(p)' = Util!Text(p)
           /\ \A p, q : Util!IsChild(p, q)' <=> Util!IsChild(p, q)
           /\ \A v : Util!Hooked(v)' <=> Util!Hooked(v)
           /\ \A v : Util!HasKeys(v)' <=> Util!HasKeys(v)
           /\ Util!NoMethods' <=> Util!NoMethods
<1>1. UNCHANGED <<heap, depth, customInspect, root>>
  BY DEF Util!options
<1>2. \A v : Util!HasKeys(v)' <=> Util!HasKeys(v)
  BY <1>1 DEF Util!HasKeys
<1>3. \A v : Util!Hooked(v)' <=> Util!Hooked(v)
  BY <1>1 DEF Util!Hooked
<1>4. \A p : Util!Opens(p)' <=> Util!Opens(p)
  BY <1>1, <1>2 DEF Util!Opens
<1>5. \A p : Util!Text(p)' = Util!Text(p)
  BY <1>1, <1>2, <1>4 DEF Util!Text
<1>6. \A p, q : Util!IsChild(p, q)' <=> Util!IsChild(p, q)
  BY <1>1, <1>4 DEF Util!IsChild
<1>7. Util!NoMethods' <=> Util!NoMethods
  BY <1>3 DEF Util!NoMethods
<1> QED
  BY <1>2, <1>3, <1>4, <1>5, <1>6, <1>7

\* What is on the way to a call is what is being expanded.
LEMMA CallOpens ==
    ASSUME Util!TypeOK, NEW task \in Util!Arguments, NEW n \in Nat, n # 0, Util!IsCall(task, n)
    PROVE  /\ Util!Last(task.path) = task.v
           /\ Util!Range(Util!Front(task.path)) = {seen[i] : i \in 1 .. n - 1}
           /\ task.v \notin {seen[i] : i \in 1 .. n - 1} =>
                 (Util!Opens(task.path) <=> Util!HasKeys(task.v) /\ ~Util!TooDeep(task.recurse))
<1>1. PICK p \in Seq(Util!Values) : p = task.path
  BY OfArguments
<1>2. /\ Len(p) = n /\ p[n] = task.v /\ \A i \in 1 .. n - 1 : p[i] = seen[i]
      /\ task.recurse = IF depth = Null THEN Null ELSE depth - (n - 1)
  BY <1>1 DEF Util!IsCall
<1>3. Util!Last(p) = task.v
  BY <1>2 DEF Util!Last
<1>4. PICK g : g = Util!Front(p)
  OBVIOUS
<1>5. g \in Seq(Util!Values) /\ DOMAIN g = 1 .. n - 1 /\ \A i \in 1 .. n - 1 : g[i] = p[i]
  <2>1. p # <<>>
    BY <1>2
  <2>2. g = Front(p)
    BY <1>4 DEF Util!Front, Front
  <2> QED
    BY <1>2, <2>1, <2>2, FrontOfStack
<1>6. Util!Range(g) = {seen[i] : i \in 1 .. n - 1}
  BY <1>2, <1>5 DEF Util!Range
<1>7. ASSUME task.v \notin {seen[i] : i \in 1 .. n - 1}
      PROVE  Util!Opens(p) <=> Util!HasKeys(task.v) /\ ~Util!TooDeep(task.recurse)
  <2>1. Util!Opens(p) <=> Util!HasKeys(task.v) /\ (depth # Null => n - 1 <= depth)
    BY <1>2, <1>3, <1>4, <1>6, <1>7 DEF Util!Opens
  <2>2. (depth # Null => n - 1 <= depth) <=> ~Util!TooDeep(task.recurse)
    <3>1. depth \in Nat \cup {Null} /\ Null \notin Int
      BY ComponentAssumptions DEF Util!NodeUtilAssumption, Util!TypeOK
    <3>2. CASE depth = Null
      BY <1>2, <3>2 DEF Util!TooDeep
    <3>3. CASE depth # Null
      <4>1. depth \in Nat /\ task.recurse = depth - (n - 1)
        BY <1>2, <3>1, <3>3
      <4>2. task.recurse \in Int /\ task.recurse # Null
        BY <3>1, <4>1
      <4> QED
        BY <3>3, <4>1, <4>2 DEF Util!TooDeep
    <3> QED
      BY <3>2, <3>3
  <2> QED
    BY <2>1, <2>2
<1> QED
  BY <1>1, <1>3, <1>4, <1>6, <1>7

\* The call that begins.
LEMMA CallBegins ==
    ASSUME Util!TypeOK, Util!CallsInv, mode = "call"
    PROVE  /\ arg \in Util!Arguments /\ arg.path \in Seq(Util!Values) /\ arg.v # "accessor"
           /\ Util!Last(arg.path) = arg.v
           /\ Util!Range(Util!Front(arg.path)) = Util!Range(seen) /\ arg.v \notin Util!Range(seen)
           /\ Util!Opens(arg.path) <=> Util!HasKeys(arg.v) /\ ~Util!TooDeep(arg.recurse)
<1>1. PICK L \in Nat : L = Len(frames)
  BY DEF Util!TypeOK
<1>2. PICK n \in Nat : n = L + 1
  OBVIOUS
<1>3. /\ arg \in Util!Arguments /\ arg.v # "accessor" /\ n # 0 /\ Util!IsCall(arg, n)
      /\ arg.v \notin Util!Range(seen) /\ seen \in Seq(Objects) /\ Len(seen) = L
  BY <1>1, <1>2 DEF Util!CallsInv, Util!TypeOK
<1>4. Util!Range(seen) = {seen[i] : i \in 1 .. n - 1}
  BY <1>2, <1>3 DEF Util!Range
<1> QED
  BY <1>3, <1>4, CallOpens, OfArguments

LEMMA WrittenMore ==
    ASSUME Util!TypeOK, NEW path \in Seq(Util!Values), NEW text \in Util!Labels,
           Util!Writes(path, text)
    PROVE  /\ Util!Written' = Util!Written \cup {path}
           /\ (\A i \in DOMAIN out : out[i][2] = Util!Text(out[i][1])) /\ text = Util!Text(path) =>
                 \A i \in DOMAIN out' : out'[i][2] = Util!Text(out'[i][1])
<1>1. PICK n \in Nat : n = Len(out)
  BY DEF Util!TypeOK
<1>2. PICK m \in Nat : m = n + 1
  OBVIOUS
<1>3. /\ DOMAIN out = 1 .. n /\ DOMAIN out' = 1 .. m /\ out'[m] = <<path, text>>
      /\ \A i \in 1 .. n : out'[i] = out[i]
  BY <1>1, <1>2, TextWritten
<1>4. out'[m][1] = path /\ out'[m][2] = text
  BY <1>3
<1>5. Util!Written' = Util!Written \cup {path}
  BY <1>2, <1>3, <1>4 DEF Util!Written
<1>6. ASSUME \A i \in 1 .. n : out[i][2] = Util!Text(out[i][1]), text = Util!Text(path)
      PROVE  \A i \in 1 .. m : out'[i][2] = Util!Text(out'[i][1])
  <2> TAKE i \in 1 .. m
  <2>1. CASE i = m
    BY <1>4, <1>6, <2>1
  <2>2. CASE i # m
    <3>1. i \in 1 .. n
      BY <1>2, <2>2
    <3> QED
      BY <1>3, <1>6, <3>1
  <2> QED
    BY <2>1, <2>2
<1> QED
  BY <1>3, <1>5, <1>6

\* What stands in an expansion on the stack.
LEMMA ExpansionOnStack ==
    ASSUME Util!TypeOK, Util!CallsInv, NEW i \in DOMAIN frames
    PROVE  /\ i \in Nat /\ i # 0 /\ frames[i] \in Util!Frame /\ frames[i].v \in Objects
           /\ frames[i].arg \in Util!Arguments /\ frames[i].arg.path \in Seq(Util!Values)
           /\ Util!Last(frames[i].arg.path) = frames[i].v
           /\ Util!Range(Util!Front(frames[i].arg.path)) = {seen[j] : j \in 1 .. i - 1}
<1>1. i \in Nat /\ i # 0 /\ frames[i] \in Util!Frame
  BY DEF Util!TypeOK
<1>2. Util!IsCall(frames[i].arg, i) /\ frames[i].arg.v = frames[i].v
  BY DEF Util!CallsInv
<1> QED
  BY <1>1, <1>2, CallOpens, OfFrame, OfArguments

\* As many objects as there are cannot fill the stack.
LEMMA StackSuffices ==
    ASSUME IsFiniteSet(Objects), Cardinality(Objects) < StackLimit, Util!TypeOK, Util!CallsInv
    PROVE  Len(frames) < StackLimit
<1>1. PICK L \in Nat : L = Len(frames)
  BY DEF Util!TypeOK
<1>2. seen \in [1 .. L -> Objects] /\ \A i, j \in 1 .. L : seen[i] = seen[j] => i = j
  BY <1>1 DEF Util!TypeOK, Util!CallsInv
<1>3. seen \in Injection(1 .. L, Objects)
  BY <1>2 DEF Injection, IsInjective
<1>4. Cardinality(1 .. L) <= Cardinality(Objects)
  BY <1>3, FS_Injection
<1>5. Cardinality(1 .. L) = L /\ Cardinality(Objects) \in Nat
  BY FS_Interval, FS_CardinalityType
<1> QED
  BY <1>1, <1>4, <1>5, ComponentAssumptions DEF Util!NodeUtilAssumption

LEMMA FormatLeafPlain ==
    ASSUME Util!TypeOK, Util!CallsInv, Util!TextInv, Util!FormatLeaf
    PROVE  Util!CallsInv' /\ Util!TextInv'
<1>1. /\ mode = "call" /\ mode' = "return" /\ UNCHANGED <<Util!options, frames, seen>>
      /\ UNCHANGED <<heap, depth, customInspect, root>>
      /\ Util!Writes(arg.path, Util!TextOf(arg.v, arg.recurse))
      /\ ~(Util!HasKeys(arg.v) /\ ~Util!TooDeep(arg.recurse))
  BY DEF Util!FormatLeaf, Util!Called, Util!Goes, Util!options
<1>2. PICK p \in Seq(Util!Values) : p = arg.path
  BY <1>1, CallBegins
<1>3. /\ Util!Last(p) = arg.v /\ arg.v \notin Util!Range(Util!Front(p)) /\ ~Util!Opens(p)
      /\ arg.v \in Util!Values /\ arg.v # "accessor"
  BY <1>1, <1>2, CallBegins, OfArguments
<1>4. PICK text : text = Util!TextOf(arg.v, arg.recurse)
  OBVIOUS
<1>5. text = Util!Text(p)
  <2>1. CASE arg.v = "primitive"
    BY <1>3, <1>4, <2>1 DEF Util!Text, Util!TextOf
  <2>2. CASE arg.v # "primitive"
    BY <1>3, <1>4, <2>2 DEF Util!Text, Util!TextOf
  <2> QED
    BY <2>1, <2>2
<1>6. text \in Util!Labels
  <2>1. arg.v \in Objects => heap[arg.v].kind \in Util!Kinds
    BY OfHeap
  <2> QED
    BY <1>3, <1>4, <2>1 DEF Util!TextOf, Util!Labels, Util!Values
<1>7. /\ Util!Written' = Util!Written \cup {p}
      /\ \A i \in DOMAIN out' : out'[i][2] = Util!Text(out'[i][1])
  BY <1>1, <1>2, <1>4, <1>5, <1>6, WrittenMore DEF Util!TextInv
<1>8. /\ \A q : (Util!Opens(q)' <=> Util!Opens(q)) /\ Util!Text(q)' = Util!Text(q)
      /\ \A q, r : Util!IsChild(q, r)' <=> Util!IsChild(q, r)
  BY <1>1, OptionsKept
<1>9. Util!CallsInv'
  <2>1. \A task, n : Util!IsCall(task, n)' <=> Util!IsCall(task, n)
    BY <1>1 DEF Util!IsCall
  <2> QED
    BY <1>1, <1>8, <2>1 DEF Util!CallsInv
<1>10. \A q : Util!Reached(q)' <=> q \in Util!Written'
  BY <1>1 DEF Util!Reached
<1>11. \A q : Util!Reached(q) => q \in Util!Written'
  BY <1>2, <1>7 DEF Util!Reached
<1>12. \A i \in DOMAIN frames' :
          /\ frames'[i].arg.path \in Util!Written'
          /\ \A k \in 1 .. frames'[i].pos - 1 :
                Append(frames'[i].arg.path, heap'[frames'[i].v].props[k]) \in Util!Written'
  BY <1>1, <1>7, <1>11 DEF Util!TextInv
<1>13. \A q \in Util!Written' : Util!Opens(q) /\ (\A i \in DOMAIN frames' : frames'[i].arg.path # q) =>
          \A c \in Util!Range(heap'[Util!Last(q)].props) : Append(q, c) \in Util!Written'
  BY <1>1, <1>3, <1>7 DEF Util!TextInv
<1>14. \A q \in Util!Written' : q = <<root>> \/ \E r \in Util!Written' : Util!IsChild(r, q)
  BY <1>1, <1>2, <1>7 DEF Util!TextInv
<1>15. Util!Reached(<<root>>)'
  <2>1. Util!Reached(<<root>>)
    BY DEF Util!TextInv
  <2> QED
    BY <1>1, <1>7, <1>2, <2>1 DEF Util!Reached
<1> QED
  BY <1>1, <1>7, <1>8, <1>9, <1>10, <1>12, <1>13, <1>14, <1>15 DEF Util!TextInv

LEMMA ExpandPlain ==
    ASSUME Util!TypeOK, Util!CallsInv, Util!TextInv, Util!Expand
    PROVE  Util!CallsInv' /\ Util!TextInv'
<1>1. /\ mode = "call" /\ mode' = "return" /\ UNCHANGED <<heap, depth, customInspect, root>>
      /\ UNCHANGED Util!options
      /\ Util!Writes(arg.path, "expanded") /\ seen' = Append(seen, arg.v)
      /\ Util!HasKeys(arg.v) /\ ~Util!TooDeep(arg.recurse) /\ arg.v \in Objects
  BY DEF Util!Expand, Util!Called, Util!Goes, Util!options, Util!HasKeys
<1>2. PICK p \in Seq(Util!Values) : p = arg.path
  BY <1>1, CallBegins
<1>3. /\ Util!Last(p) = arg.v /\ arg.v \notin Util!Range(Util!Front(p)) /\ Util!Opens(p)
      /\ arg \in Util!Arguments /\ arg.v \notin Util!Range(seen)
  BY <1>1, <1>2, CallBegins
<1>4. "expanded" = Util!Text(p)
  <2>1. arg.v # "primitive" /\ arg.v # "accessor"
    BY <1>1, ComponentAssumptions DEF Util!NodeUtilAssumption
  <2> QED
    BY <1>3, <2>1 DEF Util!Text
<1>5. /\ Util!Written' = Util!Written \cup {p}
      /\ \A i \in DOMAIN out' : out'[i][2] = Util!Text(out'[i][1])
  <2>1. "expanded" \in Util!Labels
    BY DEF Util!Labels
  <2> QED
    BY <1>1, <1>2, <1>4, <2>1, WrittenMore DEF Util!TextInv
<1>6. PICK f : f = [op |-> "expand", v |-> arg.v, arg |-> arg, pos |-> 1]
  OBVIOUS
<1>7. f \in Util!Frame /\ f.op = "expand" /\ f.v = arg.v /\ f.arg = arg /\ f.pos = 1
  BY <1>1, <1>3, <1>6, FrameTyped
<1>8. PICK L \in Nat : L = Len(frames)
  BY DEF Util!TypeOK
<1>9. PICK M \in Nat : M = L + 1
  OBVIOUS
<1>10. /\ DOMAIN frames = 1 .. L /\ DOMAIN frames' = 1 .. M /\ Len(frames') = M
       /\ frames'[M] = f /\ \A i \in 1 .. L : frames'[i] = frames[i]
  <2>1. frames' = Append(frames, f)
    BY <1>6 DEF Util!Expand
  <2> QED
    BY <1>7, <1>8, <1>9, <2>1, FramePushed
<1>11. /\ seen \in Seq(Objects) /\ Len(seen) = L /\ DOMAIN seen = 1 .. L
       /\ Len(seen') = M /\ DOMAIN seen' = 1 .. M
       /\ seen'[M] = arg.v /\ \A i \in 1 .. L : seen'[i] = seen[i]
  <2>1. seen \in Seq(Objects) /\ Len(seen) = L
    BY <1>8 DEF Util!CallsInv, Util!TypeOK
  <2> QED
    BY <1>1, <1>9, <2>1, AppendProperties
<1>12. /\ \A q : (Util!Opens(q)' <=> Util!Opens(q)) /\ Util!Text(q)' = Util!Text(q)
       /\ \A q, r : Util!IsChild(q, r)' <=> Util!IsChild(q, r)
  BY <1>1, OptionsKept
<1>13. ASSUME NEW i \in 1 .. M
       PROVE  /\ frames'[i].op = "expand" /\ frames'[i].arg.v = frames'[i].v
              /\ seen'[i] = frames'[i].v /\ Util!Opens(frames'[i].arg.path)
              /\ \A task : task = frames'[i].arg => Util!IsCall(task, i)'
  <2>1. CASE i = M
    <3>1. Util!IsCall(arg, M)
      BY <1>1, <1>8, <1>9 DEF Util!CallsInv
    <3>2. \A j \in 1 .. M - 1 : seen'[j] = seen[j]
      BY <1>9, <1>11
    <3>3. ASSUME NEW task, task = arg
          PROVE  Util!IsCall(task, M)'
      BY <1>1, <3>1, <3>2, <3>3 DEF Util!IsCall
    <3> QED
      BY <1>2, <1>3, <1>7, <1>10, <1>11, <2>1, <3>3
  <2>2. CASE i # M
    <3>1. i \in 1 .. L /\ frames'[i] = frames[i]
      BY <1>9, <1>10, <2>2
    <3>2. /\ frames[i].op = "expand" /\ frames[i].arg.v = frames[i].v /\ Util!IsCall(frames[i].arg, i)
          /\ seen[i] = frames[i].v /\ Util!Opens(frames[i].arg.path)
      BY <1>10, <3>1 DEF Util!CallsInv
    <3>3. \A j \in 1 .. i - 1 : seen'[j] = seen[j]
      BY <1>11, <3>1
    <3>4. ASSUME NEW task, task = frames[i].arg
          PROVE  Util!IsCall(task, i)'
      BY <1>1, <3>2, <3>3, <3>4 DEF Util!IsCall
    <3> QED
      BY <1>11, <3>1, <3>2, <3>4
  <2> QED
    BY <2>1, <2>2
<1>14. \A i, j \in 1 .. M : seen'[i] = seen'[j] => i = j
  <2>1. \A i, j \in 1 .. L : seen[i] = seen[j] => i = j
    BY <1>11 DEF Util!CallsInv
  <2>2. \A i \in 1 .. L : seen[i] # arg.v
    BY <1>3, <1>11 DEF Util!Range
  <2> QED
    BY <1>9, <1>11, <2>1, <2>2
<1>15. Util!CallsInv'
  BY <1>1, <1>10, <1>11, <1>12, <1>13, <1>14 DEF Util!CallsInv
<1>16. \A q : Util!Reached(q)' <=> q \in Util!Written'
  BY <1>1 DEF Util!Reached
<1>17. \A q : Util!Reached(q) => q \in Util!Written'
  BY <1>2, <1>5 DEF Util!Reached
<1>18. \A i \in 1 .. M :
          /\ frames'[i].arg.path \in Util!Written'
          /\ \A k \in 1 .. frames'[i].pos - 1 :
                Append(frames'[i].arg.path, heap'[frames'[i].v].props[k]) \in Util!Written'
  <2> TAKE i \in 1 .. M
  <2>1. CASE i = M
    BY <1>2, <1>5, <1>7, <1>10, <2>1
  <2>2. CASE i # M
    <3>1. i \in DOMAIN frames /\ frames'[i] = frames[i]
      BY <1>9, <1>10, <2>2
    <3> QED
      BY <1>1, <1>5, <1>17, <3>1 DEF Util!TextInv
  <2> QED
    BY <2>1, <2>2
<1>19. \A q \in Util!Written' : Util!Opens(q) /\ (\A i \in 1 .. M : frames'[i].arg.path # q) =>
          \A c \in Util!Range(heap'[Util!Last(q)].props) : Append(q, c) \in Util!Written'
  <2> SUFFICES ASSUME NEW q \in Util!Written', Util!Opens(q), \A i \in 1 .. M : frames'[i].arg.path # q
               PROVE  \A c \in Util!Range(heap'[Util!Last(q)].props) : Append(q, c) \in Util!Written'
    OBVIOUS
  <2>1. M \in 1 .. M /\ \A i \in DOMAIN frames : i \in 1 .. M /\ frames'[i] = frames[i]
    BY <1>9, <1>10
  <2>2. q # p /\ q \in Util!Written
    BY <1>2, <1>5, <1>7, <1>10, <2>1
  <2>3. \A i \in DOMAIN frames : frames[i].arg.path # q
    BY <2>1
  <2> QED
    BY <1>1, <1>5, <2>2, <2>3 DEF Util!TextInv
<1>20. \A q \in Util!Written' : q = <<root>> \/ \E r \in Util!Written' : Util!IsChild(r, q)
  BY <1>1, <1>2, <1>5 DEF Util!TextInv
<1>21. Util!Reached(<<root>>)'
  <2>1. Util!Reached(<<root>>)
    BY DEF Util!TextInv
  <2> QED
    BY <1>1, <1>2, <1>5, <2>1 DEF Util!Reached
<1> QED
  BY <1>1, <1>5, <1>10, <1>12, <1>15, <1>16, <1>18, <1>19, <1>20, <1>21 DEF Util!TextInv

LEMMA ExpandedPlain ==
    ASSUME Util!TypeOK, Util!CallsInv, Util!TextInv, Util!Expanded
    PROVE  Util!CallsInv' /\ Util!TextInv'
<1>1. /\ mode = "return" /\ frames # <<>> /\ frames' = Util!Pop /\ seen' = Util!Front(seen)
      /\ Util!Top.pos > Len(heap[Util!Top.v].props)
      /\ UNCHANGED <<heap, depth, customInspect, root, mode, out>> /\ UNCHANGED Util!options
  BY DEF Util!Expanded, Util!Expanding, Util!options
<1>2. PICK L \in Nat : L = Len(frames)
  BY DEF Util!TypeOK
<1>3. /\ L # 0 /\ DOMAIN frames = 1 .. L /\ Util!Top = frames[L]
      /\ Len(frames') = L - 1 /\ DOMAIN frames' = 1 .. L - 1
      /\ \A i \in 1 .. L - 1 : frames'[i] = frames[i]
  BY <1>1, <1>2, TopFrame
<1>4. PICK M \in Nat : M = L - 1
  BY <1>3
<1>5. /\ seen \in Seq(Objects) /\ Len(seen) = L /\ DOMAIN seen = 1 .. L
      /\ Len(seen') = M /\ DOMAIN seen' = 1 .. M /\ \A i \in 1 .. M : seen'[i] = seen[i]
  <2>1. seen \in Seq(Objects) /\ Len(seen) = L
    BY <1>2 DEF Util!CallsInv, Util!TypeOK
  <2>2. seen' = SubSeq(seen, 1, M)
    BY <1>1, <1>4, <2>1 DEF Util!Front
  <2>3. \A i \in 1 .. M : seen[i] \in Objects
    BY <1>3, <1>4, <2>1
  <2>4. /\ SubSeq(seen, 1, M) \in Seq(Objects)
        /\ Len(SubSeq(seen, 1, M)) = IF 1 <= M THEN M - 1 + 1 ELSE 0
        /\ \A i \in 1 .. M - 1 + 1 : SubSeq(seen, 1, M)[i] = seen[1 + i - 1]
    BY <2>1, <2>3, SubSeqProperties
  <2> QED
    BY <1>4, <2>1, <2>2, <2>4
<1>6. /\ \A q : (Util!Opens(q)' <=> Util!Opens(q)) /\ Util!Text(q)' = Util!Text(q)
      /\ \A q, r : Util!IsChild(q, r)' <=> Util!IsChild(q, r)
  BY <1>1, OptionsKept
<1>7. ASSUME NEW i \in 1 .. M
      PROVE  /\ frames'[i].op = "expand" /\ frames'[i].arg.v = frames'[i].v
             /\ seen'[i] = frames'[i].v /\ Util!Opens(frames'[i].arg.path)
             /\ \A task : task = frames'[i].arg => Util!IsCall(task, i)'
  <2>1. i \in DOMAIN frames /\ frames'[i] = frames[i]
    BY <1>3, <1>4
  <2>2. /\ frames[i].op = "expand" /\ frames[i].arg.v = frames[i].v /\ Util!IsCall(frames[i].arg, i)
        /\ seen[i] = frames[i].v /\ Util!Opens(frames[i].arg.path)
    BY <2>1 DEF Util!CallsInv
  <2>3. \A j \in 1 .. i - 1 : seen'[j] = seen[j]
    BY <1>5
  <2>4. ASSUME NEW task, task = frames[i].arg
        PROVE  Util!IsCall(task, i)'
    BY <1>1, <2>2, <2>3, <2>4 DEF Util!IsCall
  <2> QED
    BY <1>5, <2>1, <2>2, <2>4
<1>8. \A i, j \in 1 .. M : seen'[i] = seen'[j] => i = j
  <2>1. \A i, j \in 1 .. L : seen[i] = seen[j] => i = j
    BY <1>5 DEF Util!CallsInv
  <2> QED
    BY <1>4, <1>5, <2>1
<1>9. Util!CallsInv'
  BY <1>1, <1>3, <1>4, <1>5, <1>6, <1>7, <1>8 DEF Util!CallsInv
<1>10. Util!Written' = Util!Written
  BY <1>1 DEF Util!Written
<1>11. \A q : (Util!Reached(q)' <=> q \in Util!Written) /\ (Util!Reached(q) <=> q \in Util!Written)
  BY <1>1, <1>10 DEF Util!Reached
<1>12. \A i \in 1 .. M :
          /\ frames'[i].arg.path \in Util!Written
          /\ \A k \in 1 .. frames'[i].pos - 1 :
                Append(frames'[i].arg.path, heap[frames'[i].v].props[k]) \in Util!Written
  <2> TAKE i \in 1 .. M
  <2>1. i \in DOMAIN frames /\ frames'[i] = frames[i]
    BY <1>3, <1>4
  <2> QED
    BY <1>11, <2>1 DEF Util!TextInv
<1>13. PICK p : p = frames[L].arg.path
  OBVIOUS
<1>14. \A c \in Util!Range(heap[Util!Last(p)].props) : Append(p, c) \in Util!Written
  <2>1. L \in DOMAIN frames
    BY <1>3
  <2>2. /\ frames[L] \in Util!Frame /\ frames[L].v \in Objects /\ Util!Last(p) = frames[L].v
    BY <1>13, <2>1, ExpansionOnStack
  <2>3. /\ Len(heap[frames[L].v].props) \in Nat
        /\ DOMAIN heap[frames[L].v].props = 1 .. Len(heap[frames[L].v].props)
    BY <2>2, OfHeap
  <2>4. frames[L].pos \in Nat /\ frames[L].pos > Len(heap[frames[L].v].props)
    BY <1>1, <1>3, <2>2, OfFrame
  <2>5. \A k \in 1 .. frames[L].pos - 1 : Append(p, heap[frames[L].v].props[k]) \in Util!Written
    BY <1>11, <1>13, <2>1 DEF Util!TextInv
  <2>6. \A k \in DOMAIN heap[frames[L].v].props : k \in 1 .. frames[L].pos - 1
    BY <2>3, <2>4
  <2> QED
    BY <2>2, <2>5, <2>6 DEF Util!Range
<1>15. \A q \in Util!Written : Util!Opens(q) /\ (\A i \in 1 .. M : frames'[i].arg.path # q) =>
          \A c \in Util!Range(heap[Util!Last(q)].props) : Append(q, c) \in Util!Written
  <2> SUFFICES ASSUME NEW q \in Util!Written, Util!Opens(q), \A i \in 1 .. M : frames'[i].arg.path # q, q # p
               PROVE  \A c \in Util!Range(heap[Util!Last(q)].props) : Append(q, c) \in Util!Written
    BY <1>14
  <2>1. \A i \in DOMAIN frames : i = L \/ (i \in 1 .. M /\ frames'[i] = frames[i])
    BY <1>3, <1>4
  <2>2. \A i \in DOMAIN frames : frames[i].arg.path # q
    BY <1>13, <2>1
  <2> QED
    BY <2>2 DEF Util!TextInv
<1>16. /\ \A q \in Util!Written : q = <<root>> \/ \E r \in Util!Written : Util!IsChild(r, q)
       /\ <<root>> \in Util!Written
  <2>1. Util!Reached(<<root>>)
    BY DEF Util!TextInv
  <2> QED
    BY <1>11, <2>1 DEF Util!TextInv
<1>17. Util!Reached(<<root>>)'
  BY <1>1, <1>10, <1>16 DEF Util!Reached
<1>18. \A i \in DOMAIN out' : out'[i][2] = Util!Text(out'[i][1])
  BY <1>1 DEF Util!TextInv
<1> QED
  BY <1>1, <1>3, <1>4, <1>6, <1>9, <1>10, <1>11, <1>12, <1>15, <1>16, <1>17, <1>18 DEF Util!TextInv

LEMMA FormatPropertyPlain ==
    ASSUME Util!TypeOK, Util!PositionsInv, Util!CallsInv, Util!TextInv, Util!FormatProperty
    PROVE  Util!CallsInv' /\ Util!TextInv'
<1>1. /\ mode = "return" /\ frames # <<>> /\ Util!Top.op = "expand"
      /\ Util!Top.pos <= Len(heap[Util!Top.v].props) /\ frames' = Util!Advanced
      /\ UNCHANGED <<heap, depth, customInspect, root, seen>> /\ UNCHANGED Util!options
  BY DEF Util!FormatProperty, Util!Expanding, Util!options
<1>2. PICK L \in Nat : L = Len(frames)
  BY DEF Util!TypeOK
<1>3. PICK f \in Util!Frame : f = Util!Top
  BY <1>1, TopFrame
<1>4. /\ f = frames[L] /\ L # 0 /\ DOMAIN frames = 1 .. L /\ L \in DOMAIN frames
      /\ f.v \in Objects /\ f.arg \in Util!Arguments /\ f.pos \in Nat
      /\ \A i \in 1 .. L : frames[i] \in Util!Frame
  BY <1>1, <1>2, <1>3, TopFrame, OfFrame DEF Util!TypeOK
<1>5. PICK p \in Seq(Util!Values) : p = f.arg.path
  BY <1>4, OfArguments
<1>6. PICK P \in Nat : P = f.pos
  BY <1>4
<1>7. /\ P \in 1 .. Len(heap[f.v].props) /\ heap[f.v].props[P] \in Util!Values
      /\ P \in DOMAIN heap[f.v].props
  <2>1. P \in 1 .. Len(heap[f.v].props) + 1
    BY <1>1, <1>3, <1>4, <1>6 DEF Util!PositionsInv
  <2> QED
    BY <1>1, <1>3, <1>4, <1>6, <2>1, OfHeap
<1>8. PICK child \in Util!Values : child = heap[f.v].props[P]
  BY <1>7
<1>9. /\ DOMAIN frames' = 1 .. L /\ Len(frames') = L
      /\ \A i \in 1 .. L : i # L => frames'[i] = frames[i]
      /\ frames'[L].op = f.op /\ frames'[L].v = f.v /\ frames'[L].arg = f.arg /\ frames'[L].pos = P + 1
  <2>1. PICK g : g = [f EXCEPT !.pos = P + 1]
    OBVIOUS
  <2>2. g \in Util!Frame /\ g.op = f.op /\ g.v = f.v /\ g.arg = f.arg /\ g.pos = P + 1
    <3>1. P + 1 \in Nat
      OBVIOUS
    <3> QED
      BY <2>1, <3>1 DEF Util!Frame
  <2>3. frames' = [frames EXCEPT ![L] = g]
    BY <1>1, <1>2, <1>4, <1>6, <2>1 DEF Util!Advanced
  <2>4. frames \in Seq(Util!Frame)
    BY DEF Util!TypeOK
  <2>5. Len(frames') = L /\ DOMAIN frames' = 1 .. L /\ frames'[L] = g
    BY <1>1, <1>2, <1>4, <2>2, <2>3, <2>4, TopUpdated
  <2>6. \A i \in 1 .. L : i # L => frames'[i] = frames[i]
    BY <1>1, <1>2, <1>4, <2>2, <2>3, <2>4, TopUpdated
  <2> QED
    BY <2>2, <2>5, <2>6
<1>10. /\ Util!IsCall(f.arg, L) /\ f.arg.v = f.v /\ seen[L] = f.v /\ Util!Opens(p) /\ p \in Util!Written
       /\ Util!Last(p) = f.v
  BY <1>4, <1>5, ExpansionOnStack DEF Util!CallsInv, Util!TextInv
<1>11. /\ \A q : (Util!Opens(q)' <=> Util!Opens(q)) /\ Util!Text(q)' = Util!Text(q)
       /\ \A q, r : Util!IsChild(q, r)' <=> Util!IsChild(q, r)
  BY <1>1, OptionsKept
<1>12. PICK q : q = Append(p, child)
  OBVIOUS
<1>13. /\ q \in Seq(Util!Values) /\ Util!Last(q) = child /\ Util!Front(q) = p
       /\ Len(p) \in Nat /\ Len(q) = Len(p) + 1 /\ q[Len(p) + 1] = child
       /\ \A i \in 1 .. Len(p) : q[i] = p[i]
  <2>1. IsPathTo(q, p, child)
    BY <1>12, PathTo
  <2> QED
    BY <2>1 DEF IsPathTo
<1>14. Util!IsChild(p, q)
  BY <1>7, <1>8, <1>10, <1>12 DEF Util!IsChild, Util!Range
<1>15. /\ Len(p) = L /\ p[L] = f.v /\ p[1] = root /\ \A i \in 1 .. L - 1 : p[i] = seen[i]
       /\ f.arg.recurse = IF depth = Null THEN Null ELSE depth - (L - 1)
  BY <1>5, <1>10 DEF Util!IsCall
<1>16. seen \in Seq(Objects) /\ Len(seen) = L /\ DOMAIN seen = 1 .. L
  BY <1>2 DEF Util!CallsInv, Util!TypeOK
<1>17. Util!Range(p) = Util!Range(seen)
  <2>1. DOMAIN p = 1 .. L /\ \A i \in 1 .. L : p[i] = seen[i]
    BY <1>10, <1>15
  <2> QED
    BY <1>16, <2>1 DEF Util!Range
\* What the frames say stays true.
<1>18. ASSUME NEW i \in 1 .. L
       PROVE  /\ frames'[i].op = "expand" /\ frames'[i].arg.v = frames'[i].v
              /\ seen'[i] = frames'[i].v /\ Util!Opens(frames'[i].arg.path)
              /\ \A task : task = frames'[i].arg => Util!IsCall(task, i)'
              /\ frames'[i].arg = frames[i].arg /\ frames'[i].v = frames[i].v
  <2>1. frames'[i].op = frames[i].op /\ frames'[i].arg = frames[i].arg /\ frames'[i].v = frames[i].v
    BY <1>4, <1>9
  <2>2. /\ frames[i].op = "expand" /\ frames[i].arg.v = frames[i].v /\ Util!IsCall(frames[i].arg, i)
        /\ seen[i] = frames[i].v /\ Util!Opens(frames[i].arg.path)
    BY <1>4 DEF Util!CallsInv
  <2>3. ASSUME NEW task, task = frames[i].arg
        PROVE  Util!IsCall(task, i)'
    BY <1>1, <2>2, <2>3 DEF Util!IsCall
  <2> QED
    BY <1>1, <2>1, <2>2, <2>3
<1>19. \A i, j \in DOMAIN seen' : seen'[i] = seen'[j] => i = j
  BY <1>1 DEF Util!CallsInv
<1>20. /\ \A r : Util!Reached(r) <=> r \in Util!Written
       /\ \A r \in Util!Written : r = <<root>> \/ \E s \in Util!Written : Util!IsChild(s, r)
       /\ <<root>> \in Util!Written
  <2>1. \A r : Util!Reached(r) <=> r \in Util!Written
    BY <1>1 DEF Util!Reached
  <2> QED
    BY <2>1 DEF Util!TextInv
<1>21. ASSUME NEW W, Util!Written \subseteq W, q \in W
       PROVE  \A i \in 1 .. L :
                 /\ frames'[i].arg.path \in W
                 /\ \A k \in 1 .. frames'[i].pos - 1 :
                       Append(frames'[i].arg.path, heap[frames'[i].v].props[k]) \in W
  <2> TAKE i \in 1 .. L
  <2>1. /\ frames[i].arg.path \in W
        /\ \A k \in 1 .. frames[i].pos - 1 :
              Append(frames[i].arg.path, heap[frames[i].v].props[k]) \in W
    BY <1>4, <1>20, <1>21 DEF Util!TextInv
  <2>2. CASE i = L
    <3>1. \A k \in 1 .. P : k = P \/ k \in 1 .. P - 1
      OBVIOUS
    <3>2. \A k \in 1 .. P : Append(p, heap[f.v].props[k]) \in W
      BY <1>4, <1>5, <1>6, <1>8, <1>12, <1>21, <2>1, <2>2, <3>1
    <3> QED
      BY <1>4, <1>5, <1>9, <2>1, <2>2, <3>2
  <2>3. CASE i # L
    BY <1>9, <2>1, <2>3
  <2> QED
    BY <2>2, <2>3
<1>22. \A r \in Util!Written : Util!Opens(r) /\ (\A i \in 1 .. L : frames'[i].arg.path # r) =>
          \A c \in Util!Range(heap[Util!Last(r)].props) : Append(r, c) \in Util!Written
  BY <1>4, <1>18 DEF Util!TextInv
<1>23. CASE /\ Util!Child = "accessor" \/ Util!Child \in Util!Range(seen)
            /\ Util!Writes(Append(Util!Top.arg.path, Util!Child),
                           IF Util!Child = "accessor" THEN "[Getter]" ELSE "[Circular]")
            /\ Util!Goes("return")
  <2>1. child = Util!Child
    BY <1>3, <1>6, <1>8 DEF Util!Child
  <2>2. PICK text : text = IF child = "accessor" THEN "[Getter]" ELSE "[Circular]"
    OBVIOUS
  <2>3. text \in Util!Labels /\ Util!Writes(q, text) /\ mode' = "return"
    BY <1>3, <1>5, <1>12, <1>23, <2>1, <2>2 DEF Util!Labels, Util!Goes
  <2>4. ~Util!Opens(q)
    <3>1. CASE child = "accessor"
      <4>1. ~Util!HasKeys(child)
        BY <3>1, ComponentAssumptions DEF Util!HasKeys, Util!NodeUtilAssumption
      <4> QED
        BY <1>13, <4>1 DEF Util!Opens
    <3>2. CASE child \in Util!Range(seen)
      BY <1>13, <1>17, <3>2 DEF Util!Opens
    <3> QED
      BY <1>23, <2>1, <3>1, <3>2
  <2>5. text = Util!Text(q)
    <3>1. \A o \in Util!Range(seen) : o # "primitive" /\ o # "accessor"
      BY <1>16, ComponentAssumptions DEF Util!NodeUtilAssumption, Util!Range
    <3>2. CASE child = "accessor"
      <4>1. child \notin Util!Range(p)
        BY <1>17, <3>1, <3>2
      <4> QED
        BY <1>13, <2>2, <2>4, <3>2, <4>1 DEF Util!Text
    <3>3. CASE child \in Util!Range(seen)
      BY <1>13, <1>17, <2>2, <2>4, <3>1, <3>3 DEF Util!Text
    <3> QED
      BY <1>23, <2>1, <3>2, <3>3
  <2>6. /\ Util!Written' = Util!Written \cup {q}
        /\ \A i \in DOMAIN out' : out'[i][2] = Util!Text(out'[i][1])
    BY <1>13, <2>3, <2>5, WrittenMore DEF Util!TextInv
  <2>7. Util!CallsInv'
    BY <1>1, <1>9, <1>11, <1>16, <1>18, <1>19, <2>3 DEF Util!CallsInv
  <2>8. \A r : Util!Reached(r)' <=> r \in Util!Written'
    BY <2>3 DEF Util!Reached
  <2>9. \A i \in 1 .. L :
           /\ frames'[i].arg.path \in Util!Written'
           /\ \A k \in 1 .. frames'[i].pos - 1 :
                 Append(frames'[i].arg.path, heap[frames'[i].v].props[k]) \in Util!Written'
    BY <1>21, <2>6
  <2>10. \A r \in Util!Written' : Util!Opens(r) /\ (\A i \in 1 .. L : frames'[i].arg.path # r) =>
           \A c \in Util!Range(heap[Util!Last(r)].props) : Append(r, c) \in Util!Written'
    BY <1>22, <2>4, <2>6
  <2>11. /\ \A r \in Util!Written' : r = <<root>> \/ \E s \in Util!Written' : Util!IsChild(s, r)
         /\ <<root>> \in Util!Written'
    BY <1>10, <1>14, <1>20, <2>6
  <2>12. Util!Reached(<<root>>)'
    BY <1>1, <2>11 DEF Util!Reached
  <2> QED
    BY <1>1, <1>9, <1>11, <2>3, <2>6, <2>7, <2>8, <2>9, <2>10, <2>11, <2>12 DEF Util!TextInv
<1>24. CASE /\ Util!Child \notin Util!Range(seen)
            /\ Util!Calls(Util!Call(Util!Child, IF Util!Top.arg.recurse = Null THEN Null
                                                ELSE Util!Top.arg.recurse - 1, Util!Top.arg.path))
            /\ UNCHANGED out
  <2>1. child = Util!Child
    BY <1>3, <1>6, <1>8 DEF Util!Child
  <2>2. mode' = "call" /\ arg'.v = child /\ arg'.path = q
        /\ arg'.recurse = IF f.arg.recurse = Null THEN Null ELSE f.arg.recurse - 1
    BY <1>3, <1>5, <1>12, <1>24, <2>1 DEF Util!Calls, Util!Call
  <2>3. PICK M \in Nat : M = L + 1
    OBVIOUS
  <2>4. arg'.recurse = IF depth = Null THEN Null ELSE depth - (M - 1)
    <3>1. depth \in Nat \cup {Null} /\ Null \notin Int
      BY ComponentAssumptions DEF Util!NodeUtilAssumption, Util!TypeOK
    <3>2. CASE depth = Null
      BY <1>15, <2>2, <3>2
    <3>3. CASE depth # Null
      <4>1. depth \in Nat /\ f.arg.recurse = depth - (L - 1)
        BY <1>15, <3>1, <3>3
      <4>2. f.arg.recurse \in Int /\ f.arg.recurse # Null
        BY <3>1, <4>1
      <4> QED
        BY <2>2, <2>3, <3>3, <4>1, <4>2
    <3> QED
      BY <3>2, <3>3
  <2>5. /\ Len(q) = M /\ q[M] = child /\ q[1] = root /\ \A i \in 1 .. M - 1 : q[i] = seen[i]
    <3>1. \A i \in 1 .. L : q[i] = seen[i]
      BY <1>10, <1>13, <1>15
    <3> QED
      BY <1>4, <1>13, <1>15, <2>3, <3>1
  <2>6. ASSUME NEW task, task = arg'
        PROVE  Util!IsCall(task, M)'
    BY <1>1, <2>2, <2>4, <2>5, <2>6 DEF Util!IsCall
  <2>7. Util!CallsInv'
    BY <1>1, <1>9, <1>11, <1>16, <1>18, <1>19, <1>24, <2>1, <2>2, <2>3, <2>6 DEF Util!CallsInv, Util!Range
  <2>8. Util!Written' = Util!Written
    BY <1>24 DEF Util!Written
  <2>9. PICK W : W = Util!Written \cup {q}
    OBVIOUS
  <2>10. \A r : Util!Reached(r)' <=> r \in W
    BY <2>2, <2>8, <2>9 DEF Util!Reached
  <2>11. \A i \in 1 .. L :
           /\ frames'[i].arg.path \in Util!Written
           /\ \A k \in 1 .. frames'[i].pos - 1 :
                 Append(frames'[i].arg.path, heap[frames'[i].v].props[k]) \in W
    <3>1. \A i \in 1 .. L : frames'[i].arg.path \in Util!Written
      BY <1>4, <1>18 DEF Util!TextInv
    <3> QED
      BY <1>21, <2>9, <3>1
  <2>12. \A r \in Util!Written \cup {q} : r = <<root>> \/ \E s \in Util!Written : Util!IsChild(s, r)
    BY <1>10, <1>14, <1>20
  <2>13. Util!Reached(<<root>>)'
    BY <1>1, <1>20, <2>8 DEF Util!Reached
  <2>14. \A i \in DOMAIN out' : out'[i][2] = Util!Text(out'[i][1])
    BY <1>24 DEF Util!TextInv
  <2> QED
    BY <1>1, <1>9, <1>11, <1>22, <2>2, <2>7, <2>8, <2>10, <2>11, <2>12, <2>13, <2>14 DEF Util!TextInv
<1> QED
  BY <1>23, <1>24 DEF Util!FormatProperty

LEMMA UtilPlain ==
    ASSUME IsFiniteSet(Objects), Cardinality(Objects) < StackLimit,
           Util!TypeOK, Util!PositionsInv, PlainInv, Util!Next
    PROVE  PlainInv'
<1>1. UNCHANGED Util!options
  BY DEF Util!Next, Util!CallInspect, Util!FormatLeaf, Util!Expand, Util!StackOverflow,
         Util!FormatProperty, Util!Expanded, Util!HookReturns, Util!Unwind, Util!options
<1> SUFFICES ASSUME Util!NoMethods, Util!CallsInv, Util!TextInv
             PROVE  Util!CallsInv' /\ Util!TextInv'
  BY <1>1, OptionsKept DEF PlainInv
<1>2. ~Util!CallInspect
  <2>1. arg.v \in Objects => ~Util!Hooked(arg.v)
    BY DEF Util!NoMethods
  <2> QED
    BY <2>1 DEF Util!CallInspect, Util!Hooked
<1>3. ~Util!StackOverflow
  <2>1. PICK L \in Nat : L = Len(frames)
    BY DEF Util!TypeOK
  <2> QED
    BY <2>1, StackSuffices, ComponentAssumptions DEF Util!StackOverflow, Util!NodeUtilAssumption
<1>4. ~Util!HookReturns
  BY TopFrame DEF Util!HookReturns, Util!CallsInv
<1>5. ~Util!Unwind
  BY DEF Util!Unwind, Util!CallsInv
<1> QED
  BY <1>2, <1>3, <1>4, <1>5, FormatLeafPlain, ExpandPlain, ExpandedPlain, FormatPropertyPlain
     DEF Util!Next

LEMMA UtilShows ==
    ASSUME Util!TypeOK, PlainInv
    PROVE  Util!TextComplete /\ Util!OnlyMethodsThrow
<1>1. Util!OnlyMethodsThrow
  BY DEF PlainInv, Util!CallsInv, Util!OnlyMethodsThrow
<1>2. ASSUME Util!Ended, Util!NoMethods
      PROVE  /\ \A i \in DOMAIN out : out[i][2] = Util!Text(out[i][1])
             /\ <<root>> \in Util!Written
             /\ \A p \in Util!Written : Util!Opens(p) =>
                   \A c \in Util!Range(heap[Util!Last(p)].props) : Append(p, c) \in Util!Written
             /\ \A q \in Util!Written : q = <<root>> \/ \E p \in Util!Written : Util!IsChild(p, q)
  <2>1. mode # "call" /\ DOMAIN frames = {}
    BY <1>2 DEF Util!Ended
  <2>2. Util!TextInv
    BY <1>2 DEF PlainInv
  <2> QED
    BY <2>1, <2>2 DEF Util!TextInv, Util!Reached
<1> QED
  BY <1>1, <1>2 DEF Util!TextComplete

-------------------------------------------------------------------------------
(***************************************************************************)
(* The console.                                                            *)
(***************************************************************************)
ConsoleIInv == launch \in Launches /\ Terminal!TypeOK /\ Terminal!ConsoleInv

\* What the terminal had got keeps its color.
LEMMA ColorKept ==
    ASSUME NEW i \in Nat, NEW c, Terminal!InColor(i, c),
           \A j \in 1 .. i : pieces'[j] = pieces[j]
    PROVE  Terminal!InColor(i, c)'
  BY DEF Terminal!InColor

\* A line does not change the color, a code does.
LEMMA ColorAppended ==
    ASSUME NEW n \in Nat, NEW m \in Nat, m = n + 1,
           \A j \in 1 .. n : pieces'[j] = pieces[j]
    PROVE  /\ \A c : pieces'[m].op # "color" /\ Terminal!InColor(n, c) => Terminal!InColor(m, c)'
           /\ \A c : pieces'[m].op = "color" /\ pieces'[m].color = c => Terminal!InColor(m, c)'
<1>1. ASSUME NEW c, pieces'[m].op # "color", Terminal!InColor(n, c)
      PROVE  Terminal!InColor(m, c)'
  <2>1. {i \in 1 .. m : pieces'[i].op = "color"} = {i \in 1 .. n : pieces[i].op = "color"}
    BY <1>1
  <2>2. \A i \in 1 .. n : pieces'[i].color = pieces[i].color
    OBVIOUS
  <2> QED
    BY <1>1, <2>1, <2>2 DEF Terminal!InColor
<1>2. ASSUME NEW c, pieces'[m].op = "color", pieces'[m].color = c
      PROVE  Terminal!InColor(m, c)'
  <2>1. m \in {i \in 1 .. m : pieces'[i].op = "color"}
    BY <1>2
  <2>2. \A j \in {i \in 1 .. m : pieces'[i].op = "color"} : j <= m
    OBVIOUS
  <2> QED
    BY <1>2, <2>1, <2>2 DEF Terminal!InColor
<1> QED
  BY <1>1, <1>2

\* One more piece after three, and after one.
LEMMA OneMore ==
    ASSUME NEW S, NEW p \in S, NEW q \in S, NEW r \in S, NEW t \in S, NEW o
    PROVE  /\ o = <<p, q, r>> \o <<t>> =>
                 /\ o \in Seq(S) /\ Len(o) = 4 /\ DOMAIN o = 1 .. 4
                 /\ o[1] = p /\ o[2] = q /\ o[3] = r /\ o[4] = t
           /\ o = <<p>> \o <<t>> =>
                 /\ o \in Seq(S) /\ Len(o) = 2 /\ DOMAIN o = 1 .. 2
                 /\ o[1] = p /\ o[2] = t
<1>1. PICK u : u = <<p, q, r>>
  OBVIOUS
<1>2. PICK v : v = <<t>>
  OBVIOUS
<1>3. PICK w : w = <<p>>
  OBVIOUS
<1>4. u \in Seq(S) /\ Len(u) = 3 /\ u[1] = p /\ u[2] = q /\ u[3] = r
  BY <1>1
<1>5. v \in Seq(S) /\ Len(v) = 1 /\ v[1] = t
  BY <1>2
<1>6. w \in Seq(S) /\ Len(w) = 1 /\ w[1] = p
  BY <1>3
<1>7. ASSUME o = u \o v
      PROVE  /\ o \in Seq(S) /\ Len(o) = 4
             /\ o[1] = p /\ o[2] = q /\ o[3] = r /\ o[4] = t
  <2>1. /\ o \in Seq(S) /\ Len(o) = Len(u) + Len(v)
        /\ \A i \in 1 .. Len(u) + Len(v) : o[i] = IF i <= Len(u) THEN u[i] ELSE v[i - Len(u)]
    BY <1>4, <1>5, <1>7, ConcatProperties
  <2> QED
    BY <1>4, <1>5, <2>1
<1>8. ASSUME o = w \o v
      PROVE  o \in Seq(S) /\ Len(o) = 2 /\ o[1] = p /\ o[2] = t
  <2>1. /\ o \in Seq(S) /\ Len(o) = Len(w) + Len(v)
        /\ \A i \in 1 .. Len(w) + Len(v) : o[i] = IF i <= Len(w) THEN w[i] ELSE v[i - Len(w)]
    BY <1>5, <1>6, <1>8, ConcatProperties
  <2> QED
    BY <1>5, <1>6, <2>1
<1>9. o \in Seq(S) => DOMAIN o = 1 .. Len(o)
  OBVIOUS
<1> QED
  BY <1>1, <1>2, <1>3, <1>7, <1>8, <1>9

\* A message with and without color, the last one of a process that dies of it too.
IsMessageOutput(o, id, c) ==
    /\ o \in Seq(Terminal!Pieces)
    /\ \/ /\ Len(o) \in {3, 4} /\ DOMAIN o = 1 .. Len(o)
          /\ o[1] = Terminal!Piece("color", 0, c)
          /\ o[2] = Terminal!Piece("line", id, c)
          /\ o[3] = Terminal!Piece("color", 0, "none")
          /\ Len(o) = 4 => o[4] = Terminal!Piece("abort", 0, "none")
       \/ /\ Len(o) \in {1, 2} /\ DOMAIN o = 1 .. Len(o)
          /\ o[1] = Terminal!Piece("line", id, "none")
          /\ Len(o) = 2 => o[2] = Terminal!Piece("abort", 0, "none")

\* What a console call has to write.
LEMMA MessageOutput ==
    ASSUME NEW c \in Terminal!Colors, NEW id \in Nat, NEW after, NEW o,
           after = <<>> \/ after = <<Terminal!Piece("abort", 0, "none")>>,
           \/ o = Terminal!OutputString(id, c, TRUE) \o after
           \/ o = Terminal!OutputString(id, c, FALSE) \o after
    PROVE  IsMessageOutput(o, id, c)
<1>1. PICK abort : abort = Terminal!Piece("abort", 0, "none")
  OBVIOUS
<1>2. PICK p, q, r, s : /\ p = Terminal!Piece("color", 0, c) /\ q = Terminal!Piece("line", id, c)
                        /\ r = Terminal!Piece("color", 0, "none")
                        /\ s = Terminal!Piece("line", id, "none")
  OBVIOUS
<1>3. o = <<p, q, r>> \o after \/ o = <<s>> \o after
  BY <1>2 DEF Terminal!OutputString
<1>4. PICK S : S = Terminal!Pieces
  OBVIOUS
<1>5. abort \in S /\ p \in S /\ q \in S /\ r \in S /\ s \in S
  BY <1>1, <1>2, <1>4 DEF Terminal!Piece, Terminal!Pieces, Terminal!Colors
<1>6. /\ o \in Seq(S) /\ DOMAIN o = 1 .. Len(o)
      /\ \/ /\ Len(o) \in {3, 4}
            /\ o[1] = p /\ o[2] = q /\ o[3] = r
            /\ Len(o) = 4 => o[4] = abort
         \/ /\ Len(o) \in {1, 2}
            /\ o[1] = s
            /\ Len(o) = 2 => o[2] = abort
  <2>1. after = <<>> \/ after = <<abort>>
    BY <1>1
  <2>2. CASE after = <<>> /\ o = <<p, q, r>> \o after
    <3>1. o = <<p, q, r>>
      BY <1>5, <2>2
    <3> QED
      BY <1>5, <3>1
  <2>3. CASE after = <<>> /\ o = <<s>> \o after
    <3>1. o = <<s>>
      BY <1>5, <2>3
    <3> QED
      BY <1>5, <3>1
  <2>4. CASE after = <<abort>> /\ o = <<p, q, r>> \o after
    <3>1. o = <<p, q, r>> \o <<abort>>
      BY <2>4
    <3> QED
      BY <1>5, <3>1, OneMore
  <2>5. CASE after = <<abort>> /\ o = <<s>> \o after
    <3>1. o = <<s>> \o <<abort>>
      BY <2>5
    <3> QED
      BY <1>5, <3>1, OneMore
  <2> QED
    BY <1>3, <2>1, <2>2, <2>3, <2>4, <2>5
<1> QED
  BY <1>1, <1>2, <1>4, <1>6 DEF IsMessageOutput

\* Nothing the terminal is given changes no color.
LEMMA ColorsUnchanged ==
    ASSUME UNCHANGED pieces
    PROVE  \A i, c : Terminal!InColor(i, c)' <=> Terminal!InColor(i, c)
  BY DEF Terminal!InColor

LEMMA ConsoleInit == Terminal!Init => ConsoleIInv
<1> SUFFICES ASSUME Terminal!Init PROVE ConsoleIInv
  OBVIOUS
<1> USE DEF Terminal!Init
<1>1. Terminal!TypeOK /\ launch \in Launches
  <2>1. /\ launch.args \in Nat /\ launch.args <= MaxScripts
        /\ MaxScripts \in Nat /\ MaxMessages \in Nat /\ MaxFactories \in Nat
    BY ComponentAssumptions DEF Terminal!ConsoleAssumption, Terminal!Launch
  <2>2. output \in Seq(Terminal!Pieces) /\ pieces \in Seq(Terminal!Pieces) /\ Len(pieces) = 0
    OBVIOUS
  <2>3. /\ scripts \in 0 .. MaxScripts /\ messages \in 0 .. MaxMessages /\ waiting \in Nat
        /\ prompts \in Nat /\ factories \in 0 .. MaxFactories
    BY <2>1
  <2>4. flushed \in 0 .. Len(pieces) /\ prompted = {}
    BY <2>2
  <2> QED
    BY <2>2, <2>3, <2>4 DEF Terminal!TypeOK
<1>2. DOMAIN output = {} /\ DOMAIN pieces = {} /\ Len(pieces) = 0
  OBVIOUS
<1>3. Terminal!InColor(0, "none")
  BY DEF Terminal!InColor
<1>4. Terminal!OutputInv /\ ~Terminal!Pending
  BY <1>2, <1>3 DEF Terminal!OutputInv, Terminal!Pending
<1>5. Terminal!MessagesInv
  BY <1>2, <1>4 DEF Terminal!MessagesInv, Terminal!Given
<1>6. Terminal!TurnInv
  BY <1>2, ComponentAssumptions
     DEF Terminal!ConsoleAssumption, Terminal!Launch, Terminal!TurnInv, Terminal!Idle
<1>7. Terminal!ReportInv
  BY <1>2 DEF Terminal!ReportInv
<1> QED
  BY <1>1, <1>2, <1>4, <1>5, <1>6, <1>7
     DEF ConsoleIInv, Terminal!ConsoleInv, Terminal!IdlePromptsUncolored, Terminal!PlainPromptsIdle

\* Steps that give the terminal nothing and leave what is yet to be written.
LEMMA TerminalKept ==
    ASSUME ConsoleIInv, Terminal!TypeOK', Terminal!TurnInv',
           UNCHANGED <<launch, pieces, output, messages, factories>>,
           flushed' \in {flushed, Len(pieces)},
           \/ UNCHANGED prompted
           \/ prompts > 0 /\ prompted' = prompted \cup {[at |-> flushed, busy |-> ~Terminal!Idle]},
           script => script',
           prompts = 0 => prompts' = 0,
           stopped' => Terminal!Idle' /\ waiting' = 0,
           \/ UNCHANGED process
           \/ process' = "aborted" /\ output = <<>>
           \/ process' = "crashed"
           \/ process' = "exited" /\ output = <<>> /\ flushed' = Len(pieces)
    PROVE  ConsoleIInv'
<1> USE DEF ConsoleIInv, Terminal!ConsoleInv
<1>1. \A i, c : Terminal!InColor(i, c)' <=> Terminal!InColor(i, c)
  BY ColorsUnchanged
<1>2. Terminal!OutputInv'
  BY <1>1 DEF Terminal!OutputInv
<1>3. Terminal!MessagesInv' /\ (Terminal!Pending' <=> Terminal!Pending)
  BY DEF Terminal!MessagesInv, Terminal!Pending, Terminal!Given, Terminal!IsMessage
<1>4. flushed <= flushed' /\ (flushed = Len(pieces) => flushed' = Len(pieces'))
  BY DEF Terminal!TypeOK
<1>5. \A i \in DOMAIN pieces' : pieces'[i].op = "line" =>
         Terminal!InColor(i, pieces[i].color)' /\ (launch'.tty => i <= flushed')
  BY <1>1, <1>4 DEF Terminal!TypeOK
<1>6. Terminal!ReportInv'
  BY <1>4 DEF Terminal!ReportInv
<1>7. Terminal!IdlePromptsUncolored' /\ Terminal!PlainPromptsIdle'
  <2>1. CASE UNCHANGED prompted
    BY <1>1, <2>1 DEF Terminal!IdlePromptsUncolored, Terminal!PlainPromptsIdle
  <2>2. ASSUME prompts > 0, NEW p, p = [at |-> flushed, busy |-> ~Terminal!Idle]
        PROVE  /\ p.busy \/ Terminal!InColor(p.at, "none")
               /\ launch.args = 0 /\ factories = 0 => ~p.busy
    <3>1. p.at = flushed /\ (p.busy <=> ~Terminal!Idle)
      BY <2>2
    <3>2. prompts \in Nat /\ prompts # 0
      BY <2>2 DEF Terminal!TypeOK
    <3>3. Terminal!Idle => flushed = Len(pieces) /\ Terminal!InColor(Len(pieces), "none")
      BY <3>2 DEF Terminal!Idle, Terminal!ReportInv, Terminal!OutputInv
    <3>4. launch.args = 0 /\ factories = 0 => Terminal!Idle
      BY <2>2 DEF Terminal!TurnInv
    <3> QED
      BY <3>1, <3>3, <3>4
  <2>3. ASSUME prompts > 0, prompted' = prompted \cup {[at |-> flushed, busy |-> ~Terminal!Idle]}
        PROVE  Terminal!IdlePromptsUncolored' /\ Terminal!PlainPromptsIdle'
    <3>1. \A p \in prompted' : p \in prompted \/ p = [at |-> flushed, busy |-> ~Terminal!Idle]
      BY <2>3
    <3> QED
      BY <1>1, <2>2, <2>3, <3>1 DEF Terminal!IdlePromptsUncolored, Terminal!PlainPromptsIdle
  <2> QED
    BY <2>1, <2>3
<1>8. /\ process' = "aborted" => ~Terminal!Pending'
      /\ process' = "exited" => output' = <<>> /\ flushed' = Len(pieces')
  <2>1. output = <<>> => ~Terminal!Pending
    BY DEF Terminal!Pending
  <2> QED
    BY <1>3, <1>4, <2>1
<1> QED
  BY <1>1, <1>2, <1>3, <1>5, <1>6, <1>7, <1>8

LEMMA RunScriptStep ==
    ASSUME ConsoleIInv, Terminal!RunScript
    PROVE  ConsoleIInv'
<1> USE DEF ConsoleIInv, Terminal!ConsoleInv, Terminal!RunScript, Terminal!settings, Terminal!terminal
<1>1. Terminal!TypeOK'
  BY DEF Terminal!TypeOK
<1>2. Terminal!TurnInv'
  BY DEF Terminal!TypeOK, Terminal!TurnInv, Terminal!Idle
<1>3. ~stopped
  BY DEF Terminal!TypeOK
<1> QED
  BY <1>1, <1>2, <1>3, TerminalKept

\* What was on the terminal at a prompt still is.
LEMMA PromptsType ==
    ASSUME NEW m \in Nat, NEW n \in Nat, m <= n,
           NEW P, P \subseteq [at : 0 .. m, busy : BOOLEAN]
    PROVE  P \subseteq [at : 0 .. n, busy : BOOLEAN]
<1>1. \A x \in 0 .. m : x \in 0 .. n
  OBVIOUS
<1> QED
  BY <1>1

LEMMA PromptStep ==
    ASSUME ConsoleIInv, Terminal!Prompt
    PROVE  ConsoleIInv'
<1> USE DEF ConsoleIInv, Terminal!ConsoleInv
<1>1. /\ prompts > 0 /\ ~prompting /\ prompts' = prompts - 1 /\ prompting' = TRUE
      /\ prompted' = prompted \cup {[at |-> flushed, busy |-> ~Terminal!Idle]}
      /\ UNCHANGED <<launch, initialized, isConsole, output, pieces, flushed, messages, waiting,
                     scripts, script, factories, stopped, process>>
  BY DEF Terminal!Prompt, Terminal!settings
<1>2. Terminal!TypeOK'
  <2>1. prompted' \subseteq [at : 0 .. flushed', busy : BOOLEAN]
    <3>1. flushed \in 0 .. flushed
      BY DEF Terminal!TypeOK
    <3>2. (~Terminal!Idle) \in BOOLEAN
      OBVIOUS
    <3>3. [at |-> flushed, busy |-> ~Terminal!Idle] \in [at : 0 .. flushed, busy : BOOLEAN]
      BY <3>1, <3>2
    <3>4. prompted \subseteq [at : 0 .. flushed, busy : BOOLEAN]
      BY DEF Terminal!TypeOK
    <3> QED
      BY <1>1, <3>3, <3>4
  <2>2. prompts' \in Nat
    BY <1>1 DEF Terminal!TypeOK
  <2> QED
    BY <1>1, <2>1, <2>2 DEF Terminal!TypeOK
<1>3. Terminal!TurnInv'
  BY <1>1 DEF Terminal!TypeOK, Terminal!TurnInv, Terminal!Idle
<1>4. Terminal!Idle' <=> Terminal!Idle
  BY <1>1 DEF Terminal!Idle
<1>5. prompts # 0
  BY <1>1 DEF Terminal!TypeOK
<1> QED
  BY <1>1, <1>2, <1>3, <1>4, <1>5, TerminalKept

LEMMA TypeScriptStep ==
    ASSUME ConsoleIInv, Terminal!TypeScript
    PROVE  ConsoleIInv'
<1> USE DEF ConsoleIInv, Terminal!ConsoleInv, Terminal!TypeScript, Terminal!settings, Terminal!terminal
<1>1. Terminal!TypeOK'
  <2>1. scripts' \in 0 .. MaxScripts /\ waiting' \in Nat
    BY ComponentAssumptions DEF Terminal!ConsoleAssumption, Terminal!TypeOK
  <2> QED
    BY <2>1 DEF Terminal!TypeOK
<1>2. Terminal!TurnInv'
  BY DEF Terminal!TypeOK, Terminal!TurnInv, Terminal!Idle
<1>3. stopped' => Terminal!Idle' /\ waiting' = 0
  BY DEF Terminal!Idle
<1> QED
  BY <1>1, <1>2, <1>3, TerminalKept

LEMMA StopStep ==
    ASSUME ConsoleIInv, Terminal!Stop
    PROVE  ConsoleIInv'
<1> USE DEF ConsoleIInv, Terminal!ConsoleInv, Terminal!Stop, Terminal!settings, Terminal!terminal
<1>1. Terminal!TypeOK'
  BY DEF Terminal!TypeOK
<1>2. Terminal!TurnInv'
  BY DEF Terminal!TypeOK, Terminal!TurnInv, Terminal!Idle
<1>3. Terminal!Idle'
  BY DEF Terminal!Idle
<1> QED
  BY <1>1, <1>2, <1>3, TerminalKept

LEMMA FlushStep ==
    ASSUME ConsoleIInv, Terminal!BufferFull \/ Terminal!Exit
    PROVE  ConsoleIInv'
<1>1. /\ UNCHANGED <<Terminal!settings, output, pieces, prompted, messages, Terminal!session>>
      /\ UNCHANGED process \/ (process' = "exited" /\ stopped)
      /\ flushed' = Len(pieces')
  BY DEF Terminal!BufferFull, Terminal!Exit, Terminal!Flush
<1>2. UNCHANGED <<launch, initialized, isConsole, output, pieces, prompted, messages,
                  waiting, scripts, script, factories, prompts, prompting, stopped>>
  BY <1>1 DEF Terminal!settings, Terminal!session
<1>3. Terminal!TypeOK'
  <2>1. /\ Len(pieces) \in Nat /\ flushed \in 0 .. Len(pieces)
        /\ prompted \subseteq [at : 0 .. flushed, busy : BOOLEAN]
    BY DEF ConsoleIInv, Terminal!TypeOK
  <2>2. flushed' \in 0 .. Len(pieces') /\ prompted' \subseteq [at : 0 .. flushed', busy : BOOLEAN]
    <3>1. flushed \in Nat /\ flushed <= Len(pieces)
      BY <2>1
    <3>2. flushed' = Len(pieces)
      BY <1>1, <1>2
    <3>3. prompted \subseteq [at : 0 .. Len(pieces), busy : BOOLEAN]
      BY <2>1, <3>1, PromptsType
    <3> QED
      BY <1>2, <2>1, <3>2, <3>3
  <2> QED
    BY <1>1, <1>2, <2>2 DEF ConsoleIInv, Terminal!TypeOK
<1>4. Terminal!TurnInv' /\ (stopped' => Terminal!Idle' /\ waiting' = 0)
  BY <1>2 DEF ConsoleIInv, Terminal!ConsoleInv, Terminal!TurnInv, Terminal!Idle
<1>5. stopped => output = <<>>
  BY DEF ConsoleIInv, Terminal!ConsoleInv, Terminal!Idle
<1> QED
  BY <1>1, <1>2, <1>3, <1>4, <1>5, TerminalKept

\* Either thread ends the process.
LEMMA CrashStep ==
    ASSUME ConsoleIInv,
           (Terminal!InScript /\ process' = "aborted") \/ process' = "crashed",
           UNCHANGED <<Terminal!settings, output, Terminal!terminal, messages, Terminal!session>>
    PROVE  ConsoleIInv'
<1> USE DEF ConsoleIInv, Terminal!ConsoleInv, Terminal!InScript,
            Terminal!settings, Terminal!session, Terminal!terminal
<1>1. Terminal!TypeOK'
  BY DEF Terminal!TypeOK
<1>2. Terminal!TurnInv' /\ (Terminal!Idle' <=> Terminal!Idle)
  BY DEF Terminal!TypeOK, Terminal!TurnInv, Terminal!Idle
<1> QED
  BY <1>1, <1>2, TerminalKept

\* A factory in the middle of a script, and a script that ends, are reported.
LEMMA ReportStep ==
    ASSUME ConsoleIInv, Terminal!InScript,
           UNCHANGED <<launch, initialized, isConsole, pieces, flushed, prompted, messages, waiting,
                       scripts, prompts, prompting, stopped, process>>,
           output' = IF launch.mode = "repl" THEN Terminal!Report ELSE <<>>,
           \/ script' = FALSE /\ UNCHANGED factories
           \/ launch.mode = "repl" /\ script' = script
              /\ factories < MaxFactories /\ factories' = factories + 1
    PROVE  ConsoleIInv'
<1>1. PICK p, q, r : /\ p = Terminal!Piece("line", 0, "none") /\ q = Terminal!Piece("flush", 0, "none")
                     /\ r = Terminal!Piece("prompt", 0, "none")
  OBVIOUS
<1>2. /\ p \in Terminal!Pieces /\ q \in Terminal!Pieces /\ r \in Terminal!Pieces
      /\ p.op = "line" /\ p.color = "none" /\ p.id = 0 /\ q.op = "flush" /\ r.op = "prompt"
  BY <1>1 DEF Terminal!Piece, Terminal!Pieces, Terminal!Colors
<1>3. /\ output = <<>> /\ script /\ process = "running" /\ launch \in Launches
      /\ Terminal!TypeOK /\ Terminal!OutputInv /\ Terminal!MessagesInv /\ Terminal!TurnInv
      /\ Terminal!ReportInv /\ Terminal!IdlePromptsUncolored /\ Terminal!PlainPromptsIdle
      /\ (stopped => ~script)
      /\ factories \in 0 .. MaxFactories /\ MaxFactories \in Nat /\ script \in BOOLEAN
  BY ComponentAssumptions
     DEF ConsoleIInv, Terminal!ConsoleInv, Terminal!InScript, Terminal!Running, Terminal!Idle,
         Terminal!TypeOK, Terminal!ConsoleAssumption
<1>4. PICK o : o = output'
  OBVIOUS
<1>5. \/ launch.mode = "repl" /\ o = <<p, q, r>>
      \/ launch.mode # "repl" /\ o = <<>>
  BY <1>1, <1>4 DEF Terminal!Report
<1>6. /\ o \in Seq(Terminal!Pieces) /\ DOMAIN o = 1 .. Len(o)
      /\ \/ launch.mode = "repl" /\ Len(o) = 3 /\ o[1] = p /\ o[2] = q /\ o[3] = r
         \/ launch.mode # "repl" /\ Len(o) = 0
  <2>1. PICK S : S = Terminal!Pieces
    OBVIOUS
  <2>2. CASE o = <<p, q, r>>
    BY <1>2, <1>5, <2>1, <2>2
  <2>3. CASE o = <<>>
    BY <1>5, <2>1, <2>3
  <2> QED
    BY <1>5, <2>2, <2>3
<1>7. /\ \A k \in DOMAIN o : o[k].op = "line" => k = 1 /\ o[k].color = "none"
      /\ \A k \in DOMAIN o : o[k].op # "color" /\ o[k].op # "abort"
      /\ \A k \in DOMAIN o : o[k].op = "prompt" => k = Len(o) /\ o[k - 1].op = "flush"
      /\ \A k \in DOMAIN o : ~Terminal!IsMessage(o[k])
  BY <1>2, <1>6 DEF Terminal!IsMessage
<1>8. \A i, c : Terminal!InColor(i, c)' <=> Terminal!InColor(i, c)
  BY ColorsUnchanged
<1>9. Terminal!TypeOK'
  <2>1. UNCHANGED factories \/ (factories < MaxFactories /\ factories' = factories + 1)
    OBVIOUS
  <2>2. factories \in 0 .. MaxFactories /\ MaxFactories \in Nat
    BY <1>3
  <2>3. factories' \in 0 .. MaxFactories
    BY <2>1, <2>2
  <2>4. script' = FALSE \/ script' = script
    OBVIOUS
  <2>5. script' \in BOOLEAN
    BY <1>3, <2>4
  <2> QED
    BY <1>3, <1>4, <1>6, <2>3, <2>5 DEF Terminal!TypeOK
<1>10. Terminal!OutputInv'
  <2>1. PICK n : n = Len(pieces)
    OBVIOUS
  <2>2. Terminal!InColor(n, "none")' /\ Len(pieces') = n
    BY <1>3, <1>8, <2>1 DEF Terminal!OutputInv
  <2> QED
    BY <1>4, <1>7, <2>2 DEF Terminal!OutputInv
<1>11. ~Terminal!Pending /\ ~Terminal!Pending'
  BY <1>3, <1>4, <1>7 DEF Terminal!Pending
<1>12. Terminal!MessagesInv'
  BY <1>3, <1>4, <1>7, <1>11 DEF Terminal!MessagesInv, Terminal!IsMessage, Terminal!Given
<1>13. Terminal!ReportInv'
  <2>1. CASE launch.mode = "repl"
    <3>1. o = <<p, q, r>>
      BY <1>5, <2>1
    <3>2. o # <<>>
      BY <3>1
    <3>3. Len(o) = 3 /\ o[1].op # "prompt" /\ o[3].op = "prompt"
      BY <1>2, <1>6, <2>1
    <3>4. launch' = launch
      OBVIOUS
    <3> QED
      BY <1>4, <2>1, <3>2, <3>3, <3>4 DEF Terminal!ReportInv
  <2>2. CASE launch.mode # "repl"
    BY <1>3, <1>4, <1>6, <2>2 DEF Terminal!ReportInv
  <2> QED
    BY <2>1, <2>2
<1>14. Terminal!TurnInv' /\ (factories' = 0 => factories = 0)
  <2>1. CASE script' = FALSE /\ UNCHANGED factories
    <3>1. launch.args = 0 /\ factories = 0 =>
            /\ prompts \in Nat /\ waiting \in Nat
            /\ ~(prompts > 0) /\ ~prompting /\ ~(waiting > 0)
      BY <1>3 DEF Terminal!TypeOK, Terminal!TurnInv, Terminal!Idle
    <3> QED
      BY <2>1, <3>1 DEF Terminal!TurnInv
  <2>2. CASE factories' = factories + 1
    BY <1>3, <2>2 DEF Terminal!TurnInv
  <2> QED
    BY <2>1, <2>2
<1>15. \A i \in DOMAIN pieces' : pieces'[i].op = "line" =>
         Terminal!InColor(i, pieces[i].color)' /\ (launch'.tty => i <= flushed')
  BY <1>8 DEF ConsoleIInv, Terminal!ConsoleInv
<1>16. Terminal!IdlePromptsUncolored' /\ Terminal!PlainPromptsIdle'
  BY <1>3, <1>8, <1>14 DEF Terminal!IdlePromptsUncolored, Terminal!PlainPromptsIdle
<1> QED
  BY <1>3, <1>9, <1>10, <1>11, <1>12, <1>13, <1>14, <1>15, <1>16 DEF ConsoleIInv, Terminal!ConsoleInv

LEMMA ReportsStep ==
    ASSUME ConsoleIInv, Terminal!RunFactory \/ Terminal!ScriptEnds
    PROVE  ConsoleIInv'
<1>1. CASE process' = "aborted"
  <2>1. /\ Terminal!InScript
        /\ UNCHANGED <<Terminal!settings, output, Terminal!terminal, messages, Terminal!session>>
    BY <1>1 DEF Terminal!RunFactory, Terminal!ScriptEnds, Terminal!InScript, Terminal!Running,
                Terminal!session
  <2> QED
    BY <1>1, <2>1, CrashStep
<1>2. CASE process' # "aborted"
  <2>1. /\ Terminal!InScript /\ UNCHANGED process
        /\ UNCHANGED <<Terminal!settings, Terminal!terminal, messages, waiting, scripts, prompts,
                       prompting, stopped>>
        /\ output' = IF launch.mode = "repl" THEN Terminal!Report ELSE <<>>
        /\ \/ script' = FALSE /\ UNCHANGED factories
           \/ launch.mode = "repl" /\ script' = script
              /\ factories < MaxFactories /\ factories' = factories + 1
    BY <1>2 DEF Terminal!RunFactory, Terminal!ScriptEnds
  <2> QED
    BY <2>1, ReportStep DEF Terminal!settings, Terminal!terminal
<1> QED
  BY <1>1, <1>2

LEMMA AddMessageStep ==
    ASSUME ConsoleIInv, Terminal!InScript, UNCHANGED process,
           NEW c \in Terminal!Colors, NEW after,
           after \in {<<>>, <<Terminal!Piece("abort", 0, "none")>>},
           Terminal!AddMessage(c, after)
    PROVE  ConsoleIInv'
<1>1. /\ messages < MaxMessages /\ messages' = messages + 1
      /\ initialized' = TRUE /\ isConsole' \in BOOLEAN
      /\ output' = Terminal!OutputString(messages + 1, c, isConsole') \o after
      /\ UNCHANGED <<launch, pieces, flushed, prompted, waiting, scripts, script, factories,
                     prompts, prompting, stopped, process>>
  <2>1. launch.color \in BOOLEAN /\ launch.nocolor \in BOOLEAN /\ launch.tty \in BOOLEAN
    BY ComponentAssumptions DEF ConsoleIInv, Terminal!ConsoleAssumption, Terminal!Launch
  <2> QED
    BY <2>1 DEF ConsoleIInv, Terminal!TypeOK, Terminal!AddMessage, Terminal!WantsColor, Terminal!terminal,
           Terminal!session
<1>2. /\ output = <<>> /\ script /\ process = "running"
      /\ Terminal!TypeOK /\ Terminal!OutputInv /\ Terminal!MessagesInv /\ Terminal!TurnInv
      /\ Terminal!ReportInv /\ messages \in Nat /\ MaxMessages \in Nat
  BY ComponentAssumptions DEF ConsoleIInv, Terminal!ConsoleInv, Terminal!InScript, Terminal!Running,
           Terminal!TypeOK, Terminal!ConsoleAssumption
<1>3. PICK id \in Nat : id = messages + 1
  BY <1>2
<1>4. PICK p, q, r, s, t : /\ p = Terminal!Piece("color", 0, c) /\ q = Terminal!Piece("line", id, c)
                           /\ r = Terminal!Piece("color", 0, "none")
                           /\ s = Terminal!Piece("line", id, "none")
                           /\ t = Terminal!Piece("abort", 0, "none")
  OBVIOUS
<1>5. /\ p.op = "color" /\ p.color = c /\ q.op = "line" /\ q.id = id /\ q.color = c
      /\ r.op = "color" /\ r.color = "none" /\ s.op = "line" /\ s.id = id /\ s.color = "none"
      /\ t.op = "abort"
  BY <1>4 DEF Terminal!Piece
<1>6. PICK o : o = output'
  OBVIOUS
<1>7. PICK L : L = Len(o)
  OBVIOUS
<1>8. /\ o \in Seq(Terminal!Pieces) /\ DOMAIN o = 1 .. L
      /\ \/ /\ L \in {3, 4}
            /\ o[1] = p /\ o[2] = q /\ o[3] = r
            /\ L = 4 => o[4] = t
         \/ /\ L \in {1, 2}
            /\ o[1] = s
            /\ L = 2 => o[2] = t
  <2>1. \/ o = Terminal!OutputString(id, c, TRUE) \o after
        \/ o = Terminal!OutputString(id, c, FALSE) \o after
    BY <1>1, <1>3, <1>6 DEF Terminal!OutputString
  <2>3. IsMessageOutput(o, id, c)
    BY <2>1, MessageOutput
  <2> QED
    BY <1>4, <1>7, <2>3 DEF IsMessageOutput
<1>9. \A i, x : Terminal!InColor(i, x)' <=> Terminal!InColor(i, x)
  BY <1>1, ColorsUnchanged
<1>10. Terminal!InColor(Len(pieces), "none")
  BY <1>2 DEF Terminal!OutputInv
<1>11. Terminal!TypeOK'
  <2>1. messages' \in 0 .. MaxMessages
    BY <1>1, <1>2
  <2> QED
    BY <1>1, <1>2, <1>6, <1>8, <2>1 DEF Terminal!TypeOK
<1>12. \A k \in DOMAIN o : o[k].op = "line" =>
         IF k = 1 THEN o[k].color = "none" ELSE o[k - 1].op = "color" /\ o[k - 1].color = o[k].color
  BY <1>5, <1>8
<1>13. \/ \A k \in DOMAIN o : o[k].op # "color"
       \/ \E k \in DOMAIN o : /\ o[k].op = "color" /\ o[k].color = "none"
                              /\ \A j \in DOMAIN o : j > k => o[j].op # "color"
  <2>1. CASE L \in {3, 4}
    <3>1. 3 \in DOMAIN o /\ o[3].op = "color" /\ o[3].color = "none"
      BY <1>5, <1>8, <2>1
    <3>2. \A j \in DOMAIN o : j > 3 => o[j].op # "color"
      BY <1>5, <1>8, <2>1
    <3> QED
      BY <3>1, <3>2
  <2>2. CASE L \in {1, 2}
    BY <1>5, <1>8, <2>2
  <2> QED
    BY <1>8, <2>1, <2>2
<1>14. \A k \in DOMAIN o : o[k].op # "prompt" /\ (o[k].op = "abort" => k = L)
  BY <1>5, <1>8
<1>15. Terminal!OutputInv'
  BY <1>1, <1>6, <1>7, <1>9, <1>10, <1>12, <1>13, <1>14 DEF Terminal!OutputInv
<1>16. \A k \in DOMAIN o : o[k].op = "line" => o[k].id = id /\ k = IF L \in {3, 4} THEN 2 ELSE 1
  BY <1>5, <1>8
<1>17. (\E k \in DOMAIN o : o[k].op = "line") /\ id # 0
  <2>1. L \in {3, 4} => 2 \in DOMAIN o /\ o[2].op = "line"
    BY <1>5, <1>8
  <2>2. L \in {1, 2} => 1 \in DOMAIN o /\ o[1].op = "line"
    BY <1>5, <1>8
  <2> QED
    BY <1>2, <1>3, <1>8, <2>1, <2>2
<1>18. Terminal!Pending' /\ ~Terminal!Pending
  BY <1>2, <1>6, <1>16, <1>17 DEF Terminal!Pending, Terminal!IsMessage
<1>19. Terminal!Given' = messages /\ Terminal!Given = messages
  BY <1>1, <1>2, <1>18 DEF Terminal!Given
<1>20. Terminal!MessagesInv'
  BY <1>1, <1>2, <1>3, <1>6, <1>16, <1>19 DEF Terminal!MessagesInv, Terminal!IsMessage
<1>21. Terminal!TurnInv' /\ Terminal!ReportInv' /\ ~stopped'
  <2>1. o # <<>> /\ 1 \in DOMAIN o
    BY <1>8
  <2>2. launch.args = 0 /\ factories = 0 =>
           prompts \in Nat /\ waiting \in Nat /\ ~(prompts > 0) /\ ~prompting /\ ~(waiting > 0)
    BY <1>2 DEF Terminal!TypeOK, Terminal!TurnInv, Terminal!Idle
  <2>3. Terminal!TurnInv'
    BY <1>1, <1>6, <1>14, <2>1, <2>2 DEF Terminal!TurnInv
  <2>4. Terminal!ReportInv'
    BY <1>1, <1>2, <1>6, <1>14, <2>1 DEF Terminal!ReportInv
  <2>5. ~stopped'
    BY <1>1, <1>2 DEF ConsoleIInv, Terminal!ConsoleInv, Terminal!Idle, Terminal!TypeOK
  <2> QED
    BY <2>3, <2>4, <2>5
<1>22. \A i \in DOMAIN pieces' : pieces'[i].op = "line" =>
         Terminal!InColor(i, pieces[i].color)' /\ (launch'.tty => i <= flushed')
  BY <1>1, <1>9 DEF ConsoleIInv, Terminal!ConsoleInv
<1>23. Terminal!IdlePromptsUncolored' /\ Terminal!PlainPromptsIdle'
  BY <1>1, <1>9 DEF Terminal!IdlePromptsUncolored, Terminal!PlainPromptsIdle, ConsoleIInv,
                    Terminal!ConsoleInv
<1> QED
  BY <1>1, <1>2, <1>9, <1>11, <1>15, <1>20, <1>21, <1>22, <1>23 DEF ConsoleIInv, Terminal!ConsoleInv

\* What is yet to be written after the next piece.
LEMMA NextPiece ==
    ASSUME NEW S, NEW o \in Seq(S), o # <<>>
    PROVE  /\ Head(o) = o[1] /\ o[1] \in S /\ Tail(o) \in Seq(S)
           /\ Len(o) \in Nat \ {0} /\ DOMAIN o = 1 .. Len(o)
           /\ Len(Tail(o)) = Len(o) - 1 /\ DOMAIN Tail(o) = 1 .. Len(o) - 1
           /\ \A k \in 1 .. Len(o) - 1 : Tail(o)[k] = o[k + 1]
  BY HeadTailProperties

LEMMA WriteStep ==
    ASSUME ConsoleIInv, Terminal!Write
    PROVE  ConsoleIInv'
<1>1. PICK p : p = output[1]
  OBVIOUS
<1>2. /\ process = "running" /\ output # <<>> /\ output' = Tail(output)
      /\ UNCHANGED <<launch, initialized, isConsole, prompted, messages, waiting, scripts, script,
                     factories, prompting, stopped>>
      /\ Terminal!TypeOK /\ Terminal!OutputInv /\ Terminal!MessagesInv /\ Terminal!TurnInv
      /\ Terminal!ReportInv /\ Terminal!IdlePromptsUncolored /\ Terminal!PlainPromptsIdle
      /\ launch \in Launches
  BY DEF ConsoleIInv, Terminal!ConsoleInv, Terminal!Write, Terminal!Running, Terminal!settings
<1>3. PICK L \in Nat : L = Len(output)
  BY <1>2 DEF Terminal!TypeOK
<1>4. PICK N \in Nat : N = Len(pieces)
  BY <1>2 DEF Terminal!TypeOK
<1>5. /\ Head(output) = p /\ p \in Terminal!Pieces /\ output' \in Seq(Terminal!Pieces)
      /\ L > 0 /\ DOMAIN output = 1 .. L /\ DOMAIN output' = 1 .. L - 1 /\ Len(output') = L - 1
      /\ \A k \in 1 .. L - 1 : output'[k] = output[k + 1]
  BY <1>1, <1>2, <1>3, NextPiece DEF Terminal!TypeOK
<1>6. /\ pieces' = IF p.op \in {"color", "line"} THEN Append(pieces, p) ELSE pieces
      /\ IF p.op = "flush" \/ (p.op = "line" /\ launch.tty) THEN flushed' = Len(pieces') ELSE UNCHANGED flushed
      /\ prompts' = IF p.op = "prompt" THEN prompts + 1 ELSE prompts
      /\ process' = IF p.op = "abort" THEN "aborted" ELSE process
  BY <1>5 DEF Terminal!Write, Terminal!Flush
<1>7. PICK M \in Nat : M = IF p.op \in {"color", "line"} THEN N + 1 ELSE N
  OBVIOUS
<1>8. /\ pieces' \in Seq(Terminal!Pieces) /\ Len(pieces') = M
      /\ DOMAIN pieces = 1 .. N /\ DOMAIN pieces' = 1 .. M /\ N <= M
      /\ \A i \in 1 .. N : pieces'[i] = pieces[i]
      /\ M # N => M = N + 1 /\ pieces'[M] = p
  <2>1. pieces \in Seq(Terminal!Pieces)
    BY <1>2 DEF Terminal!TypeOK
  <2>2. CASE p.op \in {"color", "line"}
    BY <1>4, <1>5, <1>6, <1>7, <2>1, <2>2, PushOnStack
  <2>3. CASE p.op \notin {"color", "line"}
    BY <1>4, <1>6, <1>7, <2>1, <2>3
  <2> QED
    BY <2>2, <2>3
<1>9. /\ flushed \in 0 .. N /\ prompted \subseteq [at : 0 .. flushed, busy : BOOLEAN]
      /\ flushed' \in {flushed, M}
  BY <1>2, <1>4, <1>6, <1>8 DEF Terminal!TypeOK
<1>10. Terminal!TypeOK'
  <2>1. prompts' \in Nat /\ process' \in {"running", "exited", "aborted", "crashed"}
    BY <1>2, <1>6 DEF Terminal!TypeOK
  <2>2. flushed' \in 0 .. Len(pieces') /\ prompted' \subseteq [at : 0 .. flushed', busy : BOOLEAN]
    <3>1. flushed \in Nat /\ flushed' \in Nat /\ flushed <= flushed' /\ flushed' <= Len(pieces')
      BY <1>8, <1>9
    <3>2. prompted \subseteq [at : 0 .. flushed', busy : BOOLEAN]
      BY <1>9, <3>1, PromptsType
    <3> QED
      BY <1>2, <1>8, <3>1, <3>2
  <2> QED
    BY <1>2, <1>5, <1>8, <2>1, <2>2 DEF Terminal!TypeOK
<1>11. \A c : \A i \in 0 .. N : Terminal!InColor(i, c) => Terminal!InColor(i, c)'
  <2> TAKE c
  <2> TAKE i \in 0 .. N
  <2>1. i \in Nat /\ \A j \in 1 .. i : pieces'[j] = pieces[j]
    BY <1>8
  <2> QED
    BY <2>1, ColorKept
<1>12. /\ \A c : p.op # "color" /\ Terminal!InColor(N, c) => Terminal!InColor(M, c)'
       /\ p.op = "color" => Terminal!InColor(M, p.color)'
  <2>1. CASE M = N
    BY <1>7, <1>11, <2>1
  <2>2. CASE M = N + 1
    <3>1. pieces'[M] = p
      BY <1>8, <2>2
    <3> QED
      BY <1>8, <2>2, <3>1, ColorAppended
  <2> QED
    BY <1>8, <2>1, <2>2
<1>13. p.op = "line" => Terminal!InColor(N, p.color)
  <2>1. 1 \in DOMAIN output
    BY <1>5
  <2> QED
    BY <1>1, <1>2, <1>4, <2>1 DEF Terminal!OutputInv
<1>14. Terminal!OutputInv'
  <2>1. \A k \in 1 .. L : output[k].op = "line" =>
            IF k = 1 THEN Terminal!InColor(N, output[k].color)
            ELSE output[k - 1].op = "color" /\ output[k - 1].color = output[k].color
    BY <1>2, <1>4, <1>5 DEF Terminal!OutputInv
  <2>2. \A c : \A k \in 1 .. L - 1 : output'[k].op = "line" /\ output'[k].color = c =>
            IF k = 1 THEN Terminal!InColor(M, c)'
            ELSE output'[k - 1].op = "color" /\ output'[k - 1].color = c
    <3> SUFFICES ASSUME NEW k \in 1 .. L - 1, NEW c, output'[k].op = "line", output'[k].color = c
                 PROVE  IF k = 1 THEN Terminal!InColor(M, c)'
                        ELSE output'[k - 1].op = "color" /\ output'[k - 1].color = c
      OBVIOUS
    <3>1. PICK q \in 1 .. L : q = k + 1
      BY <1>5
    <3>2. output[q].op = "line" /\ output[q].color = c /\ q # 1
      BY <1>5, <3>1
    <3>3. output[q - 1].op = "color" /\ output[q - 1].color = c
      BY <2>1, <3>2
    <3>4. output[k].op = "color" /\ output[k].color = c
      BY <3>1, <3>3
    <3>5. k = 1 => Terminal!InColor(M, c)'
      BY <1>1, <1>12, <3>4
    <3>6. ASSUME k # 1
          PROVE  output'[k - 1].op = "color" /\ output'[k - 1].color = c
      <4>1. PICK j \in 1 .. L - 1 : j = k - 1
        BY <3>6
      <4> QED
        BY <1>5, <3>4, <4>1
    <3> QED
      BY <3>5, <3>6
  <2>3. \/ Terminal!InColor(M, "none")' /\ \A k \in 1 .. L - 1 : output'[k].op # "color"
        \/ \E k \in 1 .. L - 1 :
              /\ output'[k].op = "color" /\ output'[k].color = "none"
              /\ \A j \in 1 .. L - 1 : j > k => output'[j].op # "color"
    <3>1. \/ Terminal!InColor(N, "none") /\ \A k \in 1 .. L : output[k].op # "color"
          \/ \E k \in 1 .. L :
                /\ output[k].op = "color" /\ output[k].color = "none"
                /\ \A j \in 1 .. L : j > k => output[j].op # "color"
      BY <1>2, <1>4, <1>5 DEF Terminal!OutputInv
    <3>2. CASE Terminal!InColor(N, "none") /\ \A k \in 1 .. L : output[k].op # "color"
      BY <1>1, <1>5, <1>12, <3>2
    <3>3. ASSUME NEW k \in 1 .. L, output[k].op = "color", output[k].color = "none",
                 \A j \in 1 .. L : j > k => output[j].op # "color"
          PROVE  <2>3!:
      <4>1. CASE k = 1
        <5>1. Terminal!InColor(M, "none")'
          BY <1>1, <1>12, <3>3, <4>1
        <5>2. \A j \in 1 .. L - 1 : output'[j].op # "color"
          BY <1>5, <3>3, <4>1
        <5> QED
          BY <5>1, <5>2
      <4>2. CASE k # 1
        <5>1. PICK j \in 1 .. L - 1 : j = k - 1
          BY <4>2
        <5>2. output'[j].op = "color" /\ output'[j].color = "none"
          BY <1>5, <3>3, <5>1
        <5>3. \A i \in 1 .. L - 1 : i > j => output'[i].op # "color"
          BY <1>5, <3>3, <5>1
        <5> QED
          BY <5>2, <5>3
      <4> QED
        BY <4>1, <4>2
    <3> QED
      BY <3>1, <3>2, <3>3
  <2>4. \A k \in 1 .. L - 1 :
            /\ output'[k].op = "prompt" => k = L - 1 /\ (k > 1 => output'[k - 1].op = "flush")
            /\ output'[k].op = "abort" => k = L - 1
    <3> TAKE k \in 1 .. L - 1
    <3>1. PICK q \in 1 .. L : q = k + 1
      BY <1>5
    <3>2. /\ output[q].op = "prompt" => q = L /\ (q > 1 => output[q - 1].op = "flush")
          /\ output[q].op = "abort" => q = L
      BY <1>2, <1>3, <1>5 DEF Terminal!OutputInv
    <3>3. output'[k] = output[q] /\ (k > 1 => output'[k - 1] = output[k])
      BY <1>5, <3>1
    <3> QED
      BY <3>1, <3>2, <3>3
  <2>5. PICK o : o = output'
    OBVIOUS
  <2>6. Len(pieces') = M /\ Len(o) = L - 1 /\ DOMAIN o = 1 .. L - 1
    BY <1>5, <1>8, <2>5
  <2>7. \A k \in DOMAIN o : o[k].op = "line" =>
           IF k = 1 THEN Terminal!InColor(M, o[k].color)'
           ELSE o[k - 1].op = "color" /\ o[k - 1].color = o[k].color
    BY <2>2, <2>5, <2>6
  <2>8. \/ Terminal!InColor(M, "none")' /\ \A k \in DOMAIN o : o[k].op # "color"
        \/ \E k \in DOMAIN o :
              /\ o[k].op = "color" /\ o[k].color = "none"
              /\ \A j \in DOMAIN o : j > k => o[j].op # "color"
    BY <2>3, <2>5, <2>6
  <2>9. \A k \in DOMAIN o :
            /\ o[k].op = "prompt" => k = Len(o) /\ (k > 1 => o[k - 1].op = "flush")
            /\ o[k].op = "abort" => k = Len(o)
    BY <2>4, <2>5, <2>6
  <2> QED
    BY <2>5, <2>6, <2>7, <2>8, <2>9 DEF Terminal!OutputInv
<1>15. /\ \A k \in 1 .. L : Terminal!IsMessage(output[k]) =>
             output[k].id = messages /\ \A j \in 1 .. L : Terminal!IsMessage(output[j]) => j = k
       /\ \A i \in 1 .. N : Terminal!IsMessage(pieces[i]) => pieces[i].id \in 1 .. Terminal!Given
       /\ \A id \in 1 .. Terminal!Given : \E i \in 1 .. N : Terminal!IsMessage(pieces[i]) /\ pieces[i].id = id
       /\ \A i, j \in 1 .. N :
             Terminal!IsMessage(pieces[i]) /\ Terminal!IsMessage(pieces[j]) /\ i < j => pieces[i].id < pieces[j].id
  BY <1>2, <1>5, <1>8 DEF Terminal!MessagesInv
<1>16. /\ messages \in Nat /\ p.id \in Nat
       /\ Terminal!IsMessage(p) => messages # 0
  <2>1. messages \in Nat /\ p.id \in Nat
    BY <1>2, <1>5 DEF Terminal!TypeOK, Terminal!Pieces
  <2>2. Terminal!IsMessage(p) => p.id = messages
    BY <1>1, <1>5, <1>15
  <2> QED
    BY <2>1, <2>2 DEF Terminal!IsMessage
<1>17. /\ Terminal!Pending <=> \E k \in 1 .. L : Terminal!IsMessage(output[k])
       /\ Terminal!Pending' <=> \E k \in 1 .. L - 1 : Terminal!IsMessage(output'[k])
  BY <1>5 DEF Terminal!Pending, Terminal!IsMessage
<1>18. ASSUME Terminal!IsMessage(p)
       PROVE  Terminal!MessagesInv' /\ ~Terminal!Pending'
  <2>1. p.op = "line" /\ M = N + 1 /\ p.id = messages
    BY <1>1, <1>5, <1>7, <1>15, <1>18 DEF Terminal!IsMessage
  <2>2. Terminal!Pending /\ Terminal!Given = messages - 1
    BY <1>1, <1>5, <1>17, <1>18 DEF Terminal!Given
  <2>3. \A k \in 1 .. L - 1 : ~Terminal!IsMessage(output'[k])
    BY <1>1, <1>5, <1>15, <1>18
  <2>4. ~Terminal!Pending' /\ Terminal!Given' = messages
    BY <1>2, <1>17, <2>3 DEF Terminal!Given
  <2>5. \A i \in 1 .. M : pieces'[i] = IF i = M THEN p ELSE pieces[i]
    BY <1>8, <2>1
  <2>6. \A i \in 1 .. M : Terminal!IsMessage(pieces'[i]) => pieces'[i].id \in 1 .. messages
    BY <1>15, <1>16, <2>1, <2>2, <2>5
  <2>7. \A id \in 1 .. messages : \E i \in 1 .. M : Terminal!IsMessage(pieces'[i]) /\ pieces'[i].id = id
    <3> TAKE id \in 1 .. messages
    <3>1. CASE id = messages
      BY <1>18, <2>1, <2>5, <3>1
    <3>2. CASE id # messages
      <4>1. id \in 1 .. messages - 1
        BY <1>16, <3>2
      <4>2. PICK i \in 1 .. N : Terminal!IsMessage(pieces[i]) /\ pieces[i].id = id
        BY <1>15, <2>2, <4>1
      <4> QED
        BY <1>8, <4>2
    <3> QED
      BY <3>1, <3>2
  <2>8. \A i, j \in 1 .. M :
           Terminal!IsMessage(pieces'[i]) /\ Terminal!IsMessage(pieces'[j]) /\ i < j => pieces'[i].id < pieces'[j].id
    <3> SUFFICES ASSUME NEW i \in 1 .. M, NEW j \in 1 .. M,
                        Terminal!IsMessage(pieces'[i]), Terminal!IsMessage(pieces'[j]), i < j
                 PROVE  pieces'[i].id < pieces'[j].id
      OBVIOUS
    <3>1. i \in 1 .. N /\ pieces'[i] = pieces[i]
      BY <2>1, <2>5
    <3>2. CASE j = M
      BY <1>15, <1>16, <2>1, <2>2, <2>5, <3>1, <3>2
    <3>3. CASE j # M
      BY <1>15, <2>1, <2>5, <3>1, <3>3
    <3> QED
      BY <3>2, <3>3
  <2>9. Terminal!MessagesInv'
    BY <1>2, <1>5, <1>8, <2>3, <2>4, <2>6, <2>7, <2>8 DEF Terminal!MessagesInv
  <2> QED
    BY <2>4, <2>9
<1>19. ASSUME ~Terminal!IsMessage(p)
       PROVE  Terminal!MessagesInv' /\ (Terminal!Pending' => Terminal!Pending)
  <2>1. \A k \in 1 .. L - 1 : k + 1 \in 1 .. L /\ output'[k] = output[k + 1]
    BY <1>5
  <2>2. \A k \in 1 .. L : k # 1 => k - 1 \in 1 .. L - 1 /\ output'[k - 1] = output[k]
    BY <1>5
  <2>3. Terminal!Pending' <=> Terminal!Pending
    <3>1. Terminal!Pending' => Terminal!Pending
      BY <1>17, <2>1
    <3>2. Terminal!Pending => Terminal!Pending'
      <4>1. \A k \in 1 .. L : Terminal!IsMessage(output[k]) => k # 1
        BY <1>1, <1>19
      <4> QED
        BY <1>17, <2>2, <4>1
    <3> QED
      BY <3>1, <3>2
  <2>4. Terminal!Given' = Terminal!Given
    BY <1>2, <2>3 DEF Terminal!Given
  <2>5. \A k \in 1 .. L - 1 : Terminal!IsMessage(output'[k]) =>
           output'[k].id = messages /\ \A j \in 1 .. L - 1 : Terminal!IsMessage(output'[j]) => j = k
    <3> SUFFICES ASSUME NEW k \in 1 .. L - 1, Terminal!IsMessage(output'[k])
                 PROVE  output'[k].id = messages /\ \A j \in 1 .. L - 1 : Terminal!IsMessage(output'[j]) => j = k
      OBVIOUS
    <3>1. PICK q \in 1 .. L : q = k + 1 /\ output'[k] = output[q]
      BY <2>1
    <3>2. output[q].id = messages /\ \A j \in 1 .. L : Terminal!IsMessage(output[j]) => j = q
      BY <1>15, <3>1
    <3>3. \A j \in 1 .. L - 1 : Terminal!IsMessage(output'[j]) => j + 1 = q
      BY <2>1, <3>2
    <3> QED
      BY <3>1, <3>2, <3>3
  <2>6. \A i \in 1 .. M : Terminal!IsMessage(pieces'[i]) => i \in 1 .. N /\ pieces'[i] = pieces[i]
    <3> SUFFICES ASSUME NEW i \in 1 .. M, Terminal!IsMessage(pieces'[i])
                 PROVE  i \in 1 .. N
      BY <1>8
    <3> QED
      BY <1>8, <1>19
  <2>7. \A i \in 1 .. N : i \in 1 .. M /\ pieces'[i] = pieces[i]
    BY <1>8
  <2>8. \A i \in 1 .. M : Terminal!IsMessage(pieces'[i]) => pieces'[i].id \in 1 .. Terminal!Given
    BY <1>15, <2>6
  <2>9. \A id \in 1 .. Terminal!Given : \E i \in 1 .. M : Terminal!IsMessage(pieces'[i]) /\ pieces'[i].id = id
    BY <1>15, <2>7
  <2>10. \A i, j \in 1 .. M :
           Terminal!IsMessage(pieces'[i]) /\ Terminal!IsMessage(pieces'[j]) /\ i < j => pieces'[i].id < pieces'[j].id
    BY <1>15, <2>6
  <2>11. Terminal!MessagesInv'
    BY <1>2, <1>5, <1>8, <2>4, <2>5, <2>8, <2>9, <2>10 DEF Terminal!MessagesInv
  <2> QED
    BY <2>3, <2>11
<1>20. Terminal!MessagesInv'
  BY <1>18, <1>19
<1>21. Terminal!TurnInv' /\ Terminal!ReportInv' /\ ~stopped'
  <2>1. ASSUME p.op = "prompt"
        PROVE  /\ L = 1 /\ output' = <<>> /\ prompts' = prompts + 1 /\ launch.mode = "repl"
               /\ flushed = N /\ flushed' = Len(pieces')
    <3>1. 1 \in DOMAIN output /\ L = 1
      BY <1>1, <1>2, <1>3, <1>5, <2>1 DEF Terminal!OutputInv
    <3>2. output' = <<>>
      BY <1>5, <3>1
    <3>3. flushed = N /\ launch.mode = "repl"
      BY <1>1, <1>2, <1>4, <2>1, <3>1 DEF Terminal!ReportInv
    <3>4. pieces' = pieces /\ flushed' = flushed /\ prompts' = prompts + 1
      BY <1>6, <2>1
    <3> QED
      BY <1>4, <3>1, <3>2, <3>3, <3>4
  <2>2. p.op # "prompt" => prompts' = prompts
    BY <1>6
  <2>3. ASSUME output' # <<>>, output'[1].op = "prompt"
        PROVE  flushed' = Len(pieces')
    <3>1. L > 1 /\ 1 \in 1 .. L - 1 /\ 2 \in DOMAIN output
      BY <1>5, <2>3
    <3>2. output[2].op = "prompt"
      BY <1>5, <2>3, <3>1
    <3>3. output[2 - 1].op = "flush"
      BY <1>2, <3>1, <3>2 DEF Terminal!OutputInv
    <3>4. p.op = "flush"
      BY <1>1, <3>3
    <3> QED
      BY <1>6, <3>4
  <2>4. Terminal!TurnInv'
    <3> SUFFICES ASSUME launch.args = 0, factories = 0
                 PROVE  Terminal!TurnInv'
      BY <1>2 DEF Terminal!TurnInv
    <3>1. /\ prompts = 0 /\ ~prompting /\ waiting = 0
          /\ \A k \in 1 .. L : output[k].op = "prompt" => ~script
      BY <1>2, <1>5 DEF Terminal!TypeOK, Terminal!TurnInv, Terminal!Idle
    <3>2. \A k \in 1 .. L - 1 : output'[k].op = "prompt" => ~script
      BY <1>5, <3>1
    <3>3. p.op = "prompt" => ~script
      BY <1>1, <1>5, <3>1
    <3> QED
      BY <1>2, <1>5, <2>1, <2>2, <3>1, <3>2, <3>3 DEF Terminal!TurnInv, Terminal!Idle
  <2>5. Terminal!ReportInv'
    <3>1. ASSUME launch.mode = "repl", ~script
          PROVE  IF output' = <<>> THEN flushed' = Len(pieces') ELSE output'[Len(output')].op = "prompt"
      <4>1. output[L].op = "prompt"
        BY <1>2, <1>3, <3>1 DEF Terminal!ReportInv
      <4>2. CASE output' = <<>>
        <5>1. L = 1
          BY <1>5, <4>2
        <5> QED
          BY <1>1, <2>1, <4>1, <4>2, <5>1
      <4>3. CASE output' # <<>>
        <5>1. L - 1 \in 1 .. L - 1 /\ Len(output') = L - 1
          BY <1>5, <4>3
        <5>2. output'[L - 1] = output[L]
          BY <1>5, <5>1
        <5> QED
          BY <4>1, <4>3, <5>1, <5>2
      <4> QED
        BY <4>2, <4>3
    <3>2. ASSUME launch.mode # "repl"
          PROVE  prompts' = 0 /\ \A k \in DOMAIN output' : output'[k].op # "prompt"
      <4>1. prompts = 0 /\ \A k \in 1 .. L : output[k].op # "prompt"
        BY <1>2, <1>5, <3>2 DEF Terminal!ReportInv
      <4>2. prompts' = 0
        BY <1>1, <1>5, <2>2, <4>1
      <4>3. \A k \in 1 .. L - 1 : output'[k].op # "prompt"
        BY <1>5, <4>1
      <4> QED
        BY <1>5, <4>2, <4>3
    <3> QED
      BY <1>2, <2>3, <3>1, <3>2 DEF Terminal!ReportInv
  <2>6. ~stopped'
    BY <1>2 DEF ConsoleIInv, Terminal!ConsoleInv, Terminal!Idle, Terminal!TypeOK
  <2> QED
    BY <2>4, <2>5, <2>6
<1>22. \A c : \A i \in 1 .. M : pieces'[i].op = "line" /\ pieces'[i].color = c =>
          Terminal!InColor(i, c)' /\ (launch.tty => i <= flushed')
  <2> SUFFICES ASSUME NEW i \in 1 .. M, NEW c, pieces'[i].op = "line", pieces'[i].color = c
               PROVE  Terminal!InColor(i, c)' /\ (launch.tty => i <= flushed')
    OBVIOUS
  <2>1. CASE i \in 1 .. N
    <3>1. pieces[i].op = "line" /\ pieces[i].color = c
      BY <1>8, <2>1
    <3>2. Terminal!InColor(i, c) /\ (launch.tty => i <= flushed)
      BY <1>8, <2>1, <3>1 DEF ConsoleIInv, Terminal!ConsoleInv
    <3> QED
      BY <1>8, <1>9, <1>11, <2>1, <3>2
  <2>2. CASE i \notin 1 .. N
    <3>1. i = M /\ M = N + 1 /\ pieces'[M] = p
      BY <1>8, <2>2
    <3>2. Terminal!InColor(M, c)'
      BY <1>12, <1>13, <3>1
    <3>3. launch.tty => flushed' = M
      BY <1>6, <1>8, <3>1
    <3> QED
      BY <3>1, <3>2, <3>3
  <2> QED
    BY <2>1, <2>2
<1>23. Terminal!IdlePromptsUncolored' /\ Terminal!PlainPromptsIdle'
  <2>1. \A x \in prompted : x.at \in 0 .. N
    BY <1>9
  <2> QED
    BY <1>2, <1>11, <2>1 DEF Terminal!IdlePromptsUncolored, Terminal!PlainPromptsIdle
<1>24. process' = "aborted" => ~Terminal!Pending'
  <2>1. ASSUME p.op = "abort"
        PROVE  L - 1 = 0
    <3>1. 1 \in DOMAIN output
      BY <1>5
    <3> QED
      BY <1>1, <1>2, <1>3, <2>1, <3>1 DEF Terminal!OutputInv
  <2>2. p.op = "abort" => ~Terminal!Pending'
    BY <1>17, <2>1
  <2> QED
    BY <1>2, <1>6, <2>2
<1>25. process' # "exited"
  BY <1>2, <1>6
<1> QED
  <2>1. \A i \in DOMAIN pieces' : pieces'[i].op = "line" =>
          Terminal!InColor(i, pieces[i].color)' /\ (launch'.tty => i <= flushed')
    BY <1>2, <1>8, <1>22
  <2> QED
    BY <1>2, <1>10, <1>14, <1>20, <1>21, <1>23, <1>24, <1>25, <2>1 DEF ConsoleIInv, Terminal!ConsoleInv

LEMMA ConsoleStutters ==
    ASSUME ConsoleIInv, UNCHANGED Terminal!vars
    PROVE  ConsoleIInv'
<1>1. UNCHANGED <<launch, initialized, isConsole, output, pieces, flushed, prompted, messages,
                  waiting, scripts, script, factories, prompts, prompting, stopped, process>>
  BY DEF Terminal!vars, Terminal!settings, Terminal!terminal, Terminal!session
<1>2. Terminal!TypeOK' /\ Terminal!TurnInv' /\ (stopped' => Terminal!Idle' /\ waiting' = 0)
  BY <1>1 DEF ConsoleIInv, Terminal!ConsoleInv, Terminal!TypeOK, Terminal!TurnInv, Terminal!Idle
<1> QED
  BY <1>1, <1>2, TerminalKept

LEMMA ConsoleStep ==
    ASSUME ConsoleIInv, Terminal!Next
    PROVE  ConsoleIInv'
<1>1. CASE Terminal!BoundLogMethodCallback
  <2>1. ASSUME NEW level \in DOMAIN Terminal!Levels, Terminal!InScript, UNCHANGED process,
               Terminal!AddMessage(Terminal!Levels[level], <<>>)
        PROVE  ConsoleIInv'
    <3>1. PICK c \in Terminal!Colors : c = Terminal!Levels[level]
      BY DEF Terminal!Colors, Terminal!Levels, Terminal!Range
    <3> QED
      BY <2>1, <3>1, AddMessageStep
  <2> QED
    BY <1>1, <2>1, CrashStep DEF Terminal!BoundLogMethodCallback
<1>2. CASE Terminal!Fatal
  <2>1. PICK c \in Terminal!Colors : c = Terminal!Levels.error
    BY DEF Terminal!Colors, Terminal!Levels, Terminal!Range
  <2>2. PICK after : after = <<Terminal!Piece("abort", 0, "none")>>
    OBVIOUS
  <2>3. Terminal!InScript /\ Terminal!AddMessage(c, after) /\ UNCHANGED process
    BY <1>2, <2>1, <2>2 DEF Terminal!Fatal
  <2> QED
    BY <2>2, <2>3, AddMessageStep
<1>3. CASE UNCHANGED Terminal!vars
  BY <1>3, ConsoleStutters
<1>4. CASE Terminal!ShellCrashes
  BY <1>4, CrashStep DEF Terminal!ShellCrashes
<1> QED
  BY <1>1, <1>2, <1>3, <1>4, RunScriptStep, ReportsStep, WriteStep, FlushStep, PromptStep,
     TypeScriptStep, StopStep
     DEF Terminal!Next

LEMMA ConsoleShows ==
    ASSUME ConsoleIInv
    PROVE  /\ Terminal!TypeOK /\ Terminal!LinesInTheirColor
           /\ Terminal!IdlePromptsUncolored /\ Terminal!PlainPromptsIdle
           /\ Terminal!MessagesInOrder /\ Terminal!FatalShown
<1>1. PICK N \in Nat : N = Len(pieces)
  BY DEF ConsoleIInv, Terminal!TypeOK
<1>2. /\ DOMAIN pieces = 1 .. N /\ flushed \in 0 .. N /\ messages \in Nat
      /\ \A i \in 1 .. N : pieces[i].id \in Nat
  <2>1. \A i \in 1 .. N : pieces[i] \in Terminal!Pieces
    BY <1>1 DEF ConsoleIInv, Terminal!TypeOK
  <2>2. \A x \in Terminal!Pieces : x.id \in Nat
    BY DEF Terminal!Pieces
  <2>3. DOMAIN pieces = 1 .. N /\ flushed \in 0 .. N
    BY <1>1 DEF ConsoleIInv, Terminal!TypeOK
  <2>4. messages \in Nat
    BY DEF ConsoleIInv, Terminal!TypeOK
  <2> QED
    BY <2>1, <2>2, <2>3, <2>4
<1>3. /\ \A i \in 1 .. N : pieces[i].op = "line" =>
            Terminal!InColor(i, pieces[i].color) /\ (launch.tty => i <= flushed)
      /\ process = "aborted" => ~Terminal!Pending
      /\ process = "exited" => output = <<>> /\ flushed = N
      /\ Terminal!OutputInv /\ Terminal!MessagesInv
  BY <1>1, <1>2 DEF ConsoleIInv, Terminal!ConsoleInv
<1>4. Terminal!LinesInTheirColor
  <2>1. \A i \in 1 .. flushed : i \in 1 .. N
    BY <1>2
  <2> QED
    BY <1>3, <2>1 DEF Terminal!LinesInTheirColor
<1>5. /\ \A i \in 1 .. N : Terminal!IsMessage(pieces[i]) => pieces[i].id \in 1 .. Terminal!Given
      /\ \A id \in 1 .. Terminal!Given : \E i \in 1 .. N : Terminal!IsMessage(pieces[i]) /\ pieces[i].id = id
      /\ \A i, j \in 1 .. N :
            Terminal!IsMessage(pieces[i]) /\ Terminal!IsMessage(pieces[j]) /\ i < j => pieces[i].id < pieces[j].id
  BY <1>2, <1>3 DEF Terminal!MessagesInv
<1>6. PICK G \in Int : G = Terminal!Given
  BY <1>2 DEF Terminal!Given
<1>7. ASSUME NEW j \in 1 .. flushed, Terminal!IsMessage(pieces[j])
      PROVE  {pieces[i].id : i \in {i \in 1 .. j : Terminal!IsMessage(pieces[i])}} = 1 .. pieces[j].id
  <2>1. j \in 1 .. N /\ pieces[j].id \in 1 .. G
    BY <1>2, <1>5, <1>6, <1>7
  <2>2. ASSUME NEW i \in 1 .. j, Terminal!IsMessage(pieces[i])
        PROVE  pieces[i].id \in 1 .. pieces[j].id
    <3>1. i \in 1 .. N /\ pieces[i].id \in 1 .. G
      BY <1>5, <1>6, <2>1, <2>2
    <3>2. CASE i = j
      BY <3>1, <3>2
    <3>3. CASE i < j
      <4>1. pieces[i].id < pieces[j].id
        BY <1>5, <1>7, <2>1, <2>2, <3>1, <3>3
      <4> QED
        BY <2>1, <3>1, <4>1
    <3> QED
      BY <3>2, <3>3
  <2>3. ASSUME NEW id \in 1 .. pieces[j].id
        PROVE  \E i \in 1 .. j : Terminal!IsMessage(pieces[i]) /\ pieces[i].id = id
    <3>1. id \in 1 .. G
      BY <2>1
    <3>2. PICK i \in 1 .. N : Terminal!IsMessage(pieces[i]) /\ pieces[i].id = id
      BY <1>5, <1>6, <3>1
    <3>3. ~(j < i)
      <4>1. j < i => pieces[j].id < pieces[i].id
        BY <1>5, <1>7, <2>1, <3>2
      <4> QED
        BY <2>1, <3>2, <4>1
    <3> QED
      BY <2>1, <3>2, <3>3
  <2> QED
    BY <2>2, <2>3
<1>8. \A i, j \in 1 .. flushed :
          i # j /\ Terminal!IsMessage(pieces[i]) /\ Terminal!IsMessage(pieces[j]) => pieces[i].id # pieces[j].id
  <2> SUFFICES ASSUME NEW i \in 1 .. flushed, NEW j \in 1 .. flushed,
                      Terminal!IsMessage(pieces[i]), Terminal!IsMessage(pieces[j]), i < j
               PROVE  pieces[i].id # pieces[j].id
    BY <1>2
  <2> QED
    BY <1>2, <1>5
<1>9. ~Terminal!Pending =>
         \A id \in 1 .. messages : \E i \in 1 .. N : Terminal!IsMessage(pieces[i]) /\ pieces[i].id = id
  BY <1>5 DEF Terminal!Given
<1>10. process = "exited" => (\A id \in 1 .. messages : Terminal!Shown(id)) /\ Terminal!InColor(flushed, "none")
  <2> SUFFICES ASSUME process = "exited"
               PROVE  (\A id \in 1 .. messages : Terminal!Shown(id)) /\ Terminal!InColor(flushed, "none")
    OBVIOUS
  <2>1. output = <<>> /\ flushed = N
    BY <1>3
  <2>2. ~Terminal!Pending
    BY <2>1 DEF Terminal!Pending
  <2>3. Terminal!InColor(N, "none")
    BY <1>1, <1>3, <2>1 DEF Terminal!OutputInv
  <2> QED
    BY <1>9, <2>1, <2>2, <2>3 DEF Terminal!Shown
<1>11. Terminal!FatalShown
  <2> SUFFICES ASSUME launch.tty, process = "aborted", NEW id \in 1 .. messages
               PROVE  Terminal!Shown(id)
    BY DEF Terminal!FatalShown
  <2>1. PICK i \in 1 .. N : Terminal!IsMessage(pieces[i]) /\ pieces[i].id = id
    BY <1>3, <1>9
  <2>2. i \in 1 .. flushed
    BY <1>2, <1>3, <2>1 DEF Terminal!IsMessage
  <2> QED
    BY <2>1, <2>2 DEF Terminal!Shown
<1>12. Terminal!MessagesInOrder
  BY <1>7, <1>8, <1>10 DEF Terminal!MessagesInOrder
<1> QED
  BY <1>4, <1>11, <1>12 DEF ConsoleIInv, Terminal!ConsoleInv

-------------------------------------------------------------------------------
(***************************************************************************)
(* The build.                                                              *)
(***************************************************************************)
Texts == Seq(Build!Ascii)

Entries == [name : Ids, source : Texts]

BuildIInv ==
    /\ Build!TypeOK /\ Build!BuildInv
    /\ files \in Seq(Build!Files) /\ Len(files) <= MaxFiles

LEMMA FileType ==
    ASSUME NEW file \in Build!Files
    PROVE  /\ file.id \in Ids /\ file.text \in Seq(Build!Chars)
           /\ Build!CompressScript(file) \in Seq(Build!Chars)
           /\ Build!Range(Build!CompressScript(file)) \subseteq Build!Range(file.text)
<1>1. file.id \in Ids /\ file.text \in FileTexts
  BY DEF Build!Files
<1>2. /\ file.text \in Seq(Build!Chars)
      /\ Jsmin[file.text] \in Seq(Build!Range(file.text))
  BY <1>1, ComponentAssumptions DEF Build!BuildAssumption
<1>3. Build!Range(file.text) \subseteq Build!Chars
  BY <1>2 DEF Build!Range
<1>4. ASSUME NEW S, NEW s \in Seq(S)
      PROVE  Build!Range(s) \subseteq S
  BY DEF Build!Range
<1>5. Jsmin[file.text] \in Seq(Build!Chars)
  BY <1>2, <1>3
<1>6. Build!Range(Jsmin[file.text]) \subseteq Build!Range(file.text)
  BY <1>2, <1>4
<1> QED
  BY <1>1, <1>2, <1>5, <1>6 DEF Build!CompressScript

\* The array of a text has one element more, a zero, and its first ones are the
\* text.
LEMMA ArrayOfText ==
    ASSUME NEW S, NEW text \in Seq(S)
    PROVE  /\ Len(Build!ToCArray(text)) - 1 = Len(text)
           /\ SubSeq(Build!ToCArray(text), 1, Len(text)) = text
           /\ Len(text) \in Nat
<1>1. PICK n \in Nat : n = Len(text) /\ DOMAIN text = 1 .. n
  OBVIOUS
<1>2. PICK array : array = Build!ToCArray(text)
  OBVIOUS
<1>3. /\ array \in Seq(S \cup {0}) /\ Len(array) = n + 1
      /\ \A i \in 1 .. n : array[i] = text[i]
  <2>1. text \in Seq(S \cup {0}) /\ 0 \in S \cup {0}
    OBVIOUS
  <2> QED
    BY <1>1, <1>2, <2>1, AppendProperties DEF Build!ToCArray
<1>4. PICK part : part = SubSeq(array, 1, n)
  OBVIOUS
<1>5. Len(part) = n /\ DOMAIN part = 1 .. n /\ \A i \in 1 .. n : part[i] = array[i]
  BY <1>1, <1>3, <1>4
<1>6. part \in Seq(S \cup {0})
  BY <1>1, <1>3, <1>4
<1>7. part = text
  BY <1>1, <1>3, <1>5, <1>6
<1> QED
  BY <1>1, <1>2, <1>3, <1>4, <1>7

LEMMA BuildInit == Build!Init => BuildIInv
<1> SUFFICES ASSUME Build!Init PROVE BuildIInv
  OBVIOUS
<1>1. /\ stage = "js2c" /\ next = 1 /\ natives = <<>> /\ sourceMap = {}
      /\ files \in UNION {[1 .. k -> Build!Files] : k \in 0 .. MaxFiles}
  BY DEF Build!Init
<1>2. PICK k \in 0 .. MaxFiles : files \in [1 .. k -> Build!Files]
  BY <1>1
<1>3. MaxFiles \in Nat
  BY ComponentAssumptions DEF Build!BuildAssumption
<1>4. k \in Nat /\ k <= MaxFiles
  BY <1>2, <1>3
<1>5. files \in Seq(Build!Files) /\ Len(files) = k
  BY <1>2, <1>4
<1>6. Build!TypeOK
  BY <1>1, <1>3 DEF Build!TypeOK, Build!Stages
<1>7. Build!BuildInv
  BY <1>1, <1>4, <1>5 DEF Build!BuildInv, Build!DiesOfEmptyFiles
<1> QED
  BY <1>4, <1>5, <1>6, <1>7 DEF BuildIInv

LEMMA JS2CStep == BuildIInv /\ Build!JS2C => BuildIInv'
<1> SUFFICES ASSUME BuildIInv, Build!JS2C PROVE BuildIInv'
  OBVIOUS
<1>1. stage = "js2c" /\ next <= Len(files) /\ UNCHANGED <<files, sourceMap>> /\ sourceMap = {}
  BY DEF Build!JS2C, BuildIInv, Build!BuildInv
<1>2. PICK text : text = Build!CompressScript(files[next])
  OBVIOUS
<1>3. PICK n \in Nat : /\ n = Len(natives) /\ DOMAIN natives = 1 .. n /\ next = n + 1
                       /\ natives \in Seq(Entries)
  BY <1>1 DEF BuildIInv, Build!TypeOK, Build!BuildInv, Entries, Texts
<1>4. /\ n + 1 \in DOMAIN files /\ files[n + 1] \in Build!Files /\ n + 1 <= MaxFiles /\ MaxFiles \in Nat
      /\ Len(files) \in Nat /\ files \in Seq(Build!Files)
  BY <1>1, <1>3, ComponentAssumptions DEF BuildIInv, Build!BuildAssumption
<1>5. text \in Seq(Build!Chars)
  BY <1>2, <1>3, <1>4, FileType
<1>6. CASE /\ stage' = "non-ascii" /\ UNCHANGED <<next, natives>>
  BY <1>1, <1>6 DEF BuildIInv, Build!TypeOK, Build!Stages, Build!BuildInv, Build!DiesOfEmptyFiles
<1>7. CASE /\ \A c \in Build!Range(text) : c \in Build!Ascii
           /\ natives' = Append(natives, Build!TableEntry(next))
           /\ next' = next + 1 /\ UNCHANGED stage
  <2>1. PICK e : e = Build!TableEntry(n + 1)
    OBVIOUS
  <2>2. e \in Entries
    <3>1. text \in Texts
      BY <1>5, <1>7 DEF Texts, Build!Range
    <3>2. 0 \in Build!Ascii
      BY DEF Build!Ascii
    <3>3. Build!ToCArray(text) \in Texts
      BY <3>1, <3>2 DEF Texts, Build!ToCArray
    <3> QED
      BY <1>2, <1>3, <1>4, <2>1, <3>3, FileType DEF Entries, Build!TableEntry
  <2>3. /\ natives' \in Seq(Entries) /\ Len(natives') = n + 1 /\ DOMAIN natives' = 1 .. n + 1
        /\ natives'[n + 1] = e /\ \A i \in 1 .. n : natives'[i] = natives[i]
    BY <1>3, <1>7, <2>1, <2>2, PushOnStack
  <2>4. ASSUME NEW i \in DOMAIN natives'
        PROVE  natives'[i] = Build!TableEntry(i)'
    <3>1. Build!TableEntry(i)' = Build!TableEntry(i)
      BY <1>1 DEF Build!TableEntry, Build!CompressScript
    <3>2. \A k \in 1 .. n : natives[k] = Build!TableEntry(k)
      BY <1>1, <1>3 DEF BuildIInv, Build!BuildInv
    <3>3. i \in 1 .. n \/ i = n + 1
      BY <2>3
    <3> QED
      BY <2>1, <2>3, <3>1, <3>2, <3>3
  <2>5. Build!TypeOK'
    <3>1. next' \in 1 .. MaxFiles + 1
      BY <1>3, <1>4, <1>7
    <3> QED
      BY <1>1, <1>7, <2>3, <3>1 DEF BuildIInv, Build!TypeOK, Entries, Texts
  <2>6. Build!BuildInv'
    <3>1. next' = Len(natives') + 1 /\ next' <= Len(files') + 1
      BY <1>1, <1>3, <1>4, <1>7, <2>3
    <3> QED
      BY <1>1, <1>7, <2>4, <3>1 DEF Build!BuildInv, Build!DiesOfEmptyFiles
  <2> QED
    BY <1>1, <2>5, <2>6 DEF BuildIInv
<1> QED
  BY <1>2, <1>6, <1>7 DEF Build!JS2C

\* The table is written and compiled.
LEMMA CompileStep == BuildIInv /\ (Build!WriteHeader \/ Build!Compile) => BuildIInv'
<1> SUFFICES ASSUME BuildIInv, Build!WriteHeader \/ Build!Compile PROVE BuildIInv'
  OBVIOUS
<1>1. UNCHANGED <<files, natives, sourceMap>> /\ stage \in {"js2c", "compile"}
  BY DEF Build!WriteHeader, Build!Compile
<1>2. \A i \in DOMAIN natives' : natives'[i] = Build!TableEntry(i)'
  <2>1. ASSUME NEW i PROVE Build!TableEntry(i)' = Build!TableEntry(i)
    BY <1>1 DEF Build!TableEntry, Build!CompressScript
  <2> QED
    BY <1>1, <2>1 DEF BuildIInv, Build!BuildInv
<1>3. Len(natives) \in Nat /\ Len(files) \in Nat /\ DOMAIN natives = 1 .. Len(natives)
      /\ DOMAIN files = 1 .. Len(files) /\ MaxFiles \in Nat
  BY ComponentAssumptions DEF BuildIInv, Build!TypeOK, Build!BuildAssumption
<1>4. CASE Build!WriteHeader
  <2>1. stage = "js2c" /\ next > Len(files) /\ stage' = "compile" /\ UNCHANGED next
    BY <1>4 DEF Build!WriteHeader
  <2>2. Len(natives) = Len(files) /\ sourceMap = {}
    <3>1. next = Len(natives) + 1 /\ next <= Len(files) + 1 /\ sourceMap = {}
      BY <2>1 DEF BuildIInv, Build!BuildInv
    <3>2. PICK a, b \in Nat : a = Len(natives) /\ b = Len(files)
      BY <1>3
    <3>3. next = a + 1 /\ next <= b + 1 /\ next > b
      BY <2>1, <3>1, <3>2
    <3>4. a = b
      BY <3>3
    <3> QED
      BY <3>1, <3>2, <3>4
  <2> QED
    BY <1>1, <1>2, <2>1, <2>2
    DEF BuildIInv, Build!TypeOK, Build!Stages, Build!BuildInv, Build!Complete, Build!DiesOfEmptyFiles
<1>5. CASE Build!Compile /\ stage' = "compile error"
  BY <1>1, <1>2, <1>5
  DEF Build!Compile, BuildIInv, Build!TypeOK, Build!Stages, Build!BuildInv, Build!DiesOfEmptyFiles
<1>6. CASE Build!Compile /\ stage' # "compile error"
  <2>1. /\ stage = "compile" /\ stage' = "start" /\ next' = 1
        /\ \A i, j \in DOMAIN natives : natives[i].name = natives[j].name => i = j
    BY <1>6 DEF Build!Compile
  <2>2. Len(natives) = Len(files) /\ sourceMap = {}
    BY <2>1 DEF BuildIInv, Build!BuildInv, Build!Complete
  <2>3. \A i \in DOMAIN natives : natives[i].name = files[i].id
    BY <2>1 DEF BuildIInv, Build!BuildInv, Build!TableEntry
  <2>4. \A i, j \in DOMAIN files : files[i].id = files[j].id => i = j
    BY <1>3, <2>1, <2>2, <2>3
  <2>5. sourceMap' = {Build!EntryOf(i)' : i \in 1 .. next' - 1}
    BY <1>1, <2>1, <2>2
  <2>6. next' \in 1 .. MaxFiles + 1 /\ next' <= Len(files) + 1
    BY <1>3, <2>1
  <2>7. Build!TypeOK'
    BY <1>1, <2>1, <2>6 DEF BuildIInv, Build!TypeOK, Build!Stages
  <2>8. Build!BuildInv'
    BY <1>1, <1>2, <2>1, <2>2, <2>4, <2>5, <2>6
    DEF Build!BuildInv, Build!Complete, Build!DiesOfEmptyFiles, Build!OneFilePerModule
  <2> QED
    BY <1>1, <2>7, <2>8 DEF BuildIInv
<1> QED
  BY <1>4, <1>5, <1>6

LEMMA StartStep == BuildIInv /\ (Build!ReadTable \/ Build!Sentinel) => BuildIInv'
<1> SUFFICES ASSUME BuildIInv, Build!ReadTable \/ Build!Sentinel PROVE BuildIInv'
  OBVIOUS
<1>1. UNCHANGED <<files, natives>> /\ stage = "start"
  BY DEF Build!ReadTable, Build!Sentinel
<1>2. ASSUME NEW i
      PROVE  Build!TableEntry(i)' = Build!TableEntry(i) /\ Build!EntryOf(i)' = Build!EntryOf(i)
  BY <1>1 DEF Build!TableEntry, Build!EntryOf, Build!CompressScript
<1>3. PICK n \in Nat : /\ n = Len(natives) /\ n = Len(files) /\ DOMAIN natives = 1 .. n
                       /\ DOMAIN files = 1 .. n /\ n <= MaxFiles /\ MaxFiles \in Nat
  BY <1>1, ComponentAssumptions
  DEF BuildIInv, Build!TypeOK, Build!BuildInv, Build!Complete, Build!BuildAssumption
<1>4. /\ next \in 1 .. MaxFiles + 1 /\ next <= n + 1 /\ Build!OneFilePerModule
      /\ sourceMap = {Build!EntryOf(i) : i \in 1 .. next - 1}
      /\ \A i \in 1 .. n : natives[i] = Build!TableEntry(i)
  BY <1>1, <1>3 DEF BuildIInv, Build!TypeOK, Build!BuildInv
<1>5. ASSUME next <= n
      PROVE  /\ Build!CompressScript(files[next]) \in Texts
             /\ Build!SourceLen(next) = Len(Build!CompressScript(files[next]))
             /\ <<natives[next].name, SubSeq(natives[next].source, 1, Build!SourceLen(next))>>
                  = Build!EntryOf(next)
             /\ Build!EntryOf(next) \in Ids \X Texts
  <2>1. next \in 1 .. n /\ files[next] \in Build!Files /\ natives[next] \in Entries
    <3>1. next \in 1 .. n
      BY <1>3, <1>4, <1>5
    <3>2. natives \in Seq(Entries) /\ files \in Seq(Build!Files)
      BY DEF BuildIInv, Build!TypeOK, Entries, Texts
    <3> QED
      BY <1>3, <3>1, <3>2
  <2>2. PICK text : text = Build!CompressScript(files[next])
    OBVIOUS
  <2>3. text \in Seq(Build!Chars) /\ files[next].id \in Ids
    BY <2>1, <2>2, FileType
  <2>4. natives[next].name = files[next].id /\ natives[next].source = Build!ToCArray(text)
    <3>1. natives[next] = Build!TableEntry(next)
      BY <1>4, <2>1
    <3> QED
      BY <2>2, <3>1 DEF Build!TableEntry
  <2>5. Build!SourceLen(next) = Len(text) /\ SubSeq(Build!ToCArray(text), 1, Len(text)) = text
        /\ Len(text) \in Nat
    BY <2>3, <2>4, ArrayOfText DEF Build!SourceLen
  <2>6. text \in Texts
    <3>1. Build!ToCArray(text) \in Seq(Build!Ascii)
      BY <2>1, <2>4 DEF Entries, Texts
    <3>2. ASSUME NEW i \in 1 .. Len(text) PROVE text[i] \in Build!Ascii
      <4>1. Build!ToCArray(text)[i] = text[i] /\ i \in DOMAIN Build!ToCArray(text)
        BY <2>3, <3>2, AppendProperties DEF Build!ToCArray
      <4> QED
        BY <3>1, <4>1
    <3> QED
      BY <2>3, <3>2 DEF Texts
  <2> QED
    BY <2>2, <2>3, <2>4, <2>5, <2>6 DEF Build!EntryOf
<1>6. CASE Build!ReadTable /\ stage' = "empty source"
  <2>1. next <= n /\ Build!SourceLen(next) = 0 /\ UNCHANGED <<next, sourceMap>>
    BY <1>1, <1>3, <1>6 DEF Build!ReadTable
  <2>2. next \in DOMAIN files' /\ Build!CompressScript(files'[next]) = <<>>
    BY <1>1, <1>3, <1>4, <1>5, <2>1 DEF Texts
  <2>3. Build!DiesOfEmptyFiles'
    BY <1>1, <2>2 DEF Build!DiesOfEmptyFiles, Build!CompressScript
  <2> QED
    BY <1>1, <1>2, <1>3, <1>4, <1>6, <2>1, <2>3 DEF BuildIInv, Build!TypeOK, Build!Stages, Build!BuildInv
<1>7. CASE Build!ReadTable /\ stage' # "empty source"
  <2>1. /\ stage' = "start" /\ next <= n /\ next' = next + 1
        /\ sourceMap' = sourceMap \cup {Build!EntryOf(next)}
    BY <1>1, <1>3, <1>5, <1>7 DEF Build!ReadTable, Build!RegisterModule
  <2>2. next' - 1 = next /\ next' \in 1 .. MaxFiles + 1 /\ next' <= n + 1
    BY <1>3, <1>4, <2>1
  <2>3. sourceMap' = {Build!EntryOf(i) : i \in 1 .. next}
    <3>1. 1 .. next = (1 .. next - 1) \cup {next}
      BY <1>4
    <3> QED
      BY <1>4, <2>1, <3>1
  <2>4. sourceMap' = {Build!EntryOf(i)' : i \in 1 .. next' - 1}
    BY <1>2, <2>2, <2>3
  <2>5. sourceMap' \subseteq Ids \X Texts
    BY <1>5, <2>1 DEF BuildIInv, Build!TypeOK, Texts
  <2>6. Build!TypeOK'
    BY <1>1, <2>1, <2>2, <2>5 DEF BuildIInv, Build!TypeOK, Build!Stages, Texts
  <2>7. Build!OneFilePerModule'
    BY <1>1, <1>4, <2>1 DEF Build!OneFilePerModule
  <2>8. Build!BuildInv'
    BY <1>1, <1>2, <1>3, <1>4, <2>1, <2>2, <2>4, <2>7
    DEF Build!BuildInv, Build!Complete, Build!DiesOfEmptyFiles
  <2> QED
    BY <1>1, <2>6, <2>8 DEF BuildIInv
<1>8. CASE Build!Sentinel
  <2>1. stage' = "running" /\ next > n /\ UNCHANGED <<next, sourceMap>>
    BY <1>3, <1>8 DEF Build!Sentinel
  <2>2. next = n + 1
    BY <1>4, <2>1
  <2>3. sourceMap' = {Build!EntryOf(i)' : i \in 1 .. next' - 1}
    BY <1>2, <1>4, <2>1
  <2>4. Build!TypeOK'
    BY <1>1, <2>1 DEF BuildIInv, Build!TypeOK, Build!Stages
  <2>5. Build!OneFilePerModule'
    BY <1>1, <1>4, <2>1 DEF Build!OneFilePerModule
  <2>6. Build!BuildInv'
    BY <1>1, <1>2, <1>3, <1>4, <2>1, <2>2, <2>3, <2>5
    DEF Build!BuildInv, Build!Complete, Build!DiesOfEmptyFiles
  <2> QED
    BY <1>1, <2>4, <2>6 DEF BuildIInv
<1> QED
  BY <1>6, <1>7, <1>8

LEMMA BuildStep == BuildIInv /\ Build!Next => BuildIInv'
  BY JS2CStep, CompileStep, StartStep DEF Build!Next

LEMMA BuildShows ==
    BuildIInv => Build!EmbeddedWhole /\ Build!OneFilePerModule /\ Build!DiesOfEmptyFiles
<1> SUFFICES ASSUME BuildIInv
             PROVE  Build!EmbeddedWhole /\ Build!OneFilePerModule /\ Build!DiesOfEmptyFiles
  OBVIOUS
<1>1. Build!OneFilePerModule /\ Build!DiesOfEmptyFiles
  BY DEF BuildIInv, Build!BuildInv, Build!OneFilePerModule
<1>2. ASSUME stage = "running"
      PROVE  /\ \A i \in DOMAIN files :
                   /\ Build!Registered(files[i].id)
                   /\ 0 \notin Build!Range(files[i].text) =>
                         Build!GetSource(files[i].id) = Build!CompressScript(files[i])
             /\ \A entry \in sourceMap : \E i \in DOMAIN files : files[i].id = entry[1]
  <2>1. sourceMap = {Build!EntryOf(i) : i \in DOMAIN files}
    BY <1>2 DEF BuildIInv, Build!BuildInv
  <2>2. ASSUME NEW i \in DOMAIN files
        PROVE  /\ Build!EntryOf(i) \in sourceMap
               /\ Build!EntryOf(i)[1] = files[i].id /\ Build!EntryOf(i)[2] = Build!CompressScript(files[i])
    BY <2>1 DEF Build!EntryOf
  <2>3. ASSUME NEW i \in DOMAIN files, 0 \notin Build!Range(files[i].text)
        PROVE  Build!GetSource(files[i].id) = Build!CompressScript(files[i])
    <3>1. PICK e : e = CHOOSE entry \in sourceMap : entry[1] = files[i].id
      OBVIOUS
    <3>2. e \in sourceMap /\ e[1] = files[i].id
      BY <2>2, <3>1
    <3>3. PICK j \in DOMAIN files : e = Build!EntryOf(j)
      BY <2>1, <3>2
    <3>4. j = i
      BY <1>1, <1>2, <2>2, <3>2, <3>3 DEF Build!OneFilePerModule
    <3>5. PICK source : source = Build!CompressScript(files[i]) /\ e[2] = source
      BY <2>2, <3>3, <3>4
    <3>6. 0 \notin Build!Range(source)
      <4>1. files[i] \in Build!Files
        BY DEF BuildIInv
      <4> QED
        BY <2>3, <3>5, <4>1, FileType
    <3>7. {k \in DOMAIN source : source[k] = 0} = {}
      BY <3>6 DEF Build!Range
    <3> QED
      BY <3>1, <3>5, <3>7 DEF Build!GetSource
  <2>4. \A i \in DOMAIN files : Build!Registered(files[i].id)
    BY <2>2 DEF Build!Registered
  <2>5. \A entry \in sourceMap : \E i \in DOMAIN files : files[i].id = entry[1]
    BY <2>1, <2>2
  <2> QED
    BY <2>3, <2>4, <2>5
<1> QED
  BY <1>1, <1>2 DEF Build!EmbeddedWhole

-------------------------------------------------------------------------------
(***************************************************************************)
(* The components together.                                                *)
(***************************************************************************)
\* The one that runs takes its steps, and the variables of the others are left
\* alone.
LEMMA OneRuns ==
    ASSUME [Next]_vars
    PROVE  /\ component' = component
           /\ component = "throw" => Throw!Next \/ UNCHANGED throwVars
           /\ component = "environ" => Env!Next \/ UNCHANGED environVars
           /\ component = "builtins" => Builtins!Next \/ UNCHANGED builtinsVars
           /\ component = "inspect" => Util!Next \/ UNCHANGED inspectVars
           /\ component = "console" => Terminal!Next \/ UNCHANGED consoleVars
           /\ component = "build" => Build!Next \/ UNCHANGED buildVars
<1>1. CASE Next
  BY <1>1 DEF Next, NextInspect
<1>2. CASE UNCHANGED vars
  BY <1>2 DEF vars
<1> QED
  BY <1>1, <1>2

ThrowHolds == component = "throw" => ThrowInv

LEMMA ThrowAlways == Spec => []ThrowHolds
<1>1. Init => ThrowHolds
  BY ThrowInit DEF Init, ThrowHolds
<1>2. ASSUME ThrowHolds, [Next]_vars PROVE ThrowHolds'
  <2>1. ASSUME ThrowInv, UNCHANGED throwVars PROVE ThrowInv'
    <3>1. Throw!MadeOf(call)' = Throw!MadeOf(call)
      BY <2>1 DEF throwVars, Throw!MadeOf, Throw!CodeOf, Throw!TextOf, Throw!ErrnoOf
    <3> QED
      BY <2>1, <3>1 DEF throwVars, ThrowInv
  <2> QED
    BY <1>2, <2>1, OneRuns, ThrowStep DEF ThrowHolds
<1> QED
  BY <1>1, <1>2, PTL DEF Spec

EnvHolds == component = "environ" => EnvInv

LEMMA EnvAlways == Spec => []EnvHolds
<1>1. Init => EnvHolds
  BY EnvInit DEF Init, EnvHolds
<1>2. ASSUME EnvHolds, [Next]_vars PROVE EnvHolds'
  <2>1. ASSUME EnvInv, UNCHANGED environVars PROVE EnvInv'
    BY <2>1 DEF environVars, EnvInv, Env!TypeOK
  <2> QED
    BY <1>2, <2>1, OneRuns, EnvStep DEF EnvHolds
<1> QED
  BY <1>1, <1>2, PTL DEF Spec

BuiltinsHold == component = "builtins" => BuiltinsInv

LEMMA BuiltinsAlways == Spec => []BuiltinsHold
<1>1. Init => BuiltinsHold
  BY BuiltinsInit DEF Init, BuiltinsHold
<1>2. ASSUME BuiltinsHold, [Next]_vars PROVE BuiltinsHold'
  <2>1. ASSUME BuiltinsInv, UNCHANGED builtinsVars PROVE BuiltinsInv'
    BY <2>1 DEF builtinsVars, BuiltinsInv, Builtins!TypeOK, Builtins!ToJSONInv,
                Builtins!Disturbed, Builtins!OuterTakesAway, Builtins!SavedRight
  <2> QED
    BY <1>2, <2>1, OneRuns, BuiltinsStep DEF BuiltinsHold
<1> QED
  BY <1>1, <1>2, PTL DEF Spec

ConsoleHolds == component = "console" => ConsoleIInv

LEMMA ConsoleAlways == Spec => []ConsoleHolds
<1>1. Init => ConsoleHolds
  BY ConsoleInit DEF Init, ConsoleHolds
<1>2. ASSUME ConsoleHolds, [Next]_vars PROVE ConsoleHolds'
  <2>1. ASSUME ConsoleIInv, UNCHANGED consoleVars PROVE ConsoleIInv'
    <3>1. UNCHANGED Terminal!vars
      BY <2>1 DEF consoleVars, Terminal!vars, Terminal!settings, Terminal!terminal, Terminal!session
    <3> QED
      BY <2>1, <3>1, ConsoleStutters
  <2> QED
    BY <1>2, <2>1, OneRuns, ConsoleStep DEF ConsoleHolds
<1> QED
  BY <1>1, <1>2, PTL DEF Spec

BuildHolds == component = "build" => BuildIInv

LEMMA BuildAlways == Spec => []BuildHolds
<1>1. Init => BuildHolds
  BY BuildInit DEF Init, BuildHolds
<1>2. ASSUME BuildHolds, [Next]_vars PROVE BuildHolds'
  <2>1. ASSUME BuildIInv, UNCHANGED buildVars PROVE BuildIInv'
    BY <2>1 DEF buildVars, BuildIInv, Build!TypeOK, Build!BuildInv, Build!TableEntry, Build!Complete,
                Build!OneFilePerModule, Build!EntryOf, Build!DiesOfEmptyFiles
  <2> QED
    BY <1>2, <2>1, OneRuns, BuildStep DEF BuildHolds
<1> QED
  BY <1>1, <1>2, PTL DEF Spec

UtilHolds == component = "inspect" => Util!TypeOK /\ Util!PositionsInv /\ Util!SeenIsTheStack

LEMMA UtilAlways == Spec => []UtilHolds
<1>1. Init => UtilHolds
  BY UtilInit DEF Init, UtilHolds, Util!UtilInv
<1>2. ASSUME UtilHolds, [Next]_vars PROVE UtilHolds'
  <2>1. ASSUME component = "inspect", UNCHANGED inspectVars PROVE UtilHolds'
    <3>1. /\ component' = component
          /\ UNCHANGED <<heap, depth, customInspect, root, mode, arg, frames, seen, out, abandoned>>
      BY <1>2, <2>1, OneRuns DEF inspectVars
    <3> QED
      BY <1>2, <3>1 DEF UtilHolds, Util!TypeOK, Util!PositionsInv, Util!SeenIsTheStack, Util!Expansions
  <2> QED
    BY <1>2, <2>1, OneRuns, UtilTypes, UtilSeen DEF UtilHolds
<1> QED
  BY <1>1, <1>2, PTL DEF Spec

LEMMA PlainStutters ==
    ASSUME PlainInv, UNCHANGED inspectVars
    PROVE  PlainInv'
<1>1. /\ UNCHANGED <<heap, depth, customInspect, root, mode, arg, frames, seen, out>>
      /\ UNCHANGED Util!options
  BY DEF inspectVars, Util!options
<1>2. /\ \A p : (Util!Opens(p)' <=> Util!Opens(p)) /\ Util!Text(p)' = Util!Text(p)
      /\ \A p, q : Util!IsChild(p, q)' <=> Util!IsChild(p, q)
      /\ Util!NoMethods' <=> Util!NoMethods
  BY <1>1, OptionsKept
<1>3. /\ Util!Written' = Util!Written
      /\ \A p : Util!Reached(p)' <=> Util!Reached(p)
  BY <1>1 DEF Util!Written, Util!Reached
<1>4. \A c, n : Util!IsCall(c, n)' <=> Util!IsCall(c, n)
  BY <1>1 DEF Util!IsCall
<1>5. ASSUME Util!CallsInv PROVE Util!CallsInv'
  BY <1>1, <1>2, <1>4, <1>5 DEF Util!CallsInv
<1>6. ASSUME Util!TextInv PROVE Util!TextInv'
  BY <1>1, <1>2, <1>3, <1>6 DEF Util!TextInv
<1> QED
  BY <1>2, <1>5, <1>6 DEF PlainInv

\* Each component keeps to its types.
THEOREM ComponentsTypes == Spec => []TypeOK
<1>1. ThrowHolds /\ EnvHolds /\ BuiltinsHold /\ UtilHolds /\ ConsoleHolds /\ BuildHolds => TypeOK
  BY ThrowTypes, ConsoleShows
     DEF ThrowHolds, EnvHolds, BuiltinsHold, UtilHolds, ConsoleHolds, BuildHolds, TypeOK,
         EnvInv, BuiltinsInv, BuildIInv
<1> QED
  BY <1>1, ThrowAlways, EnvAlways, BuiltinsAlways, UtilAlways, ConsoleAlways, BuildAlways, PTL

\* os.throw: the errno and the kind of what a script throws come out as it
\* passed them, for every code, errno and table of names.
THEOREM ThrowsAsPassed == Spec => []ThrownAsPassed
<1>1. ThrowHolds => ThrownAsPassed
  BY ThrowShows DEF ThrowHolds, ThrownAsPassed
<1> QED
  BY <1>1, ThrowAlways, PTL

\* os.environ: a script reads what it stored up to the first U+0000, under every
\* name that is cut to the same variable, finds nothing where it deleted, and
\* enumeration and lookup agree: whatever the cut makes of names and values.
THEOREM EnvironAgrees == Spec => []EnvironConsistent
<1>1. EnvHolds => EnvironConsistent
  BY EnvShows DEF EnvHolds, EnvironConsistent
<1> QED
  BY <1>1, EnvAlways, PTL

\* $JSON.stringify: overrides are taken away while the builtin runs and are all
\* back afterwards, for every nesting of calls.
THEOREM ToJSONIsGuarded == Spec => []ToJSONGuarded
<1>1. BuiltinsHold => ToJSONGuarded
  BY BuiltinsShow DEF BuiltinsHold, ToJSONGuarded
<1> QED
  BY <1>1, BuiltinsAlways, PTL

\* inspect: ctx.seen is the stack of expansions, whatever the inspect methods of
\* the objects do, until an exception has cut an expansion short.
THEOREM SeenFollowsTheStack == Spec => []SeenIsTheStack
<1>1. UtilHolds => SeenIsTheStack
  BY DEF UtilHolds, SeenIsTheStack
<1> QED
  BY <1>1, UtilAlways, PTL

UtilPlainHolds == component = "inspect" => PlainInv

\* inspect: the text is complete, marks exactly the circular references, and is
\* reached without an exception, for every graph of fewer objects than the stack
\* takes frames, whatever the depth.
THEOREM InspectIsComplete ==
    ASSUME IsFiniteSet(Objects), Cardinality(Objects) < StackLimit
    PROVE  Spec => []InspectComplete
<1>1. Init => UtilPlainHolds
  BY UtilInit DEF Init, UtilPlainHolds, Util!UtilInv, PlainInv
<1>2. ASSUME UtilHolds, UtilPlainHolds, [Next]_vars PROVE UtilPlainHolds'
  <2>1. ASSUME component = "inspect", UNCHANGED inspectVars PROVE PlainInv'
    <3>1. PlainInv
      BY <1>2, <2>1 DEF UtilPlainHolds
    <3> QED
      BY <2>1, <3>1, PlainStutters
  <2> QED
    BY <1>2, <2>1, OneRuns, UtilPlain DEF UtilHolds, UtilPlainHolds
<1>3. UtilHolds /\ UtilPlainHolds => InspectComplete
  BY UtilShows DEF UtilHolds, UtilPlainHolds, InspectComplete
<1> QED
  BY <1>1, <1>2, <1>3, UtilAlways, PTL DEF Spec

\* console: lines stand in their color, prompts in none.
THEOREM ColorsAreContained == Spec => []ColorsContained
<1>1. ConsoleHolds => ColorsContained
  BY ConsoleShows DEF ConsoleHolds, ColorsContained
<1> QED
  BY <1>1, ConsoleAlways, PTL

\* console: messages come out in order, and none is lost at the exit or, on a
\* terminal, in a fatal error.
THEOREM MessagesAreShown == Spec => []MessagesShown
<1>1. ConsoleHolds => MessagesShown
  BY ConsoleShows DEF ConsoleHolds, MessagesShown
<1> QED
  BY <1>1, ConsoleAlways, PTL

\* The build: what a program that runs has embedded is each file, whole, as one
\* module.
THEOREM FilesAreEmbedded == Spec => []EmbeddedWhole
<1>1. BuildHolds => EmbeddedWhole
  BY BuildShows DEF BuildHolds, EmbeddedWhole
<1> QED
  BY <1>1, BuildAlways, PTL
===============================================================================
