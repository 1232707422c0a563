------------------------------ MODULE ErrorCodes ------------------------------
(***************************************************************************)
(* os.throw and the exceptions it makes: OSNative's ThrowCallback,         *)
(* V8ThrowException::CreateException and ZarunExceptionWrapper::Create.    *)
(* One int carries the kind of the error and, for two kinds, a number that *)
(* is or-ed into it and taken out again with a mask and a subtraction.     *)
(*                                                                         *)
(* A message is the caller's text, or the default text of its kind, and    *)
(* the errno that is spelled out in it, if any.  Nothing in the repository *)
(* terminates execution, so V8::IsExecutionTerminating() is false.         *)
(***************************************************************************)
EXTENDS Integers, Sequences

CONSTANTS
    Codes,      \* the ints a script passes as code
    Errnos,     \* the ints it passes as errno
    Texts,      \* the messages it passes; "" is the empty one
    ErrnoNames  \* the errnos errno_string has a name for

IntAssumption == Codes \subseteq Int /\ Errnos \subseteq Int /\ ErrnoNames \subseteq Int

VARIABLES
    called,     \* os.throw was called and what it threw is not yet caught
    call,       \* its arguments
    thrown      \* the exception it threw, if any

vars == <<called, call, thrown>>

(***************************************************************************)
(* Ints as bit sets; b is a power of two.                                  *)
(***************************************************************************)
HasBit(x, b) == (x \div b) % 2 = 1

Or(x, b) == IF HasBit(x, b) THEN x ELSE x + b

UnsignedShort(x) == x % 65536
Shorts == 0 .. 65535

V8GeneralError == 4096
ZarunErrnoError == 8192
ZarunError == 16384

V8Names == <<"Error", "TypeError", "RangeError", "SyntaxError", "ReferenceError">>

IsV8Error(code) == code \in V8GeneralError .. V8GeneralError + 4

CoreExceptions == <<[name |-> "IndexSizeError", code |-> 1], [name |-> "GenericError", code |-> 3]>>

IndexSizeError == 1

(***************************************************************************)
(* getErrorEntry: a negative index becomes a huge size_t.                  *)
(***************************************************************************)
GetErrorEntry(ec) ==
    LET tableIndex == ec - IndexSizeError IN
    IF 0 <= tableIndex /\ tableIndex < Len(CoreExceptions)
    THEN CoreExceptions[tableIndex + 1] ELSE CoreExceptions[1]

ErrnoString(e) == IF e \in ErrnoNames THEN {e} ELSE {}

\* The five Create functions, and the default text of each.
V8Error(code, text) ==
    LET name == V8Names[code - V8GeneralError + 1] IN
    [type |-> name, code |-> 0, text |-> IF text = "" THEN name ELSE text,
     errno |-> {}, named |-> {}]

\* ZarunExceptionWrapper::Create; m has the message.
Wrap(code, m) ==
    IF HasBit(code, ZarunErrnoError)
    THEN [m EXCEPT !.type = "ErrnoError", !.code = UnsignedShort(code - ZarunErrnoError)]
    ELSE [m EXCEPT !.type = GetErrorEntry(code).name, !.code = GetErrorEntry(code).code]

Message(text, errno, named) ==
    [type |-> "", code |-> 0, text |-> text, errno |-> errno, named |-> named]

\* Mutant: the errno is added, one too high, instead of or-ed.
CreateAdding(code, text, e) ==
    IF IsV8Error(code) THEN {V8Error(code, text)}
    ELSE IF code = ZarunErrnoError
    THEN {Wrap(code + e + 1, Message(text, {e}, ErrnoString(e)))}
    ELSE IF code = ZarunError THEN {Wrap(code + e, Message(text, {}, {}))}
    ELSE {}

\* The exceptions CreateException makes: one, or none.
CreateException(code, text, e) ==
    IF IsV8Error(code) THEN {V8Error(code, text)}
    ELSE IF code = ZarunErrnoError
    THEN {Wrap(Or(e, code), Message(text, {e}, ErrnoString(e)))}
    ELSE IF code = ZarunError THEN {Wrap(Or(e, code), Message(text, {}, {}))}
    ELSE {}

(***************************************************************************)
(* os.throw.  "bad" is the first argument that does not convert, or 0.     *)
(***************************************************************************)
Calls == [length : 0 .. 6, bad : 0 .. 5, code : Codes, text : Texts, errno : Errnos]

ArgumentsError == Message("TypeError", {}, {})

NoCall == [length |-> 0, bad |-> 0, code |-> V8GeneralError, text |-> "", errno |-> 0]

Init == called = FALSE /\ call = NoCall /\ thrown = {}

\* What stands for an argument that is left out.
CodeOf(c) == IF c.length = 0 THEN V8GeneralError ELSE c.code
TextOf(c) == IF c.length < 2 THEN "" ELSE c.text
ErrnoOf(c) == IF c.length < 3 THEN 0 ELSE c.errno

MadeOf(c) ==
    IF c.length > 5 \/ c.bad \in 1 .. c.length THEN {ArgumentsError}
    ELSE CreateException(CodeOf(c), TextOf(c), ErrnoOf(c))

ThrowCallback ==
    /\ ~called /\ called' = TRUE
    /\ \E c \in Calls : call' = c /\ thrown' = MadeOf(c)

\* The script catches the exception, if there is one, and goes on.
Catch ==
    /\ called /\ called' = FALSE
    /\ call' = NoCall /\ thrown' = {}

Next == ThrowCallback \/ Catch

Spec == Init /\ [][Next]_vars

-------------------------------------------------------------------------------
Names == {"", "ErrnoError"} \cup {V8Names[i] : i \in 1 .. 5}
            \cup {CoreExceptions[i].name : i \in 1 .. 2}

IsException(x) ==
    /\ x.type \in Names /\ x.code \in Shorts
    /\ x.errno \subseteq Int /\ x.named \subseteq ErrnoNames

TypeOK ==
    /\ called \in BOOLEAN /\ call \in Calls \cup {NoCall}
    /\ \A x \in thrown : IsException(x)

\* A call whose arguments convert and whose code the script passes.
Passed(code, n) == called /\ call.code = code /\ call.length \in n .. 5 /\ call.bad \notin 1 .. call.length

\* An errno that fits below the bit of its kind comes out as the code of an
\* ErrnoError, whose message spells the same errno out.
ErrnoPreserved ==
    Passed(ZarunErrnoError, 3) /\ call.errno \in 0 .. ZarunErrnoError - 1 =>
        /\ thrown # {}
        /\ \A x \in thrown : x.type = "ErrnoError" /\ x.code = call.errno /\ x.errno = {x.code}

\* Any errno, also one that is negative or too large, leaves an ErrnoError an
\* ErrnoError, and no errno that fits makes one of a ZarunError.
KindsApart ==
    /\ Passed(ZarunErrnoError, 1) => thrown # {} /\ \A x \in thrown : x.type = "ErrnoError"
    /\ Passed(ZarunError, 1) /\ call.errno \in 0 .. ZarunErrnoError - 1 =>
          \A x \in thrown : x.type # "ErrnoError"
===============================================================================
