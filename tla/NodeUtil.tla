------------------------------- MODULE NodeUtil -------------------------------
(***************************************************************************)
(* inspect of src/zarun/modules/js/node_util.js: the text of an object     *)
(* graph, down to a depth, with [Circular] for what is being formatted     *)
(* already.                                                                *)
(*                                                                         *)
(* Objects may have an inspect method of their own, which runs in the      *)
(* middle: it answers with a string or with another value to format, calls *)
(* inspect again (handing on the context, whose array seen is then shared),*)
(* or throws.  The array seen is not restored when an exception passes by. *)
(*                                                                         *)
(* The text is abstracted to what was written for the value at each path.  *)
(***************************************************************************)
EXTENDS Integers, FiniteSets, SequencesExt

CONSTANTS
    Objects,
    Inspections,  \* the calls of inspect: an object graph, the options, a value
    Null,         \* depth null: no limit
    StackLimit    \* bound: JavaScript frames until V8 throws a RangeError

Kinds == {"plain", "array", "regexp", "other"}

\* What an inspect method does: there is none, it returns a string, it returns
\* the value `of', it returns inspect(of, ctx), it does so in a try block, or it
\* throws.
Hooks == {"none", "string", "value", "inspect", "catch", "throw"}

\* props is what a loop over the object finds: for an array the elements and
\* then the other keys, for a boxed string only the other keys.
HeapObject == [kind : Kinds, hook : Hooks, of : Objects,
               props : Seq(Objects \cup {"primitive", "accessor"}),
               holes : BOOLEAN,       \* an array with length but no elements
               isPrototype : BOOLEAN] \* value.constructor.prototype === value

\* An options object may give any depth, null included.
NodeUtilAssumption ==
    /\ Inspections \subseteq [heap : [Objects -> HeapObject], depth : Nat \cup {Null},
                              customInspect : BOOLEAN, root : Objects]
    /\ StackLimit \in Nat \ {0} /\ Null \notin Int
    /\ "primitive" \notin Objects /\ "accessor" \notin Objects

VARIABLES
    heap, depth, customInspect, \* the arguments of the outermost inspect
    root,
    mode,      \* "call": formatValue begins; "return", "throw": back in the top frame
    arg,       \* the arguments of the formatValue call
    frames,    \* the calls that wait: expansions of objects, and inspect methods
    seen,      \* ctx.seen
    out,       \* what was written: pairs <<path, text>>
    abandoned  \* history: objects whose expansion ended by a caught exception

vars == <<heap, depth, customInspect, root, mode, arg, frames, seen, out, abandoned>>
options == <<heap, depth, customInspect, root>>

Values == Objects \cup {"primitive", "accessor"}
Arguments == [v : Values, recurse : Int \cup {Null}, path : Seq(Values)]
Labels == Kinds \cup {"primitive", "custom", "expanded", "[Object]", "[Circular]", "[Getter]"}
Frame == [op : {"expand", "value", "inspect", "catch"}, v : Objects, arg : Arguments, pos : Nat]

TypeOK ==
    /\ heap \in [Objects -> HeapObject] /\ depth \in Nat \cup {Null}
    /\ customInspect \in BOOLEAN /\ root \in Objects
    /\ mode \in {"call", "return", "throw"}
    /\ arg \in Arguments /\ arg.v # "accessor"
    /\ frames \in Seq(Frame) /\ Len(frames) <= StackLimit
    /\ seen \in Seq(Objects) /\ out \in Seq(Seq(Values) \X Labels)
    /\ abandoned \subseteq Objects

Call(v, recurse, path) == [v |-> v, recurse |-> recurse, path |-> Append(path, v)]

\* inspect.
Init ==
    /\ \E i \in Inspections :
          heap = i.heap /\ depth = i.depth /\ customInspect = i.customInspect /\ root = i.root
    /\ mode = "call" /\ arg = Call(root, depth, <<>>)
    /\ frames = <<>> /\ seen = <<>> /\ out = <<>> /\ abandoned = {}

Top == Last(frames)
Pop == Front(frames)

Writes(path, text) == out' = Append(out, <<path, text>>)

Goes(m) == mode' = m /\ UNCHANGED arg

Calls(c) == mode' = "call" /\ arg' = c

(***************************************************************************)
(* formatValue.                                                            *)
(***************************************************************************)
Hooked(v) ==
    v \in Objects /\ customInspect /\ heap[v].hook # "none" /\ ~heap[v].isPrototype

Called == mode = "call" /\ Len(frames) < StackLimit

\* The method is called with recurseTimes and ctx.  What is not a string is
\* formatted in its place, with the same recurseTimes.  inspect(of, ctx) copies
\* ctx, and with it the full depth and the same array seen.
CallInspect ==
    /\ Called /\ Hooked(arg.v)
    /\ LET h == heap[arg.v] IN
       \/ h.hook = "string" /\ Goes("return") /\ Writes(arg.path, "custom") /\ UNCHANGED frames
       \/ h.hook = "throw" /\ Goes("throw") /\ UNCHANGED <<frames, out>>
       \/ /\ h.hook \in {"value", "inspect", "catch"}
          /\ frames' = Append(frames, [op |-> h.hook, v |-> arg.v, arg |-> arg, pos |-> Len(out)])
          /\ Calls(Call(h.of, IF h.hook = "value" THEN arg.recurse ELSE depth, arg.path))
          /\ UNCHANGED out
    /\ UNCHANGED <<options, seen, abandoned>>

HasKeys(v) == v \in Objects /\ (heap[v].props # <<>> \/ heap[v].holes)

TooDeep(recurse) == recurse # Null /\ recurse < 0

\* Without keys the kind alone decides, whatever the depth.
TextOf(v, recurse) ==
    IF v = "primitive" THEN "primitive"
    ELSE IF ~HasKeys(v) THEN heap[v].kind
    ELSE IF heap[v].kind = "regexp" THEN "regexp" ELSE "[Object]"

FormatLeaf ==
    /\ Called /\ ~Hooked(arg.v)
    /\ ~(HasKeys(arg.v) /\ ~TooDeep(arg.recurse))
    /\ Writes(arg.path, TextOf(arg.v, arg.recurse)) /\ Goes("return")
    /\ UNCHANGED <<options, frames, seen, abandoned>>

Expand ==
    /\ Called /\ ~Hooked(arg.v)
    /\ HasKeys(arg.v) /\ ~TooDeep(arg.recurse)
    /\ seen' = Append(seen, arg.v)
    /\ frames' = Append(frames, [op |-> "expand", v |-> arg.v, arg |-> arg, pos |-> 1])
    /\ Writes(arg.path, "expanded") /\ Goes("return")
    /\ UNCHANGED <<options, abandoned>>

\* Mutant: the last frame that fits is taken twice.
OverflowLate ==
    /\ mode = "call" /\ Len(frames) >= StackLimit
    /\ Goes("return")
    /\ frames' = Append(frames, [op |-> "value", v |-> root, arg |-> arg, pos |-> 1])
    /\ UNCHANGED <<options, seen, out, abandoned>>

StackOverflow ==
    /\ mode = "call" /\ Len(frames) >= StackLimit
    /\ Goes("throw")
    /\ UNCHANGED <<options, frames, seen, out, abandoned>>

(***************************************************************************)
(* formatArray, formatProperty.                                            *)
(***************************************************************************)
Expanding == mode = "return" /\ frames # <<>> /\ Top.op = "expand"

Child == heap[Top.v].props[Top.pos]

Advanced == [frames EXCEPT ![Len(frames)].pos = @ + 1]

\* Mutant: an object is looked for among its own properties only.
PropertyUnseen ==
    /\ Expanding /\ Top.pos <= Len(heap[Top.v].props)
    /\ frames' = Advanced
    /\ \/ /\ Child \in {"accessor", Top.v}
          /\ Writes(Append(Top.arg.path, Child), IF Child = "accessor" THEN "[Getter]" ELSE "[Circular]")
          /\ Goes("return")
       \/ /\ Child \notin {"accessor", Top.v}
          /\ Calls(Call(Child, IF Top.arg.recurse = Null THEN Null ELSE Top.arg.recurse - 1, Top.arg.path))
          /\ UNCHANGED out
    /\ UNCHANGED <<options, seen, abandoned>>

\* An accessor is named and not called.
FormatProperty ==
    /\ Expanding /\ Top.pos <= Len(heap[Top.v].props)
    /\ frames' = Advanced
    /\ \/ /\ Child = "accessor" \/ Child \in Range(seen)
          /\ Writes(Append(Top.arg.path, Child), IF Child = "accessor" THEN "[Getter]" ELSE "[Circular]")
          /\ Goes("return")
       \/ /\ Child # "accessor" /\ Child \notin Range(seen)
          /\ Calls(Call(Child, IF Top.arg.recurse = Null THEN Null ELSE Top.arg.recurse - 1, Top.arg.path))
          /\ UNCHANGED out
    /\ UNCHANGED <<options, seen, abandoned>>

\* Mutant: the object stays in seen.
ExpandedKeeps ==
    /\ Expanding /\ Top.pos > Len(heap[Top.v].props)
    /\ frames' = Pop
    /\ UNCHANGED <<options, seen, mode, arg, out, abandoned>>

Expanded ==
    /\ Expanding /\ Top.pos > Len(heap[Top.v].props)
    /\ frames' = Pop /\ seen' = Front(seen)
    /\ UNCHANGED <<options, mode, arg, out, abandoned>>

\* Mutant: the method that returned is asked again.
HookAgain ==
    /\ mode = "return" /\ frames # <<>> /\ Top.op # "expand"
    /\ frames' = Pop /\ Calls(Top.arg) /\ out' = SubSeq(out, 1, Top.pos)
    /\ UNCHANGED <<options, seen, abandoned>>

HookReturns ==
    /\ mode = "return" /\ frames # <<>> /\ Top.op # "expand"
    /\ frames' = Pop
    /\ UNCHANGED <<options, mode, arg, seen, out, abandoned>>

\* seen keeps what the exception left behind; the text of the failed call is lost.
Unwind ==
    /\ mode = "throw" /\ frames # <<>>
    /\ frames' = Pop
    /\ IF Top.op = "catch"
       THEN /\ Goes("return")
            /\ out' = Append(SubSeq(out, 1, Top.pos), <<Top.arg.path, "custom">>)
       ELSE Goes("throw") /\ UNCHANGED out
    /\ abandoned' = IF Top.op = "expand" THEN abandoned \cup {Top.v} ELSE abandoned
    /\ UNCHANGED <<options, seen>>

Next == CallInspect \/ FormatLeaf \/ Expand \/ StackOverflow \/ FormatProperty
        \/ Expanded \/ HookReturns \/ Unwind

Spec == Init /\ [][Next]_vars /\ WF_vars(Next)

-------------------------------------------------------------------------------
(***************************************************************************)
(* What inspect writes, by path and without regard to a stack.             *)
(***************************************************************************)
\* An object is expanded if it has keys, is not too deep, and is not among those
\* above it.
Opens(p) ==
    LET v == Last(p) IN
    /\ HasKeys(v) /\ v \notin Range(Front(p))
    /\ depth # Null => Len(p) - 1 <= depth

Text(p) ==
    LET v == Last(p) IN
    CASE v = "primitive"         -> "primitive"
      [] v = "accessor"          -> "[Getter]"
      [] v \in Range(Front(p))   -> "[Circular]"
      [] Opens(p)                -> "expanded"
      [] OTHER -> IF ~HasKeys(v) \/ heap[v].kind = "regexp" THEN heap[v].kind ELSE "[Object]"

NoMethods == \A o \in Objects : ~Hooked(o)

Ended == mode # "call" /\ frames = <<>>

Written == {out[i][1] : i \in DOMAIN out}

IsChild(p, q) == Opens(p) /\ \E c \in Range(heap[Last(p)].props) : q = Append(p, c)

\* Without inspect methods the text shows the root and below each object that
\* opens all its properties, nothing else, and each as what it is: the ways back
\* to an object above as circular, a getter uncalled.
TextComplete ==
    Ended /\ NoMethods =>
        /\ \A i \in DOMAIN out : out[i][2] = Text(out[i][1])
        /\ <<root>> \in Written
        /\ \A p \in Written : Opens(p) =>
              \A c \in Range(heap[Last(p)].props) : Append(p, c) \in Written
        /\ \A q \in Written : q = <<root>> \/ \E p \in Written : IsChild(p, q)

\* formatValue itself never fails and never runs out of stack, even without a
\* depth limit: only the objects' own methods can make inspect throw.
OnlyMethodsThrow == mode = "throw" => ~NoMethods

\* ctx.seen holds the objects that are being expanded, outermost first, also
\* across inspect methods that share it, until an expansion was cut short by an
\* exception.
Expansions(i) == {j \in 1 .. i : frames[j].op = "expand"}

SeenIsTheStack ==
    abandoned = {} =>
        /\ Len(seen) = Cardinality(Expansions(Len(frames)))
        /\ \A i \in Expansions(Len(frames)) : seen[Cardinality(Expansions(i))] = frames[i].v

\* inspect ends, also with methods that answer with each other for ever: then
\* with the exception of V8's stack limit.
InspectEnds == <>Ended

-------------------------------------------------------------------------------
(***************************************************************************)
(* Why that is so.                                                         *)
(***************************************************************************)
\* The frames point into what they are about.
PositionsInv ==
    /\ \A i \in DOMAIN frames :
          IF frames[i].op = "expand" THEN frames[i].pos \in 1 .. Len(heap[frames[i].v].props) + 1
          ELSE frames[i].pos <= Len(out)
    /\ \A i, j \in DOMAIN frames :
          i < j /\ frames[i].op # "expand" /\ frames[j].op # "expand" => frames[i].pos <= frames[j].pos

\* The call number n on the stack is for what the first n - 1 are expanding.
IsCall(call, n) ==
    /\ Len(call.path) = n /\ call.path[n] = call.v /\ call.path[1] = root
    /\ \A i \in 1 .. n - 1 : call.path[i] = seen[i]
    /\ call.recurse = IF depth = Null THEN Null ELSE depth - (n - 1)

CallsInv ==
    /\ mode # "throw" /\ Len(seen) = Len(frames)
    /\ \A i \in DOMAIN frames :
          /\ frames[i].op = "expand" /\ frames[i].arg.v = frames[i].v /\ IsCall(frames[i].arg, i)
          /\ seen[i] = frames[i].v /\ Opens(frames[i].arg.path)
    /\ \A i, j \in DOMAIN seen : seen[i] = seen[j] => i = j
    /\ mode = "call" => IsCall(arg, Len(frames) + 1) /\ arg.v \notin Range(seen)

\* Written, or about to be.
Reached(p) == p \in Written \/ (mode = "call" /\ p = arg.path)

TextInv ==
    /\ \A i \in DOMAIN out : out[i][2] = Text(out[i][1])
    /\ Reached(<<root>>)
    /\ \A i \in DOMAIN frames :
          /\ frames[i].arg.path \in Written
          /\ \A k \in 1 .. frames[i].pos - 1 :
                Reached(Append(frames[i].arg.path, heap[frames[i].v].props[k]))
    /\ \A p \in Written : Opens(p) /\ (\A i \in DOMAIN frames : frames[i].arg.path # p) =>
          \A c \in Range(heap[Last(p)].props) : Append(p, c) \in Written
    /\ \A q \in Written \cup (IF mode = "call" THEN {arg.path} ELSE {}) :
          q = <<root>> \/ \E p \in Written : IsChild(p, q)

UtilInv == PositionsInv /\ SeenIsTheStack /\ (NoMethods => CallsInv /\ TextInv)
===============================================================================
