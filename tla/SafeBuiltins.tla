----------------------------- MODULE SafeBuiltins -----------------------------
(***************************************************************************)
(* $JSON.stringify, which modules get in place of the one scripts may      *)
(* change (src/zarun/safe_builtins.cc): it takes the toJSON of every       *)
(* builtin prototype away while the real stringify runs and puts it back   *)
(* afterwards.                                                             *)
(*                                                                         *)
(* The prototypes are shared with the scripts, whose code runs inside      *)
(* stringify too: it may throw, assign toJSON, or call $JSON.stringify     *)
(* once more.  builtinToJSONs holds the toJSON of the constructors, which  *)
(* have none: it is Undefined for every type, also for Date.               *)
(***************************************************************************)
EXTENDS Integers, SequencesExt

CONSTANTS
    Types,      \* builtinTypes, in order; the others inherit from the first
    Functions,  \* the functions scripts may install as toJSON
    Natives,    \* type -> the toJSON JavaScript gives it, for those it does
    Undefined,
    MaxNested,  \* bound: stringify calls inside each other
    MaxWrites   \* bound: toJSON properties scripts install

TypesAssumption ==
    /\ Types \in Seq(STRING) /\ Len(Types) > 0 /\ IsInjective(Types)
    /\ Undefined \notin Functions /\ \A t \in DOMAIN Natives : Natives[t] \in Functions
    /\ MaxNested \in Nat /\ MaxWrites \in Nat

\* The toJSON property of a prototype: none of its own, a plain one, one that
\* assignment does not change (read only, or an accessor), or one whose getter
\* throws.
Properties == [kind : {"none", "throws"}, value : {Undefined}]
         \cup [kind : {"data", "fixed"}, value : Functions \cup {Undefined}]

None == [kind |-> "none", value |-> Undefined]

VARIABLES
    proto,      \* type -> the toJSON property of its prototype
    stack,      \* the $JSON.stringify calls that run, the inner one last
    left,       \* history: proto as scripts left it outside of stringify
    disturbed,  \* history: the types scripts wrote inside of stringify
    writes      \* properties installed so far

vars == <<proto, stack, left, disturbed, writes>>

TypeSet == {Types[i] : i \in DOMAIN Types}
Object == Types[1]

\* A call clears Types[i], runs the real stringify, or restores Types[i].
SavedValues == UNION {[D -> Functions \cup {Undefined}] : D \in SUBSET DOMAIN Types}

Frames == [phase : {"clear", "run", "restore"}, i : 1 .. Len(Types) + 1, saved : SavedValues]

(***************************************************************************)
(* JavaScript's property lookup and assignment.                            *)
(***************************************************************************)
\* The property a read or a write of t.prototype.toJSON finds.
Found(t) == IF proto[t].kind = "none" THEN proto[Object] ELSE proto[t]

Readable(t) == Found(t).kind # "throws"

Assigned(t, v) ==
    IF Found(t).kind \in {"fixed", "throws"} THEN proto
    ELSE [proto EXCEPT ![t] = [kind |-> "data", value |-> v]]

TypeOK ==
    /\ proto \in [TypeSet -> Properties] /\ left \in [TypeSet -> Properties]
    /\ stack \in Seq(Frames)
    /\ disturbed \subseteq TypeSet
    /\ writes \in 0 .. MaxWrites

Init ==
    /\ proto = [t \in TypeSet |-> IF t \in DOMAIN Natives
                                   THEN [kind |-> "data", value |-> Natives[t]] ELSE None]
    /\ left = proto
    /\ stack = <<>> /\ disturbed = {} /\ writes = 0

(***************************************************************************)
(* Scripts run before and after stringify, and inside of it.               *)
(***************************************************************************)
Top == Last(stack)

In(phase) == stack # <<>> /\ Top.phase = phase

ScriptRuns == stack = <<>> \/ In("run")

InstallToJSON(t, p) ==
    /\ ScriptRuns /\ writes < MaxWrites
    /\ proto' = [proto EXCEPT ![t] = p]
    /\ writes' = writes + 1
    /\ IF stack = <<>> THEN left' = [left EXCEPT ![t] = p] /\ UNCHANGED disturbed
       ELSE disturbed' = disturbed \cup {t} /\ UNCHANGED left
    /\ UNCHANGED stack

Stringify ==
    /\ ScriptRuns /\ Len(stack) < MaxNested
    /\ stack' = Append(stack, [phase |-> "clear", i |-> 1, saved |-> <<>>])
    /\ UNCHANGED <<proto, left, disturbed, writes>>

(***************************************************************************)
(* The loop that saves and clears.  What throws skips the type.            *)
(***************************************************************************)
With(phase, i, saved) ==
    [stack EXCEPT ![Len(stack)] = [phase |-> phase, i |-> i, saved |-> saved]]

NextType == With(Top.phase, Top.i + 1, Top.saved)

Save(saved, i, v) == [k \in DOMAIN saved \cup {i} |-> IF k = i THEN v ELSE saved[k]]

Saved(i, v) == With("clear", i + 1, Save(Top.saved, i, v))

\* Mutant: the property is cleared and then saved.
ClearFirst ==
    /\ In("clear") /\ Top.i <= Len(Types)
    /\ LET t == Types[Top.i] IN
       \/ /\ Readable(t) /\ Found(t).value # Undefined
          /\ stack' = Saved(Top.i, Undefined)
          /\ proto' = Assigned(t, Undefined)
       \/ /\ ~Readable(t) \/ Found(t).value = Undefined
          /\ stack' = NextType
          /\ UNCHANGED proto
    /\ UNCHANGED <<left, disturbed, writes>>

ClearOne ==
    /\ In("clear") /\ Top.i <= Len(Types)
    /\ LET t == Types[Top.i] IN
       \/ /\ Readable(t) /\ Found(t).value # Undefined
          /\ stack' = Saved(Top.i, Found(t).value)
          /\ proto' = Assigned(t, Undefined)
       \/ /\ ~Readable(t) \/ Found(t).value = Undefined
          /\ stack' = NextType
          /\ UNCHANGED proto
    /\ UNCHANGED <<left, disturbed, writes>>

CallBuiltin ==
    /\ In("clear") /\ Top.i > Len(Types)
    /\ stack' = With("run", Top.i, Top.saved)
    /\ UNCHANGED <<proto, left, disturbed, writes>>

\* The real stringify returns or throws: finally runs either way.
BuiltinEnds ==
    /\ In("run")
    /\ stack' = With("restore", 1, Top.saved)
    /\ UNCHANGED <<proto, left, disturbed, writes>>

RestoreOne ==
    /\ In("restore") /\ Top.i <= Len(Types)
    /\ proto' = IF Top.i \in DOMAIN Top.saved
                THEN Assigned(Types[Top.i], Top.saved[Top.i]) ELSE proto
    /\ stack' = NextType
    /\ UNCHANGED <<left, disturbed, writes>>

\* What scripts wrote meanwhile counts as theirs once the outer call is over; a
\* write to Object's prototype counts for every type, because the others inherit
\* it.
Disturbed(t) == {t, Object} \cap disturbed # {}

Return ==
    /\ In("restore") /\ Top.i > Len(Types)
    /\ stack' = Front(stack)
    /\ IF Len(stack) = 1
       THEN /\ left' = [t \in TypeSet |-> IF Disturbed(t) THEN proto[t] ELSE left[t]]
            /\ disturbed' = {}
       ELSE UNCHANGED <<left, disturbed>>
    /\ UNCHANGED <<proto, writes>>

Next ==
    \/ \E t \in TypeSet, p \in Properties : InstallToJSON(t, p)
    \/ Stringify \/ ClearOne \/ CallBuiltin \/ BuiltinEnds \/ RestoreOne \/ Return

Spec == Init /\ [][Next]_vars

-------------------------------------------------------------------------------
\* After $JSON.stringify every prototype is as scripts left it, however the
\* calls nested and whatever could not be read or written, except for what
\* scripts wrote while it ran.
ToJSONRestored == stack = <<>> => proto = left

\* While the real stringify runs, no override that can be assigned to applies.
OverridesCleared ==
    In("run") /\ disturbed = {} =>
        \A t \in TypeSet : Found(t).kind \in {"none", "data"} => Found(t).value = Undefined

-------------------------------------------------------------------------------
(***************************************************************************)
(* Why that is so.  Of a type that scripts leave alone, the outer call     *)
(* takes a plain toJSON away and has saved it; the calls inside of it find *)
(* nothing they could save or change.                                      *)
(***************************************************************************)
Cleared(p) == IF p.kind = "data" THEN [kind |-> "data", value |-> Undefined] ELSE p

\* The frame has come past Types[i] in its first loop.
Past(frame, i) == frame.phase # "clear" \/ frame.i > i

TakenAway(frame, i) == Past(frame, i) /\ (frame.phase = "restore" => frame.i <= i)

\* A value that has no place is saved only where putting it back has no effect.
SavedRight(k, i) ==
    LET p == left[Types[i]]
        saved == stack[k].saved IN
    /\ p.kind = "data" /\ p.value # Undefined /\ k = 1 /\ Past(stack[1], i) => i \in DOMAIN saved
    /\ p.kind = "data" /\ i \in DOMAIN saved => k = 1 /\ saved[i] = p.value
    /\ p.kind = "none" /\ i \in DOMAIN saved => left[Object].kind = "fixed"

OuterTakesAway(i) ==
    proto[Types[i]] = IF TakenAway(stack[1], i) THEN Cleared(left[Types[i]]) ELSE left[Types[i]]

ToJSONInv ==
    /\ stack = <<>> => proto = left /\ disturbed = {}
    /\ \A k \in DOMAIN stack : k < Len(stack) => stack[k].phase = "run"
    /\ \A i \in DOMAIN Types : stack # <<>> /\ ~Disturbed(Types[i]) =>
          OuterTakesAway(i) /\ \A k \in DOMAIN stack : SavedRight(k, i)
===============================================================================
