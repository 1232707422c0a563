------------------------------ MODULE ExportsOnce ------------------------------
(***************************************************************************)
(* What require promises to the code that shares a module: the name stands *)
(* for one exports object, made once, and everybody is handed that one.    *)
(***************************************************************************)
EXTENDS Integers

CONSTANT Names

VARIABLES
    exported,      \* name -> its exports object, 0 before there is one
    handed         \* the <<name, exports>> pairs handed to requiring code

Init ==
    /\ exported = [n \in Names |-> 0]
    /\ handed = {}

\* The one execution of n that completes makes the exports.
Publish(n) ==
    /\ exported[n] = 0
    /\ exported'[n] \in Nat \ {0}
    /\ exported' = [exported EXCEPT ![n] = exported'[n]]
    /\ handed' = handed \cup {<<n, exported'[n]>>}

HandOut(n) ==
    /\ exported[n] # 0
    /\ handed' = handed \cup {<<n, exported[n]>>}
    /\ UNCHANGED exported

Next == \E n \in Names : Publish(n) \/ HandOut(n)

Spec == Init /\ [][Next]_<<exported, handed>>
===============================================================================
