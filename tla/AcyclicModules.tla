----------------------------- MODULE AcyclicModules -----------------------------
(***************************************************************************)
(* CommonModuleSystem when no module requires itself, directly or through  *)
(* others: the modules can be ranked so that a body requires lower ranks   *)
(* only.  Then the cache does what the class comment says of it.           *)
(***************************************************************************)
EXTENDS CommonModuleSystem

CONSTANT Rank

ASSUME RankAssumption ==
    /\ Rank \in [Names -> Nat]
    /\ \A m \in Names : \A n \in Requires[m] : Rank[n] < Rank[m]

\* All the code that ever got the exports of a module got the same object:
\* two requires of one name, in any two frames, compare equal.
SharedExports ==
    \A g, h \in held : g[1] = h[1] => g[2] = h[2]

\* A cached exports object is never replaced, not even by the retry of a
\* module that failed or by a nested require of the same name.
CacheStable ==
    [][\A n \in Names : modules[n] # Undefined => modules'[n] = modules[n]]_vars

\* require implements the promise of ExportsOnce.
Handed == {h \in held : h[2] # Inherited}

Promise == INSTANCE ExportsOnce WITH exported <- modules, handed <- Handed

KeepsPromise == Promise!Spec

(***************************************************************************)
(* The inductive invariant.                                                *)
(***************************************************************************)
\* Of two modules on the stack the one above has the lower rank and was
\* required by the one right below it or by one of its descendants.
StackRanked ==
    \A i, j \in DOMAIN stack :
        (i < j /\ stack[i].code # NoName) =>
            /\ stack[j].code # NoName
            /\ Rank[stack[j].code] < Rank[stack[i].code]

\* A frame only has yet to require what its module requires.
NeedsOfModule ==
    \A i \in DOMAIN stack :
        stack[i].code # NoName => stack[i].needs \subseteq Requires[stack[i].code]

\* A module being loaded is not in the cache, and its execution is its last.
LoadingNotCached ==
    \A i \in DOMAIN stack :
        stack[i].code # NoName =>
            /\ modules[stack[i].code] = Undefined
            /\ stack[i].code \notin InheritedNames
            /\ stack[i].run = runs[stack[i].code]
            /\ stack[i].run > 0

\* What code holds is what the cache has, or a builtin nobody can replace.
HeldIsCached ==
    \A h \in held :
        \/ h[2] = Inherited /\ h[1] \in InheritedNames
        \/ h[2] = modules[h[1]] /\ h[2] > 0 /\ h[1] \notin InheritedNames

InheritedNotCached == \A n \in InheritedNames : modules[n] = Undefined

AcyclicInv ==
    /\ StackRanked /\ NeedsOfModule /\ LoadingNotCached
    /\ HeldIsCached /\ InheritedNotCached

\* In batch mode a body that was started is in progress, cached, or was the
\* end of the process.
StartedOnce ==
    \A n \in Names :
        /\ runs[n] <= 1
        /\ runs[n] = 1 =>
              \/ modules[n] # Undefined
              \/ proc = "aborted"
              \/ \E i \in DOMAIN stack : stack[i].code = n

BatchInv == Mode = "batch" => StartedOnce
===============================================================================
