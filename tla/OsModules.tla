-------------------------------- MODULE OsModules --------------------------------
(***************************************************************************)
(* CommonModuleSystem with scripts that use os.modules (ModulesCallback of *)
(* modules/cpp/os.cc): it hands out the hidden cache object itself, not a  *)
(* copy, so code may delete an entry or store one between any two steps of *)
(* the requires in progress.  What it has to store are exports: those that *)
(* require returned, and those a body was given to fill, which it may pass *)
(* on while it runs and keep when it fails.  Other objects it may store,   *)
(* also the exports of other modules, are left out: they make no half      *)
(* built exports of the name, and require returns them like these.         *)
(***************************************************************************)
EXTENDS CommonModuleSystem

VARIABLE
    exposed     \* history: the executions in progress whose exports code stored

osVars == <<vars, exposed>>

InProgress == {<<stack[i].code, stack[i].run>> : i \in DOMAIN stack}

OsTypeOK == TypeOK /\ exposed \subseteq Names \X Nat

OsInit == Init /\ exposed = {}

\* bootstrap publishes os as a global; before, requireNative has it.
HasOs == Executing /\ (globals \/ natives # 0)

\* Deletes the entry, or stores the exports of any execution of n there was.
Writes(n) == {Undefined} \cup 1 .. runs[n]

ModulesCallback(n) ==
    /\ HasOs
    /\ \E v \in Writes(n) :
          /\ Publish(n, v)
          /\ exposed' = exposed \cup ({<<n, v>>} \cap InProgress)
    /\ UNCHANGED <<runs, held, stack, natives, nativeMap, globals, entries, proc>>

OsNext ==
    \/ Next /\ exposed' = exposed \cap InProgress'
    \/ \E n \in Names : ModulesCallback(n)

OsSpec == OsInit /\ [][OsNext]_osVars

\* JavaScript that has started goes on; nobody has to write to the cache.
OsFairSpec == OsSpec /\ WF_vars(Execute)

-------------------------------------------------------------------------------
\* require returns the exports of an execution that is still running only if
\* code put just these into the cache itself: no failure, cycle, deletion or
\* edit of other entries makes RequireForJsInner hand them out.
HalfBuiltOnlyIfStored ==
    \A i \in DOMAIN stack :
        LET e == <<stack[i].code, stack[i].run>> IN e \in held => e \in exposed
===============================================================================
