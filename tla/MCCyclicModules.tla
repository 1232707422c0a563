---------------------------- MODULE MCCyclicModules ----------------------------
(***************************************************************************)
(* Two modules that require each other, and one that requires both.        *)
(***************************************************************************)
EXTENDS CommonModuleSystem

CONSTANTS bootstrap, a, b, os

MCNames == {bootstrap, a, b}

MCRequires ==
    [n \in MCNames |->
        CASE n = bootstrap -> {}
          [] n = a -> {b}
          [] n = b -> {a}]

MCNatives == [n \in MCNames |-> IF n = b THEN {os} ELSE {}]

MCScriptBodies == {{}, {a, b}}
===============================================================================
