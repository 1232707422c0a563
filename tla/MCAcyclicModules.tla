--------------------------- MODULE MCAcyclicModules ---------------------------
(***************************************************************************)
(* bootstrap requires node_util; app, a module a script or the host may    *)
(* load later, requires node_util and a name nobody has a source for.      *)
(* app asks for a native that is registered and one that is not.           *)
(***************************************************************************)
EXTENDS AcyclicModules

CONSTANTS bootstrap, node_util, app, bad, ghost, toString, os, nope

MCNames == {bootstrap, node_util, app, bad, ghost, toString}

MCRequires ==
    [n \in MCNames |->
        CASE n = bootstrap -> {node_util}
          [] n = app -> {node_util, ghost}
          [] OTHER -> {}]

MCNatives ==
    [n \in MCNames |->
        CASE n \in {bootstrap, node_util} -> {os}
          [] n = app -> {os, nope}
          [] OTHER -> {}]

MCScriptBodies == {{}, {app, node_util}, {bad, toString}}

MCRank ==
    [n \in MCNames |->
        CASE n = bootstrap -> 1
          [] n = app -> 1
          [] OTHER -> 0]
===============================================================================
