------------------------------ MODULE MCOsModules ------------------------------
(***************************************************************************)
(* The two modules of MCCyclicModules with code that edits the cache.      *)
(***************************************************************************)
EXTENDS MCCyclicModules, OsModules
===============================================================================
