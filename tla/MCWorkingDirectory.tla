--------------------------- MODULE MCWorkingDirectory ---------------------------
(***************************************************************************)
(* Three files: the first is in the launch directory only, the second in   *)
(* two directories, the third is given by an absolute path.                *)
(***************************************************************************)
EXTENDS WorkingDirectory

MCFilesIn == [d \in Dirs |-> CASE d = "launch" -> {1, 2} [] d = "sub" -> {2} [] OTHER -> {}]
===============================================================================
