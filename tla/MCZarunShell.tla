----------------------------- MODULE MCZarunShell -----------------------------
(***************************************************************************)
(* A plain REPL; a REPL with two files on the command line and AMD         *)
(* factories; and a batch session.                                         *)
(***************************************************************************)
EXTENDS ZarunShell

Plain == [mode |-> "repl", args |-> 0, typed |-> 8, factories |-> 0]
WithScripts == [mode |-> "repl", args |-> 2, typed |-> 3, factories |-> 2]
Batch == [mode |-> "batch", args |-> 5, typed |-> 0, factories |-> 0]

PlainSessions == {Plain}
ScriptSessions == {WithScripts, Batch}
===============================================================================
