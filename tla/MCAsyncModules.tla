--------------------------- MODULE MCAsyncModules ---------------------------
(***************************************************************************)
(* Modules for the registry: a needs c and b, b needs c, and the factory   *)
(* of b asks for c once more; j is a CommonJS module whose body requires   *)
(* a; u has no source and only scripts define it.  In the cyclic set b     *)
(* needs a.                                                                *)
(***************************************************************************)
EXTENDS AsyncModules

MCNames == {"a", "b", "c", "j", "u"}
MCSourced == {"a", "b", "c", "j"}

Req(n) == [op |-> "require", id |-> n]
Async(n) == [op |-> "requireAsync", id |-> n]
Def(n, deps) == [op |-> "define", id |-> n, deps |-> deps]

MCBody == [a |-> <<Def("a", <<"c", "b">>)>>, b |-> <<Def("b", <<"c">>)>>,
           c |-> <<Def("c", <<>>)>>, j |-> <<Req("a")>>]

MCFactory == [n \in MCNames |-> IF n = "b" THEN <<Async("c")>> ELSE <<>>]

MCScripts == {<<Async("a"), Async("a")>>, <<Async("j"), Req("j")>>, <<Req("a")>>,
              <<Def("a", <<"u", "b">>)>>, <<Def("u", <<>>)>>}

CyclicBody == [a |-> <<Def("a", <<"b">>)>>, b |-> <<Def("b", <<"a">>)>>,
               c |-> <<Def("c", <<>>)>>, j |-> <<Req("c")>>]

CyclicFactory == [n \in MCNames |-> IF n = "c" THEN <<Async("c")>> ELSE <<>>]

CyclicScripts == {<<Async("a")>>, <<Async("c")>>, <<Def("a", <<>>)>>}

Needs(mode) == [body |-> MCBody, factory |-> MCFactory, scripts |-> MCScripts,
                mode |-> mode, depth |-> 12, entries |-> 2]

Cycle == [body |-> CyclicBody, factory |-> CyclicFactory, scripts |-> CyclicScripts,
          mode |-> "repl", depth |-> 9, entries |-> 3]

AllPrograms == {Needs("repl"), Needs("batch"), Cycle}
BatchPrograms == {Needs("batch")}
=============================================================================
