----------------------------- MODULE MCComponents -----------------------------
(***************************************************************************)
(* Components with a small instance of each.                               *)
(***************************************************************************)
EXTENDS Components, TLC

CONSTANTS a, b, c

(***************************************************************************)
(* os.throw: codes around every constant of ZarunErrorType, and errnos     *)
(* around every bit that matters: 0, the table's codes, both sides of      *)
(* 2^13, one with bit 13, one beyond an unsigned short and negative ones.  *)
(***************************************************************************)
MCCodes == {-1, 0, 2, 4095, 4096, 4097, 4100, 4101, 8192, 8194, 16384, 16387}
MCErrnos == {-8193, -1, 0, 1, 2, 3, 8191, 8192, 8195, 65538}
MCMessageTexts == {"", "text"}
MCErrnoNames == {2, 8191}

(***************************************************************************)
(* os.environ: three spellings of one variable, an inherited name, the     *)
(* empty name, and names and a value with U+0000, here "0": one of them is *)
(* cut to "PATH", one to nothing.  The other case of "Path" is "path",     *)
(* that of "path" is "PATH".                                               *)
(***************************************************************************)
MCEnvNames == {"PATH", "path", "Path", "toString", "", "PATH0x", "0PATH"}
MCVariable ==
    [n \in MCEnvNames |-> CASE n = "PATH0x" -> "PATH" [] n = "0PATH" -> "" [] OTHER -> n]
MCSettable == {"PATH", "path", "Path", "toString"}
MCAlternate == [PATH |-> "path", path |-> "PATH", Path |-> "path"]
MCInheritedNames == {"toString"}
MCEnvValues == {"v", "w", "v0w"}
MCStored == [v |-> "v", w |-> "w", v0w |-> "v"]

(***************************************************************************)
(* $JSON.stringify: three of the eight builtin types: Object, from which   *)
(* the others inherit, one without and one (Date) with a toJSON of its own *)
(* to begin with.                                                          *)
(***************************************************************************)
MCTypes == <<"Object", "Array", "Date">>
MCFunctions == {"f", "native"}
MCNatives == [Date |-> "native"]

(***************************************************************************)
(* inspect on three objects.  Plain: no inspect methods; every graph with  *)
(* up to two properties at the first two objects and one at the third,     *)
(* each of any kind.  Methods: two of the objects have a method of any     *)
(* behaviour.                                                              *)
(***************************************************************************)
Object(kind, props, holes) ==
    [kind |-> kind, hook |-> "none", of |-> a, props |-> props, holes |-> holes,
     isPrototype |-> FALSE]

UpTo(n, S) == UNION {[1 .. k -> S] : k \in 0 .. n}

PlainHeaps ==
    {(a :> Object("plain", p, FALSE)) @@ (b :> Object(k, q, FALSE)) @@ (c :> Object(l, r, h)) :
        p \in UpTo(2, {a, b, c, "primitive", "accessor"}), q \in UpTo(2, {a, b, c}),
        r \in UpTo(1, {a, b}), k \in {"plain", "regexp"}, l \in {"array", "regexp", "other"},
        h \in BOOLEAN}

Methods == {[hook |-> h, of |-> a] : h \in {"none", "string", "throw"}}
      \cup [hook : {"value", "inspect", "catch"}, of : {a, b, c}]

WithMethod(object, m, isPrototype) ==
    [object EXCEPT !.hook = m.hook, !.of = m.of, !.isPrototype = isPrototype]

MethodHeaps ==
    {(a :> Object("plain", p, FALSE))
     @@ (b :> WithMethod(Object("plain", q, FALSE), m, FALSE))
     @@ (c :> WithMethod(Object("plain", r, FALSE), n, i)) :
        p \in UpTo(2, {b, c}), q \in UpTo(1, {a, b, c}), r \in UpTo(1, {a}),
        m \in Methods, n \in {n \in Methods : n.of # c}, i \in BOOLEAN}

MCObjects == {a, b, c}
MCInspections ==
    [heap : PlainHeaps, depth : {0, 1, Null}, customInspect : {TRUE}, root : {a}]
    \cup [heap : MethodHeaps, depth : {1, Null}, customInspect : {TRUE}, root : {a}]
    \cup [heap : MethodHeaps, depth : {Null}, customInspect : {FALSE}, root : {a}]
    \cup [heap : MethodHeaps, depth : {1}, customInspect : {TRUE}, root : {b}]

(***************************************************************************)
(* The console: interactive sessions on a terminal with and without a      *)
(* script on the command line, and batches of two on a terminal and a pipe.*)
(* One AMD factory of a typed script is reported in its middle.            *)
(***************************************************************************)
Started(how, tty, args) ==
    [mode |-> how, tty |-> tty, color |-> ~tty, nocolor |-> FALSE, args |-> args]

MCLaunches == {Started("repl", TRUE, 0), Started("repl", TRUE, 1),
               Started("batch", TRUE, 2), Started("batch", FALSE, 2)}

(***************************************************************************)
(* The build: files of up to two characters among a letter, white space,   *)
(* the zero character and one that is not ascii.                           *)
(***************************************************************************)
MCIds == {"bootstrap", "node_util", "a-b"}
MCBad == {"a-b"}
MCFileTexts ==
    UpTo(1, {0, 32, 97, 200}) \cup {<<97, 32>>, <<32, 97>>, <<97, 0>>, <<0, 97>>, <<97, 200>>}
MCJsmin == [text \in MCFileTexts |-> SelectSeq(text, LAMBDA char : char # 32)]
===============================================================================
