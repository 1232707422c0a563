----------------------------- MODULE NativesBuild -----------------------------
(***************************************************************************)
(* How the JavaScript modules get into the program: tools/zarun_js2c.py    *)
(* writes each file as a C array into zarun_natives.h, the compiler builds *)
(* it in, and NativeSourceMap fills its map from the table at the start.   *)
(*                                                                         *)
(* A text is a sequence of character codes.  No macros.py is among the     *)
(* inputs, so constants and macros expand to nothing.  jsmin is external.  *)
(***************************************************************************)
EXTENDS Integers, SequencesExt

CONSTANTS
    Ids,        \* module ids
    Bad,        \* those among them that are no C identifiers
    Texts,      \* contents of the files
    Jsmin,      \* what jsmin leaves of them
    MaxFiles    \* bound: files on the command line of zarun_js2c.py

Chars == 0 .. 255
Ascii == 0 .. 127

BuildAssumption ==
    /\ Bad \subseteq Ids /\ Texts \subseteq Seq(Chars) /\ MaxFiles \in Nat
    /\ \A text \in Texts : Jsmin[text] \in Seq(Range(text))

\* delay: the file is called <id>-delay.js.
Files == [id : Ids, delay : BOOLEAN, jsmin : BOOLEAN, text : Texts]

VARIABLES
    files,      \* the arguments of zarun_js2c.py
    stage,      \* where the build and then the program is
    next,       \* the file or table entry whose turn it is
    natives,    \* the table in zarun_natives.h, without the sentinel
    sourceMap   \* source_map_: pairs <<name, source>>

vars == <<files, stage, next, natives, sourceMap>>

Stages == {"js2c", "compile", "start", "running", "non-ascii", "compile error", "empty source"}

TypeOK ==
    /\ stage \in Stages /\ next \in 1 .. MaxFiles + 1
    /\ natives \in Seq([name : Ids, source : Seq(Ascii)])
    /\ sourceMap \subseteq Ids \X Seq(Ascii)

Init ==
    /\ files \in UNION {[1 .. k -> Files] : k \in 0 .. MaxFiles}
    /\ stage = "js2c" /\ next = 1 /\ natives = <<>> /\ sourceMap = {}

(***************************************************************************)
(* zarun_js2c.py.                                                          *)
(***************************************************************************)
CompressScript(file) ==
    IF file.jsmin THEN Jsmin[file.text] ELSE file.text

ToCArray(text) == Append(text, 0)

TableEntry(i) == [name |-> files[i].id, source |-> ToCArray(CompressScript(files[i]))]

\* ToCArray exits at the first character that is not ascii.
JS2C ==
    /\ stage = "js2c" /\ next <= Len(files)
    /\ LET text == CompressScript(files[next]) IN
       \/ /\ \E c \in Range(text) : c \notin Ascii
          /\ stage' = "non-ascii" /\ UNCHANGED <<next, natives>>
       \/ /\ \A c \in Range(text) : c \in Ascii
          /\ natives' = Append(natives, TableEntry(next))
          /\ next' = next + 1 /\ UNCHANGED stage
    /\ UNCHANGED <<files, sourceMap>>

WriteHeader ==
    /\ stage = "js2c" /\ next > Len(files)
    /\ stage' = "compile"
    /\ UNCHANGED <<files, next, natives, sourceMap>>

\* Mutant: arrays of one name are merged.
CompileAll ==
    /\ stage = "compile"
    /\ stage' = "start" /\ next' = 1
    /\ UNCHANGED <<files, natives, sourceMap>>

\* Every id becomes the name of an array.
Compile ==
    /\ stage = "compile"
    /\ IF \/ \E i \in DOMAIN natives : natives[i].name \in Bad
          \/ \E i, j \in DOMAIN natives : i # j /\ natives[i].name = natives[j].name
       THEN stage' = "compile error" /\ UNCHANGED next
       ELSE stage' = "start" /\ next' = 1
    /\ UNCHANGED <<files, natives, sourceMap>>

(***************************************************************************)
(* NativeSourceMap.                                                        *)
(***************************************************************************)
Registered(name) == \E entry \in sourceMap : entry[1] = name

\* sizeof the array less one is the length of the source.
SourceLen(i) == Len(natives[i].source) - 1

RegisterModule(name, source) ==
    /\ ~Registered(name)
    /\ sourceMap' = sourceMap \cup {<<name, source>>}

ReadTable ==
    /\ stage = "start" /\ next <= Len(natives)
    /\ \/ /\ SourceLen(next) = 0
          /\ stage' = "empty source" /\ UNCHANGED <<next, sourceMap>>
       \/ /\ SourceLen(next) # 0
          /\ RegisterModule(natives[next].name, SubSeq(natives[next].source, 1, SourceLen(next)))
          /\ next' = next + 1 /\ UNCHANGED stage
    /\ UNCHANGED <<files, natives>>

Sentinel ==
    /\ stage = "start" /\ next > Len(natives)
    /\ stage' = "running"
    /\ UNCHANGED <<files, next, natives, sourceMap>>

\* GetSource passes c_str() on: the source ends at its first zero.
GetSource(name) ==
    LET source == (CHOOSE entry \in sourceMap : entry[1] = name)[2]
        zeros == {i \in DOMAIN source : source[i] = 0} IN
    IF zeros = {} THEN source ELSE SubSeq(source, 1, (CHOOSE i \in zeros : \A j \in zeros : i <= j) - 1)

Next == JS2C \/ WriteHeader \/ Compile \/ ReadTable \/ Sentinel

Spec == Init /\ [][Next]_vars

-------------------------------------------------------------------------------
\* A program that runs has each file as a module under its id, delayed or not,
\* and require sees the text of the file, white space aside if it asked for
\* that, up to a zero character in it; and it has no other modules.
EmbeddedWhole ==
    stage = "running" =>
        /\ \A i \in DOMAIN files :
              /\ Registered(files[i].id)
              /\ 0 \notin Range(files[i].text) => GetSource(files[i].id) = CompressScript(files[i])
        /\ \A entry \in sourceMap : \E i \in DOMAIN files : files[i].id = entry[1]

\* Two files of one id, "x.js" of two directories or "x.js" and "x-delay.js",
\* never both get into a program: the compiler stops them before
\* RegisterModule's CHECK would.
OneFilePerModule ==
    stage \in {"start", "running"} => \A i, j \in DOMAIN files : files[i].id = files[j].id => i = j

\* An empty file passes the build and the program dies of it at every start.
DiesOfEmptyFiles ==
    stage = "empty source" => \E i \in DOMAIN files : CompressScript(files[i]) = <<>>

-------------------------------------------------------------------------------
(***************************************************************************)
(* Why that is so: what the table and then the map have at each stage.     *)
(***************************************************************************)
Complete == Len(natives) = Len(files)

EntryOf(i) == <<files[i].id, CompressScript(files[i])>>

BuildInv ==
    /\ stage # "non-ascii" =>
          \A i \in DOMAIN natives : natives[i] = TableEntry(i)
    /\ stage = "js2c" => next = Len(natives) + 1 /\ next <= Len(files) + 1 /\ sourceMap = {}
    /\ stage = "compile" => Complete /\ sourceMap = {}
    /\ stage \in {"start", "running"} =>
          /\ Complete /\ OneFilePerModule
          /\ next <= Len(files) + 1 /\ sourceMap = {EntryOf(i) : i \in 1 .. next - 1}
    /\ stage = "running" => next = Len(files) + 1
    /\ DiesOfEmptyFiles
===============================================================================
