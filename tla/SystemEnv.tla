------------------------------- MODULE SystemEnv -------------------------------
(***************************************************************************)
(* os.environ: an object whose properties are the variables of the process *)
(* (modules/cpp/internal/system_env.cc over platform/base/environment.cc). *)
(* Five interceptors answer get, set, in, delete and enumeration.  They do *)
(* not all look at the same thing: base::Environment, which is not in the  *)
(* repository, looks a name up in the other case when it is not found, but *)
(* sets and deletes exactly the name it is given.                          *)
(*                                                                         *)
(* Names and values get there as C strings: of a name or a value with the  *)
(* character U+0000 only what comes before it.  Names with "=" are left    *)
(* out: setenv refuses them, and getenv takes part of a value for a name.  *)
(* So are strings that are not well formed, which UTF-8 cannot express.    *)
(***************************************************************************)
EXTENDS Integers

CONSTANTS
    Names,          \* the property names scripts use
    Values,         \* what scripts store
    Variable,       \* Variable[n]: the name of a variable that c_str() makes of n
    Stored,         \* Stored[v]: what c_str() leaves of the string of v
    Settable,       \* the variables setenv accepts (all but the empty name)
    Alternate,      \* Alternate[x]: the variable in the other case, if x has one
    InheritedNames, \* the names a plain object has from Object.prototype
    Absent,         \* no such variable
    Inherited,      \* the value of an inherited name
    Untouched       \* nothing done to the variable yet

Variables == {n \in Names : Variable[n] = n}

Texts == {Stored[v] : v \in Values}

NamesAssumption ==
    /\ Variable \in [Names -> Names] /\ \A n \in Names : Variable[n] \in Variables
    /\ Stored \in [Values -> Values] /\ \A t \in Texts : Stored[t] = t
    /\ Settable \subseteq Variables /\ InheritedNames \subseteq Names
    /\ DOMAIN Alternate \subseteq Variables
    /\ \A x \in DOMAIN Alternate : Alternate[x] \in Variables
    /\ {Absent, Inherited, Untouched} \cap Values = {}
    /\ Inherited # Absent /\ Untouched # Absent

VARIABLES
    env,        \* the process environment
    done,       \* history: the value last stored, Absent once deleted
    crashed     \* the process is gone

vars == <<env, done, crashed>>

TypeOK ==
    /\ env \in [Variables -> Texts \cup {Absent}]
    /\ \A x \in Variables \ Settable : env[x] = Absent
    /\ done \in [Variables -> Values \cup {Absent, Untouched}]
    /\ crashed \in BOOLEAN

\* The process inherits any environment.
Init ==
    /\ env \in [Variables -> Texts \cup {Absent}]
    /\ \A x \in Variables \ Settable : env[x] = Absent
    /\ done = [x \in Variables |-> Untouched]
    /\ crashed = FALSE

(***************************************************************************)
(* platform::Environment: the value of a variable, Absent if there is none.*)
(***************************************************************************)
GetVar(x) ==
    IF env[x] = Absent /\ x \in DOMAIN Alternate THEN env[Alternate[x]] ELSE env[x]

HasVar(x) == GetVar(x) # Absent

GetAll == {x \in Variables : env[x] # Absent}

(***************************************************************************)
(* The interceptors that only answer.  The prototype is asked for the name *)
(* as the script wrote it.                                                 *)
(***************************************************************************)
EnvGetter(n) ==
    IF HasVar(Variable[n]) THEN GetVar(Variable[n])
    ELSE IF n \in InheritedNames THEN Inherited ELSE Absent

EnvQuery(n) == HasVar(Variable[n])

EnvEnumerator == GetAll

(***************************************************************************)
(* Set and delete.  The setter's answer is the value whether or not the    *)
(* variable could be set; a value that has no string ends the process.     *)
(***************************************************************************)
EnvSetter(n, v) ==
    /\ ~crashed
    /\ env' = IF Variable[n] \in Settable THEN [env EXCEPT ![Variable[n]] = Stored[v]] ELSE env
    /\ done' = [done EXCEPT ![Variable[n]] = v]
    /\ UNCHANGED crashed

EnvSetterCrashes ==
    /\ ~crashed
    /\ crashed' = TRUE
    /\ UNCHANGED <<env, done>>

\* Mutant: the variable that is found is deleted, in either spelling.
DeleterOfFound(n) ==
    LET x == Variable[n] IN
    /\ ~crashed
    /\ env' = IF env[x] = Absent /\ x \in DOMAIN Alternate
              THEN [env EXCEPT ![Alternate[x]] = Absent]
              ELSE [env EXCEPT ![x] = Absent]
    /\ done' = [done EXCEPT ![x] = Absent]
    /\ UNCHANGED crashed

EnvDeleter(n) ==
    /\ ~crashed
    /\ env' = [env EXCEPT ![Variable[n]] = Absent]
    /\ done' = [done EXCEPT ![Variable[n]] = Absent]
    /\ UNCHANGED crashed

Next ==
    \/ \E n \in Names : EnvDeleter(n) \/ \E v \in Values : EnvSetter(n, v)
    \/ EnvSetterCrashes
    \/ crashed /\ UNCHANGED vars

Spec == Init /\ [][Next]_vars

-------------------------------------------------------------------------------
\* What a script stored last under any of the names that are cut to the same
\* variable is what it reads under all of them, up to its first U+0000, whatever
\* it does to variables that the lookup takes for the same, until it stores
\* there or deletes again.  An empty name is accepted silently and never stored.
ReadsItsWrites ==
    \A n \in Names :
        Variable[n] \in Settable /\ done[Variable[n]] \in Values =>
            EnvGetter(n) = Stored[done[Variable[n]]]

\* A deleted name is still there in the other case only: it is never listed,
\* and read it shows the other variable or what every object has.
DeletedIsGone ==
    \A n \in Names : done[Variable[n]] = Absent =>
        /\ Variable[n] \notin EnvEnumerator
        /\ EnvQuery(n) =>
              Variable[n] \in DOMAIN Alternate /\ Alternate[Variable[n]] \in EnvEnumerator

\* Enumeration and lookup agree: a listed name is found with its own value, and
\* of a name that is found the variable is listed, in this or the other case.
EnumerationAgrees ==
    /\ \A x \in EnvEnumerator : EnvQuery(x) /\ EnvGetter(x) = env[x]
    /\ \A n \in Names : EnvQuery(n) =>
          LET x == Variable[n] IN
          x \in EnvEnumerator \/ (x \in DOMAIN Alternate /\ Alternate[x] \in EnvEnumerator)
===============================================================================
