------------------------------ MODULE ReplSession ------------------------------
(***************************************************************************)
(* What an interactive session promises its user: zarun prompts, reads one *)
(* line, evaluates it, prints one answer and prompts again, until the user *)
(* quits.  It never prompts while it owes an answer.                       *)
(***************************************************************************)
EXTENDS Naturals

VARIABLES
    phase,         \* "busy", "reading", "evaluating", "quitting" or "over"
    asked,         \* lines read
    answered       \* answers printed

vars == <<phase, asked, answered>>

Init == phase = "busy" /\ asked = 0 /\ answered = 0

Prompt ==
    /\ phase = "busy" /\ asked = answered
    /\ phase' = "reading"
    /\ UNCHANGED <<asked, answered>>

Read ==
    /\ phase = "reading"
    /\ phase' = "evaluating"
    /\ asked' = asked + 1
    /\ UNCHANGED answered

Answer ==
    /\ phase = "evaluating"
    /\ phase' = "busy"
    /\ answered' = answered + 1
    /\ UNCHANGED asked

Quit ==
    /\ phase = "reading"
    /\ phase' = "quitting"
    /\ UNCHANGED <<asked, answered>>

\* The end, after a quit or because the process crashed.
End ==
    /\ phase # "over"
    /\ phase' = "over"
    /\ UNCHANGED <<asked, answered>>

Next == Prompt \/ Read \/ Answer \/ Quit \/ End

\* The user may think forever; zarun may not.
Fairness ==
    /\ WF_vars((phase = "busy") /\ (Prompt \/ End))
    /\ WF_vars((phase = "evaluating") /\ (Answer \/ End))
    /\ WF_vars((phase = "quitting") /\ End)

Spec == Init /\ [][Next]_vars

FairSpec == Spec /\ Fairness
===============================================================================
