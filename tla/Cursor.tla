------------------------------- MODULE Cursor -------------------------------
(***************************************************************************)
(* What a prepared SELECT promises its caller (xjd1.h: step, value,        *)
(* rewind): each step returns the next result of the query, or DONE when   *)
(* there is none left, or reports that memory ran out; a rewind starts the *)
(* same sequence of results again, whatever happened before.               *)
(***************************************************************************)
EXTENDS Sequences, Naturals

VARIABLES
    answer,     \* the results of the query, in order; never changes
    out,        \* the results returned since the last rewind
    ret         \* what the last call returned: "NONE" before the first step

vars == <<answer, out, ret>>

Init ==
    /\ out = <<>>
    /\ ret = "NONE"

\* The caller of a statement steps it until it returns something but ROW.
CanStep == ret \in {"NONE", "ROW"}

StepRow ==
    /\ CanStep
    /\ Len(out) < Len(answer)
    /\ out' = Append(out, answer[Len(out) + 1])
    /\ ret' = "ROW"
    /\ UNCHANGED answer

StepDone ==
    /\ CanStep
    /\ out = answer
    /\ ret' = "DONE"
    /\ UNCHANGED <<answer, out>>

StepNoMem ==
    /\ CanStep
    /\ ret' = "NOMEM"
    /\ UNCHANGED <<answer, out>>

Rewind ==
    /\ out' = <<>>
    /\ ret' = "NONE"
    /\ UNCHANGED answer

Next == StepRow \/ StepDone \/ StepNoMem \/ Rewind

Spec == Init /\ [][Next]_vars
=============================================================================
