------------------------------- MODULE Cases -------------------------------
(* The frame in which pure operators are checked: a case is chosen in the        *)
(* initial state, the one step applies the code's operator to it, and invariants *)
(* compare what it answers with a reference.                                     *)
EXTENDS Sequences

VARIABLES
    input,  \* the case; input.op names the operator
    out,    \* what the code answers
    pc      \* "input" or "done"

vars == <<input, out, pc>>

Fresh == out = <<>> /\ pc = "input"
Step(op, answer) == /\ pc = "input" /\ pc' = "done" /\ UNCHANGED input
                    /\ input.op = op /\ out' = answer
Finished == pc = "done" /\ UNCHANGED vars
Answered(op) == pc = "done" /\ input.op = op
=============================================================================
