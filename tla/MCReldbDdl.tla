----------------------------- MODULE MCReldbDdl -----------------------------
(* Model-checking instance of ReldbDdl: two columns of one type. *)
EXTENDS ReldbDdl

CONSTANTS s1, s2, id, a, b

TwoSessions == {s1, s2}
TwoPks == 1 .. 2
TwoCols == {a, b}
OneType == [c \in {id, a, b} |-> "Int64"]
=============================================================================
