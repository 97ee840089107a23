---------------------------- MODULE MCLsmEngine ----------------------------
(* Small instances of LsmEngine, with its inductive invariant. *)
EXTENDS LsmEngineInv, TLC

CONSTANTS w1, w2, r1, r2

Threads == Permutations(Writers) \cup Permutations(Readers)
=============================================================================
