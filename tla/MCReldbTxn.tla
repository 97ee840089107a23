----------------------------- MODULE MCReldbTxn -----------------------------
(* Model-checking instances of ReldbTxn and its refinement. *)
EXTENDS ReldbTxnRefinement, ReldbTxnInv, TLC

CONSTANTS r1, r2, p1, p2

TwoRows == {r1, r2}
TwoPayloads == {p1, p2}
OnePayload == {p1}

Symmetry == Permutations({r1, r2}) \cup Permutations({p1, p2})
=============================================================================
