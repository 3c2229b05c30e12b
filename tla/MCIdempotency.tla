----------------------------- MODULE MCIdempotency -----------------------------
(* Model-checking instances of Idempotency. *)
EXTENDS Idempotency, TLC

Symmetry == Permutations(Requests) \cup Permutations(Bodies)

===============================================================================
