---------------------------- MODULE MCSessionLease ----------------------------
(* Model-checking instance of SessionLease: its connections are alike. *)
EXTENDS SessionLease, TLC

ConnSymmetry == Permutations(Conns)

===============================================================================
