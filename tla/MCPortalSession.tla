---------------------------- MODULE MCPortalSession ----------------------------
(* Model-checking instances of PortalSession. *)
EXTENDS PortalSession, TLC

Symmetry == Permutations(Requests) \cup Permutations(Browsers)

===============================================================================
