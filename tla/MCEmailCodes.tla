---------------------------- MODULE MCEmailCodes ----------------------------
(* Small instances of EmailCodes for TLC. *)
EXTENDS EmailCodes, TLC

\* Handlers in flight differ in nothing but their slot.
Symmetry == Permutations(Calls)
=============================================================================
