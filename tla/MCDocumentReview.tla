--------------------------- MODULE MCDocumentReview ---------------------------
(* Small instances of DocumentReview for TLC. *)
EXTENDS DocumentReview, TLC

\* Handlers in flight differ in nothing but their slot.
Symmetry == Permutations(Calls)
=============================================================================
