------------------------ MODULE MCRefreshSessions ------------------------
(* Small instances of RefreshSessions for TLC. *)
EXTENDS RefreshSessions, TLC

\* Handlers in flight differ in nothing but their slot; used where no liveness
\* property is checked.
Symmetry == Permutations(Calls)
=============================================================================
