------------------------------ MODULE MCLimits ------------------------------
(* Small instances of Limits for TLC. *)
EXTENDS Limits, TLC

\* Two students behind one address; ben is not signed in.
MCClients == {[user |-> "ana", cookie |-> "ana", ip |-> "campus", email |-> "ana@"],
              [user |-> None, cookie |-> "ben", ip |-> "campus", email |-> "ben@"]}
MCTraffics == {{"auth"}, {"upload"}, {"refresh"}}
MCLimit == [r \in RulesIn(UNION MCTraffics) |->
              IF r = "upload" THEN 3 ELSE IF r = "auth-ip" THEN 2 ELSE 1]
\* Where a window is longer than a tick, hits expire under a block that lives.
MCWindow == [r \in RulesIn(UNION MCTraffics) |-> IF r = "refresh" THEN 2 ELSE 1]

\* Requests differ in nothing but their name, and so do processes.
Symmetry == Permutations(Requests) \cup Permutations(Processes)
=============================================================================
