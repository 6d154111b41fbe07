--------------------------- MODULE MCBookHandover ---------------------------
(* BookHandover with one donor and a few students for TLC. *)
EXTENDS BookHandover, TLC

CONSTANTS donor, Students

MCUsers == {donor} \cup Students
MCDonorOf == [b \in Books |-> donor]

\* Requests, accepts, an admin's deletes and the sweep overlap; these do not.
MCDeskAlone == {"cancel", "complete", "decline", "update", "remove"}
MCNoneAlone == {}
MCDeclineAlone == {"decline"}

MCSymmetry ==
    Permutations(Requests) \cup Permutations(Calls) \cup Permutations(Students)
        \cup Permutations(Contents)
=============================================================================
