----------------------------- MODULE MCAdminDesk -----------------------------
(* The admin desk and the document desk on a small instance.                  *)
EXTENDS AdminDesk, TLC

Bans == {"ban", "unban"}
Looks == {"download", "detail", "feed"}

\* What a behaviour may consist of: operations that touch the same rows.
DeskMixes == {
    Bans \cup {"role"},
    Bans \cup {"assign", "unassign", "unassignAll"},
    {"createDept", "updateDept", "removeDept", "submit", "removeSubject"},
    {"assign", "submit", "reject"},
    {"submit", "withdraw", "approve", "reject"},
    Looks \cup {"edit"},
    Looks \cup {"hide", "decide"},
    Looks \cup {"place", "expire"},
    {"download", "edit", "expire"},
    {"pin", "edit"},
    {"pin", "hide"},
    {"queue", "assign", "edit"},
    {"queue", "assign", "unassign"}}

\* For everyone, or for one year of a department and another of the other one.
TwoCohorts ==
    {{}} \cup {{<<e[1], 3>>, <<e[2], 4>>} : e \in {p \in Departments \X Departments : p[1] # p[2]}}

Interchangeable == Permutations(Users) \cup Permutations(Calls)
                   \cup Permutations(Departments)
=============================================================================
