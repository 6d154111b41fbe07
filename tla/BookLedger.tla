----------------------------- MODULE BookLedger -----------------------------
(***************************************************************************)
(* What the lending desk promises about one donated book, with no requests *)
(* in flight, no locks and no clock: a book is on the shelf, held for one  *)
(* accepted request, given to that request's student, or withdrawn.        *)
(* BookHandover is shown to implement this specification for the handlers  *)
(* that may overlap without harm.                                          *)
(***************************************************************************)
CONSTANTS Books, Requests, None

VARIABLES
    place,     \* where each book is
    holder     \* the request a book is held for or was given to

ledgerVars == <<place, holder>>

Places == {"unlisted", "shelf", "held", "given", "withdrawn"}

LedgerTypeOK ==
    /\ place \in [Books -> Places]
    /\ holder \in [Books -> Requests \cup {None}]

LedgerInit ==
    /\ place = [b \in Books |-> "unlisted"]
    /\ holder = [b \in Books |-> None]

Move(b, from, to, who) ==
    /\ place[b] \in from
    /\ place' = [place EXCEPT ![b] = to]
    /\ holder' = [holder EXCEPT ![b] = who]

List(b) == Move(b, {"unlisted"}, "shelf", None)

Hold(b, r) == Move(b, {"shelf"}, "held", r)

Release(b) == Move(b, {"held"}, "shelf", None)

\* A book is given to the student it was held for, and to nobody else.
Give(b) == Move(b, {"held"}, "given", holder[b])

Withdraw(b) == Move(b, Places \ {"unlisted", "withdrawn"}, "withdrawn", None)

LedgerNext ==
    \E b \in Books :
        \/ List(b)
        \/ \E r \in Requests : Hold(b, r)
        \/ Release(b)
        \/ Give(b)
        \/ Withdraw(b)

LedgerSpec == LedgerInit /\ [][LedgerNext]_ledgerVars
=============================================================================
