------------------------------ MODULE AdminDesk ------------------------------
(***************************************************************************)
(* What accounts bear on, put together: departments and subjects (Catalog)  *)
(* and the uploads somebody may see (DocumentAccess), with the roles, bans  *)
(* and assignments of Accounts changing under both.                         *)
(***************************************************************************)
EXTENDS Catalog, DocumentAccess

vars == <<accounts, mix, call, catalog, access, seen, could>>

TypeOK == AccountsTypeOK /\ CatalogTypeOK /\ AccessTypeOK

Init == AccountsInit /\ CatalogInit /\ AccessInit

AccountsNext(c) ==
    /\ AccountArrival(c) \/ AccountStep(c) \/ Assign(c, There)
    /\ UNCHANGED <<catalog, access, seen>>

CatalogNext(c) ==
    /\ CatalogArrival(c) \/ CatalogStep(c)
    /\ UNCHANGED <<access, seen>>

AccessNext ==
    /\ Surroundings \/ \E c \in Calls : AccessArrival(c) \/ AccessStep(c)
    /\ UNCHANGED catalog

Next ==
    /\ AccessNext \/ \E c \in Calls : AccountsNext(c) \/ CatalogNext(c)
    /\ Watch
    /\ UNCHANGED mix

Spec == Init /\ [][Next]_vars
=============================================================================
