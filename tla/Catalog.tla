------------------------------- MODULE Catalog -------------------------------
(***************************************************************************)
(* Departments and subjects: majors.service.ts with the logos it keeps in   *)
(* object storage, subjects.service.ts with their covers, and the review of *)
(* subjects by admins and moderators (admin.service.ts).  Names, acronyms   *)
(* and years are data no property tells apart; a save that violates their   *)
(* uniqueness is a save that may fail.                                      *)
(***************************************************************************)
EXTENDS Accounts

CONSTANT FreshNames   \* whether two logo files ever share a name on one day

ASSUME NamesAssumption == FreshNames \in BOOLEAN

VARIABLES
    dept,     \* the majors table
    logos,    \* objects in the majors bucket
    subject,  \* the subjects table
    covers,   \* objects in the subjects bucket, by the subject they were for
    used      \* history: logo keys that were written once

catalog == <<dept, logos, subject, covers, used>>

Statuses == {"none", "pending", "active", "rejected"}
NoSubject == [status |-> "none", owner |-> None, dept |-> None, cover |-> FALSE]

\* A row has all its columns or is not there.
CatalogTypeOK ==
    /\ dept \in [Departments -> [on : BOOLEAN, logo : Keys \cup {None}]]
    /\ logos \in SUBSET Keys
    /\ subject \in [Subjects -> [status : Statuses, owner : Users \cup {None},
                                 dept : Departments \cup {None},
                                 cover : BOOLEAN]]
    /\ \A s \in Subjects :
          \/ subject[s] = NoSubject
          \/ subject[s].status # "none" /\ None \notin {subject[s].owner, subject[s].dept}
    /\ covers \in SUBSET Subjects
    /\ used \in SUBSET Keys

\* The migrations seed departments, without logos.
CatalogInit ==
    /\ \E seeded \in IF mix \cap CatalogOps = {} THEN {Departments} ELSE SUBSET Departments :
          dept = [d \in Departments |-> [on |-> d \in seeded, logo |-> None]]
    /\ logos = {}
    /\ subject = [s \in Subjects |-> NoSubject]
    /\ covers = {}
    /\ used = {}

There == {d \in Departments : dept[d].on}
InDept(d) == {s \in Subjects : subject[s].dept = d}

-----------------------------------------------------------------------------
(* Departments.  A logo is stored under a key made from its file's name and *)
(* the date, so that a second file of that name replaces the first.         *)

PutLogo(c) ==
    /\ logos' = logos \cup {call[c].key}
    /\ used' = used \cup {call[c].key}

\* An id that is new: no other request can be about it.
CreateDept(c, actor, d, key) ==
    /\ ~dept[d].on
    /\ \A b \in Calls : call[b].dept # d
    /\ Start(c, [Request("createDept", "guard", actor) EXCEPT
                   !.dept = d, !.key = key])
    /\ UNCHANGED <<accounts, catalog>>

\* A file that cannot be stored fails the request before the row is written.
PutFile(c) ==
    /\ call[c].at = "put"
    /\ call[c].op \in {"createDept", "updateDept"}
    /\ IF call[c].key = None
       THEN Goto(c, "write") /\ UNCHANGED <<logos, used>>
       ELSE \/ /\ FreshNames => call[c].key \notin used
               /\ PutLogo(c)
               /\ Goto(c, "write")
            \/ Finish(c) /\ UNCHANGED <<logos, used>>
    /\ UNCHANGED <<accounts, dept, subject, covers>>

CreateDeptSave(c) ==
    LET d == call[c].dept
    IN  /\ At(c, "createDept", "write")
        /\ dept' = [dept EXCEPT ![d] = [on |-> TRUE, logo |-> call[c].key]]
        /\ Finish(c)
        /\ UNCHANGED <<accounts, logos, subject, covers, used>>

UpdateDept(c, actor, d, key) ==
    /\ dept[d].on
    /\ Start(c, [Request("updateDept", "guard", actor) EXCEPT
                   !.dept = d, !.key = key])
    /\ UNCHANGED <<accounts, catalog>>

UpdateDeptRead(c) ==
    /\ At(c, "updateDept", "read")
    /\ IF dept[call[c].dept].on
       THEN call' = [call EXCEPT ![c].at = "put",
                                 ![c].old = dept[call[c].dept].logo]
       ELSE Finish(c)
    /\ UNCHANGED <<accounts, catalog>>

\* save() writes the entity as it was read, with what was changed in it, and
\* puts it back where it was deleted meanwhile.  Without a file the logo stays,
\* or becomes a link to somewhere else, which is None here.
UpdateDeptSave(c) ==
    LET new == call[c].key
        old == call[c].old
    IN  /\ At(c, "updateDept", "write")
        /\ \E logo \in IF new = None THEN {old, None} ELSE {new} :
              dept' = [dept EXCEPT ![call[c].dept] = [on |-> TRUE, logo |-> logo]]
        /\ IF new # None /\ old \notin {None, new} THEN Goto(c, "clean") ELSE Finish(c)
        /\ UNCHANGED <<accounts, logos, subject, covers, used>>

\* Bug: a save that failed cleans up after the logo that was there before.
SaveFailsRemovesOld(c) ==
    /\ call[c].at = "write"
    /\ call[c].op \in {"createDept", "updateDept"}
    /\ logos' = logos \ {call[c].old}
    /\ Finish(c)
    /\ UNCHANGED <<accounts, dept, subject, covers, used>>

\* The row never landed: the object that was just stored is taken back.
SaveFails(c) ==
    /\ call[c].at = "write"
    /\ call[c].op \in {"createDept", "updateDept"}
    /\ logos' = logos \ {call[c].key}
    /\ Finish(c)
    /\ UNCHANGED <<accounts, dept, subject, covers, used>>

RemoveDept(c, actor, d) ==
    /\ dept[d].on
    /\ Start(c, [Request("removeDept", "guard", actor) EXCEPT !.dept = d])
    /\ UNCHANGED <<accounts, catalog>>

RemoveDeptRead(c) ==
    /\ At(c, "removeDept", "read")
    /\ IF dept[call[c].dept].on
       THEN call' = [call EXCEPT ![c].at = "count",
                                 ![c].old = dept[call[c].dept].logo]
       ELSE Finish(c)
    /\ UNCHANGED <<accounts, catalog>>

\* Books and uploads are counted like subjects, which stand for all three.
RemoveDeptCount(c) ==
    /\ At(c, "removeDept", "count")
    /\ IF InDept(call[c].dept) # {} THEN Finish(c) ELSE Goto(c, "write")
    /\ UNCHANGED <<accounts, catalog>>

\* The delete takes along what refers to the department.
RemoveDeptWrite(c) ==
    LET d == call[c].dept
    IN  /\ At(c, "removeDept", "write")
        /\ dept' = [dept EXCEPT ![d] = [on |-> FALSE, logo |-> None]]
        /\ subject' = [s \in Subjects |-> IF s \in InDept(d) THEN NoSubject
                                          ELSE subject[s]]
        /\ DeletePairs(Users \X {d})
        /\ Goto(c, "clean")
        /\ UNCHANGED <<logos, covers, used>>

\* The last step of an update or a removal: the logo nobody shows any more.
CleanLogo(c) ==
    /\ call[c].at = "clean"
    /\ call[c].op \in {"updateDept", "removeDept"}
    /\ logos' = logos \ {call[c].old}
    /\ Finish(c)
    /\ UNCHANGED <<accounts, dept, subject, covers, used>>

-----------------------------------------------------------------------------
(* Subjects: submitted by any student, reviewed like an upload.             *)

Submit(c, actor, s, d, cover) ==
    /\ subject[s].status = "none" /\ s \notin covers
    /\ \A b \in Calls : call[b].subject # s
    /\ Start(c, [Request("submit", IF cover THEN "put" ELSE "write", actor)
                   EXCEPT !.subject = s, !.dept = d])
    /\ UNCHANGED <<accounts, catalog>>

SubmitPut(c) ==
    /\ At(c, "submit", "put")
    /\ \/ covers' = covers \cup {call[c].subject} /\ Goto(c, "write")
       \/ covers' = covers /\ Finish(c)
    /\ UNCHANGED <<accounts, dept, logos, subject, used>>

SubmitSave(c) ==
    LET s == call[c].subject
    IN  /\ At(c, "submit", "write")
        /\ dept[call[c].dept].on
        /\ subject' = [subject EXCEPT ![s] =
              [status |-> "pending", owner |-> call[c].actor,
               dept |-> call[c].dept, cover |-> s \in covers]]
        /\ Finish(c)
        /\ UNCHANGED <<accounts, dept, logos, covers, used>>

\* The department is gone, or the name is taken: the cover is taken back.
SubmitFails(c) ==
    /\ At(c, "submit", "write")
    /\ covers' = covers \ {call[c].subject}
    /\ Finish(c)
    /\ UNCHANGED <<accounts, dept, logos, subject, used>>

\* removeOwn(): a subject that was not approved goes, its cover stays.
Withdraw(c, actor, s) ==
    /\ subject[s].owner = actor
    /\ Start(c, [Request("withdraw", "read", actor) EXCEPT !.subject = s])
    /\ UNCHANGED <<accounts, catalog>>

WithdrawRead(c) ==
    LET row == subject[call[c].subject]
    IN  /\ At(c, "withdraw", "read")
        /\ IF row.owner = call[c].actor /\ row.status \in {"pending", "rejected"}
           THEN Goto(c, "write") ELSE Finish(c)
        /\ UNCHANGED <<accounts, catalog>>

\* removeSubject() of an admin deletes the row without a look at it.
RemoveSubject(c, actor, s) ==
    /\ subject[s].status # "none"
    /\ Start(c, [Request("removeSubject", "guard", actor) EXCEPT !.subject = s])
    /\ UNCHANGED <<accounts, catalog>>

DeleteSubject(c) ==
    /\ call[c].at = "write"
    /\ call[c].op \in {"withdraw", "removeSubject"}
    /\ subject' = [subject EXCEPT ![call[c].subject] = NoSubject]
    /\ Finish(c)
    /\ UNCHANGED <<accounts, dept, logos, covers, used>>

Review(c, op, actor, s) ==
    /\ op \in {"approve", "reject"}
    /\ subject[s].status # "none"
    /\ Start(c, [Request(op, "guard", actor) EXCEPT !.subject = s])
    /\ UNCHANGED <<accounts, catalog>>

\* A rejection goes on to the cover the row names, if it names one.
Proceed(c, row) == Goto(c, IF call[c].op = "reject" /\ row.cover THEN "clean" ELSE "write")

\* Bug: whoever reviews something may decide about any subject.
ReviewReadAny(c) ==
    /\ call[c].at = "read"
    /\ call[c].op \in {"approve", "reject"}
    /\ Proceed(c, subject[call[c].subject])
    /\ UNCHANGED <<accounts, catalog>>

\* The department is the subject's, and the reviewer as the guard found him.
\* A subject that is gone is not asked about, and the update finds no row.
ReviewRead(c) ==
    LET row == subject[call[c].subject]
    IN  /\ call[c].at = "read"
        /\ call[c].op \in {"approve", "reject"}
        /\ IF row.status = "none" \/ CanModerate(c, row.dept)
           THEN Proceed(c, row) ELSE Finish(c)
        /\ UNCHANGED <<accounts, catalog>>

\* rejectSubject() deletes the cover first, and the row goes on naming it.
RejectCover(c) ==
    /\ At(c, "reject", "clean")
    /\ covers' = covers \ {call[c].subject}
    /\ Goto(c, "write")
    /\ UNCHANGED <<accounts, dept, logos, subject, used>>

ReviewWrite(c) ==
    LET s == call[c].subject
        new == IF call[c].op = "approve" THEN "active" ELSE "rejected"
    IN  /\ call[c].at = "write"
        /\ call[c].op \in {"approve", "reject"}
        /\ subject' = [subject EXCEPT ![s].status =
                          IF @ = "none" THEN @ ELSE new]
        /\ Finish(c)
        /\ UNCHANGED <<accounts, dept, logos, covers, used>>

-----------------------------------------------------------------------------

CatalogArrival(c) ==
    \E actor \in Users :
       \/ \E d \in Departments, key \in Keys \cup {None} :
             CreateDept(c, actor, d, key) \/ UpdateDept(c, actor, d, key)
       \/ \E d \in Departments : RemoveDept(c, actor, d)
       \/ \E s \in Subjects, d \in Departments, cover \in BOOLEAN :
             Submit(c, actor, s, d, cover)
       \/ \E s \in Subjects :
             \/ Withdraw(c, actor, s) \/ RemoveSubject(c, actor, s)
             \/ \E op \in Ops : Review(c, op, actor, s)

CatalogStep(c) ==
    \/ PutFile(c) \/ CreateDeptSave(c) \/ SaveFails(c)
    \/ UpdateDeptRead(c) \/ UpdateDeptSave(c)
    \/ RemoveDeptRead(c) \/ RemoveDeptCount(c) \/ RemoveDeptWrite(c)
    \/ CleanLogo(c)
    \/ SubmitPut(c) \/ SubmitSave(c) \/ SubmitFails(c)
    \/ WithdrawRead(c) \/ DeleteSubject(c)
    \/ ReviewRead(c) \/ RejectCover(c) \/ ReviewWrite(c)

-----------------------------------------------------------------------------
(* Properties.                                                              *)

\* Admins remove each other as they like, one request after the other, and bans
\* come and go: somebody who can still sign in is an admin (setUserRole() counts
\* the admins and does not ask who of them is banned, banUser() refuses admins).
\* Checked where role and ban requests run by themselves; they do not always.
SomeAdmin == \E u \in Admins : u \notin banned

\* Whatever overlaps, a banned account moderates no department, unless an admin
\* gave it one after the ban was in the table or the ban is still taking away
\* what there was (banUser(), assign()).
BannedModeratesNothing ==
    \A u \in banned :
       \/ \E c \in Calls : At(c, "ban", "strip") /\ call[c].user = u
       \/ \A pair \in moderators : pair[1] = u => pair \in knowingly

\* The logo a department shows is in storage, whatever uploads and saves fail
\* and however creations and removals overlap, as long as updates of departments
\* run by themselves and no two files share a name on one day (majors.service.ts).
LogosStored ==
    \A d \in There : dept[d].logo # None => dept[d].logo \in logos

\* A subject is only decided by the request of an admin, or of a moderator whose
\* departments included the subject's when the request came in (ReviewerGuard,
\* approveSubject(), rejectSubject()).
DecidedInScope ==
    [][\A s \in Subjects :
          LET new == subject'[s].status
          IN  new \in {"active", "rejected"} /\ new # subject[s].status
              => \E c \in Calls : /\ call[c].subject = s
                                  /\ call[c].op \in {"approve", "reject"}
                                  /\ CanModerate(c, subject[s].dept)]_<<call, catalog>>
=============================================================================
