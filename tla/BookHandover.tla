---------------------------- MODULE BookHandover ----------------------------
(***************************************************************************)
(* Lending a book: books.service.ts, its hourly sweep and the two admin    *)
(* routes on books, over PostgreSQL at READ COMMITTED.                     *)
(*                                                                         *)
(* A handler is a call that runs one step per statement it awaits, so the  *)
(* statements of different calls interleave.  A transaction's writes are   *)
(* seen by others when it commits, so the writes and the commit are one    *)
(* step; what a transaction does hold on to between its steps are row      *)
(* locks, which are read off the position of its call (HoldsBook,          *)
(* RequestFree).  A call that is refused before it has done anything is no *)
(* step at all, and one that is refused later just ends.                   *)
(***************************************************************************)
EXTENDS Naturals, FiniteSets

CONSTANTS
    Books,       \* ids of book rows
    Users,
    Requests,    \* ids of book_requests rows; an id is never used twice
    Calls,       \* slots for handlers in flight
    Contents,    \* what the editable fields of a listing say
    DonorOf,     \* DonorOf[b]: books.donor_id, which no handler changes
    Alone,       \* operations that never overlap another one in this instance
    None

Ops == {"request", "accept", "cancel", "complete", "decline", "update",
        "remove", "adminDelete", "sweep"}

ASSUME BooksAssumption ==
    /\ DonorOf \in [Books -> Users]
    /\ Alone \subseteq Ops
    /\ Contents # {}
    /\ None \notin Books \cup Requests \cup Users \cup Contents

VARIABLES
    book,      \* the books table
    req,       \* the book_requests table
    overdue,   \* accepted requests whose accepted_at is before the cutoff
    call,      \* the handlers in flight
    sweep      \* the hourly job

vars == <<book, req, overdue, call, sweep>>

BookStatuses == {"unlisted", "available", "reserved", "donated", "gone"}
Active == {"pending", "accepted"}
Finished == {"cancelled", "expired", "completed"}
RequestStatuses == {"unused", "declined", "gone"} \cup Active \cup Finished

BookRow == [status : BookStatuses, hidden : BOOLEAN, content : Contents]
RequestRow ==
    [status : RequestStatuses, book : Books \cup {None},
     by : Users \cup {None}, asked : Contents \cup {None},
     acceptedAt : BOOLEAN, completedAt : BOOLEAN]

Positions == {"idle", "active", "refused", "insert", "read", "lock",
              "commit", "write", "count", "delete", "cascade"}
CallRecord ==
    [op : Ops \cup {"none"}, at : Positions, book : Books \cup {None},
     req : Requests \cup {None}, by : Users \cup {None},
     seen : RequestStatuses]
SweepRecord == [at : {"idle", "next", "book"}, left : SUBSET Requests,
                req : Requests \cup {None}]

TypeOK ==
    /\ book \in [Books -> BookRow]
    /\ req \in [Requests -> RequestRow]
    /\ overdue \in SUBSET Requests
    /\ call \in [Calls -> CallRecord]
    /\ sweep \in SweepRecord

IdleCall == [op |-> "none", at |-> "idle", book |-> None, req |-> None,
             by |-> None, seen |-> "unused"]
IdleSweep == [at |-> "idle", left |-> {}, req |-> None]
NoRow(status) == [status |-> status, book |-> None, by |-> None,
                  asked |-> None, acceptedAt |-> FALSE, completedAt |-> FALSE]

Init ==
    /\ book \in [Books -> [status : {"unlisted"}, hidden : {FALSE},
                           content : Contents]]
    /\ req = [r \in Requests |-> NoRow("unused")]
    /\ overdue = {}
    /\ call = [c \in Calls |-> IdleCall]
    /\ sweep = IdleSweep

-----------------------------------------------------------------------------
(* Rows, locks and calls. *)

Exists(b) == book[b].status \notin {"unlisted", "gone"}
RequestsOn(b) == {r \in Requests : req[r].book = b}
ActiveOn(b) == {r \in RequestsOn(b) : req[r].status \in Active}
PendingOn(b) == {r \in RequestsOn(b) : req[r].status = "pending"}

\* SELECT ... FOR UPDATE on the book row, held to the end of the transaction;
\* a DELETE holds the same lock while its cascade runs.
HoldsBook(c, b) ==
    call[c].book = b /\ call[c].at \in {"read", "commit", "cascade"}
BookFree(b) == \A c \in Calls : ~HoldsBook(c, b)

\* The sweep's transaction updates the request before the book, so it is the
\* one transaction that sits on a request row while it waits.
RequestFree(r) == ~(sweep.at = "book" /\ sweep.req = r)

Busy(c) == call[c].at # "idle"

\* An operation of Alone starts when nothing else runs and keeps others out.
MayStart(op) ==
    /\ op \in Alone => (\A c \in Calls : ~Busy(c)) /\ sweep.at = "idle"
    /\ \A c \in Calls : call[c].op \notin Alone
    /\ sweep.at # "idle" => "sweep" \notin Alone

Start(c, op, at, b, r, u, seen) ==
    /\ ~Busy(c)
    /\ MayStart(op)
    /\ call' = [call EXCEPT ![c] = [op |-> op, at |-> at, book |-> b,
                                    req |-> r, by |-> u, seen |-> seen]]

Goto(c, at) == call' = [call EXCEPT ![c].at = at]
Finish(c) == call' = [call EXCEPT ![c] = IdleCall]
At(c, op, at) == call[c].op = op /\ call[c].at = at

Tables == <<book, req, overdue>>

-----------------------------------------------------------------------------
(* Listing a book, and an admin hiding one: single statements. *)

Donate(b) ==
    /\ book[b].status = "unlisted"
    /\ book' = [book EXCEPT ![b].status = "available"]
    /\ UNCHANGED <<req, overdue, call, sweep>>

SetBookHidden(b, hidden) ==
    /\ Exists(b)
    /\ BookFree(b)
    /\ book' = [book EXCEPT ![b].hidden = hidden]
    /\ UNCHANGED <<req, overdue, call, sweep>>

-----------------------------------------------------------------------------
(* request(): four awaits, no transaction.  The partial unique index is    *)
(* what the insert meets at the end.                                       *)

RequestRead(c, b, u) ==
    /\ book[b].status = "available"
    /\ ~book[b].hidden
    /\ DonorOf[b] # u
    /\ Start(c, "request", "active", b, None, u, "unused")
    /\ UNCHANGED <<Tables, sweep>>

RequestCheckActive(c) ==
    /\ At(c, "request", "active")
    /\ IF ActiveOn(call[c].book) # {} THEN Finish(c) ELSE Goto(c, "refused")
    /\ UNCHANGED <<Tables, sweep>>

Refused(b, u) ==
    \E r \in RequestsOn(b) : req[r].by = u /\ req[r].status = "declined"

\* Bug: the earlier refusal is not looked up.
ForgetRefusal(c) ==
    /\ At(c, "request", "refused")
    /\ Goto(c, "insert")
    /\ UNCHANGED <<Tables, sweep>>

RequestCheckRefused(c) ==
    /\ At(c, "request", "refused")
    /\ IF Refused(call[c].book, call[c].by)
       THEN Finish(c) ELSE Goto(c, "insert")
    /\ UNCHANGED <<Tables, sweep>>

\* The foreign key takes a share lock on the book row, which waits for FOR
\* UPDATE, and a duplicate in the index waits for the transaction changing it.
MayInsert(b) == BookFree(b) /\ \A r \in ActiveOn(b) : RequestFree(r)

\* Bug: the index was never created, and the earlier reads are the only check.
InsertUnchecked(c, r) ==
    /\ At(c, "request", "insert")
    /\ MayInsert(call[c].book) /\ Exists(call[c].book)
    /\ req[r].status = "unused"
    /\ req' = [req EXCEPT ![r] =
                 [status |-> "pending", book |-> call[c].book,
                  by |-> call[c].by, asked |-> book[call[c].book].content,
                  acceptedAt |-> FALSE, completedAt |-> FALSE]]
    /\ Finish(c)
    /\ UNCHANGED <<book, overdue, sweep>>

InsertRequest(c, r) ==
    /\ At(c, "request", "insert")
    /\ MayInsert(call[c].book)
    /\ Exists(call[c].book)
    /\ ActiveOn(call[c].book) = {}
    /\ req[r].status = "unused"
    /\ req' = [req EXCEPT ![r] =
                 [status |-> "pending", book |-> call[c].book,
                  by |-> call[c].by, asked |-> book[call[c].book].content,
                  acceptedAt |-> FALSE, completedAt |-> FALSE]]
    /\ Finish(c)
    /\ UNCHANGED <<book, overdue, sweep>>

\* The save is refused: the book is gone, another active request is in the
\* index, or (a bound of the model) every request id has been used.
InsertFails(c) ==
    /\ At(c, "request", "insert")
    /\ MayInsert(call[c].book)
    /\ \/ ~Exists(call[c].book)
       \/ ActiveOn(call[c].book) # {}
       \/ \A r \in Requests : req[r].status # "unused"
    /\ Finish(c)
    /\ UNCHANGED <<Tables, sweep>>

-----------------------------------------------------------------------------
(* accept(): lock the book, then read the request, then write everything.  *)

AcceptLock(c, b, r, u) ==
    /\ BookFree(b)
    /\ book[b].status = "available"
    /\ DonorOf[b] = u
    /\ Start(c, "accept", "read", b, r, u, "unused")
    /\ UNCHANGED <<Tables, sweep>>

\* Bug: any request of the book will do, not only a pending one.
AcceptReadAny(c) ==
    /\ At(c, "accept", "read")
    /\ IF call[c].req \in RequestsOn(call[c].book)
       THEN Goto(c, "commit") ELSE Finish(c)
    /\ UNCHANGED <<Tables, sweep>>

AcceptRead(c) ==
    /\ At(c, "accept", "read")
    /\ IF call[c].req \in PendingOn(call[c].book)
       THEN Goto(c, "commit") ELSE Finish(c)
    /\ UNCHANGED <<Tables, sweep>>

\* Bug: the flow before reservations, where accepting gave the book away.
AcceptDonates(c) ==
    /\ At(c, "accept", "commit")
    /\ RequestFree(call[c].req)
    /\ req' = [req EXCEPT ![call[c].req].status = "accepted",
                          ![call[c].req].acceptedAt = TRUE]
    /\ book' = [book EXCEPT ![call[c].book].status = "donated"]
    /\ Finish(c)
    /\ UNCHANGED <<overdue, sweep>>

\* The request is accepted whatever its status is by now, the book reserved,
\* and every other pending request on it declined.
AcceptCommit(c) ==
    LET b == call[c].book
        rivals == PendingOn(b) \ {call[c].req}
    IN  /\ At(c, "accept", "commit")
        /\ \A r \in rivals \cup {call[c].req} : RequestFree(r)
        /\ req' = [r \in Requests |->
                     IF r = call[c].req
                     THEN [req[r] EXCEPT !.status = "accepted",
                                         !.acceptedAt = TRUE]
                     ELSE IF r \in rivals
                     THEN [req[r] EXCEPT !.status = "declined"]
                     ELSE req[r]]
        /\ book' = [book EXCEPT ![b].status = "reserved"]
        /\ overdue' = overdue \ {call[c].req}
        /\ Finish(c)
        /\ UNCHANGED sweep

-----------------------------------------------------------------------------
(* cancel() and complete(): the request is read before the book is locked. *)

CancelRead(c, r, u) ==
    /\ req[r].status \notin {"unused", "gone"}
    /\ Start(c, "cancel", "lock", req[r].book, r, u, req[r].status)
    /\ UNCHANGED <<Tables, sweep>>

\* Bug: a refused cancel returns without ending its transaction.
CancelLeaksLock(c) ==
    /\ At(c, "cancel", "lock")
    /\ BookFree(call[c].book)
    /\ Goto(c, IF call[c].seen \in Active THEN "commit" ELSE "read")
    /\ UNCHANGED <<Tables, sweep>>

CancelLock(c) ==
    LET mine == call[c].by \in {req[call[c].req].by, DonorOf[call[c].book]}
    IN  /\ At(c, "cancel", "lock")
        /\ BookFree(call[c].book)
        /\ IF Exists(call[c].book) /\ mine /\ call[c].seen \in Active
           THEN Goto(c, "commit") ELSE Finish(c)
        /\ UNCHANGED <<Tables, sweep>>

\* Bug: the request's status is written to the book as well.
CancelMarksBook(c) ==
    /\ At(c, "cancel", "commit")
    /\ RequestFree(call[c].req)
    /\ req' = [req EXCEPT ![call[c].req].status = "cancelled"]
    /\ book' = [book EXCEPT ![call[c].book].status = "cancelled"]
    /\ Finish(c)
    /\ UNCHANGED <<overdue, sweep>>

CancelCommit(c) ==
    /\ At(c, "cancel", "commit")
    /\ RequestFree(call[c].req)
    /\ req' = [req EXCEPT ![call[c].req].status = "cancelled"]
    /\ book' = [book EXCEPT ![call[c].book].status = "available"]
    /\ Finish(c)
    /\ UNCHANGED <<overdue, sweep>>

\* Bug: a request that is still pending can be confirmed.
CompleteReadActive(c, r, u) ==
    /\ req[r].status \in Active
    /\ req[r].by = u
    /\ Start(c, "complete", "lock", req[r].book, r, u, "accepted")
    /\ UNCHANGED <<Tables, sweep>>

CompleteRead(c, r, u) ==
    /\ req[r].status = "accepted"
    /\ req[r].by = u
    /\ Start(c, "complete", "lock", req[r].book, r, u, "accepted")
    /\ UNCHANGED <<Tables, sweep>>

CompleteLock(c) ==
    /\ At(c, "complete", "lock")
    /\ BookFree(call[c].book)
    /\ IF Exists(call[c].book) THEN Goto(c, "commit") ELSE Finish(c)
    /\ UNCHANGED <<Tables, sweep>>

CompleteCommit(c) ==
    /\ At(c, "complete", "commit")
    /\ RequestFree(call[c].req)
    /\ req' = [req EXCEPT ![call[c].req].status = "completed",
                          ![call[c].req].completedAt = TRUE]
    /\ book' = [book EXCEPT ![call[c].book].status = "donated"]
    /\ Finish(c)
    /\ UNCHANGED <<overdue, sweep>>

-----------------------------------------------------------------------------
(* decline(): a read and a write, neither locked nor in a transaction.     *)

DeclineRead(c, r, u) ==
    /\ req[r].status = "pending"
    /\ DonorOf[req[r].book] = u
    /\ Start(c, "decline", "write", req[r].book, r, u, "pending")
    /\ UNCHANGED <<Tables, sweep>>

DeclineWrite(c) ==
    /\ At(c, "decline", "write")
    /\ RequestFree(call[c].req)
    /\ req' = IF req[call[c].req].status = "gone"
              THEN req
              ELSE [req EXCEPT ![call[c].req].status = "declined"]
    /\ Finish(c)
    /\ UNCHANGED <<book, overdue, sweep>>

-----------------------------------------------------------------------------
(* update() and remove() by the donor, deleteBook() by an admin.           *)

\* The donor's own book, not out of their hands yet: assertNotLocked.
OpenAndMine(b, u) == book[b].status = "available" /\ DonorOf[b] = u

UpdateRead(c, b, u) ==
    /\ OpenAndMine(b, u)
    /\ Start(c, "update", "count", b, None, u, "unused")
    /\ UNCHANGED <<Tables, sweep>>

RemoveRead(c, b, u) ==
    /\ OpenAndMine(b, u)
    /\ Start(c, "remove", "count", b, None, u, "unused")
    /\ UNCHANGED <<Tables, sweep>>

\* assertNoPendingRequest, which both handlers await before they write.
CountPending(c) ==
    /\ call[c].at = "count"
    /\ IF PendingOn(call[c].book) # {} THEN Finish(c)
       ELSE Goto(c, IF call[c].op = "update" THEN "write" ELSE "delete")
    /\ UNCHANGED <<Tables, sweep>>

UpdateWrite(c, content) ==
    /\ At(c, "update", "write")
    /\ BookFree(call[c].book)
    /\ book' = IF Exists(call[c].book)
               THEN [book EXCEPT ![call[c].book].content = content]
               ELSE book
    /\ Finish(c)
    /\ UNCHANGED <<req, overdue, sweep>>

AdminDeleteRead(c, b) ==
    /\ Exists(b)
    /\ Start(c, "adminDelete", "delete", b, None, None, "unused")
    /\ UNCHANGED <<Tables, sweep>>

\* DELETE locks the book row, then the cascade locks its request rows.
DeleteLock(c) ==
    /\ call[c].at = "delete"
    /\ BookFree(call[c].book)
    /\ IF Exists(call[c].book) THEN Goto(c, "cascade") ELSE Finish(c)
    /\ UNCHANGED <<Tables, sweep>>

DeleteCascade(c) ==
    LET b == call[c].book
    IN  /\ call[c].at = "cascade"
        /\ \A r \in RequestsOn(b) : RequestFree(r)
        /\ book' = [book EXCEPT ![b].status = "gone", ![b].hidden = FALSE]
        /\ req' = [r \in Requests |->
                     IF r \in RequestsOn(b) THEN NoRow("gone") ELSE req[r]]
        /\ overdue' = overdue \ RequestsOn(b)
        /\ Finish(c)
        /\ UNCHANGED sweep

-----------------------------------------------------------------------------
(* The hourly sweep.  RESERVATION_DAYS pass for an accepted request in one *)
(* step; the list is read outside any transaction and each entry is then   *)
(* released in a transaction of its own, without looking at it again.      *)

WindowElapses(r) ==
    /\ req[r].status = "accepted"
    /\ r \notin overdue
    /\ overdue' = overdue \cup {r}
    /\ UNCHANGED <<book, req, call, sweep>>

\* Bug: the sweep looks for requests that were never answered.
StalePending == {r \in overdue : req[r].status = "pending"}

Stale == {r \in overdue : req[r].status = "accepted"}

SweepList ==
    /\ sweep.at = "idle"
    /\ MayStart("sweep")
    /\ Stale # {}
    /\ sweep' = [at |-> "next", left |-> Stale, req |-> None]
    /\ UNCHANGED <<Tables, call>>

AfterItem(r) ==
    IF sweep.left = {r} THEN IdleSweep
    ELSE [at |-> "next", left |-> sweep.left \ {r}, req |-> None]

\* The UPDATE of the request; a row deleted meanwhile matches nothing.
SweepTake(r) ==
    /\ sweep.at = "next"
    /\ r \in sweep.left
    /\ sweep' = IF req[r].status = "gone" THEN AfterItem(r)
                ELSE [sweep EXCEPT !.at = "book", !.req = r]
    /\ UNCHANGED <<Tables, call>>

\* The UPDATE of the book, and the commit of both.
SweepRelease ==
    LET r == sweep.req
    IN  /\ sweep.at = "book"
        /\ BookFree(req[r].book)
        /\ req' = [req EXCEPT ![r].status = "expired"]
        /\ book' = [book EXCEPT ![req[r].book].status = "available"]
        /\ sweep' = AfterItem(r)
        /\ UNCHANGED <<overdue, call>>

-----------------------------------------------------------------------------
(* PostgreSQL breaks a cycle of waiting transactions by failing one of     *)
(* them: the call rolls back, or the sweep throws and gives up its list.   *)

Deadlocked(c) ==
    /\ sweep.at = "book"
    /\ HoldsBook(c, req[sweep.req].book)
    /\ \/ call[c].at = "cascade"
       \/ call[c].at = "commit" /\ call[c].req = sweep.req

CallIsVictim(c) ==
    /\ Deadlocked(c)
    /\ Finish(c)
    /\ UNCHANGED <<Tables, sweep>>

SweepIsVictim ==
    /\ \E c \in Calls : Deadlocked(c)
    /\ sweep' = IdleSweep
    /\ UNCHANGED <<Tables, call>>

\* The process dies: open transactions roll back, handlers are forgotten.
Restart ==
    /\ sweep.at # "idle" \/ \E c \in Calls : Busy(c)
    /\ call' = [c \in Calls |-> IdleCall]
    /\ sweep' = IdleSweep
    /\ UNCHANGED Tables

-----------------------------------------------------------------------------

CallStarts(c) ==
    \/ \E b \in Books, u \in Users :
          \/ RequestRead(c, b, u)
          \/ UpdateRead(c, b, u)
          \/ RemoveRead(c, b, u)
          \/ \E r \in RequestsOn(b) : AcceptLock(c, b, r, u)
    \/ \E r \in Requests, u \in Users :
          \/ CancelRead(c, r, u)
          \/ CompleteRead(c, r, u)
          \/ DeclineRead(c, r, u)
    \/ \E b \in Books : AdminDeleteRead(c, b)

CallSteps(c) ==
    \/ RequestCheckActive(c)
    \/ RequestCheckRefused(c)
    \/ \E r \in Requests : InsertRequest(c, r)
    \/ InsertFails(c)
    \/ AcceptRead(c)
    \/ AcceptCommit(c)
    \/ CancelLock(c)
    \/ CancelCommit(c)
    \/ CompleteLock(c)
    \/ CompleteCommit(c)
    \/ DeclineWrite(c)
    \/ CountPending(c)
    \/ \E content \in Contents : UpdateWrite(c, content)
    \/ DeleteLock(c)
    \/ DeleteCascade(c)

SweepSteps ==
    \/ \E r \in Requests : SweepTake(r)
    \/ SweepRelease

Deadlocks == SweepIsVictim \/ \E c \in Calls : CallIsVictim(c)

Running ==
    \/ \E b \in Books : Donate(b)
    \/ \E b \in Books, hidden \in BOOLEAN : SetBookHidden(b, hidden)
    \/ \E c \in Calls : CallStarts(c) \/ CallSteps(c)
    \/ \E r \in Requests : WindowElapses(r)
    \/ SweepList
    \/ SweepSteps
    \/ Deadlocks

Next == Running \/ Restart

Spec == Init /\ [][Next]_vars

(***************************************************************************)
(* A call in flight goes on until it ends (row locks are granted in the    *)
(* order they were asked for, hence SF), days go by, the cron job fires    *)
(* every hour, and PostgreSQL resolves deadlocks.  Nobody has to start a   *)
(* call.  The process stays up: a server that restarts again and again     *)
(* need never get as far as its sweep.                                     *)
(***************************************************************************)
Fairness ==
    /\ \A c \in Calls : SF_vars(CallSteps(c))
    /\ \A r \in Requests : WF_vars(WindowElapses(r))
    /\ SF_vars(SweepList)
    /\ WF_vars(\E r \in Requests : SweepTake(r))
    /\ SF_vars(SweepRelease)
    /\ WF_vars(Deadlocks)

FairSpec == Init /\ [][Running]_vars /\ Fairness

-----------------------------------------------------------------------------
(* Properties that hold however the handlers overlap.                      *)

\* A book never has two requests a donor could still act on, so it is never
\* reserved for two students: the insert meets the unique index, and accept,
\* which the index would also stop, never comes near it.
OneActiveRequest ==
    \A r, s \in Requests :
        /\ req[r].status \in Active /\ req[s].status \in Active
        /\ req[r].book = req[s].book
        => r = s

\* Once called off, expired or confirmed, a request is never pending or
\* accepted again: accept reads it under the book's lock.
FinishedNeverReactivated ==
    [][\A r \in Requests :
          req[r].status \in Finished => req'[r].status \notin Active]_vars

\* "This - not acceptance - is what marks a book donated": a donated book has
\* a request whose receiver confirmed it.
DonatedWasReceived ==
    \A b \in Books : book[b].status = "donated" =>
        \E r \in RequestsOn(b) : req[r].acceptedAt /\ req[r].completedAt

\* A reserved book has a request that was accepted and neither cancelled,
\* expired nor completed since; only a late decline can have been written
\* over it.
ReservedWasPromised ==
    \A b \in Books : book[b].status = "reserved" =>
        \E r \in RequestsOn(b) :
            req[r].acceptedAt /\ req[r].status \in {"accepted", "declined"}

\* Every handler that starts ends, with an answer or an error: no wait for a
\* row lock, and no cycle of them with the sweep, lasts for ever.
EveryCallEnds == \A c \in Calls : Busy(c) ~> ~Busy(c)

\* "A book must not sit reserved forever because the receiver went quiet."
ReservedComesBack ==
    \A b \in Books : book[b].status = "reserved" ~> book[b].status # "reserved"

-----------------------------------------------------------------------------
(* Properties the handlers promise and that some overlaps break.           *)

\* The three things accept keeps together: a book is reserved exactly while
\* one of its requests is accepted.
ReservedMatchesAccepted ==
    \A b \in Books : book[b].status = "reserved"
                       <=> \E r \in RequestsOn(b) : req[r].status = "accepted"

\* "Only a live reservation can be called off. Declined, expired and completed
\* ones are already finished": they keep their status while the row exists.
FinishedStaysFinished ==
    [][\A r \in Requests :
          req[r].status \in Finished \cup {"declined"} =>
              req'[r].status \in {req[r].status, "gone"}]_vars

\* "A refusal is final for this pairing": no request is filed by a student
\* whom the donor of that book has declined.
RefusalIsFinal ==
    [][\A r \in Requests :
          (req[r].status = "unused" /\ req'[r].status = "pending") =>
              ~Refused(req'[r].book, req'[r].by)]_vars

\* "A book with someone waiting on an answer is frozen": what the student
\* asked for is what the listing still says.
FrozenWhileAsked ==
    \A r \in Requests : req[r].status \in Active =>
        req[r].asked = book[req[r].book].content

\* Only an admin's delete takes a book away from a request that is waiting or
\* accepted; the donor's own delete never drops one.
NoRequestDropped ==
    [][\A r \in Requests :
          (req[r].status \in Active /\ req'[r].status = "gone") =>
              \E c \in Calls : At(c, "adminDelete", "cascade")]_vars

\* What a donor and a student are told at the desk holds together: book and
\* request agree, the listing stays what was asked for, a refusal is final, what
\* is finished stays so, and nobody's request disappears under them.
PromisesKept ==
    /\ []ReservedMatchesAccepted /\ []FrozenWhileAsked
    /\ FinishedStaysFinished /\ RefusalIsFinal /\ NoRequestDropped

-----------------------------------------------------------------------------
(* The book's place, as the abstract desk sees it. *)

PlaceOf(b) ==
    CASE book[b].status = "unlisted"  -> "unlisted"
      [] book[b].status = "available" -> "shelf"
      [] book[b].status = "reserved"  -> "held"
      [] book[b].status = "donated"   -> "given"
      [] book[b].status = "gone"      -> "withdrawn"

HolderOf(b) ==
    LET concerned == {r \in RequestsOn(b) :
                        req[r].status \in {"accepted", "completed"}}
    IN  IF book[b].status \in {"reserved", "donated"} /\ concerned # {}
        THEN CHOOSE r \in concerned : TRUE ELSE None

Ledger == INSTANCE BookLedger WITH
    place  <- [b \in Books |-> PlaceOf(b)],
    holder <- [b \in Books |-> HolderOf(b)]

\* Handlers implement the lending desk where those that read a request before
\* they lock its book, or lock nothing, do not overlap others: every step is one
\* of its moves or changes nothing there.
ImplementsLedger == Ledger!LedgerSpec
=============================================================================
