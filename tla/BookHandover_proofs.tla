------------------------ MODULE BookHandover_proofs ------------------------
(***************************************************************************)
(* Proofs about BookHandover for every set of books, students, requests    *)
(* and handlers in flight.  The first theorems hold whatever may overlap;  *)
(* the promises and the ledger, further down, where cancel, complete and   *)
(* decline run by themselves.                                              *)
(***************************************************************************)
EXTENDS BookHandover, TLAPS

USE BooksAssumption

-----------------------------------------------------------------------------
(* The inductive invariant.  OneActiveRequest alone is not inductive: when  *)
(* accept commits it writes "accepted" without looking again, so what must  *)
(* be known is that nobody else became active on the book since it looked.  *)

\* Rows belong to books that exist, and are stamped as they are answered.
RowOK(r) ==
    /\ req[r].status \in {"unused", "gone"} =>
          req[r].book = None /\ ~req[r].acceptedAt
    /\ req[r].status \notin {"unused", "gone"} =>
          req[r].book \in Books /\ Exists(req[r].book)
    /\ req[r].status = "pending" => ~req[r].acceptedAt
    /\ req[r].status = "accepted" => req[r].acceptedAt

RowInv == \A r \in Requests : RowOK(r)

\* FOR UPDATE excludes: one transaction at a time holds a book.
LockInv ==
    \A c, d \in Calls, b \in Books : HoldsBook(c, b) /\ HoldsBook(d, b) => c = d

\* An accept about to commit has the only request that can be active.
AcceptReady(c) ==
    /\ req[call[c].req].status \in {"pending", "declined"}
    /\ ~req[call[c].req].acceptedAt
    /\ \A r \in ActiveOn(call[c].book) : r = call[c].req

CallOK(c) ==
    /\ Busy(c) => call[c].book \in Books
    /\ call[c].at \in {"read", "lock", "commit"} \/ At(c, "decline", "write") =>
          call[c].req \in Requests /\ req[call[c].req].status # "unused"
    /\ call[c].at = "read" => call[c].op = "accept"
    /\ call[c].at = "commit" =>
          /\ call[c].op \in {"accept", "cancel", "complete"}
          /\ req[call[c].req].book = call[c].book
    /\ call[c].at = "lock" =>
          /\ call[c].op \in {"cancel", "complete"}
          /\ \/ req[call[c].req].book = call[c].book
             \/ book[call[c].book].status = "gone"
    /\ call[c].op = "complete" =>
          /\ call[c].req \in Requests
          /\ \/ req[call[c].req].acceptedAt
             \/ req[call[c].req].status = "gone"
    /\ At(c, "accept", "commit") => AcceptReady(c)

CallInv == \A c \in Calls : CallOK(c)

\* What the sweep lists was accepted, and what it holds is not deleted.
SweepInv ==
    /\ \A r \in sweep.left : req[r].acceptedAt \/ req[r].status = "gone"
    /\ sweep.at = "book" =>
          sweep.req \in sweep.left /\ req[sweep.req].status # "gone"

IInv ==
    /\ TypeOK
    /\ RowInv
    /\ LockInv
    /\ CallInv
    /\ SweepInv
    /\ OneActiveRequest
    /\ DonatedWasReceived
    /\ ReservedWasPromised

\* The rows a step writes and the calls it moves keep their types.
LEMMA InitType == Init => TypeOK
<1> SUFFICES ASSUME Init PROVE TypeOK
  OBVIOUS
<1>1. book \in [Books -> BookRow]
  BY DEF Init, BookRow, BookStatuses
<1>2. NoRow("unused") \in RequestRow
  BY DEF NoRow, RequestRow, RequestStatuses
<1>3. req \in [Requests -> RequestRow]
  BY <1>2 DEF Init
<1>4. IdleCall \in CallRecord
  BY DEF IdleCall, CallRecord, Positions, RequestStatuses
<1>5. sweep \in SweepRecord
  BY DEF Init, SweepRecord, IdleSweep
<1>6. QED
  BY <1>1, <1>3, <1>4, <1>5 DEF Init, TypeOK

LEMMA StartType ==
  ASSUME TypeOK, NEW c \in Calls, NEW op \in Ops, NEW at \in Positions,
         NEW b \in Books \cup {None}, NEW r \in Requests \cup {None},
         NEW u \in Users \cup {None}, NEW seen \in RequestStatuses,
         Start(c, op, at, b, r, u, seen)
  PROVE  call' \in [Calls -> CallRecord]
  BY DEF TypeOK, Start, CallRecord

LEMMA GotoType ==
  ASSUME TypeOK, NEW c \in Calls, NEW at \in Positions, Goto(c, at)
  PROVE  call' \in [Calls -> CallRecord]
  BY DEF TypeOK, Goto, CallRecord

LEMMA FinishType ==
  ASSUME TypeOK, NEW c \in Calls, Finish(c)
  PROVE  call' \in [Calls -> CallRecord]
  BY DEF TypeOK, Finish, IdleCall, CallRecord, Positions, RequestStatuses

LEMMA Statuses ==
  /\ "unused" \in RequestStatuses /\ "pending" \in RequestStatuses
  /\ "accepted" \in RequestStatuses /\ "declined" \in RequestStatuses
  /\ "cancelled" \in RequestStatuses /\ "expired" \in RequestStatuses
  /\ "completed" \in RequestStatuses /\ "gone" \in RequestStatuses
  /\ "available" \in BookStatuses /\ "reserved" \in BookStatuses
  /\ "donated" \in BookStatuses /\ "gone" \in BookStatuses
  BY DEF RequestStatuses, BookStatuses, Active, Finished

\* A value of the right type in one row leaves the table well typed.
LEMMA RequestStatusType ==
  ASSUME TypeOK, NEW r, NEW status \in RequestStatuses
  PROVE  [req EXCEPT ![r].status = status] \in [Requests -> RequestRow]
<1>1. ASSUME NEW q \in Requests
      PROVE  [req[q] EXCEPT !.status = status] \in RequestRow
  BY DEF TypeOK, RequestRow
<1>2. QED
  BY <1>1 DEF TypeOK

LEMMA BookStatusType ==
  ASSUME TypeOK, NEW b, NEW status \in BookStatuses
  PROVE  [book EXCEPT ![b].status = status] \in [Books -> BookRow]
<1>1. ASSUME NEW x \in Books PROVE [book[x] EXCEPT !.status = status] \in BookRow
  BY DEF TypeOK, BookRow
<1>2. QED
  BY <1>1 DEF TypeOK

LEMMA BookRowType ==
  ASSUME NEW row \in BookRow, NEW status \in BookStatuses, NEW hidden \in BOOLEAN
  PROVE  [row EXCEPT !.status = status, !.hidden = hidden] \in BookRow
  BY DEF BookRow

LEMMA RequestRowType ==
  ASSUME NEW row \in RequestRow, NEW status \in RequestStatuses,
         NEW stamp \in BOOLEAN
  PROVE  /\ [row EXCEPT !.status = status, !.completedAt = stamp] \in RequestRow
         /\ [row EXCEPT !.status = status, !.acceptedAt = stamp] \in RequestRow
         /\ [row EXCEPT !.status = status] \in RequestRow
  BY DEF RequestRow

LEMMA NoRowType ==
  ASSUME NEW status \in RequestStatuses PROVE NoRow(status) \in RequestRow
  BY DEF NoRow, RequestRow

LEMMA AfterItemType == ASSUME TypeOK, NEW r PROVE AfterItem(r) \in SweepRecord
  BY DEF TypeOK, AfterItem, IdleSweep, SweepRecord

LEMMA NextType ==
  ASSUME TypeOK, CallInv, [Next]_vars PROVE TypeOK'
<1> USE Statuses DEF Tables
<1>1. ASSUME NEW b \in Books, Donate(b) PROVE TypeOK'
  BY <1>1, BookStatusType DEF Donate, TypeOK
<1>2. ASSUME NEW b \in Books, NEW hidden \in BOOLEAN, SetBookHidden(b, hidden)
      PROVE  TypeOK'
  BY <1>2 DEF SetBookHidden, TypeOK, BookRow
<1>3. ASSUME NEW c \in Calls, CallStarts(c) PROVE TypeOK'
  <2>1. \A r \in Requests : req[r].book \in Books \cup {None}
                            /\ req[r].status \in RequestStatuses
    BY DEF TypeOK, RequestRow
  <2>2. UNCHANGED <<book, req, overdue, sweep>>
    BY <1>3 DEF CallStarts, RequestRead, UpdateRead, RemoveRead, AcceptLock,
                CancelRead, CompleteRead, DeclineRead, AdminDeleteRead
  <2>3. call' \in [Calls -> CallRecord]
    <3>1. ASSUME NEW b \in Books, NEW u \in Users,
                 RequestRead(c, b, u) \/ UpdateRead(c, b, u) \/ RemoveRead(c, b, u)
          PROVE  call' \in [Calls -> CallRecord]
      BY <3>1, StartType DEF RequestRead, UpdateRead, RemoveRead, Ops, Positions
    <3>2. ASSUME NEW b \in Books, NEW u \in Users, NEW r \in Requests,
                 AcceptLock(c, b, r, u)
          PROVE  call' \in [Calls -> CallRecord]
      BY <3>2, StartType DEF AcceptLock, Ops, Positions
    <3>3. ASSUME NEW r \in Requests, NEW u \in Users,
                 CancelRead(c, r, u) \/ CompleteRead(c, r, u)
                   \/ DeclineRead(c, r, u)
          PROVE  call' \in [Calls -> CallRecord]
      BY <3>3, <2>1, StartType
         DEF CancelRead, CompleteRead, DeclineRead, Ops, Positions
    <3>4. ASSUME NEW b \in Books, AdminDeleteRead(c, b)
          PROVE  call' \in [Calls -> CallRecord]
      BY <3>4, StartType DEF AdminDeleteRead, Ops, Positions
    <3>5. QED
      BY <1>3, <3>1, <3>2, <3>3, <3>4 DEF CallStarts, RequestsOn
  <2>4. QED
    BY <2>2, <2>3 DEF TypeOK
<1>4. ASSUME NEW c \in Calls, CallSteps(c) PROVE TypeOK'
  <2>1. call' \in [Calls -> CallRecord]
    BY <1>4, GotoType, FinishType
       DEF CallSteps, RequestCheckActive, RequestCheckRefused, InsertRequest,
           InsertFails, AcceptRead, AcceptCommit, CancelLock, CancelCommit,
           CompleteLock, CompleteCommit, DeclineWrite, CountPending,
           UpdateWrite, DeleteLock, DeleteCascade, Positions
  <2>2. sweep' = sweep
    BY <1>4
       DEF CallSteps, RequestCheckActive, RequestCheckRefused, InsertRequest,
           InsertFails, AcceptRead, AcceptCommit, CancelLock, CancelCommit,
           CompleteLock, CompleteCommit, DeclineWrite, CountPending,
           UpdateWrite, DeleteLock, DeleteCascade
  <2>3. overdue' \subseteq Requests
    BY <1>4
       DEF CallSteps, RequestCheckActive, RequestCheckRefused, InsertRequest,
           InsertFails, AcceptRead, AcceptCommit, CancelLock, CancelCommit,
           CompleteLock, CompleteCommit, DeclineWrite, CountPending,
           UpdateWrite, DeleteLock, DeleteCascade, TypeOK
  <2>4. book' \in [Books -> BookRow]
    <3>1. ASSUME NEW content \in Contents, UpdateWrite(c, content)
          PROVE  book' \in [Books -> BookRow]
      <4>1. ASSUME NEW x \in Books
            PROVE  [book[x] EXCEPT !.content = content] \in BookRow
        BY DEF TypeOK, BookRow
      <4>2. QED
        BY <3>1, <4>1 DEF UpdateWrite, TypeOK
    <3>2. ASSUME DeleteCascade(c) PROVE book' \in [Books -> BookRow]
      <4>1. call[c].book \in Books
        BY <3>2 DEF DeleteCascade, CallInv, CallOK, Busy
      <4>2. [book[call[c].book] EXCEPT !.status = "gone", !.hidden = FALSE]
              \in BookRow
        BY <4>1, BookRowType DEF TypeOK
      <4>3. book' = [book EXCEPT ![call[c].book] =
                       [book[call[c].book] EXCEPT !.status = "gone",
                                                  !.hidden = FALSE]]
        BY <3>2, <4>1 DEF DeleteCascade, TypeOK
      <4>4. QED
        BY <4>1, <4>2, <4>3 DEF TypeOK
    <3>3. ASSUME AcceptCommit(c) \/ CancelCommit(c) \/ CompleteCommit(c)
          PROVE  book' \in [Books -> BookRow]
      <4>1. PICK status \in BookStatuses :
               book' = [book EXCEPT ![call[c].book].status = status]
        BY <3>3 DEF AcceptCommit, CancelCommit, CompleteCommit
      <4>2. QED
        BY <4>1, BookStatusType
    <3>4. ASSUME \/ RequestCheckActive(c) \/ RequestCheckRefused(c)
                 \/ InsertFails(c) \/ AcceptRead(c) \/ CancelLock(c)
                 \/ CompleteLock(c) \/ DeclineWrite(c) \/ CountPending(c)
                 \/ DeleteLock(c) \/ \E r \in Requests : InsertRequest(c, r)
          PROVE  book' = book
      BY <3>4
         DEF RequestCheckActive, RequestCheckRefused, InsertRequest,
             InsertFails, AcceptRead, CancelLock, CompleteLock, DeclineWrite,
             CountPending, DeleteLock
    <3>5. QED
      BY <1>4, <3>1, <3>2, <3>3, <3>4 DEF CallSteps, TypeOK
  <2>5. req' \in [Requests -> RequestRow]
    <3>1. ASSUME NEW r \in Requests, InsertRequest(c, r)
          PROVE  req' \in [Requests -> RequestRow]
      <4>1. call[c].book \in Books /\ call[c].by \in Users \cup {None}
        BY <3>1 DEF InsertRequest, At, CallInv, CallOK, Busy, TypeOK, CallRecord
      <4>2. book[call[c].book].content \in Contents
        BY <4>1 DEF TypeOK, BookRow
      <4>3. [status |-> "pending", book |-> call[c].book, by |-> call[c].by,
             asked |-> book[call[c].book].content,
             acceptedAt |-> FALSE, completedAt |-> FALSE] \in RequestRow
        BY <4>1, <4>2, Statuses DEF RequestRow
      <4>4. QED
        BY <3>1, <4>3 DEF InsertRequest, TypeOK
    <3>2. ASSUME AcceptCommit(c) PROVE req' \in [Requests -> RequestRow]
      <4>1. ASSUME NEW r \in Requests PROVE req'[r] \in RequestRow
        <5>1. req[r] \in RequestRow
          BY DEF TypeOK
        <5>2. QED
          BY <3>2, <5>1, RequestRowType, Statuses DEF AcceptCommit
      <4>2. QED
        BY <3>2, <4>1 DEF AcceptCommit
    <3>3. ASSUME CancelCommit(c) \/ DeclineWrite(c)
          PROVE  req' \in [Requests -> RequestRow]
      BY <3>3, RequestStatusType DEF CancelCommit, DeclineWrite, TypeOK
    <3>4. ASSUME CompleteCommit(c) PROVE req' \in [Requests -> RequestRow]
      <4>1. call[c].req \in Requests
        BY <3>4 DEF CompleteCommit, At, CallInv, CallOK
      <4>2. req' = [req EXCEPT ![call[c].req] =
                      [req[call[c].req] EXCEPT !.status = "completed",
                                               !.completedAt = TRUE]]
        BY <3>4, <4>1 DEF CompleteCommit, TypeOK
      <4>3. QED
        BY <4>1, <4>2, RequestRowType DEF TypeOK
    <3>5. ASSUME DeleteCascade(c) PROVE req' \in [Requests -> RequestRow]
      BY <3>5, NoRowType DEF DeleteCascade, TypeOK
    <3>6. QED
      BY <1>4, <3>1, <3>2, <3>3, <3>4, <3>5
         DEF CallSteps, RequestCheckActive, RequestCheckRefused, InsertFails,
             AcceptRead, CancelLock, CompleteLock, CountPending, UpdateWrite,
             DeleteLock, TypeOK
  <2>6. QED
    BY <2>1, <2>2, <2>3, <2>4, <2>5 DEF TypeOK
<1>5. ASSUME NEW r \in Requests, WindowElapses(r) PROVE TypeOK'
  BY <1>5 DEF WindowElapses, TypeOK
<1>6. ASSUME SweepList PROVE TypeOK'
  BY <1>6 DEF SweepList, Stale, TypeOK, SweepRecord
<1>7. ASSUME NEW r \in Requests, SweepTake(r) PROVE TypeOK'
  BY <1>7, AfterItemType DEF SweepTake, TypeOK, SweepRecord
<1>8. ASSUME SweepRelease PROVE TypeOK'
  BY <1>8, AfterItemType, RequestStatusType, BookStatusType
     DEF SweepRelease, TypeOK
<1>9. ASSUME Deadlocks PROVE TypeOK'
  BY <1>9, FinishType
     DEF Deadlocks, CallIsVictim, SweepIsVictim, TypeOK, IdleSweep, SweepRecord
<1>10. ASSUME Restart PROVE TypeOK'
  BY <1>10
     DEF Restart, TypeOK, IdleSweep, SweepRecord, IdleCall, CallRecord, Positions
<1>11. CASE UNCHANGED vars
  BY <1>11 DEF vars, TypeOK
<1>12. QED
  BY <1>1, <1>2, <1>3, <1>4, <1>5, <1>6, <1>7, <1>8, <1>9, <1>10, <1>11
     DEF Next, Running, SweepSteps
-----------------------------------------------------------------------------
(* Steps that only move a call: the tables and the sweep keep what is known *)
(* of them, and the locks and the calls are what has to be looked at.      *)

LEMMA TablesKept ==
  ASSUME IInv, TypeOK', LockInv', CallInv', UNCHANGED <<book, req, overdue, sweep>>
  PROVE  IInv'
  BY DEF IInv, RowInv, RowOK, SweepInv, OneActiveRequest, DonatedWasReceived,
         ReservedWasPromised, Exists, RequestsOn

\* A call that ends holds nothing and has nothing left to be known.
LEMMA FinishKeepsLocks ==
  ASSUME TypeOK, LockInv, NEW c \in Calls, Finish(c)
  PROVE  LockInv'
  BY DEF TypeOK, LockInv, Finish, IdleCall, HoldsBook

LEMMA FinishOnly ==
  ASSUME IInv, TypeOK', NEW c \in Calls, Finish(c),
         UNCHANGED <<book, req, overdue, sweep>>
  PROVE  IInv'
<1>1. LockInv'
  BY FinishKeepsLocks DEF IInv
<1>2. CallInv'
  BY DEF IInv, TypeOK, CallInv, CallOK, Finish, IdleCall, Busy, At, AcceptReady,
         ActiveOn, RequestsOn
<1>3. QED
  BY <1>1, <1>2, TablesKept

LEMMA StartsKeep ==
  ASSUME IInv, TypeOK', NEW c \in Calls, CallStarts(c)
  PROVE  IInv'
<1> USE DEF Tables
<1>1. UNCHANGED <<book, req, overdue, sweep>>
  BY DEF CallStarts, RequestRead, UpdateRead, RemoveRead, AcceptLock,
         CancelRead, CompleteRead, DeclineRead, AdminDeleteRead
<1>2. LockInv'
  BY DEF CallStarts, RequestRead, UpdateRead, RemoveRead, AcceptLock,
         CancelRead, CompleteRead, DeclineRead, AdminDeleteRead, Start,
         IInv, TypeOK, LockInv, HoldsBook, BookFree
<1>3. CallInv'
  <2>1. \A d \in Calls : d # c => call'[d] = call[d]
    BY DEF CallStarts, RequestRead, UpdateRead, RemoveRead, AcceptLock,
           CancelRead, CompleteRead, DeclineRead, AdminDeleteRead, Start,
           IInv, TypeOK
  <2>2. ASSUME NEW d \in Calls, d # c PROVE CallOK(d)'
    BY <1>1, <2>1, <2>2 DEF IInv, CallInv, CallOK, Busy, At, HoldsBook, Exists,
           AcceptReady, ActiveOn, RequestsOn
  <2>3. CallOK(c)'
    BY <1>1 DEF CallStarts, RequestRead, UpdateRead, RemoveRead, AcceptLock,
           CancelRead, CompleteRead, DeclineRead, AdminDeleteRead, Start,
           IInv, TypeOK, CallOK, Busy, At, RequestsOn, RowInv, RowOK
  <2>4. QED
    BY <2>2, <2>3 DEF CallInv
<1>4. QED
  BY <1>1, <1>2, <1>3, TablesKept

\* Going on to a statement that needs no lock.
LEMMA GotoOnly ==
  ASSUME IInv, TypeOK', NEW c \in Calls, Busy(c),
         NEW at \in {"refused", "insert", "write", "delete"}, Goto(c, at),
         at = "write" => call[c].op # "decline",
         UNCHANGED <<book, req, overdue, sweep>>
  PROVE  IInv'
<1>1. LockInv'
  BY DEF Goto, IInv, TypeOK, LockInv, HoldsBook
<1>2. CallInv'
  <2> SUFFICES ASSUME NEW d \in Calls PROVE CallOK(d)'
    BY DEF CallInv
  <2>1. CallOK(d)
    BY DEF IInv, CallInv
  <2>2. CASE d # c
    <3>1. call'[d] = call[d]
      BY <2>2 DEF Goto, IInv, TypeOK
    <3>2. QED
      BY <2>1, <3>1 DEF CallOK, Busy, At, AcceptReady, ActiveOn, RequestsOn
  <2>3. CASE d = c
    <3>1. call'[d] = [call[d] EXCEPT !.at = at]
      BY <2>3 DEF Goto, IInv, TypeOK
    <3>2. /\ call'[d].at = at /\ call'[d].op = call[d].op
          /\ call'[d].book = call[d].book /\ call'[d].req = call[d].req
      BY <3>1 DEF IInv, TypeOK, CallRecord
    <3>3. QED
      BY <2>1, <2>3, <3>2 DEF CallOK, Busy, At
  <2>4. QED
    BY <2>2, <2>3
<1>3. QED
  BY <1>1, <1>2, TablesKept

LEMMA MovesKeep ==
  ASSUME IInv, TypeOK', NEW c \in Calls,
         \/ RequestCheckActive(c) \/ RequestCheckRefused(c) \/ InsertFails(c)
         \/ AcceptRead(c) \/ CancelLock(c) \/ CompleteLock(c)
         \/ CountPending(c) \/ DeleteLock(c)
  PROVE  IInv'
<1> USE DEF Tables
<1>1. UNCHANGED <<book, req, overdue, sweep>>
  BY DEF RequestCheckActive, RequestCheckRefused, InsertFails, AcceptRead,
         CancelLock, CompleteLock, CountPending, DeleteLock
<1>2. CASE Finish(c)
  BY <1>1, <1>2, FinishOnly
<1>3. ASSUME RequestCheckActive(c) \/ RequestCheckRefused(c) \/ CountPending(c)
      PROVE  IInv'
  <2>1. Busy(c)
    BY <1>3 DEF RequestCheckActive, RequestCheckRefused, CountPending, At, Busy
  <2>2. QED
    BY <1>1, <1>2, <1>3, <2>1, GotoOnly
       DEF RequestCheckActive, RequestCheckRefused, CountPending
<1>4. ASSUME AcceptRead(c), Goto(c, "commit") PROVE IInv'
  <2>1. LockInv'
    BY <1>4 DEF AcceptRead, At, Goto, IInv, TypeOK, LockInv, HoldsBook
  <2>2. AcceptReady(c) /\ req[call[c].req].book = call[c].book
    <3>1. call[c].req \in PendingOn(call[c].book)
      BY <1>4 DEF AcceptRead, Goto, Finish, At, IdleCall, IInv, TypeOK
    <3>2. QED
      BY <3>1 DEF IInv, RowInv, RowOK, OneActiveRequest, AcceptReady, ActiveOn,
             PendingOn, RequestsOn, Active
  <2>3. CallInv'
    BY <1>1, <1>4, <2>2 DEF AcceptRead, Goto, At, Busy, IInv, TypeOK, CallInv, CallOK,
           AcceptReady, ActiveOn, RequestsOn
  <2>4. QED
    BY <1>1, <2>1, <2>3, TablesKept
<1>5. ASSUME CancelLock(c) \/ CompleteLock(c), Goto(c, "commit") PROVE IInv'
  <2>1. BookFree(call[c].book) /\ Exists(call[c].book) /\ call[c].at = "lock"
    BY <1>5 DEF CancelLock, CompleteLock, Goto, Finish, At, IdleCall, IInv, TypeOK
  <2>2. LockInv'
    BY <1>5, <2>1 DEF Goto, IInv, TypeOK, LockInv, HoldsBook, BookFree
  <2>3. CallInv'
    BY <1>1, <1>5, <2>1 DEF Goto, At, Busy, IInv, TypeOK, CallInv, CallOK, AcceptReady,
           ActiveOn, RequestsOn, Exists
  <2>4. QED
    BY <1>1, <2>2, <2>3, TablesKept
<1>6. ASSUME DeleteLock(c), Goto(c, "cascade") PROVE IInv'
  <2>1. LockInv'
    BY <1>6 DEF DeleteLock, Goto, IInv, TypeOK, LockInv, HoldsBook, BookFree
  <2>2. CallInv'
    BY <1>1, <1>6 DEF DeleteLock, Goto, At, Busy, IInv, TypeOK, CallInv, CallOK,
           AcceptReady, ActiveOn, RequestsOn
  <2>3. QED
    BY <1>1, <2>1, <2>2, TablesKept
<1>7. QED
  BY <1>2, <1>3, <1>4, <1>5, <1>6
     DEF InsertFails, AcceptRead, CancelLock, CompleteLock, DeleteLock

-----------------------------------------------------------------------------
(* Steps that write the tables. *)

\* Writes that move no request to another book and bring none back leave the
\* other calls what they know; an accept about to commit has to be looked at.
LEMMA CallsKept ==
  ASSUME IInv,
         \A d \in Calls : call'[d] = call[d] \/ call'[d] = IdleCall,
         \A r \in Requests :
            /\ req[r].status # "unused" => req'[r].status # "unused"
            /\ req[r].status = "gone" => req'[r].status = "gone"
            /\ req[r].status # "unused" => req'[r].book = req[r].book
            /\ req[r].acceptedAt => req'[r].acceptedAt,
         \A x \in Books : book[x].status = "gone" => book'[x].status = "gone",
         \A d \in Calls :
            At(d, "accept", "commit") /\ call'[d] = call[d] => AcceptReady(d)'
  PROVE  CallInv'
<1> SUFFICES ASSUME NEW d \in Calls PROVE CallOK(d)'
  BY DEF CallInv
<1>1. CallOK(d)
  BY DEF IInv, CallInv
<1>2. CASE call'[d] = IdleCall
  BY <1>2 DEF CallOK, IdleCall, Busy, At
<1>3. CASE call'[d] = call[d]
  BY <1>1, <1>3 DEF CallOK, Busy, At
<1>4. QED
  BY <1>2, <1>3

LEMMA SweepKept ==
  ASSUME TypeOK, SweepInv, sweep' = sweep,
         \A r \in Requests :
            /\ req[r].acceptedAt => req'[r].acceptedAt
            /\ req'[r].status = "gone" <=> req[r].status = "gone"
  PROVE  SweepInv'
<1>1. sweep.left \subseteq Requests
  BY DEF TypeOK, SweepRecord
<1>2. QED
  BY <1>1 DEF SweepInv

LEMMA RequestStatusSet ==
  ASSUME TypeOK, NEW q \in Requests, NEW status,
         req' = [req EXCEPT ![q].status = status]
  PROVE  /\ \A r \in Requests : r # q => req'[r] = req[r]
         /\ req'[q].status = status /\ req'[q].book = req[q].book
         /\ req'[q].acceptedAt = req[q].acceptedAt
         /\ req'[q].completedAt = req[q].completedAt
<1>1. req[q] \in RequestRow /\ req'[q] = [req[q] EXCEPT !.status = status]
  BY DEF TypeOK
<1>2. QED
  BY <1>1 DEF TypeOK, RequestRow

LEMMA BookStatusSet ==
  ASSUME TypeOK, NEW b \in Books, NEW status,
         book' = [book EXCEPT ![b].status = status]
  PROVE  /\ book'[b].status = status
         /\ \A x \in Books : x # b => book'[x] = book[x]
<1>1. book[b] \in BookRow /\ book'[b] = [book[b] EXCEPT !.status = status]
  BY DEF TypeOK
<1>2. QED
  BY <1>1 DEF TypeOK, BookRow

LEMMA InsertKeeps ==
  ASSUME IInv, TypeOK', NEW c \in Calls, NEW r \in Requests, InsertRequest(c, r)
  PROVE  IInv'
<1>1. LockInv'
  BY FinishKeepsLocks DEF InsertRequest, IInv
<1> USE DEF InsertRequest, IInv, TypeOK
<1>2. call[c].book \in Books
  BY DEF CallInv, CallOK, At, Busy
<1>3. RowInv'
  BY <1>2 DEF RowInv, RowOK, Exists
<1>4. CallInv'
  BY <1>2 DEF CallInv, CallOK, At, Busy, Finish, IdleCall, AcceptReady, ActiveOn,
         RequestsOn, MayInsert, BookFree, HoldsBook, RowInv, RowOK, Active
<1>5. SweepInv'
  BY DEF SweepInv, RowInv, RowOK
<1>6. OneActiveRequest'
  BY <1>2 DEF OneActiveRequest, ActiveOn, RequestsOn
<1>7. DonatedWasReceived' /\ ReservedWasPromised'
  BY DEF DonatedWasReceived, ReservedWasPromised, RequestsOn, RowInv, RowOK
<1>8. QED
  BY <1>1, <1>3, <1>4, <1>5, <1>6, <1>7

\* A request leaves the set of live ones or takes its book's place in it, and
\* the other rows stay: what a step that answers one request does.
LEMMA AnswerKeeps ==
  ASSUME IInv, TypeOK', LockInv',
         NEW q \in Requests, NEW b \in Books,
         req[q].book = b, req[q].status \notin {"unused", "gone"},
         \A r \in Requests : r # q => req'[r] = req[r],
         \A x \in Books : x # b => book'[x] = book[x],
         req'[q].book = b,
         req[q].acceptedAt \/ req'[q].status = "accepted" => req'[q].acceptedAt,
         req'[q].status = "declined" => req'[q].acceptedAt = req[q].acceptedAt,
         req[q].completedAt => req'[q].completedAt,
         \/ req'[q].status = "accepted" /\ (\A r \in ActiveOn(b) : r = q)
         \/ req'[q].status \in {"declined", "cancelled", "expired", "completed"},
         \/ book'[b].status = "available"
         \/ book'[b].status = "reserved" /\ req'[q].status = "accepted"
         \/ /\ book'[b].status = "donated" /\ req'[q].acceptedAt
            /\ req'[q].completedAt
         \/ book'[b] = book[b] /\ req'[q].status = "declined",
         \A d \in Calls : call'[d] = call[d] \/ call'[d] = IdleCall,
         \A d \in Calls : At(d, "accept", "commit") /\ call'[d] = call[d]
                            => call[d].book # b \/ req'[q].status = "declined",
         SweepInv'
  PROVE  IInv'
<1>1. book[b].status \notin {"unlisted", "gone"}
  BY DEF IInv, RowInv, RowOK, Exists
<1>2. RowInv'
  <2>1. book'[b].status \notin {"unlisted", "gone"}
    BY <1>1
  <2>2. \A x \in Books : Exists(x) => Exists(x)'
    BY <2>1 DEF Exists
  <2>3. QED
    BY <2>1, <2>2 DEF IInv, RowInv, RowOK, Exists
<1>3. CallInv'
  <2>1. ASSUME NEW d \in Calls, At(d, "accept", "commit"), call'[d] = call[d]
        PROVE  AcceptReady(d)'
    <3>1. AcceptReady(d) /\ call[d].book \in Books /\ call[d].req \in Requests
      BY <2>1 DEF IInv, CallInv, CallOK, At, Busy
    <3>2. req[call[d].req].book = call[d].book
      BY <2>1 DEF IInv, CallInv, CallOK, At
    <3>3. CASE call[d].req = q
      <4>1. req'[q].status = "declined" /\ ~req'[q].acceptedAt
        BY <2>1, <3>1, <3>2, <3>3 DEF AcceptReady
      <4>2. \A r \in Requests :
              req'[r].book = call[d].book /\ req'[r].status \in Active => r = q
        BY <3>1, <3>3, <4>1 DEF AcceptReady, ActiveOn, RequestsOn, Active
      <4>3. QED
        BY <2>1, <3>3, <4>1, <4>2 DEF AcceptReady, ActiveOn, RequestsOn
    <3>4. CASE call[d].req # q
      <4>1. req'[call[d].req] = req[call[d].req]
        BY <3>1, <3>4
      <4>2. \A r \in Requests :
              req'[r].book = call[d].book /\ req'[r].status \in Active
                => r = call[d].req
        <5>1. call[d].book = b => req'[q].status \notin Active
          BY <2>1, <3>1, <3>2, <3>4 DEF AcceptReady, ActiveOn, RequestsOn, Active
        <5>2. QED
          BY <3>1, <5>1 DEF AcceptReady, ActiveOn, RequestsOn
      <4>3. QED
        BY <2>1, <3>1, <4>1, <4>2 DEF AcceptReady, ActiveOn, RequestsOn
    <3>5. QED
      BY <3>3, <3>4
  <2>2. QED
    BY <1>1, <2>1, CallsKept
<1>4. OneActiveRequest'
  BY DEF IInv, OneActiveRequest, ActiveOn, RequestsOn, Active
<1>5. DonatedWasReceived'
  <2> SUFFICES ASSUME NEW x \in Books, book'[x].status = "donated"
               PROVE  \E r \in Requests : /\ req'[r].book = x
                                          /\ req'[r].acceptedAt
                                          /\ req'[r].completedAt
    BY DEF DonatedWasReceived, RequestsOn
  <2>1. CASE book'[x] = book[x]
    <3>1. PICK r \in Requests : /\ req[r].book = x /\ req[r].acceptedAt
                                /\ req[r].completedAt
      BY <2>1 DEF IInv, DonatedWasReceived, RequestsOn
    <3>2. CASE r = q
      BY <3>1, <3>2
    <3>3. CASE r # q
      BY <3>1, <3>3
    <3>4. QED
      BY <3>2, <3>3
  <2>2. CASE book'[x] # book[x]
    BY <2>2
  <2>3. QED
    BY <2>1, <2>2
<1>6. ReservedWasPromised'
  <2> SUFFICES ASSUME NEW x \in Books, book'[x].status = "reserved"
               PROVE  \E r \in Requests :
                         /\ req'[r].book = x /\ req'[r].acceptedAt
                         /\ req'[r].status \in {"accepted", "declined"}
    BY DEF ReservedWasPromised, RequestsOn
  <2>1. CASE x = b /\ req'[q].status \in {"accepted", "declined"}
    BY <2>1 DEF IInv, ReservedWasPromised, RequestsOn
  <2>2. CASE x # b
    BY <2>2 DEF IInv, ReservedWasPromised, RequestsOn
  <2>3. QED
    BY <2>1, <2>2
<1>7. QED
  BY <1>2, <1>3, <1>4, <1>5, <1>6 DEF IInv

LEMMA AcceptKeeps ==
  ASSUME IInv, TypeOK', NEW c \in Calls, AcceptCommit(c)
  PROVE  IInv'
<1> DEFINE b == call[c].book
           q == call[c].req
<1>1. LockInv'
  BY FinishKeepsLocks DEF AcceptCommit, IInv
<1>2. /\ b \in Books /\ q \in Requests /\ req[q].book = b
      /\ req[q].status \in {"pending", "declined"}
      /\ \A r \in ActiveOn(b) : r = q
      /\ At(c, "accept", "commit") /\ HoldsBook(c, b)
  BY DEF AcceptCommit, IInv, CallInv, CallOK, At, Busy, AcceptReady, HoldsBook
\* There is no rival left to decline.
<1>3. PendingOn(b) \ {q} = {}
  BY <1>2 DEF ActiveOn, PendingOn, Active
<1>4. req' = [r \in Requests |-> IF r = q
                THEN [req[r] EXCEPT !.status = "accepted", !.acceptedAt = TRUE]
                ELSE req[r]]
  BY <1>3 DEF AcceptCommit
<1>5. \A r \in Requests : r # q => req'[r] = req[r]
  BY <1>4
<1>6. req'[q].status = "accepted" /\ req'[q].acceptedAt /\ req'[q].book = b
      /\ req'[q].completedAt = req[q].completedAt
  <2>1. req[q] \in RequestRow
    BY <1>2 DEF IInv, TypeOK
  <2>2. QED
    BY <1>2, <1>4, <2>1 DEF RequestRow
<1>7. book' = [book EXCEPT ![b].status = "reserved"]
  BY DEF AcceptCommit
<1>8. book'[b].status = "reserved" /\ \A x \in Books : x # b => book'[x] = book[x]
  BY <1>2, <1>7, BookStatusSet DEF IInv
<1>9. \A d \in Calls : call'[d] = IF d = c THEN IdleCall ELSE call[d]
  BY DEF AcceptCommit, Finish, IInv, TypeOK
<1>10. ASSUME NEW d \in Calls, At(d, "accept", "commit"), call'[d] = call[d]
       PROVE  call[d].book # b
  <2>1. d # c
    BY <1>9, <1>10, <1>2 DEF At, IdleCall
  <2>2. call[d].book = b => HoldsBook(d, b)
    BY <1>10 DEF At, HoldsBook
  <2>3. QED
    BY <1>2, <2>1, <2>2 DEF IInv, LockInv
<1>11. SweepInv'
  BY <1>2, <1>3, <1>5, <1>6, SweepKept DEF AcceptCommit, IInv
<1>12. req[q].status \notin {"unused", "gone"}
  BY <1>2
<1>13. QED
  BY <1>1, <1>2, <1>5, <1>6, <1>8, <1>9, <1>10, <1>11, <1>12, AnswerKeeps

LEMMA CancelKeeps ==
  ASSUME IInv, TypeOK', NEW c \in Calls, CancelCommit(c)
  PROVE  IInv'
<1> DEFINE b == call[c].book
           q == call[c].req
<1>1. LockInv'
  BY FinishKeepsLocks DEF CancelCommit, IInv
<1>2. /\ b \in Books /\ q \in Requests /\ req[q].book = b
      /\ req[q].status # "unused"
      /\ At(c, "cancel", "commit") /\ HoldsBook(c, b)
  BY DEF CancelCommit, IInv, CallInv, CallOK, At, Busy, HoldsBook
<1>3. req[q].status # "gone"
  BY <1>2 DEF IInv, RowInv, RowOK
<1>4. req' = [req EXCEPT ![q].status = "cancelled"]
  BY DEF CancelCommit
<1>5. \A r \in Requests : r # q => req'[r] = req[r]
  BY <1>2, <1>4, RequestStatusSet DEF IInv
<1>6. /\ req'[q].status = "cancelled" /\ req'[q].book = b
      /\ req'[q].acceptedAt = req[q].acceptedAt
      /\ req'[q].completedAt = req[q].completedAt
  BY <1>2, <1>4, RequestStatusSet DEF IInv
<1>7. book' = [book EXCEPT ![b].status = "available"]
  BY DEF CancelCommit
<1>8. book'[b].status = "available" /\ \A x \in Books : x # b => book'[x] = book[x]
  BY <1>2, <1>7, BookStatusSet DEF IInv
<1>9. \A d \in Calls : call'[d] = IF d = c THEN IdleCall ELSE call[d]
  BY DEF CancelCommit, Finish, IInv, TypeOK
<1>10. ASSUME NEW d \in Calls, At(d, "accept", "commit"), call'[d] = call[d]
       PROVE  call[d].book # b
  <2>1. d # c
    BY <1>9, <1>10, <1>2 DEF At, IdleCall
  <2>2. call[d].book = b => HoldsBook(d, b)
    BY <1>10 DEF At, HoldsBook
  <2>3. QED
    BY <1>2, <2>1, <2>2 DEF IInv, LockInv
<1>11. SweepInv'
  BY <1>2, <1>3, <1>5, <1>6, SweepKept DEF CancelCommit, IInv
<1>12. QED
  BY <1>1, <1>2, <1>3, <1>5, <1>6, <1>8, <1>9, <1>10, <1>11, AnswerKeeps

LEMMA CompleteKeeps ==
  ASSUME IInv, TypeOK', NEW c \in Calls, CompleteCommit(c)
  PROVE  IInv'
<1> DEFINE b == call[c].book
           q == call[c].req
<1>1. LockInv'
  BY FinishKeepsLocks DEF CompleteCommit, IInv
<1>2. /\ b \in Books /\ q \in Requests /\ req[q].book = b
      /\ req[q].status # "unused"
      /\ At(c, "complete", "commit") /\ HoldsBook(c, b)
      /\ req[q].acceptedAt \/ req[q].status = "gone"
  BY DEF CompleteCommit, IInv, CallInv, CallOK, At, Busy, HoldsBook
<1>3. req[q].status # "gone" /\ req[q].acceptedAt
  BY <1>2 DEF IInv, RowInv, RowOK
<1>4. req' = [req EXCEPT ![q] = [req[q] EXCEPT !.status = "completed",
                                              !.completedAt = TRUE]]
  BY <1>2 DEF CompleteCommit, IInv, TypeOK
<1>5. \A r \in Requests : r # q => req'[r] = req[r]
  BY <1>4 DEF IInv, TypeOK
<1>6. /\ req'[q].status = "completed" /\ req'[q].book = b
      /\ req'[q].acceptedAt /\ req'[q].completedAt
  BY <1>2, <1>3, <1>4 DEF IInv, TypeOK, RequestRow
<1>7. book' = [book EXCEPT ![b].status = "donated"]
  BY DEF CompleteCommit
<1>8. book'[b].status = "donated" /\ \A x \in Books : x # b => book'[x] = book[x]
  BY <1>2, <1>7, BookStatusSet DEF IInv
<1>9. \A d \in Calls : call'[d] = IF d = c THEN IdleCall ELSE call[d]
  BY DEF CompleteCommit, Finish, IInv, TypeOK
<1>10. ASSUME NEW d \in Calls, At(d, "accept", "commit"), call'[d] = call[d]
       PROVE  call[d].book # b
  <2>1. d # c
    BY <1>9, <1>10, <1>2 DEF At, IdleCall
  <2>2. call[d].book = b => HoldsBook(d, b)
    BY <1>10 DEF At, HoldsBook
  <2>3. QED
    BY <1>2, <2>1, <2>2 DEF IInv, LockInv
<1>11. SweepInv'
  BY <1>2, <1>3, <1>5, <1>6, SweepKept DEF CompleteCommit, IInv
<1>12. QED
  BY <1>1, <1>2, <1>3, <1>5, <1>6, <1>8, <1>9, <1>10, <1>11, AnswerKeeps

LEMMA DeclineKeeps ==
  ASSUME IInv, TypeOK', NEW c \in Calls, DeclineWrite(c)
  PROVE  IInv'
<1> DEFINE q == call[c].req
<1>1. LockInv' /\ Finish(c) /\ UNCHANGED <<book, overdue, sweep>>
  BY FinishKeepsLocks DEF DeclineWrite, IInv
<1>2. q \in Requests /\ req[q].status # "unused"
  BY DEF DeclineWrite, IInv, CallInv, CallOK, At
<1>3. CASE req[q].status = "gone"
  BY <1>1, <1>3, FinishOnly DEF DeclineWrite
<1>4. CASE req[q].status # "gone"
  <2> DEFINE b == req[q].book
  <2>1. b \in Books /\ req[q].status \notin {"unused", "gone"}
    BY <1>2, <1>4 DEF IInv, RowInv, RowOK
  <2>2. req' = [req EXCEPT ![q].status = "declined"]
    BY <1>4 DEF DeclineWrite
  <2>3. \A r \in Requests : r # q => req'[r] = req[r]
    BY <1>2, <2>2, RequestStatusSet DEF IInv
  <2>4. /\ req'[q].status = "declined" /\ req'[q].book = b
        /\ req'[q].acceptedAt = req[q].acceptedAt
        /\ req'[q].completedAt = req[q].completedAt
    BY <1>2, <2>2, RequestStatusSet DEF IInv
  <2>5. \A d \in Calls : call'[d] = IF d = c THEN IdleCall ELSE call[d]
    BY <1>1 DEF Finish, IInv, TypeOK
  <2>6. SweepInv'
    BY <1>1, <1>4, <2>3, <2>4, SweepKept DEF IInv
  <2>7. QED
    BY <1>1, <1>2, <2>1, <2>3, <2>4, <2>5, <2>6, AnswerKeeps
<1>5. QED
  BY <1>3, <1>4

LEMMA ReleaseKeeps ==
  ASSUME IInv, TypeOK', SweepRelease
  PROVE  IInv'
<1> DEFINE q == sweep.req
           b == req[q].book
<1>1. UNCHANGED <<overdue, call>> /\ BookFree(b) /\ sweep' = AfterItem(q)
  BY DEF SweepRelease
<1>2. /\ sweep.left \subseteq Requests /\ q \in sweep.left
      /\ req[q].status # "gone" /\ req[q].acceptedAt
  BY DEF SweepRelease, IInv, TypeOK, SweepRecord, SweepInv
<1>3. b \in Books /\ req[q].status # "unused"
  BY <1>2 DEF IInv, RowInv, RowOK
<1>4. req' = [req EXCEPT ![q].status = "expired"]
  BY DEF SweepRelease
<1>5. \A r \in Requests : r # q => req'[r] = req[r]
  BY <1>2, <1>4, RequestStatusSet DEF IInv
<1>6. /\ req'[q].status = "expired" /\ req'[q].book = b
      /\ req'[q].acceptedAt = req[q].acceptedAt
      /\ req'[q].completedAt = req[q].completedAt
  BY <1>2, <1>4, RequestStatusSet DEF IInv
<1>7. book' = [book EXCEPT ![b].status = "available"]
  BY DEF SweepRelease
<1>8. book'[b].status = "available" /\ \A x \in Books : x # b => book'[x] = book[x]
  BY <1>3, <1>7, BookStatusSet DEF IInv
<1>9. \A d \in Calls : At(d, "accept", "commit") => call[d].book # b
  BY <1>1 DEF BookFree, HoldsBook, At
<1>10. LockInv'
  BY <1>1 DEF IInv, LockInv, HoldsBook
<1>11. SweepInv'
  <2>1. sweep'.at # "book" /\ sweep'.left \subseteq sweep.left
    BY <1>1 DEF AfterItem, IdleSweep
  <2>2. QED
    BY <1>2, <1>5, <1>6, <2>1 DEF IInv, SweepInv
<1>12. QED
  BY <1>1, <1>2, <1>3, <1>5, <1>6, <1>8, <1>9, <1>10, <1>11, AnswerKeeps, ZenonT(60)

LEMMA DeleteKeeps ==
  ASSUME IInv, TypeOK', NEW c \in Calls, DeleteCascade(c)
  PROVE  IInv'
<1> DEFINE b == call[c].book
<1>1. LockInv' /\ sweep' = sweep
  BY FinishKeepsLocks DEF DeleteCascade, IInv
<1>2. b \in Books /\ HoldsBook(c, b) /\ call[c].at = "cascade"
  BY DEF DeleteCascade, IInv, CallInv, CallOK, Busy, HoldsBook
<1>3. \A d \in Calls : call'[d] = IF d = c THEN IdleCall ELSE call[d]
  BY DEF DeleteCascade, Finish, IInv, TypeOK
<1>4. ASSUME NEW r \in Requests
      PROVE  /\ req[r].book # b => req'[r] = req[r]
             /\ req[r].book = b =>
                   /\ req'[r].status = "gone" /\ req'[r].book = None
                   /\ ~req'[r].acceptedAt /\ ~req'[r].completedAt
  BY DEF DeleteCascade, RequestsOn, NoRow
<1>5. book'[b].status = "gone" /\ \A x \in Books : x # b => book'[x] = book[x]
  <2>1. book' = [book EXCEPT ![b] = [book[b] EXCEPT !.status = "gone",
                                                    !.hidden = FALSE]]
    BY <1>2 DEF DeleteCascade, IInv, TypeOK
  <2>2. book[b] \in BookRow
    BY <1>2 DEF IInv, TypeOK
  <2>3. QED
    BY <1>2, <2>1, <2>2 DEF IInv, TypeOK, BookRow
<1>6. b # None /\ \A r \in Requests : req[r].book = b =>
                     req[r].status \notin {"unused", "gone"}
  BY <1>2 DEF IInv, RowInv, RowOK
<1>7. RowInv'
  <2> SUFFICES ASSUME NEW r \in Requests PROVE RowOK(r)'
    BY DEF RowInv, RowOK
  <2>1. QED
    BY <1>4, <1>5, <1>6 DEF IInv, RowInv, RowOK, Exists
<1>8. CallInv'
  <2> SUFFICES ASSUME NEW d \in Calls PROVE CallOK(d)'
    BY DEF CallInv
  <2>1. CASE d = c
    BY <1>3, <2>1 DEF CallOK, IdleCall, Busy, At
  <2>2. CASE d # c
    <3>1. call'[d] = call[d] /\ CallOK(d)
      BY <1>3, <2>2 DEF IInv, CallInv
    <3>2. call[d].book = b => call[d].at # "commit"
      BY <1>2, <2>2 DEF IInv, LockInv, HoldsBook
    <3>3. At(d, "accept", "commit") => AcceptReady(d)'
      <4> SUFFICES ASSUME At(d, "accept", "commit") PROVE AcceptReady(d)'
        OBVIOUS
      <4>1. AcceptReady(d) /\ call[d].req \in Requests /\ call[d].book # b
            /\ req[call[d].req].book = call[d].book
        BY <3>1, <3>2 DEF CallOK, At
      <4>2. req'[call[d].req] = req[call[d].req]
        BY <1>4, <4>1
      <4>3. \A r \in Requests : req'[r].status \in Active => req'[r] = req[r]
        BY <1>4 DEF Active
      <4>4. QED
        BY <3>1, <4>1, <4>2, <4>3 DEF AcceptReady, ActiveOn, RequestsOn
    <3>4. call[d].at = "commit" => req'[call[d].req].book = call[d].book
      BY <1>4, <3>1, <3>2 DEF CallOK
    <3>5. QED
      BY <1>2, <1>4, <1>5, <3>1, <3>3, <3>4 DEF CallOK, Busy, At
  <2>3. QED
    BY <2>1, <2>2
<1>9. SweepInv'
  <2>1. sweep.left \subseteq Requests
    BY DEF IInv, TypeOK, SweepRecord
  <2>2. sweep.at = "book" => sweep.req \in Requests /\ req[sweep.req].book # b
    BY <2>1 DEF DeleteCascade, RequestFree, RequestsOn, IInv, SweepInv
  <2>3. QED
    BY <1>1, <1>4, <2>1, <2>2 DEF IInv, SweepInv
<1>10. OneActiveRequest'
  BY <1>4 DEF IInv, OneActiveRequest, Active
<1>11. DonatedWasReceived' /\ ReservedWasPromised'
  BY <1>4, <1>5 DEF IInv, DonatedWasReceived, ReservedWasPromised, RequestsOn
<1>12. QED
  BY <1>1, <1>7, <1>8, <1>9, <1>10, <1>11 DEF IInv

-----------------------------------------------------------------------------
(* Single statements, the clock, the sweep's list and the two ways a call   *)
(* is thrown away.                                                         *)

LEMMA BookRowsKeep ==
  ASSUME IInv, TypeOK', UNCHANGED <<req, sweep>>,
         \A d \in Calls : call'[d] = call[d] \/ call'[d] = IdleCall,
         \A x \in Books : \/ book'[x].status = book[x].status
                          \/ /\ book[x].status = "unlisted"
                             /\ book'[x].status = "available"
  PROVE  IInv'
<1>1. LockInv'
  BY DEF IInv, LockInv, HoldsBook, IdleCall
<1>2. RowInv'
  BY DEF IInv, RowInv, RowOK, Exists
<1>3. CallInv'
  BY CallsKept DEF IInv, CallInv, CallOK, At, AcceptReady, ActiveOn, RequestsOn
<1>4. SweepInv'
  BY SweepKept DEF IInv
<1>5. OneActiveRequest' /\ DonatedWasReceived' /\ ReservedWasPromised'
  BY DEF IInv, OneActiveRequest, DonatedWasReceived, ReservedWasPromised,
         RequestsOn
<1>6. QED
  BY <1>1, <1>2, <1>3, <1>4, <1>5 DEF IInv

LEMMA SingleStatementsKeep ==
  ASSUME IInv, TypeOK',
         \/ \E b \in Books : Donate(b)
         \/ \E b \in Books, hidden \in BOOLEAN : SetBookHidden(b, hidden)
         \/ \E c \in Calls, content \in Contents : UpdateWrite(c, content)
  PROVE  IInv'
<1>1. ASSUME NEW b \in Books, Donate(b) PROVE IInv'
  <2>1. book[b].status = "unlisted" /\ UNCHANGED <<req, overdue, call, sweep>>
        /\ book' = [book EXCEPT ![b].status = "available"]
    BY <1>1 DEF Donate
  <2>2. QED
    BY <2>1, BookStatusSet, BookRowsKeep DEF IInv
<1>2. ASSUME NEW b \in Books, NEW hidden \in BOOLEAN, SetBookHidden(b, hidden)
      PROVE  IInv'
  <2>1. UNCHANGED <<req, overdue, call, sweep>>
        /\ \A x \in Books : book'[x].status = book[x].status
    BY <1>2 DEF SetBookHidden, IInv, TypeOK, BookRow
  <2>2. QED
    BY <2>1, BookRowsKeep
<1>3. ASSUME NEW c \in Calls, NEW content \in Contents, UpdateWrite(c, content)
      PROVE  IInv'
  <2>1. UNCHANGED <<req, overdue, sweep>>
        /\ \A x \in Books : book'[x].status = book[x].status
    BY <1>3 DEF UpdateWrite, IInv, TypeOK, BookRow
  <2>2. \A d \in Calls : call'[d] = call[d] \/ call'[d] = IdleCall
    BY <1>3 DEF UpdateWrite, Finish, IInv, TypeOK
  <2>3. QED
    BY <2>1, <2>2, BookRowsKeep
<1>4. QED
  BY <1>1, <1>2, <1>3

LEMMA SweepTurnsKeep ==
  ASSUME IInv, TypeOK',
         SweepList \/ (\E r \in Requests : SweepTake(r)) \/ SweepIsVictim
  PROVE  IInv'
<1>1. UNCHANGED <<book, req, overdue, call>>
  BY DEF SweepList, SweepTake, SweepIsVictim, Tables
<1>2. SweepInv'
  <2>1. CASE SweepList
    BY <1>1, <2>1 DEF SweepList, Stale, IInv, SweepInv, RowInv, RowOK, TypeOK
  <2>2. ASSUME NEW r \in Requests, SweepTake(r) PROVE SweepInv'
    <3>1. sweep' = AfterItem(r) => SweepInv'
      BY <1>1 DEF AfterItem, IdleSweep, IInv, SweepInv
    <3>2. CASE req[r].status # "gone"
      <4>1. /\ sweep'.left = sweep.left /\ sweep'.req = r /\ r \in sweep.left
        BY <2>2, <3>2 DEF SweepTake, IInv, TypeOK, SweepRecord
      <4>2. QED
        BY <1>1, <3>2, <4>1 DEF IInv, SweepInv
    <3>3. QED
      BY <2>2, <3>1, <3>2 DEF SweepTake
  <2>3. CASE SweepIsVictim
    BY <2>3 DEF SweepIsVictim, IdleSweep, SweepInv
  <2>4. QED
    BY <2>1, <2>2, <2>3
<1>3. RowInv' /\ LockInv' /\ CallInv'
  BY <1>1 DEF IInv, RowInv, RowOK, Exists, LockInv, HoldsBook, CallInv, CallOK,
              Busy, At, AcceptReady, ActiveOn, RequestsOn
<1>4. OneActiveRequest' /\ DonatedWasReceived' /\ ReservedWasPromised'
  BY <1>1 DEF IInv, OneActiveRequest, DonatedWasReceived, ReservedWasPromised,
              RequestsOn
<1>5. QED
  BY <1>2, <1>3, <1>4 DEF IInv

LEMMA RestartKeeps ==
  ASSUME IInv, TypeOK', Restart
  PROVE  IInv'
<1>1. UNCHANGED <<book, req, overdue>> /\ sweep' = IdleSweep
      /\ \A d \in Calls : call'[d] = IdleCall
  BY DEF Restart, Tables
<1>2. LockInv' /\ CallInv' /\ SweepInv'
  BY <1>1 DEF LockInv, HoldsBook, CallInv, CallOK, Busy, At, IdleCall, SweepInv,
              IdleSweep
<1>3. RowInv' /\ OneActiveRequest' /\ DonatedWasReceived' /\ ReservedWasPromised'
  BY <1>1 DEF IInv, RowInv, RowOK, Exists, OneActiveRequest, DonatedWasReceived,
              ReservedWasPromised, RequestsOn
<1>4. QED
  BY <1>2, <1>3 DEF IInv

-----------------------------------------------------------------------------
(* The invariant, and what follows from it. *)

LEMMA InitInv == Init => IInv
<1> SUFFICES ASSUME Init PROVE IInv
  OBVIOUS
<1>1. TypeOK
  BY InitType
<1>2. /\ \A b \in Books : book[b].status = "unlisted"
      /\ \A r \in Requests : /\ req[r].status = "unused" /\ req[r].book = None
                             /\ ~req[r].acceptedAt
      /\ \A c \in Calls : call[c] = IdleCall
      /\ sweep = IdleSweep
  BY DEF Init, NoRow
<1>3. RowInv /\ OneActiveRequest
  BY <1>2 DEF RowInv, RowOK, OneActiveRequest, Active
<1>4. LockInv /\ CallInv /\ SweepInv
  BY <1>2 DEF LockInv, HoldsBook, CallInv, CallOK, Busy, At, IdleCall, SweepInv,
              IdleSweep
<1>5. DonatedWasReceived /\ ReservedWasPromised
  BY <1>2 DEF DonatedWasReceived, ReservedWasPromised
<1>6. QED
  BY <1>1, <1>3, <1>4, <1>5 DEF IInv

LEMMA NextInv == IInv /\ [Next]_vars => IInv'
<1> SUFFICES ASSUME IInv, [Next]_vars PROVE IInv'
  OBVIOUS
<1>1. TypeOK'
  BY NextType DEF IInv
<1>2. ASSUME NEW c \in Calls, CallSteps(c) PROVE IInv'
  BY <1>1, <1>2, MovesKeep, InsertKeeps, AcceptKeeps, CancelKeeps, CompleteKeeps,
     DeclineKeeps, DeleteKeeps, SingleStatementsKeep
     DEF CallSteps
<1>3. ASSUME NEW c \in Calls, CallStarts(c) PROVE IInv'
  BY <1>1, <1>3, StartsKeep
<1>4. CASE (\E b \in Books : Donate(b))
           \/ \E b \in Books, hidden \in BOOLEAN : SetBookHidden(b, hidden)
  BY <1>1, <1>4, SingleStatementsKeep
<1>5. ASSUME NEW r \in Requests, WindowElapses(r) PROVE IInv'
  <2>1. UNCHANGED <<book, req, call, sweep>>
    BY <1>5 DEF WindowElapses
  <2>2. QED
    BY <1>1, <2>1, BookRowsKeep DEF WindowElapses
<1>6. CASE SweepList \/ SweepSteps \/ Deadlocks
  <2>1. ASSUME NEW c \in Calls, CallIsVictim(c) PROVE IInv'
    BY <1>1, <2>1, FinishOnly DEF CallIsVictim, Tables
  <2>2. QED
    BY <1>1, <1>6, <2>1, SweepTurnsKeep, ReleaseKeeps DEF SweepSteps, Deadlocks
<1>7. CASE Restart
  BY <1>1, <1>7, RestartKeeps
<1>8. CASE UNCHANGED vars
  <2>1. UNCHANGED <<book, req, overdue, call, sweep>>
    BY <1>8 DEF vars
  <2>2. QED
    BY <1>1, <2>1, BookRowsKeep
<1>9. QED
  BY <1>2, <1>3, <1>4, <1>5, <1>6, <1>7, <1>8 DEF Next, Running

\* The tables, the handlers in flight and the sweep keep their types.
THEOREM TypeCorrect == Spec => []TypeOK
<1>1. IInv => TypeOK
  BY DEF IInv
<1>2. QED
  BY <1>1, InitInv, NextInv, PTL DEF Spec

\* However request, accept, cancel, complete, decline, the deletes, the sweep
\* and restarts overlap, no book has two requests that are still alive.
THEOREM BookHasOneRequest == Spec => []OneActiveRequest
<1>1. IInv => OneActiveRequest
  BY DEF IInv
<1>2. QED
  BY <1>1, InitInv, NextInv, PTL DEF Spec

\* A book is only marked donated with a request its receiver confirmed.
THEOREM DonatedMeansReceived == Spec => []DonatedWasReceived
<1>1. IInv => DonatedWasReceived
  BY DEF IInv
<1>2. QED
  BY <1>1, InitInv, NextInv, PTL DEF Spec

\* A book is only reserved with a request that was accepted.
THEOREM ReservedMeansPromised == Spec => []ReservedWasPromised
<1>1. IInv => ReservedWasPromised
  BY DEF IInv
<1>2. QED
  BY <1>1, InitInv, NextInv, PTL DEF Spec

\* No step takes a finished request back to pending or accepted: of the steps
\* that write these, the insert takes an unused row, and accept's write finds
\* a request that is pending or declined (AcceptReady).
THEOREM FinishedIsFinal == Spec => FinishedNeverReactivated
<1>1. IInv /\ [Next]_vars =>
        [\A r \in Requests :
            req[r].status \in Finished => req'[r].status \notin Active]_vars
  <2> SUFFICES ASSUME IInv, Next, NEW r \in Requests, req[r].status \in Finished
               PROVE  req'[r].status \notin Active
    OBVIOUS
  <2> USE DEF Finished, Active
  <2>1. CASE req'[r] = req[r]
    BY <2>1
  <2>2. ASSUME NEW c \in Calls, AcceptCommit(c) PROVE req'[r].status \notin Active
    <3>1. AcceptReady(c)
      BY <2>2 DEF IInv, CallInv, CallOK, AcceptCommit
    <3>2. r # call[c].req
      BY <3>1 DEF AcceptReady
    <3>3. req'[r] = req[r]
      BY <2>2, <3>2 DEF AcceptCommit, PendingOn
    <3>4. QED
      BY <3>3
  <2>3. ASSUME NEW c \in Calls, NEW q \in Requests, InsertRequest(c, q)
        PROVE  req'[r].status \notin Active
    BY <2>3 DEF InsertRequest, IInv, TypeOK
  <2>4. ASSUME NEW c \in Calls,
               CancelCommit(c) \/ DeclineWrite(c) \/ CompleteCommit(c)
        PROVE  req'[r].status \notin Active
    <3>1. call[c].req \in Requests
      BY <2>4 DEF CancelCommit, DeclineWrite, CompleteCommit, IInv, CallInv,
                  CallOK, At
    <3>2. CASE CancelCommit(c) \/ DeclineWrite(c)
      <4>1. \/ req' = [req EXCEPT ![call[c].req].status = "cancelled"]
            \/ req' = [req EXCEPT ![call[c].req].status = "declined"]
            \/ req' = req
        BY <3>2 DEF CancelCommit, DeclineWrite
      <4>2. QED
        BY <3>1, <4>1, RequestStatusSet DEF IInv
    <3>3. CASE CompleteCommit(c)
      <4>1. req' = [req EXCEPT ![call[c].req] =
                      [req[call[c].req] EXCEPT !.status = "completed",
                                               !.completedAt = TRUE]]
        BY <3>1, <3>3 DEF CompleteCommit, IInv, TypeOK
      <4>2. req[call[c].req] \in RequestRow
        BY <3>1 DEF IInv, TypeOK
      <4>3. QED
        BY <3>1, <4>1, <4>2 DEF IInv, TypeOK, RequestRow
    <3>4. QED
      BY <2>4, <3>2, <3>3
  <2>5. ASSUME NEW c \in Calls, DeleteCascade(c) PROVE req'[r].status \notin Active
    BY <2>5 DEF DeleteCascade, NoRow
  <2>6. CASE SweepRelease
    <3>1. sweep.req \in Requests
      BY <2>6 DEF SweepRelease, IInv, SweepInv, TypeOK, SweepRecord
    <3>2. QED
      BY <2>6, <3>1, RequestStatusSet DEF SweepRelease, IInv
  <2>7. CASE UNCHANGED req
    BY <2>7
  <2>8. QED
    BY <2>2, <2>3, <2>4, <2>5, <2>6, <2>7, ZenonT(60)
       DEF Next, Running, CallStarts, CallSteps, SweepSteps, Deadlocks, Tables,
           Donate, SetBookHidden, RequestRead, UpdateRead, RemoveRead,
           AcceptLock, CancelRead, CompleteRead, DeclineRead, AdminDeleteRead,
           RequestCheckActive, RequestCheckRefused, InsertFails, AcceptRead,
           CancelLock, CompleteLock, CountPending, UpdateWrite, DeleteLock,
           WindowElapses, SweepList, SweepTake, CallIsVictim, SweepIsVictim,
           Restart
<1>2. QED
  BY <1>1, InitInv, NextInv, PTL DEF Spec, FinishedNeverReactivated

-----------------------------------------------------------------------------
(* The promises.  Where cancel, complete and decline run by themselves,    *)
(* what they read is still so when they write; the locks do as much for    *)
(* accept and the sweep, which may overlap requests, deletes and edits.    *)

DeskAlone == {"cancel", "complete", "decline"} \subseteq Alone
EditsAlone == {"update", "remove"} \subseteq Alone

\* An operation of Alone has the desk to itself while it runs.
AloneInv ==
    \A c \in Calls : call[c].op \in Alone =>
        sweep.at = "idle" /\ \A d \in Calls : d # c => ~Busy(d)

\* A book is donated while one request on it is completed, and nobody waits
\* for it any more.
GivenInv ==
    /\ \A b \in Books : book[b].status = "donated" =>
          \E r \in RequestsOn(b) : req[r].status = "completed"
    /\ \A r \in Requests : req[r].status = "completed" =>
          book[req[r].book].status = "donated"
    /\ \A r, s \in Requests :
          /\ req[r].status = "completed" /\ req[s].status = "completed"
          /\ req[r].book = req[s].book
          => r = s
    /\ \A r \in Requests : req[r].status = "pending" =>
          book[req[r].book].status # "donated"

\* What a handler read is so as long as it counts on it.
Reads(c) ==
    /\ call[c].at = "idle" => call[c].op = "none"
    /\ call[c].op \in {"cancel", "complete", "decline"} =>
          /\ call[c].req \in Requests
          /\ req[call[c].req].status = call[c].seen
          /\ req[call[c].req].book = call[c].book
    /\ call[c].op = "complete" => call[c].seen = "accepted"
    /\ call[c].op = "decline" => call[c].seen = "pending"
    /\ At(c, "cancel", "commit") => call[c].seen \in Active
    /\ call[c].op = "accept" =>
          /\ call[c].at \in {"read", "commit"}
          /\ book[call[c].book].status = "available"
    /\ At(c, "accept", "commit") => req[call[c].req].status = "pending"
    /\ call[c].op = "request" => book[call[c].book].status # "donated"
    /\ At(c, "request", "insert") => ~Refused(call[c].book, call[c].by)
    /\ call[c].at = "count" => call[c].op \in {"update", "remove"}
    /\ call[c].at \in {"delete", "cascade"} =>
          call[c].op \in {"remove", "adminDelete"}
    /\ call[c].at = "cascade" => Exists(call[c].book)

ReadsInv == \A c \in Calls : Reads(c)

\* What the sweep listed is still accepted, unless it was deleted.
ListInv ==
    /\ sweep.at = "idle" => sweep.left = {}
    /\ \A r \in sweep.left : req[r].status \in {"accepted", "gone"}

DeskInv ==
    /\ IInv
    /\ AloneInv
    /\ ReservedMatchesAccepted
    /\ GivenInv
    /\ ReadsInv
    /\ ListInv

\* An edit or a delete of the donor's goes on only while nobody waits.
EditOK(c) ==
    call[c].op \in {"update", "remove"} =>
        /\ call[c].book \in Books
        /\ book[call[c].book].status = "available"
        /\ call[c].at # "count" => PendingOn(call[c].book) = {}

EditInv == FrozenWhileAsked /\ \A c \in Calls : EditOK(c)

-----------------------------------------------------------------------------
(* What a step does to the tables. *)

\* A book is listed, hidden or edited, and no request changes.
Quiet ==
    /\ req' = req
    /\ \A x \in Books : \/ book'[x].status = book[x].status
                        \/ /\ book[x].status = "unlisted"
                           /\ book'[x].status = "available"

\* A request is filed for b by u.
Filed(r, b, u) ==
    /\ req[r].status = "unused"
    /\ ActiveOn(b) = {} /\ Exists(b) /\ book[b].status # "donated"
    /\ \A s \in Requests : s # r => req'[s] = req[s]
    /\ req'[r].status = "pending" /\ req'[r].book = b /\ req'[r].by = u
    /\ req'[r].asked = book[b].content
    /\ book' = book

\* A request that is still alive gets an answer, and its book a place.
Answer(q, status, place) ==
    /\ req[q].status \in Active
    /\ \A r \in Requests : r # q => req'[r] = req[r]
    /\ req'[q].status = status
    /\ req'[q].book = req[q].book /\ req'[q].by = req[q].by
    /\ req'[q].asked = req[q].asked
    /\ \A x \in Books : x # req[q].book => book'[x] = book[x]
    /\ book'[req[q].book].status = place
    /\ book'[req[q].book].content = book[req[q].book].content

Answered(q) ==
    \/ Answer(q, "accepted", "reserved") /\ req[q].status = "pending"
    \/ Answer(q, "declined", "available") /\ req[q].status = "pending"
    \/ Answer(q, "cancelled", "available")
    \/ Answer(q, "expired", "available") /\ req[q].status = "accepted"
    \/ Answer(q, "completed", "donated") /\ req[q].status = "accepted"

\* A book and the requests for it are deleted.
Withdrawn(b) ==
    /\ Exists(b)
    /\ \A r \in Requests :
          IF req[r].book = b
          THEN req'[r].status = "gone" /\ req'[r].book = None
          ELSE req'[r] = req[r]
    /\ book'[b].status = "gone"
    /\ \A x \in Books : x # b => book'[x] = book[x]

\* Where the book of a request that is alive is.
LEMMA PlaceOfLive ==
  ASSUME DeskInv, NEW q \in Requests, req[q].status \in Active
  PROVE  /\ req[q].book \in Books /\ Exists(req[q].book)
         /\ req[q].status = "pending" =>
               book[req[q].book].status = "available"
         /\ req[q].status = "accepted" =>
               book[req[q].book].status = "reserved"
<1>1. req[q].book \in Books /\ Exists(req[q].book)
  BY DEF DeskInv, IInv, RowInv, RowOK, Active
<1>2. book[req[q].book].status \in BookStatuses
  BY <1>1 DEF DeskInv, IInv, TypeOK, BookRow
<1>3. ASSUME req[q].status = "accepted" PROVE book[req[q].book].status = "reserved"
  BY <1>1, <1>3 DEF DeskInv, ReservedMatchesAccepted, RequestsOn
<1>4. ASSUME req[q].status = "pending"
      PROVE  book[req[q].book].status = "available"
  <2>1. book[req[q].book].status # "donated"
    BY <1>4 DEF DeskInv, GivenInv
  <2>2. book[req[q].book].status # "reserved"
    BY <1>1, <1>4 DEF DeskInv, IInv, ReservedMatchesAccepted, OneActiveRequest,
                     RequestsOn, Active
  <2>3. QED
    BY <1>1, <1>2, <2>1, <2>2 DEF Exists, BookStatuses
<1>5. QED
  BY <1>1, <1>3, <1>4

\* While anything runs, no other call of an operation that runs alone does.
LEMMA NobodyAlone ==
  ASSUME DeskAlone, DeskInv, NEW d \in Calls,
         sweep.at # "idle" \/ \E c \in Calls : c # d /\ Busy(c)
  PROVE  call[d].op \notin {"cancel", "complete", "decline"}
  BY DEF DeskAlone, DeskInv, AloneInv

LEMMA InsertFiles ==
  ASSUME DeskInv, NEW c \in Calls, NEW r \in Requests, InsertRequest(c, r)
  PROVE  Filed(r, call[c].book, call[c].by) /\ ~Refused(call[c].book, call[c].by)
<1>1. Reads(c)
  BY DEF DeskInv, ReadsInv
<1>2. book[call[c].book].status # "donated"
      /\ ~Refused(call[c].book, call[c].by)
  BY <1>1 DEF Reads, At, InsertRequest
<1>3. req'[r] = [status |-> "pending", book |-> call[c].book,
                 by |-> call[c].by, asked |-> book[call[c].book].content,
                 acceptedAt |-> FALSE, completedAt |-> FALSE]
      /\ \A s \in Requests : s # r => req'[s] = req[s]
  BY DEF InsertRequest, DeskInv, IInv, TypeOK
<1>4. QED
  BY <1>2, <1>3 DEF InsertRequest, Filed

\* A row or a book whose status is written keeps the rest of it.
LEMMA RestOfRequest ==
  ASSUME TypeOK, NEW q \in Requests, NEW status,
         req' = [req EXCEPT ![q].status = status]
  PROVE  /\ req'[q].status = status /\ req'[q].book = req[q].book
         /\ req'[q].by = req[q].by /\ req'[q].asked = req[q].asked
         /\ \A r \in Requests : r # q => req'[r] = req[r]
<1>1. req[q] \in RequestRow /\ req'[q] = [req[q] EXCEPT !.status = status]
  BY DEF TypeOK
<1>2. QED
  BY <1>1 DEF TypeOK, RequestRow

LEMMA RestOfBook ==
  ASSUME TypeOK, NEW b \in Books, NEW status,
         book' = [book EXCEPT ![b].status = status]
  PROVE  /\ book'[b].status = status /\ book'[b].content = book[b].content
         /\ \A x \in Books : x # b => book'[x] = book[x]
<1>1. book[b] \in BookRow /\ book'[b] = [book[b] EXCEPT !.status = status]
  BY DEF TypeOK
<1>2. QED
  BY <1>1 DEF TypeOK, BookRow

LEMMA AcceptAnswers ==
  ASSUME DeskInv, NEW c \in Calls, AcceptCommit(c)
  PROVE  /\ call[c].req \in Requests /\ req[call[c].req].book = call[c].book
         /\ Answered(call[c].req)
<1> DEFINE b == call[c].book
           q == call[c].req
<1>1. /\ b \in Books /\ q \in Requests /\ req[q].book = b
      /\ req[q].status = "pending" /\ AcceptReady(c)
  BY DEF AcceptCommit, DeskInv, IInv, CallInv, CallOK, At, Busy, ReadsInv, Reads
<1>2. PendingOn(b) \ {q} = {}
  BY <1>1 DEF AcceptReady, ActiveOn, PendingOn, Active
<1>3. /\ req' = [r \in Requests |-> IF r = q
                 THEN [req[r] EXCEPT !.status = "accepted", !.acceptedAt = TRUE]
                 ELSE req[r]]
      /\ book' = [book EXCEPT ![b].status = "reserved"]
  BY <1>2 DEF AcceptCommit
<1>4. req[q] \in RequestRow
  BY <1>1 DEF DeskInv, IInv, TypeOK
<1>5. /\ req'[q].status = "accepted" /\ req'[q].book = b
      /\ req'[q].by = req[q].by /\ req'[q].asked = req[q].asked
      /\ \A r \in Requests : r # q => req'[r] = req[r]
  BY <1>1, <1>3, <1>4 DEF RequestRow
<1>6. /\ book'[b].status = "reserved" /\ book'[b].content = book[b].content
      /\ \A x \in Books : x # b => book'[x] = book[x]
  BY <1>1, <1>3, RestOfBook DEF DeskInv, IInv
<1>7. Answer(q, "accepted", "reserved")
  BY <1>1, <1>5, <1>6 DEF Answer, Active
<1>8. QED
  BY <1>1, <1>7 DEF Answered

LEMMA CancelAnswers ==
  ASSUME DeskInv, NEW c \in Calls, CancelCommit(c)
  PROVE  /\ call[c].req \in Requests /\ req[call[c].req].book = call[c].book
         /\ Answered(call[c].req)
<1> DEFINE b == call[c].book
           q == call[c].req
<1>1. q \in Requests /\ req[q].book = b /\ req[q].status \in Active /\ b \in Books
  BY DEF CancelCommit, DeskInv, IInv, CallInv, CallOK, Busy, At, ReadsInv, Reads
<1>2. /\ req' = [req EXCEPT ![q].status = "cancelled"]
      /\ book' = [book EXCEPT ![b].status = "available"]
  BY DEF CancelCommit
<1>3. /\ req'[q].status = "cancelled" /\ req'[q].book = b
      /\ req'[q].by = req[q].by /\ req'[q].asked = req[q].asked
      /\ \A r \in Requests : r # q => req'[r] = req[r]
  BY <1>1, <1>2, RestOfRequest DEF DeskInv, IInv
<1>4. /\ book'[b].status = "available" /\ book'[b].content = book[b].content
      /\ \A x \in Books : x # b => book'[x] = book[x]
  BY <1>1, <1>2, RestOfBook DEF DeskInv, IInv
<1>5. QED
  BY <1>1, <1>3, <1>4 DEF Answer, Answered

LEMMA CompleteAnswers ==
  ASSUME DeskInv, NEW c \in Calls, CompleteCommit(c)
  PROVE  /\ call[c].req \in Requests /\ req[call[c].req].book = call[c].book
         /\ Answered(call[c].req)
<1> DEFINE b == call[c].book
           q == call[c].req
<1>1. q \in Requests /\ req[q].book = b /\ req[q].status = "accepted" /\ b \in Books
  BY DEF CompleteCommit, DeskInv, IInv, CallInv, CallOK, Busy, At, ReadsInv, Reads
<1>2. /\ req' = [req EXCEPT ![q] = [req[q] EXCEPT !.status = "completed",
                                                 !.completedAt = TRUE]]
      /\ book' = [book EXCEPT ![b].status = "donated"]
  BY <1>1 DEF CompleteCommit, DeskInv, IInv, TypeOK
<1>3. req[q] \in RequestRow
  BY <1>1 DEF DeskInv, IInv, TypeOK
<1>4. /\ req'[q].status = "completed" /\ req'[q].book = b
      /\ req'[q].by = req[q].by /\ req'[q].asked = req[q].asked
      /\ \A r \in Requests : r # q => req'[r] = req[r]
  BY <1>1, <1>2, <1>3 DEF DeskInv, IInv, TypeOK, RequestRow
<1>5. /\ book'[b].status = "donated" /\ book'[b].content = book[b].content
      /\ \A x \in Books : x # b => book'[x] = book[x]
  BY <1>1, <1>2, RestOfBook DEF DeskInv, IInv
<1>6. QED
  BY <1>1, <1>4, <1>5 DEF Answer, Answered, Active

LEMMA DeclineAnswers ==
  ASSUME DeskInv, NEW c \in Calls, DeclineWrite(c)
  PROVE  /\ call[c].req \in Requests /\ req[call[c].req].book = call[c].book
         /\ Answered(call[c].req)
<1> DEFINE b == call[c].book
           q == call[c].req
<1>1. q \in Requests /\ req[q].book = b /\ req[q].status = "pending"
  BY DEF DeclineWrite, DeskInv, At, ReadsInv, Reads
<1>2. book[b].status = "available"
  BY <1>1, PlaceOfLive DEF Active
<1>3. req' = [req EXCEPT ![q].status = "declined"] /\ book' = book
  BY <1>1 DEF DeclineWrite
<1>4. /\ req'[q].status = "declined" /\ req'[q].book = b
      /\ req'[q].by = req[q].by /\ req'[q].asked = req[q].asked
      /\ \A r \in Requests : r # q => req'[r] = req[r]
  BY <1>1, <1>3, RestOfRequest DEF DeskInv, IInv
<1>5. QED
  BY <1>1, <1>2, <1>3, <1>4 DEF Answer, Answered, Active

LEMMA ReleaseAnswers ==
  ASSUME DeskInv, SweepRelease
  PROVE  sweep.req \in Requests /\ Answered(sweep.req)
<1> DEFINE q == sweep.req
           b == req[q].book
<1>1. q \in Requests /\ req[q].status = "accepted"
  BY DEF SweepRelease, DeskInv, IInv, TypeOK, SweepRecord, SweepInv, ListInv
<1>2. b \in Books
  BY <1>1, PlaceOfLive DEF Active
<1>3. /\ req' = [req EXCEPT ![q].status = "expired"]
      /\ book' = [book EXCEPT ![b].status = "available"]
  BY DEF SweepRelease
<1>4. /\ req'[q].status = "expired" /\ req'[q].book = b
      /\ req'[q].by = req[q].by /\ req'[q].asked = req[q].asked
      /\ \A r \in Requests : r # q => req'[r] = req[r]
  BY <1>1, <1>3, RestOfRequest DEF DeskInv, IInv
<1>5. /\ book'[b].status = "available" /\ book'[b].content = book[b].content
      /\ \A x \in Books : x # b => book'[x] = book[x]
  BY <1>2, <1>3, RestOfBook DEF DeskInv, IInv
<1>6. QED
  BY <1>1, <1>4, <1>5 DEF Answer, Answered, Active

LEMMA DeleteWithdraws ==
  ASSUME DeskInv, NEW c \in Calls, DeleteCascade(c)
  PROVE  call[c].book \in Books /\ Withdrawn(call[c].book)
<1> DEFINE b == call[c].book
<1>1. b \in Books /\ Exists(b)
  BY DEF DeleteCascade, DeskInv, IInv, CallInv, CallOK, Busy, ReadsInv, Reads
<1>2. \A r \in Requests :
        IF req[r].book = b
        THEN req'[r].status = "gone" /\ req'[r].book = None
        ELSE req'[r] = req[r]
  BY DEF DeleteCascade, RequestsOn, NoRow
<1>3. book' = [book EXCEPT ![b] = [book[b] EXCEPT !.status = "gone",
                                                  !.hidden = FALSE]]
  BY <1>1 DEF DeleteCascade, DeskInv, IInv, TypeOK
<1>4. book[b] \in BookRow
  BY <1>1 DEF DeskInv, IInv, TypeOK
<1>5. book'[b].status = "gone" /\ \A x \in Books : x # b => book'[x] = book[x]
  BY <1>1, <1>3, <1>4 DEF DeskInv, IInv, TypeOK, BookRow
<1>6. QED
  BY <1>1, <1>2, <1>5 DEF Withdrawn

-----------------------------------------------------------------------------
(* The tables agree after each kind of step. *)

LEMMA QuietTables ==
  ASSUME DeskInv, Quiet
  PROVE  ReservedMatchesAccepted' /\ GivenInv'
<1>1. \A x \in Books : /\ book'[x].status = "reserved" <=> book[x].status = "reserved"
                       /\ book'[x].status = "donated" <=> book[x].status = "donated"
  BY DEF Quiet
<1>2. \A r \in Requests : req[r].status \in {"pending", "completed"} =>
                             req[r].book \in Books
  BY DEF DeskInv, IInv, RowInv, RowOK
<1>3. QED
  BY <1>1, <1>2 DEF Quiet, DeskInv, ReservedMatchesAccepted, GivenInv, RequestsOn

LEMMA FiledTables ==
  ASSUME DeskInv, NEW r \in Requests, NEW b \in Books, NEW u, Filed(r, b, u)
  PROVE  ReservedMatchesAccepted' /\ GivenInv'
<1>1. \A s \in Requests : req'[s].status \in {"accepted", "completed"} =>
                             s # r /\ req'[s] = req[s]
  BY DEF Filed
<1>2. \A s \in Requests : req[s].status \in {"accepted", "completed"} =>
                             s # r /\ req'[s] = req[s]
  BY DEF Filed
<1>3. ReservedMatchesAccepted'
  BY <1>1, <1>2 DEF Filed, DeskInv, ReservedMatchesAccepted, RequestsOn
<1>4. GivenInv'
  BY <1>1, <1>2 DEF Filed, DeskInv, GivenInv, RequestsOn
<1>5. QED
  BY <1>3, <1>4

LEMMA AnsweredTables ==
  ASSUME DeskInv, NEW q \in Requests, Answered(q)
  PROVE  ReservedMatchesAccepted' /\ GivenInv'
<1> DEFINE b == req[q].book
<1>1. /\ b \in Books /\ req'[q].book = b /\ req[q].status \in Active
      /\ \A r \in Requests : r # q => req'[r] = req[r]
      /\ \A x \in Books : x # b => book'[x] = book[x]
  BY PlaceOfLive DEF Answered, Answer
<1>2. /\ book'[b].status = "reserved" <=> req'[q].status = "accepted"
      /\ book'[b].status = "donated" <=> req'[q].status = "completed"
      /\ req'[q].status # "pending"
  BY DEF Answered, Answer
<1>3. book[b].status # "donated"
  BY <1>1, PlaceOfLive DEF Active
<1>4. \A r \in Requests : r # q /\ req[r].book = b =>
                             req[r].status \notin {"pending", "accepted", "completed"}
  BY <1>1, <1>3 DEF DeskInv, IInv, OneActiveRequest, GivenInv, Active
<1>5. ReservedMatchesAccepted'
  <2> SUFFICES ASSUME NEW x \in Books
               PROVE  book'[x].status = "reserved"
                        <=> \E r \in Requests : /\ req'[r].book = x
                                                /\ req'[r].status = "accepted"
    BY DEF ReservedMatchesAccepted, RequestsOn
  <2>1. CASE x = b
    BY <1>1, <1>2, <1>4, <2>1
  <2>2. CASE x # b
    <3>1. \A r \in Requests : req'[r].book = x => req'[r] = req[r]
      BY <1>1, <2>2
    <3>2. \A r \in Requests : req[r].book = x => req'[r] = req[r]
      BY <1>1, <2>2
    <3>3. QED
      BY <1>1, <2>2, <3>1, <3>2 DEF DeskInv, ReservedMatchesAccepted, RequestsOn
  <2>3. QED
    BY <2>1, <2>2
<1>6. \A x \in Books : book'[x].status = "donated" =>
        \E r \in Requests : req'[r].book = x /\ req'[r].status = "completed"
  <2> SUFFICES ASSUME NEW x \in Books, book'[x].status = "donated"
               PROVE  \E r \in Requests : /\ req'[r].book = x
                                          /\ req'[r].status = "completed"
    OBVIOUS
  <2>1. CASE x = b
    BY <1>1, <1>2, <2>1
  <2>2. CASE x # b
    BY <1>1, <2>2 DEF DeskInv, GivenInv, RequestsOn
  <2>3. QED
    BY <2>1, <2>2
<1>7. \A r \in Requests : req'[r].status \in {"pending", "completed"} =>
        \/ r # q /\ req'[r] = req[r] /\ req[r].book # b /\ req[r].book \in Books
        \/ r = q /\ req'[q].status = "completed"
  BY <1>1, <1>2, <1>4 DEF DeskInv, IInv, RowInv, RowOK
<1>8. QED
  BY <1>1, <1>2, <1>5, <1>6, <1>7 DEF DeskInv, GivenInv, RequestsOn

LEMMA WithdrawnTables ==
  ASSUME DeskInv, NEW b \in Books, Withdrawn(b)
  PROVE  ReservedMatchesAccepted' /\ GivenInv'
<1>1. \A r \in Requests : \/ req[r].book = b /\ req'[r].status = "gone"
                          \/ req[r].book # b /\ req'[r] = req[r]
  BY DEF Withdrawn
<1>2. \A r \in Requests, x \in Books : x # b /\ req[r].book = x => req'[r] = req[r]
  BY DEF Withdrawn
<1>3. /\ book'[b].status = "gone" /\ b # None
      /\ \A x \in Books : x # b => book'[x] = book[x]
      /\ \A r \in Requests : req[r].book = b => req'[r].book = None
  BY DEF Withdrawn
<1>4. \A r \in Requests : req[r].status \in {"pending", "completed"} =>
                             req[r].book \in Books
  BY DEF DeskInv, IInv, RowInv, RowOK
<1>5. ReservedMatchesAccepted'
  BY <1>1, <1>2, <1>3 DEF DeskInv, ReservedMatchesAccepted, RequestsOn
<1>6. GivenInv'
  BY <1>1, <1>2, <1>3, <1>4 DEF DeskInv, GivenInv, RequestsOn
<1>7. QED
  BY <1>5, <1>6

-----------------------------------------------------------------------------
(* The calls a step leaves alone still count on what is so. *)

LEMMA ReadsFrame ==
  ASSUME DeskInv, NEW d \in Calls,
         call'[d] = call[d] \/ call'[d] = IdleCall,
         call[d].op \in {"cancel", "complete", "decline"} =>
            /\ req'[call[d].req].status = req[call[d].req].status
            /\ req'[call[d].req].book = req[call[d].req].book,
         call[d].op = "accept" =>
            book'[call[d].book].status = book[call[d].book].status,
         At(d, "accept", "commit") => req'[call[d].req] = req[call[d].req],
         call[d].op = "request" => book'[call[d].book].status # "donated",
         At(d, "request", "insert") => ~Refused(call[d].book, call[d].by)',
         call[d].at = "cascade" => Exists(call[d].book)'
  PROVE  Reads(d)'
<1>1. Reads(d)
  BY DEF DeskInv, ReadsInv
<1>2. CASE call'[d] = IdleCall
  BY <1>2 DEF Reads, IdleCall, At
<1>3. CASE call'[d] = call[d]
  BY <1>1, <1>3 DEF Reads, At, Exists
<1>4. QED
  BY <1>2, <1>3

LEMMA QuietReads ==
  ASSUME DeskInv, Quiet, NEW d \in Calls,
         call'[d] = call[d] \/ call'[d] = IdleCall
  PROVE  Reads(d)'
<1>1. Reads(d) /\ CallOK(d)
  BY DEF DeskInv, ReadsInv, IInv, CallInv
<1>2. Refused(call[d].book, call[d].by)' <=>
        \E r \in Requests : /\ req[r].book = call'[d].book
                            /\ req[r].by = call'[d].by
                            /\ req[r].status = "declined"
  BY DEF Refused, RequestsOn, Quiet
<1>3. At(d, "request", "insert") /\ call'[d] = call[d]
        => ~Refused(call[d].book, call[d].by)'
  BY <1>1, <1>2 DEF Reads, Refused, RequestsOn
<1>4. call[d].at \in {"cascade", "read", "commit"} \/ call[d].op = "request"
        => call[d].book \in Books
  BY <1>1 DEF CallOK, Busy, Reads
<1>5. CASE call'[d] = IdleCall
  BY <1>5 DEF Reads, IdleCall, At
<1>6. CASE call'[d] = call[d]
  BY <1>1, <1>3, <1>4, <1>6, ReadsFrame DEF Quiet, Reads, Exists
<1>7. QED
  BY <1>5, <1>6

\* Whether a student was refused does not depend on rows that are not declined.
LEMMA StillNotRefused ==
  ASSUME NEW d \in Calls, call'[d] = call[d],
         ~Refused(call[d].book, call[d].by),
         \A r \in Requests : req'[r].status = "declined" => req'[r] = req[r]
  PROVE  ~Refused(call[d].book, call[d].by)'
  BY DEF Refused, RequestsOn

LEMMA FiledReads ==
  ASSUME DeskAlone, DeskInv, NEW c \in Calls, NEW r \in Requests,
         InsertRequest(c, r), NEW d \in Calls
  PROVE  Reads(d)'
<1>1. Filed(r, call[c].book, call[c].by) /\ Busy(c) /\ req[r].status = "unused"
  BY InsertFiles DEF InsertRequest, At, Busy
<1>2. call' = [call EXCEPT ![c] = IdleCall] /\ call \in [Calls -> CallRecord]
  BY DEF InsertRequest, Finish, DeskInv, IInv, TypeOK
<1>3. CASE d = c
  BY <1>2, <1>3 DEF Reads, IdleCall, At
<1>4. CASE d # c
  <2>1. call'[d] = call[d]
    BY <1>2, <1>4
  <2>2. call[d].op \notin {"cancel", "complete", "decline"}
    BY <1>1, <1>4, NobodyAlone
  <2>3. Reads(d) /\ CallOK(d)
    BY DEF DeskInv, ReadsInv, IInv, CallInv
  <2>4. At(d, "accept", "commit") => req'[call[d].req] = req[call[d].req]
    BY <1>1, <2>3 DEF CallOK, Reads, At, Filed
  <2>5. At(d, "request", "insert") => ~Refused(call[d].book, call[d].by)'
    BY <1>1, <2>1, <2>3, StillNotRefused DEF Reads, Filed
  <2>6. book' = book
    BY <1>1 DEF Filed
  <2>7. QED
    BY <2>1, <2>2, <2>3, <2>4, <2>5, <2>6, ReadsFrame DEF Reads, Exists
<1>5. QED
  BY <1>3, <1>4

\* An answer, given by a call that then ends or by the sweep.
LEMMA AnsweredReads ==
  ASSUME DeskAlone, DeskInv, NEW q \in Requests, Answered(q), NEW d \in Calls,
         call'[d] = call[d],
         sweep.at # "idle" \/ \E c \in Calls : c # d /\ Busy(c),
         call[d].at \in {"read", "commit", "cascade"} =>
            call[d].book # req[q].book,
         req'[q].status \in {"declined", "completed"} => ~Busy(d)
  PROVE  Reads(d)'
<1> DEFINE b == req[q].book
<1>1. /\ b \in Books /\ \A r \in Requests : r # q => req'[r] = req[r]
      /\ \A x \in Books : x # b => book'[x] = book[x]
  BY PlaceOfLive DEF Answered, Answer
<1>2. call[d].op \notin {"cancel", "complete", "decline"}
  BY NobodyAlone
<1>3. Reads(d) /\ CallOK(d)
  BY DEF DeskInv, ReadsInv, IInv, CallInv
<1>4. CASE ~Busy(d)
  <2>1. call[d].at = "idle" /\ call[d].op = "none"
    BY <1>3, <1>4 DEF Reads, Busy
  <2>2. QED
    BY <2>1 DEF Reads, At
<1>5. CASE Busy(d)
  <2>1. call[d].book \in Books
    BY <1>3, <1>5 DEF CallOK
  <2>2. call[d].at \in {"read", "commit", "cascade"} =>
          book'[call[d].book] = book[call[d].book]
    BY <1>1, <2>1
  <2>3. At(d, "accept", "commit") => req'[call[d].req] = req[call[d].req]
    BY <1>1, <1>3 DEF CallOK, At
  <2>4. book'[b].status = "donated" => req'[q].status = "completed"
    BY DEF Answered, Answer
  <2>5. call[d].op = "request" => book'[call[d].book].status # "donated"
    BY <1>1, <1>3, <1>5, <2>1, <2>4 DEF Reads
  <2>6. \A r \in Requests : req'[r].status = "declined" => req'[r] = req[r]
    BY <1>1, <1>5
  <2>7. At(d, "request", "insert") => ~Refused(call[d].book, call[d].by)'
    BY <1>3, <2>6, StillNotRefused DEF Reads
  <2>8. QED
    BY <1>2, <1>3, <2>2, <2>3, <2>5, <2>7, ReadsFrame DEF Reads, Exists
<1>6. QED
  BY <1>4, <1>5

LEMMA AnswersKeepReads ==
  ASSUME DeskAlone, DeskInv, NEW c \in Calls,
         AcceptCommit(c) \/ CancelCommit(c) \/ CompleteCommit(c) \/ DeclineWrite(c)
  PROVE  ReadsInv'
<1> DEFINE q == call[c].req
<1>1. /\ q \in Requests /\ req[q].book = call[c].book /\ Answered(q)
      /\ Busy(c) /\ call[c].book \in Books
  <2>1. Busy(c)
    BY DEF AcceptCommit, CancelCommit, CompleteCommit, DeclineWrite, At, Busy
  <2>2. QED
    BY <2>1, AcceptAnswers, CancelAnswers, CompleteAnswers, DeclineAnswers
       DEF DeskInv, IInv, CallInv, CallOK
<1>2. call' = [call EXCEPT ![c] = IdleCall] /\ call \in [Calls -> CallRecord]
  BY DEF AcceptCommit, CancelCommit, CompleteCommit, DeclineWrite, Finish,
         DeskInv, IInv, TypeOK
<1> SUFFICES ASSUME NEW d \in Calls PROVE Reads(d)'
  BY DEF ReadsInv
<1>3. CASE d = c
  BY <1>2, <1>3 DEF Reads, IdleCall, At
<1>4. CASE d # c
  <2>1. call'[d] = call[d]
    BY <1>2, <1>4
  <2>2. call[c].op \in {"cancel", "complete", "decline"} => ~Busy(d)
    BY <1>4 DEF DeskAlone, DeskInv, AloneInv
  <2>3. call[d].at \in {"read", "commit", "cascade"} =>
          call[d].book # call[c].book
    <3>1. CASE DeclineWrite(c)
      BY <2>2, <3>1 DEF DeclineWrite, At, Busy
    <3>2. CASE ~DeclineWrite(c)
      <4>1. HoldsBook(c, call[c].book)
        BY <3>2 DEF AcceptCommit, CancelCommit, CompleteCommit, At, HoldsBook
      <4>2. QED
        BY <1>1, <1>4, <4>1 DEF DeskInv, IInv, LockInv, HoldsBook
    <3>3. QED
      BY <3>1, <3>2
  <2>4. req'[q].status \in {"declined", "completed"} => ~Busy(d)
    <3>1. CASE AcceptCommit(c)
      <4>1. req'[q].status = "accepted"
        <5>1. req'[q] = [req[q] EXCEPT !.status = "accepted",
                                       !.acceptedAt = TRUE]
          BY <1>1, <3>1 DEF AcceptCommit
        <5>2. req[q] \in RequestRow
          BY <1>1 DEF DeskInv, IInv, TypeOK
        <5>3. QED
          BY <5>1, <5>2 DEF RequestRow
      <4>2. QED
        BY <4>1
    <3>2. CASE ~AcceptCommit(c)
      BY <2>2, <3>2 DEF CancelCommit, CompleteCommit, DeclineWrite, At
    <3>3. QED
      BY <3>1, <3>2
  <2>5. QED
    BY <1>1, <1>4, <2>1, <2>3, <2>4, AnsweredReads
<1>5. QED
  BY <1>3, <1>4

LEMMA ReleaseKeepsReads ==
  ASSUME DeskAlone, DeskInv, SweepRelease
  PROVE  ReadsInv'
<1> DEFINE q == sweep.req
<1>1. q \in Requests /\ Answered(q)
  BY ReleaseAnswers
<1>2. sweep.at # "idle" /\ call' = call /\ BookFree(req[q].book)
  BY DEF SweepRelease
<1>3. req'[q].status = "expired"
  BY <1>1, RestOfRequest DEF SweepRelease, DeskInv, IInv
<1> SUFFICES ASSUME NEW d \in Calls PROVE Reads(d)'
  BY DEF ReadsInv
<1>4. call[d].at \in {"read", "commit", "cascade"} => call[d].book # req[q].book
  BY <1>2 DEF BookFree, HoldsBook
<1>5. QED
  BY <1>1, <1>2, <1>3, <1>4, AnsweredReads

LEMMA DeleteKeepsReads ==
  ASSUME DeskAlone, DeskInv, NEW c \in Calls, DeleteCascade(c)
  PROVE  ReadsInv'
<1> DEFINE b == call[c].book
<1>1. b \in Books /\ Withdrawn(b) /\ Busy(c) /\ HoldsBook(c, b)
  BY DeleteWithdraws DEF DeleteCascade, Busy, HoldsBook
<1>2. call' = [call EXCEPT ![c] = IdleCall] /\ call \in [Calls -> CallRecord]
  BY DEF DeleteCascade, Finish, DeskInv, IInv, TypeOK
<1> SUFFICES ASSUME NEW d \in Calls PROVE Reads(d)'
  BY DEF ReadsInv
<1>3. CASE d = c
  BY <1>2, <1>3 DEF Reads, IdleCall, At
<1>4. CASE d # c
  <2>1. call'[d] = call[d]
    BY <1>2, <1>4
  <2>2. call[d].op \notin {"cancel", "complete", "decline"}
    BY <1>1, <1>4, NobodyAlone
  <2>3. Reads(d) /\ CallOK(d)
    BY DEF DeskInv, ReadsInv, IInv, CallInv
  <2>4. call[d].at \in {"read", "commit", "cascade"} =>
          /\ call[d].book \in Books /\ call[d].book # b
          /\ book'[call[d].book] = book[call[d].book]
    <3>1. call[d].at \in {"read", "commit", "cascade"} => call[d].book # b
      BY <1>1, <1>4 DEF DeskInv, IInv, LockInv, HoldsBook
    <3>2. QED
      BY <1>1, <2>3, <3>1 DEF CallOK, Busy, Withdrawn
  <2>5. At(d, "accept", "commit") => req'[call[d].req] = req[call[d].req]
    BY <1>1, <2>3, <2>4 DEF CallOK, At, Withdrawn
  <2>6. call[d].op = "request" => book'[call[d].book].status # "donated"
    <3>1. call[d].op = "request" => call[d].book \in Books
      BY <2>3 DEF Reads, CallOK, Busy
    <3>2. QED
      BY <1>1, <2>3, <3>1 DEF Withdrawn, Reads
  <2>7. \A r \in Requests : req'[r].status = "declined" => req'[r] = req[r]
    BY <1>1 DEF Withdrawn
  <2>8. At(d, "request", "insert") => ~Refused(call[d].book, call[d].by)'
    BY <2>1, <2>3, <2>7, StillNotRefused DEF Reads
  <2>9. QED
    BY <2>1, <2>2, <2>3, <2>4, <2>5, <2>6, <2>8, ReadsFrame DEF Reads, Exists
<1>5. QED
  BY <1>3, <1>4

-----------------------------------------------------------------------------
(* The steps, one group at a time. *)

LEMMA AloneKept ==
  ASSUME AloneInv, ReadsInv, TypeOK,
         sweep.at = "idle" => sweep'.at = "idle",
         \A d \in Calls :
            \/ call'[d] = IdleCall
            \/ Busy(d) /\ call'[d].op = call[d].op
            \/ call'[d] = call[d]
  PROVE  AloneInv'
<1>1. "none" \notin Alone
  BY DEF Ops
<1>2. \A d \in Calls : call'[d].op \in Alone => call'[d].op = call[d].op
  BY <1>1 DEF IdleCall
<1>3. \A d \in Calls : Busy(d)' => Busy(d)
  BY DEF Busy, IdleCall
<1>4. QED
  BY <1>2, <1>3 DEF AloneInv

\* The tables stay, and at most one call ends.
LEMMA EndsKeepDesk ==
  ASSUME DeskInv, IInv', UNCHANGED <<book, req, sweep>>,
         \A d \in Calls : call'[d] = call[d] \/ call'[d] = IdleCall
  PROVE  DeskInv'
<1>1. Quiet
  BY DEF Quiet
<1>2. ReadsInv'
  BY <1>1, QuietReads DEF ReadsInv
<1>3. AloneInv' /\ ListInv'
  BY AloneKept DEF DeskInv, IInv, ListInv
<1>4. QED
  BY <1>1, <1>2, <1>3, QuietTables DEF DeskInv

LEMMA StartsKeepDesk ==
  ASSUME DeskAlone, DeskInv, IInv', NEW c \in Calls, CallStarts(c)
  PROVE  DeskInv'
<1> USE DEF Tables
<1>1. UNCHANGED <<book, req, overdue, sweep>>
  BY DEF CallStarts, RequestRead, UpdateRead, RemoveRead, AcceptLock,
         CancelRead, CompleteRead, DeclineRead, AdminDeleteRead
<1>2. /\ ~Busy(c) /\ \A d \in Calls : d # c => call'[d] = call[d]
      /\ \E op \in Ops : MayStart(op) /\ call'[c].op = op
  BY DEF CallStarts, RequestRead, UpdateRead, RemoveRead, AcceptLock,
         CancelRead, CompleteRead, DeclineRead, AdminDeleteRead, Start, Ops,
         DeskInv, IInv, TypeOK
<1>3. AloneInv'
  <2>1. PICK op \in Ops : MayStart(op) /\ call'[c].op = op
    BY <1>2
  <2>2. \A d \in Calls : d # c => call'[d].op \notin Alone
    BY <1>2, <2>1 DEF MayStart
  <2>3. op \in Alone => sweep.at = "idle" /\ \A d \in Calls : ~Busy(d)
    BY <2>1 DEF MayStart
  <2>4. QED
    BY <1>1, <1>2, <2>1, <2>2, <2>3 DEF AloneInv, Busy
<1>4. ReadsInv'
  <2>1. Reads(c)'
    BY <1>1 DEF CallStarts, RequestRead, UpdateRead, RemoveRead, AcceptLock,
           CancelRead, CompleteRead, DeclineRead, AdminDeleteRead, Start,
           DeskInv, IInv, TypeOK, Reads, At, RequestsOn
  <2>2. ASSUME NEW d \in Calls, d # c PROVE Reads(d)'
    BY <1>1, <1>2, <2>2, QuietReads DEF Quiet
  <2>3. QED
    BY <2>1, <2>2 DEF ReadsInv
<1>5. Quiet /\ ListInv'
  BY <1>1 DEF Quiet, DeskInv, ListInv
<1>6. QED
  BY <1>3, <1>4, <1>5, QuietTables DEF DeskInv

LEMMA MovesKeepDesk ==
  ASSUME DeskInv, IInv', NEW c \in Calls,
         \/ RequestCheckActive(c) \/ RequestCheckRefused(c) \/ InsertFails(c)
         \/ AcceptRead(c) \/ CancelLock(c) \/ CompleteLock(c)
         \/ CountPending(c) \/ DeleteLock(c) \/ CallIsVictim(c)
  PROVE  DeskInv'
<1> USE DEF Tables
<1>1. UNCHANGED <<book, req, overdue, sweep>> /\ call \in [Calls -> CallRecord]
  BY DEF RequestCheckActive, RequestCheckRefused, InsertFails, AcceptRead,
         CancelLock, CompleteLock, CountPending, DeleteLock, CallIsVictim,
         DeskInv, IInv, TypeOK
<1>2. CASE Finish(c)
  BY <1>1, <1>2, EndsKeepDesk DEF Finish
<1>3. ASSUME NEW at, Goto(c, at),
             \/ at = "refused" /\ At(c, "request", "active")
             \/ /\ at = "insert" /\ At(c, "request", "refused")
                /\ ~Refused(call[c].book, call[c].by)
             \/ /\ at = "commit" /\ At(c, "accept", "read")
                /\ req[call[c].req].status = "pending"
             \/ /\ at = "commit" /\ At(c, "cancel", "lock")
                /\ call[c].seen \in Active
             \/ at = "commit" /\ At(c, "complete", "lock")
             \/ /\ at = (IF call[c].op = "update" THEN "write" ELSE "delete")
                /\ call[c].at = "count"
             \/ at = "cascade" /\ call[c].at = "delete" /\ Exists(call[c].book)
      PROVE  DeskInv'
  <2>1. /\ call'[c].at = at /\ call'[c].op = call[c].op
        /\ call'[c].book = call[c].book /\ call'[c].req = call[c].req
        /\ call'[c].by = call[c].by /\ call'[c].seen = call[c].seen
    <3>1. call[c] \in CallRecord /\ call'[c] = [call[c] EXCEPT !.at = at]
      BY <1>1, <1>3 DEF Goto
    <3>2. QED
      BY <3>1 DEF CallRecord
  <2>2. Busy(c)
    BY <1>3 DEF At, Busy
  <2>3. \A d \in Calls : d # c => call'[d] = call[d]
    BY <1>1, <1>3 DEF Goto
  <2>4. AloneInv'
    BY <1>1, <2>1, <2>2, <2>3, AloneKept DEF DeskInv, IInv
  <2>5. Reads(c)'
    <3>1. Reads(c)
      BY DEF DeskInv, ReadsInv
    <3>2. Refused(call[c].book, call[c].by)' <=> Refused(call[c].book, call[c].by)
      BY <1>1, <2>1 DEF Refused, RequestsOn
    <3>3. Exists(call[c].book)' <=> Exists(call[c].book)
      BY <1>1, <2>1 DEF Exists
    <3>4. QED
      BY <1>1, <1>3, <2>1, <3>1, <3>2, <3>3 DEF Reads, At, Busy
  <2>6. ASSUME NEW d \in Calls, d # c PROVE Reads(d)'
    BY <1>1, <2>3, <2>6, QuietReads DEF Quiet
  <2>7. ReadsInv' /\ Quiet /\ ListInv'
    BY <1>1, <2>5, <2>6 DEF ReadsInv, Quiet, DeskInv, ListInv
  <2>8. QED
    BY <2>4, <2>7, QuietTables DEF DeskInv
<1>4. QED
  BY <1>2, <1>3 DEF RequestCheckActive, RequestCheckRefused, InsertFails,
     AcceptRead, CancelLock, CompleteLock, CountPending, DeleteLock,
     CallIsVictim, PendingOn

\* One of the listed requests is answered only while the sweep runs.
LEMMA ListKept ==
  ASSUME DeskInv, sweep' = sweep, sweep.left \subseteq Requests,
         \A r \in Requests : req[r].status \in {"accepted", "gone"} =>
            \/ req'[r].status \in {"accepted", "gone"}
            \/ sweep.at = "idle"
  PROVE  ListInv'
  BY DEF DeskInv, ListInv

LEMMA WritesKeepDesk ==
  ASSUME DeskAlone, DeskInv, IInv', NEW c \in Calls,
         \/ \E r \in Requests : InsertRequest(c, r)
         \/ AcceptCommit(c) \/ CancelCommit(c) \/ CompleteCommit(c)
         \/ DeclineWrite(c) \/ DeleteCascade(c)
  PROVE  DeskInv'
<1>1. sweep' = sweep /\ sweep.left \subseteq Requests
      /\ \A d \in Calls : call'[d] = call[d] \/ call'[d] = IdleCall
  BY DEF InsertRequest, AcceptCommit, CancelCommit, CompleteCommit,
         DeclineWrite, DeleteCascade, Finish, DeskInv, IInv, TypeOK, SweepRecord
<1>2. AloneInv'
  BY <1>1, AloneKept DEF DeskInv, IInv
<1>3. ASSUME NEW r \in Requests, InsertRequest(c, r) PROVE DeskInv'
  <2>1. Filed(r, call[c].book, call[c].by) /\ call[c].book \in Books
    BY <1>3, InsertFiles
       DEF InsertRequest, At, Busy, DeskInv, IInv, CallInv, CallOK
  <2>2. ListInv'
    BY <1>1, <2>1, ListKept DEF Filed
  <2>3. ReadsInv'
    BY <1>3, FiledReads DEF ReadsInv
  <2>4. QED
    BY <1>2, <2>1, <2>2, <2>3, FiledTables DEF DeskInv
<1>4. ASSUME AcceptCommit(c) \/ CancelCommit(c) \/ CompleteCommit(c)
             \/ DeclineWrite(c)
      PROVE  DeskInv'
  <2> DEFINE q == call[c].req
  <2>1. q \in Requests /\ Answered(q)
    BY <1>4, AcceptAnswers, CancelAnswers, CompleteAnswers, DeclineAnswers
  <2>2. req[q].status # "accepted" \/ sweep.at = "idle"
    <3>1. CASE AcceptCommit(c)
      BY <3>1 DEF AcceptCommit, At, DeskInv, ReadsInv, Reads
    <3>2. CASE ~AcceptCommit(c)
      BY <1>4, <3>2 DEF CancelCommit, CompleteCommit, DeclineWrite, At,
                        DeskAlone, DeskInv, AloneInv
    <3>3. QED
      BY <3>1, <3>2
  <2>3. req[q].status # "gone" /\ \A r \in Requests : r # q => req'[r] = req[r]
    BY <2>1 DEF Answered, Answer, Active
  <2>4. ListInv'
    BY <1>1, <2>2, <2>3, ListKept
  <2>5. QED
    BY <1>2, <1>4, <2>1, <2>4, AnswersKeepReads, AnsweredTables DEF DeskInv
<1>5. ASSUME DeleteCascade(c) PROVE DeskInv'
  <2>1. call[c].book \in Books /\ Withdrawn(call[c].book)
    BY <1>5, DeleteWithdraws
  <2>2. ListInv'
    BY <1>1, <2>1, ListKept DEF Withdrawn
  <2>3. QED
    BY <1>2, <1>5, <2>1, <2>2, DeleteKeepsReads, WithdrawnTables DEF DeskInv
<1>6. QED
  BY <1>3, <1>4, <1>5

LEMMA SweepKeepsDesk ==
  ASSUME DeskAlone, DeskInv, IInv',
         \/ SweepList \/ (\E r \in Requests : SweepTake(r)) \/ SweepRelease
         \/ SweepIsVictim
  PROVE  DeskInv'
<1>1. call' = call /\ sweep.left \subseteq Requests /\ sweep \in SweepRecord
  BY DEF SweepList, SweepTake, SweepRelease, SweepIsVictim, DeskInv, IInv,
         TypeOK, SweepRecord
<1>2. CASE SweepList
  <2>1. UNCHANGED <<book, req>> /\ Quiet
    BY <1>2 DEF SweepList, Tables, Quiet
  <2>2. AloneInv'
    BY <1>1, <1>2 DEF SweepList, MayStart, AloneInv
  <2>3. ReadsInv'
    BY <1>1, <2>1, QuietReads DEF ReadsInv
  <2>4. ListInv'
    BY <1>2, <2>1 DEF SweepList, Stale, ListInv
  <2>5. QED
    BY <2>1, <2>2, <2>3, <2>4, QuietTables DEF DeskInv
<1>3. ASSUME SweepIsVictim \/ \E r \in Requests : SweepTake(r) PROVE DeskInv'
  <2>1. UNCHANGED <<book, req>> /\ Quiet
    BY <1>3 DEF SweepIsVictim, SweepTake, Tables, Quiet
  <2>2. sweep.at # "idle"
    BY <1>3 DEF SweepIsVictim, SweepTake, Deadlocked
  <2>3. AloneInv'
    BY <1>1, <2>2, AloneKept DEF DeskInv, IInv
  <2>4. ReadsInv'
    BY <1>1, <2>1, QuietReads DEF ReadsInv
  <2>5. ListInv'
    <3>1. CASE sweep' = IdleSweep
      BY <3>1 DEF IdleSweep, ListInv
    <3>2. ASSUME NEW r \in Requests, SweepTake(r), sweep' # IdleSweep
          PROVE  ListInv'
      <4>1. sweep'.left \subseteq sweep.left /\ sweep'.at # "idle"
        BY <1>1, <3>2 DEF SweepTake, AfterItem, SweepRecord
      <4>2. QED
        BY <2>1, <4>1 DEF DeskInv, ListInv
    <3>3. QED
      BY <1>3, <3>1, <3>2 DEF SweepIsVictim
  <2>6. QED
    BY <2>1, <2>3, <2>4, <2>5, QuietTables DEF DeskInv
<1>4. CASE SweepRelease
  <2>1. sweep.req \in Requests /\ Answered(sweep.req)
    BY <1>4, ReleaseAnswers
  <2>2. sweep.at # "idle"
    BY <1>4 DEF SweepRelease
  <2>3. AloneInv'
    BY <1>1, <2>2, AloneKept DEF DeskInv, IInv
  <2>4. ListInv'
    <3>1. \A r \in Requests : r # sweep.req => req'[r] = req[r]
      BY <2>1 DEF Answered, Answer
    <3>2. CASE sweep' = IdleSweep
      BY <3>2 DEF IdleSweep, ListInv
    <3>3. CASE sweep' # IdleSweep
      <4>1. sweep'.left = sweep.left \ {sweep.req} /\ sweep'.at # "idle"
        BY <1>4, <3>3 DEF SweepRelease, AfterItem
      <4>2. QED
        BY <1>1, <3>1, <4>1 DEF DeskInv, ListInv
    <3>4. QED
      BY <3>2, <3>3
  <2>5. QED
    BY <1>4, <2>1, <2>3, <2>4, ReleaseKeepsReads, AnsweredTables DEF DeskInv
<1>5. QED
  BY <1>2, <1>3, <1>4

LEMMA SinglesKeepDesk ==
  ASSUME DeskInv, IInv',
         \/ \E b \in Books : Donate(b)
         \/ \E b \in Books, hidden \in BOOLEAN : SetBookHidden(b, hidden)
         \/ \E c \in Calls, content \in Contents : UpdateWrite(c, content)
         \/ \E r \in Requests : WindowElapses(r)
         \/ UNCHANGED vars
  PROVE  DeskInv'
<1>1. Quiet
  <2>1. ASSUME NEW b \in Books, Donate(b) PROVE Quiet
    BY <2>1, RestOfBook DEF Donate, Quiet, DeskInv, IInv
  <2>2. ASSUME NEW b \in Books, NEW hidden \in BOOLEAN, SetBookHidden(b, hidden)
        PROVE  Quiet
    BY <2>2 DEF SetBookHidden, Quiet, DeskInv, IInv, TypeOK, BookRow
  <2>3. ASSUME NEW c \in Calls, NEW content \in Contents, UpdateWrite(c, content)
        PROVE  Quiet
    BY <2>3 DEF UpdateWrite, Quiet, DeskInv, IInv, TypeOK, BookRow
  <2>4. ASSUME UNCHANGED <<book, req>> PROVE Quiet
    BY <2>4 DEF Quiet
  <2>5. QED
    BY <2>1, <2>2, <2>3, <2>4 DEF WindowElapses, vars
<1>2. sweep' = sweep /\ req' = req
      /\ \A d \in Calls : call'[d] = call[d] \/ call'[d] = IdleCall
  BY DEF Donate, SetBookHidden, UpdateWrite, WindowElapses, vars, Finish,
         DeskInv, IInv, TypeOK
<1>3. AloneInv' /\ ListInv'
  BY <1>2, AloneKept DEF DeskInv, IInv, ListInv
<1>4. ReadsInv'
  BY <1>1, <1>2, QuietReads DEF ReadsInv
<1>5. QED
  BY <1>1, <1>3, <1>4, QuietTables DEF DeskInv

LEMMA RestartKeepsDesk == ASSUME DeskInv, IInv', Restart PROVE DeskInv'
<1>1. Quiet /\ sweep' = IdleSweep /\ \A d \in Calls : call'[d] = IdleCall
  BY DEF Restart, Tables, Quiet
<1>2. "none" \notin Alone
  BY DEF Ops
<1>3. AloneInv' /\ ListInv'
  BY <1>1, <1>2 DEF AloneInv, IdleCall, ListInv, IdleSweep
<1>4. ReadsInv'
  BY <1>1, QuietReads DEF ReadsInv
<1>5. QED
  BY <1>1, <1>3, <1>4, QuietTables DEF DeskInv

LEMMA InitDesk == Init => DeskInv
<1> SUFFICES ASSUME Init PROVE DeskInv
  OBVIOUS
<1>1. IInv
  BY InitInv
<1>2. /\ \A b \in Books : book[b].status = "unlisted"
      /\ \A r \in Requests : req[r].status = "unused" /\ req[r].book = None
      /\ \A c \in Calls : call[c] = IdleCall
      /\ sweep = IdleSweep
  BY DEF Init, NoRow
<1>3. ReservedMatchesAccepted /\ GivenInv
  BY <1>2 DEF ReservedMatchesAccepted, GivenInv, RequestsOn
<1>4. AloneInv /\ ReadsInv /\ ListInv
  BY <1>2 DEF AloneInv, ReadsInv, Reads, At, ListInv, IdleCall, IdleSweep, Ops
<1>5. QED
  BY <1>1, <1>3, <1>4 DEF DeskInv

LEMMA NextDesk == DeskAlone /\ DeskInv /\ [Next]_vars => DeskInv'
<1> SUFFICES ASSUME DeskAlone, DeskInv, [Next]_vars PROVE DeskInv'
  OBVIOUS
<1>1. IInv'
  BY NextInv DEF DeskInv
<1>2. ASSUME NEW c \in Calls, CallSteps(c) PROVE DeskInv'
  BY <1>1, <1>2, MovesKeepDesk, WritesKeepDesk, SinglesKeepDesk DEF CallSteps
<1>3. ASSUME NEW c \in Calls, CallStarts(c) PROVE DeskInv'
  BY <1>1, <1>3, StartsKeepDesk
<1>4. ASSUME NEW c \in Calls, CallIsVictim(c) PROVE DeskInv'
  BY <1>1, <1>4, MovesKeepDesk
<1>5. QED
  BY <1>1, <1>2, <1>3, <1>4, SinglesKeepDesk, SweepKeepsDesk, RestartKeepsDesk
     DEF Next, Running, SweepSteps, Deadlocks

-----------------------------------------------------------------------------
(* What the handlers promise, from what a step can be. *)

LEMMA StepKinds ==
  ASSUME DeskInv, [Next]_vars
  PROVE  \/ req' = req /\ \A x \in Books : book'[x].status = book[x].status
         \/ \E b \in Books : Donate(b)
         \/ \E c \in Calls, r \in Requests : InsertRequest(c, r)
         \/ \E q \in Requests : Answered(q)
         \/ \E c \in Calls : DeleteCascade(c)
<1> DEFINE Still ==
             req' = req /\ \A x \in Books : book'[x].status = book[x].status
<1>1. ASSUME UNCHANGED <<book, req>> PROVE Still
  BY <1>1
<1>2. ASSUME NEW c \in Calls, CallStarts(c) PROVE Still
  BY <1>1, <1>2
     DEF CallStarts, RequestRead, UpdateRead, RemoveRead, AcceptLock,
         CancelRead, CompleteRead, DeclineRead, AdminDeleteRead, Tables
<1>3. ASSUME NEW c \in Calls, NEW content \in Contents, UpdateWrite(c, content)
      PROVE  Still
  BY <1>3 DEF UpdateWrite, DeskInv, IInv, TypeOK, BookRow
<1>4. ASSUME NEW b \in Books, NEW hidden \in BOOLEAN, SetBookHidden(b, hidden)
      PROVE  Still
  BY <1>4 DEF SetBookHidden, DeskInv, IInv, TypeOK, BookRow
<1>5. ASSUME NEW c \in Calls,
             AcceptCommit(c) \/ CancelCommit(c) \/ CompleteCommit(c)
               \/ DeclineWrite(c)
      PROVE  \E q \in Requests : Answered(q)
  BY <1>5, AcceptAnswers, CancelAnswers, CompleteAnswers, DeclineAnswers
<1>6. ASSUME NEW c \in Calls,
             \/ RequestCheckActive(c) \/ RequestCheckRefused(c) \/ InsertFails(c)
             \/ AcceptRead(c) \/ CancelLock(c) \/ CompleteLock(c)
             \/ CountPending(c) \/ DeleteLock(c) \/ CallIsVictim(c)
      PROVE  Still
  BY <1>1, <1>6
     DEF RequestCheckActive, RequestCheckRefused, InsertFails, AcceptRead,
         CancelLock, CompleteLock, CountPending, DeleteLock, CallIsVictim, Tables
<1>7. ASSUME \/ SweepList \/ (\E r \in Requests : SweepTake(r) \/ WindowElapses(r))
             \/ SweepIsVictim \/ Restart \/ UNCHANGED vars
      PROVE  Still
  BY <1>1, <1>7
     DEF SweepList, SweepTake, WindowElapses, SweepIsVictim, Restart, vars, Tables
<1>8. ASSUME SweepRelease PROVE \E q \in Requests : Answered(q)
  BY <1>8, ReleaseAnswers
<1>9. QED
  BY <1>2, <1>3, <1>4, <1>5, <1>6, <1>7, <1>8
     DEF Next, Running, CallSteps, SweepSteps, Deadlocks

LEMMA FinishedStay ==
  ASSUME DeskInv, [Next]_vars, NEW r \in Requests,
         req[r].status \in Finished \cup {"declined"}
  PROVE  req'[r].status \in {req[r].status, "gone"}
<1> USE DEF Finished, Active
<1>1. ASSUME NEW c \in Calls, NEW s \in Requests, InsertRequest(c, s)
      PROVE  req'[r] = req[r]
  BY <1>1, InsertFiles DEF Filed
<1>2. ASSUME NEW q \in Requests, Answered(q) PROVE req'[r] = req[r]
  BY <1>2 DEF Answered, Answer
<1>3. ASSUME NEW c \in Calls, DeleteCascade(c)
      PROVE  req'[r].status \in {req[r].status, "gone"}
  BY <1>3, DeleteWithdraws DEF Withdrawn
<1>4. ASSUME NEW b \in Books, Donate(b) PROVE req' = req
  BY <1>4 DEF Donate
<1>5. QED
  BY <1>1, <1>2, <1>3, <1>4, StepKinds

LEMMA RefusalStands ==
  ASSUME DeskInv, [Next]_vars, NEW r \in Requests,
         req[r].status = "unused", req'[r].status = "pending"
  PROVE  ~Refused(req'[r].book, req'[r].by)
<1> USE DEF Active
<1>1. ASSUME NEW c \in Calls, NEW s \in Requests, InsertRequest(c, s)
      PROVE  ~Refused(req'[r].book, req'[r].by)
  BY <1>1, InsertFiles DEF Filed
<1>2. ASSUME NEW q \in Requests, Answered(q) PROVE req'[r] = req[r]
  BY <1>2 DEF Answered, Answer
<1>3. ASSUME NEW c \in Calls, DeleteCascade(c) PROVE req'[r].status # "pending"
  BY <1>3, DeleteWithdraws DEF Withdrawn
<1>4. ASSUME NEW b \in Books, Donate(b) PROVE req' = req
  BY <1>4 DEF Donate
<1>5. QED
  BY <1>1, <1>2, <1>3, <1>4, StepKinds

-----------------------------------------------------------------------------
(* Edits, and the donor's own delete. *)

\* A step that disturbs no listing somebody asked for.
LEMMA FrozenKept ==
  ASSUME DeskInv, FrozenWhileAsked, [Next]_vars,
         \A x \in Books : \/ book'[x].content = book[x].content
                          \/ book[x].status = "available" /\ PendingOn(x) = {}
                             /\ req' = req
  PROVE  FrozenWhileAsked'
<1> SUFFICES ASSUME NEW r \in Requests, req'[r].status \in Active
             PROVE  req'[r].asked = book'[req'[r].book].content
  BY DEF FrozenWhileAsked
<1>1. CASE req'[r] = req[r]
  <2>1. /\ req[r].status \in Active /\ req[r].book \in Books
        /\ req[r].asked = book[req[r].book].content
    BY <1>1, PlaceOfLive DEF FrozenWhileAsked
  <2>2. book[req[r].book].status = "available" => r \in PendingOn(req[r].book)
    BY <2>1, PlaceOfLive DEF PendingOn, RequestsOn, Active
  <2>3. QED
    BY <1>1, <2>1, <2>2
<1>2. CASE req'[r] # req[r]
  <2>1. req' # req
    BY <1>2
  <2>2. \A x \in Books : book'[x].content = book[x].content
    BY <2>1
  <2>3. ASSUME NEW c \in Calls, NEW s \in Requests, InsertRequest(c, s)
        PROVE  req'[r].asked = book'[req'[r].book].content
    BY <1>2, <2>3, InsertFiles DEF Filed
  <2>4. ASSUME NEW q \in Requests, Answered(q)
        PROVE  req'[r].asked = book'[req'[r].book].content
    <3>1. r = q /\ req[q].status \in Active /\ req'[q].book = req[q].book
          /\ req'[q].asked = req[q].asked
      BY <1>2, <2>4 DEF Answered, Answer
    <3>2. QED
      BY <2>2, <3>1, PlaceOfLive DEF FrozenWhileAsked
  <2>5. ASSUME NEW c \in Calls, DeleteCascade(c) PROVE FALSE
    BY <1>2, <2>5, DeleteWithdraws DEF Withdrawn, Active
  <2>6. ASSUME NEW b \in Books, Donate(b) PROVE FALSE
    BY <2>1, <2>6 DEF Donate
  <2>7. QED
    BY <2>1, <2>3, <2>4, <2>5, <2>6, StepKinds
<1>3. QED
  BY <1>1, <1>2

\* While an edit or a delete of the donor's runs by itself, it alone moves.
LEMMA EditKept ==
  ASSUME EditsAlone, DeskInv, NEW d \in Calls, EditOK(d), req' = req,
         call'[d] = call[d],
         \A x \in Books : book[x].status = "available" =>
                             book'[x].status = "available"
  PROVE  EditOK(d)'
  BY DEF EditOK, PendingOn, RequestsOn

LEMMA OthersIdle ==
  ASSUME EditsAlone, DeskInv, NEW d \in Calls,
         call[d].op \in {"update", "remove"}
  PROVE  sweep.at = "idle" /\ \A c \in Calls : c # d => ~Busy(c)
  BY DEF EditsAlone, DeskInv, AloneInv

LEMMA EditStarts ==
  ASSUME DeskInv, EditInv, EditsAlone, NEW c \in Calls, CallStarts(c)
  PROVE  \A d \in Calls : EditOK(d)'
<1> USE DEF Tables
<1>1. UNCHANGED <<book, req>> /\ \A d \in Calls : d # c => call'[d] = call[d]
  BY DEF CallStarts, RequestRead, UpdateRead, RemoveRead, AcceptLock,
         CancelRead, CompleteRead, DeclineRead, AdminDeleteRead, Start,
         DeskInv, IInv, TypeOK
<1>2. EditOK(c)'
  BY <1>1 DEF CallStarts, RequestRead, UpdateRead, RemoveRead, AcceptLock,
         CancelRead, CompleteRead, DeclineRead, AdminDeleteRead, Start,
         DeskInv, IInv, TypeOK, EditOK, OpenAndMine
<1>3. QED
  BY <1>1, <1>2, EditKept DEF EditInv

LEMMA EditMoves ==
  ASSUME DeskInv, EditInv, EditsAlone, NEW c \in Calls,
         CallSteps(c) \/ CallIsVictim(c)
  PROVE  \A d \in Calls : EditOK(d)'
<1> USE DEF Tables
<1>1. Busy(c)
  BY DEF CallSteps, RequestCheckActive, RequestCheckRefused, InsertRequest,
         InsertFails, AcceptRead, AcceptCommit, CancelLock, CancelCommit,
         CompleteLock, CompleteCommit, DeclineWrite, CountPending,
         UpdateWrite, DeleteLock, DeleteCascade, CallIsVictim, Deadlocked,
         HoldsBook, At, Busy
<1>2. Finish(c) \/ \E at : Goto(c, at)
  BY DEF CallSteps, RequestCheckActive, RequestCheckRefused, InsertRequest,
         InsertFails, AcceptRead, AcceptCommit, CancelLock, CancelCommit,
         CompleteLock, CompleteCommit, DeclineWrite, CountPending,
         UpdateWrite, DeleteLock, DeleteCascade, CallIsVictim
<1>3. \A d \in Calls : d # c => call'[d] = call[d]
  BY <1>2 DEF Finish, Goto, DeskInv, IInv, TypeOK
<1>4. ASSUME NEW d \in Calls, d # c PROVE EditOK(d)'
  <2>1. call[d].op \notin {"update", "remove"}
    BY <1>1, <1>4, OthersIdle
  <2>2. QED
    BY <1>3, <1>4, <2>1 DEF EditOK
<1>5. EditOK(c)'
  <2>1. CASE Finish(c)
    BY <2>1 DEF Finish, IdleCall, DeskInv, IInv, TypeOK, EditOK
  <2>2. ASSUME NEW at, Goto(c, at), ~Finish(c),
               call[c].op \in {"update", "remove"}
        PROVE  EditOK(c)'
    <3>1. /\ call'[c].at = at /\ call'[c].op = call[c].op
          /\ call'[c].book = call[c].book
      <4>1. call[c] \in CallRecord /\ call'[c] = [call[c] EXCEPT !.at = at]
        BY <2>2 DEF Goto, DeskInv, IInv, TypeOK
      <4>2. QED
        BY <4>1 DEF CallRecord
    <3>2. /\ UNCHANGED <<book, req>>
          /\ \/ call[c].at = "count" /\ PendingOn(call[c].book) = {}
             \/ call[c].at = "delete"
      BY <2>2
         DEF CallSteps, RequestCheckActive, RequestCheckRefused, InsertRequest,
             InsertFails, AcceptRead, AcceptCommit, CancelLock, CancelCommit,
             CompleteLock, CompleteCommit, DeclineWrite, CountPending,
             UpdateWrite, DeleteLock, DeleteCascade, CallIsVictim, At
    <3>3. EditOK(c)
      BY DEF EditInv
    <3>4. PendingOn(call[c].book) = {}
      BY <2>2, <3>2, <3>3 DEF EditOK
    <3>5. PendingOn(call[c].book)' = {}
      BY <3>1, <3>2, <3>4 DEF PendingOn, RequestsOn
    <3>6. QED
      BY <2>2, <3>1, <3>2, <3>3, <3>5 DEF EditOK
  <2>3. ASSUME NEW at, Goto(c, at), call[c].op \notin {"update", "remove"}
        PROVE  EditOK(c)'
    <3>1. call[c] \in CallRecord /\ call'[c] = [call[c] EXCEPT !.at = at]
      BY <2>3 DEF Goto, DeskInv, IInv, TypeOK
    <3>2. call'[c].op = call[c].op
      BY <3>1 DEF CallRecord
    <3>3. QED
      BY <2>3, <3>2 DEF EditOK
  <2>4. QED
    BY <1>2, <2>1, <2>2, <2>3
<1>6. QED
  BY <1>4, <1>5

LEMMA ContentKept ==
  ASSUME DeskInv, [Next]_vars,
         ~\E c \in Calls, content \in Contents : UpdateWrite(c, content)
  PROVE  \A x \in Books : book'[x].content = book[x].content
<1>1. ASSUME NEW q \in Requests, Answered(q)
      PROVE  \A x \in Books : book'[x].content = book[x].content
  BY <1>1 DEF Answered, Answer
<1>2. ASSUME NEW c \in Calls,
             AcceptCommit(c) \/ CancelCommit(c) \/ CompleteCommit(c)
      PROVE  \A x \in Books : book'[x].content = book[x].content
  BY <1>1, <1>2, AcceptAnswers, CancelAnswers, CompleteAnswers
<1>3. ASSUME NEW c \in Calls, DeleteCascade(c)
      PROVE  \A x \in Books : book'[x].content = book[x].content
  <2>1. call[c].book \in Books
    BY <1>3, DeleteWithdraws
  <2>2. book' = [book EXCEPT ![call[c].book] =
                   [book[call[c].book] EXCEPT !.status = "gone",
                                              !.hidden = FALSE]]
    BY <1>3, <2>1 DEF DeleteCascade, DeskInv, IInv, TypeOK
  <2>3. book[call[c].book] \in BookRow
    BY <2>1 DEF DeskInv, IInv, TypeOK
  <2>4. QED
    BY <2>1, <2>2, <2>3 DEF DeskInv, IInv, TypeOK, BookRow
<1>4. ASSUME SweepRelease
      PROVE  \A x \in Books : book'[x].content = book[x].content
  BY <1>1, <1>4, ReleaseAnswers
<1>5. ASSUME NEW b \in Books, Donate(b)
      PROVE  \A x \in Books : book'[x].content = book[x].content
  BY <1>5, RestOfBook DEF Donate, DeskInv, IInv
<1>6. ASSUME NEW b \in Books, NEW hidden \in BOOLEAN, SetBookHidden(b, hidden)
      PROVE  \A x \in Books : book'[x].content = book[x].content
  BY <1>6 DEF SetBookHidden, DeskInv, IInv, TypeOK, BookRow
<1>7. ASSUME NEW c \in Calls, CallStarts(c) PROVE book' = book
  BY <1>7
     DEF CallStarts, RequestRead, UpdateRead, RemoveRead, AcceptLock,
         CancelRead, CompleteRead, DeclineRead, AdminDeleteRead, Tables
<1>8. ASSUME NEW c \in Calls,
             \/ RequestCheckActive(c) \/ RequestCheckRefused(c) \/ InsertFails(c)
             \/ AcceptRead(c) \/ CancelLock(c) \/ CompleteLock(c)
             \/ CountPending(c) \/ DeleteLock(c) \/ CallIsVictim(c)
             \/ DeclineWrite(c) \/ \E r \in Requests : InsertRequest(c, r)
      PROVE  book' = book
  BY <1>8
     DEF RequestCheckActive, RequestCheckRefused, InsertFails, AcceptRead,
         CancelLock, CompleteLock, CountPending, DeleteLock, CallIsVictim,
         DeclineWrite, InsertRequest, Tables
<1>9. ASSUME \/ SweepList \/ (\E r \in Requests : SweepTake(r) \/ WindowElapses(r))
             \/ SweepIsVictim \/ Restart \/ UNCHANGED vars
      PROVE  book' = book
  BY <1>9
     DEF SweepList, SweepTake, WindowElapses, SweepIsVictim, Restart, vars, Tables
<1>10. QED
  BY <1>2, <1>3, <1>4, <1>5, <1>6, <1>7, <1>8, <1>9
     DEF Next, Running, CallSteps, SweepSteps, Deadlocks

LEMMA NextEdit ==
  EditsAlone /\ DeskAlone /\ DeskInv /\ EditInv /\ [Next]_vars => EditInv'
<1> SUFFICES ASSUME EditsAlone, DeskAlone, DeskInv, EditInv, [Next]_vars
             PROVE  EditInv'
  OBVIOUS
<1>1. FrozenWhileAsked'
  <2>1. ASSUME NEW c \in Calls, NEW content \in Contents, UpdateWrite(c, content)
        PROVE  FrozenWhileAsked'
    <3>1. EditOK(c) /\ At(c, "update", "write") /\ req' = req
      BY <2>1 DEF UpdateWrite, EditInv
    <3>2. /\ call[c].book \in Books /\ book[call[c].book].status = "available"
          /\ PendingOn(call[c].book) = {}
      BY <3>1 DEF EditOK, At
    <3>3. \A x \in Books : x # call[c].book => book'[x] = book[x]
      BY <2>1 DEF UpdateWrite, DeskInv, IInv, TypeOK
    <3>4. QED
      BY <3>1, <3>2, <3>3, FrozenKept DEF EditInv
  <2>2. QED
    BY <2>1, ContentKept, FrozenKept DEF EditInv
<1>2. \A d \in Calls : EditOK(d)'
  <2>1. ASSUME NEW c \in Calls, CallSteps(c) \/ CallStarts(c) \/ CallIsVictim(c)
        PROVE  \A d \in Calls : EditOK(d)'
    BY <2>1, EditMoves, EditStarts
  <2>2. ASSUME SweepSteps \/ SweepIsVictim PROVE \A d \in Calls : EditOK(d)'
    <3>1. sweep.at # "idle" /\ call' = call
      BY <2>2 DEF SweepSteps, SweepTake, SweepRelease, SweepIsVictim, Deadlocked
    <3>2. \A d \in Calls : call[d].op \notin {"update", "remove"}
      BY <3>1, OthersIdle
    <3>3. QED
      BY <3>1, <3>2 DEF EditOK
  <2>3. ASSUME \/ \E b \in Books : Donate(b)
               \/ \E b \in Books, hidden \in BOOLEAN : SetBookHidden(b, hidden)
               \/ \E r \in Requests : WindowElapses(r)
               \/ SweepList \/ UNCHANGED vars
        PROVE  \A d \in Calls : EditOK(d)'
    <3>1. call' = call /\ req' = req
      BY <2>3 DEF Donate, SetBookHidden, WindowElapses, SweepList, Tables, vars
    <3>2. \A x \in Books : book[x].status = "available" =>
                              book'[x].status = "available"
      <4>1. ASSUME NEW b \in Books, Donate(b), NEW x \in Books,
                   book[x].status = "available"
            PROVE  book'[x].status = "available"
        BY <4>1, RestOfBook DEF Donate, DeskInv, IInv
      <4>2. ASSUME NEW b \in Books, NEW hidden \in BOOLEAN,
                   SetBookHidden(b, hidden), NEW x \in Books
            PROVE  book'[x].status = book[x].status
        BY <4>2 DEF SetBookHidden, DeskInv, IInv, TypeOK, BookRow
      <4>3. QED
        BY <2>3, <4>1, <4>2 DEF WindowElapses, SweepList, Tables, vars
    <3>3. QED
      BY <3>1, <3>2, EditKept DEF EditInv
  <2>4. ASSUME Restart PROVE \A d \in Calls : EditOK(d)'
    BY <2>4 DEF Restart, IdleCall, EditOK
  <2>5. QED
    BY <2>1, <2>2, <2>3, <2>4 DEF Next, Running, SweepSteps, Deadlocks
<1>3. QED
  BY <1>1, <1>2 DEF EditInv

LEMMA InitEdit == Init => EditInv
<1> SUFFICES ASSUME Init PROVE EditInv
  OBVIOUS
<1>1. /\ \A r \in Requests : req[r].status = "unused"
      /\ \A c \in Calls : call[c] = IdleCall
  BY DEF Init, NoRow
<1>2. QED
  BY <1>1 DEF EditInv, FrozenWhileAsked, Active, EditOK, IdleCall

LEMMA NothingDropped ==
  ASSUME DeskInv, EditInv, [Next]_vars, NEW r \in Requests,
         req[r].status \in Active, req'[r].status = "gone"
  PROVE  \E c \in Calls : At(c, "adminDelete", "cascade")
<1>1. ASSUME NEW c \in Calls, NEW s \in Requests, InsertRequest(c, s)
      PROVE  FALSE
  BY <1>1, InsertFiles DEF Filed, Active
<1>2. ASSUME NEW q \in Requests, Answered(q) PROVE FALSE
  <2>1. CASE r = q
    BY <1>2, <2>1 DEF Answered, Answer
  <2>2. CASE r # q
    BY <1>2, <2>2 DEF Answered, Answer, Active
  <2>3. QED
    BY <2>1, <2>2
<1>3. ASSUME NEW c \in Calls, DeleteCascade(c)
      PROVE  At(c, "adminDelete", "cascade")
  <2>1. call[c].at = "cascade" /\ Withdrawn(call[c].book)
    BY <1>3, DeleteWithdraws DEF DeleteCascade
  <2>2. req[r].book = call[c].book
    BY <2>1 DEF Withdrawn, Active
  <2>3. call[c].op \in {"remove", "adminDelete"}
    BY <2>1 DEF DeskInv, ReadsInv, Reads
  <2>4. CASE call[c].op = "remove"
    <3>1. PendingOn(call[c].book) = {} /\ book[call[c].book].status = "available"
      BY <2>1, <2>4 DEF EditInv, EditOK
    <3>2. QED
      BY <2>2, <3>1, PlaceOfLive DEF PendingOn, RequestsOn, Active
  <2>5. QED
    BY <2>1, <2>3, <2>4 DEF At
<1>4. ASSUME NEW b \in Books, Donate(b) PROVE req' = req
  BY <1>4 DEF Donate
<1>5. QED
  BY <1>1, <1>2, <1>3, <1>4, StepKinds DEF Active

-----------------------------------------------------------------------------
(* The theorems about the promises. *)

LEMMA DeskHolds == DeskAlone => (Spec => []DeskInv)
<1> SUFFICES ASSUME DeskAlone PROVE Spec => []DeskInv
  OBVIOUS
<1>1. DeskInv /\ [Next]_vars => DeskInv'
  BY NextDesk
<1>2. QED
  BY <1>1, InitDesk, PTL DEF Spec

\* Where cancel, complete and decline run by themselves, a book is reserved
\* exactly while one of its requests is accepted, whatever requests, accepts,
\* edits, deletes, sweeps and restarts overlap.
THEOREM ReservedMeansAccepted == DeskAlone => (Spec => []ReservedMatchesAccepted)
<1> SUFFICES ASSUME DeskAlone PROVE Spec => []ReservedMatchesAccepted
  OBVIOUS
<1>1. DeskInv => ReservedMatchesAccepted
  BY DEF DeskInv
<1>2. QED
  BY <1>1, DeskHolds, PTL

\* With the donor's edits and deletes by themselves as well, everything the
\* desk tells a donor and a student is kept.
THEOREM PromisesHold == DeskAlone /\ EditsAlone => (Spec => PromisesKept)
<1> SUFFICES ASSUME DeskAlone, EditsAlone PROVE Spec => PromisesKept
  OBVIOUS
<1>1. DeskInv /\ EditInv /\ [Next]_vars => EditInv'
  BY NextEdit
<1>2. DeskInv /\ [Next]_vars =>
        [\A r \in Requests :
           req[r].status \in Finished \cup {"declined"} =>
              req'[r].status \in {req[r].status, "gone"}]_vars
  BY FinishedStay
<1>3. DeskInv /\ [Next]_vars =>
        [\A r \in Requests :
           (req[r].status = "unused" /\ req'[r].status = "pending") =>
              ~Refused(req'[r].book, req'[r].by)]_vars
  BY RefusalStands
<1>4. DeskInv /\ EditInv /\ [Next]_vars =>
        [\A r \in Requests :
           (req[r].status \in Active /\ req'[r].status = "gone") =>
              \E c \in Calls : At(c, "adminDelete", "cascade")]_vars
  BY NothingDropped
<1>5. DeskInv => ReservedMatchesAccepted
  BY DEF DeskInv
<1>6. EditInv => FrozenWhileAsked
  BY DEF EditInv
<1>7. QED
  BY <1>1, <1>2, <1>3, <1>4, <1>5, <1>6, InitEdit, DeskHolds, PTL
     DEF Spec, PromisesKept, FinishedStaysFinished, RefusalIsFinal, NoRequestDropped

-----------------------------------------------------------------------------
(* The desk implements the ledger.  A book's place is its status, and the   *)
(* holder of one that is held or given is the one request on it that is     *)
(* accepted or completed.                                                  *)

HoldersKnown ==
  \A b \in Books, r \in Requests :
     req[r].book = b /\ req[r].status \in {"accepted", "completed"}
       => HolderOf(b) = r

PlacesKnown ==
  \A b \in Books :
     /\ book[b].status = "unlisted" => PlaceOf(b) = "unlisted"
     /\ book[b].status = "available" => PlaceOf(b) = "shelf"
     /\ book[b].status = "reserved" => PlaceOf(b) = "held"
     /\ book[b].status = "donated" => PlaceOf(b) = "given"
     /\ book[b].status = "gone" => PlaceOf(b) = "withdrawn"

NobodyHolds ==
  \A b \in Books : book[b].status \notin {"reserved", "donated"}
                     => HolderOf(b) = None

LEMMA PlaceKnown == PlacesKnown /\ NobodyHolds
<1>1. PlacesKnown
  BY Zenon DEF PlacesKnown, PlaceOf
<1>2. NobodyHolds
  BY DEF NobodyHolds, HolderOf
<1>3. QED
  BY <1>1, <1>2

LEMMA HolderKnown == DeskInv => HoldersKnown
<1> SUFFICES ASSUME DeskInv, NEW b \in Books, NEW r \in Requests, req[r].book = b,
                    req[r].status \in {"accepted", "completed"}
             PROVE  HolderOf(b) = r
  BY DEF HoldersKnown
<1> DEFINE concerned == {s \in RequestsOn(b) :
                           req[s].status \in {"accepted", "completed"}}
<1>1. book[b].status \in {"reserved", "donated"}
  BY DEF DeskInv, ReservedMatchesAccepted, GivenInv, RequestsOn
<1>2. \A s \in Requests :
        req[s].book = b /\ req[s].status = "completed"
          => book[b].status = "donated"
  BY DEF DeskInv, GivenInv
<1>3. \A s \in Requests :
        req[s].book = b /\ req[s].status = "accepted"
          => book[b].status = "reserved"
  BY DEF DeskInv, ReservedMatchesAccepted, RequestsOn
<1>4. ASSUME NEW s \in Requests, req[s].book = b,
             req[s].status \in {"accepted", "completed"}
      PROVE  s = r
  <2>1. req[s].status = req[r].status
    BY <1>2, <1>3, <1>4
  <2>2. QED
    BY <1>4, <2>1 DEF DeskInv, IInv, OneActiveRequest, GivenInv, Active
<1>5. concerned = {r}
  BY <1>4 DEF RequestsOn
<1>6. HolderOf(b) = CHOOSE s \in {r} : TRUE
  BY <1>1, <1>5 DEF HolderOf
<1>7. QED
  BY <1>6

\* All of it is known before and after a step.
LEMMA EntriesKnown ==
  /\ PlacesKnown /\ PlacesKnown' /\ NobodyHolds /\ NobodyHolds'
  /\ DeskInv => HoldersKnown
  /\ DeskInv' => HoldersKnown'
  BY PlaceKnown, HolderKnown, PTL

AnyOf(S) == CHOOSE r \in S : TRUE

\* What the ledger sees of a book depends on its status and on who is
\* accepted or completed on it.
LEMMA SameEntry ==
  ASSUME NEW b \in Books, book'[b].status = book[b].status,
         \A r \in Requests :
            (req'[r].book = b /\ req'[r].status \in {"accepted", "completed"})
              <=> (req[r].book = b /\ req[r].status \in {"accepted", "completed"})
  PROVE  PlaceOf(b)' = PlaceOf(b) /\ HolderOf(b)' = HolderOf(b)
<1>1. {r \in RequestsOn(b) : req[r].status \in {"accepted", "completed"}}'
        = {r \in RequestsOn(b) : req[r].status \in {"accepted", "completed"}}
  BY DEF RequestsOn
<1>2. HolderOf(b)' = HolderOf(b)
  <2> DEFINE concerned == {r \in RequestsOn(b) :
                             req[r].status \in {"accepted", "completed"}}
  <2>1. concerned' = concerned
    BY <1>1
  <2> HIDE DEF concerned
  <2>2. HolderOf(b) = IF /\ book[b].status \in {"reserved", "donated"}
                         /\ concerned # {}
                      THEN AnyOf(concerned) ELSE None
    BY Zenon DEF HolderOf, AnyOf, concerned
  <2>3. HolderOf(b)' = IF /\ book'[b].status \in {"reserved", "donated"}
                          /\ concerned' # {}
                       THEN AnyOf(concerned') ELSE None
    BY Zenon DEF HolderOf, AnyOf, concerned
  <2>4. QED
    BY <2>1, <2>2, <2>3
<1>3. PlaceOf(b)' = PlaceOf(b)
  BY Zenon DEF PlaceOf
<1>4. QED
  BY <1>2, <1>3

\* One book moves in the ledger and the others keep their entries.
LEMMA LedgerMove ==
  ASSUME NEW b \in Books, NEW from, NEW to, NEW who,
         PlaceOf(b) \in from, PlaceOf(b)' = to, HolderOf(b)' = who,
         \A x \in Books : x # b =>
            PlaceOf(x)' = PlaceOf(x) /\ HolderOf(x)' = HolderOf(x)
  PROVE  Ledger!Move(b, from, to, who)
  BY DEF Ledger!Move

LEMMA DonateIsList ==
  ASSUME DeskInv, NEW b \in Books, Donate(b)
  PROVE  Ledger!List(b)
<1>1. /\ book[b].status = "unlisted" /\ book'[b].status = "available"
      /\ \A x \in Books : x # b => book'[x] = book[x]
      /\ req' = req
  BY RestOfBook DEF Donate, DeskInv, IInv
<1>2. PlaceOf(b) = "unlisted" /\ PlaceOf(b)' = "shelf" /\ HolderOf(b)' = None
  BY <1>1, EntriesKnown DEF PlacesKnown, NobodyHolds
<1>3. \A x \in Books : x # b =>
        PlaceOf(x)' = PlaceOf(x) /\ HolderOf(x)' = HolderOf(x)
  BY <1>1, SameEntry
<1>4. QED
  BY <1>2, <1>3, LedgerMove DEF Ledger!List

LEMMA InsertIsQuiet ==
  ASSUME DeskInv, NEW c \in Calls, NEW r \in Requests, InsertRequest(c, r),
         NEW x \in Books
  PROVE  PlaceOf(x)' = PlaceOf(x) /\ HolderOf(x)' = HolderOf(x)
  BY InsertFiles, SameEntry DEF Filed

LEMMA AnswerIsMove ==
  ASSUME DeskInv, DeskInv', NEW q \in Requests, Answered(q),
         NEW b \in Books, b = req[q].book
  PROVE  \/ \A x \in Books : PlaceOf(x)' = PlaceOf(x) /\ HolderOf(x)' = HolderOf(x)
         \/ \E r \in Requests : Ledger!Hold(b, r)
         \/ Ledger!Release(b)
         \/ Ledger!Give(b)
<1>1. /\ req'[q].book = b /\ req[q].status \in Active
      /\ \A r \in Requests : r # q => req'[r] = req[r]
      /\ \A x \in Books : x # b => book'[x] = book[x]
      /\ req[q].status = "pending" => book[b].status = "available"
      /\ req[q].status = "accepted" => book[b].status = "reserved"
  BY PlaceOfLive DEF Answered, Answer
<1>2. \A x \in Books : x # b =>
        PlaceOf(x)' = PlaceOf(x) /\ HolderOf(x)' = HolderOf(x)
  BY <1>1, SameEntry
<1>3. CASE req'[q].status = "accepted"
  <2>1. req[q].status = "pending" /\ book'[b].status = "reserved"
    BY <1>3 DEF Answered, Answer
  <2>2. PlaceOf(b) = "shelf" /\ PlaceOf(b)' = "held"
    BY <1>1, <2>1, EntriesKnown DEF PlacesKnown
  <2>3. HolderOf(b)' = q
    BY <1>1, <1>3, EntriesKnown DEF HoldersKnown
  <2>4. Ledger!Hold(b, q)
    BY <1>1, <1>2, <2>2, <2>3, LedgerMove DEF Ledger!Hold
  <2>5. QED
    BY <1>1, <2>4
<1>4. CASE req'[q].status = "completed"
  <2>1. req[q].status = "accepted" /\ book'[b].status = "donated"
    BY <1>4 DEF Answered, Answer
  <2>2. PlaceOf(b) = "held" /\ PlaceOf(b)' = "given"
    BY <1>1, <2>1, EntriesKnown DEF PlacesKnown
  <2>3. HolderOf(b) = q /\ HolderOf(b)' = q
    BY <1>1, <1>4, <2>1, EntriesKnown DEF HoldersKnown
  <2>4. Ledger!Give(b)
    BY <1>1, <1>2, <2>2, <2>3, LedgerMove DEF Ledger!Give
  <2>5. QED
    BY <1>1, <2>4
<1>5. CASE req'[q].status \in {"declined", "cancelled", "expired"}
  <2>1. book'[b].status = "available"
    BY <1>5 DEF Answered, Answer
  <2>2. CASE req[q].status = "pending"
    <3>1. book'[b].status = book[b].status
      BY <1>1, <2>1, <2>2
    <3>2. \A r \in Requests :
            (req'[r].book = b /\ req'[r].status \in {"accepted", "completed"})
              <=> (req[r].book = b /\ req[r].status \in {"accepted", "completed"})
      BY <1>1, <1>5, <2>2
    <3>3. PlaceOf(b)' = PlaceOf(b) /\ HolderOf(b)' = HolderOf(b)
      BY <1>1, <3>1, <3>2, SameEntry
    <3>4. QED
      BY <1>2, <3>3
  <2>3. CASE req[q].status = "accepted"
    <3>1. PlaceOf(b) = "held" /\ PlaceOf(b)' = "shelf" /\ HolderOf(b)' = None
      BY <1>1, <2>1, <2>3, EntriesKnown DEF PlacesKnown, NobodyHolds
    <3>2. Ledger!Release(b)
      BY <1>1, <1>2, <3>1, LedgerMove DEF Ledger!Release
    <3>3. QED
      BY <1>1, <3>2
  <2>4. QED
    BY <1>1, <2>2, <2>3 DEF Active
<1>6. QED
  BY <1>3, <1>4, <1>5 DEF Answered, Answer

LEMMA DeleteIsWithdraw ==
  ASSUME DeskInv, NEW c \in Calls, DeleteCascade(c),
         NEW b \in Books, b = call[c].book
  PROVE  Ledger!Withdraw(b)
<1>1. Withdrawn(b)
  BY DeleteWithdraws
<1>2. book[b].status \in {"available", "reserved", "donated"}
  BY <1>1 DEF Withdrawn, Exists, DeskInv, IInv, TypeOK, BookRow, BookStatuses
<1>3. PlaceOf(b) \in {"shelf", "held", "given"}
  BY <1>2, EntriesKnown DEF PlacesKnown
<1>4. PlaceOf(b)' = "withdrawn" /\ HolderOf(b)' = None
  BY <1>1, EntriesKnown DEF Withdrawn, PlacesKnown, NobodyHolds
<1>5. \A x \in Books : x # b =>
        PlaceOf(x)' = PlaceOf(x) /\ HolderOf(x)' = HolderOf(x)
  <2> SUFFICES ASSUME NEW x \in Books, x # b
               PROVE  PlaceOf(x)' = PlaceOf(x) /\ HolderOf(x)' = HolderOf(x)
    OBVIOUS
  <2>1. \A r \in Requests :
          (req'[r].book = x /\ req'[r].status \in {"accepted", "completed"})
            <=> (req[r].book = x /\ req[r].status \in {"accepted", "completed"})
    BY <1>1 DEF Withdrawn
  <2>2. QED
    BY <1>1, <2>1, SameEntry DEF Withdrawn
<1>6. QED
  BY <1>3, <1>4, <1>5, LedgerMove DEF Ledger!Withdraw, Ledger!Places

LEMMA LedgerStep ==
  DeskInv /\ DeskInv' /\ [Next]_vars => [Ledger!LedgerNext]_(Ledger!ledgerVars)
<1> SUFFICES ASSUME DeskInv, DeskInv', [Next]_vars
             PROVE  Ledger!LedgerNext \/ UNCHANGED Ledger!ledgerVars
  OBVIOUS
<1>1. ASSUME \A x \in Books : PlaceOf(x)' = PlaceOf(x) /\ HolderOf(x)' = HolderOf(x)
      PROVE  UNCHANGED Ledger!ledgerVars
  BY <1>1 DEF Ledger!ledgerVars
<1>2. ASSUME req' = req, \A x \in Books : book'[x].status = book[x].status
      PROVE  UNCHANGED Ledger!ledgerVars
  BY <1>1, <1>2, SameEntry
<1>3. ASSUME NEW b \in Books, Donate(b) PROVE Ledger!LedgerNext
  BY <1>3, DonateIsList DEF Ledger!LedgerNext
<1>4. ASSUME NEW c \in Calls, NEW r \in Requests, InsertRequest(c, r)
      PROVE  UNCHANGED Ledger!ledgerVars
  BY <1>1, <1>4, InsertIsQuiet
<1>5. ASSUME NEW q \in Requests, Answered(q)
      PROVE  Ledger!LedgerNext \/ UNCHANGED Ledger!ledgerVars
  <2>1. req[q].book \in Books
    BY <1>5, PlaceOfLive DEF Answered, Answer
  <2>2. QED
    BY <1>1, <1>5, <2>1, AnswerIsMove DEF Ledger!LedgerNext
<1>6. ASSUME NEW c \in Calls, DeleteCascade(c) PROVE Ledger!LedgerNext
  <2>1. call[c].book \in Books
    BY <1>6, DeleteWithdraws
  <2>2. QED
    BY <1>6, <2>1, DeleteIsWithdraw DEF Ledger!LedgerNext
<1>7. QED
  BY <1>2, <1>3, <1>4, <1>5, <1>6, StepKinds

LEMMA LedgerStarts == Init => Ledger!LedgerInit
<1> SUFFICES ASSUME Init PROVE Ledger!LedgerInit
  OBVIOUS
<1>1. \A b \in Books : book[b].status = "unlisted"
  BY DEF Init
<1>2. \A b \in Books : PlaceOf(b) = "unlisted" /\ HolderOf(b) = None
  BY <1>1, EntriesKnown DEF PlacesKnown, NobodyHolds
<1>3. QED
  BY <1>2 DEF Ledger!LedgerInit

\* Where cancel, complete and decline run by themselves, what happens to a
\* book is what the ledger allows: it is held for one request, given to that
\* one or put back on the shelf, and withdrawn for good.
THEOREM DeskImplementsLedger == DeskAlone => (Spec => ImplementsLedger)
<1> SUFFICES ASSUME DeskAlone PROVE Spec => ImplementsLedger
  OBVIOUS
<1>1. DeskInv /\ DeskInv' /\ [Next]_vars => [Ledger!LedgerNext]_(Ledger!ledgerVars)
  BY LedgerStep
<1>2. QED
  BY <1>1, LedgerStarts, DeskHolds, PTL DEF Spec, ImplementsLedger, Ledger!LedgerSpec
=============================================================================
