------------------------ MODULE DocumentReview_proofs ------------------------
(***************************************************************************)
(* Proofs about DocumentReview for every number of uploads, files, objects  *)
(* and handlers in flight.                                                  *)
(***************************************************************************)
EXTENDS DocumentReview, FiniteSetTheorems, FunctionTheorems, TLAPS

USE DocumentsAssumption

-----------------------------------------------------------------------------
(* The handlers in flight: what is known of one by where it is.             *)

CallOK(r) ==
    /\ r.op = "none" <=> r.at = "idle"
    /\ r.op = "none" => r.objects = {}
    /\ r.op = "stage" => r.at \in {"sweep", "forget", "put", "save"}
    /\ r.op = "discard" => r.at \in {"sweep", "forget"}
    /\ r.op = "upload" => r.at \in {"claim", "rows", "unstage", "put", "row"}
    /\ r.op = "add" => r.at \in {"claim", "rows", "unstage", "put", "row", "reopen"}
    /\ r.op = "update" => r.at = "reopen"
    /\ r.op = "remove" => r.at \in {"count", "object", "drop", "find", "objects", "cascade"}
    /\ r.op = "delete" => r.at \in {"find", "objects", "cascade"}
    /\ r.op = "hide" => r.at \in {"hide", "visible", "folder"}
    /\ r.op = "approve" => r.at = "approve"
    /\ r.op = "reject" => r.at \in {"find", "objects", "reject"}
    /\ r.op = "reviewFile" => r.at = "verdict" /\ r.status # "pending"
    /\ r.op \in {"upload", "add", "update", "remove", "delete", "hide", "approve",
                 "reject"} => r.upload \in Uploads
    /\ r.op \in {"remove", "hide", "reviewFile"} => r.file \in Files

CallInv == \A c \in Calls : CallOK(call[c])

\* A row that is no document points nowhere, one that is belongs to an upload
\* and has an object.
RowOK(row) ==
    /\ row.status \notin Statuses => row.upload = None /\ row.object = None
    /\ row.status \in Statuses => row.upload \in Uploads /\ row.object \in Objects

RowInv == \A f \in Files : RowOK(file[f])

TypeInv == TypeOK /\ CallInv /\ RowInv

-----------------------------------------------------------------------------
(* Who owns what, where claims run by themselves.                           *)

\* The operations that make documents do not overlap others.
ClaimsAlone == {"upload", "add"} \subseteq Alone

AloneInv == \A c, d \in Calls : call[c].op \in Alone /\ Busy(d) => c = d

Docs == {f \in Files : FileExists(f)}
DocObjects == {file[f].object : f \in Docs}
\* A handler that has just stored an object owns it.
Fresh(c) == call[c].at \in {"save", "row"}

\* What a handler in flight may go by.
HandOK(c) ==
    LET objects == call[c].objects
    IN  /\ \A o \in objects : object[o] # "unused"
        /\ call[c].at \in {"sweep", "forget"} => objects \cap DocObjects = {}
        /\ call[c].at \in {"forget", "drop", "cascade"}
              => \A o \in objects : object[o] # "stored"
        /\ Fresh(c) => \A o \in objects :
              /\ object[o] = "stored"
              /\ o \notin staged \cup DocObjects
              /\ \A d \in Calls : d # c => o \notin call[d].objects
        /\ call[c].at = "rows" => objects \subseteq staged
        /\ call[c].at = "unstage" => objects \subseteq DocObjects
        /\ call[c].at \in {"count", "object", "drop"} => \A f \in Docs :
              file[f].object \in objects <=> f = call[c].file
        /\ call[c].at \in {"objects", "cascade", "reject"} => \A f \in Docs :
              file[f].object \in objects <=> file[f].upload = call[c].upload
        /\ call[c].at \in {"count", "object", "drop", "objects", "cascade", "reject"}
              => objects \cap staged = {}

\* An object is one document's, and a staged one only while it is claimed.
DocInv ==
    /\ \A f, g \in Docs : file[f].object = file[g].object => f = g
    /\ \A o \in staged \cap DocObjects :
          \E c \in Calls : At(c, "unstage") /\ o \in call[c].objects

\* What is staged or a document is in storage, until a handler that takes it out
\* has deleted the row.
StoredInv ==
    /\ \A o \in staged : \/ object[o] = "stored"
                         \/ \E c \in Calls : At(c, "forget") /\ o \in call[c].objects
    /\ \A o \in DocObjects :
          \/ object[o] \in {"stored", "rejected"}
          \/ \E c \in Calls : call[c].at \in {"cascade", "drop"} /\ o \in call[c].objects

\* What is in storage is owned.
OwnerInv ==
    \A o \in Objects : object[o] = "stored" =>
        \/ o \in staged \cup DocObjects
        \/ \E c \in Calls : Fresh(c) /\ o \in call[c].objects

OwnInv ==
    /\ AloneInv
    /\ \A c \in Calls : HandOK(c)
    /\ DocInv /\ StoredInv /\ OwnerInv

\* An upload whose files are being added is as the handler found it, and no file
\* of an approved one is shown without a decision about it.
ReviewInv ==
    /\ AloneInv
    /\ \A f \in Docs : file[f].status = "active"
          => file[f].reviewed \/ upload[file[f].upload].status # "active"
    /\ \A c \in Calls :
          /\ call[c].op = "upload" => upload[call[c].upload].status = "pending"
          /\ call[c].op = "add" => upload[call[c].upload].status = call[c].status

\* Whoever is about to approve an upload found it pending, and nobody rejected it
\* since.
ApproveInv ==
    /\ AloneInv
    /\ \A c \in Calls : call[c].op = "approve" => upload[call[c].upload].status # "rejected"

-----------------------------------------------------------------------------
(* Types, and what a handler holds.                                         *)

LEMMA IdleOK ==
  /\ IdleCall \in CallRecord /\ CallOK(IdleCall)
  /\ IdleCall.op = "none" /\ IdleCall.at = "idle" /\ IdleCall.objects = {}
  BY DEF IdleCall, CallRecord, Ops, Positions, Statuses, CallOK

\* What is known of a handler that is about to take a step: the operation it can
\* be, by where it is.
LEMMA CallHolds ==
  ASSUME TypeInv, NEW c \in Calls
  PROVE  /\ call[c] \in CallRecord /\ CallOK(call[c])
         /\ call[c].op \in Ops \cup {"none"}
         /\ Busy(c) <=> call[c].op # "none"
  BY DEF TypeInv, TypeOK, CallInv, CallRecord, CallOK, Busy

LEMMA OperationAt ==
  ASSUME TypeInv, NEW c \in Calls
  PROVE  /\ At(c, "sweep") => call[c].op \in {"stage", "discard"}
         /\ At(c, "forget") => call[c].op \in {"stage", "discard"}
         /\ At(c, "put") => call[c].op \in {"stage", "upload", "add"}
         /\ At(c, "save") => call[c].op = "stage"
         /\ At(c, "claim") => call[c].op \in {"upload", "add"}
         /\ At(c, "rows") => call[c].op \in {"upload", "add"}
         /\ At(c, "unstage") => call[c].op \in {"upload", "add"}
         /\ At(c, "row") => call[c].op \in {"upload", "add"}
         /\ At(c, "reopen") => call[c].op \in {"add", "update"}
         /\ At(c, "count") => call[c].op = "remove"
         /\ At(c, "object") => call[c].op = "remove"
         /\ At(c, "drop") => call[c].op = "remove"
         /\ At(c, "find") => call[c].op \in {"remove", "delete", "reject"}
         /\ At(c, "objects") => call[c].op \in {"remove", "delete", "reject"}
         /\ At(c, "cascade") => call[c].op \in {"remove", "delete"}
         /\ At(c, "hide") => call[c].op = "hide"
         /\ At(c, "visible") => call[c].op = "hide"
         /\ At(c, "folder") => call[c].op = "hide"
         /\ At(c, "approve") => call[c].op = "approve"
         /\ At(c, "reject") => call[c].op = "reject"
         /\ At(c, "verdict") => call[c].op = "reviewFile"
  BY CallHolds DEF CallOK, Ops, At

\* One handler moves, to where its operation may be.
LEMMA CallKept ==
  ASSUME TypeInv, NEW c \in Calls, NEW r \in CallRecord, CallOK(r),
         call' = [call EXCEPT ![c] = r]
  PROVE  /\ call' \in [Calls -> CallRecord] /\ CallInv'
         /\ call'[c] = r
         /\ \A d \in Calls : d # c => call'[d] = call[d]
  BY DEF TypeInv, TypeOK, CallInv

LEMMA FinishKept ==
  ASSUME TypeInv, NEW c \in Calls, Finish(c)
  PROVE  /\ call' \in [Calls -> CallRecord] /\ CallInv'
         /\ call'[c] = IdleCall
         /\ \A d \in Calls : d # c => call'[d] = call[d]
  BY IdleOK, CallKept DEF Finish

LEMMA StartKept ==
  ASSUME TypeInv, NEW c \in Calls, NEW r \in CallRecord, CallOK(r), Start(c, r)
  PROVE  /\ call' \in [Calls -> CallRecord] /\ CallInv'
         /\ call'[c] = r /\ call[c].op = "none"
         /\ \A d \in Calls : d # c => call'[d] = call[d]
         /\ \A d \in Calls : call[d].op \notin Alone
         /\ r.op \in Alone => \A d \in Calls : ~Busy(d)
  BY CallKept, CallHolds DEF Start

\* A handler with the same record at another position.
LEMMA MovedRecord ==
  ASSUME NEW r \in CallRecord, NEW at \in Positions
  PROVE  LET s == [r EXCEPT !.at = at]
         IN  /\ s \in CallRecord
             /\ s.at = at /\ s.op = r.op /\ s.upload = r.upload /\ s.file = r.file
             /\ s.status = r.status /\ s.hide = r.hide /\ s.seen = r.seen
             /\ s.objects = r.objects /\ s.fresh = r.fresh
  BY DEF CallRecord

LEMMA GotoKept ==
  ASSUME TypeInv, NEW c \in Calls, NEW at \in Positions,
         CallOK([call[c] EXCEPT !.at = at]), Goto(c, at)
  PROVE  /\ call' \in [Calls -> CallRecord] /\ CallInv'
         /\ call'[c] = [call[c] EXCEPT !.at = at]
         /\ \A d \in Calls : d # c => call'[d] = call[d]
<1>1. call[c] \in CallRecord /\ call \in [Calls -> CallRecord]
  BY DEF TypeInv, TypeOK
<1>2. [call[c] EXCEPT !.at = at] \in CallRecord
  BY <1>1, MovedRecord
<1>3. call' = [call EXCEPT ![c] = [call[c] EXCEPT !.at = at]]
  BY <1>1 DEF Goto
<1>4. QED
  BY <1>2, <1>3, CallKept

\* One handler moves and the others stay where they are; one that starts was idle,
\* and waited for the operations of Alone.
Moved(c) ==
    /\ call' \in [Calls -> CallRecord] /\ CallInv'
    /\ \A d \in Calls : d # c => call'[d] = call[d]

Started(c) ==
    /\ Moved(c)
    /\ call[c].op = "none"
    /\ \A d \in Calls : call[d].op \notin Alone
    /\ call'[c].op \in Alone => \A d \in Calls : ~Busy(d)

\* The steps that begin a handler, with the record it has then.
LEMMA StageStarts ==
  ASSUME TypeInv, NEW c \in Calls, StageStart(c)
  PROVE  /\ Started(c)
         /\ call'[c].op = "stage" /\ call'[c].at \in {"put", "sweep"}
         /\ call'[c].objects = stale
<1> DEFINE r == [IdleCall EXCEPT !.op = "stage", !.objects = stale,
                                 !.at = IF stale = {} THEN "put" ELSE "sweep"]
<1>1. r \in CallRecord /\ CallOK(r)
  BY IdleOK DEF TypeInv, TypeOK, CallRecord, CallOK, Ops, Positions
<1>2. r.op = "stage" /\ r.at \in {"put", "sweep"} /\ r.objects = stale
  BY IdleOK DEF CallRecord
<1>3. Start(c, r)
  BY DEF StageStart
<1> HIDE DEF r
<1>4. QED
  BY <1>1, <1>2, <1>3, StartKept DEF Started, Moved

LEMMA DiscardStarts ==
  ASSUME TypeInv, NEW c \in Calls, NEW o \in Objects, DiscardRead(c, o)
  PROVE  /\ Started(c)
         /\ call'[c].op = "discard" /\ call'[c].at = "sweep"
         /\ call'[c].objects = {o}
<1> DEFINE r == [IdleCall EXCEPT !.op = "discard", !.at = "sweep", !.objects = {o}]
<1>1. r \in CallRecord /\ CallOK(r)
  BY IdleOK DEF CallRecord, CallOK, Ops, Positions
<1>2. r.op = "discard" /\ r.at = "sweep" /\ r.objects = {o}
  BY IdleOK DEF CallRecord
<1>3. Start(c, r)
  BY DEF DiscardRead
<1> HIDE DEF r
<1>4. QED
  BY <1>1, <1>2, <1>3, StartKept DEF Started, Moved

LEMMA UploadStarts ==
  ASSUME TypeInv, NEW c \in Calls, NEW u \in Uploads, NEW ids \in SUBSET Handed,
         NEW fresh \in BOOLEAN, UploadInsert(c, u, ids, fresh)
  PROVE  /\ Started(c)
         /\ call'[c].op = "upload" /\ call'[c].at \in {"put", "claim"}
         /\ call'[c].upload = u /\ call'[c].objects = ids
<1> DEFINE r == [IdleCall EXCEPT !.op = "upload", !.at = FirstStep(ids),
                                 !.upload = u, !.objects = ids, !.fresh = fresh]
<1>1. FirstStep(ids) \in {"put", "claim"}
  BY DEF FirstStep
<1>2. r \in CallRecord /\ CallOK(r)
  BY <1>1, IdleOK DEF CallRecord, CallOK, Ops, Positions, Handed
<1>3. r.op = "upload" /\ r.at = FirstStep(ids) /\ r.upload = u /\ r.objects = ids
  BY IdleOK DEF CallRecord
<1>4. Start(c, r)
  BY DEF UploadInsert
<1> HIDE DEF r
<1>5. QED
  BY <1>1, <1>2, <1>3, <1>4, StartKept DEF Started, Moved

LEMMA AddStarts ==
  ASSUME TypeInv, NEW c \in Calls, NEW u \in Uploads, NEW ids \in SUBSET Handed,
         NEW fresh \in BOOLEAN, AddRead(c, u, ids, fresh)
  PROVE  /\ Started(c)
         /\ call'[c].op = "add" /\ call'[c].at \in {"put", "claim"}
         /\ call'[c].upload = u /\ call'[c].objects = ids
         /\ call'[c].status = upload[u].status
<1> DEFINE r == [IdleCall EXCEPT !.op = "add", !.at = FirstStep(ids),
                                 !.upload = u, !.objects = ids, !.fresh = fresh,
                                 !.status = upload[u].status]
<1>1. FirstStep(ids) \in {"put", "claim"}
  BY DEF FirstStep
<1>2. r \in CallRecord /\ CallOK(r)
  BY <1>1, IdleOK DEF CallRecord, CallOK, Ops, Positions, Handed, AddRead, UploadExists
<1>3. /\ r.op = "add" /\ r.at = FirstStep(ids) /\ r.upload = u /\ r.objects = ids
      /\ r.status = upload[u].status
  BY IdleOK DEF CallRecord
<1>4. Start(c, r)
  BY DEF AddRead
<1> HIDE DEF r
<1>5. QED
  BY <1>1, <1>2, <1>3, <1>4, StartKept DEF Started, Moved

LEMMA UpdateStarts ==
  ASSUME TypeInv, NEW c \in Calls, NEW u \in Uploads, UpdateRead(c, u)
  PROVE  /\ Started(c)
         /\ call'[c].op = "update" /\ call'[c].at = "reopen"
         /\ call'[c].upload = u /\ call'[c].objects = {}
<1> DEFINE r == [IdleCall EXCEPT !.op = "update", !.at = "reopen", !.upload = u,
                                 !.status = upload[u].status]
<1>1. r \in CallRecord /\ CallOK(r)
  BY IdleOK DEF CallRecord, CallOK, Ops, Positions, UpdateRead, Statuses
<1>2. r.op = "update" /\ r.at = "reopen" /\ r.upload = u /\ r.objects = {}
  BY IdleOK DEF CallRecord
<1>3. Start(c, r)
  BY DEF UpdateRead
<1> HIDE DEF r
<1>4. QED
  BY <1>1, <1>2, <1>3, StartKept DEF Started, Moved

LEMMA RemoveStarts ==
  ASSUME TypeInv, NEW c \in Calls, NEW f \in Files, RemoveRead(c, f)
  PROVE  /\ Started(c)
         /\ call'[c].op = "remove" /\ call'[c].at = "count"
         /\ call'[c].file = f /\ call'[c].upload = file[f].upload
         /\ call'[c].objects = {file[f].object}
<1> DEFINE r == [IdleCall EXCEPT !.op = "remove", !.at = "count", !.file = f,
                                 !.upload = file[f].upload,
                                 !.objects = {file[f].object}]
<1>1. file[f].upload \in Uploads /\ file[f].object \in Objects
  BY DEF RemoveRead, FileExists, TypeInv, RowInv, RowOK
<1>2. r \in CallRecord /\ CallOK(r)
  BY <1>1, IdleOK DEF CallRecord, CallOK, Ops, Positions
<1>3. /\ r.op = "remove" /\ r.at = "count" /\ r.file = f
      /\ r.upload = file[f].upload /\ r.objects = {file[f].object}
  BY IdleOK DEF CallRecord
<1>4. Start(c, r)
  BY DEF RemoveRead
<1> HIDE DEF r
<1>5. QED
  BY <1>1, <1>2, <1>3, <1>4, StartKept DEF Started, Moved

LEMMA DeleteStarts ==
  ASSUME TypeInv, NEW c \in Calls, NEW u \in Uploads, DeleteRead(c, u)
  PROVE  /\ Started(c)
         /\ call'[c].op = "delete" /\ call'[c].at = "find"
         /\ call'[c].upload = u /\ call'[c].objects = {}
<1> DEFINE r == [IdleCall EXCEPT !.op = "delete", !.at = "find", !.upload = u]
<1>1. r \in CallRecord /\ CallOK(r)
  BY IdleOK DEF CallRecord, CallOK, Ops, Positions
<1>2. r.op = "delete" /\ r.at = "find" /\ r.upload = u /\ r.objects = {}
  BY IdleOK DEF CallRecord
<1>3. Start(c, r)
  BY DEF DeleteRead
<1> HIDE DEF r
<1>4. QED
  BY <1>1, <1>2, <1>3, StartKept DEF Started, Moved

LEMMA HideStarts ==
  ASSUME TypeInv, NEW c \in Calls, NEW f \in Files, NEW hide \in BOOLEAN,
         HideRead(c, f, hide)
  PROVE  /\ Started(c)
         /\ call'[c].op = "hide" /\ call'[c].at = "hide" /\ call'[c].objects = {}
<1> DEFINE r == [IdleCall EXCEPT !.op = "hide", !.at = "hide", !.file = f,
                                 !.upload = file[f].upload, !.hide = hide,
                                 !.seen = upload[file[f].upload].hidden]
<1>1. file[f].upload \in Uploads
  BY DEF HideRead, FileExists, TypeInv, RowInv, RowOK
<1>2. upload[file[f].upload].hidden \in BOOLEAN
  BY <1>1 DEF TypeInv, TypeOK, UploadRow
<1>3. r \in CallRecord /\ CallOK(r)
  BY <1>1, <1>2, IdleOK DEF CallRecord, CallOK, Ops, Positions
<1>4. r.op = "hide" /\ r.at = "hide" /\ r.objects = {}
  BY IdleOK DEF CallRecord
<1>5. Start(c, r)
  BY DEF HideRead
<1> HIDE DEF r
<1>6. QED
  BY <1>3, <1>4, <1>5, StartKept DEF Started, Moved

LEMMA ApproveStarts ==
  ASSUME TypeInv, NEW c \in Calls, NEW u \in Uploads, ApproveRead(c, u)
  PROVE  /\ Started(c)
         /\ call'[c].op = "approve" /\ call'[c].at = "approve"
         /\ call'[c].upload = u /\ call'[c].objects = {}
<1> DEFINE r == [IdleCall EXCEPT !.op = "approve", !.at = "approve", !.upload = u]
<1>1. r \in CallRecord /\ CallOK(r)
  BY IdleOK DEF CallRecord, CallOK, Ops, Positions
<1>2. r.op = "approve" /\ r.at = "approve" /\ r.upload = u /\ r.objects = {}
  BY IdleOK DEF CallRecord
<1>3. Start(c, r)
  BY DEF ApproveRead
<1> HIDE DEF r
<1>4. QED
  BY <1>1, <1>2, <1>3, StartKept DEF Started, Moved

LEMMA RejectStarts ==
  ASSUME TypeInv, NEW c \in Calls, NEW u \in Uploads, RejectRead(c, u)
  PROVE  /\ Started(c)
         /\ call'[c].op = "reject" /\ call'[c].at = "find"
         /\ call'[c].upload = u /\ call'[c].objects = {}
<1> DEFINE r == [IdleCall EXCEPT !.op = "reject", !.at = "find", !.upload = u]
<1>1. r \in CallRecord /\ CallOK(r)
  BY IdleOK DEF CallRecord, CallOK, Ops, Positions
<1>2. r.op = "reject" /\ r.at = "find" /\ r.upload = u /\ r.objects = {}
  BY IdleOK DEF CallRecord
<1>3. Start(c, r)
  BY DEF RejectRead
<1> HIDE DEF r
<1>4. QED
  BY <1>1, <1>2, <1>3, StartKept DEF Started, Moved

LEMMA FileReviewStarts ==
  ASSUME TypeInv, NEW c \in Calls, NEW f \in Files,
         NEW verdict \in {"active", "rejected"}, FileReviewRead(c, f, verdict)
  PROVE  /\ Started(c)
         /\ call'[c].op = "reviewFile" /\ call'[c].at = "verdict"
         /\ call'[c].objects = {}
<1> DEFINE r == [IdleCall EXCEPT !.op = "reviewFile", !.at = "verdict",
                                 !.file = f, !.status = verdict]
<1>1. r \in CallRecord /\ CallOK(r)
  BY IdleOK DEF CallRecord, CallOK, Ops, Positions, Statuses
<1>2. r.op = "reviewFile" /\ r.at = "verdict" /\ r.objects = {}
  BY IdleOK DEF CallRecord
<1>3. Start(c, r)
  BY DEF FileReviewRead
<1> HIDE DEF r
<1>4. QED
  BY <1>1, <1>2, <1>3, StartKept DEF Started, Moved

\* The steps that move a handler on to another position, or end it.
MovedTo(c, at) == Moved(c) /\ call'[c] = [call[c] EXCEPT !.at = at]
Ended(c) == Moved(c) /\ call'[c] = IdleCall

LEMMA GotoMoves ==
  ASSUME TypeInv, NEW c \in Calls, NEW at \in Positions,
         CallOK([call[c] EXCEPT !.at = at]), Goto(c, at)
  PROVE  MovedTo(c, at)
  BY GotoKept DEF MovedTo, Moved

LEMMA FinishEnds ==
  ASSUME TypeInv, NEW c \in Calls, Finish(c)
  PROVE  Ended(c)
  BY FinishKept DEF Ended, Moved

\* Where an operation may go on to.
LEMMA NextPosition ==
  ASSUME TypeInv, NEW c \in Calls, NEW at \in Positions,
         \/ At(c, "sweep") /\ at = "forget"
         \/ At(c, "forget") /\ call[c].op # "discard" /\ at = "put"
         \/ At(c, "claim") /\ at = "rows"
         \/ At(c, "rows") /\ at = "unstage"
         \/ At(c, "unstage") /\ at = "put"
         \/ At(c, "unstage") /\ call[c].op = "add" /\ at = "reopen"
         \/ At(c, "row") /\ call[c].op = "add" /\ at = "reopen"
         \/ At(c, "count") /\ at \in {"object", "find"}
         \/ At(c, "object") /\ at = "drop"
         \/ At(c, "objects") /\ call[c].op = "reject" /\ at = "reject"
         \/ At(c, "objects") /\ call[c].op # "reject" /\ at = "cascade"
         \/ At(c, "hide") /\ at = "visible"
         \/ At(c, "visible") /\ at = "folder"
  PROVE  CallOK([call[c] EXCEPT !.at = at])
<1> DEFINE s == [call[c] EXCEPT !.at = at]
<1>1. call[c] \in CallRecord /\ CallOK(call[c]) /\ call[c].op \in Ops \cup {"none"}
  BY CallHolds
<1>2. /\ s.at = at /\ s.op = call[c].op /\ s.upload = call[c].upload
      /\ s.file = call[c].file /\ s.status = call[c].status /\ s.objects = call[c].objects
  BY <1>1, MovedRecord
<1> HIDE DEF s
<1>3. CallOK(s)
  BY <1>1, <1>2, OperationAt DEF CallOK
<1>4. QED
  BY <1>3 DEF s

LEMMA StepMoves ==
  ASSUME TypeInv, NEW c \in Calls
  PROVE  /\ SweepObjects(c) => MovedTo(c, "forget")
         /\ SweepRows(c) => IF call[c].op = "discard" THEN Ended(c) ELSE MovedTo(c, "put")
         /\ PutRefused(c) => Ended(c)
         /\ StageSave(c) => Ended(c)
         /\ SaveFails(c) => Ended(c)
         /\ ClaimFind(c) => IF call[c].objects \subseteq staged
                            THEN MovedTo(c, "rows") ELSE Ended(c)
         /\ ClaimSave(c) => MovedTo(c, "unstage")
         /\ ClaimFails(c) => Ended(c)
         /\ ClaimUnstage(c) => Ended(c) \/ MovedTo(c, "put") \/ MovedTo(c, "reopen")
         /\ FileSave(c) => Ended(c) \/ MovedTo(c, "reopen")
         /\ Reopen(c) => Ended(c)
         /\ RemoveCount(c) => Ended(c) \/ MovedTo(c, "object") \/ MovedTo(c, "find")
         /\ RemoveObject(c) => MovedTo(c, "drop")
         /\ RemoveRow(c) => Ended(c)
         /\ TearDownObjects(c) =>
               IF call[c].op = "reject" THEN MovedTo(c, "reject") ELSE MovedTo(c, "cascade")
         /\ DeleteCascade(c) => Ended(c)
         /\ HideFile(c) => MovedTo(c, "visible")
         /\ HideCount(c) => Ended(c) \/ MovedTo(c, "folder")
         /\ HideFolder(c) => Ended(c)
         /\ ApproveWrite(c) => Ended(c)
         /\ RejectWrite(c) => Ended(c)
         /\ FileReviewWrite(c) => Ended(c)
<1>1. {"forget", "put", "rows", "unstage", "reopen", "object", "find", "drop", "reject",
       "cascade", "visible", "folder"} \subseteq Positions
  BY DEF Positions
<1>2. SweepObjects(c) => MovedTo(c, "forget")
  BY <1>1, NextPosition, GotoMoves DEF SweepObjects
<1>3. SweepRows(c) => IF call[c].op = "discard" THEN Ended(c) ELSE MovedTo(c, "put")
  BY <1>1, NextPosition, GotoMoves, FinishEnds DEF SweepRows
<1>4. /\ PutRefused(c) => Ended(c)
      /\ StageSave(c) => Ended(c)
      /\ SaveFails(c) => Ended(c)
      /\ ClaimFails(c) => Ended(c)
      /\ Reopen(c) => Ended(c)
      /\ RemoveRow(c) => Ended(c)
      /\ DeleteCascade(c) => Ended(c)
      /\ HideFolder(c) => Ended(c)
      /\ ApproveWrite(c) => Ended(c)
      /\ RejectWrite(c) => Ended(c)
      /\ FileReviewWrite(c) => Ended(c)
  BY FinishEnds DEF PutRefused, StageSave, SaveFails, ClaimFails, Reopen, RemoveRow,
                    DeleteCascade, HideFolder, ApproveWrite, RejectWrite, FileReviewWrite
<1>5. ClaimFind(c) =>
         IF call[c].objects \subseteq staged THEN MovedTo(c, "rows") ELSE Ended(c)
  BY <1>1, NextPosition, GotoMoves, FinishEnds DEF ClaimFind
<1>6. ClaimSave(c) => MovedTo(c, "unstage")
  BY <1>1, NextPosition, GotoMoves DEF ClaimSave
<1>7. ClaimUnstage(c) => Ended(c) \/ MovedTo(c, "put") \/ MovedTo(c, "reopen")
  BY <1>1, NextPosition, GotoMoves, FinishEnds DEF ClaimUnstage, AfterFiles
<1>8. FileSave(c) => Ended(c) \/ MovedTo(c, "reopen")
  BY <1>1, NextPosition, GotoMoves, FinishEnds DEF FileSave, AfterFiles
<1>9. RemoveCount(c) => Ended(c) \/ MovedTo(c, "object") \/ MovedTo(c, "find")
  BY <1>1, NextPosition, GotoMoves, FinishEnds DEF RemoveCount
<1>10. RemoveObject(c) => MovedTo(c, "drop")
  BY <1>1, NextPosition, GotoMoves DEF RemoveObject
<1>11. TearDownObjects(c) =>
          IF call[c].op = "reject" THEN MovedTo(c, "reject") ELSE MovedTo(c, "cascade")
  BY <1>1, NextPosition, GotoMoves DEF TearDownObjects
<1>12. HideFile(c) => MovedTo(c, "visible")
  BY <1>1, NextPosition, GotoMoves DEF HideFile
<1>13. HideCount(c) => Ended(c) \/ MovedTo(c, "folder")
  BY <1>1, NextPosition, GotoMoves, FinishEnds DEF HideCount
<1>14. QED
  BY <1>2, <1>3, <1>4, <1>5, <1>6, <1>7, <1>8, <1>9, <1>10, <1>11, <1>12, <1>13

\* The two steps that give a handler other objects.
LEMMA PutMoves ==
  ASSUME TypeInv, NEW c \in Calls, NEW o \in Objects, PutObject(c, o)
  PROVE  /\ Moved(c)
         /\ call'[c].op = call[c].op /\ call'[c].objects = {o}
         /\ call'[c].upload = call[c].upload /\ call'[c].status = call[c].status
         /\ call'[c].at \in {"save", "row"}
<1> DEFINE at == IF call[c].op = "stage" THEN "save" ELSE "row"
           r == [call[c] EXCEPT !.objects = {o}, !.at = at]
<1>1. call[c] \in CallRecord /\ CallOK(call[c]) /\ call \in [Calls -> CallRecord]
  BY CallHolds DEF TypeInv, TypeOK
<1>2. at \in Positions /\ at \in {"save", "row"}
  BY DEF Positions
<1>3. call[c].op \in {"stage", "upload", "add"}
  BY OperationAt DEF PutObject
<1>4. /\ r \in CallRecord
      /\ r.op = call[c].op /\ r.objects = {o} /\ r.upload = call[c].upload
      /\ r.status = call[c].status /\ r.at = at
  BY <1>1, <1>2 DEF CallRecord
<1>5. call' = [call EXCEPT ![c] = r]
  BY <1>1 DEF PutObject
<1> HIDE DEF r
<1>6. CallOK(r)
  BY <1>1, <1>3, <1>4 DEF CallOK
<1>7. QED
  BY <1>2, <1>4, <1>5, <1>6, CallKept DEF Moved

LEMMA FindMoves ==
  ASSUME TypeInv, NEW c \in Calls, FindObjects(c)
  PROVE  /\ Moved(c)
         /\ call'[c].op = call[c].op /\ call'[c].upload = call[c].upload
         /\ call'[c].status = call[c].status
         /\ call'[c].objects = ObjectsOf(call[c].upload)
         /\ call'[c].at = "objects"
<1> DEFINE r == [call[c] EXCEPT !.objects = ObjectsOf(call[c].upload), !.at = "objects"]
<1>1. call[c] \in CallRecord /\ CallOK(call[c]) /\ call \in [Calls -> CallRecord]
  BY CallHolds DEF TypeInv, TypeOK
<1>2. ObjectsOf(call[c].upload) \subseteq Objects
  BY DEF ObjectsOf, FilesOf, FileExists, TypeInv, RowInv, RowOK
<1>3. call[c].op \in {"remove", "delete", "reject"}
  BY OperationAt DEF FindObjects
<1>4. /\ r \in CallRecord
      /\ r.op = call[c].op /\ r.objects = ObjectsOf(call[c].upload)
      /\ r.upload = call[c].upload /\ r.file = call[c].file
      /\ r.status = call[c].status /\ r.at = "objects"
  BY <1>1, <1>2 DEF CallRecord, Positions
<1>5. call' = [call EXCEPT ![c] = r]
  BY <1>1 DEF FindObjects
<1> HIDE DEF r
<1>6. CallOK(r)
  BY <1>1, <1>3, <1>4 DEF CallOK
<1>7. QED
  BY <1>4, <1>5, <1>6, CallKept DEF Moved

-----------------------------------------------------------------------------
(* The statements and storage calls, each by what it does to the rows.       *)

LEMMA RowHolds ==
  ASSUME TypeInv, NEW f \in Files
  PROVE  /\ file[f] \in FileRow /\ RowOK(file[f])
         /\ FileExists(f) => file[f].upload \in Uploads /\ file[f].object \in Objects
  BY DEF TypeInv, TypeOK, RowInv, RowOK, FileExists

LEMMA StatusSet ==
  ASSUME TypeInv, NEW u \in Uploads, NEW status \in Statuses \cup {"gone"},
         SetStatus(u, status)
  PROVE  /\ upload' \in [Uploads -> UploadRow]
         /\ \A v \in Uploads : upload'[v].status # upload[v].status =>
               v = u /\ upload'[v].status = status
         /\ UploadExists(u) => upload'[u].status = status
  BY DEF TypeInv, TypeOK, SetStatus, UploadRow

LEMMA Erased ==
  ASSUME TypeInv, NEW files, Erase(files)
  PROVE  /\ file' \in [Files -> FileRow] /\ RowInv'
         /\ \A f \in Files : IF f \in files THEN file'[f].status = "gone"
                                            ELSE file'[f] = file[f]
<1> DEFINE gone == [NoFile EXCEPT !.status = "gone"]
<1>1. gone \in FileRow /\ RowOK(gone) /\ gone.status = "gone"
  BY DEF NoFile, FileRow, RowOK, Statuses
<1> HIDE DEF gone
<1>2. file' = [f \in Files |-> IF f \in files THEN gone ELSE file[f]]
  BY DEF Erase, gone
<1>3. file' \in [Files -> FileRow]
  BY <1>1, <1>2 DEF TypeInv, TypeOK
<1>4. RowInv'
  BY <1>1, <1>2 DEF TypeInv, RowInv
<1>5. QED
  BY <1>1, <1>2, <1>3, <1>4

\* A row that is written holds the document of one of the objects.
LEMMA Inserted ==
  ASSUME TypeInv, NEW c \in Calls, call[c].op \in {"upload", "add"},
         InsertFiles(c, call[c].objects)
  PROVE  /\ file' \in [Files -> FileRow] /\ RowInv'
         /\ UploadExists(call[c].upload)
         /\ \A f \in Files : \/ file'[f] = file[f]
                             \/ \E o \in call[c].objects : file'[f] = NewFile(c, o)
<1>1. call[c].upload \in Uploads /\ call[c].objects \subseteq Objects
  BY CallHolds DEF CallOK, CallRecord
<1>2. \A o \in call[c].objects : NewFile(c, o) \in FileRow /\ RowOK(NewFile(c, o))
  BY <1>1 DEF NewFile, NoFile, FileRow, RowOK, Statuses
<1> DEFINE rows == CHOOSE g \in Injection(call[c].objects, UnusedFiles) : TRUE
<1>3. file' = [f \in Files |->
                 IF \E o \in call[c].objects : rows[o] = f
                 THEN NewFile(c, CHOOSE o \in call[c].objects : rows[o] = f)
                 ELSE file[f]]
  BY DEF InsertFiles
<1> HIDE DEF rows
<1>4. \A f \in Files : \/ file'[f] = file[f]
                       \/ \E o \in call[c].objects : file'[f] = NewFile(c, o)
  BY <1>3
<1>5. file' \in [Files -> FileRow]
  <2>1. \A f \in Files : file'[f] \in FileRow
    BY <1>2, <1>4 DEF TypeInv, TypeOK
  <2>2. QED
    BY <1>3, <2>1
<1>6. RowInv'
  BY <1>2, <1>4 DEF TypeInv, RowInv
<1>7. QED
  BY <1>4, <1>5, <1>6 DEF InsertFiles

LEMMA HiddenSet ==
  ASSUME TypeInv, NEW c \in Calls, HideFile(c)
  PROVE  /\ file' \in [Files -> FileRow] /\ RowInv'
         /\ \A f \in Files :
               /\ file'[f].status = file[f].status /\ file'[f].upload = file[f].upload
               /\ file'[f].object = file[f].object /\ file'[f].reviewed = file[f].reviewed
<1>1. call[c].file \in Files /\ call[c].hide \in BOOLEAN
  BY CallHolds, OperationAt DEF HideFile, CallOK, CallRecord
<1> DEFINE row == [file[call[c].file] EXCEPT !.hidden = call[c].hide]
           old == file[call[c].file]
<1>2. /\ row \in FileRow
      /\ row.status = old.status /\ row.upload = old.upload
      /\ row.object = old.object /\ row.reviewed = old.reviewed
  BY <1>1 DEF TypeInv, TypeOK, FileRow
<1>3. file' = file \/ file' = [file EXCEPT ![call[c].file] = row]
  BY <1>1 DEF HideFile, TypeInv, TypeOK
<1> HIDE DEF row
<1>4. file' \in [Files -> FileRow]
  BY <1>1, <1>2, <1>3 DEF TypeInv, TypeOK
<1>5. \A f \in Files :
         /\ file'[f].status = file[f].status /\ file'[f].upload = file[f].upload
         /\ file'[f].object = file[f].object /\ file'[f].reviewed = file[f].reviewed
  BY <1>1, <1>2, <1>3 DEF TypeInv, TypeOK
<1>6. RowInv'
  BY <1>5 DEF TypeInv, RowInv, RowOK
<1>7. QED
  BY <1>4, <1>5, <1>6

LEMMA VerdictWritten ==
  ASSUME TypeInv, NEW c \in Calls, FileReviewWrite(c)
  PROVE  /\ file' \in [Files -> FileRow] /\ RowInv'
         /\ \A f \in Files :
               \/ file'[f] = file[f]
               \/ /\ FileExists(f) /\ file'[f].status \in {"active", "rejected"}
                  /\ file'[f].upload = file[f].upload /\ file'[f].object = file[f].object
                  /\ file'[f].status = "active" => file'[f].reviewed
<1>1. call[c].file \in Files /\ call[c].status \in {"active", "rejected"}
  BY CallHolds, OperationAt DEF FileReviewWrite, CallOK, CallRecord, Statuses
<1>2. PICK let \in BOOLEAN : let = (call[c].status = "active")
  OBVIOUS
<1> DEFINE old == file[call[c].file]
           row == [old EXCEPT !.status = call[c].status, !.reviewed = let]
<1>3. file' = IF FileExists(call[c].file) THEN [file EXCEPT ![call[c].file] = row] ELSE file
  BY <1>1, <1>2 DEF FileReviewWrite, TypeInv, TypeOK
<1>4. old \in FileRow /\ call[c].status \in Statuses
  BY <1>1 DEF TypeInv, TypeOK, Statuses
<1>5. /\ row \in FileRow
      /\ row.status = call[c].status /\ row.upload = old.upload
      /\ row.object = old.object /\ row.reviewed = let
  BY <1>2, <1>4 DEF FileRow
<1> HIDE DEF row
<1>6. file' \in [Files -> FileRow]
  BY <1>1, <1>3, <1>5 DEF TypeInv, TypeOK
<1>7. \A f \in Files :
         \/ file'[f] = file[f]
         \/ /\ FileExists(f) /\ file'[f].status \in {"active", "rejected"}
            /\ file'[f].upload = file[f].upload /\ file'[f].object = file[f].object
            /\ file'[f].status = "active" => file'[f].reviewed
  BY <1>1, <1>2, <1>3, <1>5 DEF TypeInv, TypeOK
<1>8. RowInv'
  BY <1>7, RowHolds DEF TypeInv, RowInv, RowOK, Statuses
<1>9. QED
  BY <1>6, <1>7, <1>8

LEMMA Approved ==
  ASSUME TypeInv, NEW c \in Calls, ApproveWrite(c)
  PROVE  /\ file' \in [Files -> FileRow] /\ RowInv'
         /\ \A f \in Files :
               /\ file'[f].status = file[f].status /\ file'[f].upload = file[f].upload
               /\ file'[f].object = file[f].object
               /\ file[f].reviewed => file'[f].reviewed
               /\ f \in FilesOf(call[c].upload) /\ file[f].status = "active"
                     => file'[f].reviewed
<1> DEFINE row(f) == [file[f] EXCEPT !.reviewed = TRUE]
<1>1. \A f \in Files :
         /\ row(f) \in FileRow
         /\ row(f).status = file[f].status /\ row(f).upload = file[f].upload
         /\ row(f).object = file[f].object /\ row(f).reviewed = TRUE
  <2> TAKE f \in Files
  <2>1. file[f] \in FileRow /\ TRUE \in BOOLEAN /\ "active" \in Statuses
    BY DEF TypeInv, TypeOK, Statuses
  <2>2. QED
    BY <2>1 DEF FileRow
<1>2. file' = [f \in Files |-> IF f \in FilesOf(call[c].upload) /\ file[f].status = "active"
                               THEN row(f) ELSE file[f]]
  BY DEF ApproveWrite
<1> HIDE DEF row
<1>3. file' \in [Files -> FileRow]
  BY <1>1, <1>2 DEF TypeInv, TypeOK
<1>4. \A f \in Files :
         /\ file'[f].status = file[f].status /\ file'[f].upload = file[f].upload
         /\ file'[f].object = file[f].object
         /\ file[f].reviewed => file'[f].reviewed
         /\ f \in FilesOf(call[c].upload) /\ file[f].status = "active"
               => file'[f].reviewed
  BY <1>1, <1>2
<1>5. RowInv'
  BY <1>4 DEF TypeInv, RowInv, RowOK
<1>6. QED
  BY <1>3, <1>4, <1>5

-----------------------------------------------------------------------------
(* Types.                                                                   *)

LEMMA InitTypes == Init => TypeInv
<1> SUFFICES ASSUME Init PROVE TypeInv
  OBVIOUS
<1>1. NoFile \in FileRow /\ RowOK(NoFile)
  BY DEF NoFile, FileRow, RowOK, Statuses
<1>2. TypeOK
  BY <1>1, IdleOK DEF Init, TypeOK, UploadRow, ObjectStates
<1>3. CallInv /\ RowInv
  BY <1>1, IdleOK DEF Init, CallInv, RowInv
<1>4. QED
  BY <1>2, <1>3 DEF TypeInv

LEMMA ObjectsRemoved ==
  ASSUME TypeInv, NEW objects, NEW why \in {"removed", "rejected"},
         RemoveObjects(objects, why)
  PROVE  /\ object' \in [Objects -> ObjectStates]
         /\ \A o \in Objects :
               object'[o] = IF o \in objects /\ object[o] = "stored" THEN why ELSE object[o]
  BY DEF TypeInv, TypeOK, RemoveObjects, ObjectStates

\* What TypeInv says of everything but the handlers in flight.
TablesOK ==
    /\ upload \in [Uploads -> UploadRow]
    /\ file \in [Files -> FileRow] /\ RowInv
    /\ object \in [Objects -> ObjectStates]
    /\ staged \in SUBSET Objects /\ stale \in SUBSET staged

LEMMA TypesKept ==
  ASSUME NEW c \in Calls, Moved(c), TablesOK'
  PROVE  TypeInv'
  BY DEF Moved, TablesOK, TypeInv, TypeOK

LEMMA NoTableWritten ==
  ASSUME TypeInv, UNCHANGED <<upload, file, object, staged, stale>>
  PROVE  TablesOK'
  BY DEF TypeInv, TypeOK, TablesOK, RowInv

LEMMA StartTypes ==
  ASSUME TypeInv, NEW c \in Calls, CallStarts(c)
  PROVE  TypeInv'
<1>1. CASE StageStart(c)
  BY <1>1, StageStarts, NoTableWritten, TypesKept DEF StageStart, Started
<1>2. ASSUME NEW o \in Objects, DiscardRead(c, o) PROVE TypeInv'
  BY <1>2, DiscardStarts, NoTableWritten, TypesKept DEF DiscardRead, Started
<1>3. ASSUME NEW u \in Uploads, NEW ids \in SUBSET Handed, NEW fresh \in BOOLEAN,
             UploadInsert(c, u, ids, fresh)
      PROVE  TypeInv'
  <2>1. upload' \in [Uploads -> UploadRow]
    BY <1>3 DEF UploadInsert, TypeInv, TypeOK, UploadRow, Statuses
  <2>2. TablesOK'
    BY <1>3, <2>1 DEF UploadInsert, TypeInv, TypeOK, TablesOK, RowInv
  <2>3. Started(c)
    BY <1>3, UploadStarts, Zenon
  <2>4. QED
    BY <2>2, <2>3, TypesKept DEF Started
<1>4. ASSUME NEW u \in Uploads, NEW ids \in SUBSET Handed, NEW fresh \in BOOLEAN,
             AddRead(c, u, ids, fresh)
      PROVE  TypeInv'
  BY <1>4, AddStarts, NoTableWritten, TypesKept DEF AddRead, Started
<1>5. ASSUME NEW u \in Uploads, UpdateRead(c, u) PROVE TypeInv'
  BY <1>5, UpdateStarts, NoTableWritten, TypesKept DEF UpdateRead, Started
<1>6. ASSUME NEW u \in Uploads, DeleteRead(c, u) PROVE TypeInv'
  BY <1>6, DeleteStarts, NoTableWritten, TypesKept DEF DeleteRead, Started
<1>7. ASSUME NEW u \in Uploads, ApproveRead(c, u) PROVE TypeInv'
  BY <1>7, ApproveStarts, NoTableWritten, TypesKept DEF ApproveRead, Started
<1>8. ASSUME NEW u \in Uploads, RejectRead(c, u) PROVE TypeInv'
  BY <1>8, RejectStarts, NoTableWritten, TypesKept DEF RejectRead, Started
<1>9. ASSUME NEW f \in Files, RemoveRead(c, f) PROVE TypeInv'
  BY <1>9, RemoveStarts, NoTableWritten, TypesKept DEF RemoveRead, Started
<1>10. ASSUME NEW f \in Files, NEW hide \in BOOLEAN, HideRead(c, f, hide) PROVE TypeInv'
  BY <1>10, HideStarts, NoTableWritten, TypesKept DEF HideRead, Started
<1>11. ASSUME NEW f \in Files, NEW verdict \in {"active", "rejected"},
              FileReviewRead(c, f, verdict)
       PROVE  TypeInv'
  BY <1>11, FileReviewStarts, NoTableWritten, TypesKept DEF FileReviewRead, Started
<1>12. QED
  BY <1>1, <1>2, <1>3, <1>4, <1>5, <1>6, <1>7, <1>8, <1>9, <1>10, <1>11 DEF CallStarts

\* Every step of a handler moves that handler only.
LEMMA StepMoved ==
  ASSUME TypeInv, NEW c \in Calls, CallSteps(c)
  PROVE  Moved(c)
<1>1. \A o \in Objects : PutObject(c, o) => Moved(c)
  BY PutMoves
<1>2. FindObjects(c) => Moved(c)
  BY FindMoves
<1>3. QED
  BY <1>1, <1>2, StepMoves DEF CallSteps, MovedTo, Ended

LEMMA StepTables ==
  ASSUME TypeInv, NEW c \in Calls, CallSteps(c)
  PROVE  TablesOK'
<1> USE DEF TypeInv, TypeOK, TablesOK
<1>1. CASE SweepObjects(c)
  BY <1>1, ObjectsRemoved DEF SweepObjects, RowInv
<1>2. CASE SweepRows(c)
  BY <1>2 DEF SweepRows, RowInv
<1>3. ASSUME NEW o \in Objects, PutObject(c, o) PROVE TablesOK'
  BY <1>3 DEF PutObject, RowInv, ObjectStates
<1>4. CASE PutRefused(c) \/ ClaimFind(c) \/ ClaimFails(c) \/ RemoveCount(c)
           \/ FindObjects(c) \/ HideCount(c)
  <2>1. UNCHANGED <<upload, file, object, staged, stale>>
    BY <1>4 DEF PutRefused, ClaimFind, ClaimFails, RemoveCount, FindObjects, HideCount
  <2>2. QED
    BY <2>1, NoTableWritten
<1>5. CASE StageSave(c)
  <2>1. call[c].objects \subseteq Objects
    BY CallHolds DEF CallRecord
  <2>2. QED
    BY <1>5, <2>1 DEF StageSave, RowInv
<1>6. CASE SaveFails(c)
  BY <1>6, ObjectsRemoved DEF SaveFails, RowInv
<1>7. CASE ClaimSave(c)
  BY <1>7, OperationAt, Inserted DEF ClaimSave
<1>8. CASE ClaimUnstage(c)
  BY <1>8 DEF ClaimUnstage, RowInv
<1>9. CASE FileSave(c)
  BY <1>9, OperationAt, Inserted DEF FileSave
<1>10. CASE Reopen(c)
  <2>1. call[c].upload \in Uploads
    BY <1>10, CallHolds, OperationAt DEF Reopen, CallOK
  <2>2. QED
    BY <1>10, <2>1, StatusSet DEF Reopen, Statuses, RowInv
<1>11. CASE RemoveObject(c)
  BY <1>11, ObjectsRemoved DEF RemoveObject, RowInv
<1>12. CASE RemoveRow(c)
  BY <1>12, Erased DEF RemoveRow
<1>13. CASE TearDownObjects(c)
  BY <1>13, ObjectsRemoved DEF TearDownObjects, RowInv
<1>14. CASE DeleteCascade(c)
  <2>1. call[c].upload \in Uploads
    BY <1>14, CallHolds, OperationAt DEF DeleteCascade, CallOK
  <2>2. QED
    BY <1>14, <2>1, StatusSet, Erased DEF DeleteCascade
<1>15. CASE HideFile(c)
  BY <1>15, HiddenSet DEF HideFile
<1>16. CASE HideFolder(c)
  <2>1. call[c].hide \in BOOLEAN
    BY CallHolds DEF CallRecord
  <2>2. upload' \in [Uploads -> UploadRow]
    BY <1>16, <2>1 DEF HideFolder, UploadRow
  <2>3. QED
    BY <1>16, <2>2 DEF HideFolder, RowInv
<1>17. CASE ApproveWrite(c)
  <2>1. call[c].upload \in Uploads
    BY <1>17, CallHolds, OperationAt DEF ApproveWrite, CallOK
  <2>2. upload' \in [Uploads -> UploadRow]
    BY <1>17, <2>1, StatusSet DEF ApproveWrite, Statuses
  <2>3. QED
    BY <1>17, <2>2, Approved DEF ApproveWrite
<1>18. CASE RejectWrite(c)
  <2>1. call[c].upload \in Uploads
    BY <1>18, CallHolds, OperationAt DEF RejectWrite, CallOK
  <2>2. QED
    BY <1>18, <2>1, StatusSet DEF RejectWrite, Statuses, RowInv
<1>19. CASE FileReviewWrite(c)
  BY <1>19, VerdictWritten DEF FileReviewWrite
<1>20. QED
  BY <1>1, <1>2, <1>3, <1>4, <1>5, <1>6, <1>7, <1>8, <1>9, <1>10, <1>11, <1>12, <1>13,
     <1>14, <1>15, <1>16, <1>17, <1>18, <1>19 DEF CallSteps

\* The two steps of Next that no handler takes.
LEMMA OtherTypes ==
  ASSUME TypeInv,
         \/ \E u \in Uploads, hide \in BOOLEAN : SetHidden(u, hide)
         \/ \E o \in Objects : DayPasses(o)
         \/ UNCHANGED vars
  PROVE  TypeInv'
<1> USE DEF TypeInv, TypeOK, RowInv, CallInv
<1>1. ASSUME NEW u \in Uploads, NEW hide \in BOOLEAN, SetHidden(u, hide) PROVE TypeInv'
  BY <1>1 DEF SetHidden, UploadRow
<1>2. ASSUME NEW o \in Objects, DayPasses(o) PROVE TypeInv'
  BY <1>2 DEF DayPasses
<1>3. CASE UNCHANGED vars
  BY <1>3 DEF vars
<1>4. QED
  BY <1>1, <1>2, <1>3

LEMMA NextTypes == TypeInv /\ [Next]_vars => TypeInv'
<1> SUFFICES ASSUME TypeInv, [Next]_vars PROVE TypeInv'
  OBVIOUS
<1>1. ASSUME NEW c \in Calls, CallStarts(c) PROVE TypeInv'
  BY <1>1, StartTypes
<1>2. ASSUME NEW c \in Calls, CallSteps(c) PROVE TypeInv'
  BY <1>2, StepMoved, StepTables, TypesKept
<1>3. QED
  BY <1>1, <1>2, OtherTypes DEF Next

LEMMA TypesHold == Spec => []TypeInv
  BY InitTypes, NextTypes, PTL DEF Spec

\* Every row and every handler is as the tables and the code declare them: a
\* document belongs to an upload and has an object, whatever overlaps.
THEOREM TypeCorrect == Spec => []TypeOK
<1>1. TypeInv => TypeOK
  BY DEF TypeInv
<1>2. QED
  BY <1>1, TypesHold, PTL

-----------------------------------------------------------------------------
(* Operations that do not overlap others.                                   *)

\* A handler that moves on stays what it is, at work for the same upload.
LEMMA StepHolds ==
  ASSUME TypeInv, NEW c \in Calls, CallSteps(c)
  PROVE  /\ Moved(c)
         /\ \/ call'[c].op = "none"
            \/ /\ call'[c].op = call[c].op /\ call'[c].upload = call[c].upload
               /\ call'[c].status = call[c].status
<1>1. call[c] \in CallRecord
  BY CallHolds
<1>2. ASSUME NEW at \in Positions, MovedTo(c, at)
      PROVE  /\ call'[c].op = call[c].op /\ call'[c].upload = call[c].upload
             /\ call'[c].status = call[c].status
  BY <1>1, <1>2, MovedRecord DEF MovedTo
<1>3. {"forget", "put", "rows", "unstage", "reopen", "object", "find", "drop", "reject",
       "cascade", "visible", "folder"} \subseteq Positions
  BY DEF Positions
<1>4. Ended(c) => call'[c].op = "none"
  BY IdleOK DEF Ended
<1>5. ASSUME NEW o \in Objects, PutObject(c, o)
      PROVE  /\ call'[c].op = call[c].op /\ call'[c].upload = call[c].upload
             /\ call'[c].status = call[c].status
  BY <1>5, PutMoves
<1>6. CASE FindObjects(c)
  BY <1>6, FindMoves
<1>7. QED
  BY <1>2, <1>3, <1>4, <1>5, <1>6, StepMoves, StepMoved DEF CallSteps

\* The handlers of Alone run by themselves, if one does: whatever step c takes.
LEMMA AloneKept ==
  ASSUME TypeInv, AloneInv, NEW c \in Calls,
         \/ Started(c)
         \/ Moved(c) /\ call'[c].op \in {call[c].op, "none"}
  PROVE  AloneInv'
<1>1. "none" \notin Alone
  BY DEF Ops
<1>2. \A d \in Calls : Busy(d) <=> call[d].op # "none"
  BY CallHolds
<1>3. \A d \in Calls : Busy(d)' <=> call'[d].op # "none"
  BY DEF Moved, Started, CallInv, CallOK, Busy
<1>4. CASE Started(c)
  BY <1>1, <1>2, <1>3, <1>4 DEF AloneInv, Started, Moved
<1>5. CASE Moved(c) /\ call'[c].op \in {call[c].op, "none"}
  BY <1>1, <1>2, <1>3, <1>5 DEF AloneInv, Moved
<1>6. QED
  BY <1>4, <1>5

LEMMA StartStarts ==
  ASSUME TypeInv, NEW c \in Calls, CallStarts(c)
  PROVE  Started(c)
<1>1. \A u \in Uploads, ids \in SUBSET Handed, fresh \in BOOLEAN :
         UploadInsert(c, u, ids, fresh) => Started(c)
  BY UploadStarts, Zenon
<1>2. \A u \in Uploads, ids \in SUBSET Handed, fresh \in BOOLEAN :
         AddRead(c, u, ids, fresh) => Started(c)
  BY AddStarts, Zenon
<1>3. \A u \in Uploads : UpdateRead(c, u) \/ DeleteRead(c, u) \/ ApproveRead(c, u)
                          \/ RejectRead(c, u) => Started(c)
  BY UpdateStarts, DeleteStarts, ApproveStarts, RejectStarts
<1>4. \A f \in Files : RemoveRead(c, f) => Started(c)
  BY RemoveStarts
<1>5. \A f \in Files, hide \in BOOLEAN : HideRead(c, f, hide) => Started(c)
  BY HideStarts
<1>6. \A f \in Files, verdict \in {"active", "rejected"} :
         FileReviewRead(c, f, verdict) => Started(c)
  BY FileReviewStarts
<1>7. \A o \in Objects : DiscardRead(c, o) => Started(c)
  BY DiscardStarts
<1>8. QED
  BY <1>1, <1>2, <1>3, <1>4, <1>5, <1>6, <1>7, StageStarts, Zenon DEF CallStarts

LEMMA NextAlone == TypeInv /\ AloneInv /\ [Next]_vars => AloneInv'
<1> SUFFICES ASSUME TypeInv, AloneInv, [Next]_vars PROVE AloneInv'
  OBVIOUS
<1>1. ASSUME NEW c \in Calls, CallStarts(c) PROVE AloneInv'
  BY <1>1, StartStarts, AloneKept
<1>2. ASSUME NEW c \in Calls, CallSteps(c) PROVE AloneInv'
  BY <1>2, StepHolds, AloneKept
<1>3. ASSUME UNCHANGED call PROVE AloneInv'
  BY <1>3 DEF AloneInv, Busy
<1>4. QED
  BY <1>1, <1>2, <1>3 DEF Next, vars, SetHidden, DayPasses

LEMMA InitAlone == Init => AloneInv
  BY IdleOK DEF Init, AloneInv, Busy

-----------------------------------------------------------------------------
(* The reviews.                                                             *)

\* What a step of a handler writes to the status of an upload.
LEMMA StepStatus ==
  ASSUME TypeInv, NEW c \in Calls, CallSteps(c), NEW u \in Uploads,
         upload'[u].status # upload[u].status
  PROVE  /\ u = call[c].upload /\ UploadExists(u)
         /\ \/ Reopen(c) /\ upload'[u].status = "pending"
            \/ DeleteCascade(c) /\ upload'[u].status = "gone"
            \/ ApproveWrite(c) /\ upload'[u].status = "active"
            \/ RejectWrite(c) /\ upload'[u].status = "rejected"
<1>1. UNCHANGED upload => FALSE
  OBVIOUS
<1>2. HideFolder(c) => FALSE
  BY DEF HideFolder, TypeInv, TypeOK, UploadRow
<1>3. Reopen(c) \/ DeleteCascade(c) \/ ApproveWrite(c) \/ RejectWrite(c)
  BY <1>1, <1>2 DEF CallSteps, SweepObjects, SweepRows, PutObject, PutRefused, StageSave,
     SaveFails, ClaimFind, ClaimSave, ClaimFails, ClaimUnstage, FileSave, RemoveCount,
     RemoveObject, RemoveRow, FindObjects, TearDownObjects, HideFile, HideCount,
     FileReviewWrite
<1>4. call[c].upload \in Uploads
  BY <1>3, CallHolds, OperationAt
     DEF Reopen, DeleteCascade, ApproveWrite, RejectWrite, CallOK
<1>5. UploadExists(u)
  BY <1>3, <1>4 DEF Reopen, DeleteCascade, ApproveWrite, RejectWrite, SetStatus, TypeInv,
     TypeOK
<1>6. QED
  BY <1>3, <1>4, <1>5, StatusSet DEF Reopen, DeleteCascade, ApproveWrite, RejectWrite, Statuses

\* A handler that starts writes an upload only if it is the upload's own form.
LEMMA StartStatus ==
  ASSUME TypeInv, NEW c \in Calls, CallStarts(c), NEW u \in Uploads,
         upload'[u].status # upload[u].status
  PROVE  /\ upload[u].status = "unused" /\ upload'[u].status = "pending"
         /\ call'[c].op = "upload" /\ call'[c].upload = u
<1>1. PICK v \in Uploads, ids \in SUBSET Handed, fresh \in BOOLEAN :
         UploadInsert(c, v, ids, fresh)
  BY DEF CallStarts, StageStart, DiscardRead, AddRead, UpdateRead, DeleteRead, ApproveRead,
         RejectRead, RemoveRead, HideRead, FileReviewRead
<1>2. call'[c].op = "upload" /\ call'[c].upload = v
  BY <1>1, UploadStarts
<1>3. u = v /\ upload'[u].status = "pending" /\ upload[v].status = "unused"
  BY <1>1 DEF UploadInsert, IsNext, UnusedUploads, TypeInv, TypeOK, UploadRow
<1>4. QED
  BY <1>2, <1>3

LEMMA OtherStatus ==
  ASSUME TypeInv, \/ \E u \in Uploads, hide \in BOOLEAN : SetHidden(u, hide)
                  \/ \E o \in Objects : DayPasses(o)
                  \/ UNCHANGED vars
  PROVE  /\ \A u \in Uploads : upload'[u].status = upload[u].status
         /\ UNCHANGED <<file, object, call>>
<1>1. ASSUME NEW v \in Uploads, NEW hide \in BOOLEAN, SetHidden(v, hide)
      PROVE  /\ \A u \in Uploads : upload'[u].status = upload[u].status
             /\ UNCHANGED <<file, object, call>>
  BY <1>1 DEF SetHidden, TypeInv, TypeOK, UploadRow
<1>2. QED
  BY <1>1 DEF DayPasses, vars

LEMMA StepBusy ==
  ASSUME NEW c \in Calls, CallSteps(c)
  PROVE  Busy(c)
  BY DEF CallSteps, Busy, At, SweepObjects, SweepRows, PutObject, PutRefused, StageSave,
     SaveFails, ClaimFind, ClaimSave, ClaimFails, ClaimUnstage, FileSave, Reopen,
     RemoveCount, RemoveObject, RemoveRow, FindObjects, TearDownObjects, DeleteCascade,
     HideFile, HideCount, HideFolder, ApproveWrite, RejectWrite, FileReviewWrite

\* Where a document comes from that is there after a step: it was there and is
\* what it was, but for a review, or it was just made by an upload.
SameFile(f) ==
    /\ FileExists(f)
    /\ file'[f].upload = file[f].upload /\ file'[f].object = file[f].object

LEMMA StepFiles ==
  ASSUME TypeInv, NEW c \in Calls, CallSteps(c), NEW f \in Files, FileExists(f)'
  PROVE  \/ SameFile(f) /\ file'[f].status = file[f].status
            /\ (file[f].reviewed => file'[f].reviewed)
            /\ (ApproveWrite(c) /\ file[f].upload = call[c].upload /\ file[f].status = "active"
                   => file'[f].reviewed)
         \/ SameFile(f) /\ (file'[f].status = "active" => file'[f].reviewed)
            /\ FileReviewWrite(c)
         \/ /\ ClaimSave(c) \/ FileSave(c)
            /\ UploadExists(call[c].upload)
            /\ \E o \in call[c].objects : file'[f] = NewFile(c, o)
<1> USE DEF FileExists, SameFile
<1>1. CASE ClaimSave(c) \/ FileSave(c)
  <2>1. /\ call[c].op \in {"upload", "add"} /\ InsertFiles(c, call[c].objects)
        /\ ~ApproveWrite(c)
    BY <1>1, OperationAt DEF ClaimSave, FileSave, ApproveWrite, At
  <2>2. QED
    BY <1>1, <2>1, Inserted
<1>2. CASE HideFile(c)
  <2>1. ~ApproveWrite(c)
    BY <1>2 DEF HideFile, ApproveWrite, At
  <2>2. QED
    BY <1>2, <2>1, HiddenSet
<1>3. CASE FileReviewWrite(c)
  <2>1. ~ApproveWrite(c)
    BY <1>3 DEF FileReviewWrite, ApproveWrite, At
  <2>2. QED
    BY <1>3, <2>1, VerdictWritten
<1>4. CASE ApproveWrite(c)
  BY <1>4, Approved DEF FilesOf
<1>5. CASE RemoveRow(c)
  <2>1. ~ApproveWrite(c)
    BY <1>5 DEF RemoveRow, ApproveWrite, At
  <2>2. QED
    BY <1>5, <2>1, Erased DEF RemoveRow, Statuses
<1>6. CASE DeleteCascade(c)
  <2>1. ~ApproveWrite(c)
    BY <1>6 DEF DeleteCascade, ApproveWrite, At
  <2>2. QED
    BY <1>6, <2>1, Erased DEF DeleteCascade, Statuses
<1>7. CASE UNCHANGED file /\ ~ApproveWrite(c)
  BY <1>7
<1>8. QED
  BY <1>1, <1>2, <1>3, <1>4, <1>5, <1>6, <1>7 DEF CallSteps, SweepObjects, SweepRows,
     PutObject, PutRefused, StageSave, SaveFails, ClaimFind, ClaimFails, ClaimUnstage,
     Reopen, RemoveCount, RemoveObject, FindObjects, TearDownObjects, HideCount,
     HideFolder, RejectWrite

LEMMA StartFiles ==
  ASSUME NEW c \in Calls, CallStarts(c)
  PROVE  UNCHANGED <<file, object, staged, stale>>
  BY DEF CallStarts, StageStart, DiscardRead, UploadInsert, AddRead, UpdateRead,
     DeleteRead, ApproveRead, RejectRead, RemoveRead, HideRead, FileReviewRead

\* Whoever starts to approve an upload finds it pending, and whoever starts to add
\* files finds it as he goes by.
LEMMA StartsApprove ==
  ASSUME TypeInv, NEW c \in Calls, CallStarts(c), call'[c].op = "approve"
  PROVE  upload[call'[c].upload].status = "pending" /\ UNCHANGED upload
<1>1. \A u \in Uploads, ids \in SUBSET Handed, fresh \in BOOLEAN :
         ~UploadInsert(c, u, ids, fresh)
  BY UploadStarts
<1>2. \A u \in Uploads, ids \in SUBSET Handed, fresh \in BOOLEAN :
         ~AddRead(c, u, ids, fresh)
  BY AddStarts
<1>3. PICK u \in Uploads : ApproveRead(c, u)
  <2>1. ~StageStart(c) /\ \A o \in Objects : ~DiscardRead(c, o)
    BY StageStarts, DiscardStarts
  <2>2. \A u \in Uploads : ~UpdateRead(c, u) /\ ~DeleteRead(c, u) /\ ~RejectRead(c, u)
    BY UpdateStarts, DeleteStarts, RejectStarts
  <2>3. \A f \in Files : ~RemoveRead(c, f) /\ \A hide \in BOOLEAN : ~HideRead(c, f, hide)
    BY RemoveStarts, HideStarts
  <2>4. \A f \in Files, verdict \in {"active", "rejected"} : ~FileReviewRead(c, f, verdict)
    BY FileReviewStarts
  <2>5. QED
    BY <1>1, <1>2, <2>1, <2>2, <2>3, <2>4 DEF CallStarts
<1>4. QED
  BY <1>3, ApproveStarts DEF ApproveRead

LEMMA StartsAdding ==
  ASSUME TypeInv, NEW c \in Calls, CallStarts(c), call'[c].op \in {"upload", "add"}
  PROVE  /\ call'[c].op = "upload" => upload'[call'[c].upload].status = "pending"
         /\ call'[c].op = "add" => upload'[call'[c].upload].status = call'[c].status
<1>1. ASSUME NEW u \in Uploads, NEW ids \in SUBSET Handed, NEW fresh \in BOOLEAN,
             UploadInsert(c, u, ids, fresh)
      PROVE  call'[c].op = "upload" /\ upload'[call'[c].upload].status = "pending"
  <2>1. call'[c].op = "upload" /\ call'[c].upload = u
    BY <1>1, UploadStarts
  <2>2. upload'[u].status = "pending"
    BY <1>1 DEF UploadInsert, TypeInv, TypeOK, UploadRow
  <2>3. QED
    BY <2>1, <2>2
<1>2. ASSUME NEW u \in Uploads, NEW ids \in SUBSET Handed, NEW fresh \in BOOLEAN,
             AddRead(c, u, ids, fresh)
      PROVE  call'[c].op = "add" /\ upload'[call'[c].upload].status = call'[c].status
  <2>1. call'[c].op = "add" /\ call'[c].upload = u /\ call'[c].status = upload[u].status
    BY <1>2, AddStarts
  <2>2. QED
    BY <1>2, <2>1 DEF AddRead
<1>3. \E u \in Uploads, ids \in SUBSET Handed, fresh \in BOOLEAN :
         UploadInsert(c, u, ids, fresh) \/ AddRead(c, u, ids, fresh)
  <2>1. ~StageStart(c) /\ \A o \in Objects : ~DiscardRead(c, o)
    BY StageStarts, DiscardStarts
  <2>2. \A u \in Uploads : /\ ~UpdateRead(c, u) /\ ~DeleteRead(c, u)
                           /\ ~ApproveRead(c, u) /\ ~RejectRead(c, u)
    BY UpdateStarts, DeleteStarts, ApproveStarts, RejectStarts
  <2>3. \A f \in Files : ~RemoveRead(c, f) /\ \A hide \in BOOLEAN : ~HideRead(c, f, hide)
    BY RemoveStarts, HideStarts
  <2>4. \A f \in Files, verdict \in {"active", "rejected"} : ~FileReviewRead(c, f, verdict)
    BY FileReviewStarts
  <2>5. QED
    BY <2>1, <2>2, <2>3, <2>4 DEF CallStarts
<1>4. QED
  BY <1>1, <1>2, <1>3

\* The decision to approve is still about an upload nobody rejected: a rejection
\* runs by itself.
LEMMA NextApprove ==
  ASSUME "reject" \in Alone, TypeInv, ApproveInv, [Next]_vars
  PROVE  ApproveInv'
<1>1. AloneInv'
  BY NextAlone DEF ApproveInv
<1>2. TypeInv'
  BY NextTypes
<1>3. SUFFICES ASSUME NEW d \in Calls, call'[d].op = "approve"
               PROVE  upload'[call'[d].upload].status # "rejected"
  BY <1>1 DEF ApproveInv
<1>4. call'[d].upload \in Uploads
  BY <1>2, <1>3 DEF TypeInv, CallInv, CallOK
<1>5. CASE call'[d] = call[d] /\ upload'[call[d].upload].status = upload[call[d].upload].status
  BY <1>3, <1>5 DEF ApproveInv
<1>6. ASSUME NEW c \in Calls, CallStarts(c)
      PROVE  upload'[call'[d].upload].status # "rejected"
  <2>1. CASE d = c
    BY <1>3, <1>6, <2>1, StartsApprove
  <2>2. CASE d # c
    <3>1. call'[d] = call[d]
      BY <1>6, <2>2, StartStarts DEF Started, Moved
    <3>2. QED
      BY <1>3, <1>4, <1>6, <3>1, StartStatus DEF ApproveInv
  <2>3. QED
    BY <2>1, <2>2
<1>7. ASSUME NEW c \in Calls, CallSteps(c)
      PROVE  upload'[call'[d].upload].status # "rejected"
  <2>1. call[d].op = "approve" /\ call'[d].upload = call[d].upload
    BY <1>3, <1>7, StepHolds DEF Moved
  <2>2. upload[call[d].upload].status # "rejected"
    BY <2>1 DEF ApproveInv
  <2>3. RejectWrite(c) => call[c].op = "reject"
    BY OperationAt DEF RejectWrite
  <2>4. Busy(d)
    BY <2>1, CallHolds
  <2>5. ~RejectWrite(c)
    BY <2>1, <2>3, <2>4 DEF ApproveInv, AloneInv
  <2>6. QED
    BY <1>4, <1>7, <2>1, <2>2, <2>5, StepStatus
<1>8. QED
  BY <1>4, <1>5, <1>6, <1>7, OtherStatus DEF Next

\* A rejected upload is published again only by way of a new review, which its
\* owner asks for by editing it, where a rejection overlaps no other operation
\* (it reads the files, deletes the objects and writes the status in three steps).
THEOREM RejectionsStand == "reject" \in Alone => (Spec => RejectionStands)
<1> SUFFICES ASSUME "reject" \in Alone PROVE Spec => RejectionStands
  OBVIOUS
<1>1. Init => ApproveInv
  BY InitAlone, IdleOK DEF Init, ApproveInv
<1>2. TypeInv /\ ApproveInv /\ [Next]_vars => ApproveInv'
  BY NextApprove
<1> DEFINE Stands == \A u \in Uploads : upload[u].status = "rejected" =>
                        upload'[u].status \in {"rejected", "pending", "gone"}
<1>3. TypeInv /\ ApproveInv /\ [Next]_vars => [Stands]_vars
  <2> SUFFICES ASSUME TypeInv, ApproveInv, [Next]_vars, NEW u \in Uploads,
                      upload[u].status = "rejected",
                      upload'[u].status # upload[u].status
               PROVE  upload'[u].status \in {"pending", "gone"}
    OBVIOUS
  <2>1. ASSUME NEW c \in Calls, CallStarts(c) PROVE FALSE
    BY <2>1, StartStatus
  <2>2. ASSUME NEW c \in Calls, CallSteps(c)
        PROVE  upload'[u].status \in {"pending", "gone"}
    <3>1. ApproveWrite(c) /\ u = call[c].upload => FALSE
      BY OperationAt DEF ApproveWrite, ApproveInv
    <3>2. QED
      BY <2>2, <3>1, StepStatus
  <2>3. QED
    BY <2>1, <2>2, OtherStatus DEF Next
<1>4. QED
  BY <1>1, <1>2, <1>3, TypesHold, PTL DEF Spec, RejectionStands

\* A row that uploadMany() or addFiles() writes is covered by the review of its
\* upload, or waits for one of its own.
LEMMA NewUnreviewed ==
  ASSUME TypeInv, ReviewInv, NEW c \in Calls, ClaimSave(c) \/ FileSave(c),
         NEW o \in call[c].objects, NewFile(c, o).status = "active"
  PROVE  upload[NewFile(c, o).upload].status # "active"
<1>1. call[c].op \in {"upload", "add"}
  BY OperationAt DEF ClaimSave, FileSave
<1>2. NewFile(c, o).upload = call[c].upload
  BY DEF NewFile, NoFile
<1>3. ~(call[c].op = "add" /\ call[c].status = "active")
  BY DEF NewFile, NoFile
<1>4. QED
  BY <1>1, <1>2, <1>3 DEF ReviewInv

LEMMA StepReviews ==
  ASSUME ClaimsAlone, TypeInv, ReviewInv, NEW c \in Calls, CallSteps(c), AloneInv'
  PROVE  ReviewInv'
<1>1. TypeInv'
  BY NextTypes DEF Next
<1>2. ASSUME NEW f \in Files, FileExists(f)', file'[f].status = "active",
             ~file'[f].reviewed, upload'[file'[f].upload].status = "active"
      PROVE  FALSE
  <2>1. file'[f].upload \in Uploads
    BY <1>1, <1>2 DEF TypeInv, RowInv, RowOK, FileExists
  <2>2. CASE /\ SameFile(f) /\ file'[f].status = file[f].status
             /\ file[f].reviewed => file'[f].reviewed
             /\ ApproveWrite(c) /\ file[f].upload = call[c].upload
                   /\ file[f].status = "active" => file'[f].reviewed
    <3>1. f \in Docs /\ file[f].status = "active" /\ ~file[f].reviewed
      BY <1>2, <2>2 DEF SameFile, Docs
    <3>2. upload[file[f].upload].status # "active"
      BY <3>1 DEF ReviewInv
    <3>3. ApproveWrite(c) /\ file[f].upload = call[c].upload
      BY <1>2, <2>1, <2>2, <3>2, StepStatus DEF SameFile
    <3>4. QED
      BY <1>2, <2>2, <3>1, <3>3
  <2>3. CASE ClaimSave(c) \/ FileSave(c)
    <3>1. upload' = upload
      BY <2>3 DEF ClaimSave, FileSave
    <3>2. CASE SameFile(f) /\ file'[f].status = file[f].status
               /\ (file[f].reviewed => file'[f].reviewed)
      BY <1>2, <3>1, <3>2 DEF SameFile, Docs, ReviewInv
    <3>3. CASE \E o \in call[c].objects : file'[f] = NewFile(c, o)
      BY <1>2, <2>3, <3>1, <3>3, NewUnreviewed
    <3>4. ~FileReviewWrite(c)
      BY <2>3 DEF ClaimSave, FileSave, FileReviewWrite, At
    <3>5. QED
      BY <1>2, <3>2, <3>3, <3>4, StepFiles
  <2>4. QED
    BY <1>2, <2>2, <2>3, StepFiles
<1>3. ASSUME NEW d \in Calls, call'[d].op \in {"upload", "add"}
      PROVE  /\ call'[d].op = "upload" => upload'[call'[d].upload].status = "pending"
             /\ call'[d].op = "add" => upload'[call'[d].upload].status = call'[d].status
  <2>1. /\ call'[d].op = call[d].op /\ call'[d].upload = call[d].upload
        /\ call'[d].status = call[d].status
    BY <1>3, StepHolds DEF Moved
  <2>2. call[d].upload \in Uploads
    BY <1>3, <2>1, CallHolds DEF CallOK
  <2>3. d = c
    BY <1>3, <2>1, StepBusy DEF ClaimsAlone, ReviewInv, AloneInv
  <2>4. ~Reopen(c)
    BY <1>3, <2>3, StepMoves, IdleOK DEF Ended
  <2>5. ~DeleteCascade(c) /\ ~ApproveWrite(c) /\ ~RejectWrite(c)
    BY <1>3, <2>1, <2>3, OperationAt DEF DeleteCascade, ApproveWrite, RejectWrite
  <2>6. upload'[call[d].upload].status = upload[call[d].upload].status
    BY <2>2, <2>4, <2>5, StepStatus
  <2>7. QED
    BY <2>1, <2>6 DEF ReviewInv
<1>4. QED
  BY <1>2, <1>3 DEF ReviewInv, Docs

LEMMA StartReviews ==
  ASSUME ClaimsAlone, TypeInv, ReviewInv, NEW c \in Calls, CallStarts(c), AloneInv'
  PROVE  ReviewInv'
<1>1. ASSUME NEW f \in Files, FileExists(f)', file'[f].status = "active",
             ~file'[f].reviewed, upload'[file'[f].upload].status = "active"
      PROVE  FALSE
  <2>1. f \in Docs /\ file'[f] = file[f]
    BY <1>1, StartFiles DEF Docs, FileExists
  <2>2. file[f].upload \in Uploads /\ upload[file[f].upload].status # "active"
    BY <1>1, <2>1, RowHolds DEF Docs, ReviewInv
  <2>3. QED
    BY <1>1, <2>1, <2>2, StartStatus
<1>2. ASSUME NEW d \in Calls, call'[d].op \in {"upload", "add"}
      PROVE  /\ call'[d].op = "upload" => upload'[call'[d].upload].status = "pending"
             /\ call'[d].op = "add" => upload'[call'[d].upload].status = call'[d].status
  <2>1. d = c
    BY <1>2, StartStarts DEF Started, Moved, ClaimsAlone
  <2>2. QED
    BY <1>2, <2>1, StartsAdding
<1>3. QED
  BY <1>1, <1>2 DEF ReviewInv, Docs

LEMMA NextReviews ==
  ASSUME ClaimsAlone, TypeInv, ReviewInv, [Next]_vars
  PROVE  ReviewInv'
<1>1. AloneInv'
  BY NextAlone DEF ReviewInv
<1>2. ASSUME /\ \A u \in Uploads : upload'[u].status = upload[u].status
             /\ UNCHANGED <<file, object, call>>
      PROVE  ReviewInv'
  <2>1. \A f \in Docs : file[f].upload \in Uploads
    BY RowHolds DEF Docs
  <2>2. \A d \in Calls : call[d].op \in {"upload", "add"} => call[d].upload \in Uploads
    BY CallHolds DEF CallOK
  <2>3. Docs' = Docs
    BY <1>2 DEF Docs, FileExists
  <2>4. QED
    BY <1>1, <1>2, <2>1, <2>2, <2>3 DEF ReviewInv
<1>3. QED
  BY <1>1, <1>2, StartReviews, StepReviews, OtherStatus DEF Next

\* "A file added to an ALREADY-APPROVED upload has never been reviewed, so it lands
\* pending and stays hidden": no file is public that no reviewer let through, alone
\* or with its upload, where uploadMany() and addFiles() overlap no other
\* operation, whatever else does.
THEOREM ReviewedFirst == ClaimsAlone => (Spec => []NothingPublicUnreviewed)
<1> SUFFICES ASSUME ClaimsAlone PROVE Spec => []NothingPublicUnreviewed
  OBVIOUS
<1>1. Init => ReviewInv
  BY InitAlone, IdleOK DEF Init, ReviewInv, Docs, FileExists, NoFile, Statuses
<1>2. TypeInv /\ ReviewInv /\ [Next]_vars => ReviewInv'
  BY NextReviews
<1>3. ReviewInv => NothingPublicUnreviewed
  BY DEF ReviewInv, NothingPublicUnreviewed, Public, Docs, FileExists, Statuses
<1>4. QED
  BY <1>1, <1>2, <1>3, TypesHold, PTL DEF Spec

-----------------------------------------------------------------------------
(* Who owns what.                                                           *)

\* Nobody is between the rows of a claim and its end while another handler acts.
LEMMA NobodyClaims ==
  ASSUME ClaimsAlone, TypeInv, OwnInv, NEW c \in Calls,
         Started(c) \/ (Busy(c) /\ ~At(c, "unstage"))
  PROVE  staged \cap DocObjects = {}
<1> SUFFICES ASSUME NEW o \in staged \cap DocObjects PROVE FALSE
  OBVIOUS
<1>1. PICK d \in Calls : At(d, "unstage")
  BY DEF OwnInv, DocInv
<1>2. call[d].op \in Alone /\ Busy(d)
  BY <1>1, OperationAt DEF ClaimsAlone, At, Busy
<1>3. QED
  BY <1>1, <1>2 DEF Started, OwnInv, AloneInv

\* Where uploadMany() or addFiles() acts, everybody else waits; while anybody else
\* acts, they do.
LEMMA ClaimsApart ==
  ASSUME ClaimsAlone, TypeInv, AloneInv, NEW c \in Calls, NEW d \in Calls, c # d
  PROVE  /\ Started(c) \/ Busy(c) => call[d].op \notin {"upload", "add"}
         /\ call[c].op \in {"upload", "add"} => ~Busy(d)
         /\ Started(c) /\ call'[c].op \in {"upload", "add"} => ~Busy(d)
  BY CallHolds DEF ClaimsAlone, AloneInv, Started

LEMMA OwnedUsed ==
  ASSUME TypeInv, OwnInv
  PROVE  /\ \A o \in staged \cup DocObjects : o \in Objects /\ object[o] # "unused"
         /\ \A c \in Calls : \A o \in call[c].objects : o \in Objects /\ object[o] # "unused"
<1>1. \A c \in Calls : \A o \in call[c].objects : o \in Objects /\ object[o] # "unused"
  BY CallHolds DEF OwnInv, HandOK, CallRecord
<1>2. \A o \in staged : o \in Objects /\ object[o] # "unused"
  BY <1>1 DEF OwnInv, StoredInv, TypeInv, TypeOK
<1>3. \A o \in DocObjects : o \in Objects
  BY RowHolds DEF DocObjects, Docs
<1>4. \A o \in DocObjects : object[o] # "unused"
  BY <1>1 DEF OwnInv, StoredInv
<1>5. QED
  BY <1>1, <1>2, <1>3, <1>4

\* What the handlers that do not act may rely on: an object is used once, only
\* the one that acts takes its own out, stores what it stored into its own row,
\* and turns to what nobody else stored.
Considerate(c) ==
    /\ \A o \in Objects :
          /\ object[o] # "unused" => object'[o] # "unused"
          /\ object'[o] = "stored" => object[o] \in {"unused", "stored"}
          /\ object[o] = "stored" /\ object'[o] # "stored" => o \in call[c].objects
    /\ \A o \in staged' : o \in staged \/ (Fresh(c) /\ o \in call[c].objects)
    /\ \A o \in call'[c].objects :
          o \in call[c].objects \/ o \in staged \cup DocObjects \/ object[o] = "unused"

\* No document is made.
OnlyOld == \A f \in Files : FileExists(f)' => SameFile(f)

LEMMA OldDocs ==
  ASSUME OnlyOld
  PROVE  /\ Docs' \subseteq Docs /\ DocObjects' \subseteq DocObjects
         /\ \A f \in Docs' : /\ f \in Docs /\ file'[f].object = file[f].object
                             /\ file'[f].upload = file[f].upload
<1>1. \A f \in Docs' : /\ f \in Docs /\ file'[f].object = file[f].object
                       /\ file'[f].upload = file[f].upload
  BY DEF OnlyOld, SameFile, Docs
<1>2. QED
  BY <1>1 DEF DocObjects

LEMMA IdleHand ==
  ASSUME TypeInv', NEW d \in Calls, call'[d].op = "none"
  PROVE  HandOK(d)'
<1>1. call'[d].at = "idle" /\ call'[d].objects = {}
  BY DEF TypeInv, CallInv, CallOK
<1>2. QED
  BY <1>1 DEF HandOK, Fresh

LEMMA OthersKept ==
  ASSUME ClaimsAlone, TypeInv, TypeInv', OwnInv, NEW c \in Calls, Moved(c),
         Started(c) \/ Busy(c), Considerate(c), OnlyOld,
         NEW d \in Calls, d # c
  PROVE  HandOK(d)'
<1>1. call'[d] = call[d] /\ HandOK(d) /\ call[d].op \notin {"upload", "add"}
  BY ClaimsApart DEF Moved, OwnInv
<1> DEFINE objects == call[d].objects
<1>2. \A o \in objects : o \in Objects /\ object[o] # "unused"
  BY OwnedUsed
<1>3. \A o \in objects : object'[o] # "unused"
  BY <1>2 DEF Considerate
<1>4. call[d].at \in {"sweep", "forget"} => objects \cap DocObjects' = {}
  BY <1>1, OldDocs DEF HandOK
<1>5. call[d].at \in {"forget", "drop", "cascade"} => \A o \in objects : object'[o] # "stored"
  BY <1>1, <1>2 DEF HandOK, Considerate
<1>6. Fresh(d) => \A o \in objects :
         /\ object'[o] = "stored"
         /\ o \notin staged' \cup DocObjects'
         /\ \A e \in Calls : e # d => o \notin call'[e].objects
  <2> SUFFICES ASSUME Fresh(d), NEW o \in objects
               PROVE  /\ object'[o] = "stored"
                      /\ o \notin staged' \cup DocObjects'
                      /\ \A e \in Calls : e # d => o \notin call'[e].objects
    OBVIOUS
  <2>1. /\ object[o] = "stored" /\ o \notin staged \cup DocObjects
        /\ \A e \in Calls : e # d => o \notin call[e].objects
    BY <1>1 DEF HandOK
  <2>2. o \notin call[c].objects
    BY <2>1
  <2>3. object'[o] = "stored"
    BY <1>2, <2>1, <2>2 DEF Considerate
  <2>4. o \notin staged' \cup DocObjects'
    BY <2>1, <2>2, OldDocs DEF Considerate
  <2>5. o \notin call'[c].objects
    BY <2>1, <2>2 DEF Considerate
  <2>6. QED
    BY <2>1, <2>3, <2>4, <2>5 DEF Moved
<1>7. call[d].at \notin {"rows", "unstage"}
  BY <1>1, OperationAt DEF At
<1>8. call[d].at \in {"count", "object", "drop"} => \A f \in Docs' :
         file'[f].object \in objects <=> f = call[d].file
  BY <1>1, OldDocs DEF HandOK
<1>9. call[d].at \in {"objects", "cascade", "reject"} => \A f \in Docs' :
         file'[f].object \in objects <=> file'[f].upload = call[d].upload
  BY <1>1, OldDocs DEF HandOK
<1>10. call[d].at \in {"count", "object", "drop", "objects", "cascade", "reject"}
          => objects \cap staged' = {}
  <2>1. Fresh(c) => \A o \in call[c].objects : o \notin objects
    BY DEF OwnInv, HandOK
  <2>2. QED
    BY <1>1, <2>1 DEF HandOK, Considerate
<1>11. QED
  BY <1>1, <1>3, <1>4, <1>5, <1>6, <1>7, <1>8, <1>9, <1>10 DEF HandOK, Fresh

\* Where nobody else is at work, nobody else has anything to go by.
LEMMA IdleKept ==
  ASSUME TypeInv, TypeInv', NEW c \in Calls, Moved(c),
         NEW d \in Calls, d # c, ~Busy(d)
  PROVE  HandOK(d)'
  BY CallHolds, IdleHand DEF Moved

\* The documents are what they were, as far as ownership goes.
SameDocs ==
    \A f \in Files : /\ FileExists(f)' <=> FileExists(f)
                     /\ FileExists(f) => SameFile(f)

LEMMA DocsSame ==
  ASSUME SameDocs
  PROVE  /\ Docs' = Docs /\ DocObjects' = DocObjects /\ OnlyOld
         /\ \A f \in Docs : file'[f].object = file[f].object /\ file'[f].upload = file[f].upload
<1>1. Docs' = Docs
  BY DEF SameDocs, Docs
<1>2. \A f \in Docs : file'[f].object = file[f].object /\ file'[f].upload = file[f].upload
  BY DEF SameDocs, SameFile, Docs
<1>3. QED
  BY <1>1, <1>2 DEF DocObjects, SameDocs, OnlyOld

\* A step that takes nothing and gives nothing, of a handler that owns nothing.
LEMMA QuietKept ==
  ASSUME TypeInv, OwnInv, NEW c \in Calls, Moved(c), SameDocs, UNCHANGED <<object, staged>>,
         call[c].at \notin {"forget", "unstage", "cascade", "drop", "save", "row"}
  PROVE  DocInv' /\ StoredInv' /\ OwnerInv'
<1>1. \A d \in Calls : call[d].at \in {"forget", "unstage", "cascade", "drop", "save", "row"}
                          => call'[d] = call[d]
  BY DEF Moved
<1>2. /\ Docs' = Docs /\ DocObjects' = DocObjects
      /\ \A f \in Docs : file'[f].object = file[f].object
  BY DocsSame
<1>3. DocInv'
  BY <1>1, <1>2 DEF OwnInv, DocInv, At
<1>4. StoredInv'
  BY <1>1, <1>2 DEF OwnInv, StoredInv, At
<1>5. OwnerInv'
  BY <1>1, <1>2 DEF OwnInv, OwnerInv, Fresh
<1>6. QED
  BY <1>3, <1>4, <1>5

\* What a handler starts with is in use.
LEMMA StartHand ==
  ASSUME ClaimsAlone, TypeInv, OwnInv, NEW c \in Calls, CallStarts(c)
  PROVE  /\ HandOK(c)'
         /\ \/ call'[c].objects \subseteq staged \cup DocObjects
            \/ call'[c].op \in {"upload", "add"}
<1>1. UNCHANGED <<file, object, staged>> /\ Docs' = Docs /\ DocObjects' = DocObjects
  BY StartFiles DEF Docs, DocObjects, FileExists
<1>2. staged \cap DocObjects = {}
  BY StartStarts, NobodyClaims
<1>3. CASE /\ call'[c].objects \subseteq staged
           /\ call'[c].at \in {"sweep", "put"}
  BY <1>1, <1>2, <1>3, OwnedUsed DEF HandOK, Fresh
<1>4. CASE call'[c].objects = {} /\ call'[c].at \in {"reopen", "find", "hide", "approve", "verdict"}
  BY <1>4 DEF HandOK, Fresh
<1>5. CASE /\ call'[c].objects \subseteq Handed /\ call'[c].at \in {"put", "claim"}
           /\ call'[c].op \in {"upload", "add"}
  BY <1>1, <1>5 DEF HandOK, Fresh, Handed
<1>6. ASSUME NEW f \in Files, RemoveRead(c, f)
      PROVE  HandOK(c)' /\ call'[c].objects \subseteq staged \cup DocObjects
  <2>1. /\ call'[c].at = "count" /\ call'[c].file = f /\ call'[c].objects = {file[f].object}
        /\ f \in Docs
    BY <1>6, RemoveStarts DEF RemoveRead, Docs
  <2>2. file[f].object \in DocObjects
    BY <2>1 DEF DocObjects
  <2>3. \A g \in Docs : file[g].object \in call'[c].objects <=> g = f
    BY <2>1 DEF OwnInv, DocInv
  <2>4. call'[c].objects \cap staged = {} /\ \A o \in call'[c].objects : object[o] # "unused"
    BY <1>2, <2>1, <2>2, OwnedUsed
  <2>5. HandOK(c)'
    BY <1>1, <2>1, <2>3, <2>4 DEF HandOK, Fresh
  <2>6. QED
    BY <2>1, <2>2, <2>5
<1>7. ASSUME NEW u \in Uploads, NEW ids \in SUBSET Handed, NEW fresh \in BOOLEAN,
             UploadInsert(c, u, ids, fresh)
      PROVE  /\ call'[c].objects \subseteq Handed /\ call'[c].at \in {"put", "claim"}
             /\ call'[c].op \in {"upload", "add"}
  <2>1. call'[c].objects = ids /\ call'[c].at \in {"put", "claim"} /\ call'[c].op \in {"upload", "add"}
    BY <1>7, UploadStarts
  <2>2. QED
    BY <2>1
<1>8. ASSUME NEW u \in Uploads, NEW ids \in SUBSET Handed, NEW fresh \in BOOLEAN,
             AddRead(c, u, ids, fresh)
      PROVE  /\ call'[c].objects \subseteq Handed /\ call'[c].at \in {"put", "claim"}
             /\ call'[c].op \in {"upload", "add"}
  <2>1. call'[c].objects = ids /\ call'[c].at \in {"put", "claim"} /\ call'[c].op \in {"upload", "add"}
    BY <1>8, AddStarts
  <2>2. QED
    BY <2>1
<1>9. StageStart(c) => call'[c].objects \subseteq staged /\ call'[c].at \in {"sweep", "put"}
  BY StageStarts DEF TypeInv, TypeOK
<1>10. \A o \in Objects : DiscardRead(c, o) =>
          call'[c].objects \subseteq staged /\ call'[c].at \in {"sweep", "put"}
  <2> TAKE o \in Objects
  <2> HAVE DiscardRead(c, o)
  <2>1. o \in staged
    BY DEF DiscardRead
  <2>2. call'[c].objects = {o} /\ call'[c].at = "sweep"
    BY DiscardStarts
  <2>3. QED
    BY <2>1, <2>2
<1>11. \A u \in Uploads : UpdateRead(c, u) \/ DeleteRead(c, u) \/ ApproveRead(c, u)
                             \/ RejectRead(c, u) =>
          /\ call'[c].objects = {}
          /\ call'[c].at \in {"reopen", "find", "hide", "approve", "verdict"}
  BY UpdateStarts, DeleteStarts, ApproveStarts, RejectStarts
<1>12. \A f \in Files, hide \in BOOLEAN : HideRead(c, f, hide) =>
          /\ call'[c].objects = {}
          /\ call'[c].at \in {"reopen", "find", "hide", "approve", "verdict"}
  BY HideStarts
<1>13. \A f \in Files, verdict \in {"active", "rejected"} : FileReviewRead(c, f, verdict) =>
          /\ call'[c].objects = {}
          /\ call'[c].at \in {"reopen", "find", "hide", "approve", "verdict"}
  BY FileReviewStarts
<1>14. QED
  BY <1>3, <1>4, <1>5, <1>6, <1>7, <1>8, <1>9, <1>10, <1>11, <1>12, <1>13 DEF CallStarts

LEMMA StartOwns ==
  ASSUME ClaimsAlone, TypeInv, TypeInv', OwnInv, AloneInv', NEW c \in Calls, CallStarts(c)
  PROVE  OwnInv'
<1>1. Started(c) /\ Moved(c) /\ call[c].at = "idle"
  BY StartStarts, CallHolds DEF Started, Busy
<1>2. UNCHANGED <<file, object, staged>> /\ SameDocs
  BY StartFiles DEF SameDocs, SameFile, FileExists
<1>3. DocInv' /\ StoredInv' /\ OwnerInv'
  BY <1>1, <1>2, QuietKept
<1>4. ASSUME NEW d \in Calls, d # c PROVE HandOK(d)'
  <2>1. CASE call'[c].op \in {"upload", "add"}
    BY <1>1, <1>4, <2>1, IdleKept, ClaimsApart DEF OwnInv
  <2>2. CASE call'[c].objects \subseteq staged \cup DocObjects
    <3>1. Considerate(c)
      BY <1>2, <2>2 DEF Considerate
    <3>2. QED
      BY <1>1, <1>2, <1>4, <3>1, OthersKept, DocsSame
  <2>3. QED
    BY <2>1, <2>2, StartHand
<1>5. QED
  BY <1>3, <1>4, StartHand DEF OwnInv

\* The steps of a handler that read, or write what no owner goes by.
Quiet(c) ==
    \/ PutRefused(c) \/ ClaimFind(c) \/ ClaimFails(c) \/ Reopen(c) \/ RemoveCount(c)
    \/ FindObjects(c) \/ HideFile(c) \/ HideCount(c) \/ HideFolder(c) \/ ApproveWrite(c)
    \/ RejectWrite(c) \/ FileReviewWrite(c)

LEMMA QuietSame ==
  ASSUME TypeInv, NEW c \in Calls, Quiet(c)
  PROVE  /\ SameDocs /\ UNCHANGED <<object, staged>>
         /\ call[c].at \notin {"forget", "unstage", "cascade", "drop", "save", "row"}
<1>1. UNCHANGED <<object, staged>>
  BY DEF Quiet, PutRefused, ClaimFind, ClaimFails, Reopen, RemoveCount, FindObjects,
     HideFile, HideCount, HideFolder, ApproveWrite, RejectWrite, FileReviewWrite
<1>2. call[c].at \notin {"forget", "unstage", "cascade", "drop", "save", "row"}
  BY DEF Quiet, PutRefused, ClaimFind, ClaimFails, Reopen, RemoveCount, FindObjects,
     HideFile, HideCount, HideFolder, ApproveWrite, RejectWrite, FileReviewWrite, At
<1>3. SameDocs
  <2>1. CASE HideFile(c)
    BY <2>1, HiddenSet DEF SameDocs, SameFile, FileExists
  <2>2. CASE ApproveWrite(c)
    BY <2>2, Approved DEF SameDocs, SameFile, FileExists
  <2>3. CASE FileReviewWrite(c)
    BY <2>3, VerdictWritten DEF SameDocs, SameFile, FileExists, Statuses
  <2>4. CASE UNCHANGED file
    BY <2>4 DEF SameDocs, SameFile, FileExists
  <2>5. QED
    BY <2>1, <2>2, <2>3, <2>4 DEF Quiet, PutRefused, ClaimFind, ClaimFails, Reopen,
       RemoveCount, FindObjects, HideCount, HideFolder, RejectWrite
<1>4. QED
  BY <1>1, <1>2, <1>3

LEMMA QuietHand ==
  ASSUME ClaimsAlone, TypeInv, TypeInv', OwnInv, NEW c \in Calls, Quiet(c), Moved(c)
  PROVE  /\ HandOK(c)'
         /\ \A o \in call'[c].objects : o \in call[c].objects \/ o \in DocObjects
<1> DEFINE objects == call[c].objects
           Goal == /\ HandOK(c)'
                   /\ \A o \in call'[c].objects : o \in objects \/ o \in DocObjects
<1>1. /\ UNCHANGED <<object, staged>> /\ Docs' = Docs /\ DocObjects' = DocObjects
      /\ \A f \in Docs : file'[f].object = file[f].object /\ file'[f].upload = file[f].upload
  BY QuietSame, DocsSame
<1>2. call[c] \in CallRecord /\ HandOK(c)
  BY CallHolds DEF OwnInv
<1>3. ASSUME NEW at \in {"rows", "object", "find", "visible", "folder"}, MovedTo(c, at)
      PROVE  /\ call'[c].at = at /\ call'[c].objects = objects
             /\ call'[c].file = call[c].file
  BY <1>2, <1>3, MovedRecord DEF MovedTo, Positions
<1>4. ASSUME Ended(c) PROVE Goal
  BY <1>4, IdleOK, IdleHand DEF Ended
<1>5. ASSUME NEW at \in {"find", "visible", "folder"}, MovedTo(c, at) PROVE Goal
  BY <1>1, <1>2, <1>3, <1>5 DEF HandOK, Fresh
<1>6. CASE ClaimFind(c)
  <2>1. ASSUME MovedTo(c, "rows"), objects \subseteq staged PROVE Goal
    BY <1>1, <1>2, <1>3, <2>1 DEF HandOK, Fresh
  <2>2. QED
    BY <1>4, <1>6, <2>1, StepMoves
<1>7. CASE RemoveCount(c)
  <2>1. ASSUME MovedTo(c, "object") PROVE Goal
    <3>1. call[c].at = "count"
      BY <1>7 DEF RemoveCount, At
    <3>2. QED
      BY <1>1, <1>2, <1>3, <2>1, <3>1 DEF HandOK, Fresh
  <2>2. QED
    BY <1>4, <1>5, <1>7, <2>1, StepMoves
<1>8. CASE FindObjects(c)
  <2>1. /\ call'[c].at = "objects" /\ call'[c].objects = ObjectsOf(call[c].upload)
        /\ call'[c].upload = call[c].upload
    BY <1>8, FindMoves
  <2>2. staged \cap DocObjects = {}
    BY <1>8, NobodyClaims DEF FindObjects, At, Busy
  <2>3. ObjectsOf(call[c].upload) \subseteq DocObjects
    BY DEF ObjectsOf, FilesOf, DocObjects, Docs
  <2>4. \A f \in Docs : file[f].object \in ObjectsOf(call[c].upload)
                           <=> file[f].upload = call[c].upload
    BY DEF ObjectsOf, FilesOf, Docs, OwnInv, DocInv
  <2>5. \A o \in ObjectsOf(call[c].upload) : object[o] # "unused"
    BY <2>3, OwnedUsed
  <2>6. HandOK(c)'
    BY <1>1, <2>1, <2>2, <2>3, <2>4, <2>5 DEF HandOK, Fresh
  <2>7. QED
    BY <2>1, <2>3, <2>6
<1>9. QED
  BY <1>4, <1>5, <1>6, <1>7, <1>8, StepMoves DEF Quiet

LEMMA QuietOwns ==
  ASSUME ClaimsAlone, TypeInv, TypeInv', OwnInv, AloneInv', NEW c \in Calls, Quiet(c),
         CallSteps(c)
  PROVE  OwnInv'
<1>1. Moved(c) /\ Busy(c)
  BY StepMoved, StepBusy
<1>2. DocInv' /\ StoredInv' /\ OwnerInv'
  BY <1>1, QuietSame, QuietKept
<1>3. Considerate(c)
  BY <1>1, QuietSame, QuietHand DEF Considerate
<1>4. QED
  BY <1>1, <1>2, <1>3, OthersKept, QuietHand, QuietSame, DocsSame DEF OwnInv

-----------------------------------------------------------------------------
(* The steps that take an object out, or put one in.                         *)

LEMMA RemovedConsiderate ==
  ASSUME TypeInv, NEW c \in Calls, NEW why \in {"removed", "rejected"},
         RemoveObjects(call[c].objects, why), UNCHANGED <<file, staged>>,
         call'[c].objects \subseteq call[c].objects
  PROVE  /\ Considerate(c) /\ SameDocs
         /\ \A o \in call[c].objects : object'[o] # "stored"
         /\ \A o \in Objects \ call[c].objects : object'[o] = object[o]
         /\ \A o \in Objects : object'[o] \in {object[o], why}
<1>1. \A o \in Objects :
         object'[o] = IF o \in call[c].objects /\ object[o] = "stored" THEN why ELSE object[o]
  BY ObjectsRemoved
<1>2. SameDocs
  BY DEF SameDocs, SameFile, FileExists
<1>3. Considerate(c)
  BY <1>1 DEF Considerate
<1>4. call[c].objects \subseteq Objects
  BY CallHolds DEF CallRecord
<1>5. QED
  BY <1>1, <1>2, <1>3, <1>4

\* What a handler holds when it has moved on.
LEMMA MovedHand ==
  ASSUME TypeInv, NEW c \in Calls
  PROVE  /\ Ended(c) => call'[c].op = "none" /\ call'[c].objects = {}
         /\ \A at \in {"forget", "put", "unstage", "reopen", "drop", "reject", "cascade"} :
               MovedTo(c, at) =>
                  /\ call'[c].at = at /\ call'[c].objects = call[c].objects
                  /\ call'[c].file = call[c].file /\ call'[c].upload = call[c].upload
<1>1. Ended(c) => call'[c].op = "none" /\ call'[c].objects = {}
  BY IdleOK DEF Ended
<1>2. ASSUME NEW at \in Positions, MovedTo(c, at)
      PROVE  /\ call'[c].at = at /\ call'[c].objects = call[c].objects
             /\ call'[c].file = call[c].file /\ call'[c].upload = call[c].upload
  BY <1>2, CallHolds, MovedRecord DEF MovedTo
<1>3. {"forget", "put", "unstage", "reopen", "drop", "reject", "cascade"} \subseteq Positions
  BY DEF Positions
<1>4. QED
  BY <1>1, <1>2, <1>3

\* Everybody but the handler that acts still holds what it held.
LEMMA OwnsAfter ==
  ASSUME ClaimsAlone, TypeInv, TypeInv', OwnInv, AloneInv', NEW c \in Calls, Moved(c),
         Busy(c), Considerate(c), OnlyOld, HandOK(c)', DocInv', StoredInv', OwnerInv'
  PROVE  OwnInv'
  BY OthersKept DEF OwnInv

LEMMA SweepObjectsOwns ==
  ASSUME ClaimsAlone, TypeInv, TypeInv', OwnInv, AloneInv', NEW c \in Calls, SweepObjects(c)
  PROVE  OwnInv'
<1> DEFINE objects == call[c].objects
<1>1. /\ call[c] \in CallRecord /\ HandOK(c) /\ call[c].at = "sweep" /\ Busy(c)
      /\ MovedTo(c, "forget") /\ Moved(c)
  BY CallHolds, StepMoves DEF SweepObjects, At, Busy, OwnInv, MovedTo
<1>2. call'[c].at = "forget" /\ call'[c].objects = objects
  BY <1>1, MovedHand
<1>3. /\ Considerate(c) /\ SameDocs /\ UNCHANGED staged
      /\ \A o \in objects : object'[o] # "stored"
      /\ \A o \in Objects \ objects : object'[o] = object[o]
      /\ \A o \in Objects : object'[o] \in {object[o], "removed"}
  BY <1>2, RemovedConsiderate DEF SweepObjects
<1>4. /\ Docs' = Docs /\ DocObjects' = DocObjects /\ OnlyOld
      /\ \A f \in Docs : file'[f].object = file[f].object
  BY <1>3, DocsSame
<1>5. objects \cap DocObjects = {} /\ objects \subseteq Objects
  BY <1>1 DEF HandOK, CallRecord
<1>6. HandOK(c)'
  BY <1>1, <1>2, <1>3, <1>4, <1>5 DEF HandOK, Fresh
<1>7. \A d \in Calls : call[d].at \in {"forget", "unstage", "cascade", "drop", "save", "row"}
                          => call'[d] = call[d]
  BY <1>1 DEF Moved
<1>8. DocInv'
  BY <1>3, <1>4, <1>7 DEF OwnInv, DocInv, At
<1>9. StoredInv'
  <2>1. ASSUME NEW o \in staged
        PROVE  \/ object'[o] = "stored"
               \/ \E d \in Calls : call'[d].at = "forget" /\ o \in call'[d].objects
    <3>1. o \in Objects
      BY OwnedUsed
    <3>2. CASE o \in objects
      BY <1>2, <3>2
    <3>3. CASE o \notin objects
      BY <1>3, <1>7, <3>1, <3>3 DEF OwnInv, StoredInv, At
    <3>4. QED
      BY <3>2, <3>3
  <2>2. ASSUME NEW o \in DocObjects
        PROVE  \/ object'[o] \in {"stored", "rejected"}
               \/ \E d \in Calls : call'[d].at \in {"cascade", "drop"} /\ o \in call'[d].objects
    <3>1. o \in Objects /\ object'[o] = object[o]
      BY <1>3, <1>5, OwnedUsed
    <3>2. QED
      BY <1>7, <3>1 DEF OwnInv, StoredInv
  <2>3. QED
    BY <1>3, <1>4, <2>1, <2>2 DEF StoredInv, At
<1>10. OwnerInv'
  <2>1. \A o \in Objects : object'[o] = "stored" => object[o] = "stored"
    BY <1>3
  <2>2. QED
    BY <1>3, <1>4, <1>7, <2>1 DEF OwnInv, OwnerInv, Fresh
<1>11. QED
  BY <1>1, <1>3, <1>4, <1>6, <1>8, <1>9, <1>10, OwnsAfter

LEMMA SweepRowsOwns ==
  ASSUME ClaimsAlone, TypeInv, TypeInv', OwnInv, AloneInv', NEW c \in Calls, SweepRows(c)
  PROVE  OwnInv'
<1> DEFINE objects == call[c].objects
<1>1. /\ call[c] \in CallRecord /\ HandOK(c) /\ call[c].at = "forget" /\ Busy(c)
      /\ Ended(c) \/ MovedTo(c, "put")
      /\ Moved(c)
  BY CallHolds, StepMoves DEF SweepRows, At, Busy, OwnInv, MovedTo, Ended
<1>2. /\ staged' = staged \ objects /\ UNCHANGED <<file, object>>
      /\ SameDocs
  BY DEF SweepRows, SameDocs, SameFile, FileExists
<1>3. /\ Docs' = Docs /\ DocObjects' = DocObjects /\ OnlyOld
      /\ \A f \in Docs : file'[f].object = file[f].object
  BY <1>2, DocsSame
<1>4. \/ call'[c].op = "none" /\ call'[c].objects = {}
      \/ call'[c].at = "put" /\ call'[c].objects = objects
  BY <1>1, MovedHand
<1>5. HandOK(c)'
  BY <1>1, <1>2, <1>4, IdleHand DEF HandOK, Fresh
<1>6. Considerate(c)
  BY <1>2, <1>4 DEF Considerate
<1>7. \A d \in Calls : call[d].at \in {"unstage", "cascade", "drop", "save", "row"}
                          \/ d # c => call'[d] = call[d]
  BY <1>1 DEF Moved
<1>8. DocInv'
  BY <1>2, <1>3, <1>7 DEF OwnInv, DocInv, At
<1>9. StoredInv'
  <2>1. ASSUME NEW o \in staged'
        PROVE  \/ object[o] = "stored"
               \/ \E d \in Calls : call'[d].at = "forget" /\ o \in call'[d].objects
    <3>1. o \in staged /\ o \notin objects
      BY <1>2
    <3>2. QED
      BY <1>7, <3>1 DEF OwnInv, StoredInv, At
  <2>2. ASSUME NEW o \in DocObjects
        PROVE  \/ object[o] \in {"stored", "rejected"}
               \/ \E d \in Calls : call'[d].at \in {"cascade", "drop"} /\ o \in call'[d].objects
    BY <1>7 DEF OwnInv, StoredInv
  <2>3. QED
    BY <1>2, <1>3, <2>1, <2>2 DEF StoredInv, At
<1>10. OwnerInv'
  <2>1. \A o \in objects : object[o] # "stored"
    BY <1>1 DEF HandOK
  <2>2. QED
    BY <1>2, <1>3, <1>7, <2>1 DEF OwnInv, OwnerInv, Fresh
<1>11. QED
  BY <1>1, <1>3, <1>5, <1>6, <1>8, <1>9, <1>10, OwnsAfter

LEMMA PutOwns ==
  ASSUME ClaimsAlone, TypeInv, TypeInv', OwnInv, AloneInv', NEW c \in Calls,
         NEW o \in Objects, PutObject(c, o)
  PROVE  OwnInv'
<1>1. /\ Moved(c) /\ Busy(c) /\ call[c].at = "put"
      /\ call'[c].objects = {o} /\ call'[c].at \in {"save", "row"}
  BY PutMoves DEF PutObject, At, Busy
<1>2. /\ UNCHANGED <<file, staged>> /\ SameDocs
      /\ object[o] = "unused" /\ object'[o] = "stored"
      /\ \A p \in Objects : p # o => object'[p] = object[p]
  BY DEF PutObject, IsNext, UnusedObjects, SameDocs, SameFile, FileExists, TypeInv, TypeOK
<1>3. /\ Docs' = Docs /\ DocObjects' = DocObjects /\ OnlyOld
      /\ \A f \in Docs : file'[f].object = file[f].object
  BY <1>2, DocsSame
<1>4. /\ o \notin staged \cup DocObjects
      /\ \A d \in Calls : o \notin call[d].objects
  BY <1>2, OwnedUsed
<1>5. HandOK(c)'
  BY <1>1, <1>2, <1>3, <1>4 DEF HandOK, Fresh, Moved
<1>6. Considerate(c)
  BY <1>1, <1>2 DEF Considerate
<1>7. \A d \in Calls : call[d].at # "put" => call'[d] = call[d]
  BY <1>1 DEF Moved
<1>8. DocInv'
  BY <1>2, <1>3, <1>7 DEF OwnInv, DocInv, At
<1>9. StoredInv'
  <2>1. \A p \in staged \cup DocObjects : object'[p] = object[p]
    BY <1>2, <1>4, OwnedUsed
  <2>2. QED
    BY <1>2, <1>3, <1>7, <2>1 DEF OwnInv, StoredInv, At
<1>10. OwnerInv'
  <2>1. ASSUME NEW p \in Objects, object'[p] = "stored"
        PROVE  \/ p \in staged \cup DocObjects
               \/ \E d \in Calls : call'[d].at \in {"save", "row"} /\ p \in call'[d].objects
    <3>1. CASE p = o
      BY <1>1, <3>1
    <3>2. CASE p # o
      BY <1>2, <1>7, <2>1, <3>2 DEF OwnInv, OwnerInv, Fresh
    <3>3. QED
      BY <3>1, <3>2
  <2>2. QED
    BY <1>2, <1>3, <2>1 DEF OwnerInv, Fresh
<1>11. QED
  BY <1>1, <1>3, <1>5, <1>6, <1>8, <1>9, <1>10, OwnsAfter

LEMMA StageSaveOwns ==
  ASSUME ClaimsAlone, TypeInv, TypeInv', OwnInv, AloneInv', NEW c \in Calls, StageSave(c)
  PROVE  OwnInv'
<1> DEFINE objects == call[c].objects
<1>1. /\ HandOK(c) /\ call[c].at = "save" /\ Fresh(c) /\ Busy(c) /\ Moved(c) /\ Ended(c)
  BY StepMoves DEF StageSave, At, Busy, OwnInv, Ended, Fresh
<1>2. /\ staged' = staged \cup objects /\ UNCHANGED <<file, object>> /\ SameDocs
  BY DEF StageSave, SameDocs, SameFile, FileExists
<1>3. /\ Docs' = Docs /\ DocObjects' = DocObjects /\ OnlyOld
      /\ \A f \in Docs : file'[f].object = file[f].object
  BY <1>2, DocsSame
<1>4. call'[c].op = "none" /\ call'[c].objects = {}
  BY <1>1, IdleOK DEF Ended
<1>5. HandOK(c)'
  BY <1>4, IdleHand
<1>6. Considerate(c)
  BY <1>1, <1>2, <1>4 DEF Considerate
<1>7. \A d \in Calls : call[d].at # "save" \/ d # c => call'[d] = call[d]
  BY <1>1 DEF Moved
<1>8. \A o \in objects : object[o] = "stored" /\ o \notin DocObjects
  BY <1>1 DEF HandOK
<1>9. DocInv'
  BY <1>2, <1>3, <1>7, <1>8 DEF OwnInv, DocInv, At
<1>10. StoredInv'
  BY <1>2, <1>3, <1>7, <1>8 DEF OwnInv, StoredInv, At
<1>11. OwnerInv'
  BY <1>2, <1>3, <1>7 DEF OwnInv, OwnerInv, Fresh
<1>12. QED
  BY <1>1, <1>3, <1>5, <1>6, <1>9, <1>10, <1>11, OwnsAfter

LEMMA SaveFailsOwns ==
  ASSUME ClaimsAlone, TypeInv, TypeInv', OwnInv, AloneInv', NEW c \in Calls, SaveFails(c)
  PROVE  OwnInv'
<1> DEFINE objects == call[c].objects
<1>1. /\ call[c] \in CallRecord /\ HandOK(c) /\ call[c].at \in {"save", "row"} /\ Fresh(c)
      /\ Busy(c) /\ Moved(c) /\ Ended(c)
  BY CallHolds, StepMoves DEF SaveFails, At, Busy, OwnInv, Ended, Fresh
<1>2. call'[c].op = "none" /\ call'[c].objects = {}
  BY <1>1, IdleOK DEF Ended
<1>3. /\ Considerate(c) /\ SameDocs /\ UNCHANGED staged
      /\ \A o \in objects : object'[o] # "stored"
      /\ \A o \in Objects \ objects : object'[o] = object[o]
      /\ \A o \in Objects : object'[o] \in {object[o], "removed"}
  BY <1>2, RemovedConsiderate DEF SaveFails
<1>4. /\ Docs' = Docs /\ DocObjects' = DocObjects /\ OnlyOld
      /\ \A f \in Docs : file'[f].object = file[f].object
  BY <1>3, DocsSame
<1>5. HandOK(c)'
  BY <1>2, IdleHand
<1>6. \A d \in Calls : call[d].at \notin {"save", "row"} \/ d # c => call'[d] = call[d]
  BY <1>1 DEF Moved
<1>7. \A o \in staged \cup DocObjects : object'[o] = object[o]
  BY <1>1, <1>3, OwnedUsed DEF HandOK
<1>8. DocInv'
  BY <1>1, <1>3, <1>4, <1>6 DEF OwnInv, DocInv, At
<1>9. StoredInv'
  BY <1>1, <1>3, <1>4, <1>6, <1>7 DEF OwnInv, StoredInv, At
<1>10. OwnerInv'
  <2>1. ASSUME NEW o \in Objects, object'[o] = "stored"
        PROVE  \/ o \in staged \cup DocObjects
               \/ \E d \in Calls : call'[d].at \in {"save", "row"} /\ o \in call'[d].objects
    <3>1. object[o] = "stored" /\ o \notin objects
      BY <1>3, <2>1
    <3>2. QED
      BY <1>6, <3>1 DEF OwnInv, OwnerInv, Fresh
  <2>2. QED
    BY <1>3, <1>4, <2>1 DEF OwnerInv, Fresh
<1>11. QED
  BY <1>1, <1>3, <1>4, <1>5, <1>8, <1>9, <1>10, OwnsAfter

LEMMA ClaimUnstageOwns ==
  ASSUME ClaimsAlone, TypeInv, TypeInv', OwnInv, AloneInv', NEW c \in Calls, ClaimUnstage(c)
  PROVE  OwnInv'
<1> DEFINE objects == call[c].objects
<1>1. /\ call[c] \in CallRecord /\ HandOK(c) /\ call[c].at = "unstage" /\ Busy(c)
      /\ Ended(c) \/ MovedTo(c, "put") \/ MovedTo(c, "reopen")
      /\ Moved(c)
  BY CallHolds, StepMoves DEF ClaimUnstage, At, Busy, OwnInv, MovedTo, Ended
<1>2. /\ staged' = staged \ objects /\ UNCHANGED <<file, object>>
      /\ SameDocs
  BY DEF ClaimUnstage, SameDocs, SameFile, FileExists
<1>3. /\ Docs' = Docs /\ DocObjects' = DocObjects /\ OnlyOld
      /\ \A f \in Docs : file'[f].object = file[f].object
  BY <1>2, DocsSame
<1>4. \/ call'[c].op = "none" /\ call'[c].objects = {}
      \/ call'[c].at \in {"put", "reopen"} /\ call'[c].objects = objects
  BY <1>1, MovedHand
<1>5. HandOK(c)'
  BY <1>1, <1>2, <1>4, IdleHand DEF HandOK, Fresh
<1>6. Considerate(c)
  BY <1>2, <1>4 DEF Considerate
<1>7. \A d \in Calls : call[d].at # "unstage" \/ d # c => call'[d] = call[d]
  BY <1>1 DEF Moved
<1>8. DocInv'
  <2>1. ASSUME NEW o \in staged' \cap DocObjects
        PROVE  \E d \in Calls : call'[d].at = "unstage" /\ o \in call'[d].objects
    <3>1. o \in staged /\ o \notin objects
      BY <1>2
    <3>2. QED
      BY <1>7, <3>1 DEF OwnInv, DocInv, At
  <2>2. QED
    BY <1>3, <2>1 DEF OwnInv, DocInv, At
<1>9. StoredInv'
  BY <1>1, <1>2, <1>3, <1>7 DEF OwnInv, StoredInv, At
<1>10. OwnerInv'
  <2>1. objects \subseteq DocObjects
    BY <1>1 DEF HandOK
  <2>2. QED
    BY <1>1, <1>2, <1>3, <1>7, <2>1 DEF OwnInv, OwnerInv, Fresh
<1>11. QED
  BY <1>1, <1>3, <1>5, <1>6, <1>8, <1>9, <1>10, OwnsAfter

LEMMA RemoveObjectOwns ==
  ASSUME ClaimsAlone, TypeInv, TypeInv', OwnInv, AloneInv', NEW c \in Calls, RemoveObject(c)
  PROVE  OwnInv'
<1> DEFINE objects == call[c].objects
<1>1. /\ call[c] \in CallRecord /\ HandOK(c) /\ call[c].at = "object" /\ Busy(c)
      /\ MovedTo(c, "drop") /\ Moved(c)
  BY CallHolds, StepMoves DEF RemoveObject, At, Busy, OwnInv, MovedTo
<1>2. call'[c].at = "drop" /\ call'[c].objects = objects /\ call'[c].file = call[c].file
  BY <1>1, MovedHand
<1>3. /\ Considerate(c) /\ SameDocs /\ UNCHANGED staged
      /\ \A o \in objects : object'[o] # "stored"
      /\ \A o \in Objects \ objects : object'[o] = object[o]
      /\ \A o \in Objects : object'[o] \in {object[o], "removed"}
  BY <1>2, RemovedConsiderate DEF RemoveObject
<1>4. /\ Docs' = Docs /\ DocObjects' = DocObjects /\ OnlyOld
      /\ \A f \in Docs : file'[f].object = file[f].object
  BY <1>3, DocsSame
<1>5. objects \cap staged = {} /\ objects \subseteq Objects
  BY <1>1 DEF HandOK, CallRecord
<1>6. HandOK(c)'
  <2>1. \A o \in objects : object'[o] # "unused" /\ object'[o] # "stored"
    BY <1>1, <1>3, <1>5 DEF HandOK
  <2>2. \A f \in Docs' : file'[f].object \in objects <=> f = call[c].file
    BY <1>1, <1>4 DEF HandOK
  <2>3. objects \cap staged' = {}
    BY <1>3, <1>5
  <2>4. QED
    BY <1>2, <2>1, <2>2, <2>3 DEF HandOK, Fresh
<1>7. \A d \in Calls : call[d].at # "object" => call'[d] = call[d]
  BY <1>1 DEF Moved
<1>8. DocInv'
  BY <1>3, <1>4, <1>7 DEF OwnInv, DocInv, At
<1>9. StoredInv'
  <2>1. \A o \in staged : object'[o] = object[o]
    BY <1>3, <1>5, OwnedUsed
  <2>2. ASSUME NEW o \in DocObjects
        PROVE  \/ object'[o] \in {"stored", "rejected"}
               \/ \E d \in Calls : call'[d].at \in {"cascade", "drop"} /\ o \in call'[d].objects
    <3>1. CASE o \in objects
      BY <1>2, <3>1
    <3>2. CASE o \notin objects
      BY <1>3, <1>7, <3>2, OwnedUsed DEF OwnInv, StoredInv
    <3>3. QED
      BY <3>1, <3>2
  <2>3. QED
    BY <1>3, <1>4, <1>7, <2>1, <2>2 DEF OwnInv, StoredInv, At
<1>10. OwnerInv'
  <2>1. \A o \in Objects : object'[o] = "stored" => object[o] = "stored"
    BY <1>3
  <2>2. QED
    BY <1>3, <1>4, <1>7, <2>1 DEF OwnInv, OwnerInv, Fresh
<1>11. QED
  BY <1>1, <1>3, <1>4, <1>6, <1>8, <1>9, <1>10, OwnsAfter

LEMMA TearDownOwns ==
  ASSUME ClaimsAlone, TypeInv, TypeInv', OwnInv, AloneInv', NEW c \in Calls,
         TearDownObjects(c)
  PROVE  OwnInv'
<1> DEFINE objects == call[c].objects
           why == IF call[c].op = "reject" THEN "rejected" ELSE "removed"
<1>1. /\ call[c] \in CallRecord /\ HandOK(c) /\ call[c].at = "objects" /\ Busy(c)
      /\ IF call[c].op = "reject" THEN MovedTo(c, "reject") ELSE MovedTo(c, "cascade")
      /\ Moved(c)
  BY CallHolds, StepMoves DEF TearDownObjects, At, Busy, OwnInv, MovedTo
<1>2. /\ call'[c].at = IF call[c].op = "reject" THEN "reject" ELSE "cascade"
      /\ call'[c].objects = objects /\ call'[c].upload = call[c].upload
  BY <1>1, MovedHand
<1>3. /\ Considerate(c) /\ SameDocs /\ UNCHANGED staged
      /\ \A o \in objects : object'[o] # "stored"
      /\ \A o \in Objects \ objects : object'[o] = object[o]
      /\ \A o \in Objects : object'[o] \in {object[o], why}
  <2>1. why \in {"removed", "rejected"}
    OBVIOUS
  <2>2. RemoveObjects(objects, why) /\ UNCHANGED <<file, staged>>
    BY DEF TearDownObjects
  <2>3. QED
    BY <1>2, <2>1, <2>2, RemovedConsiderate
<1>4. /\ Docs' = Docs /\ DocObjects' = DocObjects /\ OnlyOld
      /\ \A f \in Docs : file'[f].object = file[f].object /\ file'[f].upload = file[f].upload
  BY <1>3, DocsSame
<1>5. objects \cap staged = {} /\ objects \subseteq Objects
  BY <1>1 DEF HandOK, CallRecord
<1>6. HandOK(c)'
  <2>1. \A o \in objects : object'[o] # "unused" /\ object'[o] # "stored"
    BY <1>1, <1>3, <1>5 DEF HandOK
  <2>2. \A f \in Docs' : file'[f].object \in objects <=> file'[f].upload = call[c].upload
    BY <1>1, <1>4 DEF HandOK
  <2>3. objects \cap staged' = {}
    BY <1>3, <1>5
  <2>4. QED
    BY <1>2, <2>1, <2>2, <2>3 DEF HandOK, Fresh
<1>7. \A d \in Calls : call[d].at # "objects" => call'[d] = call[d]
  BY <1>1 DEF Moved
<1>8. DocInv'
  BY <1>3, <1>4, <1>7 DEF OwnInv, DocInv, At
<1>9. StoredInv'
  <2>1. \A o \in staged : object'[o] = object[o]
    BY <1>3, <1>5, OwnedUsed
  <2>2. ASSUME NEW o \in DocObjects
        PROVE  \/ object'[o] \in {"stored", "rejected"}
               \/ \E d \in Calls : call'[d].at \in {"cascade", "drop"} /\ o \in call'[d].objects
    <3>1. o \in Objects
      BY OwnedUsed
    <3>2. CASE call[c].op # "reject" /\ o \in objects
      BY <1>2, <3>2
    <3>3. CASE object'[o] = object[o] \/ object'[o] = "rejected"
      BY <1>7, <3>3 DEF OwnInv, StoredInv
    <3>4. QED
      BY <1>3, <3>1, <3>2, <3>3
  <2>3. QED
    BY <1>3, <1>4, <1>7, <2>1, <2>2 DEF OwnInv, StoredInv, At
<1>10. OwnerInv'
  <2>1. \A o \in Objects : object'[o] = "stored" => object[o] = "stored"
    BY <1>3
  <2>2. QED
    BY <1>3, <1>4, <1>7, <2>1 DEF OwnInv, OwnerInv, Fresh
<1>11. QED
  BY <1>1, <1>3, <1>4, <1>6, <1>8, <1>9, <1>10, OwnsAfter

\* The rows that go are those whose objects the handler has taken out.
LEMMA EraseOwns ==
  ASSUME ClaimsAlone, TypeInv, TypeInv', OwnInv, AloneInv', NEW c \in Calls, NEW files,
         call[c].at \in {"drop", "cascade"}, Ended(c), Erase(files),
         UNCHANGED <<object, staged>>,
         \A f \in Docs : f \in files <=> file[f].object \in call[c].objects
  PROVE  OwnInv'
<1> DEFINE objects == call[c].objects
<1>1. HandOK(c) /\ Busy(c) /\ Moved(c)
  BY DEF OwnInv, Busy, Ended
<1>2. /\ \A f \in Docs' : f \in Docs /\ f \notin files /\ file'[f] = file[f]
      /\ \A f \in Docs : f \notin files => f \in Docs'
      /\ OnlyOld
  BY Erased DEF Docs, FileExists, Statuses, OnlyOld, SameFile
<1>3. DocObjects' = DocObjects \ objects
  <2>1. \A f \in Docs' : file'[f].object \in DocObjects \ objects
    BY <1>2 DEF DocObjects
  <2>2. \A f \in Docs : file[f].object \notin objects => f \in Docs' /\ file'[f] = file[f]
    BY <1>2
  <2>3. QED
    BY <2>1, <2>2 DEF DocObjects
<1>4. call'[c].op = "none" /\ call'[c].objects = {}
  BY MovedHand
<1>5. HandOK(c)'
  BY <1>4, IdleHand
<1>6. Considerate(c)
  BY <1>4 DEF Considerate
<1>7. \A d \in Calls : call[d].at \notin {"drop", "cascade"} \/ d # c => call'[d] = call[d]
  BY <1>1 DEF Moved
<1>8. \A o \in objects : object[o] # "stored"
  BY <1>1 DEF HandOK
<1>9. DocInv'
  <2>1. \A f, g \in Docs' : file'[f].object = file'[g].object => f = g
    BY <1>2 DEF OwnInv, DocInv
  <2>2. QED
    BY <1>3, <1>7, <2>1 DEF OwnInv, DocInv, At
<1>10. StoredInv'
  <2>1. ASSUME NEW o \in DocObjects \ objects
        PROVE  \/ object[o] \in {"stored", "rejected"}
               \/ \E d \in Calls : call'[d].at \in {"cascade", "drop"} /\ o \in call'[d].objects
    BY <1>7 DEF OwnInv, StoredInv
  <2>2. QED
    BY <1>3, <1>7, <2>1 DEF OwnInv, StoredInv, At
<1>11. OwnerInv'
  BY <1>3, <1>7, <1>8 DEF OwnInv, OwnerInv, Fresh
<1>12. QED
  BY <1>1, <1>2, <1>5, <1>6, <1>9, <1>10, <1>11, OwnsAfter

LEMMA RemoveRowOwns ==
  ASSUME ClaimsAlone, TypeInv, TypeInv', OwnInv, AloneInv', NEW c \in Calls, RemoveRow(c)
  PROVE  OwnInv'
<1>1. call[c].at = "drop" /\ Ended(c) /\ HandOK(c)
  BY StepMoves DEF RemoveRow, At, OwnInv
<1>2. \A f \in Docs : f \in {call[c].file} <=> file[f].object \in call[c].objects
  BY <1>1 DEF HandOK
<1>3. QED
  BY <1>1, <1>2, EraseOwns DEF RemoveRow

LEMMA CascadeOwns ==
  ASSUME ClaimsAlone, TypeInv, TypeInv', OwnInv, AloneInv', NEW c \in Calls, DeleteCascade(c)
  PROVE  OwnInv'
<1>1. call[c].at = "cascade" /\ Ended(c) /\ HandOK(c)
  BY StepMoves DEF DeleteCascade, At, OwnInv
<1>2. \A f \in Docs : f \in FilesOf(call[c].upload) <=> file[f].object \in call[c].objects
  BY <1>1 DEF HandOK, FilesOf, Docs
<1>3. QED
  BY <1>1, <1>2, EraseOwns DEF DeleteCascade

-----------------------------------------------------------------------------
(* The steps that make documents.                                           *)

LEMMA SmallerInjects ==
  ASSUME NEW S, NEW T, IsFiniteSet(S), IsFiniteSet(T), Cardinality(S) <= Cardinality(T)
  PROVE  Injection(S, T) # {}
<1>1. /\ Cardinality(S) \in Nat /\ ExistsBijection(1..Cardinality(S), S)
      /\ Cardinality(T) \in Nat /\ ExistsBijection(1..Cardinality(T), T)
  BY FS_CardinalityType
<1>2. ExistsBijection(S, 1..Cardinality(S))
  BY <1>1, Fun_ExistsBijSymmetric
<1>3. ExistsInjection(S, 1..Cardinality(S)) /\ ExistsInjection(1..Cardinality(T), T)
  BY <1>1, <1>2 DEF ExistsBijection, ExistsInjection, Bijection
<1>4. ExistsInjection(1..Cardinality(S), 1..Cardinality(T))
  BY <1>1, Fun_NatInjLeq
<1>5. ExistsInjection(S, 1..Cardinality(T))
  BY <1>3, <1>4, Fun_ExistsInjTransitive
<1>6. ExistsInjection(S, T)
  BY <1>3, <1>5, Fun_ExistsInjTransitive
<1>7. QED
  BY <1>6 DEF ExistsInjection

\* Every object gets one row, which was no document before, and the documents
\* there were stay what they are.
LEMMA InsertedEach ==
  ASSUME TypeInv, NEW c \in Calls, call[c].op \in {"upload", "add"},
         InsertFiles(c, call[c].objects)
  PROVE  /\ \A f \in Docs : f \in Docs' /\ file'[f] = file[f]
         /\ \A f \in Docs' \ Docs : file'[f].object \in call[c].objects
         /\ \A f, g \in Docs' \ Docs : file'[f].object = file'[g].object => f = g
         /\ DocObjects' = DocObjects \cup call[c].objects
<1> DEFINE objects == call[c].objects
           rows == CHOOSE g \in Injection(objects, UnusedFiles) : TRUE
<1>1. objects \subseteq Objects /\ UnusedFiles \subseteq Files
  BY CallHolds DEF CallRecord, UnusedFiles
<1>2. rows \in Injection(objects, UnusedFiles)
  <2>1. IsFiniteSet(objects) /\ IsFiniteSet(UnusedFiles)
    BY <1>1, FS_Subset
  <2>2. Cardinality(objects) <= Cardinality(UnusedFiles)
    BY DEF InsertFiles
  <2>3. Injection(objects, UnusedFiles) # {}
    BY <2>1, <2>2, SmallerInjects
  <2>4. QED
    BY <2>3
<1>3. file' = [f \in Files |->
                 IF \E o \in objects : rows[o] = f
                 THEN NewFile(c, CHOOSE o \in objects : rows[o] = f)
                 ELSE file[f]]
  BY DEF InsertFiles
<1> HIDE DEF rows
<1>4. /\ \A o \in objects : rows[o] \in UnusedFiles
      /\ \A o, p \in objects : rows[o] = rows[p] => o = p
  BY <1>2 DEF Injection, IsInjective
<1>5. \A o \in objects : NewFile(c, o).object = o /\ NewFile(c, o).status \in Statuses
  BY DEF NewFile, NoFile, Statuses
<1>6. \A o \in objects : file'[rows[o]] = NewFile(c, o)
  <2> TAKE o \in objects
  <2> DEFINE p == CHOOSE q \in objects : rows[q] = rows[o]
  <2>1. p \in objects /\ rows[p] = rows[o]
    OBVIOUS
  <2>2. p = o
    BY <1>4, <2>1
  <2>3. file'[rows[o]] = NewFile(c, p)
    BY <1>1, <1>3, <1>4
  <2>4. QED
    BY <2>2, <2>3
<1>7. \A f \in Files : (\A o \in objects : rows[o] # f) => file'[f] = file[f]
  BY <1>3
<1>8. \A f \in UnusedFiles : f \notin Docs
  BY DEF UnusedFiles, Docs, FileExists, Statuses
<1>9. \A f \in Docs : f \in Docs' /\ file'[f] = file[f]
  BY <1>4, <1>7, <1>8 DEF Docs, FileExists
<1>10. \A o \in objects : rows[o] \in Docs' \ Docs /\ file'[rows[o]].object = o
  BY <1>1, <1>4, <1>5, <1>6, <1>8 DEF Docs, FileExists
<1>11. \A f \in Docs' \ Docs : \E o \in objects : rows[o] = f
  BY <1>7 DEF Docs, FileExists
<1>12. \A f \in Docs' \ Docs : file'[f].object \in objects /\ rows[file'[f].object] = f
  BY <1>10, <1>11
<1>13. DocObjects' = DocObjects \cup objects
  <2>1. \A f \in Docs' : file'[f].object \in DocObjects \cup objects
    BY <1>9, <1>12 DEF DocObjects
  <2>2. \A f \in Docs : file[f].object \in DocObjects'
    BY <1>9 DEF DocObjects
  <2>3. \A o \in objects : o \in DocObjects'
    BY <1>10 DEF DocObjects
  <2>4. QED
    BY <2>1, <2>2, <2>3 DEF DocObjects
<1>14. QED
  BY <1>9, <1>12, <1>13

LEMMA InsertOwns ==
  ASSUME ClaimsAlone, TypeInv, TypeInv', OwnInv, AloneInv', NEW c \in Calls,
         InsertFiles(c, call[c].objects), UNCHANGED <<object, staged>>, Moved(c),
         HandOK(c)',
         \/ At(c, "rows") /\ call'[c].at = "unstage" /\ call'[c].objects = call[c].objects
         \/ At(c, "row")
  PROVE  OwnInv'
<1> DEFINE objects == call[c].objects
<1>1. /\ HandOK(c) /\ call[c].op \in {"upload", "add"} /\ Busy(c)
      /\ call[c].at \in {"rows", "row"}
  BY OperationAt DEF OwnInv, Busy, At
<1>2. /\ \A f \in Docs : f \in Docs' /\ file'[f] = file[f]
      /\ \A f \in Docs' \ Docs : file'[f].object \in objects
      /\ \A f, g \in Docs' \ Docs : file'[f].object = file'[g].object => f = g
      /\ DocObjects' = DocObjects \cup objects
  BY <1>1, InsertedEach
<1>3. staged \cap DocObjects = {}
  BY <1>1, NobodyClaims DEF At
<1>4. \A d \in Calls : d # c => ~Busy(d) /\ call'[d] = call[d] /\ HandOK(d)'
  BY <1>1, ClaimsApart, IdleKept DEF OwnInv, Moved
<1>5. objects \cap DocObjects = {}
  BY <1>1, <1>3 DEF HandOK, Fresh
<1>6. \A o \in objects : object[o] = "stored"
  <2>1. CASE At(c, "rows")
    <3>1. objects \subseteq staged
      BY <1>1, <2>1 DEF HandOK, At
    <3>2. ~\E d \in Calls : At(d, "forget")
      BY <1>4, <2>1 DEF At, Busy
    <3>3. QED
      BY <3>1, <3>2 DEF OwnInv, StoredInv
  <2>2. CASE At(c, "row")
    BY <1>1, <2>2 DEF HandOK, Fresh, At
  <2>3. QED
    BY <2>1, <2>2
<1>7. DocInv'
  <2>1. ASSUME NEW f \in Docs', NEW g \in Docs', file'[f].object = file'[g].object
        PROVE  f = g
    <3>1. CASE f \in Docs /\ g \in Docs
      BY <1>2, <2>1, <3>1 DEF OwnInv, DocInv
    <3>2. CASE f \notin Docs /\ g \notin Docs
      BY <1>2, <2>1, <3>2
    <3>3. \A h \in Docs : file'[h].object \in DocObjects
      BY <1>2 DEF DocObjects
    <3>4. QED
      BY <1>2, <1>5, <2>1, <3>1, <3>2, <3>3
  <2>2. ASSUME NEW o \in staged \cap DocObjects'
        PROVE  \E d \in Calls : call'[d].at = "unstage" /\ o \in call'[d].objects
    <3>1. o \in objects
      BY <1>2, <1>3
    <3>2. ~At(c, "row")
      BY <1>1, <3>1 DEF HandOK, Fresh, At
    <3>3. QED
      BY <3>1, <3>2
  <2>3. QED
    BY <2>1, <2>2 DEF DocInv, At
<1>8. StoredInv'
  <2>1. \A d \in Calls : call[d].at \notin {"forget", "cascade", "drop"}
    BY <1>1, <1>4 DEF Busy
  <2>2. \A o \in staged : object[o] = "stored"
    BY <2>1 DEF OwnInv, StoredInv, At
  <2>3. \A o \in DocObjects : object[o] \in {"stored", "rejected"}
    BY <2>1 DEF OwnInv, StoredInv
  <2>4. QED
    BY <1>2, <1>6, <2>2, <2>3 DEF StoredInv
<1>9. OwnerInv'
  <2>1. \A d \in Calls : Fresh(d) => d = c
    BY <1>4 DEF Fresh, Busy
  <2>2. QED
    BY <1>2, <2>1 DEF OwnInv, OwnerInv
<1>10. QED
  BY <1>4, <1>7, <1>8, <1>9 DEF OwnInv

LEMMA ClaimSaveOwns ==
  ASSUME ClaimsAlone, TypeInv, TypeInv', OwnInv, AloneInv', NEW c \in Calls, ClaimSave(c)
  PROVE  OwnInv'
<1>1. MovedTo(c, "unstage") /\ Moved(c) /\ HandOK(c) /\ call[c].op \in {"upload", "add"}
  BY StepMoves, OperationAt DEF ClaimSave, MovedTo, OwnInv
<1>2. call'[c].at = "unstage" /\ call'[c].objects = call[c].objects
  BY <1>1, MovedHand
<1>3. call[c].objects \subseteq DocObjects'
  BY <1>1, InsertedEach DEF ClaimSave
<1>4. \A o \in call[c].objects : object'[o] # "unused"
  BY <1>1 DEF HandOK, ClaimSave
<1>5. HandOK(c)'
  BY <1>2, <1>3, <1>4 DEF HandOK, Fresh
<1>6. QED
  BY <1>1, <1>2, <1>5, InsertOwns DEF ClaimSave

LEMMA FileSaveOwns ==
  ASSUME ClaimsAlone, TypeInv, TypeInv', OwnInv, AloneInv', NEW c \in Calls, FileSave(c)
  PROVE  OwnInv'
<1>1. /\ Ended(c) \/ MovedTo(c, "reopen")
      /\ Moved(c) /\ HandOK(c)
  BY StepMoves DEF FileSave, MovedTo, Ended, OwnInv
<1>2. \/ call'[c].op = "none"
      \/ call'[c].at = "reopen" /\ call'[c].objects = call[c].objects
  BY <1>1, MovedHand
<1>3. \A o \in call[c].objects : object'[o] # "unused"
  BY <1>1 DEF HandOK, FileSave
<1>4. HandOK(c)'
  BY <1>2, <1>3, IdleHand DEF HandOK, Fresh
<1>5. QED
  BY <1>1, <1>4, InsertOwns DEF FileSave

LEMMA NextOwns ==
  ASSUME ClaimsAlone, TypeInv, OwnInv, [Next]_vars
  PROVE  OwnInv'
<1>1. AloneInv' /\ TypeInv'
  BY NextAlone, NextTypes DEF OwnInv
<1>2. ASSUME NEW c \in Calls, CallSteps(c) PROVE OwnInv'
  <2>1. CASE Quiet(c)
    BY <1>1, <1>2, <2>1, QuietOwns
  <2>2. ASSUME NEW o \in Objects, PutObject(c, o) PROVE OwnInv'
    BY <1>1, <2>2, PutOwns
  <2>3. CASE SweepObjects(c) \/ SweepRows(c) \/ StageSave(c) \/ SaveFails(c)
    BY <1>1, <2>3, SweepObjectsOwns, SweepRowsOwns, StageSaveOwns, SaveFailsOwns
  <2>4. CASE ClaimSave(c) \/ ClaimUnstage(c) \/ FileSave(c)
    BY <1>1, <2>4, ClaimSaveOwns, ClaimUnstageOwns, FileSaveOwns
  <2>5. CASE RemoveObject(c) \/ RemoveRow(c) \/ TearDownObjects(c) \/ DeleteCascade(c)
    BY <1>1, <2>5, RemoveObjectOwns, RemoveRowOwns, TearDownOwns, CascadeOwns
  <2>6. QED
    BY <1>2, <2>1, <2>2, <2>3, <2>4, <2>5 DEF CallSteps, Quiet
<1>3. ASSUME UNCHANGED <<file, object, staged, call>> PROVE OwnInv'
  <2>1. Docs' = Docs /\ DocObjects' = DocObjects
    BY <1>3 DEF Docs, DocObjects, FileExists
  <2>2. \A c \in Calls : HandOK(c)'
    BY <1>3, <2>1 DEF OwnInv, HandOK, Fresh
  <2>3. DocInv' /\ StoredInv' /\ OwnerInv'
    BY <1>3, <2>1 DEF OwnInv, DocInv, StoredInv, OwnerInv, Fresh, At
  <2>4. QED
    BY <1>1, <2>2, <2>3 DEF OwnInv
<1>4. QED
  BY <1>1, <1>2, <1>3, StartOwns DEF Next, SetHidden, DayPasses, vars

LEMMA InitOwns == Init => OwnInv
<1> SUFFICES ASSUME Init PROVE OwnInv
  OBVIOUS
<1>1. Docs = {} /\ DocObjects = {}
  BY DEF Init, Docs, DocObjects, FileExists, NoFile, Statuses
<1>2. \A c \in Calls : HandOK(c)
  BY IdleOK DEF Init, HandOK, Fresh
<1>3. DocInv /\ StoredInv /\ OwnerInv
  BY <1>1 DEF Init, DocInv, StoredInv, OwnerInv
<1>4. QED
  BY <1>2, <1>3, InitAlone DEF OwnInv

LEMMA OwnHolds == ClaimsAlone => (Spec => [](TypeInv /\ OwnInv))
<1> SUFFICES ASSUME ClaimsAlone PROVE Spec => [](TypeInv /\ OwnInv)
  OBVIOUS
<1>1. Init => OwnInv
  BY InitOwns
<1>2. TypeInv /\ OwnInv /\ [Next]_vars => OwnInv'
  BY NextOwns
<1>3. QED
  BY <1>1, <1>2, TypesHold, PTL DEF Spec

\* An object in storage has exactly one owner, a staged row, a document or a handler
\* that runs: "ids that were already claimed are rejected", and "a failed stage
\* leaves neither an orphan nor a spent quota".  uploadMany() and addFiles() read
\* the staged rows and delete them later, so they overlap no other operation here;
\* all the others may overlap as they like.
THEOREM ObjectsOwned == ClaimsAlone => (Spec => []OwnedOnce)
<1> SUFFICES ASSUME ClaimsAlone PROVE Spec => []OwnedOnce
  OBVIOUS
<1>1. TypeInv /\ OwnInv => OwnedOnce
  <2> SUFFICES ASSUME TypeInv, OwnInv PROVE OwnedOnce
    OBVIOUS
  <2>1. OneDocumentPerObject
    BY DEF OneDocumentPerObject, OwnInv, DocInv, Docs, DocObjects, At, Claiming
  <2>2. NoOrphanObject
    BY DEF NoOrphanObject, OwnInv, OwnerInv, Docs, DocObjects
  <2>3. QED
    BY <2>1, <2>2 DEF OwnedOnce
<1>2. QED
  BY <1>1, OwnHolds, PTL

\* A public file can be fetched, unless somebody is just deleting it or its upload
\* was once rejected: removals, deletions and sweeps take an object out before its
\* row, but never that of another document.
THEOREM PublicStored == ClaimsAlone => (Spec => []PublicFilesStored)
<1> SUFFICES ASSUME ClaimsAlone PROVE Spec => []PublicFilesStored
  OBVIOUS
<1>1. TypeInv /\ OwnInv => PublicFilesStored
  <2> SUFFICES ASSUME TypeInv, OwnInv, NEW f \in Files, Public(f)
               PROVE  \/ object[file[f].object] \in {"stored", "rejected"}
                      \/ \E c \in Calls : TearingDown(c) /\ file[f].object \in call[c].objects
    BY DEF PublicFilesStored
  <2>1. file[f].object \in DocObjects
    BY DEF Public, DocObjects, Docs, FileExists, Statuses
  <2>2. QED
    BY <2>1 DEF OwnInv, StoredInv, TearingDown
<1>2. QED
  BY <1>1, OwnHolds, PTL
=============================================================================
