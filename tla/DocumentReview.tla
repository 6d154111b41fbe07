---------------------------- MODULE DocumentReview ----------------------------
(***************************************************************************)
(* Shared documents: documents.service.ts from staging a file to deleting   *)
(* an upload, and the review of uploads and files in admin.service.ts.      *)
(*                                                                          *)
(* An upload is a folder of files, a file is a row of the documents table   *)
(* that points at an object in storage.  No handler uses a transaction and  *)
(* storage is not the database: each awaited statement or storage call is a *)
(* step, and nothing is locked between two of them.  One student owns all   *)
(* uploads; every reviewer covers them.                                     *)
(***************************************************************************)
EXTENDS Naturals, FiniteSets, Functions

CONSTANTS
    Uploads,   \* uploads rows, numbered as they are inserted
    Files,     \* documents rows, numbered as they are inserted
    Objects,   \* storage keys, numbered as they are drawn
    Calls,     \* slots for handlers in flight
    Alone,     \* operations that never overlap another one in this instance
    None

Ops == {"stage", "discard", "upload", "add", "update", "remove", "delete",
        "hide", "approve", "reject", "reviewFile"}

ASSUME DocumentsAssumption ==
    /\ Uploads \subseteq Nat /\ Files \subseteq Nat /\ Objects \subseteq Nat
    /\ IsFiniteSet(Uploads) /\ IsFiniteSet(Files) /\ IsFiniteSet(Objects)
    /\ Alone \subseteq Ops
    /\ None \notin Uploads \cup Files \cup Objects

VARIABLES
    upload,   \* the uploads table
    file,     \* the documents table
    object,   \* the documents bucket, and why an object left it
    staged,   \* objects with a staged_files row
    stale,    \* staged longer ago than STAGED_TTL_HOURS
    call      \* the handlers in flight

vars == <<upload, file, object, staged, stale, call>>

Statuses == {"pending", "active", "rejected"}
ObjectStates == {"unused", "stored", "removed", "rejected"}
UploadRow == [status : {"unused", "gone"} \cup Statuses, hidden : BOOLEAN]

\* reviewed is no column: a reviewer's decision let this file be seen.
FileRow == [status : {"unused", "gone"} \cup Statuses,
            upload : Uploads \cup {None}, object : Objects \cup {None},
            hidden : BOOLEAN, reviewed : BOOLEAN]

Positions == {"idle", "sweep", "forget", "put", "save", "claim", "rows",
              "unstage", "row", "reopen", "count", "find", "objects", "cascade",
              "object", "drop", "hide", "visible", "folder", "approve", "reject",
              "verdict"}

\* What a handler read: its upload or file, the status or flag it goes by, and
\* the objects it works on.  fresh: the request carries a file of its own.
CallRecord == [op : Ops \cup {"none"}, at : Positions,
               upload : Uploads \cup {None}, file : Files \cup {None},
               status : Statuses, hide : BOOLEAN, seen : BOOLEAN,
               objects : SUBSET Objects, fresh : BOOLEAN]

TypeOK ==
    /\ upload \in [Uploads -> UploadRow]
    /\ file \in [Files -> FileRow]
    /\ object \in [Objects -> ObjectStates]
    /\ staged \in SUBSET Objects
    /\ stale \in SUBSET staged
    /\ call \in [Calls -> CallRecord]

NoFile == [status |-> "unused", upload |-> None, object |-> None,
           hidden |-> FALSE, reviewed |-> FALSE]
IdleCall == [op |-> "none", at |-> "idle", upload |-> None, file |-> None,
             status |-> "active", hide |-> FALSE, seen |-> FALSE,
             objects |-> {}, fresh |-> FALSE]

Init ==
    /\ upload = [u \in Uploads |-> [status |-> "unused", hidden |-> FALSE]]
    /\ file = [f \in Files |-> NoFile]
    /\ object = [o \in Objects |-> "unused"]
    /\ staged = {}
    /\ stale = {}
    /\ call = [c \in Calls |-> IdleCall]

-----------------------------------------------------------------------------

UploadExists(u) == upload[u].status \in Statuses
FileExists(f) == file[f].status \in Statuses
FilesOf(u) == {f \in Files : FileExists(f) /\ file[f].upload = u}
ObjectsOf(u) == {file[f].object : f \in FilesOf(u)}

UnusedUploads == {u \in Uploads : upload[u].status = "unused"}
UnusedFiles == {f \in Files : file[f].status = "unused"}
UnusedObjects == {o \in Objects : object[o] = "unused"}
IsNext(n, Unused) == n \in Unused /\ \A m \in Unused : n <= m

Busy(c) == call[c].at # "idle"
At(c, at) == call[c].at = at

\* An operation of Alone starts when nothing else runs and keeps others out.
Start(c, record) ==
    /\ ~Busy(c)
    /\ record.op \in Alone => \A d \in Calls : ~Busy(d)
    /\ \A d \in Calls : call[d].op \notin Alone
    /\ call' = [call EXCEPT ![c] = record]
Goto(c, at) == call' = [call EXCEPT ![c].at = at]
Finish(c) == call' = [call EXCEPT ![c] = IdleCall]

\* StorageService.remove(): objects that are not there are no error.
RemoveObjects(objects, why) ==
    object' = [o \in Objects |-> IF o \in objects /\ object[o] = "stored"
                                 THEN why ELSE object[o]]

\* DELETE of documents rows.
Erase(files) ==
    file' = [f \in Files |-> IF f \in files THEN [NoFile EXCEPT !.status = "gone"]
                             ELSE file[f]]

-----------------------------------------------------------------------------
(* stageFile() sweeps what was left for a day, stores the object and then    *)
(* its row; deleteStagedFile() takes both out.                              *)

StageStart(c) ==
    /\ Start(c, [IdleCall EXCEPT !.op = "stage", !.objects = stale,
                                 !.at = IF stale = {} THEN "put" ELSE "sweep"])
    /\ UNCHANGED <<upload, file, object, staged, stale>>

DiscardRead(c, o) ==
    /\ o \in staged
    /\ Start(c, [IdleCall EXCEPT !.op = "discard", !.at = "sweep", !.objects = {o}])
    /\ UNCHANGED <<upload, file, object, staged, stale>>

SweepObjects(c) ==
    /\ At(c, "sweep")
    /\ RemoveObjects(call[c].objects, "removed")
    /\ Goto(c, "forget")
    /\ UNCHANGED <<upload, file, staged, stale>>

SweepRows(c) ==
    /\ At(c, "forget")
    /\ staged' = staged \ call[c].objects
    /\ stale' = stale \ call[c].objects
    /\ IF call[c].op = "discard" THEN Finish(c) ELSE Goto(c, "put")
    /\ UNCHANGED <<upload, file, object>>

\* Quota, content check and scan come first, in stageFile() as in uploadFile().
PutObject(c, o) ==
    /\ At(c, "put")
    /\ IsNext(o, UnusedObjects)
    /\ object' = [object EXCEPT ![o] = "stored"]
    /\ call' = [call EXCEPT ![c].objects = {o},
                            ![c].at = IF call[c].op = "stage" THEN "save" ELSE "row"]
    /\ UNCHANGED <<upload, file, staged, stale>>

\* The file is refused by one of them, or storage is.
PutRefused(c) ==
    /\ At(c, "put")
    /\ Finish(c)
    /\ UNCHANGED <<upload, file, object, staged, stale>>

StageSave(c) ==
    /\ At(c, "save")
    /\ staged' = staged \cup call[c].objects
    /\ Finish(c)
    /\ UNCHANGED <<upload, file, object, stale>>

\* The row does not save, for one because its upload has gone: the object is
\* taken back out.
SaveFails(c) ==
    /\ \/ At(c, "save")
       \/ At(c, "row")
    /\ RemoveObjects(call[c].objects, "removed")
    /\ Finish(c)
    /\ UNCHANGED <<upload, file, staged, stale>>

-----------------------------------------------------------------------------
(* uploadMany() and addFiles(): claimStagedFiles() for the ids the form      *)
(* holds, uploadFile() for a file that came with the request.               *)

\* Ids the form was ever handed.
Handed == {o \in Objects : object[o] # "unused"}
FirstStep(ids) == IF ids = {} THEN "put" ELSE "claim"

UploadInsert(c, u, ids, fresh) ==
    /\ IsNext(u, UnusedUploads)
    /\ ids # {} \/ fresh
    /\ upload' = [upload EXCEPT ![u].status = "pending"]
    /\ Start(c, [IdleCall EXCEPT !.op = "upload", !.at = FirstStep(ids),
                                 !.upload = u, !.objects = ids, !.fresh = fresh])
    /\ UNCHANGED <<file, object, staged, stale>>

\* Bug: whatever the upload's status is, the files are taken for reviewed.
AddReadTrusting(c, u, ids, fresh) ==
    /\ UploadExists(u)
    /\ ids # {} \/ fresh
    /\ Start(c, [IdleCall EXCEPT !.op = "add", !.at = FirstStep(ids),
                                 !.upload = u, !.objects = ids, !.fresh = fresh,
                                 !.status = "pending"])
    /\ UNCHANGED <<upload, file, object, staged, stale>>

AddRead(c, u, ids, fresh) ==
    /\ UploadExists(u)
    /\ ids # {} \/ fresh
    /\ Start(c, [IdleCall EXCEPT !.op = "add", !.at = FirstStep(ids),
                                 !.upload = u, !.objects = ids, !.fresh = fresh,
                                 !.status = upload[u].status])
    /\ UNCHANGED <<upload, file, object, staged, stale>>

\* Ids that are unknown, or claimed already, fail the request.
ClaimFind(c) ==
    /\ At(c, "claim")
    /\ IF call[c].objects \subseteq staged THEN Goto(c, "rows") ELSE Finish(c)
    /\ UNCHANGED <<upload, file, object, staged, stale>>

\* A file added to an approved upload awaits a review of its own; any other is
\* covered by the review of its upload.
NewFile(c, o) ==
    [NoFile EXCEPT !.status = IF call[c].op = "add" /\ call[c].status = "active"
                              THEN "pending" ELSE "active",
                   !.upload = call[c].upload, !.object = o]

\* Rows for these objects, in one INSERT.
InsertFiles(c, objects) ==
    LET rows == CHOOSE g \in Injection(objects, UnusedFiles) : TRUE
    IN  /\ UploadExists(call[c].upload)
        /\ Cardinality(objects) <= Cardinality(UnusedFiles)
        /\ file' = [f \in Files |->
                      IF \E o \in objects : rows[o] = f
                      THEN NewFile(c, CHOOSE o \in objects : rows[o] = f)
                      ELSE file[f]]

ClaimSave(c) ==
    /\ At(c, "rows")
    /\ InsertFiles(c, call[c].objects)
    /\ Goto(c, "unstage")
    /\ UNCHANGED <<upload, object, staged, stale>>

\* The rows do not save, for one because their upload has gone: everything
\* stays staged.
ClaimFails(c) ==
    /\ At(c, "rows")
    /\ Finish(c)
    /\ UNCHANGED <<upload, file, object, staged, stale>>

AfterFiles(c) ==
    IF call[c].op = "add" /\ call[c].status # "active"
    THEN Goto(c, "reopen") ELSE Finish(c)

\* Bug: the staged rows stay.
ClaimKeepsStaged(c) ==
    /\ At(c, "unstage")
    /\ IF call[c].fresh THEN Goto(c, "put") ELSE AfterFiles(c)
    /\ UNCHANGED <<upload, file, object, staged, stale>>

ClaimUnstage(c) ==
    /\ At(c, "unstage")
    /\ staged' = staged \ call[c].objects
    /\ stale' = stale \ call[c].objects
    /\ IF call[c].fresh THEN Goto(c, "put") ELSE AfterFiles(c)
    /\ UNCHANGED <<upload, file, object>>

FileSave(c) ==
    /\ At(c, "row")
    /\ InsertFiles(c, call[c].objects)
    /\ AfterFiles(c)
    /\ UNCHANGED <<upload, object, staged, stale>>

\* update() of an upload that is not approved, and the end of addFiles() to one:
\* "Editing sends the upload back for review", by the status read at the start.
UpdateRead(c, u) ==
    /\ upload[u].status \in {"pending", "rejected"}
    /\ Start(c, [IdleCall EXCEPT !.op = "update", !.at = "reopen", !.upload = u,
                                 !.status = upload[u].status])
    /\ UNCHANGED <<upload, file, object, staged, stale>>

SetStatus(u, status) ==
    upload' = IF UploadExists(u) THEN [upload EXCEPT ![u].status = status] ELSE upload

Reopen(c) ==
    /\ At(c, "reopen")
    /\ SetStatus(call[c].upload, "pending")
    /\ Finish(c)
    /\ UNCHANGED <<file, object, staged, stale>>

-----------------------------------------------------------------------------
(* removeFile(), which takes the upload along with its last file, delete()   *)
(* and the reviewers' deleteDocument(), and hiding.                         *)

RemoveRead(c, f) ==
    /\ FileExists(f)
    /\ Start(c, [IdleCall EXCEPT !.op = "remove", !.at = "count", !.file = f,
                                 !.upload = file[f].upload,
                                 !.objects = {file[f].object}])
    /\ UNCHANGED <<upload, file, object, staged, stale>>

RemoveCount(c) ==
    /\ At(c, "count")
    /\ IF Cardinality(FilesOf(call[c].upload)) > 1 THEN Goto(c, "object")
       ELSE IF UploadExists(call[c].upload) THEN Goto(c, "find")
       ELSE Finish(c)
    /\ UNCHANGED <<upload, file, object, staged, stale>>

RemoveObject(c) ==
    /\ At(c, "object")
    /\ RemoveObjects(call[c].objects, "removed")
    /\ Goto(c, "drop")
    /\ UNCHANGED <<upload, file, staged, stale>>

\* Bug: the object goes and its row stays.
RemoveRowKept(c) ==
    /\ At(c, "drop")
    /\ Finish(c)
    /\ UNCHANGED <<upload, file, object, staged, stale>>

RemoveRow(c) ==
    /\ At(c, "drop")
    /\ Erase({call[c].file})
    /\ Finish(c)
    /\ UNCHANGED <<upload, object, staged, stale>>

DeleteRead(c, u) ==
    /\ UploadExists(u)
    /\ Start(c, [IdleCall EXCEPT !.op = "delete", !.at = "find", !.upload = u])
    /\ UNCHANGED <<upload, file, object, staged, stale>>

FindObjects(c) ==
    /\ At(c, "find")
    /\ call' = [call EXCEPT ![c].objects = ObjectsOf(call[c].upload),
                            ![c].at = "objects"]
    /\ UNCHANGED <<upload, file, object, staged, stale>>

TearDownObjects(c) ==
    /\ At(c, "objects")
    /\ RemoveObjects(call[c].objects,
                     IF call[c].op = "reject" THEN "rejected" ELSE "removed")
    /\ Goto(c, IF call[c].op = "reject" THEN "reject" ELSE "cascade")
    /\ UNCHANGED <<upload, file, staged, stale>>

DeleteCascade(c) ==
    /\ At(c, "cascade")
    /\ SetStatus(call[c].upload, "gone")
    /\ Erase(FilesOf(call[c].upload))
    /\ Finish(c)
    /\ UNCHANGED <<object, staged, stale>>

HideRead(c, f, hide) ==
    /\ FileExists(f)
    /\ Start(c, [IdleCall EXCEPT !.op = "hide", !.at = "hide", !.file = f,
                                 !.upload = file[f].upload, !.hide = hide,
                                 !.seen = upload[file[f].upload].hidden])
    /\ UNCHANGED <<upload, file, object, staged, stale>>

HideFile(c) ==
    /\ At(c, "hide")
    /\ file' = IF FileExists(call[c].file)
               THEN [file EXCEPT ![call[c].file].hidden = call[c].hide] ELSE file
    /\ Goto(c, "visible")
    /\ UNCHANGED <<upload, object, staged, stale>>

\* The last visible file takes the folder with it, the first brings it back.
HideCount(c) ==
    LET visible == {f \in FilesOf(call[c].upload) : ~file[f].hidden}
    IN  /\ At(c, "visible")
        /\ IF call[c].hide # call[c].seen /\ call[c].hide = (visible = {})
           THEN Goto(c, "folder") ELSE Finish(c)
        /\ UNCHANGED <<upload, file, object, staged, stale>>

HideFolder(c) ==
    /\ At(c, "folder")
    /\ upload' = IF UploadExists(call[c].upload)
                 THEN [upload EXCEPT ![call[c].upload].hidden = call[c].hide]
                 ELSE upload
    /\ Finish(c)
    /\ UNCHANGED <<file, object, staged, stale>>

SetHidden(u, hide) ==
    /\ UploadExists(u)
    /\ upload[u].hidden # hide
    /\ upload' = [upload EXCEPT ![u].hidden = hide]
    /\ UNCHANGED <<file, object, staged, stale, call>>

-----------------------------------------------------------------------------
(* approveDocumentGroup(), rejectDocumentGroup(), approveFile() and          *)
(* rejectFile(): a pending row is read, and the decision is written to it.  *)

\* Bug: an upload is approved whatever became of it.
ApproveReadAny(c, u) ==
    /\ UploadExists(u)
    /\ Start(c, [IdleCall EXCEPT !.op = "approve", !.at = "approve", !.upload = u])
    /\ UNCHANGED <<upload, file, object, staged, stale>>

ApproveRead(c, u) ==
    /\ upload[u].status = "pending"
    /\ Start(c, [IdleCall EXCEPT !.op = "approve", !.at = "approve", !.upload = u])
    /\ UNCHANGED <<upload, file, object, staged, stale>>

ApproveWrite(c) ==
    /\ At(c, "approve")
    /\ SetStatus(call[c].upload, "active")
    /\ file' = [f \in Files |-> IF f \in FilesOf(call[c].upload)
                                   /\ file[f].status = "active"
                                THEN [file[f] EXCEPT !.reviewed = TRUE]
                                ELSE file[f]]
    /\ Finish(c)
    /\ UNCHANGED <<object, staged, stale>>

RejectRead(c, u) ==
    /\ upload[u].status = "pending"
    /\ Start(c, [IdleCall EXCEPT !.op = "reject", !.at = "find", !.upload = u])
    /\ UNCHANGED <<upload, file, object, staged, stale>>

RejectWrite(c) ==
    /\ At(c, "reject")
    /\ SetStatus(call[c].upload, "rejected")
    /\ Finish(c)
    /\ UNCHANGED <<file, object, staged, stale>>

FileReviewRead(c, f, verdict) ==
    /\ file[f].status = "pending"
    /\ Start(c, [IdleCall EXCEPT !.op = "reviewFile", !.at = "verdict",
                                 !.file = f, !.status = verdict])
    /\ UNCHANGED <<upload, file, object, staged, stale>>

\* Bug: the decision is written as no status the table knows.
FileReviewApproved(c) ==
    /\ At(c, "verdict")
    /\ file' = [file EXCEPT ![call[c].file].status = "approved"]
    /\ Finish(c)
    /\ UNCHANGED <<upload, object, staged, stale>>

FileReviewWrite(c) ==
    LET f == call[c].file
        verdict == call[c].status
    IN  /\ At(c, "verdict")
        /\ file' = IF FileExists(f)
                   THEN [file EXCEPT ![f].status = verdict,
                                     ![f].reviewed = verdict = "active"]
                   ELSE file
        /\ Finish(c)
        /\ UNCHANGED <<upload, object, staged, stale>>

-----------------------------------------------------------------------------

DayPasses(o) ==
    /\ o \in staged \ stale
    /\ stale' = stale \cup {o}
    /\ UNCHANGED <<upload, file, object, staged, call>>

CallStarts(c) ==
    \/ StageStart(c)
    \/ \E o \in Objects : DiscardRead(c, o)
    \/ \E u \in Uploads, ids \in SUBSET Handed, fresh \in BOOLEAN :
          UploadInsert(c, u, ids, fresh) \/ AddRead(c, u, ids, fresh)
    \/ \E u \in Uploads :
          \/ UpdateRead(c, u)
          \/ DeleteRead(c, u)
          \/ ApproveRead(c, u)
          \/ RejectRead(c, u)
    \/ \E f \in Files :
          \/ RemoveRead(c, f)
          \/ \E hide \in BOOLEAN : HideRead(c, f, hide)
          \/ \E verdict \in {"active", "rejected"} : FileReviewRead(c, f, verdict)

CallSteps(c) ==
    \/ SweepObjects(c)
    \/ SweepRows(c)
    \/ \E o \in Objects : PutObject(c, o)
    \/ PutRefused(c)
    \/ StageSave(c)
    \/ SaveFails(c)
    \/ ClaimFind(c)
    \/ ClaimSave(c)
    \/ ClaimFails(c)
    \/ ClaimUnstage(c)
    \/ FileSave(c)
    \/ Reopen(c)
    \/ RemoveCount(c)
    \/ RemoveObject(c)
    \/ RemoveRow(c)
    \/ FindObjects(c)
    \/ TearDownObjects(c)
    \/ DeleteCascade(c)
    \/ HideFile(c)
    \/ HideCount(c)
    \/ HideFolder(c)
    \/ ApproveWrite(c)
    \/ RejectWrite(c)
    \/ FileReviewWrite(c)

\* The process stays up and storage answers its deletes: a crash or a failed
\* delete between two stores leaves one of them behind, and nothing repairs it.
Next ==
    \/ \E c \in Calls : CallStarts(c) \/ CallSteps(c)
    \/ \E u \in Uploads, hide \in BOOLEAN : SetHidden(u, hide)
    \/ \E o \in Objects : DayPasses(o)

Spec == Init /\ [][Next]_vars

-----------------------------------------------------------------------------
(* Properties. *)

\* What findAll() and signFileAccess() give to somebody who is neither the
\* owner nor an admin.
Public(f) ==
    /\ file[f].status = "active" /\ ~file[f].hidden
    /\ upload[file[f].upload].status = "active" /\ ~upload[file[f].upload].hidden

Claiming(c) == call[c].at \in {"rows", "unstage"}
TearingDown(c) == call[c].at \in {"cascade", "drop", "reject"}

\* "A file added to an ALREADY-APPROVED upload has never been reviewed, so it
\* lands pending and stays hidden": no file is public that no reviewer let
\* through, alone or with its upload.
NothingPublicUnreviewed == \A f \in Files : Public(f) => file[f].reviewed

\* Ids that "were already claimed are rejected": a staged file becomes one
\* document, and no staged row is left that could sweep a document's object.
OneDocumentPerObject ==
    \A f, g \in Files : FileExists(f) /\ FileExists(g) =>
        /\ file[f].object = file[g].object => f = g
        /\ file[f].object \in staged =>
              \E c \in Calls : Claiming(c) /\ file[f].object \in call[c].objects

\* A public file can be fetched, unless somebody is just deleting it or its
\* upload was once rejected, which deletes its objects for good.
PublicFilesStored ==
    \A f \in Files : Public(f) =>
        \/ object[file[f].object] \in {"stored", "rejected"}
        \/ \E c \in Calls : TearingDown(c) /\ file[f].object \in call[c].objects

\* "a failed stage leaves neither an orphan nor a spent quota", nor does any
\* other handler: an object in storage is staged, is a document's, or is in
\* the hands of a handler that runs.
NoOrphanObject ==
    \A o \in Objects : object[o] = "stored" =>
        \/ o \in staged
        \/ \E f \in Files : FileExists(f) /\ file[f].object = o
        \/ \E c \in Calls : o \in call[c].objects

\* Storage and tables own each other: an object has exactly one owner, which is
\* a staged row, a document or a handler that runs.
OwnedOnce == OneDocumentPerObject /\ NoOrphanObject

\* A rejected upload is published again only by way of a new review, which its
\* owner asks for by editing it.
RejectionStands ==
    [][\A u \in Uploads : upload[u].status = "rejected" =>
          upload'[u].status \in {"rejected", "pending", "gone"}]_vars

\* "a bad payload can't produce an upload with no files": an upload has a file
\* whenever nobody is at work on it.
NoEmptyUpload ==
    \A u \in Uploads : UploadExists(u) =>
        \/ FilesOf(u) # {}
        \/ \E c \in Calls : call[c].upload = u
=============================================================================
