---------------------------- MODULE DocumentAccess ----------------------------
(***************************************************************************)
(* Who gets to see an upload: the three ways documents.service.ts hands out *)
(* signed links to its files - a download, the detail page and the feed -   *)
(* the pin, which needs the same right, and the reviewers' screens of       *)
(* admin.service.ts.                                                        *)
(*                                                                          *)
(* One upload and its files: no other one bears on who may see them.  Every *)
(* reader takes two or more statements, and signs by what each of them said. *)
(***************************************************************************)
EXTENDS Accounts

CONSTANTS
    Files,
    Years,         \* that departments have students in
    Audiences,     \* what an owner asks for: sets of pairs of department and year
    LastDay,       \* bound on the clock
    EditsOverlap   \* whether an owner edits in two tabs at once

Language == "DFL"     \* taken by every student, and nobody's own department
Folder == "folder"    \* the upload itself, beside its files

Places == Departments \X Years
Days == 1 .. LastDay
Maybe(S) == S \cup {None}

ASSUME AccessAssumption ==
    /\ LastDay \in Nat
    /\ Audiences \subseteq SUBSET Places
    /\ EditsOverlap \in BOOLEAN
    /\ {Language, Folder} \cap (Departments \cup Files \cup {None}) = {}

VARIABLES
    place,   \* users: department and year, None while one of them is missing
    upload,  \* the uploads row
    file,    \* its documents rows
    pins,    \* who pinned it
    today,
    seen,    \* what the handlers in flight have read, and the links they made
    could    \* history: what each actor was allowed to see since he asked

access == <<place, upload, file, pins, today>>

UploadRow == [status : {"pending", "active", "rejected"}, owner : Users,
              dept : Departments \cup {Language}, audience : SUBSET Places,
              hidden : BOOLEAN, expires : Maybe(Days)]
FileRow == [status : {"pending", "active", "rejected"}, hidden : BOOLEAN]
NotSeen == [target |-> Folder, own |-> FALSE, row |-> None, files |-> None,
            place |-> None, links |-> {}]

\* What a language course offers is for everyone.
AccessTypeOK ==
    /\ place \in [Users -> Maybe(Places)]
    /\ upload \in UploadRow
    /\ upload.dept = Language => upload.audience = {}
    /\ file \in [Files -> FileRow]
    /\ pins \in SUBSET Users
    /\ today \in 0 .. LastDay
    /\ \A c \in Calls : /\ seen[c].links \subseteq Files \cup {Folder}
                        /\ could[c] \subseteq Files \cup {Folder}

\* The days and places that bear on a behaviour: in those without a reader who
\* is judged by them, everyone is alike.
Lookups == {"download", "detail", "feed", "pin"}
Dates == IF "expire" \in mix THEN Days ELSE {}
Undecided == IF "decide" \in mix THEN {"pending"} ELSE {}
Homes == IF mix \cap Lookups = {} THEN {None} ELSE Maybe(Places)

\* An upload as it was sent in, or approved since.  Where its owner belongs has
\* no bearing on it.
AccessInit ==
    /\ \E owner \in Users, dept \in Departments \cup {Language},
          audience \in Audiences, expires \in Maybe(Dates),
          status \in {"pending", "active"} :
          /\ dept = Language \/ mix \cap Lookups = {} => audience = {}
          /\ mix \cap AccessOps = {}
             => dept = Language /\ status = "pending" /\ IsAdmin(owner)
          /\ upload = [status |-> status, owner |-> owner, dept |-> dept,
                       audience |-> audience, hidden |-> FALSE,
                       expires |-> expires]
    /\ place \in [Users -> Homes]
    /\ place[upload.owner] = None
    /\ file \in [Files -> [status : {"active"} \cup Undecided,
                           hidden : {FALSE}]]
    /\ pins = {}
    /\ today = 0
    /\ seen = [c \in Calls |-> NotSeen]
    /\ could = [c \in Calls |-> {}]

-----------------------------------------------------------------------------
(* The rules, as the code has them.                                         *)

Expired(row) == row.expires # None /\ row.expires <= today

\* Bug: departments and years are compared one at a time.
MatchesAxes(audience, p) ==
    \/ audience = {}
    \/ /\ p # None
       /\ \E e \in audience : e[1] = p[1]
       /\ \E e \in audience : e[2] = p[2]

\* The viewer's own department and year are one of the pairs.
Matches(audience, p) == audience = {} \/ p \in audience

\* Bug: the owner and admins are asked about last.
CanViewLate(row, u) ==
    /\ ~Expired(row) /\ ~row.hidden
    /\ \/ Matches(row.audience, place[u])
       \/ IsAdmin(u)
       \/ row.owner = u

\* canView(), of a row that was loaded and a viewer as he is now.
CanView(row, u) ==
    \/ IsAdmin(u)
    \/ row.owner = u
    \/ /\ ~Expired(row) /\ ~row.hidden
       /\ Matches(row.audience, place[u])

\* applyVisibility(), of the rows as they are and a viewer loaded before.  On
\* their own list owners also see what expired or is hidden.
Visible(u, admin, p, own) ==
    /\ own \/ ~(Expired(upload) \/ upload.hidden)
    /\ admin \/ upload.owner = u \/ Matches(upload.audience, p)

Privileged(row, u) == IsAdmin(u) \/ row.owner = u
Shown(f) == f.status = "active" /\ ~f.hidden

\* signFileAccess(): one file, of an upload that need not be published.
DownloadLinks(f, row, files, u) ==
    {g \in {f} : /\ CanView(row, u)
                 /\ \/ Privileged(row, u)
                    \/ row.status = "active" /\ Shown(files[f])}

\* findOne(): the page of a published upload, with visibleFiles().
DetailLinks(row, files, u) ==
    IF CanView(row, u)
    THEN {f \in Files : Privileged(row, u) \/ Shown(files[f])} ELSE {}

\* setPinned(): what one cannot open, one cannot pin.
PinLinks(row, u) == IF CanView(row, u) THEN {Folder} ELSE {}

\* findAll(): filters of the query only narrow it further.
FeedLinks(u, admin, p, own) ==
    IF /\ own => upload.owner = u
       /\ own \/ upload.status = "active"
       /\ Visible(u, admin, p, own)
    THEN {f \in Files : Shown(file[f])} ELSE {}

\* The queue and the review page: pending uploads with their files, published
\* ones with the files that wait, and on the page any upload of the department.
QueueLinks(c) == IF CanModerate(c, upload.dept) THEN Files ELSE {}

-----------------------------------------------------------------------------
(* Requests that hand something out.  None of them changes what another one *)
(* reads, so one in flight stands for any number.                           *)

Readers == Lookups \cup {"queue"}

Look(c, op, at, actor, target, own) ==
    /\ \A d \in Calls : call[d].op \notin Readers
    /\ Start(c, Request(op, at, actor))
    /\ seen' = [seen EXCEPT ![c] = [NotSeen EXCEPT !.target = target, !.own = own]]
    /\ UNCHANGED <<accounts, access>>

Ask(c, actor) ==
    \/ \E f \in Files : Look(c, "download", "read", actor, f, FALSE)
    \/ \E op \in {"detail", "pin"} : Look(c, op, "read", actor, Folder, FALSE)
    \/ \E own \in BOOLEAN : Look(c, "feed", "viewer", actor, Folder, own)
    \/ Look(c, "queue", "guard", actor, Folder, FALSE)

\* One query loads the upload with its files.  The page and the pin want it
\* published.
LoadUpload(c) ==
    /\ call[c].at = "read"
    /\ call[c].op \in {"download", "detail", "pin"}
    /\ IF call[c].op = "download" \/ upload.status = "active"
       THEN /\ seen' = [seen EXCEPT ![c].row = upload, ![c].files = file]
            /\ Goto(c, "viewer")
       ELSE Finish(c) /\ seen' = [seen EXCEPT ![c] = NotSeen]
    /\ UNCHANGED <<accounts, access>>

\* Links are made from what was let through, or the request is refused.
Sign(c, links) ==
    IF links = {} THEN Finish(c) /\ seen' = [seen EXCEPT ![c] = NotSeen]
    ELSE /\ seen' = [seen EXCEPT ![c] = [NotSeen EXCEPT !.links = links]]
         /\ Goto(c, "sign")

\* getViewer() comes second, and the check right after it.
LoadViewer(c) ==
    LET u == call[c].actor
        row == seen[c].row
        files == seen[c].files
    IN  /\ call[c].at = "viewer"
        /\ \/ call[c].op = "download" /\ Sign(c, DownloadLinks(seen[c].target, row, files, u))
           \/ call[c].op = "detail" /\ Sign(c, DetailLinks(row, files, u))
           \/ call[c].op = "pin" /\ Sign(c, PinLinks(row, u))
        /\ UNCHANGED <<accounts, access>>

\* The feed loads the viewer first and leaves the rest to its query.
FeedViewer(c) ==
    /\ At(c, "feed", "viewer")
    /\ seen' = [seen EXCEPT ![c].place = place[call[c].actor]]
    /\ call' = [call EXCEPT ![c].at = "read", ![c].admin = IsAdmin(call[c].actor)]
    /\ UNCHANGED <<accounts, access>>

FeedQuery(c) ==
    /\ At(c, "feed", "read")
    /\ Sign(c, FeedLinks(call[c].actor, call[c].admin, seen[c].place, seen[c].own))
    /\ UNCHANGED <<accounts, access>>

QueueQuery(c) ==
    /\ At(c, "queue", "read")
    /\ Sign(c, QueueLinks(c))
    /\ UNCHANGED <<accounts, access>>

\* The answer leaves, or the pin is stored or taken away.
HandOut(c) ==
    /\ call[c].at = "sign"
    /\ IF call[c].op = "pin"
       THEN pins' \in {pins \cup {call[c].actor}, pins \ {call[c].actor}}
       ELSE pins' = pins
    /\ Finish(c)
    /\ seen' = [seen EXCEPT ![c] = NotSeen]
    /\ UNCHANGED <<accounts, place, upload, file, today>>

-----------------------------------------------------------------------------
(* What changes meanwhile.  update() is here as a whole; of the handlers    *)
(* that DocumentReview and YearPromotion take apart, the statement that     *)
(* changes a column this module reads.                                      *)

Edit(c, actor) ==
    /\ upload.owner = actor
    /\ EditsOverlap \/ \A d \in Calls : call[d].op # "edit"
    /\ Start(c, Request("edit", "read", actor))
    /\ UNCHANGED <<accounts, access, seen>>

EditRead(c) ==
    /\ At(c, "edit", "read")
    /\ seen' = [seen EXCEPT ![c].row = upload]
    /\ Goto(c, "write")
    /\ UNCHANGED <<accounts, access>>

\* resolveAudience()
Resolve(dept, audience) == IF dept = Language THEN {} ELSE audience

\* Bug: a new department is stored beside the audience of the old one.
ResolvedKept(row, dept, audience) ==
    IF audience = None THEN upload.audience ELSE Resolve(dept, audience)

\* A new department or audience settles both; else neither is written.
Resolved(row, dept, audience) ==
    IF dept = None /\ audience = None THEN upload.audience
    ELSE Resolve(IF dept = None THEN row.dept ELSE dept,
                 IF audience = None THEN row.audience ELSE audience)

\* A date that is changed has to be one to come.
EditWrite(c) ==
    LET row == seen[c].row
    IN  /\ At(c, "edit", "write")
        /\ \E dept \in Maybe(Departments \cup {Language}),
              audience \in Maybe(Audiences),
              expires \in {None, row.expires} \cup {e \in Dates : e > today} :
              upload' = [upload EXCEPT
                  !.dept = IF dept = None THEN @ ELSE dept,
                  !.audience = Resolved(row, dept, audience),
                  !.expires = expires,
                  !.status = IF row.status = "active" THEN @ ELSE "pending"]
        /\ Finish(c)
        /\ seen' = [seen EXCEPT ![c] = NotSeen]
        /\ UNCHANGED <<accounts, place, file, pins, today>>

\* setHidden(), setFileHidden()
Hide ==
    /\ "hide" \in mix
    /\ \/ upload' = [upload EXCEPT !.hidden = ~@] /\ file' = file
       \/ /\ \E f \in Files : file' = [file EXCEPT ![f].hidden = ~@]
          /\ upload' = upload
    /\ UNCHANGED <<accounts, call, place, pins, today, seen>>

\* A review of the upload, or of a file that was added to it.
Decide ==
    /\ "decide" \in mix
    /\ \E new \in {"active", "rejected"} :
          \/ /\ upload.status = "pending"
             /\ upload' = [upload EXCEPT !.status = new] /\ file' = file
          \/ /\ upload.status = "active"
             /\ \E f \in Files : /\ file[f].status = "pending"
                                 /\ file' = [file EXCEPT ![f].status = new]
             /\ upload' = upload
    /\ UNCHANGED <<accounts, call, place, pins, today, seen>>

DayEnds ==
    /\ "expire" \in mix
    /\ today < LastDay
    /\ today' = today + 1
    /\ UNCHANGED <<accounts, call, place, upload, file, pins, seen>>

\* A promotion, or the correction of an admin.
Place ==
    /\ "place" \in mix
    /\ \E u \in Users \ {upload.owner}, p \in Places :
          place' = [place EXCEPT ![u] = p]
    /\ UNCHANGED <<accounts, call, upload, file, pins, today, seen>>

-----------------------------------------------------------------------------

AccessArrival(c) == \E actor \in Users : Ask(c, actor) \/ Edit(c, actor)

AccessStep(c) ==
    \/ LoadUpload(c) \/ LoadViewer(c)
    \/ FeedViewer(c) \/ FeedQuery(c) \/ QueueQuery(c)
    \/ HandOut(c)
    \/ EditRead(c) \/ EditWrite(c)

Surroundings == Hide \/ Decide \/ DayEnds \/ Place

-----------------------------------------------------------------------------
(* Properties.                                                              *)

\* The rule that is meant: an upload is its owner's, the admins' and its
\* department's moderators'; others see what is published, not hidden, not
\* expired and either for everyone or for their department and year.
MaySee(u, thing) ==
    \/ IsAdmin(u) \/ upload.owner = u \/ <<u, upload.dept>> \in moderators
    \/ /\ upload.status = "active" /\ ~upload.hidden
       /\ upload.expires = None \/ today < upload.expires
       /\ upload.audience = {} \/ place[u] \in upload.audience
       /\ thing # Folder => file[thing].status = "active" /\ ~file[thing].hidden
Seeable(u) == {t \in Files \cup {Folder} : MaySee(u, t)}

Watch ==
    could' = [c \in Calls |->
        IF Busy(c)' THEN could[c] \cup Seeable(call[c].actor)' ELSE {}]

\* "authorise, then sign": whoever is handed a link, or pins the upload, was
\* allowed to see it at some moment since he asked, although the statements he
\* was judged by were read apart, while owners edit and hide, reviews are
\* decided, days end, students move on and moderators come and go
\* (signFileAccess(), findOne(), findAll(), setPinned(), getDocumentsByGroup()).
HandedOutWasAllowed ==
    \A c \in Calls : seen[c].links \subseteq could[c]

\* The rule is written three times, in SQL and twice in the service, and the
\* three agree: a file that a feed, an owner's own list or the detail page shows
\* opens when it is clicked.
ListedOpens ==
    \A u \in Users, own \in BOOLEAN :
       LET opens == {f \in Files : DownloadLinks(f, upload, file, u) # {}}
       IN  /\ FeedLinks(u, IsAdmin(u), place[u], own) \subseteq opens
           /\ upload.status = "active"
              => DetailLinks(upload, file, u) \subseteq opens
=============================================================================
