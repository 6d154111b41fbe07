# ITC Sharing backend: TLA+ models and proofs

ITC Sharing lets students of one institute share course documents and give away
books. This directory models the parts of its backend whose correctness depends
on the order things happen in, checks them with TLC on small instances, and
proves what matters most with TLAPS for every instance: of the book handover,
sessions, emailed codes, documents and their review, limits, year promotion, Telegram
linking and the desk of accounts, departments and readers of documents.

The backend is NestJS on Node.js with TypeORM over PostgreSQL at its default
isolation level, READ COMMITTED. Objects are in an S3-compatible store, counters
are in Redis when there is one, notices go out by socket, mail and Telegram.
Node runs one handler at a time, but **every `await` is a point at which another
handler may run**, and so may a second instance of the server. Four book
operations use a transaction and lock the book row; nothing else in the code
takes a lock. That is what all the models here are about: the state a handler
reads, the statements of other handlers in between, and the state it writes.

## 1. Inventory

### Books (`src/src/modules/books`)
State: `books` (status `available`/`reserved`/`donated`, hidden, what the
listing says) and `book_requests` (status, the three timestamps), with a partial
unique index that admits one pending or accepted request per book.
Operations: donate, edit, delete; request, accept, decline, cancel, complete;
an admin's hide and delete; an hourly job that expires reservations of more than
`RESERVATION_DAYS`.
Hard: accept locks the book before it reads the request, cancel and complete
read the request before they lock the book, decline and the donor's edit and
delete lock nothing, the sweep works from a list and locks in the other order.
Correct when: one request per book can be acted on; a reserved book is reserved
for somebody; only the receiver's confirmation gives a book away; a reservation
ends; what is finished stays finished; a refusal is final; a listing does not
change under somebody who asked for it.

### Sessions (`auth.service.ts`, bans in `admin.service.ts`)
State: `refresh_tokens` (consumed, family, parent, expiry), and of each user the
password, whether the address is verified, and the ban.
Operations: sign in by password, by Google or by a verification code; refresh
with rotation and a reuse window (`REFRESH_REUSE_GRACE_SECONDS`); logout;
password reset; ban, unban; the retention job `purge_expired_data()`.
Hard: no transaction. Two tabs redeem one token; a token is replayed inside or
outside the window; a logout, reset or ban deletes a family while a rotation has
claimed the parent and not yet inserted the child.
Correct when: a session forks only in the window; a replay ends the session; two
honest tabs are not taken for a replay; a session that was ended is over.

### Emailed codes (`auth.service.ts`)
State: `email_tokens` (hash, purpose, attempts, expiry, consumed).
Operations: issue (register, resend, forgot), check, redeem; retention.
Hard: find, compare (a slow bcrypt), count and claim are separate statements.
Correct when: a code lets one handler through; guesses are bounded; one code of
a purpose is live; the right code is not counted as a wrong guess.

### Documents (`documents.service.ts`, review in `admin.service.ts`)
State: `staged_files`, `uploads` (a folder with a status), `documents` (a file
with a status), and the objects in storage that files point at.
Operations: stage and discard a file, upload, add files, edit, hide a file or a
folder, remove a file, delete, pin; approve or reject an upload or a file.
Hard: database and storage are two systems and no handler uses a transaction; an
upload's status is read before slow work and acted on after; claiming staged
files saves documents and then deletes staged rows.
Correct when: nothing is public that was not reviewed; what is public can be
fetched; an object is owned by one row, and by some row; an upload is not empty;
a rejection stands until the owner asks again.

Who may see an upload is decided in three places (`canView()`, `applyVisibility()`
in SQL, and each reader's own filter) by the role, the owner, the audience of
departments and years, the expiry date and what is hidden, all of which change
while a reader is between two of its queries. Correct when: who is handed a link
was allowed to see the file since he asked; what is listed opens.

### Accounts and moderators (`admin.service.ts`, `moderation.service.ts`, the guards)
State: `users.role`, `user_bans`, `department_moderators`.
Operations: promote and demote, ban, unban, assign, unassign; the admin and the
reviewer guard in front of every request of the desk.
Hard: counting admins and then demoting one; a ban unassigning while an admin
assigns; a guard's answer that is used for the rest of the request.
Correct when: an admin is left; a banned account moderates nothing; a decision is
made by somebody who may make it.

### Departments and subjects (`majors.service.ts`, `subjects.service.ts`)
State: `majors` with a logo in storage, `subjects` with a status and a cover.
Operations: create, update and remove a department; submit, withdraw, approve,
reject and remove a subject.
Hard: logo keys repeat within a day; a save that fails cleans up; a whole entity
is saved as it was read; a removal counts and then deletes by cascade.
Correct when: the logo a department shows is in storage; a subject is decided by
who moderates its department.

### Limits (`common/rate-limit`, `common/redis`)
State: counters and blocks per rule and caller, a window of bytes per user, in
Redis and, for when it is away, in each process.
Operations: count a request against every rule of its tier; charge an upload and
refund it.
Hard: a reply that is lost though the script ran; charge in one store and refund
in the other; a refund after the window ended; callers behind one address.
Correct when: no rule lets through more than its limit per window, a budget
likewise; nobody is refused for others; no counter stays for good.

### Year promotion (`users.service.ts`, `promotion.ts`, `promotion-settings.service.ts`)
State: each student's programme, year and the rollover he last had; the schedule,
and each process's ten-second cache of it.
Operations: visit (`getMe`), answer the prompt (`updateMe`), schedule (`set`),
correct a placement (`setUserPlacement`).
Hard: nothing runs when the moment comes: a visit applies what is owed, with a row
and a schedule read earlier, while others visit, schedule and correct.
Correct when: one year per rollover; who keeps coming back gets it.

### Telegram (`telegram.service.ts`, delivery in `notifications.service.ts`)
State: a chat per user (unique), link tokens, hashed, single use.
Operations: make a link, redeem it by /start, disconnect, deliver a notice, forget
a chat that cannot be reached.
Hard: updates are delivered again; a link is opened in two chats; disconnecting
meets a /start; a failed send meets a new link.
Correct when: a token links once; disconnected means disconnected; one failure
does not disconnect.

### The rest
| Component | State | Why it is not, or partly, modelled |
|---|---|---|
| Notifications | rows, sockets | a row is written once and marked as read by one statement; delivery by Telegram is in `TelegramLink`, sockets are I/O |
| Profile | one's own row | year and department are in `YearPromotion`, the rest is one statement |
| Developer alerts (`dev-alert.service.ts`) | recent signatures, a flood window | `queue()` is one synchronous function over one process's memory |
| Storage, vetting and conversion, mail, logging, controllers | none of their own | byte formats and I/O; their verdict is a choice |

How they meet: every request passes the limits first; an upload is charged, scanned
and stored and then enters the database; approvals and handovers call
notifications, which call sockets, mail and Telegram, and none of these answers
back into the caller's state; a ban deletes sessions and unassigns moderators;
roles and assignments decide what the desk and the readers of documents do; a
promotion moves a student into another audience; a redeemed code leads to a
reset, which ends sessions. What crosses over is in the module that reads it:
`RefreshSessions` has the ban, the verified address and the password's version,
`EmailCodes` the ban and the verified address, and `AdminDesk` composes accounts
with both of the components that ask about them, as `Limits` composes the two
limiters with the connection they share.

## 2. How the models are built

* **A handler in flight is a call**, a record in a slot of `Calls`: which
  operation, the statement it has to run next (`at`), and what it read before.
  One action is one awaited statement with everything the code does until the
  next. A call that is refused at its first statement changes nothing and is not
  a step, so the guard of a handler's first action is the code's early returns.
* **Transactions** (books only). Others see a transaction's writes when it
  commits, so writes and commit are one step. What it holds in between are row
  locks, and those follow from where its call is (`HoldsBook`, `RequestFree`).
  Deadlocks are found by PostgreSQL, which fails one of the transactions.
* **Rows are never reused**; a row that was deleted is `gone` (or says why it
  went), so that a property can still speak of it.
* **Time** is a step that makes a row old (`WindowElapses`, `GraceElapses`,
  `Expires`, `DayPasses`), with nothing said about when.
* **Data** is what the properties tell apart. A listing's text is a value of
  `Contents`; a password is its version; a code typed is a row's code or `Wrong`;
  vetting a file is a choice between going on and being refused.
* **History** variables are what a property has to remember and the code does not:
  how often a token linked, what a reader was allowed to see since he asked, how
  many windows were opened. No action reads one to decide what it does.
* **`Alone`** names operations that, in one instance, start when nothing else
  runs and keep others out until they end. With `Alone = {}` everything
  overlaps. Some promises of the code hold only where certain handlers do not
  overlap: those are checked with these in `Alone`, and where the failure is
  worth showing, a second instance with fewer of them finds it. `Alone` is never used
  for the properties that are said to hold under any overlap.
* **`Mixes`** (`Accounts` and what extends it) are sets of operations; a behaviour
  draws its operations from one of them. Each set holds operations that touch the
  same rows, so their interleavings are explored together; what two operations of
  different sets have in common is never written by either.

| Module | What it is |
|---|---|
| `BookLedger` | the abstract desk: a book is on the shelf, held for one request, given to that request's student, or withdrawn |
| `BookHandover` | all of the books component, statement by statement |
| `BookHandover_proofs` | the theorems about it |
| `RefreshSessions` | sessions and what ends them |
| `RefreshSessions_proofs` | the theorems about it |
| `EmailCodes` | codes from issue to effect |
| `EmailCodes_proofs` | the theorems about it |
| `DocumentReview` | staging, uploads, files, storage and review |
| `DocumentReview_proofs` | the theorems about it |
| `Accounts` | roles, bans, assignments and the guards |
| `Catalog` | departments with logos, subjects with covers and their review; extends `Accounts` |
| `DocumentAccess` | who is shown and handed what of an upload; extends `Accounts` |
| `AdminDesk` | `Accounts`, `Catalog` and `DocumentAccess` together |
| `AdminDesk_proofs` | the theorems about all four |
| `SharedCounters` | the connection to Redis with its faults, and counters that expire |
| `Throttle` | tiers, rules and trackers; counting in one store |
| `UploadQuota` | the byte budget in one store |
| `Limits` | a request through both, in Redis or in a process by itself |
| `Limits_proofs` | the theorems about it |
| `YearPromotion` | the schedule, its caches and what visits make of it |
| `YearPromotion_proofs` | the theorems about it |
| `TelegramLink` | tokens, chats and deliveries |
| `TelegramLink_proofs` | the theorems about it |
| `MC*` | instances for TLC: constants, symmetry |

Definitions under a comment that starts with `Bug:` are changed versions of the
definition that follows: a dropped guard, a missing reset, a check on what was
read too early. None is part of a specification. `PROJECT.json` pairs each with
the property that notices it.

## 3. State and actions against the code

**BookHandover.** `book` and `req` are the two tables; `overdue` are the accepted
requests older than the cutoff; `sweep` is the job and the list it holds.

| Code | Actions |
|---|---|
| `donate`, `setBookHidden` | `Donate`, `SetBookHidden`: one statement each |
| `request` | `RequestRead` (book available, visible, not one's own), `RequestCheckActive`, `RequestCheckRefused`, then `InsertRequest` or `InsertFails` against the unique index and the foreign key |
| `accept` | `AcceptLock` (`FOR UPDATE`), `AcceptRead`, `AcceptCommit` (accept, reserve, decline the rivals) |
| `cancel` | `CancelRead`, `CancelLock`, `CancelCommit`; the status that counts is the one read first |
| `complete` | `CompleteRead`, `CompleteLock`, `CompleteCommit` |
| `decline` | `DeclineRead`, `DeclineWrite` |
| `update`, `remove`, admin's `deleteBook` | `UpdateRead`/`RemoveRead`, `CountPending`, `UpdateWrite`; `AdminDeleteRead`; `DeleteLock`, `DeleteCascade` |
| `expireStaleReservations` | `SweepList`, then per entry `SweepTake` (the request's update) and `SweepRelease` (the book's, and the commit) |
| deadlock, restart | `CallIsVictim`, `SweepIsVictim`, `Restart` |

**RefreshSessions.** `token` is the table, where `consumed` is `consumed_at` set and
a deleted row says why it went; `late` are tokens consumed before the window;
`window` is whether the setting leaves any; `account` is what is read of users.
`refresh` is `RefreshRead`, `RefreshClaim` (the conditional update), on success
`CheckBan` and `CreateRefreshToken`, otherwise `RefreshGrace` and then either
the same or `RefreshReuse`. Signing in is `LoginRead`, `GoogleRead` or
`VerifyStart`/`VerifyWrite` with the same last two. `logout`, `resetPassword` and
`banUser` end in `DeleteSessions`. A reset starts where its code was redeemed.

**EmailCodes.** `code` is the table and `effects` counts, per code, the handlers it
let through (history: the code keeps no such count). `IssueConsume`/`IssueStore`
are `issueEmailToken`; `RedeemStart`, `RedeemLook`, `RedeemPutAway`,
`RedeemCompare`, `RedeemCount`, `RedeemClaim` are `redeemCode`; `RedeemAct` is
what `verifyEmailCode` and `resetPassword` do once they are let through.
`RedeemLook` takes any live row, as a `findOne` without an order does.

**DocumentReview.** `upload`, `file` and `staged` are the three tables, `object` is
the bucket. `file[f].reviewed` is history: some reviewer's decision covered this
file. Staging is `StageStart`, `SweepObjects`/`SweepRows` over what was left for a
day, `PutObject` and `StageSave`. Uploading and adding go through `ClaimFind`,
`ClaimSave`, `ClaimUnstage` for ids from the form and `PutObject`, `FileSave` for
a file in the request; `SaveFails` takes the object out again. `removeFile` is
`RemoveRead`, `RemoveCount` and then one file or the whole upload; `delete` and
`rejectDocumentGroup` are `FindObjects`, `TearDownObjects` and `DeleteCascade` or
`RejectWrite`. One student owns all uploads and every reviewer covers them, so
the ownership checks are constant and left out. Left out as well: previews (a
second object that goes with the first), and a crash or failed delete between the
two stores. Who may see what is in `DocumentAccess`.

**Accounts.** `role`, `banned` and `moderators` are the columns and tables.
`Start` has the ban check of `JwtStrategy.validate()`; `AdminGuard` and
`ReviewerRole`/`ReviewerScope` are the guards, and the call keeps what they said.
`setUserRole` is `SetRole`, `SetRoleRead`, `SetRoleCount`, `SetRoleWrite`; `banUser`
is `Ban`, `BanRead`, `BanCheck`, `BanInsert` (against the index of bans in force),
`BanStrip`; the deletion of sessions in between is in `RefreshSessions`.

**Catalog.** `dept`, `logos`, `subject`, `covers` are `majors`, its bucket, `subjects`
and theirs. `createDept`/`updateDept` go through `PutFile` and end in
`CreateDeptSave`/`UpdateDeptSave`/`SaveFails`, an update and a removal in `CleanLogo`.
`UpdateDeptSave` writes the entity the call read, as TypeORM's `save()` does, and so
puts back a row that was deleted. A review is `ReviewRead`, for a rejection
`RejectCover`, and `ReviewWrite`, an update by id alone.

**DocumentAccess.** One upload with its files, every student's place, pins and the day.
`signFileAccess` and `findOne` are `LoadUpload` then `LoadViewer`, `findAll` is
`FeedViewer` then `FeedQuery`, `setPinned` like the page; the review queue and page
are the reviewer guard and `QueueQuery`. `CanView`, `Visible` and `MaySee` are three
separate definitions: the first two are the code's, in the service and in SQL, the
third is the rule that is meant. `update()` is `EditRead` and `EditWrite`;
hiding, deciding, the day's end and a change of place are the one statement each
that the readers can notice.

**Limits.** `link` is a process's connection: not configured, up, or out. A script
sent while it is out may have run with its reply lost (`Outcomes`). `GuardAsk` and
`ChargeAsk` are the script, `GuardAlone` and `ChargeAlone` what the process does when
no answer comes or there is no client; `RefundAsk`/`RefundAlone` likewise. `RulesOf`
and `KeyKind` are the whole table of tiers; an instance looks at the tiers of
`Traffics`. The in-process store of the throttler library counts as `INCREMENT` does.

**YearPromotion.** `student`, `rollover` and `cached` are the rows, the setting and each
process's memory of it. `getMe` is `ReadUser`, the schedule (`RecallSchedule`, or
`ReadSchedule` and `FillCache`, which are apart because the answer is remembered
when it arrives), `ApplyPending`, and the schedule again for the answer. `updateMe`
and `setUserPlacement` end in `UpdateMeWrite`/`UpdateMeRefused` and `PlaceWrite`;
`set()` is `ScheduleSave` and `ScheduleClear`.

**TelegramLink.** `createLinkToken` is `ConnectSpend`, `ConnectStore`; `redeem` is
`RedeemSpend` (one conditional update) and `RedeemLink` (against the unique index);
`unlink` is `UnlinkRead`, `UnlinkClear`, `UnlinkSpend`; `notifyUser` is `NotifyRead`,
`SendMessage`, and on failure `GetChat` and `Forget`. A statement or a call of the Bot
API may fail up to `MaxFaults` times; a chat may block the bot.

## 4. Runs

| Run | Question | Instance |
|---|---|---|
| `books_overlap` | what holds whatever overlaps, with restarts and deadlocks | 1 book, 2 requests, 2 students, 2 calls |
| `books_desk` | what donor and student are promised, and that the ledger is implemented, when cancels, completes, declines and the donor's edits run by themselves and requests, accepts, the sweep and an admin's deletes overlap | 1 book, 3 requests, 2 students, 2 calls, 2 contents |
| `books_progress` | do calls end, and do reserved books come back, without a late decline | 1 book, 1 request, 2 calls, fair |
| `sessions_overlap` | rotation under any overlap, with and without a window | 3 tokens, 1 reset, 2 calls |
| `sessions_ended` | does ending a session end it, when it runs by itself | the same, fair |
| `codes` | codes with two redemptions in flight | 2 codes, 2 attempts, 2 calls |
| `documents_review` | review, storage and claiming | 1 upload, 2 files, 2 objects, 2 calls |
| `limits` | request limits and byte budgets while Redis fails and returns | 2 processes, 3 requests of 2 clients behind one address, 2 at once, 1 fault; tiers `auth`, `upload`, `refresh` |
| `desk` | accounts, departments, subjects and readers of documents | 2 users, 2 departments, 1 subject, 2 logos, 1 upload of 1 file, 2 years, 2 calls, 13 mixes |
| `promotion` | one year per rollover, and it arrives | 1 student, 2 schedules, 2 instants, 2 calls, 1 failing read, fair |
| `telegram` | linking, disconnecting and delivery | 2 users, 2 chats, 2 tokens, 3 calls, 2 failures |
| `promotion_missed` | does nobody miss a rollover "for being away": somebody does | 1 student, 1 schedule, 1 call |

*Instances beside the runs.* These configurations violate the property they name and
show the trace of a finding; each is run with the module in brackets.

| Configuration | Shows |
|---|---|
| `MCBookStuck.cfg` (`MCBookHandover`) | `ReservedComesBack`: a late decline leaves a book reserved for nobody |
| `MCBookLateWrite.cfg` (`MCBookHandover`) | `FinishedStaysFinished`: a late cancel, complete or sweep writes over a finished request |
| `MCSessionsSignedOut.cfg` (`MCRefreshSessions`) | `SignedOutIsOver`: a rotation's child is inserted after the logout |
| `MCDocumentsEmpty.cfg` (`MCDocumentReview`) | `NoEmptyUpload`: a failed upload leaves an empty row in the queue |
| `MCDocumentsUnreviewed.cfg` (`MCDocumentReview`) | `NothingPublicUnreviewed`: an approval between the files of an upload |
| `MCNoAdmin.cfg` (`MCAdminDesk`) | `SomeAdmin`: two admins demote each other |
| `MCMovedOn.cfg` (`MCAdminDesk`) | `HandedOutWasAllowed`: upload and viewer are read at two moments, neither of which allowed it |
| `MCTwoTabs.cfg` (`MCAdminDesk`) | `TypeOK`: two edits leave a language course with an audience |

*Why the bounds are enough.* Everything the handlers can disturb belongs to one
book, one family of tokens, one user's codes, one upload, one department's logo or
one student; two of them do not meet, except where a unique index makes them (two
chats, two accounts) or a second one is what may be taken for the first (two
departments in an audience, two callers behind an address). Two calls are what
each of these races needs, three for a /start that is delivered twice beside a
notice, and the sweep, time, single statements and restarts run beside them. Two
requests are a request and a rival (three where a declined student must be able to
come back after another handover); three tokens are a parent and two children, or
a chain of two rotations; two codes are an old one and a new one; two files are a
file and the last one left. Three requests pass the limits of one or two in the
instance; the tiers chosen are a pair of rules, one counted by user and one by
cookie, and one whose window outlasts a tick, so that hits expire under a block.
One fault is one outage, with or without a lost reply, or one restart. Two
schedules are a rollover and the next, or one that is called off. Ids are never
reused, so an instance stops when they are used up: that is a bound of the model
and not a state of the program, which is why the runs do not look for deadlock.
That calls do not wait for each other for ever is checked as `EveryCallEnds`
instead.

*Mixes of `desk`.* Roles with bans; bans with assignments; departments with the
subjects that keep them from being removed; subject reviews with the assignments
that allow them, and with one another and a withdrawal; the three readers with
edits, with hiding and decisions, with placements and days; a download with edits
and days; the pin with edits and with hiding; the reviewers' queue with
assignments and edits, and with assignments taken away. Left out of the list is
only what `MCMovedOn.cfg` shows to fail: a download with edits and placements.

*Symmetry* is over calls (they differ in nothing), and for books over requests,
students and contents, for the desk over users and departments, for limits over
requests and processes, for Telegram over users, chats and tokens; it is used in no
run that checks liveness. Sessions' tokens, codes, uploads, files and objects are
numbered in the order they are issued, which removes their symmetry without a
symmetry set.

*Fairness.* `BookHandover!FairSpec`: a call in flight goes on, strongly fair
because it may wait for a row lock and PostgreSQL queues those; days pass; the
cron job fires each hour; deadlocks are resolved. No call has to start.
`RefreshSessions!FairSpec`: a call in flight goes on. Both without `Restart`: a
process that is restarted again and again owes nobody an answer. Safety of
`books_overlap`, `sessions_overlap` and `codes` is checked with restarts.
`YearPromotion!FairSpec`: a call in flight goes on, what is remembered expires, and
each student comes back again and again. The last is no promise of the code but
the condition of its own: the promotion comes "on their next visit".

## 5. What the properties say

Books, any overlap: `OneActiveRequest` (two donors' decisions can never be about
two live requests), `DonatedWasReceived`, `FinishedNeverReactivated`. With
cancels, completes and declines by themselves, and everything else overlapping:
`ImplementsLedger`, under which a book's holder is the request accepted or completed
for it. With the donor's edits by themselves as well: `PromisesKept`, which puts together
that book and request agree (`ReservedMatchesAccepted`), that a listing stays as it
was asked for (`FrozenWhileAsked`), that what is finished stays finished, that a
refusal is final and that only an admin's delete drops a request. Progress:
`EveryCallEnds`, `ReservedComesBack`.

Sessions, any overlap: `RotationInOrder` (one successor outside the window, one
lineage, no alarm without a cause); with logout, reset and ban by themselves:
`EndedIsOver`, and `ReplayEndsSession`, which is liveness.

Codes: `CodeUsedOnce`, `GuessesBounded` (the cap may be passed once by every other
call in flight, no further), and with one issue at a time `OneLiveCode`.

Documents, with claims and group rejections by themselves:
`NothingPublicUnreviewed`, `OwnedOnce` (an object has one owner: a staged row, a
document or a handler that runs), `PublicFilesStored`, `RejectionStands`.

Limits, any overlap and any outage: `PassesBounded` and `BytesBounded` say what
"degraded, and still bounded" comes to, one allowance per window that was opened
anywhere; `NobodyPaysForOthers`; `EveryWindowEnds`.

Desk: `SomeAdmin` with role changes by themselves; `BannedModeratesNothing`, which
excepts assignments made to an account already banned; `LogosStored`, with updates
by themselves and fresh file names; `DecidedInScope`; `HandedOutWasAllowed` and
`ListedOpens`. `TypeOK` includes that a language course is for everyone, which is
what edits have to keep.

Promotion: `OneYearPerRollover` and `PromotionArrives`, with placements and answers
by themselves. Telegram: `TokenLinksOnce` and `OneBlipKeepsLink` under any overlap,
`DisconnectedForGood` with disconnecting by itself.

### Where the code does not do what it says
Shown by a run or by an instance beside the runs:
* `promotion_missed`: who visits for the first time between the announcement and the
  moment of a rollover is stamped with it at once and never gets it.
* `MCBookLateWrite`: cancel and complete check a request they read before they
  locked the book, and the sweep checks nothing; a donated book goes back on the
  shelf, or a book is given away that was called off.
* `MCBookStuck`: a decline that read its request before an accept committed
  leaves the book reserved for nobody, for good.
* `MCSessionsSignedOut`: the child of a rotation is inserted after the logout
  that deleted its family.
* `MCDocumentsEmpty`: a failed upload leaves an empty upload in the review queue.
* `MCDocumentsUnreviewed`: an approval between the files of an upload publishes
  those that come after it.
* `MCNoAdmin`: two admins who demote each other at once leave nobody.
* `MCMovedOn`: a narrowed audience and a moved student, between the two reads of a
  download.
* `MCTwoTabs`: an audience settled by a department that was read earlier.

`PROJECT.json` lists further ones that were met while reading, each with the comment
or document it disagrees with.

## 6. Proofs

All theorems are about `Spec` of the module (or the specification they name), for
every value of its constants. Where a property holds only while certain handlers
do not overlap, that is a hypothesis of the theorem, about the constants `Alone`,
`Mixes` or `EditsOverlap`, and the run that checks the property satisfies it:

| Theorem | Hypothesis | What happens without it |
|---|---|---|
| `BookHandover_proofs!ReservedMeansAccepted` | `DeskAlone`: `cancel`, `complete`, `decline` by themselves | a late decline writes over an acceptance and leaves the book reserved for nobody (`MCBookStuck.cfg`) |
| `BookHandover_proofs!DeskImplementsLedger` | `DeskAlone` | a book that was given away goes back on the shelf (`MCBookLateWrite.cfg`) |
| `BookHandover_proofs!PromisesHold` | `DeskAlone`, and `EditsAlone`: `update`, `remove` by themselves | an edit or a removal counts the requests, one is filed, and the edit changes or drops what was asked for |
| `EmailCodes_proofs!OneCodeAtATime` | `issue` runs by itself | two issues consume, then both store: two live codes |
| `TelegramLink_proofs!DisconnectedStays` | `unlink` runs by itself | a /start between its two statements links again |
| `RefreshSessions_proofs!EndedForGood` | `EndsAlone`: `logout`, `reset`, `ban` by themselves; no restart | `MCSessionsSignedOut.cfg` |
| `DocumentReview_proofs!RejectionsStand` | `reject` runs by itself | an approval read before the rejection is written after it |
| `DocumentReview_proofs!ReviewedFirst` | `ClaimsAlone`: `upload`, `add` by themselves | `MCDocumentsUnreviewed.cfg` |
| `DocumentReview_proofs!ObjectsOwned` | `ClaimsAlone` | a deletion lists the objects, the last file is saved, the deletion takes its row |
| `DocumentReview_proofs!PublicStored` | `ClaimsAlone` | an object between its row and its unstaging is discarded under the document |
| `YearPromotion_proofs!OneYearEach` | `PlacedAlone`: `place`, `updateMe` by themselves | a visit in flight advances from the year that was corrected |
| `AdminDesk_proofs!SomebodyIsInCharge` | `role` runs by itself | `MCNoAdmin.cfg` |
| `AdminDesk_proofs!TypeCorrect` | `~EditsOverlap`: one edit of an upload at a time | `MCTwoTabs.cfg` |
| `AdminDesk_proofs!LogosAreStored` | `updateDept` by itself, `FreshNames` | an update puts back a logo another one deleted |
| `AdminDesk_proofs!HandedOutAllowed` | `KeptApart` (below) | `MCMovedOn.cfg` |

Every other theorem holds under any overlap.

### Books

`BookHandover_proofs` proves, for any number of books, requests, users and calls,
any `Alone` and any donors, from `BooksAssumption` (the last three under the
hypotheses above):

| Theorem | Statement |
|---|---|
| `TypeCorrect` | `Spec => []TypeOK` |
| `BookHasOneRequest` | `Spec => []OneActiveRequest` |
| `DonatedMeansReceived` | `Spec => []DonatedWasReceived` |
| `ReservedMeansPromised` | `Spec => []ReservedWasPromised` |
| `FinishedIsFinal` | `Spec => FinishedNeverReactivated` |
| `ReservedMeansAccepted` | `DeskAlone => (Spec => []ReservedMatchesAccepted)` |
| `PromisesHold` | `DeskAlone /\ EditsAlone => (Spec => PromisesKept)` |
| `DeskImplementsLedger` | `DeskAlone => (Spec => ImplementsLedger)` |

The argument for the first five is one inductive invariant, `IInv`. None of its state
properties is inductive by itself, because a handler acts on what it read:
* `RowOK`: a request that is in use points at a book that exists, and its
  timestamps agree with its status.
* `LockInv`: two calls never hold the same book.
* `CallOK`, one conjunct per position a call can be in: what a complete is about
  was accepted and what a cancel is about was asked for, it belongs to the book
  that is locked, and, the heart of it, `AcceptReady`: an accept between its read and
  its commit holds the only request of that book that can be active. The lock
  keeps other accepts, inserts, cancels and completes away, and a decline can
  only weaken it.
* `SweepInv`: what is on the sweep's list was accepted, and the one in hand is
  not deleted, since a delete waits for it.

`InitInv` and `NextInv` say that `IInv` is inductive. `NextInv` has one lemma per
handler; the lemmas before them say once what moving a call, setting a status or
deleting a book keeps. `FinishedIsFinal` follows from `IInv` and one look at each
step that writes a status.

The last three need a second invariant, `DeskInv`, which TLC checked on four small
instances, the largest of 1.6 million states, before it was proved:
* `AloneInv`: an operation of `Alone` has the desk to itself. It is what makes a
  handler's read good until it writes, where the code itself does not compare again.
* `ReservedMatchesAccepted`, the promise itself: a book is reserved exactly while one
  request on it is accepted.
* `GivenInv`: a donated book has one completed request and nobody waiting.
* `ReadsInv`: what each call read of its request still stands at the position it is in.
* `ListInv`: what the sweep listed is still accepted, or deleted. It needs no lock
  for that, because only a cancel, a complete or a late decline could change it.

For `PromisesHold`, `EditInv` adds that an edit or a removal past its count is of a
listed book nobody waits for. Each of the five operations is needed: without any one
of them TLC finds a counterexample with one book, three requests and two calls.
Nothing is asked of requests, accepts, the sweep or an admin's deletes.

`StepKinds` says that every step of every handler is one of a few as far as the
tables go: no status changes or a book is listed (`Quiet`), a request is inserted
(`Filed`), an accept, decline, cancel, complete or expiry commits (`Answered`), or a
book and its requests are deleted (`Withdrawn`). The invariants, the promises and
the refinement look at those four only. For the
refinement, `AnswerIsMove` and `DeleteIsWithdraw` say which move of `BookLedger`
each is: the holder of a book, which the mapping chooses, is unique by
`ReservedMatchesAccepted` and `GivenInv`, so the choice is that request; the rest
stutters.

### Emailed codes

`EmailCodes_proofs` proves, for any number of codes, users and calls and any cap,
from `CodesAssumption` alone:

| Theorem | Statement |
|---|---|
| `TypeCorrect` | `Spec => []TypeOK` |
| `OneHandlerPerCode` | `Spec => []CodeUsedOnce` |
| `AttemptsAreBounded` | `Spec => []GuessesBounded` |
| `OneCodeAtATime` | `"issue" \in Alone => (Spec => []OneLiveCode)` |

* `SpendInv` carries the first. That `effects` stays at one is not inductive,
  since a handler acts a step after its claim. So a code's one effect is in one of
  three places: still to be had (the code is live or unused, and nobody is acting
  on it), in the hands of exactly one handler, or taken. `RedeemClaim` is the only
  way from the first to the second, and it needs the row to be live when it writes.
* `GuessInv` carries the second. A handler reads `attempts`, compares and counts
  in three steps, so it may count a guess after the cap was reached. What never
  grows past the bound is `attempts` plus the handlers between the read and the
  count: one that passes the read finds `attempts` under the cap, and there are at
  most as many others as calls less one.
* `LiveInv` carries the last: an issue that is about to store its code has
  consumed the live ones of that purpose, and nothing puts one back. Without
  `Alone` two issues consume first and store afterwards, and both codes live.

### Telegram

`TelegramLink_proofs` proves, for any number of users, chats, tokens and calls and
any number of failures, from `TelegramAssumption` alone:

| Theorem | Statement |
|---|---|
| `TypeCorrect` | `Spec => []TypeOK`, with that a chat is one account's at most |
| `OneLinkPerToken` | `Spec => []TokenLinksOnce` |
| `BlipForgiven` | `Spec => OneBlipKeepsLink` |
| `DisconnectedStays` | `"unlink" \in Alone => (Spec => DisconnectedForGood)` |

* `TokenInv` and `HolderInv` carry the second: a token that can be spent has linked
  nothing, and a spent one that has not linked is in the hands of one handler,
  because the update that spends it is conditional.
* `CallOK` carries the third: a delivery that got as far as the probe met one failure
  or a chat that was really blocked, and one that got past it two.
* `LoneInv` carries the last: a token there was when its user disconnected is spent,
  and no handler is about to link with it. That needs the handlers between the
  spending and the link to be gone when `unlink()` spends the rest, which is what
  `Alone` says and the code does not see to.

### Sessions

`RefreshSessions_proofs` proves, for any number of tokens, users, calls and resets
and any setting of the window, from `SessionsAssumption` alone:

| Theorem | Statement |
|---|---|
| `TypeCorrect` | `Spec => []TypeOK` |
| `RotationCorrect` | `Spec => []RotationInOrder` |
| `EndedForGood` | `EndsAlone => (RunningSpec => []EndedIsOver)` |

* `TokenInv` (`RowOK`): a token's family and parent are issued tokens of the same user,
  and its parent is of the same family; what deletes rows leaves that standing, since
  a deleted row keeps its family and user.
* `CallInv` (`CallOK`): what a refresh holds is what its row says; in particular a
  refresh that is about to raise the alarm has a cause.
* `WinnerInv` is why a token without a window has one successor: whoever is between
  the claim and the insert is the token's winner, a winner's token is not live and
  has no child yet, and no token has two winners. The claim is conditional on the row
  being live, so only it makes winners.
* `EndInv` carries the last: a call between reading a session and inserting its
  token goes by the password in force, an account that is not banned and a family
  nothing was revoked of. That survives the others' steps because none of the three
  that end a session overlaps it.

### Year promotion

`YearPromotion_proofs` proves, for any students, processes, schedules and calls, from
`PromotionAssumption`:

| Theorem | Statement |
|---|---|
| `TypeCorrect` | `Spec => []TypeOK` |
| `OneYearEach` | `PlacedAlone => (Spec => []OneYearPerRollover)` |

Both the rows and what visits have read of them are inside one bound: the year is at
most the one a person last set plus the number of announced instants that were reached
after the stamp of that year and up to the row's own stamp (`RowOK`). A visit that
read a row others have advanced since writes a year that was right for the stamp it
writes with it (`PendingOK`), so that a stale write can lose a year and never gain
one. The cardinality of the instants between two stamps is what the step of the
invariant adds one to. The assumption names that `None` is no programme, year or
instant.

### Limits

`Limits_proofs` proves, for any processes, requests, clients, limits, windows, budgets
and faults, from the assumptions of `SharedCounters`, `Throttle`, `UploadQuota` and
`Limits`, among them that the requests are finitely many:

| Theorem | Statement |
|---|---|
| `TypeCorrect` | `Spec => []TypeOK` |
| `WindowsEnd` | `Spec => []EveryWindowEnds` |
| `EveryoneForHimself` | `Spec => []NobodyPaysForOthers` |
| `LimitsHold` | `Spec => []PassesBounded` |
| `BytesHold` | `Spec => []BytesBounded` |

* `KeyInv`: a key that is there has ticks left and one that is not counts nothing.
* Every step is a `QuietStep`, after which no store counts more than before, or a
  `CountStep(s, r)`, in which store `s` counts request `r`. All that follows looks at
  those two kinds only.
* `CountInv`: a store has counted at most the requests that went through it
  (`CountedIn`), and has blocked or refused only after more of them than the limit. As
  those are requests with the caller's own key, nobody is refused for others.
* `SeatInv` carries the last: there is an injection of the requests a rule let through
  into windows times places of a window, and the places of the window that is open
  are those its counter has passed. A hit takes the next place, a new window a new
  row. The bound is then the size of the codomain, and it does not matter which store
  opened the window.
* `BudgetInv` carries the bytes. That a user's bytes are bounded is not inductive: an
  upload is admitted by what the window has left, which the bound does not speak of.
  What is kept is the bytes he was charged and has not had back (`ChargedBytes`) with
  what his open windows still have to give (`SpareBytes`): together they are at most
  a budget for each window opened and what was handed back twice. A charge takes from
  the second what it adds to the first, a refund puts back at most what it took, a new
  window brings a budget of its own, and a refund whose reply was lost is what `twice`
  counts. Bytes are counted as a set of (request, number) pairs and not as a sum, since
  what a sum over a set of requests comes to needs an induction over data.

### Documents and their review

`DocumentReview_proofs` proves, for any uploads, files, objects and calls, from
`DocumentsAssumption`:

| Theorem | Statement |
|---|---|
| `TypeCorrect` | `Spec => []TypeOK` |
| `RejectionsStand` | `"reject" \in Alone => (Spec => RejectionStands)` |
| `ReviewedFirst` | `ClaimsAlone => (Spec => []NothingPublicUnreviewed)` |
| `ObjectsOwned` | `ClaimsAlone => (Spec => []OwnedOnce)` |
| `PublicStored` | `ClaimsAlone => (Spec => []PublicFilesStored)` |

* `TypeInv` adds to `TypeOK` what operation a handler can be at each position
  (`CallOK`), and that a document has an upload and an object (`RowOK`).
* `AloneInv`: while an operation of `Alone` runs, nothing else does.
* `ApproveInv`: an approval about to be written is for an upload that is not rejected,
  because a rejection cannot come between its read and its write.
* `ReviewInv`: a file that is shown without a decision belongs to an upload that is not
  approved. A handler that adds files went by the upload's status, and the status is
  still that when it writes.
* `OwnInv` is the long one. `HandOK` says what each handler may go by at each position:
  what it swept is no document's, what it stored is nobody else's, what it listed for
  removal is exactly the objects of its file or upload. `DocInv`, `StoredInv` and
  `OwnerInv` then say that an object is one document's, that what is staged or a
  document is in storage but for the handler that has just taken it out, and that
  what is in storage has an owner. TLC checked all of them on the instance of
  `MCDocuments.cfg` first.
* The argument is by who acts. `Considerate` is what a step does to objects the others
  hold: it takes out only what its own handler holds, and turns to nothing that
  another one stored. Every step but those that make documents is considerate and makes no
  document (`OnlyOld`), so the others keep what they go by (`OthersKept`). The two that
  do (`InsertOwns`) run while everybody else is idle, by `ClaimsAlone`. Each
  inserts one row per object: rows exist for all of them because the table has room
  (`SmallerInjects`).

### Desk

`AdminDesk_proofs` proves, for any users, departments, subjects, files, calls and
mixes, from `CallsAssumption` and the other named assumptions:

| Theorem | Statement |
|---|---|
| `TypeCorrect` | `~EditsOverlap => (Spec => []TypeOK)` |
| `SomebodyIsInCharge` | `"role" \in Alone => (Spec => []SomeAdmin)` |
| `BannedAreStripped` | `Spec => []BannedModeratesNothing` |
| `DecisionsInScope` | `Spec => DecidedInScope` |
| `LogosAreStored` | `FreshNames /\ "updateDept" \in Alone => (Spec => []LogosStored)` |
| `RulesAgree` | `Spec => []ListedOpens` |
| `HandedOutAllowed` | `KeptApart => (Spec => []HandedOutWasAllowed)` |

* `TypeInv` and `SeenInv` hold under any overlap; only that a language course is for
  everyone needs edits kept apart.
* The first lemmas say what a step does to the calls, once for all handlers:
  somebody arrives with a request that is `Fresh`, or one call goes on (`Moved`) or
  ends (`Ended`) (`CallSteps`), and whose step it was (`OwnStep`).
* `RoleInv`: a role request past the guard is an admin's who is not banned and who
  does not demote himself, so he is still there after it; whom a ban is about to be put
  on is no admin.
* `DecInv`: a subject somebody is submitting is nobody else's, and a reviewer about to
  write holds the department the row has, or an admin's word. The department of a
  row never changes, which is why a guard's answer stays good.
* `LogoInv`: shown logos are stored and no two departments show the same one; a logo
  that is stored and belongs to no row yet is one call's alone (`HeldOK`); a logo about
  to be cleaned up is shown by nobody (`OldOK`).
* `ListsAgree` is a lemma about the operators, for every row, file, viewer and place:
  `Visible` (SQL), `CanView` and `CanViewFiles` let the same people through.
* `HandInv`: what a reader read at its first statement was allowed then, or is by the
  second. `KeptApart` is needed because the code judges by an upload read first and a
  viewer, or a reviewer's departments, read at another moment: in every mix, placements
  are kept apart from edits, hiding and decisions; and where the queue is read while
  uploads are edited, nobody loses a department. The mixes of `desk` satisfy it.

### What is only model-checked

Liveness: `EveryCallEnds` and `ReservedComesBack` (books), `ReplayEndsSession`
(sessions), `PromotionArrives` (year promotion). They rest on fairness and so on
`ENABLED`, which is out of the prover's reach. Every invariant and every action
property that a passing run checks, and the refinement, is a theorem as well.

`ReservedMeansPromised` is a theorem about a property no run lists: that a reserved
book was promised follows from the proof, for every instance and every overlap.

## 7. Not modelled
* Developer alerts: `queue()` is one synchronous function over its process's memory.
  Nothing interleaves with it, and calls at chosen times test it.
* Reads: search and statistics change nothing. What a reader is shown is in
  `DocumentAccess` and in `Public` of `DocumentReview`, where a property is about it.
* Names, semesters, covers of books and other data that no property tells apart,
  with the operations that write nothing else (`updateOwn`, `editSubject`, most of
  `updateMe`).
* Formats and I/O: file signatures, scanning, conversion, image processing,
  mail, signing of URLs, logging. Their verdict, where it changes control, is a
  choice.
* Several servers at once are covered as far as the database goes, since a call
  does not say which process it runs in, except in `Limits` and `YearPromotion`,
  where it does; a restart stops all of them, in `Limits` one.
* Crashes between two stores in documents, and preview renditions: the code has no
  recovery for the former, so every property about two stores fails; listed as
  findings.

## 8. Plan
Done: books with their ledger; sessions; codes; documents and who may see them;
limits; accounts, departments and subjects; year promotion; Telegram; proofs for
all of them.

Next, in this order:
1. Documents: previews as second objects; an abstract review cycle that
   `DocumentReview` implements.
2. `DevAlerts`, if `queue()` ever comes to await anything.
