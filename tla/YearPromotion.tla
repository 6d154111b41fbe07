---------------------------- MODULE YearPromotion ----------------------------
(***************************************************************************)
(* How students move up a year: the schedule an admin sets and each process *)
(* caches (promotion-settings.service.ts), the promotion a student collects *)
(* on a visit and the answer to its prompt (users.service.ts), and the      *)
(* placement an admin corrects (admin.service.ts).                          *)
(*                                                                          *)
(* Instants are small numbers, and the cache may expire at any moment: its  *)
(* ten seconds are not related to them.                                     *)
(***************************************************************************)
EXTENDS Integers, FiniteSets

CONSTANTS
    Students,
    Processes,    \* of the server, each with a cache of the schedule
    Calls,        \* slots for handlers in flight
    Departments,  \* with years 3 to 5; "TC" is the foundation programme
    Horizon,      \* bound on the clock and on the instants scheduled
    MaxSchedules, \* bound on how often a schedule is set
    MaxFaults,    \* bound on failing reads of the schedule
    Choices,      \* what is chosen: pairs of a programme and a year, or None
    Alone,        \* operations that never overlap another one in this instance
    None

Ops == {"getMe", "updateMe", "place", "schedule"}

VARIABLES
    student,   \* the rows: programme, year, promoted_rollover_at
    rollover,  \* app_settings: the instant scheduled, or None
    cached,    \* per process: the answer remembered, or nothing
    call,      \* the handlers in flight
    asked,     \* whose client was told to ask for a department
    now,
    placed,    \* history: year and stamp when the year was last set by a person
    announced, \* history: the instants that were scheduled
    sets, faults   \* how many there were

data == <<student, placed>>
server == <<rollover, announced, sets>>
vars == <<data, server, cached, call, asked, now, faults>>

Programmes == {"TC"} \cup Departments
Years(programme) == IF programme = "TC" THEN {1, 2} ELSE {3, 4, 5}
AnyYear == 1 .. 5
Instants == 1 .. Horizon
Maybe(S) == S \cup {None}

ASSUME PromotionAssumption ==
    /\ Horizon \in Nat /\ MaxSchedules \in Nat /\ MaxFaults \in Nat
    /\ "TC" \notin Departments
    /\ Choices \subseteq Maybe(Programmes) \X Maybe(AnyYear)
    /\ None \notin Programmes /\ None \notin AnyYear \cup Instants
    /\ Alone \subseteq Ops

StudentRow == [programme : Maybe(Programmes), year : Maybe(AnyYear),
               stamp : Maybe(Instants)]
NotCached == [on |-> FALSE, at |-> None]
CallRecord == [op : Ops \cup {"none"},
               at : {"idle", "user", "ask", "fill", "write", "clear", "again",
                     "refill"},
               process : Processes \cup {None}, student : Students \cup {None},
               row : StudentRow, value : Maybe(Instants)]
NoRow == [programme |-> None, year |-> None, stamp |-> None]
IdleCall == [op |-> "none", at |-> "idle", process |-> None, student |-> None,
             row |-> NoRow, value |-> None]

\* A row is never stamped without an instant having been scheduled.
TypeOK ==
    /\ student \in [Students -> StudentRow]
    /\ rollover \in Maybe(announced)
    /\ cached \in [Processes -> [on : BOOLEAN, at : Maybe(announced)]]
    /\ call \in [Calls -> CallRecord]
    /\ asked \in SUBSET Students
    /\ now \in 0 .. Horizon
    /\ announced \in SUBSET Instants
    /\ \A s \in Students : student[s].stamp \in Maybe(announced)
    /\ sets \in 0 .. MaxSchedules /\ faults \in 0 .. MaxFaults

\* Students who registered and have placed themselves, or have not yet.
Init ==
    /\ student \in [Students -> {NoRow} \cup
                     {[programme |-> "TC", year |-> y, stamp |-> None] : y \in {1, 2}}]
    /\ placed = student
    /\ rollover = None /\ announced = {}
    /\ cached = [p \in Processes |-> NotCached]
    /\ call = [c \in Calls |-> IdleCall]
    /\ asked = {} /\ now = 0 /\ sets = 0 /\ faults = 0

-----------------------------------------------------------------------------
(* promotion.ts                                                             *)

Before(stamp, at) == IF stamp = None THEN TRUE ELSE stamp < at

IsRolloverDue(at, stamp) ==
    at # None /\ at <= now /\ Before(stamp, at)

NeedsDepartmentChoice(row) == row.programme = "TC" /\ row.year = 2

\* Bug: nothing ends at the last year.
AdvanceYearOn(row) == row.year + 1

\* One year on, up to the last one of the programme; a row without a programme
\* counts as a department's.
AdvanceYear(row) ==
    LET highest == IF row.programme = "TC" THEN 2 ELSE 5
    IN  IF row.year < highest THEN row.year + 1 ELSE highest

\* What a due rollover changes by itself.
Promotes(row, at) == IsRolloverDue(at, row.stamp) /\ ~NeedsDepartmentChoice(row)

-----------------------------------------------------------------------------
(* Handlers.                                                                *)

Busy(c) == call[c].at # "idle"
At(c, op, at) == call[c].op = op /\ call[c].at = at

\* An operation of Alone starts when nothing else runs and keeps others out.
Start(c, op, at, process, s) ==
    /\ ~Busy(c)
    /\ op \in Alone => \A d \in Calls : ~Busy(d)
    /\ \A d \in Calls : call[d].op \notin Alone
    /\ call' = [call EXCEPT ![c] = [IdleCall EXCEPT !.op = op, !.at = at,
                                       !.process = process, !.student = s]]
    /\ UNCHANGED <<data, server, cached, asked, now, faults>>
Goto(c, at) == call' = [call EXCEPT ![c].at = at]
Finish(c) == call' = [call EXCEPT ![c] = IdleCall]

\* rolloverAt(): what is remembered, or a read of the table whose answer is
\* remembered when it arrives.  A read that fails says nothing is scheduled.
RecallSchedule(c) ==
    LET memory == cached[call[c].process]
    IN  /\ call[c].at = "ask" /\ memory.on
        /\ call' = [call EXCEPT ![c].value = memory.at, ![c].at = "write"]
        /\ UNCHANGED <<data, server, cached, asked, now, faults>>

ReadSchedule(c, value) ==
    /\ call[c].at \in {"ask", "again"}
    /\ ~cached[call[c].process].on
    /\ \/ value = rollover /\ UNCHANGED faults
       \/ value = None /\ faults < MaxFaults /\ faults' = faults + 1
    /\ call' = [call EXCEPT ![c].value = value,
                            ![c].at = IF @ = "ask" THEN "fill" ELSE "refill"]
    /\ UNCHANGED <<data, server, cached, asked, now>>

Remember(c) ==
    cached' = [cached EXCEPT ![call[c].process] = [on |-> TRUE, at |-> call[c].value]]

FillCache(c) ==
    /\ call[c].at = "fill"
    /\ Remember(c)
    /\ Goto(c, "write")
    /\ UNCHANGED <<data, server, asked, now, faults>>

\* Bug: an answer that nothing is scheduled is kept until it is overwritten.
CacheKeepsNothing(p) ==
    /\ cached[p].on /\ cached[p].at # None
    /\ cached' = [cached EXCEPT ![p] = NotCached]
    /\ UNCHANGED <<data, server, call, asked, now, faults>>

CacheExpires(p) ==
    /\ cached[p].on
    /\ cached' = [cached EXCEPT ![p] = NotCached]
    /\ UNCHANGED <<data, server, call, asked, now, faults>>

-----------------------------------------------------------------------------
(* getMe(): the row is read, the schedule asked for, what is owed applied,  *)
(* and the schedule asked for again for the answer.                         *)

GetMe(c, p, s) == Start(c, "getMe", "user", p, s)

ReadUser(c) ==
    /\ call[c].at = "user"
    /\ call' = [call EXCEPT ![c].at = "ask", ![c].row = student[call[c].student]]
    /\ UNCHANGED <<data, server, cached, asked, now, faults>>

\* Who has no stamp gets that of a schedule that was not reached yet; whom a due
\* rollover moves gets its stamp, and a year more if he has one.
Applied(row, at) ==
    IF Promotes(row, at)
    THEN [row EXCEPT !.stamp = at,
                     !.year = IF row.year = None THEN None ELSE AdvanceYear(row)]
    ELSE IF row.stamp = None /\ ~IsRolloverDue(at, row.stamp)
         THEN [row EXCEPT !.stamp = at]
         ELSE row

Apply(c, new, year) ==
    LET s == call[c].student
    IN  /\ At(c, "getMe", "write")
        /\ student' = [student EXCEPT ![s].year = year,
              ![s].stamp = IF new.stamp = call[c].row.stamp THEN @ ELSE new.stamp]
        /\ call' = [call EXCEPT ![c].at = "again", ![c].row = new]
        /\ UNCHANGED <<placed, server, cached, asked, now, faults>>

\* Bug: the year in the table is advanced instead of the one that was read.
ApplyToTable(c) ==
    LET row == student[call[c].student]
        new == Applied(call[c].row, call[c].value)
    IN  Apply(c, new, IF Promotes(call[c].row, call[c].value) /\ row.year # None
                      THEN AdvanceYear(row) ELSE row.year)

\* UPDATE by columns: what was not to change keeps what others wrote.
ApplyPending(c) ==
    LET new == Applied(call[c].row, call[c].value)
    IN  Apply(c, new, IF Promotes(call[c].row, call[c].value) /\ new.year # None
                      THEN new.year ELSE student[call[c].student].year)

\* The flag in the answer, by which the client asks for a department.
Answer(c, value) ==
    LET s == call[c].student
        asks == /\ NeedsDepartmentChoice(call[c].row)
                /\ IsRolloverDue(value, call[c].row.stamp)
    IN  /\ asked' = IF asks THEN asked \cup {s} ELSE asked \ {s}
        /\ Finish(c)
        /\ UNCHANGED <<data, server, now, faults>>

AnswerRecalled(c) ==
    LET memory == cached[call[c].process]
    IN  /\ call[c].at = "again" /\ memory.on
        /\ Answer(c, memory.at)
        /\ UNCHANGED cached

AnswerRead(c) ==
    /\ call[c].at = "refill"
    /\ Answer(c, call[c].value)
    /\ Remember(c)

-----------------------------------------------------------------------------
(* updateMe(), as far as department and year go, and setUserPlacement().    *)

UpdateMe(c, p, s) == Start(c, "updateMe", "user", p, s)

Write(s, row) ==
    /\ student' = [student EXCEPT ![s] = row]
    /\ placed' = [placed EXCEPT ![s] = row]

\* Allowed to who is not placed yet or owes an answer; a department and a year
\* are not compared.  The answer to a request is that of a getMe().
UpdateMeWrite(c, programme, year) ==
    LET s == call[c].student
        row == call[c].row
        due == NeedsDepartmentChoice(row) /\ IsRolloverDue(call[c].value, row.stamp)
    IN  /\ At(c, "updateMe", "write")
        /\ None \in {row.programme, row.year} \/ due
        /\ Write(s, [programme |-> IF programme = None THEN student[s].programme
                                   ELSE programme,
                     year |-> IF year = None THEN student[s].year ELSE year,
                     stamp |-> IF due /\ programme \notin {None, row.programme}
                               THEN call[c].value ELSE student[s].stamp])
        /\ call' = [call EXCEPT ![c] = [IdleCall EXCEPT !.op = "getMe", !.at = "user",
                                          !.process = call[c].process, !.student = s]]
        /\ UNCHANGED <<server, cached, asked, now, faults>>

UpdateMeRefused(c) ==
    LET row == call[c].row
    IN  /\ At(c, "updateMe", "write")
        /\ None \notin {row.programme, row.year}
        /\ ~(NeedsDepartmentChoice(row) /\ IsRolloverDue(call[c].value, row.stamp))
        /\ Finish(c)
        /\ UNCHANGED <<data, server, cached, asked, now, faults>>

Place(c, p, s) == Start(c, "place", "ask", p, s)

\* The stamp is that of the schedule, be it reached or not.
PlaceWrite(c, programme, year) ==
    /\ At(c, "place", "write")
    /\ programme \in Programmes /\ year \in Years(programme)
    /\ Write(call[c].student, [programme |-> programme, year |-> year,
                               stamp |-> call[c].value])
    /\ Finish(c)
    /\ UNCHANGED <<server, cached, asked, now, faults>>

-----------------------------------------------------------------------------
(* set(): the row is saved, then the cache of this process is dropped.      *)

Schedule(c, p) ==
    /\ sets < MaxSchedules
    /\ Start(c, "schedule", "write", p, None)

ScheduleSave(c, at) ==
    /\ At(c, "schedule", "write") /\ sets < MaxSchedules
    /\ rollover' = at
    /\ announced' = announced \cup ({at} \ {None})
    /\ sets' = sets + 1
    /\ Goto(c, "clear")
    /\ UNCHANGED <<data, cached, asked, now, faults>>

ScheduleClear(c) ==
    /\ At(c, "schedule", "clear")
    /\ cached' = [cached EXCEPT ![call[c].process] = NotCached]
    /\ Finish(c)
    /\ UNCHANGED <<data, server, asked, now, faults>>

Tick ==
    /\ now < Horizon
    /\ now' = now + 1
    /\ UNCHANGED <<data, server, cached, call, asked, faults>>

-----------------------------------------------------------------------------

Step(c) ==
    \/ ReadUser(c) \/ RecallSchedule(c) \/ FillCache(c)
    \/ \E at \in Maybe(Instants) : ReadSchedule(c, at) \/ ScheduleSave(c, at)
    \/ ApplyPending(c) \/ AnswerRecalled(c) \/ AnswerRead(c)
    \/ \E choice \in Choices :
          \/ UpdateMeWrite(c, choice[1], choice[2])
          \/ PlaceWrite(c, choice[1], choice[2])
    \/ UpdateMeRefused(c) \/ ScheduleClear(c)

Next ==
    \/ \E c \in Calls, p \in Processes :
          \/ \E s \in Students : GetMe(c, p, s) \/ UpdateMe(c, p, s) \/ Place(c, p, s)
          \/ Schedule(c, p)
    \/ \E c \in Calls : Step(c)
    \/ \E p \in Processes : CacheExpires(p)
    \/ Tick

Spec == Init /\ [][Next]_vars

\* Handlers go on and what is remembered expires.  That a student comes back
\* some day is not the code's to grant: PromotionArrives is about who does.
Visits(s) == \E c \in Calls, p \in Processes : GetMe(c, p, s)
FairSpec ==
    /\ Spec
    /\ \A c \in Calls : WF_vars(Step(c))
    /\ \A p \in Processes : WF_vars(CacheExpires(p))
    /\ \A s \in Students : SF_vars(Visits(s))

-----------------------------------------------------------------------------
(* Properties.                                                              *)

\* Whatever visits, schedules, stale caches and failures overlap, a rollover
\* moves a student on by one year at most: since a person last set the year, he
\* has advanced by no more years than there were rollovers up to his stamp.
\* Checked where placements and answers run by themselves (users.service.ts).
OneYearPerRollover ==
    \A s \in Students :
       LET had == {t \in announced : /\ student[s].stamp # None /\ t <= student[s].stamp
                                     /\ Before(placed[s].stamp, t)}
       IN  student[s].year # None
           => student[s].year <= placed[s].year + Cardinality(had)

\* A student who is owed a rollover and keeps coming back is stamped with it or
\* asked for a department, unless it is called off: no answer that a read of the
\* schedule left in a cache, after set() had cleared it, stays there for good.
Owed(s) == IsRolloverDue(rollover, student[s].stamp)
PromotionArrives == \A s \in Students : Owed(s) ~> ~Owed(s) \/ s \in asked

\* "Students advance lazily, on their next visit after the moment passes"
\* (admin.controller.ts): no student is marked as moved by a rollover to come.
\* A first visit between the two does that (users.service.ts).
StampedOncePassed ==
    \A s \in Students : student[s].stamp # None => student[s].stamp <= now
=============================================================================
