------------------------ MODULE YearPromotion_proofs ------------------------
(***************************************************************************)
(* Proofs about YearPromotion for every number of students, processes and   *)
(* handlers in flight, and every bound on instants, schedules and faults.   *)
(***************************************************************************)
EXTENDS YearPromotion, FiniteSetTheorems, TLAPS

USE PromotionAssumption

-----------------------------------------------------------------------------
(* The inductive invariant.                                                 *)

\* What a handler holds, by its operation and the position it is in; an instant
\* it goes by was scheduled at some time, if not any more.
CallOK(r, known) ==
    /\ r.op = "none" => r.at = "idle"
    /\ r.op \in {"getMe", "updateMe", "place"} =>
          r.process \in Processes /\ r.student \in Students
    /\ r.op = "getMe" => r.at \in {"user", "ask", "fill", "write", "again", "refill"}
    /\ r.op = "updateMe" => r.at \in {"user", "ask", "fill", "write"}
    /\ r.op = "place" => r.at \in {"ask", "fill", "write"}
    /\ r.op = "schedule" => r.at \in {"write", "clear"} /\ r.process \in Processes
    /\ r.value \in Maybe(known)

CallInv == \A c \in Calls : CallOK(call[c], announced)

IInv == TypeOK /\ CallInv

\* A handler of Alone has the server to itself.
AloneInv ==
    \A c, d \in Calls : call[c].op \in Alone /\ Busy(d) => c = d

\* The rollovers a year may come from: those that were reached, after the stamp
\* the year was set with and up to the one given.
Reached(known, time, since, stamp) ==
    {t \in known : t <= time /\ stamp # None /\ t <= stamp /\ Before(since, t)}

\* A row that may be advanced from, or be written, while a person's last word on
\* it is p.
RowOK(row, p, known, time) ==
    /\ row.year = None <=> p.year = None
    /\ p.stamp # None => row.stamp # None /\ p.stamp <= row.stamp
    /\ row.year # None =>
          row.year <= p.year + Cardinality(Reached(known, time, p.stamp, row.stamp))

\* A visit between its read of the row and its write is as good as the row was.
PendingOK(r) ==
    r.op = "getMe" /\ r.at \in {"ask", "fill", "write"} =>
       RowOK(r.row, placed[r.student], announced, now)

YearInv ==
    /\ IInv
    /\ AloneInv
    /\ placed \in [Students -> StudentRow]
    /\ \A s \in Students : RowOK(student[s], placed[s], announced, now)
    /\ \A c \in Calls : PendingOK(call[c])

-----------------------------------------------------------------------------
(* Types, and what a handler holds.                                         *)

LEMMA IdleOK == IdleCall \in CallRecord /\ \A known : CallOK(IdleCall, known)
  BY DEF IdleCall, CallRecord, NoRow, StudentRow, Maybe, CallOK

LEMMA InitInv == Init => IInv
<1> SUFFICES ASSUME Init PROVE IInv
  OBVIOUS
<1>1. student \in [Students -> StudentRow]
  <2>1. NoRow \in StudentRow
    BY DEF NoRow, StudentRow, Maybe
  <2>2. \A y \in {1, 2} : [programme |-> "TC", year |-> y, stamp |-> None] \in StudentRow
    BY DEF StudentRow, Maybe, Programmes, AnyYear
  <2>3. QED
    BY <2>1, <2>2 DEF Init
<1>2. \A s \in Students : student[s].stamp = None
  BY DEF Init, NoRow
<1>3. TypeOK
  BY <1>1, <1>2, IdleOK DEF Init, TypeOK, NotCached, Maybe
<1>4. CallInv
  BY IdleOK DEF Init, CallInv
<1>5. QED
  BY <1>3, <1>4 DEF IInv

\* One call changes, to one that fits where it has got to, and what was
\* scheduled is remembered for ever.
LEMMA CallKept ==
  ASSUME IInv, NEW c \in Calls, NEW r \in CallRecord, CallOK(r, announced'),
         announced \subseteq announced',
         call' = [call EXCEPT ![c] = r]
  PROVE  /\ call' \in [Calls -> CallRecord] /\ CallInv'
         /\ call'[c] = r
         /\ \A d \in Calls : d # c => call'[d] = call[d]
  BY DEF IInv, TypeOK, CallInv, CallOK, Maybe

LEMMA FinishKept ==
  ASSUME IInv, NEW c \in Calls, Finish(c), announced' = announced
  PROVE  /\ call' \in [Calls -> CallRecord] /\ CallInv'
         /\ call'[c] = IdleCall
         /\ \A d \in Calls : d # c => call'[d] = call[d]
  BY IdleOK, CallKept DEF Finish

\* What is known of a handler that is about to take a step.
LEMMA CallHolds ==
  ASSUME IInv, NEW c \in Calls
  PROVE  /\ call[c] \in CallRecord /\ CallOK(call[c], announced)
         /\ call[c].at = "user" => call[c].op \in {"getMe", "updateMe"}
         /\ call[c].at \in {"ask", "fill"} => call[c].op \in {"getMe", "updateMe", "place"}
         /\ call[c].at \in {"again", "refill"} => call[c].op = "getMe"
         /\ Busy(c) <=> call[c].op # "none"
<1>1. call[c] \in CallRecord /\ CallOK(call[c], announced)
  BY DEF IInv, TypeOK, CallInv
<1>2. call[c].op \in Ops \cup {"none"}
  BY <1>1 DEF CallRecord
<1>3. QED
  BY <1>1, <1>2 DEF CallOK, Ops, Busy

\* A call that starts, or goes on as another: it holds nothing yet.
Called(op, at, p, s) ==
    [IdleCall EXCEPT !.op = op, !.at = at, !.process = p, !.student = s]

LEMMA FreshCall ==
  ASSUME NEW p \in Processes, NEW s \in Students \cup {None}, NEW op \in Ops,
         NEW at \in {"user", "ask", "write"}
  PROVE  /\ Called(op, at, p, s) \in CallRecord
         /\ Called(op, at, p, s).op = op /\ Called(op, at, p, s).at = at
         /\ Called(op, at, p, s).process = p /\ Called(op, at, p, s).student = s
         /\ Called(op, at, p, s).value = None
<1>1. IdleCall \in CallRecord /\ IdleCall.value = None
  BY IdleOK DEF IdleCall
<1>2. QED
  BY <1>1 DEF CallRecord, Called

LEMMA StartWrites ==
  ASSUME IInv, NEW c \in Calls, NEW p \in Processes, NEW s \in Students \cup {None},
         NEW op \in Ops, NEW at \in {"user", "ask", "write"},
         \/ op \in {"getMe", "updateMe"} /\ at = "user" /\ s \in Students
         \/ op = "place" /\ at = "ask" /\ s \in Students
         \/ op = "schedule" /\ at = "write",
         Start(c, op, at, p, s)
  PROVE  /\ IInv'
         /\ call'[c].op = op /\ call'[c].at = at
         /\ \A d \in Calls : d # c => call'[d] = call[d]
<1> DEFINE r == Called(op, at, p, s)
<1>1. call' = [call EXCEPT ![c] = r]
  BY DEF Start, Called
<1>2. /\ r \in CallRecord
      /\ r.op = op /\ r.at = at /\ r.process = p /\ r.student = s /\ r.value = None
  BY FreshCall
<1> HIDE DEF r
<1>3. CallOK(r, announced')
  BY <1>2 DEF CallOK, Maybe
<1>4. UNCHANGED <<student, placed, rollover, announced, sets, cached, asked, now, faults>>
  BY DEF Start, data, server
<1>5. /\ call' \in [Calls -> CallRecord] /\ CallInv'
      /\ call'[c] = r
      /\ \A d \in Calls : d # c => call'[d] = call[d]
  BY <1>1, <1>2, <1>3, <1>4, CallKept
<1>6. TypeOK'
  BY <1>4, <1>5 DEF IInv, TypeOK
<1>7. QED
  BY <1>2, <1>5, <1>6 DEF IInv

LEMMA StartInv ==
  ASSUME IInv, NEW c \in Calls, NEW p \in Processes,
         \/ Schedule(c, p)
         \/ \E s \in Students : GetMe(c, p, s) \/ UpdateMe(c, p, s) \/ Place(c, p, s)
  PROVE  IInv'
<1>1. {"getMe", "updateMe", "place", "schedule"} \subseteq Ops
  BY DEF Ops
<1>2. QED
  BY <1>1, StartWrites DEF Schedule, GetMe, UpdateMe, Place

LEMMA ReadUserWrites ==
  ASSUME IInv, NEW c \in Calls, ReadUser(c)
  PROVE  /\ IInv'
         /\ call'[c].op = call[c].op /\ call'[c].at = "ask"
         /\ call'[c].student = call[c].student
         /\ call'[c].row = student[call[c].student]
         /\ call[c].student \in Students
         /\ \A d \in Calls : d # c => call'[d] = call[d]
<1> DEFINE r == [call[c] EXCEPT !.at = "ask", !.row = student[call[c].student]]
<1>1. /\ call[c] \in CallRecord /\ CallOK(call[c], announced)
      /\ call[c].op \in {"getMe", "updateMe"}
  BY CallHolds DEF ReadUser
<1>2. call[c].student \in Students
  BY <1>1 DEF CallOK
<1>3. student[call[c].student] \in StudentRow
  BY <1>2 DEF IInv, TypeOK
<1>4. r \in CallRecord
  BY <1>1, <1>3 DEF CallRecord
<1>5. UNCHANGED <<student, placed, rollover, announced, sets, cached, asked, now, faults>>
  BY DEF ReadUser, data, server
<1>6. CallOK(r, announced')
  BY <1>1, <1>5 DEF CallOK, CallRecord
<1>7. call' = [call EXCEPT ![c] = r]
  BY DEF ReadUser, IInv, TypeOK
<1>8. /\ call' \in [Calls -> CallRecord] /\ CallInv' /\ call'[c] = r
      /\ \A d \in Calls : d # c => call'[d] = call[d]
  <2> HIDE DEF r
  <2>1. QED
    BY <1>4, <1>5, <1>6, <1>7, CallKept
<1>9. TypeOK'
  BY <1>5, <1>8 DEF IInv, TypeOK
<1>10. QED
  BY <1>1, <1>2, <1>8, <1>9 DEF IInv, CallRecord

\* The schedule is asked for: an instant comes back that was scheduled once, and
\* the rest of what the handler holds stays.
Moved(c, ats) ==
    /\ call'[c].op = call[c].op /\ call'[c].at \in ats
    /\ call'[c].student = call[c].student /\ call'[c].row = call[c].row
    /\ \A d \in Calls : d # c => call'[d] = call[d]

LEMMA RecallWrites ==
  ASSUME IInv, NEW c \in Calls, RecallSchedule(c)
  PROVE  IInv' /\ Moved(c, {"write"})
<1> DEFINE memory == cached[call[c].process]
           r == [call[c] EXCEPT !.value = memory.at, !.at = "write"]
<1>1. /\ call[c] \in CallRecord /\ CallOK(call[c], announced)
      /\ call[c].op \in {"getMe", "updateMe", "place"}
  BY CallHolds DEF RecallSchedule
<1>2. memory.at \in Maybe(announced)
  BY <1>1 DEF CallOK, IInv, TypeOK
<1>3. r \in CallRecord
  BY <1>1, <1>2 DEF CallRecord, IInv, TypeOK, Maybe
<1>4. UNCHANGED <<student, placed, rollover, announced, sets, cached, asked, now, faults>>
  BY DEF RecallSchedule, data, server
<1>5. CallOK(r, announced')
  BY <1>1, <1>2, <1>4 DEF CallOK, CallRecord
<1>6. call' = [call EXCEPT ![c] = r]
  BY DEF RecallSchedule, IInv, TypeOK
<1>7. /\ call' \in [Calls -> CallRecord] /\ CallInv' /\ call'[c] = r
      /\ \A d \in Calls : d # c => call'[d] = call[d]
  <2> HIDE DEF r
  <2>1. QED
    BY <1>3, <1>4, <1>5, <1>6, CallKept
<1>8. TypeOK'
  BY <1>4, <1>7 DEF IInv, TypeOK
<1>9. QED
  BY <1>1, <1>7, <1>8 DEF IInv, Moved, CallRecord

LEMMA ReadScheduleWrites ==
  ASSUME IInv, NEW c \in Calls, NEW value \in Maybe(Instants), ReadSchedule(c, value)
  PROVE  /\ IInv'
         /\ Moved(c, {"fill", "refill"})
         /\ call'[c].at = "fill" => call[c].at = "ask"
<1> DEFINE at == IF call[c].at = "ask" THEN "fill" ELSE "refill"
           r == [call[c] EXCEPT !.value = value, !.at = at]
<1>1. /\ call[c] \in CallRecord /\ CallOK(call[c], announced)
      /\ \/ call[c].op \in {"getMe", "updateMe", "place"} /\ call[c].at = "ask"
         \/ call[c].op = "getMe" /\ call[c].at = "again"
  BY CallHolds DEF ReadSchedule
<1>2. value \in Maybe(announced)
  BY DEF ReadSchedule, IInv, TypeOK, Maybe
<1>3. r \in CallRecord
  BY <1>1 DEF CallRecord
<1>4. /\ UNCHANGED <<student, placed, rollover, announced, sets, cached, asked, now>>
      /\ faults' \in 0 .. MaxFaults
  BY DEF ReadSchedule, data, server, IInv, TypeOK
<1>5. CallOK(r, announced')
  BY <1>1, <1>2, <1>4 DEF CallOK, CallRecord
<1>6. call' = [call EXCEPT ![c] = r]
  BY DEF ReadSchedule, IInv, TypeOK
<1>7. /\ call' \in [Calls -> CallRecord] /\ CallInv' /\ call'[c] = r
      /\ \A d \in Calls : d # c => call'[d] = call[d]
  <2> HIDE DEF r
  <2>1. QED
    BY <1>3, <1>4, <1>5, <1>6, CallKept
<1>8. TypeOK'
  BY <1>4, <1>7 DEF IInv, TypeOK
<1>9. QED
  BY <1>1, <1>7, <1>8 DEF IInv, Moved, CallRecord

LEMMA CacheTyped ==
  ASSUME IInv, NEW c \in Calls, Remember(c)
  PROVE  cached' \in [Processes -> [on : BOOLEAN, at : Maybe(announced)]]
<1>1. call[c].value \in Maybe(announced)
  BY DEF IInv, CallInv, CallOK
<1>2. [on |-> TRUE, at |-> call[c].value] \in [on : BOOLEAN, at : Maybe(announced)]
  BY <1>1
<1>3. QED
  BY <1>2 DEF Remember, IInv, TypeOK

LEMMA ForgetTyped ==
  ASSUME IInv, NEW p, cached' = [cached EXCEPT ![p] = NotCached]
  PROVE  cached' \in [Processes -> [on : BOOLEAN, at : Maybe(announced)]]
<1>1. NotCached \in [on : BOOLEAN, at : Maybe(announced)]
  BY DEF NotCached, Maybe
<1>2. QED
  BY <1>1 DEF IInv, TypeOK

LEMMA FillCacheWrites ==
  ASSUME IInv, NEW c \in Calls, FillCache(c)
  PROVE  IInv' /\ Moved(c, {"write"})
<1> DEFINE r == [call[c] EXCEPT !.at = "write"]
<1>1. /\ call[c] \in CallRecord /\ CallOK(call[c], announced)
      /\ call[c].op \in {"getMe", "updateMe", "place"}
  BY CallHolds DEF FillCache
<1>2. r \in CallRecord
  BY <1>1 DEF CallRecord
<1>3. UNCHANGED <<student, placed, rollover, announced, sets, asked, now, faults>>
  BY DEF FillCache, data, server
<1>4. CallOK(r, announced')
  BY <1>1, <1>3 DEF CallOK, CallRecord
<1>5. call' = [call EXCEPT ![c] = r]
  BY DEF FillCache, Goto
<1>6. /\ call' \in [Calls -> CallRecord] /\ CallInv' /\ call'[c] = r
      /\ \A d \in Calls : d # c => call'[d] = call[d]
  <2> HIDE DEF r
  <2>1. QED
    BY <1>2, <1>3, <1>4, <1>5, CallKept
<1>7. TypeOK'
  BY <1>3, <1>6, CacheTyped DEF IInv, TypeOK, FillCache
<1>8. QED
  BY <1>1, <1>6, <1>7 DEF IInv, Moved, CallRecord

LEMMA ScheduleSaveWrites ==
  ASSUME IInv, NEW c \in Calls, NEW at \in Maybe(Instants), ScheduleSave(c, at)
  PROVE  /\ IInv' /\ Moved(c, {"clear"})
         /\ announced \subseteq announced' /\ announced' \subseteq Instants
<1> DEFINE r == [call[c] EXCEPT !.at = "clear"]
<1>1. /\ call[c] \in CallRecord /\ CallOK(call[c], announced)
      /\ call[c].op = "schedule"
  BY CallHolds DEF ScheduleSave, At
<1>2. r \in CallRecord
  BY <1>1 DEF CallRecord
<1>3. /\ UNCHANGED <<student, placed, cached, asked, now, faults>>
      /\ announced' = announced \cup ({at} \ {None}) /\ rollover' = at
      /\ sets' \in 0 .. MaxSchedules
  BY DEF ScheduleSave, data, IInv, TypeOK
<1>4. announced \subseteq announced' /\ announced' \subseteq Instants
      /\ rollover' \in Maybe(announced')
  BY <1>3 DEF IInv, TypeOK, Maybe
<1>5. CallOK(r, announced')
  BY <1>1, <1>4 DEF CallOK, CallRecord, Maybe
<1>6. call' = [call EXCEPT ![c] = r]
  BY DEF ScheduleSave, Goto
<1>7. /\ call' \in [Calls -> CallRecord] /\ CallInv' /\ call'[c] = r
      /\ \A d \in Calls : d # c => call'[d] = call[d]
  <2> HIDE DEF r
  <2>1. QED
    BY <1>2, <1>4, <1>5, <1>6, CallKept
<1>8. cached \in [Processes -> [on : BOOLEAN, at : Maybe(announced')]]
  BY <1>4 DEF IInv, TypeOK, Maybe
<1>9. TypeOK'
  BY <1>3, <1>4, <1>7, <1>8 DEF IInv, TypeOK, Maybe
<1>10. QED
  BY <1>1, <1>4, <1>7, <1>9 DEF IInv, Moved, CallRecord

LEMMA ScheduleClearWrites ==
  ASSUME IInv, NEW c \in Calls, ScheduleClear(c)
  PROVE  /\ IInv' /\ call'[c] = IdleCall
         /\ \A d \in Calls : d # c => call'[d] = call[d]
<1>1. UNCHANGED <<student, placed, rollover, announced, sets, asked, now, faults>>
  BY DEF ScheduleClear, data, server
<1>2. /\ call' \in [Calls -> CallRecord] /\ CallInv' /\ call'[c] = IdleCall
      /\ \A d \in Calls : d # c => call'[d] = call[d]
  BY <1>1, FinishKept DEF ScheduleClear
<1>3. cached' \in [Processes -> [on : BOOLEAN, at : Maybe(announced)]]
  BY ForgetTyped DEF ScheduleClear
<1>4. TypeOK'
  BY <1>1, <1>2, <1>3 DEF IInv, TypeOK
<1>5. QED
  BY <1>2, <1>4 DEF IInv

LEMMA AnswerWrites ==
  ASSUME IInv, NEW c \in Calls, AnswerRecalled(c) \/ AnswerRead(c)
  PROVE  /\ IInv' /\ call'[c] = IdleCall
         /\ \A d \in Calls : d # c => call'[d] = call[d]
<1>1. call[c].student \in Students
  BY CallHolds DEF AnswerRecalled, AnswerRead, CallOK
<1>2. \E value : Answer(c, value)
  BY DEF AnswerRecalled, AnswerRead
<1>3. UNCHANGED <<student, placed, rollover, announced, sets, now, faults>>
  BY <1>2 DEF Answer, data, server
<1>4. /\ call' \in [Calls -> CallRecord] /\ CallInv' /\ call'[c] = IdleCall
      /\ \A d \in Calls : d # c => call'[d] = call[d]
  BY <1>2, <1>3, FinishKept DEF Answer
<1>5. asked' \in SUBSET Students
  BY <1>1, <1>2 DEF Answer, IInv, TypeOK
<1>6. cached' \in [Processes -> [on : BOOLEAN, at : Maybe(announced)]]
  BY CacheTyped DEF AnswerRecalled, AnswerRead, IInv, TypeOK
<1>7. TypeOK'
  BY <1>3, <1>4, <1>5, <1>6 DEF IInv, TypeOK
<1>8. QED
  BY <1>4, <1>7 DEF IInv

\* One year on at most, and never past the last.
LEMMA AdvanceYearBy ==
  ASSUME NEW row \in StudentRow, row.year # None
  PROVE  /\ AdvanceYear(row) \in AnyYear
         /\ AdvanceYear(row) <= row.year + 1
<1>1. row.year \in 1 .. 5
  BY DEF StudentRow, Maybe, AnyYear
<1>2. QED
  BY <1>1 DEF AdvanceYear, AnyYear

LEMMA AppliedTyped ==
  ASSUME NEW row \in StudentRow, NEW at \in Maybe(announced),
         announced \subseteq Instants
  PROVE  /\ Applied(row, at) \in StudentRow
         /\ Applied(row, at).stamp \in {row.stamp, at}
         /\ Applied(row, at).year # None => row.year # None
         /\ Applied(row, at).programme = row.programme
<1>1. at \in Maybe(Instants)
  BY DEF Maybe
<1> DEFINE year == IF row.year = None THEN None ELSE AdvanceYear(row)
<1>2. year \in Maybe(AnyYear) /\ (year # None => row.year # None)
  BY AdvanceYearBy DEF Maybe
<1>3. CASE Promotes(row, at)
  <2>1. Applied(row, at) = [row EXCEPT !.stamp = at, !.year = year]
    BY <1>3 DEF Applied
  <2> HIDE DEF year
  <2>2. QED
    BY <1>1, <1>2, <2>1 DEF StudentRow
<1>4. CASE ~Promotes(row, at) /\ row.stamp = None /\ ~IsRolloverDue(at, row.stamp)
  <2>1. Applied(row, at) = [row EXCEPT !.stamp = at]
    BY <1>4 DEF Applied
  <2>2. QED
    BY <1>1, <2>1 DEF StudentRow
<1>5. CASE ~Promotes(row, at) /\ ~(row.stamp = None /\ ~IsRolloverDue(at, row.stamp))
  BY <1>5 DEF Applied
<1>6. QED
  BY <1>3, <1>4, <1>5

\* What a visit writes: the year it came to, or none of it, and a stamp that is
\* new, or none of it.
LEMMA ApplyWrites ==
  ASSUME IInv, NEW c \in Calls, ApplyPending(c)
  PROVE  LET s   == call[c].student
             row == call[c].row
             at  == call[c].value
             new == Applied(row, at)
         IN  /\ IInv'
             /\ call[c].op = "getMe" /\ call[c].at = "write"
             /\ s \in Students /\ row \in StudentRow /\ at \in Maybe(announced)
             /\ student'[s].year = IF Promotes(row, at) /\ new.year # None
                                   THEN new.year ELSE student[s].year
             /\ student'[s].stamp = IF new.stamp = row.stamp THEN student[s].stamp
                                    ELSE new.stamp
             /\ \A q \in Students : q # s => student'[q] = student[q]
             /\ call'[c].op = "getMe" /\ call'[c].at = "again"
             /\ \A d \in Calls : d # c => call'[d] = call[d]
<1> DEFINE s   == call[c].student
           row == call[c].row
           at  == call[c].value
           new == Applied(row, at)
           year == IF Promotes(row, at) /\ new.year # None
                   THEN new.year ELSE student[s].year
           stamp == IF new.stamp = row.stamp THEN student[s].stamp ELSE new.stamp
           r == [call[c] EXCEPT !.at = "again", !.row = new]
<1>1. /\ call[c] \in CallRecord /\ CallOK(call[c], announced)
      /\ call[c].op = "getMe" /\ call[c].at = "write"
  BY CallHolds DEF ApplyPending, Apply, At
<1>2. s \in Students /\ row \in StudentRow /\ at \in Maybe(announced)
      /\ announced \subseteq Instants
  BY <1>1 DEF CallOK, CallRecord, IInv, TypeOK
<1>3. /\ new \in StudentRow /\ new.stamp \in {row.stamp, at}
  BY <1>2, AppliedTyped
<1>4. student[s] \in StudentRow /\ student[s].stamp \in Maybe(announced)
  BY <1>2 DEF IInv, TypeOK
<1>5. /\ year \in Maybe(AnyYear) /\ stamp \in Maybe(announced)
      /\ stamp \in Maybe(Instants)
  BY <1>2, <1>3, <1>4 DEF StudentRow, Maybe
<1>6. student' = [student EXCEPT ![s] = [student[s] EXCEPT !.year = year, !.stamp = stamp]]
  BY <1>2 DEF ApplyPending, Apply, IInv, TypeOK
<1>7. call' = [call EXCEPT ![c] = r]
  BY DEF ApplyPending, Apply, IInv, TypeOK
<1>8. UNCHANGED <<placed, rollover, announced, sets, cached, asked, now, faults>>
  BY DEF ApplyPending, Apply, server
<1>9. r \in CallRecord /\ CallOK(r, announced')
      /\ r.op = "getMe" /\ r.at = "again"
  <2> HIDE DEF new
  <2>1. QED
    BY <1>1, <1>3, <1>8 DEF CallOK, CallRecord
<1>10. /\ call' \in [Calls -> CallRecord] /\ CallInv' /\ call'[c] = r
       /\ \A d \in Calls : d # c => call'[d] = call[d]
  <2> HIDE DEF r
  <2>1. QED
    BY <1>7, <1>8, <1>9, CallKept
<1>11. /\ student' \in [Students -> StudentRow]
       /\ student'[s].year = year /\ student'[s].stamp = stamp
       /\ \A q \in Students : q # s => student'[q] = student[q]
  <2> HIDE DEF year, stamp
  <2>1. [student[s] EXCEPT !.year = year, !.stamp = stamp] \in StudentRow
    BY <1>4, <1>5 DEF StudentRow
  <2>2. QED
    BY <1>2, <1>4, <1>6, <2>1 DEF IInv, TypeOK, StudentRow
<1>12. \A q \in Students : student'[q].stamp \in Maybe(announced)
  <2> HIDE DEF stamp
  <2>1. QED
    BY <1>5, <1>11 DEF IInv, TypeOK
<1>13. TypeOK'
  BY <1>8, <1>10, <1>11, <1>12 DEF IInv, TypeOK
<1>14. IInv'
  BY <1>10, <1>13 DEF IInv
<1>15. call'[c].op = "getMe" /\ call'[c].at = "again"
  <2> HIDE DEF r
  <2>1. QED
    BY <1>9, <1>10
<1>16. QED
  BY <1>1, <1>2, <1>10, <1>11, <1>14, <1>15

\* A person's word on a student: the row is written as a whole, and placed with
\* it.
LEMMA WriteTyped ==
  ASSUME IInv, NEW s \in Students, NEW row \in StudentRow,
         row.stamp \in Maybe(announced), announced' = announced, Write(s, row)
  PROVE  /\ student' \in [Students -> StudentRow]
         /\ \A q \in Students : student'[q].stamp \in Maybe(announced')
         /\ student'[s] = row
         /\ \A q \in Students : q # s => student'[q] = student[q]
  BY DEF Write, IInv, TypeOK

LEMMA PlaceWriteWrites ==
  ASSUME IInv, NEW c \in Calls, NEW programme, NEW year, PlaceWrite(c, programme, year)
  PROVE  /\ IInv' /\ call[c].op = "place"
         /\ \E s \in Students, row \in StudentRow : Write(s, row)
         /\ call'[c] = IdleCall
         /\ \A d \in Calls : d # c => call'[d] = call[d]
<1> DEFINE row == [programme |-> programme, year |-> year, stamp |-> call[c].value]
<1>1. /\ CallOK(call[c], announced) /\ call[c].op = "place"
      /\ call[c].student \in Students /\ call[c].value \in Maybe(announced)
  BY CallHolds DEF PlaceWrite, At, CallOK
<1>2. UNCHANGED <<rollover, announced, sets, cached, asked, now, faults>>
  BY DEF PlaceWrite, server
<1>3. row \in StudentRow
  <2>1. programme \in Programmes /\ year \in AnyYear
    BY DEF PlaceWrite, Years, AnyYear
  <2>2. call[c].value \in Maybe(Instants)
    BY <1>1 DEF Maybe, IInv, TypeOK
  <2>3. QED
    BY <2>1, <2>2 DEF StudentRow, Maybe
<1>4. Write(call[c].student, row) /\ row.stamp \in Maybe(announced)
  BY <1>1 DEF PlaceWrite
<1>5. /\ student' \in [Students -> StudentRow]
      /\ \A q \in Students : student'[q].stamp \in Maybe(announced')
  <2> HIDE DEF row
  <2>1. QED
    BY <1>1, <1>2, <1>3, <1>4, WriteTyped
<1>6. /\ call' \in [Calls -> CallRecord] /\ CallInv' /\ call'[c] = IdleCall
      /\ \A d \in Calls : d # c => call'[d] = call[d]
  BY <1>2, FinishKept DEF PlaceWrite
<1>7. TypeOK'
  BY <1>2, <1>5, <1>6 DEF IInv, TypeOK
<1>8. QED
  BY <1>1, <1>3, <1>4, <1>6, <1>7 DEF IInv

LEMMA UpdateMeWriteWrites ==
  ASSUME IInv, NEW c \in Calls, NEW choice \in Choices,
         UpdateMeWrite(c, choice[1], choice[2])
  PROVE  /\ IInv' /\ call[c].op = "updateMe"
         /\ \E s \in Students, row \in StudentRow : Write(s, row)
         /\ call'[c].op = "getMe" /\ call'[c].at = "user"
         /\ \A d \in Calls : d # c => call'[d] = call[d]
<1> DEFINE s == call[c].student
           programme == choice[1]
           year == choice[2]
           old == call[c].row
           due == NeedsDepartmentChoice(old) /\ IsRolloverDue(call[c].value, old.stamp)
           p == IF programme = None THEN student[s].programme ELSE programme
           y == IF year = None THEN student[s].year ELSE year
           t == IF due /\ programme \notin {None, old.programme}
                THEN call[c].value ELSE student[s].stamp
           row == [programme |-> p, year |-> y, stamp |-> t]
           r == Called("getMe", "user", call[c].process, s)
<1>1. /\ CallOK(call[c], announced) /\ call[c].op = "updateMe"
      /\ s \in Students /\ call[c].process \in Processes
      /\ call[c].value \in Maybe(announced)
  BY CallHolds DEF UpdateMeWrite, At, CallOK
<1>2. UNCHANGED <<rollover, announced, sets, cached, asked, now, faults>>
  BY DEF UpdateMeWrite, server
<1>3. programme \in Maybe(Programmes) /\ year \in Maybe(AnyYear)
  OBVIOUS
<1>4. /\ student[s] \in StudentRow /\ student[s].stamp \in Maybe(announced)
      /\ announced \subseteq Instants
  BY <1>1 DEF IInv, TypeOK
<1>5. /\ p \in Maybe(Programmes) /\ y \in Maybe(AnyYear)
      /\ t \in Maybe(announced) /\ t \in Maybe(Instants)
  BY <1>1, <1>3, <1>4 DEF StudentRow, Maybe
<1>6. Write(s, row)
  BY DEF UpdateMeWrite
<1>7. row \in StudentRow /\ row.stamp \in Maybe(announced)
  <2> HIDE DEF p, y, t
  <2>1. QED
    BY <1>5 DEF StudentRow
<1>8. /\ student' \in [Students -> StudentRow]
      /\ \A q \in Students : student'[q].stamp \in Maybe(announced')
  <2> HIDE DEF row
  <2>1. QED
    BY <1>1, <1>2, <1>6, <1>7, WriteTyped
<1>9. call' = [call EXCEPT ![c] = r]
  BY DEF UpdateMeWrite, Called
<1>10. /\ r \in CallRecord /\ CallOK(r, announced')
       /\ r.op = "getMe" /\ r.at = "user"
  <2>1. /\ r \in CallRecord /\ r.op = "getMe" /\ r.at = "user"
        /\ r.process = call[c].process /\ r.student = s /\ r.value = None
    <3>1. "getMe" \in Ops
      BY DEF Ops
    <3>2. QED
      BY <1>1, <3>1, FreshCall
  <2> HIDE DEF r
  <2>2. QED
    BY <1>1, <2>1 DEF CallOK, Maybe
<1>11. /\ call' \in [Calls -> CallRecord] /\ CallInv' /\ call'[c] = r
       /\ \A d \in Calls : d # c => call'[d] = call[d]
  <2> HIDE DEF r
  <2>1. QED
    BY <1>2, <1>9, <1>10, CallKept
<1>12. TypeOK'
  BY <1>2, <1>8, <1>11 DEF IInv, TypeOK
<1>13. call'[c].op = "getMe" /\ call'[c].at = "user"
  <2> HIDE DEF r
  <2>1. QED
    BY <1>10, <1>11
<1>14. IInv'
  BY <1>11, <1>12 DEF IInv
<1>15. \E q \in Students, w \in StudentRow : Write(q, w)
  <2> HIDE DEF row
  <2>1. QED
    BY <1>1, <1>6, <1>7
<1>16. QED
  BY <1>1, <1>11, <1>13, <1>14, <1>15

LEMMA UpdateMeRefusedWrites ==
  ASSUME IInv, NEW c \in Calls, UpdateMeRefused(c)
  PROVE  /\ IInv' /\ call'[c] = IdleCall
         /\ \A d \in Calls : d # c => call'[d] = call[d]
<1>1. UNCHANGED <<student, placed, rollover, announced, sets, cached, asked, now, faults>>
  BY DEF UpdateMeRefused, data, server
<1>2. /\ call' \in [Calls -> CallRecord] /\ CallInv' /\ call'[c] = IdleCall
      /\ \A d \in Calls : d # c => call'[d] = call[d]
  BY <1>1, FinishKept DEF UpdateMeRefused
<1>3. TypeOK'
  BY <1>1, <1>2 DEF IInv, TypeOK
<1>4. QED
  BY <1>2, <1>3 DEF IInv

LEMMA TimeInv ==
  ASSUME IInv, Tick \/ \E p \in Processes : CacheExpires(p)
  PROVE  IInv'
<1>1. CASE Tick
  <2>1. UNCHANGED <<student, placed, rollover, announced, sets, cached, call, asked, faults>>
    BY <1>1 DEF Tick, data, server
  <2>2. now' \in 0 .. Horizon
    BY <1>1 DEF Tick, IInv, TypeOK
  <2>3. QED
    BY <2>1, <2>2 DEF IInv, TypeOK, CallInv
<1>2. ASSUME NEW p \in Processes, CacheExpires(p) PROVE IInv'
  <2>1. UNCHANGED <<student, placed, rollover, announced, sets, call, asked, now, faults>>
    BY <1>2 DEF CacheExpires, data, server
  <2>2. cached' \in [Processes -> [on : BOOLEAN, at : Maybe(announced)]]
    BY <1>2, ForgetTyped DEF CacheExpires
  <2>3. QED
    BY <2>1, <2>2 DEF IInv, TypeOK, CallInv
<1>3. QED
  BY <1>1, <1>2

LEMMA NextInv ==
  ASSUME IInv, [Next]_vars
  PROVE  IInv'
<1>1. CASE UNCHANGED vars
  BY <1>1 DEF vars, data, server, IInv, TypeOK, CallInv
<1>2. ASSUME NEW c \in Calls, Step(c) PROVE IInv'
  BY <1>2, ReadUserWrites, RecallWrites, ReadScheduleWrites, FillCacheWrites,
     ScheduleSaveWrites, ScheduleClearWrites, AnswerWrites, ApplyWrites,
     PlaceWriteWrites, UpdateMeWriteWrites, UpdateMeRefusedWrites DEF Step
<1>3. QED
  BY <1>1, <1>2, StartInv, TimeInv DEF Next

\* The rows, the caches and the calls keep their types, whatever overlaps, and a
\* student is only ever stamped with an instant that was scheduled.
THEOREM TypeCorrect == Spec => []TypeOK
<1>1. Init => IInv
  BY InitInv
<1>2. IInv /\ [Next]_vars => IInv'
  BY NextInv
<1>3. IInv => TypeOK
  BY DEF IInv
<1>4. QED
  BY <1>1, <1>2, <1>3, PTL DEF Spec

-----------------------------------------------------------------------------
(* A year for each rollover.                                                *)

LEMMA FewInstants ==
  ASSUME NEW S, NEW T, S \subseteq T, T \subseteq Instants
  PROVE  /\ Cardinality(S) \in Nat /\ Cardinality(T) \in Nat
         /\ Cardinality(S) <= Cardinality(T)
         /\ \A t \in T : t \notin S => Cardinality(S) + 1 <= Cardinality(T)
<1>1. IsFiniteSet(Instants)
  BY FS_Interval DEF Instants
<1>2. IsFiniteSet(T) /\ IsFiniteSet(S)
  BY <1>1, FS_Subset
<1>3. /\ Cardinality(S) \in Nat /\ Cardinality(T) \in Nat
      /\ Cardinality(S) <= Cardinality(T)
  BY <1>2, FS_CardinalityType, FS_Subset
<1>4. ASSUME NEW t \in T, t \notin S
      PROVE  Cardinality(S) + 1 <= Cardinality(T)
  <2>1. Cardinality(S \cup {t}) = Cardinality(S) + 1 /\ IsFiniteSet(S \cup {t})
    BY <1>2, <1>4, FS_AddElement
  <2>2. S \cup {t} \in SUBSET T
    OBVIOUS
  <2>3. QED
    BY <1>2, <2>1, <2>2, FS_Subset
<1>5. QED
  BY <1>3, <1>4

\* Rollovers that are announced or reached meanwhile are no reason to take a year
\* back.
LEMMA RowKept ==
  ASSUME NEW row \in StudentRow, NEW p \in StudentRow,
         NEW known, NEW known2, NEW time \in Int, NEW time2 \in Int,
         known \subseteq known2, known2 \subseteq Instants, time <= time2,
         RowOK(row, p, known, time)
  PROVE  RowOK(row, p, known2, time2)
<1> DEFINE S == Reached(known, time, p.stamp, row.stamp)
           T == Reached(known2, time2, p.stamp, row.stamp)
<1>1. S \subseteq T /\ T \subseteq Instants
  <2>1. \A t \in known : t \in Int
    BY DEF Instants
  <2>2. \A t \in known : t <= time => t <= time2
    BY <2>1
  <2>3. QED
    BY <2>2 DEF Reached
<1>2. /\ Cardinality(S) \in Nat /\ Cardinality(T) \in Nat
      /\ Cardinality(S) <= Cardinality(T)
  <2> HIDE DEF S, T
  <2>1. QED
    BY <1>1, FewInstants
<1>3. row.year # None => row.year \in Int /\ p.year \in Int
  BY DEF RowOK, StudentRow, Maybe, AnyYear
<1> HIDE DEF S, T
<1>4. row.year # None => row.year <= p.year + Cardinality(T)
  <2>1. row.year # None => row.year <= p.year + Cardinality(S)
    BY DEF RowOK, S
  <2>2. QED
    BY <1>2, <1>3, <2>1
<1>5. QED
  BY <1>4 DEF RowOK, T

\* Who is placed starts from there.
LEMMA RowPlaced ==
  ASSUME NEW row \in StudentRow, NEW known, NEW time, known \subseteq Instants
  PROVE  RowOK(row, row, known, time)
<1> DEFINE S == Reached(known, time, row.stamp, row.stamp)
<1>1. row.stamp # None => row.stamp \in Int
  BY DEF StudentRow, Maybe, Instants
<1>2. S \subseteq Instants /\ {} \subseteq S
  BY DEF Reached
<1>3. Cardinality(S) \in Nat
  <2> HIDE DEF S
  <2>1. QED
    BY <1>2, FewInstants
<1>4. row.year # None => row.year \in Int
  BY DEF StudentRow, Maybe, AnyYear
<1>5. row.year # None => row.year <= row.year + Cardinality(S)
  <2> HIDE DEF S
  <2>1. QED
    BY <1>3, <1>4
<1>6. QED
  BY <1>1, <1>5 DEF RowOK

\* A visit that read one row and finds another when it writes.  What it advances
\* is the year it read, so it adds one to what that row had, and the rollover it
\* goes by is one that row had not.  Where it only stamps, the stamp is of a
\* rollover to come, and every rollover the year in the table may be from was
\* reached before.
LEMMA RowApplied ==
  ASSUME NEW row \in StudentRow, NEW cur \in StudentRow, NEW res \in StudentRow,
         NEW p \in StudentRow, NEW at \in Maybe(announced),
         announced \subseteq Instants, now \in Int,
         RowOK(row, p, announced, now), RowOK(cur, p, announced, now),
         res.year = IF Promotes(row, at) /\ Applied(row, at).year # None
                    THEN Applied(row, at).year ELSE cur.year,
         res.stamp = IF Applied(row, at).stamp = row.stamp THEN cur.stamp
                     ELSE Applied(row, at).stamp
  PROVE  RowOK(res, p, announced, now)
<1> DEFINE new == Applied(row, at)
           R(stamp) == Reached(announced, now, p.stamp, stamp)
<1>1. /\ row.stamp # None => row.stamp \in Int
      /\ cur.stamp # None => cur.stamp \in Int
      /\ p.stamp # None => p.stamp \in Int
      /\ at # None => at \in Int
  BY DEF StudentRow, Maybe, Instants
<1>2. /\ row.year # None => row.year \in Int
      /\ cur.year # None => cur.year \in Int
      /\ p.year # None => p.year \in Int
  BY DEF StudentRow, Maybe, AnyYear
<1>3. CASE Promotes(row, at)
  <2>1. /\ at # None /\ at \in announced /\ at <= now
        /\ row.stamp # None => row.stamp < at
    BY <1>3 DEF Promotes, IsRolloverDue, Before, Maybe
  <2>2. /\ new.stamp = at
        /\ new.year = IF row.year = None THEN None ELSE AdvanceYear(row)
    BY <1>3 DEF Applied, StudentRow
  <2>3. res.stamp = at
    <3>1. at # row.stamp
      BY <1>1, <2>1
    <3>2. QED
      BY <2>2, <3>1
  <2>4. p.stamp # None => p.stamp < at
    BY <1>1, <2>1 DEF RowOK
  <2>5. CASE row.year = None
    BY <1>1, <2>2, <2>3, <2>4, <2>5, <2>1 DEF RowOK
  <2>6. CASE row.year # None
    <3>1. AdvanceYear(row) \in AnyYear /\ AdvanceYear(row) <= row.year + 1
      BY <2>6, AdvanceYearBy
    <3>2. res.year = AdvanceYear(row) /\ res.year # None /\ res.year \in Int
      <4>1. AdvanceYear(row) # None
        BY <3>1
      <4>2. QED
        BY <1>3, <2>2, <2>6, <3>1, <4>1 DEF AnyYear
    <3>3. R(row.stamp) \subseteq R(at) /\ R(at) \subseteq Instants
      <4>1. \A t \in announced : row.stamp # None /\ t <= row.stamp => t <= at
        <5>1. \A t \in announced : t \in Int
          BY DEF Instants
        <5>2. QED
          BY <1>1, <2>1, <5>1
      <4>2. QED
        BY <2>1, <4>1 DEF Reached
    <3>4. at \in R(at) /\ at \notin R(row.stamp)
      BY <1>1, <2>1, <2>4 DEF Reached, Before
    <3>5. /\ Cardinality(R(row.stamp)) \in Nat /\ Cardinality(R(at)) \in Nat
          /\ Cardinality(R(row.stamp)) + 1 <= Cardinality(R(at))
      <4> HIDE DEF R
      <4>1. QED
        BY <3>3, <3>4, FewInstants
    <3>6. row.year <= p.year + Cardinality(R(row.stamp)) /\ p.year # None
      BY <2>6 DEF RowOK
    <3>7. res.year <= p.year + Cardinality(R(at))
      <4> HIDE DEF R
      <4>1. QED
        BY <1>2, <2>6, <3>1, <3>2, <3>5, <3>6
    <3>8. QED
      BY <1>1, <2>1, <2>3, <2>4, <3>2, <3>6, <3>7 DEF RowOK
  <2>7. QED
    BY <2>5, <2>6
<1>4. CASE ~Promotes(row, at)
  <2>1. res.year = cur.year
    BY <1>4
  <2>2. CASE new.stamp = row.stamp
    BY <2>1, <2>2 DEF RowOK
  <2>3. CASE new.stamp # row.stamp
    <3>1. row.stamp = None /\ ~IsRolloverDue(at, row.stamp) /\ new.stamp = at
      BY <1>4, <2>3 DEF Applied, StudentRow
    <3>2. at # None /\ now < at /\ at \in Int
      BY <1>1, <2>3, <3>1 DEF IsRolloverDue, Before
    <3>3. res.stamp = at /\ p.stamp = None
      BY <2>3, <3>1 DEF RowOK
    <3>4. R(cur.stamp) \subseteq R(at) /\ R(at) \subseteq Instants
      <4>1. \A t \in announced : t <= now => t <= at
        <5>1. \A t \in announced : t \in Int
          BY DEF Instants
        <5>2. QED
          BY <3>2, <5>1
      <4>2. QED
        BY <3>2, <4>1 DEF Reached
    <3>5. /\ Cardinality(R(cur.stamp)) \in Nat /\ Cardinality(R(at)) \in Nat
          /\ Cardinality(R(cur.stamp)) <= Cardinality(R(at))
      <4> HIDE DEF R
      <4>1. QED
        BY <3>4, FewInstants
    <3>6. /\ cur.year = None <=> p.year = None
          /\ cur.year # None => cur.year <= p.year + Cardinality(R(cur.stamp))
      BY DEF RowOK
    <3>7. cur.year # None => cur.year <= p.year + Cardinality(R(at))
      <4> HIDE DEF R
      <4>1. QED
        BY <1>2, <3>5, <3>6
    <3>8. QED
      BY <2>1, <3>3, <3>6, <3>7 DEF RowOK
  <2>4. QED
    BY <2>2, <2>3
<1>5. QED
  BY <1>3, <1>4

-----------------------------------------------------------------------------
(* The rows and the visits to them, step by step.                           *)

\* Placements and answers do not overlap other requests.
PlacedAlone == {"place", "updateMe"} \subseteq Alone

LEMMA IdleNext ==
  ASSUME IInv', NEW c \in Calls
  PROVE  Busy(c)' <=> call'[c].op # "none"
<1>1. CallOK(call'[c], announced') /\ call'[c] \in CallRecord
  BY DEF IInv, TypeOK, CallInv
<1>2. QED
  BY <1>1 DEF CallOK, CallRecord, Ops, Busy

LEMMA AloneStarts ==
  ASSUME YearInv, NEW c \in Calls, NEW op, NEW at, NEW p, NEW s,
         Start(c, op, at, p, s), call'[c].op = op,
         \A d \in Calls : d # c => call'[d] = call[d]
  PROVE  AloneInv'
  BY DEF Start, AloneInv, Busy

LEMMA AloneGoesOn ==
  ASSUME YearInv, IInv', PlacedAlone, NEW c \in Calls, Busy(c),
         call'[c].op \in {call[c].op, "none"} \/ call[c].op = "updateMe",
         \A d \in Calls : d # c => call'[d] = call[d]
  PROVE  AloneInv'
<1>1. "none" \notin Alone
  BY DEF Ops
<1>2. call'[c].op \in Alone => call[c].op \in Alone
  BY <1>1 DEF PlacedAlone
<1>3. \A d \in Calls : Busy(d)' => Busy(d)
  BY DEF Busy
<1>4. \A d \in Calls : call'[d].op \in Alone => call[d].op \in Alone
  BY <1>2
<1>5. QED
  BY <1>3, <1>4 DEF YearInv, AloneInv

\* A visit that has just read its row, or holds the one it read.
Follows(d) ==
    \/ call'[d] = call[d]
    \/ call'[d].op # "getMe" \/ call'[d].at \notin {"ask", "fill", "write"}
    \/ /\ call[d].op = "getMe" /\ call[d].at \in {"ask", "fill", "write"}
       /\ call'[d].row = call[d].row /\ call'[d].student = call[d].student
    \/ /\ call'[d].student \in Students
       /\ call'[d].row = student[call'[d].student]

LEMMA YearStays ==
  ASSUME YearInv, IInv', AloneInv', student' = student, placed' = placed,
         announced \subseteq announced', now <= now',
         \A d \in Calls : Follows(d)
  PROVE  YearInv'
<1>1. /\ now \in Int /\ now' \in Int /\ announced' \subseteq Instants
      /\ student \in [Students -> StudentRow] /\ placed \in [Students -> StudentRow]
  BY DEF YearInv, IInv, TypeOK
<1>2. ASSUME NEW row \in StudentRow, NEW s \in Students,
             RowOK(row, placed[s], announced, now)
      PROVE  RowOK(row, placed[s], announced', now')
  <2>1. placed[s] \in StudentRow
    BY <1>1
  <2>2. QED
    BY <1>1, <1>2, <2>1, RowKept
<1>3. \A s \in Students : RowOK(student'[s], placed'[s], announced', now')
  BY <1>1, <1>2 DEF YearInv
<1>4. ASSUME NEW d \in Calls PROVE PendingOK(call[d])'
  <2> SUFFICES ASSUME call'[d].op = "getMe", call'[d].at \in {"ask", "fill", "write"}
               PROVE  RowOK(call'[d].row, placed[call'[d].student], announced', now')
    BY DEF PendingOK
  <2>1. /\ call[d] \in CallRecord /\ call'[d] \in CallRecord
        /\ CallOK(call[d], announced) /\ CallOK(call'[d], announced')
        /\ call'[d].student \in Students
        /\ call'[d].row \in StudentRow
    BY DEF YearInv, IInv, TypeOK, CallInv, CallOK, CallRecord
  <2>2. CASE /\ call[d].op = "getMe" /\ call[d].at \in {"ask", "fill", "write"}
             /\ call'[d].row = call[d].row /\ call'[d].student = call[d].student
    BY <1>2, <2>1, <2>2 DEF YearInv, PendingOK
  <2>3. CASE call'[d].row = student[call'[d].student]
    BY <1>2, <2>1, <2>3 DEF YearInv
  <2>4. QED
    BY <2>2, <2>3 DEF Follows
<1>5. QED
  BY <1>1, <1>3, <1>4 DEF YearInv

\* A person's word on a student comes when no visit is under way.
LEMMA YearPlaced ==
  ASSUME YearInv, IInv', PlacedAlone, NEW c \in Calls,
         call[c].op \in {"place", "updateMe"}, announced' = announced, now' = now,
         \E s \in Students, row \in StudentRow : Write(s, row),
         call'[c] = IdleCall \/ (call'[c].op = "getMe" /\ call'[c].at = "user"),
         \A d \in Calls : d # c => call'[d] = call[d]
  PROVE  YearInv'
<1>1. PICK s \in Students, row \in StudentRow : Write(s, row)
  OBVIOUS
<1>2. call[c].op \in Alone /\ Busy(c)
  BY CallHolds DEF PlacedAlone, YearInv
<1>3. \A d \in Calls : d # c => ~Busy(d)
  BY <1>2 DEF YearInv, AloneInv
<1>4. /\ IdleCall.op = "none" /\ IdleCall.at = "idle"
      /\ \A d \in Calls : d # c => call'[d].op \notin Alone /\ ~Busy(d)'
  BY <1>3, CallHolds DEF IdleCall, YearInv, Busy, Ops
<1>5. AloneInv'
  BY <1>4 DEF AloneInv, Busy
<1>6. /\ placed \in [Students -> StudentRow] /\ student \in [Students -> StudentRow]
      /\ announced \subseteq Instants
  BY DEF YearInv, IInv, TypeOK
<1>7. /\ placed' \in [Students -> StudentRow]
      /\ student'[s] = row /\ placed'[s] = row
      /\ \A q \in Students : q # s => student'[q] = student[q] /\ placed'[q] = placed[q]
  BY <1>1, <1>6 DEF Write
<1>8. \A q \in Students : RowOK(student'[q], placed'[q], announced, now)
  BY <1>6, <1>7, RowPlaced DEF YearInv
<1>9. \A d \in Calls : PendingOK(call[d])'
  BY <1>3, <1>4 DEF PendingOK, Busy
<1>10. QED
  BY <1>5, <1>7, <1>8, <1>9 DEF YearInv

LEMMA YearApplied ==
  ASSUME YearInv, PlacedAlone, NEW c \in Calls, ApplyPending(c)
  PROVE  YearInv'
<1> DEFINE s   == call[c].student
           row == call[c].row
           at  == call[c].value
           new == Applied(row, at)
<1>1. /\ IInv'
      /\ call[c].op = "getMe" /\ call[c].at = "write"
      /\ s \in Students /\ row \in StudentRow /\ at \in Maybe(announced)
      /\ student'[s].year = IF Promotes(row, at) /\ new.year # None
                            THEN new.year ELSE student[s].year
      /\ student'[s].stamp = IF new.stamp = row.stamp THEN student[s].stamp
                             ELSE new.stamp
      /\ \A q \in Students : q # s => student'[q] = student[q]
      /\ call'[c].op = "getMe" /\ call'[c].at = "again"
      /\ \A d \in Calls : d # c => call'[d] = call[d]
  BY ApplyWrites DEF YearInv
<1>2. placed' = placed /\ announced' = announced /\ now' = now
  BY DEF ApplyPending, Apply, server
<1>3. AloneInv'
  BY <1>1, AloneGoesOn DEF Busy
<1>4. /\ student \in [Students -> StudentRow] /\ student' \in [Students -> StudentRow]
      /\ placed \in [Students -> StudentRow] /\ announced \subseteq Instants
      /\ now \in Int
  BY <1>1 DEF YearInv, IInv, TypeOK
<1>5. RowOK(row, placed[s], announced, now) /\ RowOK(student[s], placed[s], announced, now)
  BY <1>1 DEF YearInv, PendingOK
<1>6. RowOK(student'[s], placed[s], announced, now)
  <2>1. student[s] \in StudentRow /\ student'[s] \in StudentRow /\ placed[s] \in StudentRow
    BY <1>1, <1>4
  <2> HIDE DEF s, row, at
  <2>2. QED
    BY <1>1, <1>4, <1>5, <2>1, RowApplied
<1>7. \A q \in Students : RowOK(student'[q], placed'[q], announced', now')
  BY <1>1, <1>2, <1>6 DEF YearInv
<1>8. \A d \in Calls : PendingOK(call[d])'
  BY <1>1, <1>2 DEF YearInv, PendingOK
<1>9. QED
  BY <1>1, <1>2, <1>3, <1>4, <1>7, <1>8 DEF YearInv

LEMMA YearStarts ==
  ASSUME YearInv, NEW c \in Calls, NEW p \in Processes,
         \/ Schedule(c, p)
         \/ \E s \in Students : GetMe(c, p, s) \/ UpdateMe(c, p, s) \/ Place(c, p, s)
  PROVE  YearInv'
<1>1. {"getMe", "updateMe", "place", "schedule"} \subseteq Ops
  BY DEF Ops
<1>2. PICK op \in Ops, at \in {"user", "ask", "write"}, s \in Students \cup {None} :
         /\ \/ op \in {"getMe", "updateMe"} /\ at = "user" /\ s \in Students
            \/ op = "place" /\ at = "ask" /\ s \in Students
            \/ op = "schedule" /\ at = "write"
         /\ Start(c, op, at, p, s)
  BY <1>1 DEF Schedule, GetMe, UpdateMe, Place
<1>3. /\ IInv'
      /\ call'[c].op = op /\ call'[c].at = at
      /\ \A d \in Calls : d # c => call'[d] = call[d]
  BY <1>2, StartWrites DEF YearInv
<1>4. UNCHANGED <<student, placed, announced, now>>
  BY <1>2 DEF Start, data, server
<1>5. AloneInv'
  BY <1>2, <1>3, AloneStarts
<1>6. \A d \in Calls : Follows(d)
  BY <1>2, <1>3 DEF Follows
<1>7. now <= now'
  BY <1>4 DEF YearInv, IInv, TypeOK
<1>8. QED
  BY <1>3, <1>4, <1>5, <1>6, <1>7, YearStays

\* The steps that read, remember, answer, or schedule.
LEMMA YearMoves ==
  ASSUME YearInv, PlacedAlone, NEW c \in Calls,
         \/ ReadUser(c) \/ RecallSchedule(c) \/ FillCache(c)
         \/ \E at \in Maybe(Instants) : ReadSchedule(c, at) \/ ScheduleSave(c, at)
         \/ AnswerRecalled(c) \/ AnswerRead(c) \/ UpdateMeRefused(c) \/ ScheduleClear(c)
  PROVE  YearInv'
<1>0. IInv /\ now \in Int
  BY DEF YearInv, IInv, TypeOK
<1>1. UNCHANGED <<student, placed, now>>
  BY DEF ReadUser, RecallSchedule, FillCache, ReadSchedule, ScheduleSave,
         AnswerRecalled, AnswerRead, Answer, UpdateMeRefused, ScheduleClear,
         data, server
<1>2. Busy(c)
  BY DEF ReadUser, RecallSchedule, FillCache, ReadSchedule, ScheduleSave,
         AnswerRecalled, AnswerRead, UpdateMeRefused, ScheduleClear, At, Busy
<1>3. IdleCall.op = "none"
  BY DEF IdleCall
<1>4. CASE \/ AnswerRecalled(c) \/ AnswerRead(c) \/ UpdateMeRefused(c)
           \/ ScheduleClear(c)
  <2>1. /\ IInv' /\ call'[c] = IdleCall
        /\ \A d \in Calls : d # c => call'[d] = call[d]
    BY <1>0, <1>4, AnswerWrites, UpdateMeRefusedWrites, ScheduleClearWrites
  <2>2. announced' = announced
    BY <1>4 DEF AnswerRecalled, AnswerRead, Answer, UpdateMeRefused, ScheduleClear, server
  <2>3. AloneInv'
    BY <1>2, <1>3, <2>1, AloneGoesOn
  <2>4. \A d \in Calls : Follows(d)
    BY <1>3, <2>1 DEF Follows
  <2>5. QED
    BY <1>0, <1>1, <2>1, <2>2, <2>3, <2>4, YearStays
<1>5. CASE ReadUser(c)
  <2>1. /\ IInv'
        /\ call'[c].op = call[c].op /\ call'[c].student = call[c].student
        /\ call'[c].row = student[call[c].student]
        /\ call[c].student \in Students
        /\ \A d \in Calls : d # c => call'[d] = call[d]
    BY <1>0, <1>5, ReadUserWrites
  <2>2. announced' = announced
    BY <1>5 DEF ReadUser, server
  <2>3. AloneInv'
    BY <1>2, <2>1, AloneGoesOn
  <2>4. \A d \in Calls : Follows(d)
    BY <2>1 DEF Follows
  <2>5. QED
    BY <1>0, <1>1, <2>1, <2>2, <2>3, <2>4, YearStays
<1>6. CASE \/ RecallSchedule(c) \/ FillCache(c)
           \/ \E at \in Maybe(Instants) : ReadSchedule(c, at) \/ ScheduleSave(c, at)
  <2>1. IInv' /\ Moved(c, {"write", "fill", "refill", "clear"})
    BY <1>0, <1>6, RecallWrites, FillCacheWrites, ReadScheduleWrites,
       ScheduleSaveWrites DEF Moved
  <2>2. announced \subseteq announced'
    BY <1>0, <1>6, ScheduleSaveWrites DEF RecallSchedule, FillCache, ReadSchedule, server
  <2>3. AloneInv'
    BY <1>2, <2>1, AloneGoesOn DEF Moved
  <2>4. call[c].op = "getMe" /\ call'[c].at \in {"ask", "fill", "write"} =>
           call[c].at \in {"ask", "fill", "write"}
    <3>1. CASE RecallSchedule(c) \/ FillCache(c)
      BY <3>1 DEF RecallSchedule, FillCache
    <3>2. ASSUME NEW at \in Maybe(Instants), ReadSchedule(c, at)
          PROVE  call'[c].at = "fill" => call[c].at = "ask"
      BY <1>0, <3>2, ReadScheduleWrites
    <3>3. ASSUME NEW at \in Maybe(Instants), ScheduleSave(c, at)
          PROVE  call[c].op = "schedule"
      BY <3>3 DEF ScheduleSave, At
    <3>4. ASSUME NEW at \in Maybe(Instants), ReadSchedule(c, at)
          PROVE  call'[c].at \in {"fill", "refill"}
      BY <1>0, <3>4, ReadScheduleWrites DEF Moved
    <3>5. QED
      BY <1>6, <3>1, <3>2, <3>3, <3>4
  <2>5. \A d \in Calls : Follows(d)
    BY <2>1, <2>4 DEF Follows, Moved
  <2>6. QED
    BY <1>0, <1>1, <2>1, <2>2, <2>3, <2>5, YearStays
<1>7. QED
  BY <1>4, <1>5, <1>6

LEMMA YearNext ==
  ASSUME YearInv, PlacedAlone, [Next]_vars
  PROVE  YearInv'
<1>0. IInv' /\ IInv /\ now \in Int
  BY NextInv DEF YearInv, IInv, TypeOK
<1>1. CASE UNCHANGED vars
  BY <1>0, <1>1 DEF vars, data, server, YearInv, AloneInv, Busy, PendingOK
<1>2. CASE Tick \/ \E p \in Processes : CacheExpires(p)
  <2>1. /\ UNCHANGED <<student, placed, announced, call>>
        /\ now' \in {now, now + 1}
    BY <1>2 DEF Tick, CacheExpires, data, server
  <2>2. now <= now'
    BY <1>0, <2>1
  <2>3. AloneInv' /\ \A d \in Calls : Follows(d)
    BY <2>1 DEF YearInv, AloneInv, Busy, Follows
  <2>4. QED
    BY <1>0, <2>1, <2>2, <2>3, YearStays
<1>3. ASSUME NEW c \in Calls, NEW choice \in Choices,
             UpdateMeWrite(c, choice[1], choice[2]) \/ PlaceWrite(c, choice[1], choice[2])
      PROVE  YearInv'
  <2>1. announced' = announced /\ now' = now
    BY <1>3 DEF UpdateMeWrite, PlaceWrite, server
  <2>2. /\ call[c].op \in {"place", "updateMe"}
        /\ \E s \in Students, row \in StudentRow : Write(s, row)
        /\ call'[c] = IdleCall \/ (call'[c].op = "getMe" /\ call'[c].at = "user")
        /\ \A d \in Calls : d # c => call'[d] = call[d]
    BY <1>0, <1>3, UpdateMeWriteWrites, PlaceWriteWrites
  <2>3. QED
    BY <1>0, <2>1, <2>2, YearPlaced
<1>4. QED
  BY <1>1, <1>2, <1>3, YearStarts, YearMoves, YearApplied DEF Next, Step

LEMMA YearInit == Init => YearInv
<1> SUFFICES ASSUME Init PROVE YearInv
  OBVIOUS
<1>1. IInv
  BY InitInv
<1>2. AloneInv
  BY DEF Init, AloneInv, Busy, IdleCall
<1>3. placed \in [Students -> StudentRow] /\ placed = student /\ announced \subseteq Instants
  BY <1>1 DEF Init, IInv, TypeOK
<1>4. \A s \in Students : RowOK(student[s], placed[s], announced, now)
  BY <1>3, RowPlaced
<1>5. \A c \in Calls : PendingOK(call[c])
  BY DEF Init, PendingOK, IdleCall
<1>6. QED
  BY <1>1, <1>2, <1>3, <1>4, <1>5 DEF YearInv

LEMMA YearBounds == YearInv => OneYearPerRollover
<1> SUFFICES ASSUME YearInv, NEW s \in Students, student[s].year # None
             PROVE  student[s].year <= placed[s].year +
                       Cardinality({t \in announced : /\ student[s].stamp # None
                                                      /\ t <= student[s].stamp
                                                      /\ Before(placed[s].stamp, t)})
  BY DEF OneYearPerRollover
<1> DEFINE T == {t \in announced : /\ student[s].stamp # None
                                   /\ t <= student[s].stamp
                                   /\ Before(placed[s].stamp, t)}
           S == Reached(announced, now, placed[s].stamp, student[s].stamp)
<1>1. S \subseteq T /\ T \subseteq Instants
  BY DEF Reached, YearInv, IInv, TypeOK
<1>2. RowOK(student[s], placed[s], announced, now)
  BY DEF YearInv
<1>3. /\ placed[s].year # None
      /\ student[s].year <= placed[s].year + Cardinality(S)
  BY <1>2 DEF RowOK
<1>4. /\ Cardinality(S) \in Nat /\ Cardinality(T) \in Nat
      /\ Cardinality(S) <= Cardinality(T)
  <2> HIDE DEF S, T
  <2>1. QED
    BY <1>1, FewInstants
<1>5. student[s] \in StudentRow /\ placed[s] \in StudentRow
  BY DEF YearInv, IInv, TypeOK
<1>6. student[s].year \in Int /\ placed[s].year \in Int
  BY <1>3, <1>5 DEF StudentRow, Maybe, AnyYear
<1>7. student[s].year <= placed[s].year + Cardinality(T)
  <2> HIDE DEF S, T
  <2>1. QED
    BY <1>3, <1>4, <1>6
<1>8. QED
  BY <1>7

\* Whatever visits, schedules, expiring caches and failing reads overlap, a
\* student advances by a year at most for each rollover since a person last set
\* his year, where placements and answers do not overlap a visit
\* (applyPendingPromotion(), setUserPlacement()).
THEOREM OneYearEach == PlacedAlone => (Spec => []OneYearPerRollover)
<1> SUFFICES ASSUME PlacedAlone PROVE Spec => []OneYearPerRollover
  OBVIOUS
<1>1. Init => YearInv
  BY YearInit
<1>2. YearInv /\ [Next]_vars => YearInv'
  BY YearNext
<1>3. YearInv => OneYearPerRollover
  BY YearBounds
<1>4. QED
  BY <1>1, <1>2, <1>3, PTL DEF Spec
=============================================================================
