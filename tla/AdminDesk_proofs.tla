--------------------------- MODULE AdminDesk_proofs ---------------------------
(***************************************************************************)
(* Proofs about AdminDesk, and the modules it puts together, for every      *)
(* number of users, departments, subjects and calls in flight.              *)
(***************************************************************************)
EXTENDS AdminDesk, TLAPS

-----------------------------------------------------------------------------
(* The handlers in flight: what is known of one by its operation.           *)

CallOK(r) ==
    /\ r.at = "idle" => r = IdleCall
    /\ r.op = "none" => r = IdleCall
    /\ r.at # "idle" => r.actor \in Users /\ r.op \in Ops
    /\ r.op \in AccountOps => r.user \in Users
    /\ r.op \in {"assign", "unassign", "createDept", "updateDept", "removeDept",
                 "submit"} => r.dept \in Departments
    /\ r.op \in {"submit", "withdraw", "approve", "reject", "removeSubject"}
          => r.subject \in Subjects
    /\ r.key # None => r.op \in {"createDept", "updateDept"}
    /\ r.old # None => r.op \in {"updateDept", "removeDept"}
    /\ r.at = "scope" => r.op \in ReviewerOps
    /\ r.at = "sign" => r.op \in Readers
    /\ r.op \in Lookups \cup {"edit"} => r.at # "guard"

CallInv == \A c \in Calls : CallOK(call[c])
TypeInv == AccountsTypeOK /\ CatalogTypeOK /\ CallInv

\* Only the call of c changed.
OnlyCall(c) ==
    /\ call' \in [Calls -> CallRecord]
    /\ \A d \in Calls : CallOK(call'[d])
    /\ \A d \in Calls : d # c => call'[d] = call[d]
\* It goes on, to another place of its handler.
Moved(c) ==
    /\ OnlyCall(c) /\ Busy(c) /\ call'[c].at # "idle"
    /\ call'[c].op = call[c].op /\ call'[c].actor = call[c].actor
    /\ call'[c].user = call[c].user /\ call'[c].role = call[c].role
    /\ call'[c].dept = call[c].dept /\ call'[c].subject = call[c].subject
    /\ call'[c].key = call[c].key
Ended(c) == OnlyCall(c) /\ Busy(c) /\ call'[c] = IdleCall

\* A request as it comes in.
Fresh(c, q) ==
    /\ CallOK(q) /\ q.at # "idle" /\ q.old = None
    /\ q.op = "role" => q.at = "guard" /\ (q.user = q.actor => q.role = "admin")
    /\ q.op \in {"ban", "createDept", "updateDept", "removeDept", "approve",
                 "reject", "edit", "download", "detail", "pin"}
          => q.at \in {"guard", "read"}
    /\ q.op = "submit" => /\ subject[q.subject].status = "none"
                          /\ \A b \in Calls : call[b].subject # q.subject
    /\ q.op # "submit" /\ q.subject # None => subject[q.subject].status # "none"
    /\ q.op = "edit" => q.at = "read"
    /\ q.op = "edit" => EditsOverlap \/ \A d \in Calls : call[d].op # "edit"
Things == Files \cup {Folder}
\* A reader asks for something, or somebody else arrives.
Looks(c) ==
    \E op \in Readers, at \in {"read", "viewer", "guard"}, actor \in Users,
       target \in Things, own \in BOOLEAN :
          /\ Look(c, op, at, actor, target, own)
          /\ at = "guard" <=> op = "queue"
          /\ at = "viewer" <=> op = "feed"
Arrives(c) ==
    /\ \E q \in CallRecord : /\ Start(c, q) /\ Fresh(c, q)
                              /\ IF q.op \in Readers THEN Looks(c)
                                 ELSE UNCHANGED seen
    /\ UNCHANGED <<accounts, catalog, access>>

LEMMA IdleTyped == IdleCall \in CallRecord /\ CallOK(IdleCall)
  BY DEF IdleCall, CallRecord, CallOK, Positions, Roles, AccountOps, ReviewerOps,
     Lookups

LEMMA StartWrites ==
  ASSUME TypeInv, NEW c \in Calls, NEW q \in CallRecord, CallOK(q), Start(c, q)
  PROVE  /\ OnlyCall(c) /\ call'[c] = q /\ ~Busy(c)
         /\ q.op \in mix /\ q.actor \notin banned
         /\ q.op \in Alone => \A d \in Calls : ~Busy(d)
         /\ \A d \in Calls : call[d].op \notin Alone
  BY DEF TypeInv, AccountsTypeOK, CallInv, Start, OnlyCall

LEMMA FinishEnds ==
  ASSUME TypeInv, NEW c \in Calls, Busy(c), Finish(c)
  PROVE  Ended(c)
  BY IdleTyped DEF TypeInv, AccountsTypeOK, CallInv, Finish, Ended, OnlyCall

LEMMA GotoMoves ==
  ASSUME TypeInv, NEW c \in Calls, Busy(c), NEW at \in Positions,
         at \notin {"idle", "guard"}, Goto(c, at), at = "scope" => call[c].op \in ReviewerOps,
         at = "sign" => call[c].op \in Readers
  PROVE  /\ Moved(c) /\ call'[c].at = at /\ call'[c].old = call[c].old
         /\ call'[c].admin = call[c].admin /\ call'[c].scope = call[c].scope
<1> DEFINE old == call[c]
           new == [old EXCEPT !.at = at]
<1>1. /\ call \in [Calls -> CallRecord] /\ old \in CallRecord
      /\ \A d \in Calls : CallOK(call[d])
  BY DEF TypeInv, AccountsTypeOK, CallInv
<1>2. call' = [call EXCEPT ![c] = new]
  BY <1>1 DEF Goto
<1>3. /\ new \in CallRecord /\ new.at = at
      /\ new.op = old.op /\ new.actor = old.actor /\ new.user = old.user
      /\ new.role = old.role /\ new.dept = old.dept /\ new.subject = old.subject
      /\ new.key = old.key /\ new.old = old.old /\ new.admin = old.admin
      /\ new.scope = old.scope
  BY <1>1 DEF CallRecord
<1>4. old.op # "none" /\ CallOK(old)
  BY <1>1 DEF Busy, CallOK, IdleCall
<1> HIDE DEF new
<1>5. CallOK(new)
  BY <1>3, <1>4 DEF CallOK, Busy
<1>6. call'[c] = new
  BY <1>1, <1>2
<1>7. OnlyCall(c)
  BY <1>1, <1>2, <1>3, <1>5 DEF OnlyCall
<1>8. QED
  BY <1>3, <1>6, <1>7 DEF Moved

-----------------------------------------------------------------------------
(* Every request comes in as one that is fresh.                             *)

LEMMA AccountArrives ==
  ASSUME TypeInv, NEW c \in Calls, AccountArrival(c), UNCHANGED <<catalog, access, seen>>
  PROVE  Arrives(c)
<1> PICK actor \in Users, user \in Users :
          \/ \E new \in Roles : SetRole(c, actor, user, new)
          \/ Ban(c, actor, user)
          \/ Unban(c, actor, user)
          \/ \E op \in AccountOps, d \in Departments :
                Moderate(c, op, actor, user, d)
  BY DEF AccountArrival
<1>1. CASE \E new \in Roles : SetRole(c, actor, user, new)
  <2>1. PICK new \in Roles : SetRole(c, actor, user, new)
    BY <1>1
  <2> DEFINE q == [Request("role", "guard", actor) EXCEPT !.user = user, !.role = new]
  <2>2. /\ q \in CallRecord /\ q.op = "role" /\ q.at = "guard" /\ q.actor = actor
        /\ q.user = user /\ q.role = new /\ q.subject = None /\ q.key = None
        /\ q.old = None
    BY <2>1 DEF Request, IdleCall, CallRecord, Ops, AccountOps, Positions, Roles
  <2>3. /\ Start(c, q) /\ ~(user = actor /\ new # "admin") /\ UNCHANGED accounts
    BY <2>1 DEF SetRole
  <2> HIDE DEF q
  <2>4. Fresh(c, q)
    BY <2>2, <2>3 DEF Fresh, CallOK, Ops, Lookups, AccountOps, ReviewerOps
  <2>5. QED
    BY <2>2, <2>3, <2>4 DEF Arrives, Readers, Lookups
<1>2. CASE Ban(c, actor, user)
  <2> DEFINE q == [Request("ban", "guard", actor) EXCEPT !.user = user]
  <2>1. /\ q \in CallRecord /\ q.op = "ban" /\ q.at = "guard" /\ q.actor = actor
        /\ q.user = user /\ q.subject = None /\ q.key = None /\ q.old = None
    BY DEF Request, IdleCall, CallRecord, Ops, AccountOps, Positions, Roles
  <2>2. Start(c, q) /\ UNCHANGED accounts
    BY <1>2 DEF Ban
  <2> HIDE DEF q
  <2>3. Fresh(c, q)
    BY <2>1 DEF Fresh, CallOK, Ops, Lookups, AccountOps, ReviewerOps
  <2>4. QED
    BY <2>1, <2>2, <2>3 DEF Arrives, Readers, Lookups
<1>3. CASE Unban(c, actor, user)
  <2> DEFINE q == [Request("unban", "guard", actor) EXCEPT !.user = user]
  <2>1. /\ q \in CallRecord /\ q.op = "unban" /\ q.at = "guard" /\ q.actor = actor
        /\ q.user = user /\ q.subject = None /\ q.key = None /\ q.old = None
    BY DEF Request, IdleCall, CallRecord, Ops, AccountOps, Positions, Roles
  <2>2. Start(c, q) /\ UNCHANGED accounts
    BY <1>3 DEF Unban
  <2> HIDE DEF q
  <2>3. Fresh(c, q)
    BY <2>1 DEF Fresh, CallOK, Ops, Lookups, AccountOps, ReviewerOps
  <2>4. QED
    BY <2>1, <2>2, <2>3 DEF Arrives, Readers, Lookups
<1>4. CASE \E op \in AccountOps, d \in Departments : Moderate(c, op, actor, user, d)
  <2>1. PICK op \in AccountOps, d \in Departments : Moderate(c, op, actor, user, d)
    BY <1>4
  <2> DEFINE q == [Request(op, "guard", actor) EXCEPT !.user = user, !.dept = d]
  <2>2. /\ q \in CallRecord /\ q.op = op /\ q.at = "guard" /\ q.actor = actor
        /\ q.user = user /\ q.dept = d /\ q.subject = None /\ q.key = None
        /\ q.old = None
    BY <2>1 DEF Request, IdleCall, CallRecord, Ops, AccountOps, Positions, Roles
  <2>3. /\ Start(c, q) /\ op \in {"assign", "unassign", "unassignAll"}
        /\ UNCHANGED accounts
    BY <2>1 DEF Moderate
  <2> HIDE DEF q
  <2>4. Fresh(c, q)
    BY <2>2, <2>3 DEF Fresh, CallOK, Ops, Lookups, AccountOps, ReviewerOps
  <2>5. QED
    BY <2>2, <2>3, <2>4 DEF Arrives, Readers, Lookups
<1>5. QED
  BY <1>1, <1>2, <1>3, <1>4

LEMMA CatalogArrives ==
  ASSUME TypeInv, NEW c \in Calls, CatalogArrival(c), UNCHANGED <<access, seen>>
  PROVE  Arrives(c)
<1> PICK actor \in Users :
       \/ \E d \in Departments, key \in Keys \cup {None} :
             CreateDept(c, actor, d, key) \/ UpdateDept(c, actor, d, key)
       \/ \E d \in Departments : RemoveDept(c, actor, d)
       \/ \E s \in Subjects, d \in Departments, cover \in BOOLEAN :
             Submit(c, actor, s, d, cover)
       \/ \E s \in Subjects :
             \/ Withdraw(c, actor, s) \/ RemoveSubject(c, actor, s)
             \/ \E op \in Ops : Review(c, op, actor, s)
  BY DEF CatalogArrival
<1>1. CASE \E d \in Departments, key \in Keys \cup {None} :
              CreateDept(c, actor, d, key) \/ UpdateDept(c, actor, d, key)
  <2>1. PICK d \in Departments, key \in Keys \cup {None},
             op \in {"createDept", "updateDept"} :
          /\ Start(c, [Request(op, "guard", actor) EXCEPT !.dept = d, !.key = key])
          /\ UNCHANGED <<accounts, catalog>>
    BY <1>1 DEF CreateDept, UpdateDept
  <2> DEFINE q == [Request(op, "guard", actor) EXCEPT !.dept = d, !.key = key]
  <2>2. /\ q \in CallRecord /\ q.op = op /\ q.at = "guard" /\ q.actor = actor
        /\ q.dept = d /\ q.key = key /\ q.subject = None /\ q.old = None
    BY DEF Request, IdleCall, CallRecord, Ops, CatalogOps, Positions, Roles
  <2>3. Start(c, q)
    BY <2>1
  <2> HIDE DEF q
  <2>4. Fresh(c, q)
    BY <2>2 DEF Fresh, CallOK, Ops, Lookups, AccountOps, CatalogOps, ReviewerOps
  <2>5. QED
    BY <2>1, <2>2, <2>3, <2>4 DEF Arrives, Readers, Lookups
<1>2. CASE \E d \in Departments : RemoveDept(c, actor, d)
  <2>1. PICK d \in Departments : RemoveDept(c, actor, d)
    BY <1>2
  <2> DEFINE q == [Request("removeDept", "guard", actor) EXCEPT !.dept = d]
  <2>2. /\ q \in CallRecord /\ q.op = "removeDept" /\ q.at = "guard"
        /\ q.actor = actor /\ q.dept = d /\ q.key = None /\ q.subject = None
        /\ q.old = None
    BY DEF Request, IdleCall, CallRecord, Ops, CatalogOps, Positions, Roles
  <2>3. Start(c, q) /\ UNCHANGED <<accounts, catalog>>
    BY <2>1 DEF RemoveDept
  <2> HIDE DEF q
  <2>4. Fresh(c, q)
    BY <2>2 DEF Fresh, CallOK, Ops, Lookups, AccountOps, CatalogOps, ReviewerOps
  <2>5. QED
    BY <2>2, <2>3, <2>4 DEF Arrives, Readers, Lookups
<1>3. CASE \E s \in Subjects, d \in Departments, cover \in BOOLEAN :
              Submit(c, actor, s, d, cover)
  <2>1. PICK s \in Subjects, d \in Departments, cover \in BOOLEAN :
              Submit(c, actor, s, d, cover)
    BY <1>3
  <2>2. PICK at \in {"put", "write"} : at = IF cover THEN "put" ELSE "write"
    OBVIOUS
  <2> DEFINE q == [Request("submit", at, actor) EXCEPT !.subject = s, !.dept = d]
  <2>3. /\ q \in CallRecord /\ q.op = "submit" /\ q.at = at
        /\ q.actor = actor /\ q.dept = d /\ q.key = None /\ q.subject = s
        /\ q.old = None
    BY DEF Request, IdleCall, CallRecord, Ops, CatalogOps, Positions, Roles
  <2>4. /\ Start(c, q) /\ UNCHANGED <<accounts, catalog>>
        /\ subject[s].status = "none" /\ \A b \in Calls : call[b].subject # s
    BY <2>1, <2>2 DEF Submit
  <2> HIDE DEF q
  <2>5. Fresh(c, q)
    BY <2>3, <2>4 DEF Fresh, CallOK, Ops, Lookups, AccountOps, CatalogOps, ReviewerOps
  <2>6. QED
    BY <2>3, <2>4, <2>5 DEF Arrives, Readers, Lookups
<1>4. CASE \E s \in Subjects :
             \/ Withdraw(c, actor, s) \/ RemoveSubject(c, actor, s)
             \/ \E op \in Ops : Review(c, op, actor, s)
  <2>1. PICK s \in Subjects :
             \/ Withdraw(c, actor, s) \/ RemoveSubject(c, actor, s)
             \/ \E op \in Ops : Review(c, op, actor, s)
    BY <1>4
  <2>2. subject[s].owner = actor => subject[s].status # "none"
    BY CallsAssumption DEF TypeInv, CatalogTypeOK, NoSubject
  <2>3. PICK op \in {"withdraw", "removeSubject", "approve", "reject"},
             at \in {"guard", "read"} :
          /\ Start(c, [Request(op, at, actor) EXCEPT !.subject = s])
          /\ UNCHANGED <<accounts, catalog>>
          /\ subject[s].status # "none"
    BY <2>1, <2>2 DEF Withdraw, RemoveSubject, Review
  <2> DEFINE q == [Request(op, at, actor) EXCEPT !.subject = s]
  <2>4. /\ q \in CallRecord /\ q.op = op /\ q.at = at /\ q.actor = actor
        /\ q.key = None /\ q.subject = s /\ q.old = None
    BY DEF Request, IdleCall, CallRecord, Ops, CatalogOps, Positions, Roles
  <2>5. Start(c, q)
    BY <2>3
  <2> HIDE DEF q
  <2>6. Fresh(c, q)
    BY <2>3, <2>4 DEF Fresh, CallOK, Ops, Lookups, AccountOps, CatalogOps, ReviewerOps
  <2>7. QED
    BY <2>3, <2>4, <2>5, <2>6 DEF Arrives, Readers, Lookups
<1>5. QED
  BY <1>1, <1>2, <1>3, <1>4

LEMMA AsksLook ==
  ASSUME NEW c \in Calls, NEW actor \in Users, Ask(c, actor)
  PROVE  Looks(c)
<1>1. /\ {"download", "detail", "pin", "feed", "queue"} \subseteq Readers
      /\ Folder \in Things /\ Files \subseteq Things
  BY DEF Readers, Lookups, Things
<1>2. PICK op \in Readers, at \in {"read", "viewer", "guard"}, target \in Things,
           own \in BOOLEAN :
        /\ Look(c, op, at, actor, target, own)
        /\ \/ at = "read" /\ op \in {"download", "detail", "pin"}
           \/ at = "viewer" /\ op = "feed"
           \/ at = "guard" /\ op = "queue"
  BY <1>1 DEF Ask
<1>3. (at = "guard" <=> op = "queue") /\ (at = "viewer" <=> op = "feed")
  BY <1>2
<1>4. QED
  BY <1>2, <1>3 DEF Looks

LEMMA AccessArrives ==
  ASSUME TypeInv, NEW c \in Calls, AccessArrival(c), UNCHANGED catalog
  PROVE  Arrives(c)
<1>1. PICK actor \in Users : Ask(c, actor) \/ Edit(c, actor)
  BY DEF AccessArrival
<1> DEFINE Known(op) == IF op \in Readers THEN Looks(c) ELSE UNCHANGED seen
<1>2. PICK op \in {"download", "detail", "pin", "feed", "queue", "edit"},
           at \in {"guard", "read", "viewer"} :
        /\ Start(c, Request(op, at, actor))
        /\ UNCHANGED <<accounts, access>>
        /\ op # "queue" => at # "guard"
        /\ op \in {"edit", "download", "detail", "pin"} => at = "read"
        /\ op = "edit" => EditsOverlap \/ \A d \in Calls : call[d].op # "edit"
        /\ Known(op)
  <2>1. CASE Ask(c, actor)
    <3>1. Looks(c)
      BY <2>1, AsksLook
    <3>2. PICK op \in {"download", "detail", "pin", "feed", "queue"},
               at \in {"guard", "read", "viewer"} :
            /\ Start(c, Request(op, at, actor))
            /\ UNCHANGED <<accounts, access>>
            /\ op # "queue" => at # "guard"
            /\ op \in {"edit", "download", "detail", "pin"} => at = "read"
      BY <2>1 DEF Ask, Look
    <3>3. Known(op)
      BY <3>1 DEF Readers, Lookups
    <3> HIDE DEF Known
    <3>4. QED
      BY <3>2, <3>3
  <2>2. CASE Edit(c, actor)
    BY <2>2 DEF Edit, Readers, Lookups
  <2>3. QED
    BY <1>1, <2>1, <2>2
<1> DEFINE q == Request(op, at, actor)
<1>3. /\ q \in CallRecord /\ q.op = op /\ q.at = at /\ q.actor = actor
      /\ q.key = None /\ q.subject = None /\ q.old = None
  BY DEF Request, IdleCall, CallRecord, Ops, AccessOps, Positions, Roles
<1>4. Start(c, q)
  BY <1>2
<1> HIDE DEF q
<1>5. Fresh(c, q)
  BY <1>2, <1>3 DEF Fresh, CallOK, Ops, Lookups, AccountOps, AccessOps, ReviewerOps
<1>6. QED
  BY <1>2, <1>3, <1>4, <1>5 DEF Arrives, Readers, Lookups

-----------------------------------------------------------------------------
(* Every other step of a handler moves its call on or ends it.              *)

Goes(c) == Moved(c) \/ Ended(c)

LEMMA NewRecordMoves ==
  ASSUME TypeInv, NEW c \in Calls, Busy(c), NEW new \in CallRecord,
         call' = [call EXCEPT ![c] = new], new.at \notin {"idle", "guard"},
         new.op = call[c].op, new.actor = call[c].actor, new.user = call[c].user,
         new.role = call[c].role, new.dept = call[c].dept,
         new.subject = call[c].subject, new.key = call[c].key,
         new.old # None => call[c].op \in {"updateDept", "removeDept"},
         new.at = "scope" => call[c].op \in ReviewerOps,
         new.at = "sign" => call[c].op \in Readers
  PROVE  Moved(c) /\ call'[c] = new
<1>1. /\ call \in [Calls -> CallRecord] /\ CallOK(call[c])
      /\ \A d \in Calls : CallOK(call[d])
  BY DEF TypeInv, AccountsTypeOK, CallInv
<1>2. CallOK(new)
  BY <1>1 DEF CallOK, Busy, IdleCall
<1>3. call'[c] = new
  BY <1>1
<1>4. OnlyCall(c)
  BY <1>1, <1>2 DEF OnlyCall
<1>5. QED
  BY <1>3, <1>4 DEF Moved

\* The steps that note something in the call.
LEMMA ReviewerRoleMoves ==
  ASSUME TypeInv, NEW c \in Calls, ReviewerRole(c)
  PROVE  /\ Moved(c) /\ call[c].at = "guard" /\ call[c].op \in ReviewerOps
         /\ call'[c].at = "scope" /\ call'[c].admin = IsAdmin(call[c].actor)
         /\ call'[c].old = call[c].old
<1>1. call[c] \in CallRecord /\ call \in [Calls -> CallRecord]
  BY DEF TypeInv, AccountsTypeOK
<1>2. PICK admin \in BOOLEAN : admin = IsAdmin(call[c].actor)
  BY DEF IsAdmin
<1> DEFINE new == [call[c] EXCEPT !.at = "scope", !.admin = admin]
<1>3. /\ new \in CallRecord /\ new.at = "scope" /\ new.admin = admin
      /\ new.op = call[c].op /\ new.actor = call[c].actor
      /\ new.user = call[c].user /\ new.role = call[c].role
      /\ new.dept = call[c].dept /\ new.subject = call[c].subject
      /\ new.key = call[c].key /\ new.old = call[c].old
  BY ZenonT(60), <1>1 DEF CallRecord, Positions
<1>4. Busy(c) /\ call[c].op \in ReviewerOps /\ call[c].at = "guard"
  BY DEF ReviewerRole, Busy
<1>5. call' = [call EXCEPT ![c] = new]
  BY <1>1, <1>2 DEF ReviewerRole
<1>6. call[c].old # None => call[c].op \in {"updateDept", "removeDept"}
  BY DEF TypeInv, CallInv, CallOK
<1> HIDE DEF new
<1>7. Moved(c) /\ call'[c] = new
  BY ZenonT(60), <1>3, <1>4, <1>5, <1>6, NewRecordMoves
<1>8. QED
  BY <1>2, <1>3, <1>4, <1>7

LEMMA ReviewerScopeMoves ==
  ASSUME TypeInv, NEW c \in Calls, ReviewerScope(c)
  PROVE  /\ call[c].at = "scope" /\ call[c].op \in ReviewerOps
         /\ \/ Ended(c)
            \/ /\ Moved(c) /\ call'[c].at = "read"
               /\ call'[c].old = call[c].old
               /\ call'[c].admin = call[c].admin
               /\ call'[c].scope = {d \in Departments :
                                       <<call[c].actor, d>> \in moderators}
<1>1. /\ call[c] \in CallRecord /\ call \in [Calls -> CallRecord]
      /\ CallOK(call[c])
  BY DEF TypeInv, AccountsTypeOK, CallInv
<1> DEFINE mine == {d \in Departments : <<call[c].actor, d>> \in moderators}
<1>2. call[c].at = "scope" /\ Busy(c) /\ call[c].op \in ReviewerOps
  BY <1>1 DEF ReviewerScope, Busy, CallOK
<1>3. CASE Finish(c)
  BY <1>2, <1>3, FinishEnds
<1>4. CASE call' = [call EXCEPT ![c].at = "read", ![c].scope = mine]
  <2> DEFINE new == [call[c] EXCEPT !.at = "read", !.scope = mine]
  <2>1. mine \in SUBSET Departments
    OBVIOUS
  <2>2. call' = [call EXCEPT ![c] = new]
    BY <1>1, <1>4
  <2>3. /\ new \in CallRecord /\ new.at = "read" /\ new.scope = mine
        /\ new.op = call[c].op /\ new.actor = call[c].actor
        /\ new.user = call[c].user /\ new.role = call[c].role
        /\ new.dept = call[c].dept /\ new.subject = call[c].subject
        /\ new.key = call[c].key /\ new.old = call[c].old
        /\ new.admin = call[c].admin
    <3> HIDE DEF mine
    <3>1. QED
      BY ZenonT(60), <1>1, <2>1 DEF CallRecord, Positions
  <2>4. new.old # None => call[c].op \in {"updateDept", "removeDept"}
    BY <1>1, <2>3 DEF CallOK
  <2> HIDE DEF new, mine
  <2>5. Moved(c) /\ call'[c] = new
    BY <1>2, <2>2, <2>3, <2>4, NewRecordMoves
  <2>6. QED
    BY <1>2, <2>3, <2>5 DEF mine
<1>5. QED
  BY <1>3, <1>4 DEF ReviewerScope

LEMMA DeptReadMoves ==
  ASSUME TypeInv, NEW c \in Calls, UpdateDeptRead(c) \/ RemoveDeptRead(c)
  PROVE  /\ call[c].op \in {"updateDept", "removeDept"} /\ call[c].at = "read"
         /\ \/ Ended(c)
            \/ /\ Moved(c)
               /\ call'[c].at = IF call[c].op = "updateDept" THEN "put" ELSE "count"
               /\ call'[c].old = dept[call[c].dept].logo
<1>1. /\ call[c] \in CallRecord /\ call \in [Calls -> CallRecord]
      /\ CallOK(call[c])
  BY DEF TypeInv, AccountsTypeOK, CallInv
<1>2. /\ call[c].op \in {"updateDept", "removeDept"} /\ call[c].at = "read"
      /\ Busy(c)
  BY DEF UpdateDeptRead, RemoveDeptRead, At, Busy
<1>3. PICK logo \in Keys \cup {None} : logo = dept[call[c].dept].logo
  BY <1>1, <1>2 DEF TypeInv, CatalogTypeOK, CallOK
<1>4. PICK at \in {"put", "count"} :
              at = IF call[c].op = "updateDept" THEN "put" ELSE "count"
  OBVIOUS
<1>5. CASE Finish(c)
  BY <1>2, <1>5, FinishEnds
<1>6. CASE call' = [call EXCEPT ![c].at = at, ![c].old = logo]
  <2> DEFINE new == [call[c] EXCEPT !.at = at, !.old = logo]
  <2>1. call' = [call EXCEPT ![c] = new]
    BY <1>1, <1>6
  <2>2. /\ new \in CallRecord /\ new.at = at /\ new.old = logo
        /\ new.op = call[c].op /\ new.actor = call[c].actor
        /\ new.user = call[c].user /\ new.role = call[c].role
        /\ new.dept = call[c].dept /\ new.subject = call[c].subject
        /\ new.key = call[c].key
    <3>1. at \in Positions
      BY DEF Positions
    <3>2. QED
      BY ZenonT(60), <1>1, <3>1 DEF CallRecord
  <2> HIDE DEF new
  <2>3. Moved(c) /\ call'[c] = new
    BY <1>2, <1>4, <2>1, <2>2, NewRecordMoves
  <2>4. QED
    BY <1>2, <1>3, <1>4, <2>2, <2>3
<1>7. QED
  BY <1>2, <1>3, <1>4, <1>5, <1>6 DEF UpdateDeptRead, RemoveDeptRead, At

LEMMA FeedViewerMoves ==
  ASSUME TypeInv, NEW c \in Calls, FeedViewer(c)
  PROVE  /\ Moved(c) /\ At(c, "feed", "viewer") /\ call'[c].at = "read"
         /\ call'[c].admin = IsAdmin(call[c].actor)
<1>1. /\ call[c] \in CallRecord /\ call \in [Calls -> CallRecord]
      /\ CallOK(call[c])
  BY DEF TypeInv, AccountsTypeOK, CallInv
<1>2. PICK admin \in BOOLEAN : admin = IsAdmin(call[c].actor)
  BY DEF IsAdmin
<1> DEFINE new == [call[c] EXCEPT !.at = "read", !.admin = admin]
<1>3. /\ new \in CallRecord /\ new.at = "read" /\ new.admin = admin
      /\ new.op = call[c].op /\ new.actor = call[c].actor
      /\ new.user = call[c].user /\ new.role = call[c].role
      /\ new.dept = call[c].dept /\ new.subject = call[c].subject
      /\ new.key = call[c].key /\ new.old = call[c].old
  BY ZenonT(60), <1>1 DEF CallRecord, Positions
<1>4. Busy(c) /\ At(c, "feed", "viewer")
  BY DEF FeedViewer, Busy, At
<1>5. call' = [call EXCEPT ![c] = new]
  BY <1>1, <1>2 DEF FeedViewer
<1>6. call[c].old # None => call[c].op \in {"updateDept", "removeDept"}
  BY <1>1 DEF CallOK
<1> HIDE DEF new
<1>7. Moved(c) /\ call'[c] = new
  BY <1>3, <1>4, <1>5, <1>6, NewRecordMoves
<1>8. QED
  BY <1>2, <1>3, <1>4, <1>7

LEMMA AccountStepGoes ==
  ASSUME TypeInv, NEW c \in Calls, AccountStep(c) \/ Assign(c, There)
  PROVE  Goes(c)
<1>1. \A at \in Positions : Busy(c) /\ at \notin {"idle", "guard", "scope", "sign"}
                            /\ Goto(c, at) => Goes(c)
  BY GotoMoves DEF Goes
<1>2. Busy(c) /\ Finish(c) => Goes(c)
  BY FinishEnds DEF Goes
<1>3. CASE AdminGuard(c)
  <2>1. /\ Busy(c) /\ FirstOf(call[c].op) \in {"write", "put", "read"}
        /\ Goto(c, FirstOf(call[c].op)) \/ Finish(c)
    BY <1>3 DEF AdminGuard, Busy, FirstOf
  <2>2. QED
    BY <1>1, <1>2, <2>1 DEF Positions
<1>4. CASE SetRoleRead(c) \/ SetRoleCount(c) \/ SetRoleWrite(c)
  <2>1. /\ Busy(c)
        /\ Goto(c, "count") \/ Goto(c, "write") \/ Finish(c)
    BY <1>4 DEF SetRoleRead, SetRoleCount, SetRoleWrite, At, Busy
  <2>2. QED
    BY <1>1, <1>2, <2>1 DEF Positions
<1>5. CASE BanRead(c) \/ BanCheck(c) \/ BanInsert(c) \/ BanStrip(c)
  <2>1. /\ Busy(c)
        /\ Goto(c, "check") \/ Goto(c, "write") \/ Goto(c, "strip") \/ Finish(c)
    BY <1>5 DEF BanRead, BanCheck, BanInsert, BanStrip, At, Busy
  <2>2. QED
    BY <1>1, <1>2, <2>1 DEF Positions
<1>6. CASE UnbanRead(c) \/ UnbanWrite(c) \/ Unassign(c) \/ UnassignAll(c)
           \/ Assign(c, There)
  <2>1. Busy(c) /\ (Goto(c, "write") \/ Finish(c))
    BY <1>6 DEF UnbanRead, UnbanWrite, Unassign, UnassignAll, Assign, At, Busy
  <2>2. QED
    BY <1>1, <1>2, <2>1 DEF Positions
<1>7. CASE ReviewerRole(c)
  BY <1>7, ReviewerRoleMoves DEF Goes
<1>8. CASE ReviewerScope(c)
  BY <1>8, ReviewerScopeMoves DEF Goes
<1>9. QED
  BY <1>3, <1>4, <1>5, <1>6, <1>7, <1>8 DEF AccountStep

LEMMA CatalogStepGoes ==
  ASSUME TypeInv, NEW c \in Calls, CatalogStep(c)
  PROVE  Goes(c)
<1>1. \A at \in Positions : Busy(c) /\ at \notin {"idle", "guard", "scope", "sign"}
                            /\ Goto(c, at) => Goes(c)
  BY GotoMoves DEF Goes
<1>2. Busy(c) /\ Finish(c) => Goes(c)
  BY FinishEnds DEF Goes
<1>3. CASE PutFile(c) \/ CreateDeptSave(c) \/ SaveFails(c) \/ UpdateDeptSave(c)
  <2>1. Busy(c) /\ (Goto(c, "write") \/ Goto(c, "clean") \/ Finish(c))
    BY <1>3 DEF PutFile, CreateDeptSave, SaveFails, UpdateDeptSave, At, Busy
  <2>2. QED
    BY <1>1, <1>2, <2>1 DEF Positions
<1>4. CASE RemoveDeptCount(c) \/ RemoveDeptWrite(c) \/ CleanLogo(c)
  <2>1. Busy(c) /\ (Goto(c, "write") \/ Goto(c, "clean") \/ Finish(c))
    BY <1>4 DEF RemoveDeptCount, RemoveDeptWrite, CleanLogo, At, Busy
  <2>2. QED
    BY <1>1, <1>2, <2>1 DEF Positions
<1>5. CASE SubmitPut(c) \/ SubmitSave(c) \/ SubmitFails(c) \/ WithdrawRead(c)
           \/ DeleteSubject(c)
  <2>1. Busy(c) /\ (Goto(c, "write") \/ Finish(c))
    BY <1>5 DEF SubmitPut, SubmitSave, SubmitFails, WithdrawRead, DeleteSubject,
       At, Busy
  <2>2. QED
    BY <1>1, <1>2, <2>1 DEF Positions
<1>6. CASE ReviewRead(c) \/ RejectCover(c) \/ ReviewWrite(c)
  <2>1. Busy(c) /\ (Goto(c, "write") \/ Goto(c, "clean") \/ Finish(c))
    BY <1>6 DEF ReviewRead, RejectCover, ReviewWrite, Proceed, At, Busy
  <2>2. QED
    BY <1>1, <1>2, <2>1 DEF Positions
<1>7. CASE UpdateDeptRead(c) \/ RemoveDeptRead(c)
  BY <1>7, DeptReadMoves DEF Goes
<1>8. QED
  BY <1>3, <1>4, <1>5, <1>6, <1>7 DEF CatalogStep

LEMMA AccessStepGoes ==
  ASSUME TypeInv, NEW c \in Calls, AccessStep(c)
  PROVE  Goes(c)
<1>1. \A at \in Positions : /\ Busy(c) /\ at \notin {"idle", "guard", "scope"}
                            /\ (at = "sign" => call[c].op \in Readers)
                            /\ Goto(c, at)
                            => Goes(c)
  BY GotoMoves DEF Goes
<1>2. Busy(c) /\ Finish(c) => Goes(c)
  BY FinishEnds DEF Goes
<1>3. \A links : Busy(c) /\ call[c].op \in Readers /\ Sign(c, links) => Goes(c)
  BY <1>1, <1>2 DEF Sign, Positions
<1>4. CASE LoadUpload(c)
  <2>1. Busy(c) /\ (Goto(c, "viewer") \/ Finish(c))
    BY <1>4 DEF LoadUpload, Busy
  <2>2. QED
    BY <1>1, <1>2, <2>1 DEF Positions
<1>5. CASE LoadViewer(c) \/ FeedQuery(c) \/ QueueQuery(c)
  BY <1>3, <1>5
  DEF LoadViewer, FeedQuery, QueueQuery, At, Busy, Readers, Lookups
<1>6. CASE HandOut(c) \/ EditWrite(c)
  BY <1>2, <1>6 DEF HandOut, EditWrite, At, Busy
<1>7. CASE EditRead(c)
  <2>1. Busy(c) /\ Goto(c, "write")
    BY <1>7 DEF EditRead, At, Busy
  <2>2. QED
    BY <1>1, <2>1 DEF Positions
<1>8. CASE FeedViewer(c)
  BY <1>8, FeedViewerMoves DEF Goes
<1>9. QED
  BY <1>4, <1>5, <1>6, <1>7, <1>8 DEF AccessStep

\* What a step is, by whose it is.
LEMMA NextCases ==
  ASSUME TypeInv, Next
  PROVE  /\ UNCHANGED mix
         /\ \/ \E c \in Calls :
                  \/ Arrives(c)
                  \/ /\ AccountStep(c) \/ Assign(c, There)
                     /\ UNCHANGED <<catalog, access, seen>>
                  \/ CatalogStep(c) /\ UNCHANGED <<access, seen>>
                  \/ AccessStep(c) /\ UNCHANGED <<accounts, catalog>>
            \/ Surroundings /\ UNCHANGED <<accounts, catalog, call>>
<1>1. CASE \E c \in Calls : AccountsNext(c)
  <2>1. PICK c \in Calls : AccountsNext(c)
    BY <1>1
  <2>2. AccountArrival(c) => Arrives(c)
    BY <2>1, AccountArrives DEF AccountsNext
  <2>3. QED
    BY <2>1, <2>2 DEF AccountsNext, Next
<1>2. CASE \E c \in Calls : CatalogNext(c)
  <2>1. PICK c \in Calls : CatalogNext(c)
    BY <1>2
  <2>2. CatalogArrival(c) => Arrives(c)
    BY <2>1, CatalogArrives DEF CatalogNext
  <2>3. QED
    BY <2>1, <2>2 DEF CatalogNext, Next
<1>3. CASE AccessNext
  <2>1. CASE Surroundings
    BY <1>3, <2>1
    DEF AccessNext, Next, Surroundings, Hide, Decide, DayEnds, Place, accounts
  <2>2. CASE \E c \in Calls : AccessArrival(c) \/ AccessStep(c)
    <3>1. PICK c \in Calls : AccessArrival(c) \/ AccessStep(c)
      BY <2>2
    <3>2. AccessArrival(c) => Arrives(c)
      BY <1>3, <3>1, AccessArrives DEF AccessNext
    <3>3. AccessStep(c) => UNCHANGED accounts
      BY DEF AccessStep, LoadUpload, LoadViewer, FeedViewer, FeedQuery,
         QueueQuery, HandOut, EditRead, EditWrite
    <3>4. QED
      BY <1>3, <3>1, <3>2, <3>3 DEF AccessNext, Next
  <2>3. QED
    BY <1>3, <2>1, <2>2 DEF AccessNext
<1>4. QED
  BY <1>1, <1>2, <1>3 DEF Next

\* What becomes of the calls, whatever the step.
LEMMA CallSteps ==
  ASSUME TypeInv, Next
  PROVE  UNCHANGED call \/ \E c \in Calls : Arrives(c) \/ Goes(c)
BY NextCases, AccountStepGoes, CatalogStepGoes, AccessStepGoes

LEMMA CallsTyped ==
  ASSUME TypeInv, Next
  PROVE  call' \in [Calls -> CallRecord] /\ CallInv'
<1>1. CASE UNCHANGED call
  BY <1>1 DEF TypeInv, AccountsTypeOK, CallInv
<1>2. CASE \E c \in Calls : Arrives(c)
  BY <1>2, StartWrites DEF Arrives, Fresh, OnlyCall, CallInv
<1>3. CASE \E c \in Calls : Goes(c)
  BY <1>3 DEF Goes, Moved, Ended, OnlyCall, CallInv
<1>4. QED
  BY <1>1, <1>2, <1>3, CallSteps

-----------------------------------------------------------------------------
(* The rows of accounts and of the catalogue.                               *)

LEMMA PairsDeleted ==
  ASSUME TypeInv, NEW pairs, DeletePairs(pairs)
  PROVE  /\ moderators' \in SUBSET (Users \X Departments)
         /\ knowingly' \in SUBSET moderators'
         /\ role' \in [Users -> Roles] /\ banned' \in SUBSET Users
BY DEF TypeInv, AccountsTypeOK, DeletePairs

LEMMA AccountRowsTyped ==
  ASSUME TypeInv, NEW c \in Calls, AccountStep(c) \/ Assign(c, There)
  PROVE  /\ moderators' \in SUBSET (Users \X Departments)
         /\ knowingly' \in SUBSET moderators'
         /\ role' \in [Users -> Roles] /\ banned' \in SUBSET Users
<1> DEFINE Typed == /\ moderators' \in SUBSET (Users \X Departments)
                    /\ knowingly' \in SUBSET moderators'
                    /\ role' \in [Users -> Roles] /\ banned' \in SUBSET Users
<1>1. /\ role \in [Users -> Roles] /\ banned \in SUBSET Users
      /\ moderators \in SUBSET (Users \X Departments)
      /\ knowingly \in SUBSET moderators
      /\ call[c] \in CallRecord /\ CallOK(call[c])
  BY DEF TypeInv, AccountsTypeOK, CallInv
<1>2. UNCHANGED accounts => Typed
  BY <1>1 DEF accounts
<1>3. \A pairs : DeletePairs(pairs) => Typed
  BY PairsDeleted
<1>4. CASE SetRoleWrite(c)
  <2>1. /\ role' = [role EXCEPT ![call[c].user] = call[c].role]
        /\ UNCHANGED <<banned, moderators, knowingly>>
    BY <1>4 DEF SetRoleWrite
  <2>2. call[c].role \in Roles
    BY <1>1 DEF CallRecord
  <2>3. QED
    BY <1>1, <2>1, <2>2
<1>5. CASE BanInsert(c)
  <2>1. call[c].user \in Users
    BY <1>1, <1>5 DEF BanInsert, At, CallOK, AccountOps
  <2>2. QED
    BY <1>1, <1>5, <2>1 DEF BanInsert
<1>6. CASE UnbanWrite(c)
  BY <1>1, <1>6 DEF UnbanWrite
<1>7. CASE Assign(c, There)
  <2>1. <<call[c].user, call[c].dept>> \in Users \X Departments
    BY <1>1, <1>7 DEF Assign, At, CallOK, AccountOps
  <2>2. /\ UNCHANGED <<role, banned>>
        /\ \/ UNCHANGED <<moderators, knowingly>>
           \/ \E pair \in Users \X Departments :
                 /\ moderators' = moderators \cup {pair}
                 /\ knowingly' \in {knowingly, knowingly \cup {pair}}
    BY <1>7, <2>1 DEF Assign
  <2>3. QED
    BY <1>1, <2>2
<1>8. CASE BanStrip(c) \/ Unassign(c) \/ UnassignAll(c)
  BY <1>3, <1>8 DEF BanStrip, Unassign, UnassignAll
<1>9. CASE AdminGuard(c) \/ SetRoleRead(c) \/ SetRoleCount(c) \/ BanRead(c)
           \/ BanCheck(c) \/ UnbanRead(c) \/ ReviewerRole(c) \/ ReviewerScope(c)
  BY <1>2, <1>9 DEF AdminGuard, SetRoleRead, SetRoleCount, BanRead, BanCheck,
     UnbanRead, ReviewerRole, ReviewerScope
<1>10. QED
  BY <1>4, <1>5, <1>6, <1>7, <1>8, <1>9 DEF AccountStep

LEMMA SubjectRowTyped ==
  ASSUME CatalogTypeOK, NEW s \in Subjects,
         NEW new \in [status : Statuses, owner : Users \cup {None},
                      dept : Departments \cup {None}, cover : BOOLEAN],
         \/ new = NoSubject
         \/ new.status # "none" /\ None \notin {new.owner, new.dept},
         subject' = [subject EXCEPT ![s] = new],
         UNCHANGED <<dept, logos, used>>, covers' \in SUBSET Subjects
  PROVE  CatalogTypeOK'
BY DEF CatalogTypeOK

LEMMA DeptRowTyped ==
  ASSUME CatalogTypeOK, NEW d \in Departments,
         NEW new \in [on : BOOLEAN, logo : Keys \cup {None}],
         dept' = [dept EXCEPT ![d] = new],
         UNCHANGED <<logos, subject, covers, used>>
  PROVE  CatalogTypeOK'
BY DEF CatalogTypeOK

LEMMA CatalogRowsTyped ==
  ASSUME TypeInv, NEW c \in Calls, CatalogStep(c)
  PROVE  /\ CatalogTypeOK'
         /\ moderators' \in SUBSET (Users \X Departments)
         /\ knowingly' \in SUBSET moderators'
         /\ role' \in [Users -> Roles] /\ banned' \in SUBSET Users
<1> DEFINE Accounted == /\ moderators' \in SUBSET (Users \X Departments)
                        /\ knowingly' \in SUBSET moderators'
                        /\ role' \in [Users -> Roles] /\ banned' \in SUBSET Users
<1>1. /\ CatalogTypeOK /\ call[c] \in CallRecord /\ CallOK(call[c])
      /\ call \in [Calls -> CallRecord]
  BY DEF TypeInv, AccountsTypeOK, CallInv
<1>2. UNCHANGED accounts => Accounted
  BY DEF accounts, TypeInv, AccountsTypeOK
<1>3. UNCHANGED catalog => CatalogTypeOK'
  BY <1>1 DEF catalog, CatalogTypeOK
<1>4. call[c].key \in Keys \cup {None} /\ call[c].old \in Keys \cup {None}
  BY <1>1 DEF CallRecord
<1>5. CASE PutFile(c) \/ SaveFails(c) \/ CleanLogo(c)
  <2>1. UNCHANGED <<accounts, dept, subject, covers>>
    BY <1>5 DEF PutFile, SaveFails, CleanLogo
  <2>2. logos' \in SUBSET Keys /\ used' \in SUBSET Keys
    BY <1>1, <1>4, <1>5
    DEF PutFile, PutLogo, SaveFails, CleanLogo, CatalogTypeOK
  <2>3. QED
    BY <1>1, <1>2, <2>1, <2>2 DEF CatalogTypeOK
<1>6. CASE CreateDeptSave(c) \/ UpdateDeptSave(c)
  <2>1. call[c].dept \in Departments
    BY <1>1, <1>6 DEF CreateDeptSave, UpdateDeptSave, At, CallOK
  <2>2. PICK logo \in Keys \cup {None} :
              dept' = [dept EXCEPT ![call[c].dept] = [on |-> TRUE, logo |-> logo]]
    BY <1>4, <1>6 DEF CreateDeptSave, UpdateDeptSave
  <2>3. UNCHANGED <<accounts, logos, subject, covers, used>>
    BY <1>6 DEF CreateDeptSave, UpdateDeptSave
  <2>4. QED
    BY <1>1, <1>2, <2>1, <2>2, <2>3, DeptRowTyped
<1>7. CASE RemoveDeptWrite(c)
  <2> DEFINE d == call[c].dept
  <2>1. /\ dept' = [dept EXCEPT ![d] = [on |-> FALSE, logo |-> None]]
        /\ subject' = [s \in Subjects |-> IF s \in InDept(d) THEN NoSubject
                                          ELSE subject[s]]
        /\ DeletePairs(Users \X {d}) /\ UNCHANGED <<logos, covers, used>>
    BY <1>7 DEF RemoveDeptWrite
  <2>2. dept' \in [Departments -> [on : BOOLEAN, logo : Keys \cup {None}]]
    BY <1>1, <2>1 DEF CatalogTypeOK
  <2>3. NoSubject \in [status : Statuses, owner : Users \cup {None},
                       dept : Departments \cup {None}, cover : BOOLEAN]
    BY DEF NoSubject, Statuses
  <2>4. subject' \in [Subjects -> [status : Statuses, owner : Users \cup {None},
                                   dept : Departments \cup {None},
                                   cover : BOOLEAN]]
    BY <1>1, <2>1, <2>3 DEF CatalogTypeOK
  <2>5. \A s \in Subjects : subject'[s] = subject[s] \/ subject'[s] = NoSubject
    BY <2>1
  <2>6. CatalogTypeOK'
    BY <1>1, <2>1, <2>2, <2>4, <2>5 DEF CatalogTypeOK
  <2>7. QED
    BY <2>1, <2>6, PairsDeleted
<1>8. CASE SubmitPut(c) \/ SubmitFails(c) \/ RejectCover(c)
  <2>1. call[c].subject \in Subjects
    BY <1>1, <1>8 DEF SubmitPut, SubmitFails, RejectCover, At, CallOK
  <2>2. /\ covers' \in SUBSET Subjects
        /\ UNCHANGED <<accounts, dept, logos, subject, used>>
    BY <1>1, <1>8, <2>1 DEF SubmitPut, SubmitFails, RejectCover, CatalogTypeOK
  <2>3. QED
    BY <1>1, <1>2, <2>2 DEF CatalogTypeOK
<1>9. CASE SubmitSave(c)
  <2> DEFINE s == call[c].subject
             new == [status |-> "pending", owner |-> call[c].actor,
                     dept |-> call[c].dept, cover |-> s \in covers]
  <2>1. /\ s \in Subjects /\ call[c].dept \in Departments
        /\ call[c].actor \in Users
    BY <1>1, <1>9 DEF SubmitSave, At, CallOK
  <2>2. /\ new \in [status : Statuses, owner : Users \cup {None},
                    dept : Departments \cup {None}, cover : BOOLEAN]
        /\ new.status # "none" /\ None \notin {new.owner, new.dept}
    BY <2>1, CallsAssumption DEF Statuses
  <2>3. /\ subject' = [subject EXCEPT ![s] = new]
        /\ UNCHANGED <<accounts, dept, logos, covers, used>>
    BY <1>9 DEF SubmitSave
  <2>4. covers' \in SUBSET Subjects
    BY <1>1, <2>3 DEF CatalogTypeOK
  <2> HIDE DEF new, s
  <2>5. QED
    BY <1>1, <1>2, <2>1, <2>2, <2>3, <2>4, SubjectRowTyped DEF s
<1>10. CASE DeleteSubject(c)
  <2>1. call[c].subject \in Subjects
    BY <1>1, <1>10 DEF DeleteSubject, CallOK
  <2>2. NoSubject \in [status : Statuses, owner : Users \cup {None},
                       dept : Departments \cup {None}, cover : BOOLEAN]
    BY DEF NoSubject, Statuses
  <2>3. /\ subject' = [subject EXCEPT ![call[c].subject] = NoSubject]
        /\ UNCHANGED <<accounts, dept, logos, covers, used>>
    BY <1>10 DEF DeleteSubject
  <2>4. covers' \in SUBSET Subjects
    BY <1>1, <2>3 DEF CatalogTypeOK
  <2>5. QED
    BY <1>1, <1>2, <2>1, <2>2, <2>3, <2>4, SubjectRowTyped
<1>11. CASE ReviewWrite(c)
  <2>1. call[c].subject \in Subjects
    BY <1>1, <1>11 DEF ReviewWrite, CallOK
  <2>2. PICK st \in Statuses :
          /\ subject' = [subject EXCEPT ![call[c].subject].status = st]
          /\ st = "none" <=> subject[call[c].subject].status = "none"
    <3>1. subject[call[c].subject].status \in Statuses
      BY <1>1, <2>1 DEF CatalogTypeOK
    <3>2. PICK new \in {"active", "rejected"} :
            subject' = [subject EXCEPT ![call[c].subject].status =
                            IF @ = "none" THEN @ ELSE new]
      BY <1>11 DEF ReviewWrite
    <3>3. QED
      BY <3>1, <3>2 DEF Statuses
  <2>3. UNCHANGED <<accounts, dept, logos, covers, used>>
    BY <1>11 DEF ReviewWrite
  <2> DEFINE old == subject[call[c].subject]
             new == [old EXCEPT !.status = st]
  <2>4. old \in [status : Statuses, owner : Users \cup {None},
                 dept : Departments \cup {None}, cover : BOOLEAN]
    BY <1>1, <2>1 DEF CatalogTypeOK
  <2>5. subject' = [subject EXCEPT ![call[c].subject] = new]
    BY <1>1, <2>1, <2>2 DEF CatalogTypeOK
  <2>6. /\ new \in [status : Statuses, owner : Users \cup {None},
                    dept : Departments \cup {None}, cover : BOOLEAN]
        /\ new.status = st /\ new.owner = old.owner /\ new.dept = old.dept
    BY <2>4
  <2>7. \/ new = NoSubject
        \/ new.status # "none" /\ None \notin {new.owner, new.dept}
    <3>1. CASE old = NoSubject
      <4>1. old.status = "none"
        BY <3>1 DEF NoSubject
      <4>2. st = "none"
        BY <2>2, <4>1
      <4>3. \A r \in [status : Statuses, owner : Users \cup {None},
                       dept : Departments \cup {None}, cover : BOOLEAN] :
               r.status = "none" => [r EXCEPT !.status = "none"] = r
        OBVIOUS
      <4>4. QED
        BY <2>4, <3>1, <4>1, <4>2, <4>3
    <3>2. CASE old # NoSubject
      BY <1>1, <2>1, <2>2, <2>6, <3>2 DEF CatalogTypeOK
    <3>3. QED
      BY <3>1, <3>2
  <2>8. covers' \in SUBSET Subjects
    BY <1>1, <2>3 DEF CatalogTypeOK
  <2> HIDE DEF new, old
  <2>9. QED
    BY <1>1, <1>2, <2>1, <2>3, <2>5, <2>6, <2>7, <2>8, SubjectRowTyped
<1>12. CASE UpdateDeptRead(c) \/ RemoveDeptRead(c) \/ RemoveDeptCount(c)
            \/ WithdrawRead(c) \/ ReviewRead(c)
  BY <1>2, <1>3, <1>12 DEF UpdateDeptRead, RemoveDeptRead, RemoveDeptCount,
     WithdrawRead, ReviewRead
<1>13. QED
  BY <1>5, <1>6, <1>7, <1>8, <1>9, <1>10, <1>11, <1>12 DEF CatalogStep

LEMMA TypeInvNext ==
  ASSUME TypeInv, Next
  PROVE  TypeInv'
<1>1. mix' \in Mixes /\ call' \in [Calls -> CallRecord] /\ CallInv'
  BY CallsTyped, NextCases DEF TypeInv, AccountsTypeOK
<1>2. UNCHANGED accounts => /\ moderators' \in SUBSET (Users \X Departments)
                            /\ knowingly' \in SUBSET moderators'
                            /\ role' \in [Users -> Roles]
                            /\ banned' \in SUBSET Users
  BY DEF TypeInv, AccountsTypeOK, accounts
<1>3. UNCHANGED catalog => CatalogTypeOK'
  BY DEF TypeInv, CatalogTypeOK, catalog
<1>4. CASE UNCHANGED <<accounts, catalog>>
  BY <1>1, <1>2, <1>3, <1>4 DEF TypeInv, AccountsTypeOK
<1>5. CASE \E c \in Calls : /\ AccountStep(c) \/ Assign(c, There)
                            /\ UNCHANGED catalog
  BY <1>1, <1>3, <1>5, AccountRowsTyped DEF TypeInv, AccountsTypeOK
<1>6. CASE \E c \in Calls : CatalogStep(c)
  BY <1>1, <1>6, CatalogRowsTyped DEF TypeInv, AccountsTypeOK
<1>7. QED
  BY <1>4, <1>5, <1>6, NextCases DEF Arrives

LEMMA InitTyped ==
  ASSUME Init
  PROVE  TypeInv
<1>1. /\ role \in [Users -> Roles] /\ call = [c \in Calls |-> IdleCall]
      /\ banned = {} /\ moderators = {} /\ knowingly = {} /\ mix \in Mixes
  BY DEF Init, AccountsInit, Roles
<1>2. CallInv /\ AccountsTypeOK
  BY <1>1, IdleTyped DEF CallInv, AccountsTypeOK
<1>3. /\ dept \in [Departments -> [on : BOOLEAN, logo : Keys \cup {None}]]
      /\ logos = {} /\ covers = {} /\ used = {}
      /\ subject = [s \in Subjects |-> NoSubject]
  BY DEF Init, CatalogInit
<1>4. NoSubject \in [status : Statuses, owner : Users \cup {None},
                     dept : Departments \cup {None}, cover : BOOLEAN]
  BY DEF NoSubject, Statuses
<1>5. CatalogTypeOK
  BY <1>3, <1>4 DEF CatalogTypeOK
<1>6. QED
  BY <1>2, <1>5 DEF TypeInv

LEMMA TypeInvStutters ==
  ASSUME TypeInv, UNCHANGED vars
  PROVE  TypeInv'
BY DEF TypeInv, vars, accounts, catalog, AccountsTypeOK, CatalogTypeOK, CallInv

\* Accounts, the catalogue and the calls hold what their types say.
LEMMA TypeInvHolds == Spec => []TypeInv
<1>1. Init => TypeInv
  BY InitTyped
<1>2. TypeInv /\ [Next]_vars => TypeInv'
  BY TypeInvNext, TypeInvStutters
<1>3. QED
  BY <1>1, <1>2, PTL DEF Spec

-----------------------------------------------------------------------------
(* Whose step it is that changes a call.                                    *)

LEMMA OpsOf ==
  ASSUME TypeInv, NEW c \in Calls
  PROVE  /\ CatalogStep(c) => call[c].op \in CatalogOps
         /\ AccessStep(c) => call[c].op \in AccessOps
<1>1. CallOK(call[c])
  BY DEF TypeInv, CallInv
<1>2. CatalogStep(c) => call[c].op \in CatalogOps
  BY DEF CatalogStep, CatalogOps, At, PutFile, CreateDeptSave, SaveFails,
     UpdateDeptRead, UpdateDeptSave, RemoveDeptRead, RemoveDeptCount,
     RemoveDeptWrite, CleanLogo, SubmitPut, SubmitSave, SubmitFails,
     WithdrawRead, DeleteSubject, ReviewRead, RejectCover, ReviewWrite
<1>3. AccessStep(c) => call[c].op \in AccessOps
  BY <1>1 DEF AccessStep, AccessOps, At, LoadUpload, LoadViewer, FeedViewer,
     FeedQuery, QueueQuery, HandOut, EditRead, EditWrite, CallOK, Readers, Lookups
<1>4. QED
  BY <1>2, <1>3

LEMMA OwnStep ==
  ASSUME TypeInv, Next, NEW c \in Calls, Busy(c), call'[c] # call[c]
  PROVE  \/ /\ AccountStep(c) \/ Assign(c, There)
            /\ UNCHANGED <<catalog, access, seen>>
         \/ CatalogStep(c) /\ UNCHANGED <<access, seen>>
         \/ AccessStep(c) /\ UNCHANGED <<accounts, catalog>>
<1>1. PICK b \in Calls :
        \/ Arrives(b)
        \/ /\ AccountStep(b) \/ Assign(b, There)
           /\ UNCHANGED <<catalog, access, seen>>
        \/ CatalogStep(b) /\ UNCHANGED <<access, seen>>
        \/ AccessStep(b) /\ UNCHANGED <<accounts, catalog>>
  BY NextCases
<1>2. CASE Arrives(b)
  <2>1. OnlyCall(b) /\ ~Busy(b)
    BY <1>2, StartWrites DEF Arrives, Fresh
  <2>2. QED
    BY <2>1 DEF OnlyCall
<1>3. CASE Goes(b)
  <2>1. b = c
    BY <1>3 DEF Goes, Moved, Ended, OnlyCall
  <2>2. ~Arrives(b)
    BY <2>1, StartWrites DEF Arrives, Fresh
  <2>3. QED
    BY <1>1, <2>1, <2>2
<1>4. QED
  BY <1>1, <1>2, <1>3, AccountStepGoes, CatalogStepGoes, AccessStepGoes

\* The statement of a call that changes the standing of somebody.
LEMMA StandingSteps ==
  ASSUME TypeInv, Next
  PROVE  \/ UNCHANGED <<role, banned>>
         \/ \E c \in Calls : SetRoleWrite(c) \/ BanInsert(c) \/ UnbanWrite(c)
<1>1. CASE \E c \in Calls : AccountStep(c) \/ Assign(c, There)
  BY <1>1 DEF AccountStep, AdminGuard, SetRoleRead, SetRoleCount, BanRead,
     BanCheck, BanStrip, DeletePairs, UnbanRead, Unassign, UnassignAll,
     ReviewerRole, ReviewerScope, Assign, accounts
<1>2. CASE \E c \in Calls : CatalogStep(c)
  BY ZenonT(60), <1>2 DEF CatalogStep, PutFile, CreateDeptSave, SaveFails, UpdateDeptRead,
     UpdateDeptSave, RemoveDeptRead, RemoveDeptCount, RemoveDeptWrite,
     DeletePairs, CleanLogo, SubmitPut, SubmitSave, SubmitFails, WithdrawRead,
     DeleteSubject, ReviewRead, RejectCover, ReviewWrite, accounts
<1>3. CASE UNCHANGED accounts
  BY <1>3 DEF accounts
<1>4. QED
  BY <1>1, <1>2, <1>3, NextCases DEF Arrives

-----------------------------------------------------------------------------
(* Somebody who can sign in is an admin, where requests about roles run by   *)
(* themselves.                                                              *)

\* While an operation of Alone runs nothing else does.
AloneInv ==
    \A c, d \in Calls : c # d /\ call[c].op \in Alone => ~Busy(d)

LEMMA AloneNext ==
  ASSUME TypeInv, AloneInv, Next
  PROVE  AloneInv'
<1> SUFFICES ASSUME NEW a \in Calls, NEW b \in Calls, a # b,
                    call'[a].op \in Alone
             PROVE  call'[b].at = "idle"
  BY DEF AloneInv, Busy
<1>1. CASE UNCHANGED call
  BY <1>1 DEF AloneInv, Busy
<1>2. CASE \E c \in Calls : Arrives(c)
  <2>1. PICK c \in Calls, q \in CallRecord : Start(c, q) /\ CallOK(q)
    BY <1>2 DEF Arrives, Fresh
  <2>2. QED
    BY <2>1, StartWrites DEF OnlyCall, Busy
<1>3. CASE \E c \in Calls : Goes(c)
  <2>1. PICK c \in Calls : Goes(c)
    BY <1>3
  <2>2. /\ Busy(c) /\ \A d \in Calls : d # c => call'[d] = call[d]
        /\ call'[c].op \in {call[c].op, "none"}
    BY <2>1 DEF Goes, Moved, Ended, OnlyCall, IdleCall
  <2>3. "none" \notin Alone
    BY CallsAssumption DEF Ops, AccountOps, CatalogOps, AccessOps
  <2>4. call'[a].op = call[a].op
    BY <2>2, <2>3
  <2>5. ~Busy(b)
    BY <2>4 DEF AloneInv
  <2>6. b # c
    BY <2>2, <2>5
  <2>7. QED
    BY <2>2, <2>5, <2>6 DEF Busy
<1>4. QED
  BY <1>1, <1>2, <1>3, CallSteps

\* A request about a role is that of an admin who is not banned once the guard
\* let it in, and nobody demotes himself; whom a ban is about to be put on is no
\* admin.
RoleOK(c) ==
    /\ call[c].op = "role" => /\ call[c].actor \notin banned
                              /\ call[c].at # "guard" => IsAdmin(call[c].actor)
                              /\ call[c].user = call[c].actor
                                 => call[c].role = "admin"
    /\ At(c, "ban", "check") \/ At(c, "ban", "write") \/ At(c, "ban", "strip")
       => ~IsAdmin(call[c].user)

RoleInv == AloneInv /\ (\A c \in Calls : RoleOK(c)) /\ SomeAdmin

\* While a request about a role or a ban is in flight, nobody else writes roles.
LEMMA StandingAlone ==
  ASSUME TypeInv, AloneInv, "role" \in Alone, Next, NEW d \in Calls, Busy(d),
         call'[d] = call[d]
  PROVE  /\ UNCHANGED role
         /\ call[d].op = "role" => UNCHANGED banned
<1>1. CASE UNCHANGED <<role, banned>>
  BY <1>1
<1>2. CASE \E c \in Calls : SetRoleWrite(c)
  <2>1. PICK c \in Calls : SetRoleWrite(c)
    BY <1>2
  <2>2. call[c].op = "role" /\ Busy(c)
    BY <2>1 DEF SetRoleWrite, At, Busy
  <2>3. d = c
    BY <2>2 DEF AloneInv
  <2>4. call'[c] = IdleCall
    BY <2>1, <2>2, FinishEnds DEF SetRoleWrite, Ended
  <2>5. QED
    BY <2>3, <2>4 DEF Busy, IdleCall
<1>3. CASE \E c \in Calls : BanInsert(c) \/ UnbanWrite(c)
  <2>1. PICK c \in Calls : BanInsert(c) \/ UnbanWrite(c)
    BY <1>3
  <2>2. UNCHANGED role /\ Busy(c) /\ call[c].op # "role"
    BY <2>1 DEF BanInsert, UnbanWrite, At, Busy
  <2>3. call[d].op # "role"
    BY <2>2 DEF AloneInv
  <2>4. QED
    BY <2>2, <2>3
<1>4. QED
  BY <1>1, <1>2, <1>3, StandingSteps

LEMMA RoleCalls ==
  ASSUME TypeInv, AloneInv, "role" \in Alone, Next, NEW d \in Calls,
         RoleOK(d)
  PROVE  RoleOK(d)'
<1>1. CASE ~Busy(d) /\ call'[d] # call[d]
  <2>1. PICK q \in CallRecord : Start(d, q) /\ Fresh(d, q) /\ UNCHANGED accounts
    <3>1. \E c \in Calls : Arrives(c) \/ Goes(c)
      BY <1>1, CallSteps
    <3>2. Arrives(d)
      BY <1>1, <3>1, StartWrites
      DEF Arrives, Goes, Moved, Ended, OnlyCall, Fresh
    <3>3. QED
      BY <3>2 DEF Arrives
  <2>2. call'[d] = q /\ q.actor \notin banned
    BY <2>1, StartWrites DEF Fresh
  <2>3. UNCHANGED <<role, banned>>
    BY <2>1 DEF accounts
  <2>4. /\ q.op = "role" => q.at = "guard" /\ (q.user = q.actor => q.role = "admin")
        /\ q.op = "ban" => q.at \in {"guard", "read"}
    BY <2>1 DEF Fresh
  <2>5. QED
    BY <2>2, <2>3, <2>4 DEF RoleOK, IsAdmin, At
<1>2. CASE ~Busy(d) /\ call'[d] = call[d]
  <2>1. call'[d].op = "none"
    BY <1>2 DEF TypeInv, CallInv, CallOK, Busy, IdleCall
  <2>2. QED
    BY <2>1 DEF RoleOK, At
<1>3. CASE Busy(d) /\ call'[d] = call[d]
  <2>1. CASE call[d].op \in {"role", "ban"}
    BY <1>3, <2>1, StandingAlone DEF RoleOK, IsAdmin, At
  <2>2. CASE call[d].op \notin {"role", "ban"}
    BY <1>3, <2>2 DEF RoleOK, At
  <2>3. QED
    BY <2>1, <2>2
<1>4. CASE Busy(d) /\ call'[d] # call[d] /\ call[d].op \in {"role", "ban"}
  <2>1. AccountStep(d) \/ Assign(d, There)
    BY <1>4, OwnStep, OpsOf DEF CatalogOps, AccessOps
  <2>2. \A at \in Positions : Goto(d, at) /\ at \notin {"idle", "guard", "scope", "sign"}
            => call'[d].at = at /\ Moved(d)
    BY <1>4, GotoMoves
  <2>3. Finish(d) => call'[d].op = "none"
    BY <1>4, FinishEnds DEF Ended, IdleCall
  <2>4. CASE AdminGuard(d)
    <3>1. UNCHANGED <<role, banned>>
      BY <2>4 DEF AdminGuard, accounts
    <3>2. FirstOf(call[d].op) = "read"
      BY <1>4 DEF FirstOf
    <3>3. \/ Goto(d, "read") /\ IsAdmin(call[d].actor)
          \/ Finish(d)
      BY <2>4, <3>2 DEF AdminGuard
    <3>4. CASE Goto(d, "read") /\ IsAdmin(call[d].actor)
      <4>1. call'[d].at = "read" /\ Moved(d)
        BY <2>2, <3>4 DEF Positions
      <4>2. QED
        BY <3>1, <3>4, <4>1 DEF Moved, RoleOK, IsAdmin, At
    <3>5. CASE Finish(d)
      BY <2>3, <3>5 DEF RoleOK, At
    <3>6. QED
      BY <3>3, <3>4, <3>5
  <2>5. CASE SetRoleRead(d) \/ SetRoleCount(d)
    <3>1. /\ UNCHANGED <<role, banned>> /\ call[d].op = "role"
          /\ call[d].at # "guard"
          /\ Goto(d, "count") \/ Goto(d, "write") \/ Finish(d)
      BY <2>5 DEF SetRoleRead, SetRoleCount, At, accounts
    <3>2. CASE Finish(d)
      BY <2>3, <3>2 DEF RoleOK, At
    <3>3. CASE Goto(d, "count") \/ Goto(d, "write")
      <4>1. Moved(d)
        BY <2>2, <3>3 DEF Positions
      <4>2. QED
        BY <3>1, <4>1 DEF Moved, RoleOK, IsAdmin, At
    <3>4. QED
      BY <3>1, <3>2, <3>3
  <2>6. CASE SetRoleWrite(d) \/ BanStrip(d)
    BY <2>3, <2>6 DEF SetRoleWrite, BanStrip, RoleOK, At
  <2>7. CASE BanRead(d) \/ BanCheck(d) \/ BanInsert(d)
    <3>1. /\ UNCHANGED role /\ call[d].op = "ban"
          /\ ~IsAdmin(call[d].user) \/ Finish(d)
          /\ \/ Goto(d, "check") \/ Goto(d, "write") \/ Goto(d, "strip")
             \/ Finish(d)
      BY <2>7 DEF BanRead, BanCheck, BanInsert, At, accounts, RoleOK
    <3>2. CASE Finish(d)
      BY <2>3, <3>2 DEF RoleOK, At
    <3>3. CASE /\ ~IsAdmin(call[d].user)
               /\ Goto(d, "check") \/ Goto(d, "write") \/ Goto(d, "strip")
      <4>1. Moved(d)
        BY <2>2, <3>3 DEF Positions
      <4>2. QED
        BY <3>1, <3>3, <4>1 DEF Moved, RoleOK, IsAdmin, At
    <3>4. QED
      BY <3>1, <3>2, <3>3
  <2>8. QED
    BY <1>4, <2>1, <2>4, <2>5, <2>6, <2>7
    DEF AccountStep, UnbanRead, UnbanWrite, Unassign, UnassignAll, ReviewerRole,
        ReviewerScope, Assign, At, ReviewerOps, TypeInv, CallInv, CallOK
<1>5. CASE Busy(d) /\ call'[d] # call[d] /\ call[d].op \notin {"role", "ban"}
  <2>1. call'[d].op \in {call[d].op, "none"}
    BY <1>5, OwnStep, AccountStepGoes, CatalogStepGoes, AccessStepGoes
    DEF Goes, Moved, Ended, IdleCall
  <2>2. QED
    BY <1>5, <2>1 DEF RoleOK, At
<1>6. QED
  BY <1>1, <1>2, <1>3, <1>4, <1>5

LEMMA SomeAdminNext ==
  ASSUME TypeInv, RoleInv, Next
  PROVE  SomeAdmin'
<1>1. PICK u \in Users : IsAdmin(u) /\ u \notin banned
  BY DEF RoleInv, SomeAdmin, Admins
<1>2. CASE UNCHANGED <<role, banned>>
  BY <1>1, <1>2 DEF SomeAdmin, Admins, IsAdmin
<1>3. CASE \E c \in Calls : SetRoleWrite(c)
  <2>1. PICK c \in Calls : SetRoleWrite(c)
    BY <1>3
  <2>2. /\ call[c].op = "role" /\ call[c].at = "write"
        /\ role' = [role EXCEPT ![call[c].user] = call[c].role]
        /\ UNCHANGED banned
    BY <2>1 DEF SetRoleWrite, At
  <2>3. /\ call[c].actor \in Users /\ IsAdmin(call[c].actor)
        /\ call[c].actor \notin banned
        /\ call[c].user = call[c].actor => call[c].role = "admin"
    BY <2>2 DEF RoleInv, RoleOK, TypeInv, CallInv, CallOK
  <2>4. role'[call[c].actor] = "admin"
    BY <2>2, <2>3 DEF IsAdmin, TypeInv, AccountsTypeOK
  <2>5. QED
    BY <2>2, <2>3, <2>4 DEF SomeAdmin, Admins, IsAdmin
<1>4. CASE \E c \in Calls : BanInsert(c)
  <2>1. PICK c \in Calls : BanInsert(c)
    BY <1>4
  <2>2. /\ call[c].op = "ban" /\ call[c].at = "write" /\ UNCHANGED role
        /\ banned' \subseteq banned \cup {call[c].user}
    BY <2>1 DEF BanInsert, At
  <2>3. ~IsAdmin(call[c].user)
    BY <2>2 DEF RoleInv, RoleOK, At
  <2>4. u \notin banned'
    BY <1>1, <2>2, <2>3
  <2>5. QED
    BY <1>1, <2>2, <2>4 DEF SomeAdmin, Admins, IsAdmin
<1>5. CASE \E c \in Calls : UnbanWrite(c)
  BY <1>1, <1>5 DEF UnbanWrite, SomeAdmin, Admins, IsAdmin
<1>6. QED
  BY <1>2, <1>3, <1>4, <1>5, StandingSteps

LEMMA RoleInit ==
  ASSUME Init
  PROVE  RoleInv
<1>1. PICK first \in Users :
         role = [u \in Users |-> IF u = first THEN "admin" ELSE "user"]
  BY DEF Init, AccountsInit
<1>2. banned = {} /\ call = [c \in Calls |-> IdleCall]
  BY DEF Init, AccountsInit
<1>3. SomeAdmin
  BY <1>1, <1>2 DEF SomeAdmin, Admins, IsAdmin
<1>4. AloneInv /\ \A c \in Calls : RoleOK(c)
  BY <1>2 DEF AloneInv, Busy, RoleOK, IdleCall, At
<1>5. QED
  BY <1>3, <1>4 DEF RoleInv

\* However admins demote each other and bans are put on and lifted, somebody who
\* can still sign in is an admin (setUserRole(), banUser()).  Requests about a
\* role run by themselves here: two that count the admins at the same time, or
\* one that makes an admin of whom a ban is about to be put on, leave nobody.
THEOREM SomebodyIsInCharge == "role" \in Alone => (Spec => []SomeAdmin)
<1> SUFFICES ASSUME "role" \in Alone PROVE Spec => []SomeAdmin
  OBVIOUS
<1>1. Init => RoleInv
  BY RoleInit
<1>2. TypeInv /\ RoleInv /\ [Next]_vars => RoleInv'
  <2>1. TypeInv /\ RoleInv /\ Next => RoleInv'
    BY AloneNext, RoleCalls, SomeAdminNext DEF RoleInv
  <2>2. RoleInv /\ UNCHANGED vars => RoleInv'
    BY DEF vars, accounts, RoleInv, AloneInv, Busy, RoleOK, At, IsAdmin, SomeAdmin,
       Admins
  <2>3. QED
    BY <2>1, <2>2
<1>3. RoleInv => SomeAdmin
  BY DEF RoleInv
<1>4. QED
  BY <1>1, <1>2, <1>3, TypeInvHolds, PTL DEF Spec

-----------------------------------------------------------------------------
(* A banned account moderates nothing.                                      *)

LEMMA ModeratorSteps ==
  ASSUME TypeInv, Next
  PROVE  \/ UNCHANGED <<moderators, knowingly>>
         \/ \E c \in Calls : Assign(c, There)
         \/ \E pairs : DeletePairs(pairs)
<1>1. CASE \E c \in Calls : AccountStep(c) \/ Assign(c, There)
  <2>1. PICK c \in Calls : AccountStep(c) \/ Assign(c, There)
    BY <1>1
  <2>2. CASE BanStrip(c) \/ Unassign(c) \/ UnassignAll(c)
    BY <2>2 DEF BanStrip, Unassign, UnassignAll
  <2>3. QED
    BY <2>1, <2>2 DEF AccountStep, AdminGuard, SetRoleRead, SetRoleCount,
       SetRoleWrite, BanRead, BanCheck, BanInsert, UnbanRead, UnbanWrite,
       ReviewerRole, ReviewerScope, accounts
<1>2. CASE \E c \in Calls : CatalogStep(c)
  <2>1. PICK c \in Calls : CatalogStep(c)
    BY <1>2
  <2>2. CASE RemoveDeptWrite(c)
    BY <2>2 DEF RemoveDeptWrite
  <2>3. CASE ~RemoveDeptWrite(c)
    <3>1. UNCHANGED accounts
      BY <2>1, <2>3 DEF CatalogStep, PutFile, CreateDeptSave, SaveFails,
         UpdateDeptRead, UpdateDeptSave, RemoveDeptRead, RemoveDeptCount,
         CleanLogo, SubmitPut, SubmitSave, SubmitFails, WithdrawRead,
         DeleteSubject, ReviewRead, RejectCover, ReviewWrite
    <3>2. QED
      BY <3>1 DEF accounts
  <2>4. QED
    BY <2>2, <2>3
<1>3. CASE UNCHANGED accounts
  BY <1>3 DEF accounts
<1>4. QED
  BY <1>1, <1>2, <1>3, NextCases DEF Arrives

\* The step of a ban that is about to strip an account is the one that strips.
LEMMA StripSteps ==
  ASSUME TypeInv, Next, NEW c \in Calls, At(c, "ban", "strip"),
         call'[c] # call[c]
  PROVE  BanStrip(c)
<1>1. Busy(c)
  BY DEF At, Busy
<1>2. AccountStep(c) \/ Assign(c, There)
  BY <1>1, OwnStep, OpsOf DEF At, CatalogOps, AccessOps
<1>3. QED
  BY <1>2 DEF AccountStep, At, AdminGuard, SetRoleRead, SetRoleCount,
     SetRoleWrite, BanRead, BanCheck, BanInsert, UnbanRead, UnbanWrite, Unassign,
     UnassignAll, ReviewerRole, ReviewerScope, Assign

LEMMA BannedNext ==
  ASSUME TypeInv, BannedModeratesNothing, Next
  PROVE  BannedModeratesNothing'
<1> SUFFICES ASSUME NEW u \in banned'
             PROVE  \/ \E c \in Calls : /\ call'[c].op = "ban"
                                        /\ call'[c].at = "strip"
                                        /\ call'[c].user = u
                    \/ \A pair \in moderators' :
                          pair[1] = u => pair \in knowingly'
  BY DEF BannedModeratesNothing, At
<1>1. CASE u \notin banned
  <2>1. PICK c \in Calls : BanInsert(c)
    BY <1>1, StandingSteps DEF SetRoleWrite, UnbanWrite
  <2>2. /\ call[c].op = "ban" /\ call[c].user = u /\ Goto(c, "strip") /\ Busy(c)
    BY <1>1, <2>1 DEF BanInsert, At, Busy
  <2>3. call'[c].at = "strip" /\ Moved(c)
    BY <2>2, GotoMoves DEF Positions
  <2>4. QED
    BY <2>2, <2>3 DEF Moved
<1>2. ASSUME NEW c \in Calls, At(c, "ban", "strip"), call[c].user = u
      PROVE  \/ \E d \in Calls : /\ call'[d].op = "ban"
                                 /\ call'[d].at = "strip"
                                 /\ call'[d].user = u
             \/ \A pair \in moderators' : pair[1] = u => pair \in knowingly'
  <2>1. CASE call'[c] = call[c]
    BY <1>2, <2>1 DEF At
  <2>2. CASE call'[c] # call[c]
    <3>1. moderators' = moderators \ ({u} \X Departments)
      BY <1>2, <2>2, StripSteps DEF BanStrip, DeletePairs
    <3>2. moderators \subseteq Users \X Departments
      BY DEF TypeInv, AccountsTypeOK
    <3>3. \A pair \in moderators' : pair[1] # u
      BY <3>1, <3>2
    <3>4. QED
      BY <3>3
  <2>3. QED
    BY <2>1, <2>2
<1>3. CASE u \in banned /\ \A pair \in moderators : pair[1] = u => pair \in knowingly
  <2>1. CASE UNCHANGED <<moderators, knowingly>>
    BY <1>3, <2>1
  <2>2. CASE \E c \in Calls : Assign(c, There)
    <3>1. PICK c \in Calls : Assign(c, There)
      BY <2>2
    <3>2. PICK pair : pair = <<call[c].user, call[c].dept>>
      OBVIOUS
    <3>3. \/ UNCHANGED <<moderators, knowingly>>
          \/ /\ moderators' = moderators \cup {pair}
             /\ knowingly' = IF pair[1] \in banned
                             THEN knowingly \cup {pair} ELSE knowingly
      BY <3>1, <3>2 DEF Assign
    <3>4. QED
      BY <1>3, <3>3
  <2>3. CASE \E pairs : DeletePairs(pairs)
    BY <1>3, <2>3 DEF DeletePairs
  <2>4. QED
    BY <2>1, <2>2, <2>3, ModeratorSteps
<1>4. QED
  BY <1>1, <1>2, <1>3 DEF BannedModeratesNothing

\* Whatever overlaps, a banned account moderates no department, unless it was
\* given one after the ban was in the table, or the ban is still at it (banUser(),
\* assign(), the cascade of a department's removal).
THEOREM BannedAreStripped == Spec => []BannedModeratesNothing
<1>1. Init => BannedModeratesNothing
  BY DEF Init, AccountsInit, BannedModeratesNothing
<1>2. TypeInv /\ BannedModeratesNothing /\ [Next]_vars => BannedModeratesNothing'
  <2>1. BannedModeratesNothing /\ UNCHANGED vars => BannedModeratesNothing'
    BY DEF vars, accounts, BannedModeratesNothing, At
  <2>2. QED
    BY <2>1, BannedNext
<1>3. QED
  BY <1>1, <1>2, TypeInvHolds, PTL DEF Spec

-----------------------------------------------------------------------------
(* The three ways an upload's files are shown agree.                        *)

LEMMA ListsAgree == ListedOpens
<1> SUFFICES ASSUME NEW u \in Users, NEW own \in BOOLEAN, NEW f \in Files
             PROVE  /\ f \in FeedLinks(u, IsAdmin(u), place[u], own)
                       => DownloadLinks(f, upload, file, u) # {}
                    /\ upload.status = "active" /\ f \in DetailLinks(upload, file, u)
                       => DownloadLinks(f, upload, file, u) # {}
  <2>1. \A w, own1 : FeedLinks(w, IsAdmin(w), place[w], own1) \subseteq Files
    BY DEF FeedLinks
  <2>2. \A w : DetailLinks(upload, file, w) \subseteq Files
    BY DEF DetailLinks
  <2>3. QED
    BY <2>1, <2>2 DEF ListedOpens
<1>1. DownloadLinks(f, upload, file, u) # {}
      <=> /\ CanView(upload, u)
          /\ \/ Privileged(upload, u)
             \/ upload.status = "active" /\ Shown(file[f])
  BY DEF DownloadLinks
<1>2. ASSUME f \in FeedLinks(u, IsAdmin(u), place[u], own)
      PROVE  DownloadLinks(f, upload, file, u) # {}
  <2>1. /\ own => upload.owner = u
        /\ own \/ upload.status = "active"
        /\ Visible(u, IsAdmin(u), place[u], own)
        /\ Shown(file[f])
    BY <1>2 DEF FeedLinks
  <2>2. CASE own
    BY <1>1, <2>1, <2>2 DEF CanView, Privileged
  <2>3. CASE ~own
    BY <1>1, <2>1, <2>3 DEF CanView, Visible, Privileged
  <2>4. QED
    BY <2>2, <2>3
<1>3. ASSUME upload.status = "active", f \in DetailLinks(upload, file, u)
      PROVE  DownloadLinks(f, upload, file, u) # {}
  BY <1>1, <1>3 DEF DetailLinks
<1>4. QED
  BY <1>2, <1>3

\* A file that a feed, an owner's own list or the page of an upload shows opens
\* when it is clicked: the rule in SQL (applyVisibility()), the one of the page
\* (canView(), visibleFiles()) and the one of a download (signFileAccess()) agree
\* for every upload, viewer, place and day.
THEOREM RulesAgree == Spec => []ListedOpens
<1>1. ListedOpens
  BY ListsAgree
<1>2. QED
  BY <1>1, PTL

-----------------------------------------------------------------------------
(* Who decides about a subject was let in for its department.               *)

\* A submission is the only request about its subject, which is not there yet.
SubmitOK(c) ==
    call[c].op = "submit"
    => /\ subject[call[c].subject].status = "none"
       /\ \A b \in Calls : b # c => call[b].subject # call[c].subject
\* A reviewer who was let through may decide, if there is still something to
\* decide about.
ReviewOK(c) ==
    call[c].op \in {"approve", "reject"} /\ call[c].at \in {"write", "clean"}
    => \/ subject[call[c].subject].status = "none"
       \/ CanModerate(c, subject[call[c].subject].dept)

DecInv == \A c \in Calls : SubmitOK(c) /\ ReviewOK(c)

\* What a step does to the row of a subject.
LEMMA SubjectSteps ==
  ASSUME TypeInv, Next, NEW s \in Subjects
  PROVE  \/ subject'[s] = subject[s]
         \/ subject'[s] = NoSubject
         \/ \E c \in Calls : SubmitSave(c) /\ call[c].subject = s
         \/ \E c \in Calls : /\ ReviewWrite(c) /\ call[c].subject = s
                             /\ subject[s].status # "none"
                             /\ subject'[s].status # "none"
                             /\ subject'[s].dept = subject[s].dept
<1>1. \/ UNCHANGED subject
      \/ \E c \in Calls : SubmitSave(c) \/ DeleteSubject(c) \/ ReviewWrite(c)
                          \/ RemoveDeptWrite(c)
  <2>1. CASE UNCHANGED catalog
    BY <2>1 DEF catalog
  <2>2. CASE \E c \in Calls : CatalogStep(c)
    BY <2>2 DEF CatalogStep, PutFile, CreateDeptSave, SaveFails, UpdateDeptRead,
       UpdateDeptSave, RemoveDeptRead, RemoveDeptCount, CleanLogo, SubmitPut,
       SubmitFails, WithdrawRead, ReviewRead, RejectCover, catalog
  <2>3. QED
    BY <2>1, <2>2, NextCases DEF Arrives
<1>2. subject \in [Subjects -> [status : Statuses, owner : Users \cup {None},
                                dept : Departments \cup {None}, cover : BOOLEAN]]
  BY DEF TypeInv, CatalogTypeOK
<1>3. CASE \E c \in Calls : SubmitSave(c)
  BY <1>2, <1>3 DEF SubmitSave
<1>4. CASE \E c \in Calls : DeleteSubject(c)
  BY <1>2, <1>4 DEF DeleteSubject
<1>5. CASE \E c \in Calls : RemoveDeptWrite(c)
  BY <1>2, <1>5 DEF RemoveDeptWrite
<1>6. CASE \E c \in Calls : ReviewWrite(c)
  <2>1. PICK c \in Calls : ReviewWrite(c)
    BY <1>6
  <2>2. PICK new \in {"active", "rejected"} :
          subject' = [subject EXCEPT ![call[c].subject].status =
                          IF @ = "none" THEN @ ELSE new]
    BY <2>1 DEF ReviewWrite
  <2>3. CASE call[c].subject # s
    BY <1>2, <2>2, <2>3
  <2>4. CASE call[c].subject = s /\ subject[s].status # "none"
    BY <1>2, <2>1, <2>2, <2>4
  <2>5. CASE call[c].subject = s /\ subject[s].status = "none"
    <3>1. subject[s] = NoSubject
      BY <2>5 DEF TypeInv, CatalogTypeOK
    <3>2. subject'[s] = [NoSubject EXCEPT !.status = "none"]
      BY <1>2, <2>2, <2>5, <3>1 DEF NoSubject
    <3>3. \A r \in [status : Statuses, owner : Users \cup {None},
                    dept : Departments \cup {None}, cover : BOOLEAN] :
             r.status = "none" => [r EXCEPT !.status = "none"] = r
      OBVIOUS
    <3>4. subject[s].status = "none" /\ subject[s] \in
             [status : Statuses, owner : Users \cup {None},
              dept : Departments \cup {None}, cover : BOOLEAN]
      BY <1>2, <2>5
    <3>5. QED
      BY <3>1, <3>2, <3>3, <3>4
  <2>6. QED
    BY <2>3, <2>4, <2>5
<1>7. QED
  BY <1>1, <1>3, <1>4, <1>5, <1>6

\* What a reviewer's request does next.
LEMMA ReviewSteps ==
  ASSUME TypeInv, Next, NEW c \in Calls, Busy(c), call'[c] # call[c],
         call[c].op \in {"approve", "reject"}
  PROVE  \/ call'[c] = IdleCall
         \/ /\ Moved(c) /\ call'[c].at \notin {"write", "clean"}
         \/ /\ Moved(c) /\ UNCHANGED subject
            /\ call'[c].admin = call[c].admin /\ call'[c].scope = call[c].scope
            /\ \/ call[c].at \in {"write", "clean"}
               \/ subject[call[c].subject].status = "none"
               \/ CanModerate(c, subject[call[c].subject].dept)
<1>1. \/ AccountStep(c) \/ Assign(c, There)
      \/ CatalogStep(c)
  BY OwnStep, OpsOf DEF AccessOps
<1>2. CASE AccountStep(c) \/ Assign(c, There)
  <2>1. ReviewerRole(c) \/ ReviewerScope(c)
    BY <1>2 DEF AccountStep, Assign, At, AdminGuard, SetRoleRead, SetRoleCount,
       SetRoleWrite, BanRead, BanCheck, BanInsert, BanStrip, UnbanRead,
       UnbanWrite, Unassign, UnassignAll, ReviewerOps
  <2>2. QED
    BY <2>1, ReviewerRoleMoves, ReviewerScopeMoves DEF Ended
<1>3. CASE CatalogStep(c)
  <2>1. ReviewRead(c) \/ RejectCover(c) \/ ReviewWrite(c)
    BY <1>3 DEF CatalogStep, At, PutFile, CreateDeptSave, SaveFails,
       UpdateDeptRead, UpdateDeptSave, RemoveDeptRead, RemoveDeptCount,
       RemoveDeptWrite, CleanLogo, SubmitPut, SubmitSave, SubmitFails,
       WithdrawRead, DeleteSubject
  <2>2. CASE Finish(c)
    BY <2>2, FinishEnds DEF Ended
  <2>3. CASE ReviewRead(c) /\ ~Finish(c)
    <3>1. /\ Goto(c, "write") \/ Goto(c, "clean")
          /\ \/ subject[call[c].subject].status = "none"
             \/ CanModerate(c, subject[call[c].subject].dept)
          /\ UNCHANGED subject
      BY <2>3 DEF ReviewRead, Proceed, catalog
    <3>2. QED
      BY <3>1, GotoMoves DEF Positions
  <2>4. CASE RejectCover(c)
    <3>1. Goto(c, "write") /\ call[c].at = "clean" /\ UNCHANGED subject
      BY <2>4 DEF RejectCover, At
    <3>2. QED
      BY <3>1, GotoMoves DEF Positions
  <2>5. QED
    BY <2>1, <2>2, <2>3, <2>4 DEF ReviewWrite
<1>4. QED
  BY <1>1, <1>2, <1>3

LEMMA DecNext ==
  ASSUME TypeInv, DecInv, Next
  PROVE  DecInv'
<1>1. CASE \E c \in Calls : Arrives(c)
  <2>1. PICK c \in Calls, q \in CallRecord :
           Start(c, q) /\ Fresh(c, q) /\ UNCHANGED catalog
    BY <1>1 DEF Arrives
  <2>2. /\ OnlyCall(c) /\ call'[c] = q /\ call[c] = IdleCall
    BY <2>1, StartWrites DEF Fresh, Busy, TypeInv, CallInv, CallOK
  <2>3. UNCHANGED subject
    BY <2>1 DEF catalog
  <2>4. SubmitOK(c)' /\ ReviewOK(c)'
    BY <2>1, <2>2, <2>3 DEF Fresh, SubmitOK, ReviewOK, OnlyCall
  <2>5. ASSUME NEW d \in Calls, d # c
        PROVE  SubmitOK(d)' /\ ReviewOK(d)'
    <3>1. call'[d] = call[d]
      BY <2>2, <2>5 DEF OnlyCall
    <3>2. ReviewOK(d)'
      BY <2>3, <3>1 DEF DecInv, ReviewOK, CanModerate
    <3>3. CASE call[d].op = "submit"
      <4>1. /\ subject[call[d].subject].status = "none"
            /\ \A b \in Calls : b # d => call[b].subject # call[d].subject
        BY <3>3 DEF DecInv, SubmitOK
      <4>2. call[d].subject \in Subjects
        BY <3>3 DEF TypeInv, CallInv, CallOK
      <4>3. q.subject # call[d].subject
        BY <2>1, <4>1, <4>2, CallsAssumption DEF Fresh
      <4>4. QED
        BY <2>2, <2>3, <3>1, <3>2, <4>1, <4>3 DEF SubmitOK, OnlyCall
    <3>4. QED
      BY <3>1, <3>2, <3>3 DEF SubmitOK
  <2>6. QED
    BY <2>4, <2>5 DEF DecInv
<1>2. ASSUME UNCHANGED call \/ \E c \in Calls : Goes(c), NEW d \in Calls
      PROVE  SubmitOK(d)' /\ ReviewOK(d)'
  <2>1. \A b \in Calls : call'[b] = call[b] \/ Goes(b)
    BY <1>2 DEF Goes, Moved, Ended, OnlyCall
  <2>2. \A b \in Calls : call'[b].subject \in {call[b].subject, None}
    BY <2>1 DEF Goes, Moved, Ended, IdleCall
  <2>3. ASSUME call'[d].op = "submit"
        PROVE  /\ subject'[call'[d].subject].status = "none"
               /\ \A b \in Calls : b # d => call'[b].subject # call'[d].subject
    <3>1. /\ call[d].op = "submit" /\ call'[d].subject = call[d].subject
          /\ call[d].subject \in Subjects
      BY <2>1, <2>3
      DEF Goes, Moved, Ended, IdleCall, TypeInv, CallInv, CallOK
    <3>2. /\ subject[call[d].subject].status = "none"
          /\ \A b \in Calls : b # d => call[b].subject # call[d].subject
      BY <3>1 DEF DecInv, SubmitOK
    <3>3. \A b \in Calls : b # d => call'[b].subject # call'[d].subject
      BY <2>2, <3>1, <3>2, CallsAssumption
    <3>4. ~SubmitSave(d)
      <4>1. SubmitSave(d) => call'[d] = IdleCall
        BY FinishEnds DEF SubmitSave, Ended, At, Busy
      <4>2. QED
        BY <2>3, <4>1 DEF IdleCall
    <3>5. subject'[call[d].subject].status = "none"
      BY <3>1, <3>2, <3>4, SubjectSteps DEF NoSubject
    <3>6. QED
      BY <3>1, <3>3, <3>5
  <2>4. ASSUME call'[d].op \in {"approve", "reject"},
               call'[d].at \in {"write", "clean"}
        PROVE  \/ subject'[call'[d].subject].status = "none"
               \/ call'[d].admin
               \/ subject'[call'[d].subject].dept \in call'[d].scope
    <3>1. /\ call[d].op = call'[d].op /\ call[d].subject = call'[d].subject
          /\ call[d].subject \in Subjects
      BY <2>1, <2>4
      DEF Goes, Moved, Ended, IdleCall, TypeInv, CallInv, CallOK
    <3>2. CASE call'[d] = call[d]
      <4>1. \/ subject[call[d].subject].status = "none"
            \/ CanModerate(d, subject[call[d].subject].dept)
        BY <2>4, <3>2 DEF DecInv, ReviewOK
      <4>2. ~\E c \in Calls : SubmitSave(c) /\ call[c].subject = call[d].subject
        <5>1. SUFFICES ASSUME NEW c \in Calls, SubmitSave(c),
                              call[c].subject = call[d].subject
                       PROVE  FALSE
          OBVIOUS
        <5>2. call[c].op = "submit" /\ c # d
          BY <2>4, <3>1, <5>1 DEF SubmitSave, At
        <5>3. QED
          BY <5>1, <5>2 DEF DecInv, SubmitOK
      <4>3. QED
        BY <3>1, <3>2, <4>1, <4>2, SubjectSteps DEF NoSubject, CanModerate
    <3>3. CASE call'[d] # call[d]
      <4>1. Busy(d)
        BY <2>1, <3>3 DEF Goes, Moved, Ended
      <4>2. /\ UNCHANGED subject
            /\ call'[d].admin = call[d].admin /\ call'[d].scope = call[d].scope
            /\ \/ call[d].at \in {"write", "clean"}
               \/ subject[call[d].subject].status = "none"
               \/ CanModerate(d, subject[call[d].subject].dept)
        BY <2>4, <3>1, <3>3, <4>1, ReviewSteps DEF IdleCall
      <4>3. QED
        BY <3>1, <4>2, <2>4 DEF DecInv, ReviewOK, CanModerate
    <3>4. QED
      BY <3>2, <3>3
  <2>5. QED
    BY <2>3, <2>4 DEF SubmitOK, ReviewOK, CanModerate
<1>3. QED
  BY <1>1, <1>2, CallSteps DEF DecInv

\* A subject is only decided by a request that the guard let in for its
\* department: an admin's, or that of a moderator of the subject's department,
\* whatever other reviewers, withdrawals, submissions and removals do meanwhile
\* (ReviewerGuard, approveSubject(), rejectSubject()).
THEOREM DecisionsInScope == Spec => DecidedInScope
<1> DEFINE Let(s) ==
       LET new == subject'[s].status
       IN  new \in {"active", "rejected"} /\ new # subject[s].status
           => \E c \in Calls : /\ call[c].subject = s
                               /\ call[c].op \in {"approve", "reject"}
                               /\ CanModerate(c, subject[s].dept)
<1>1. Init => DecInv
  <2>1. Init => call = [c \in Calls |-> IdleCall]
    BY DEF Init, AccountsInit
  <2>2. QED
    BY <2>1 DEF DecInv, SubmitOK, ReviewOK, IdleCall
<1>2. TypeInv /\ DecInv /\ [Next]_vars => DecInv'
  <2>1. DecInv /\ UNCHANGED vars => DecInv'
    BY DEF vars, catalog, DecInv, SubmitOK, ReviewOK, CanModerate
  <2>2. QED
    BY <2>1, DecNext
<1>3. TypeInv /\ DecInv /\ [Next]_vars => [\A s \in Subjects : Let(s)]_<<call, catalog>>
  <2>1. ASSUME TypeInv, DecInv, Next, NEW s \in Subjects PROVE Let(s)
    <3>1. SUFFICES ASSUME subject'[s].status \in {"active", "rejected"},
                          subject'[s].status # subject[s].status
                   PROVE  \E c \in Calls : /\ call[c].subject = s
                                           /\ call[c].op \in {"approve", "reject"}
                                           /\ CanModerate(c, subject[s].dept)
      OBVIOUS
    <3>2. ~\E c \in Calls : SubmitSave(c) /\ call[c].subject = s
      <4>1. ASSUME NEW c \in Calls, SubmitSave(c), call[c].subject = s
            PROVE  subject'[s].status = "pending"
        BY <2>1, <4>1 DEF SubmitSave, TypeInv, CatalogTypeOK
      <4>2. QED
        BY <3>1, <4>1
    <3>3. PICK c \in Calls : /\ ReviewWrite(c) /\ call[c].subject = s
                             /\ subject[s].status # "none"
      BY <2>1, <3>1, <3>2, SubjectSteps DEF NoSubject
    <3>4. call[c].op \in {"approve", "reject"} /\ call[c].at = "write"
      BY <3>3 DEF ReviewWrite
    <3>5. QED
      BY <2>1, <3>3, <3>4 DEF DecInv, ReviewOK
  <2>2. UNCHANGED vars => UNCHANGED <<call, catalog>>
    BY DEF vars
  <2>3. QED
    BY <2>1, <2>2
<1>4. QED
  BY <1>1, <1>2, <1>3, TypeInvHolds, PTL DEF Spec, DecidedInScope

-----------------------------------------------------------------------------
(* The upload, and what the handlers in flight have read of it.             *)

SeenRecord == [target : Things, own : BOOLEAN, row : UploadRow \cup {None},
               files : [Files -> FileRow] \cup {None}, place : Maybe(Places),
               links : SUBSET Things]

\* Who loaded the upload has a row of it, and links are there to be signed.
SeenOK(c) ==
    /\ call[c].at = "viewer" /\ call[c].op \in {"download", "detail", "pin"}
       => seen[c].row \in UploadRow /\ seen[c].files \in [Files -> FileRow]
    /\ At(c, "edit", "write") => seen[c].row \in UploadRow
    /\ seen[c].links # {} => call[c].at = "sign"

SeenInv ==
    /\ place \in [Users -> Maybe(Places)]
    /\ upload \in UploadRow
    /\ file \in [Files -> FileRow]
    /\ pins \in SUBSET Users
    /\ today \in 0 .. LastDay
    /\ seen \in [Calls -> SeenRecord]
    /\ \A c \in Calls : could[c] \subseteq Things
    /\ \A c \in Calls : SeenOK(c)

\* What else can happen to a call, as far as the upload is concerned.
Elsewhere(d) ==
    \/ call'[d] = call[d]
    \/ /\ call[d].at # "sign"
       /\ call'[d].op \notin Lookups
       /\ call'[d].op = "edit" => call'[d].at = "read"
       /\ call'[d].op = "queue" => ReviewerRole(d) \/ ReviewerScope(d)

LEMMA NotSeenTyped == NotSeen \in SeenRecord
BY DEF NotSeen, SeenRecord, Things, Maybe

\* The step of a call writes what the call has seen, and nobody else's.
LEMMA SeenByOne ==
  ASSUME TypeInv, SeenInv, NEW c \in Calls,
         AccessStep(c) \/ Looks(c)
  PROVE  \A d \in Calls : d # c => seen'[d] = seen[d]
<1>1. seen \in [Calls -> SeenRecord]
  BY DEF SeenInv
<1>2. CASE Looks(c)
  BY <1>1, <1>2 DEF Looks, Look
<1>3. \A links : Sign(c, links) => \A d \in Calls : d # c => seen'[d] = seen[d]
  BY <1>1 DEF Sign
<1>4. CASE LoadUpload(c)
  BY <1>1, <1>4 DEF LoadUpload
<1>5. CASE LoadViewer(c) \/ FeedQuery(c) \/ QueueQuery(c)
  BY <1>3, <1>5 DEF LoadViewer, FeedQuery, QueueQuery
<1>6. CASE FeedViewer(c) \/ HandOut(c) \/ EditRead(c) \/ EditWrite(c)
  BY <1>1, <1>6 DEF FeedViewer, HandOut, EditRead, EditWrite
<1>7. QED
  BY <1>2, <1>4, <1>5, <1>6 DEF AccessStep

LEMMA SeenCases ==
  ASSUME TypeInv, SeenInv, Next, NEW d \in Calls
  PROVE  \/ AccessStep(d) /\ UNCHANGED <<accounts, catalog>>
         \/ Looks(d) /\ UNCHANGED <<accounts, catalog, access>>
         \/ seen'[d] = seen[d] /\ Elsewhere(d)
<1>1. CASE Surroundings /\ UNCHANGED call
  BY <1>1 DEF Surroundings, Hide, Decide, DayEnds, Place, Elsewhere
<1>2. ASSUME NEW c \in Calls, c # d,
             \/ Arrives(c)
             \/ /\ AccountStep(c) \/ Assign(c, There)
                /\ UNCHANGED <<catalog, access, seen>>
             \/ CatalogStep(c) /\ UNCHANGED <<access, seen>>
             \/ AccessStep(c) /\ UNCHANGED <<accounts, catalog>>
      PROVE  seen'[d] = seen[d] /\ Elsewhere(d)
  <2>1. call'[d] = call[d]
    <3>1. CASE Arrives(c)
      BY <1>2, <3>1, StartWrites DEF Arrives, Fresh, OnlyCall
    <3>2. CASE Goes(c)
      BY <1>2, <3>2 DEF Goes, Moved, Ended, OnlyCall
    <3>3. QED
      BY <1>2, <3>1, <3>2, AccountStepGoes, CatalogStepGoes, AccessStepGoes
  <2>2. Arrives(c) => Looks(c) \/ UNCHANGED seen
    BY DEF Arrives
  <2>3. seen'[d] = seen[d]
    BY <1>2, <2>2, SeenByOne
  <2>4. QED
    BY <2>1, <2>3 DEF Elsewhere
<1>3. CASE Arrives(d)
  <2>1. PICK q \in CallRecord : /\ Start(d, q) /\ Fresh(d, q)
                                /\ IF q.op \in Readers THEN Looks(d)
                                   ELSE UNCHANGED seen
    BY <1>3 DEF Arrives
  <2>2. call'[d] = q /\ call[d].at # "sign"
    BY <2>1, StartWrites DEF Fresh, Busy
  <2>3. CASE q.op \in Readers
    BY <1>3, <2>1, <2>3 DEF Arrives
  <2>4. CASE q.op \notin Readers
    BY <2>1, <2>2, <2>4 DEF Elsewhere, Fresh, Readers
  <2>5. QED
    BY <2>3, <2>4
<1>4. CASE /\ AccountStep(d) \/ Assign(d, There)
           /\ UNCHANGED seen
  <2>1. call[d].op \notin Lookups \cup {"edit"} /\ call[d].at # "sign"
    BY <1>4 DEF AccountStep, Assign, At, AdminGuard, SetRoleRead, SetRoleCount,
       SetRoleWrite, BanRead, BanCheck, BanInsert, BanStrip, UnbanRead,
       UnbanWrite, Unassign, UnassignAll, ReviewerRole, ReviewerScope,
       ReviewerOps, Lookups, TypeInv, CallInv, CallOK
  <2>2. call[d].op = "queue" => ReviewerRole(d) \/ ReviewerScope(d)
    BY <1>4 DEF AccountStep, Assign, At, AdminGuard, SetRoleRead, SetRoleCount,
       SetRoleWrite, BanRead, BanCheck, BanInsert, BanStrip, UnbanRead,
       UnbanWrite, Unassign, UnassignAll, ReviewerOps
  <2>3. call'[d].op \in {call[d].op, "none"}
    BY <1>4, AccountStepGoes DEF Goes, Moved, Ended, IdleCall
  <2>4. QED
    BY <1>4, <2>1, <2>2, <2>3 DEF Elsewhere, Lookups
<1>5. CASE CatalogStep(d) /\ UNCHANGED seen
  <2>1. call[d].op \in CatalogOps /\ call'[d].op \in {call[d].op, "none"}
    BY <1>5, OpsOf, CatalogStepGoes DEF Goes, Moved, Ended, IdleCall
  <2>2. call[d].at # "sign"
    BY <2>1 DEF TypeInv, CallInv, CallOK, Readers, Lookups, CatalogOps
  <2>3. QED
    BY <1>5, <2>1, <2>2 DEF Elsewhere, Lookups, CatalogOps
<1>6. QED
  BY <1>1, <1>2, <1>3, <1>4, <1>5, NextCases

\* What the reader of an upload, or its owner, writes down of it.
LEMMA SeenWrites ==
  ASSUME TypeInv, SeenInv, NEW c \in Calls, AccessStep(c)
  PROVE  \/ Ended(c) /\ seen'[c] = NotSeen
         \/ \E links \in SUBSET Things :
               /\ links # {} /\ seen'[c] = [NotSeen EXCEPT !.links = links]
               /\ Moved(c) /\ call'[c].at = "sign" /\ call[c].op \in Readers
         \/ /\ LoadUpload(c) /\ Moved(c) /\ call'[c].at = "viewer"
            /\ seen'[c] = [seen[c] EXCEPT !.row = upload, !.files = file]
            /\ call[c].op \in {"download", "detail", "pin"}
         \/ /\ FeedViewer(c) /\ Moved(c) /\ call'[c].at = "read"
            /\ call[c].op = "feed"
            /\ call'[c].admin = IsAdmin(call[c].actor)
            /\ seen'[c] = [seen[c] EXCEPT !.place = place[call[c].actor]]
         \/ /\ EditRead(c) /\ Moved(c) /\ call'[c].at = "write"
            /\ call[c].op = "edit"
            /\ seen'[c] = [seen[c] EXCEPT !.row = upload]
<1>1. seen \in [Calls -> SeenRecord] /\ CallOK(call[c])
  BY DEF SeenInv, TypeInv, CallInv
<1>2. Busy(c) /\ Finish(c) /\ seen' = [seen EXCEPT ![c] = NotSeen]
      => Ended(c) /\ seen'[c] = NotSeen
  BY <1>1, FinishEnds
<1>3. ASSUME NEW links \in SUBSET Things, Busy(c), call[c].op \in Readers,
             Sign(c, links)
      PROVE  \/ Ended(c) /\ seen'[c] = NotSeen
             \/ /\ links # {} /\ seen'[c] = [NotSeen EXCEPT !.links = links]
                /\ Moved(c) /\ call'[c].at = "sign"
  <2>1. CASE links = {}
    BY <1>2, <1>3, <2>1 DEF Sign
  <2>2. CASE links # {}
    BY <1>1, <1>3, <2>2, GotoMoves DEF Sign, Positions
  <2>3. QED
    BY <2>1, <2>2
<1>4. CASE LoadUpload(c)
  <2>1. Busy(c) /\ call[c].op \in {"download", "detail", "pin"}
    BY <1>4 DEF LoadUpload, Busy
  <2>2. CASE Finish(c) /\ seen' = [seen EXCEPT ![c] = NotSeen]
    BY <1>2, <2>1, <2>2
  <2>3. CASE /\ seen' = [seen EXCEPT ![c].row = upload, ![c].files = file]
             /\ Goto(c, "viewer")
    <3>1. Moved(c) /\ call'[c].at = "viewer"
      BY <2>1, <2>3, GotoMoves DEF Positions
    <3>2. QED
      BY <1>1, <1>4, <2>1, <2>3, <3>1
  <2>4. QED
    BY <1>4, <2>2, <2>3 DEF LoadUpload
<1>5. CASE LoadViewer(c) \/ FeedQuery(c) \/ QueueQuery(c)
  <2>1. Busy(c) /\ call[c].op \in Readers
    BY <1>5 DEF LoadViewer, FeedQuery, QueueQuery, At, Busy, Readers, Lookups
  <2>2. PICK links : Sign(c, links) /\ links \subseteq Things
    <3>1. seen[c].target \in Things
      BY <1>1 DEF SeenRecord
    <3>2. CASE LoadViewer(c)
      BY <3>1, <3>2 DEF LoadViewer, DownloadLinks, DetailLinks, PinLinks, Things
    <3>3. CASE FeedQuery(c) \/ QueueQuery(c)
      BY <3>3 DEF FeedQuery, QueueQuery, FeedLinks, QueueLinks, Things
    <3>4. QED
      BY <1>5, <3>2, <3>3
  <2>3. QED
    BY <1>3, <2>1, <2>2
<1>6. CASE HandOut(c) \/ EditWrite(c)
  BY <1>2, <1>6 DEF HandOut, EditWrite, At, Busy
<1>7. CASE FeedViewer(c)
  BY <1>1, <1>7, FeedViewerMoves DEF FeedViewer, At
<1>8. CASE EditRead(c)
  <2>1. Goto(c, "write") /\ Busy(c) /\ call[c].op = "edit"
    BY <1>8 DEF EditRead, At, Busy
  <2>2. Moved(c) /\ call'[c].at = "write"
    BY <2>1, GotoMoves DEF Positions
  <2>3. QED
    BY <1>1, <1>8, <2>1, <2>2 DEF EditRead
<1>9. QED
  BY <1>4, <1>5, <1>6, <1>7, <1>8 DEF AccessStep

\* Who changes the upload, its files, the places and the day.
LEMMA AccessWrites ==
  ASSUME TypeInv, Next
  PROVE  \/ UNCHANGED access
         \/ Surroundings /\ UNCHANGED <<accounts, catalog, call, seen>>
         \/ \E c \in Calls : /\ HandOut(c) \/ EditWrite(c)
                             /\ UNCHANGED <<accounts, catalog>>
<1>1. CASE UNCHANGED access
  BY <1>1
<1>2. CASE Surroundings /\ UNCHANGED <<accounts, catalog, call>>
  BY <1>2 DEF Surroundings, Hide, Decide, DayEnds, Place
<1>3. CASE \E c \in Calls : AccessStep(c) /\ UNCHANGED <<accounts, catalog>>
  BY <1>3 DEF AccessStep, LoadUpload, LoadViewer, FeedViewer, FeedQuery,
     QueueQuery, EditRead
<1>4. CASE \E c \in Calls : CatalogStep(c) /\ UNCHANGED access
  BY <1>4
<1>5. QED
  BY <1>1, <1>2, <1>3, <1>4, NextCases DEF Arrives

\* An edit writes a row, of an upload that stays its owner's.
LEMMA EditTyped ==
  ASSUME TypeInv, SeenInv, NEW c \in Calls, EditWrite(c)
  PROVE  /\ upload' \in UploadRow /\ upload'.owner = upload.owner
         /\ upload'.hidden = upload.hidden
         /\ seen[c].row.dept = upload.dept
            /\ (upload.dept = Language => upload.audience = {})
            => (upload'.dept = Language => upload'.audience = {})
<1> DEFINE row == seen[c].row
<1>1. row \in UploadRow /\ upload \in UploadRow
  BY DEF SeenInv, SeenOK, EditWrite
<1>2. PICK d \in Maybe(Departments \cup {Language}), asked \in Maybe(Audiences),
           date \in {None, row.expires} \cup {e \in Dates : e > today} :
         upload' = [upload EXCEPT
             !.dept = IF d = None THEN @ ELSE d,
             !.audience = Resolved(row, d, asked),
             !.expires = date,
             !.status = IF row.status = "active" THEN @ ELSE "pending"]
  BY DEF EditWrite
<1>3. PICK dept1 \in Departments \cup {Language} :
              dept1 = IF d = None THEN upload.dept ELSE d
  BY <1>1 DEF Maybe, UploadRow
<1>4. /\ row.audience \in SUBSET Places /\ upload.audience \in SUBSET Places
      /\ row.expires \in Maybe(Days)
      /\ upload.status \in {"pending", "active", "rejected"}
  BY <1>1 DEF UploadRow
<1>5. PICK aud1 \in SUBSET Places : aud1 = Resolved(row, d, asked)
  <2>1. asked # None => asked \in SUBSET Places
    BY AccessAssumption DEF Maybe
  <2>2. QED
    BY <1>4, <2>1 DEF Resolved, Resolve
<1>6. PICK st1 \in {"pending", "active", "rejected"} :
              st1 = IF row.status = "active" THEN upload.status ELSE "pending"
  BY <1>4
<1>7. date \in Maybe(Days)
  BY <1>4 DEF Dates, Maybe
<1>8. upload' = [upload EXCEPT !.dept = dept1, !.audience = aud1,
                               !.expires = date, !.status = st1]
  BY <1>2, <1>3, <1>5, <1>6
<1>9. /\ upload' \in UploadRow /\ upload'.owner = upload.owner
      /\ upload'.hidden = upload.hidden
      /\ upload'.dept = dept1 /\ upload'.audience = aud1
  BY <1>1, <1>7, <1>8 DEF UploadRow
<1>10. ASSUME row.dept = upload.dept, dept1 = Language,
              upload.dept = Language => upload.audience = {}
       PROVE  aud1 = {}
  BY <1>3, <1>5, <1>10 DEF Resolved, Resolve
<1>11. QED
  BY <1>9, <1>10

LEMMA RowsTyped ==
  ASSUME TypeInv, SeenInv, Next
  PROVE  /\ place' \in [Users -> Maybe(Places)]
         /\ upload' \in UploadRow /\ upload'.owner = upload.owner
         /\ file' \in [Files -> FileRow]
         /\ pins' \in SUBSET Users
         /\ today' \in 0 .. LastDay
<1>1. /\ place \in [Users -> Maybe(Places)] /\ upload \in UploadRow
      /\ file \in [Files -> FileRow] /\ pins \in SUBSET Users
      /\ today \in 0 .. LastDay
  BY DEF SeenInv
<1>2. CASE UNCHANGED access
  BY <1>1, <1>2 DEF access
<1>3. CASE Hide
  <2>1. UNCHANGED <<place, pins, today>>
    BY <1>3 DEF Hide
  <2>2. PICK h \in BOOLEAN : h = ~upload.hidden
    BY <1>1 DEF UploadRow
  <2>3. \/ upload' = [upload EXCEPT !.hidden = h] /\ file' = file
        \/ (\E f \in Files : file' = [file EXCEPT ![f].hidden = ~@]) /\ upload' = upload
    BY <1>1, <1>3, <2>2 DEF Hide
  <2>4. CASE upload' = [upload EXCEPT !.hidden = h] /\ file' = file
    BY <1>1, <2>1, <2>4 DEF UploadRow
  <2>5. ASSUME NEW f \in Files, file' = [file EXCEPT ![f].hidden = ~@],
               upload' = upload
        PROVE  file' \in [Files -> FileRow]
    <3>1. PICK b \in BOOLEAN : b = ~file[f].hidden
      BY <1>1 DEF FileRow
    <3>2. file' = [file EXCEPT ![f].hidden = b]
      BY <1>1, <2>5, <3>1
    <3>3. QED
      BY <1>1, <3>2 DEF FileRow
  <2>6. QED
    BY <1>1, <2>1, <2>3, <2>4, <2>5
<1>4. CASE Decide
  <2>1. PICK new \in {"active", "rejected"} :
          \/ upload' = [upload EXCEPT !.status = new] /\ file' = file
          \/ /\ \E f \in Files : file' = [file EXCEPT ![f].status = new]
             /\ upload' = upload
    BY <1>4 DEF Decide
  <2>2. UNCHANGED <<place, pins, today>>
    BY <1>4 DEF Decide
  <2>3. CASE upload' = [upload EXCEPT !.status = new] /\ file' = file
    BY <1>1, <2>2, <2>3 DEF UploadRow
  <2>4. CASE /\ \E f \in Files : file' = [file EXCEPT ![f].status = new]
             /\ upload' = upload
    BY <1>1, <2>2, <2>4 DEF FileRow
  <2>5. QED
    BY <2>1, <2>3, <2>4
<1>5. CASE DayEnds
  <2>1. UNCHANGED <<place, upload, file, pins>> /\ today < LastDay
        /\ today' = today + 1
    BY <1>5 DEF DayEnds
  <2>2. QED
    BY <1>1, <2>1, AccessAssumption
<1>6. CASE Place
  BY <1>1, <1>6 DEF Place, Maybe
<1>7. CASE \E c \in Calls : EditWrite(c)
  BY <1>1, <1>7, EditTyped DEF EditWrite
<1>8. CASE \E c \in Calls : HandOut(c)
  <2>1. PICK c \in Calls : HandOut(c)
    BY <1>8
  <2>2. call[c].actor \in Users
    BY <2>1 DEF HandOut, TypeInv, CallInv, CallOK
  <2>3. QED
    BY <1>1, <2>1, <2>2 DEF HandOut
<1>9. QED
  BY <1>2, <1>3, <1>4, <1>5, <1>6, <1>7, <1>8, AccessWrites DEF Surroundings

LEMMA Watched ==
  ASSUME Next, NEW c \in Calls
  PROVE  /\ call'[c].at = "idle" => could'[c] = {}
         /\ call'[c].at # "idle"
            => could'[c] = could[c] \cup Seeable(call[c].actor)'
BY DEF Next, Watch, Busy

LEMMA SeenNext ==
  ASSUME TypeInv, SeenInv, Next
  PROVE  SeenInv'
<1>1. seen \in [Calls -> SeenRecord] /\ upload \in UploadRow
      /\ file \in [Files -> FileRow] /\ place \in [Users -> Maybe(Places)]
  BY DEF SeenInv
<1>2. DOMAIN seen' = Calls /\ seen' = [c \in Calls |-> seen'[c]]
  <2>1. \A c \in Calls : AccessStep(c) \/ Looks(c) =>
            \E new : seen' = [seen EXCEPT ![c] = new]
    <3>1. SUFFICES ASSUME NEW c \in Calls, AccessStep(c) \/ Looks(c)
                   PROVE  \E new : seen' = [seen EXCEPT ![c] = new]
      OBVIOUS
    <3>2. CASE Looks(c)
      BY <3>2 DEF Looks, Look
    <3>3. CASE LoadUpload(c) \/ FeedViewer(c) \/ HandOut(c) \/ EditRead(c)
               \/ EditWrite(c)
      BY <1>1, <3>3 DEF LoadUpload, FeedViewer, HandOut, EditRead, EditWrite
    <3>4. \A links : Sign(c, links) => \E new : seen' = [seen EXCEPT ![c] = new]
      BY DEF Sign
    <3>5. CASE LoadViewer(c) \/ FeedQuery(c) \/ QueueQuery(c)
      BY <3>4, <3>5 DEF LoadViewer, FeedQuery, QueueQuery
    <3>6. QED
      BY <3>1, <3>2, <3>3, <3>5 DEF AccessStep
  <2>2. \/ UNCHANGED seen
        \/ \E c \in Calls : AccessStep(c) \/ Looks(c)
    BY NextCases DEF Arrives, Surroundings, Hide, Decide, DayEnds, Place
  <2>3. QED
    BY <1>1, <2>1, <2>2
<1>3. ASSUME NEW d \in Calls
      PROVE  seen'[d] \in SeenRecord /\ SeenOK(d)'
  <2>1. seen[d] \in SeenRecord /\ SeenOK(d) /\ CallOK(call[d])
    BY <1>1 DEF SeenInv, TypeInv, CallInv
  <2>2. CASE seen'[d] = seen[d] /\ Elsewhere(d)
    BY <2>1, <2>2 DEF Elsewhere, SeenOK, At, Lookups
  <2>3. CASE Looks(d)
    <3>1. PICK op \in Readers, at \in {"read", "viewer", "guard"},
               actor \in Users, target \in Things, own \in BOOLEAN :
             /\ Look(d, op, at, actor, target, own)
             /\ at = "viewer" <=> op = "feed"
      BY <2>3 DEF Looks
    <3> DEFINE new == [NotSeen EXCEPT !.target = target, !.own = own]
    <3>2. seen'[d] = new
      BY <1>1, <3>1 DEF Look
    <3>3. new \in SeenRecord /\ new.links = {}
      BY NotSeenTyped DEF NotSeen, SeenRecord
    <3>4. call'[d].op = op /\ call'[d].at = at
      BY <3>1 DEF Look, Start, Request, IdleCall, TypeInv, AccountsTypeOK
    <3> HIDE DEF new
    <3>5. SeenOK(d)'
      BY <3>1, <3>2, <3>3, <3>4 DEF SeenOK, At, Readers, Lookups
    <3>6. QED
      BY <3>2, <3>3, <3>5
  <2>4. CASE Ended(d) /\ seen'[d] = NotSeen
    BY <2>4, NotSeenTyped DEF Ended, IdleCall, SeenOK, At, NotSeen
  <2>5. ASSUME NEW links \in SUBSET Things,
               seen'[d] = [NotSeen EXCEPT !.links = links],
               Moved(d), call'[d].at = "sign"
        PROVE  seen'[d] \in SeenRecord /\ SeenOK(d)'
    <3>1. seen'[d] \in SeenRecord
      BY <2>5, NotSeenTyped DEF SeenRecord
    <3>2. QED
      BY <2>5, <3>1 DEF SeenOK, At
  <2>6. CASE /\ LoadUpload(d) /\ Moved(d) /\ call'[d].at = "viewer"
             /\ seen'[d] = [seen[d] EXCEPT !.row = upload, !.files = file]
             /\ call[d].op \in {"download", "detail", "pin"}
    <3> DEFINE new == [seen[d] EXCEPT !.row = upload, !.files = file]
    <3>1. /\ new \in SeenRecord /\ new.links = seen[d].links
          /\ new.row = upload /\ new.files = file
      BY <1>1, <2>1 DEF SeenRecord
    <3>2. seen'[d] = new
      BY <2>6
    <3>3. call[d].at = "read"
      BY <2>6 DEF LoadUpload
    <3> HIDE DEF new
    <3>4. QED
      BY <1>1, <2>1, <2>6, <3>1, <3>2, <3>3 DEF SeenOK, At, Moved
  <2>7. CASE /\ FeedViewer(d) /\ Moved(d) /\ call'[d].at = "read"
             /\ call[d].op = "feed"
             /\ seen'[d] = [seen[d] EXCEPT !.place = place[call[d].actor]]
    <3>1. PICK p \in Maybe(Places) : p = place[call[d].actor]
      BY <1>1, <2>1, <2>7 DEF CallOK, FeedViewer, At
    <3> DEFINE new == [seen[d] EXCEPT !.place = p]
    <3>2. /\ new \in SeenRecord /\ new.links = seen[d].links
      BY <2>1 DEF SeenRecord
    <3>3. seen'[d] = new /\ call[d].at = "viewer"
      BY <2>7, <3>1 DEF FeedViewer, At
    <3> HIDE DEF new
    <3>4. QED
      BY <2>1, <2>7, <3>2, <3>3 DEF SeenOK, At, Moved
  <2>8. CASE /\ EditRead(d) /\ Moved(d) /\ call'[d].at = "write"
             /\ call[d].op = "edit"
             /\ seen'[d] = [seen[d] EXCEPT !.row = upload]
    <3> DEFINE new == [seen[d] EXCEPT !.row = upload]
    <3>1. new \in SeenRecord /\ new.links = seen[d].links /\ new.row = upload
      BY <1>1, <2>1 DEF SeenRecord
    <3>2. seen'[d] = new /\ call[d].at = "read"
      BY <2>8 DEF EditRead, At
    <3> HIDE DEF new
    <3>3. QED
      BY <1>1, <2>1, <2>8, <3>1, <3>2 DEF SeenOK, At, Moved
  <2>9. CASE AccessStep(d)
    BY <2>4, <2>5, <2>6, <2>7, <2>8, <2>9, SeenWrites
  <2>10. QED
    BY <2>2, <2>3, <2>9, SeenCases
<1>4. ASSUME NEW d \in Calls PROVE could'[d] \subseteq Things
  <2>1. Seeable(call[d].actor)' \subseteq Things
    BY DEF Seeable, Things
  <2>2. could[d] \subseteq Things
    BY DEF SeenInv
  <2>3. QED
    BY <2>1, <2>2, Watched
<1>5. seen' \in [Calls -> SeenRecord]
  BY <1>2, <1>3
<1>6. QED
  BY <1>3, <1>4, <1>5, RowsTyped DEF SeenInv

LEMMA SeenInit ==
  ASSUME Init
  PROVE  SeenInv
<1>1. call = [c \in Calls |-> IdleCall]
  BY DEF Init, AccountsInit
<1>2. AccessInit
  BY DEF Init
<1>3. PICK owner \in Users, d \in Departments \cup {Language},
           audience \in Audiences, expires \in Maybe(Dates),
           status \in {"pending", "active"} :
         upload = [status |-> status, owner |-> owner, dept |-> d,
                   audience |-> audience, hidden |-> FALSE,
                   expires |-> expires]
  BY <1>2 DEF AccessInit
<1>4. /\ place \in [Users -> Homes] /\ pins = {} /\ today = 0
      /\ file \in [Files -> [status : {"active"} \cup Undecided,
                             hidden : {FALSE}]]
      /\ seen = [c \in Calls |-> NotSeen] /\ could = [c \in Calls |-> {}]
  BY <1>2 DEF AccessInit
<1>5. audience \in SUBSET Places /\ expires \in Maybe(Days)
  BY AccessAssumption DEF Maybe, Dates
<1>6. upload \in UploadRow
  BY <1>3, <1>5 DEF UploadRow
<1>7. place \in [Users -> Maybe(Places)] /\ file \in [Files -> FileRow]
  BY <1>4 DEF Homes, Maybe, Undecided, FileRow
<1>8. today \in 0 .. LastDay
  BY <1>4, AccessAssumption
<1>9. \A c \in Calls : SeenOK(c) /\ could[c] \subseteq Things
  BY <1>1, <1>4 DEF SeenOK, IdleCall, NotSeen, At
<1>10. QED
  BY <1>4, <1>6, <1>7, <1>8, <1>9, NotSeenTyped DEF SeenInv

LEMMA SeenStutters ==
  ASSUME SeenInv, UNCHANGED vars
  PROVE  SeenInv'
BY DEF SeenInv, SeenOK, At, vars, access

LEMMA SeenInvHolds == Spec => []SeenInv
<1>1. Init => SeenInv
  BY SeenInit
<1>2. TypeInv /\ SeenInv /\ [Next]_vars => SeenInv'
  BY SeenNext, SeenStutters
<1>3. QED
  BY <1>1, <1>2, TypeInvHolds, PTL DEF Spec

\* What a language course offers is for everyone, as long as an owner edits in
\* one tab: the department an edit has read is the one it writes beside.
LanguageInv ==
    /\ upload.dept = Language => upload.audience = {}
    /\ \A c, d \in Calls : call[c].op = "edit" /\ call[d].op = "edit" => c = d
    /\ \A c \in Calls : At(c, "edit", "write") => seen[c].row.dept = upload.dept

\* The only department that changes is that of an upload that is edited.
LEMMA DeptSteps ==
  ASSUME TypeInv, SeenInv, Next
  PROVE  \/ upload'.dept = upload.dept /\ upload'.audience = upload.audience
         \/ \E c \in Calls : EditWrite(c)
<1>1. upload \in UploadRow
  BY DEF SeenInv
<1>2. CASE Surroundings
  BY <1>1, <1>2 DEF Surroundings, Hide, Decide, DayEnds, Place, UploadRow
<1>3. CASE UNCHANGED access \/ \E c \in Calls : HandOut(c)
  BY <1>3 DEF access, HandOut
<1>4. QED
  BY <1>2, <1>3, AccessWrites

LEMMA LanguageNext ==
  ASSUME TypeInv, SeenInv, LanguageInv, ~EditsOverlap, Next
  PROVE  LanguageInv'
<1>1. ASSUME NEW c \in Calls, EditWrite(c)
      PROVE  /\ upload'.dept = Language => upload'.audience = {}
             /\ \A d \in Calls : call'[d].op # "edit"
  <2>1. At(c, "edit", "write") /\ Finish(c) /\ Busy(c)
    BY <1>1 DEF EditWrite, At, Busy
  <2>2. upload'.dept = Language => upload'.audience = {}
    BY <1>1, <2>1, EditTyped DEF LanguageInv
  <2>3. \A d \in Calls : call'[d] = IF d = c THEN IdleCall ELSE call[d]
    BY <2>1, FinishEnds DEF Ended, OnlyCall
  <2>4. \A d \in Calls : call'[d].op # "edit"
    BY <2>1, <2>3 DEF LanguageInv, At, IdleCall
  <2>5. QED
    BY <2>2, <2>4
<1>2. upload'.dept = Language => upload'.audience = {}
  BY <1>1, DeptSteps DEF LanguageInv
<1>3. ASSUME NEW c \in Calls, NEW d \in Calls, call'[c].op = "edit",
             call'[d].op = "edit"
      PROVE  c = d
  <2>1. CASE \E b \in Calls : Arrives(b)
    <3>1. PICK b \in Calls, q \in CallRecord : Start(b, q) /\ Fresh(b, q)
      BY <2>1 DEF Arrives
    <3>2. call'[b] = q /\ \A a \in Calls : a # b => call'[a] = call[a]
      BY <3>1, StartWrites DEF Fresh, OnlyCall
    <3>3. q.op = "edit" => \A a \in Calls : call[a].op # "edit"
      BY <3>1 DEF Fresh
    <3>4. QED
      BY <1>3, <3>2, <3>3 DEF LanguageInv
  <2>2. CASE UNCHANGED call \/ \E b \in Calls : Goes(b)
    <3>1. call[c].op = "edit" /\ call[d].op = "edit"
      BY <1>3, <2>2 DEF Goes, Moved, Ended, OnlyCall, IdleCall
    <3>2. QED
      BY <3>1 DEF LanguageInv
  <2>3. QED
    BY <2>1, <2>2, CallSteps
<1>4. ASSUME NEW c \in Calls, call'[c].op = "edit", call'[c].at = "write"
      PROVE  seen'[c].row.dept = upload'.dept
  <2>1. upload'.dept = upload.dept
    BY <1>1, <1>4, DeptSteps
  <2>2. CASE seen'[c] = seen[c] /\ Elsewhere(c)
    <3>1. call'[c] = call[c]
      BY <1>4, <2>2 DEF Elsewhere
    <3>2. QED
      BY <1>4, <2>1, <2>2, <3>1 DEF LanguageInv, At
  <2>3. CASE AccessStep(c)
    <3>1. EditRead(c) /\ seen'[c] = [seen[c] EXCEPT !.row = upload]
      <4>1. ~Ended(c)
        BY <1>4 DEF Ended, IdleCall
      <4>2. QED
        BY <1>4, <2>3, <4>1, SeenWrites
    <3>2. seen[c] \in SeenRecord
      BY DEF SeenInv
    <3>3. seen'[c].row = upload
      BY <3>1, <3>2 DEF SeenRecord
    <3>4. QED
      BY <2>1, <3>3
  <2>4. CASE Looks(c)
    <3>1. PICK op \in Readers, at \in {"read", "viewer", "guard"},
               actor \in Users, target \in Things, own \in BOOLEAN :
             Look(c, op, at, actor, target, own)
      BY <2>4 DEF Looks
    <3>2. call'[c].op = op
      BY <3>1 DEF Look, Start, Request, IdleCall, TypeInv, AccountsTypeOK
    <3>3. QED
      BY <1>4, <3>2 DEF Readers, Lookups
  <2>5. QED
    BY <2>2, <2>3, <2>4, SeenCases
<1>5. QED
  BY <1>2, <1>3, <1>4 DEF LanguageInv, At

\* Accounts, departments, subjects and uploads hold what their types say; and
\* what a language course offers is for everyone (resolveAudience()), as long as
\* nobody edits an upload in two tabs at once.
THEOREM TypeCorrect == ~EditsOverlap => (Spec => []TypeOK)
<1> SUFFICES ASSUME ~EditsOverlap PROVE Spec => []TypeOK
  OBVIOUS
<1>1. Init => LanguageInv
  <2>1. SUFFICES ASSUME Init PROVE LanguageInv
    OBVIOUS
  <2>2. call = [c \in Calls |-> IdleCall]
    BY <2>1 DEF Init, AccountsInit
  <2>3. upload.dept = Language => upload.audience = {}
    <3>1. AccessInit
      BY <2>1 DEF Init
    <3>2. PICK owner \in Users, d \in Departments \cup {Language},
               audience \in Audiences, expires \in Maybe(Dates),
               status \in {"pending", "active"} :
             /\ d = Language => audience = {}
             /\ upload = [status |-> status, owner |-> owner, dept |-> d,
                          audience |-> audience, hidden |-> FALSE,
                          expires |-> expires]
      BY <3>1 DEF AccessInit
    <3>3. upload.dept = d /\ upload.audience = audience
      BY <3>2
    <3>4. QED
      BY <3>2, <3>3
  <2>4. \A c \in Calls : call[c].op = "none"
    BY <2>2 DEF IdleCall
  <2>5. QED
    BY <2>3, <2>4 DEF LanguageInv, At
<1>2. TypeInv /\ SeenInv /\ LanguageInv /\ [Next]_vars => LanguageInv'
  <2>1. LanguageInv /\ UNCHANGED vars => LanguageInv'
    BY DEF LanguageInv, vars, access, At
  <2>2. QED
    BY <2>1, LanguageNext
<1>3. TypeInv /\ SeenInv /\ LanguageInv => TypeOK
  BY DEF TypeInv, SeenInv, LanguageInv, TypeOK, AccessTypeOK, SeenRecord, Things
<1>4. QED
  BY <1>1, <1>2, <1>3, TypeInvHolds, SeenInvHolds, PTL DEF Spec

-----------------------------------------------------------------------------
(* Whoever is handed a link was allowed to see what is behind it.           *)

\* Requests that judge by two statements are kept apart from those that change
\* what both of them are about: a student is not moved while owners edit and
\* reviews are decided, and nobody loses a department while uploads move between
\* departments and the queue is read.
KeptApart ==
    \A m \in Mixes :
       /\ "place" \in m => m \cap {"edit", "hide", "decide"} = {}
       /\ {"queue", "edit"} \subseteq m
          => m \cap {"ban", "unassign", "unassignAll", "removeDept"} = {}

\* A row, with its files, lets a stranger of some place through to a thing.
Opens(row, files, p, t) ==
    /\ row.status = "active" /\ ~row.hidden /\ ~Expired(row)
    /\ Matches(row.audience, p)
    /\ t # Folder => Shown(files[t])

WatchOK(c) == Busy(c) => /\ Seeable(call[c].actor) \subseteq could[c]
                         /\ call[c].op \in mix
LinksOK(c) == seen[c].links \subseteq could[c]
\* What the row that was loaded opens was open when it was loaded.
LoadedOK(c) ==
    call[c].at = "viewer" /\ call[c].op \in {"download", "detail", "pin"}
    => /\ seen[c].row.owner = upload.owner
       /\ call[c].op # "download" => seen[c].row.status = "active"
       /\ \A t \in Things :
             Opens(seen[c].row, seen[c].files, place[call[c].actor], t)
             => t \in could[c]
       /\ "place" \in mix => seen[c].row = upload /\ seen[c].files = file
\* What is open to where the viewer was when he was loaded was open to him.
FeedOK(c) ==
    At(c, "feed", "read")
    => /\ call[c].admin => Things \subseteq could[c]
       /\ \A t \in Things :
             Opens(upload, file, seen[c].place, t) => t \in could[c]
       /\ "place" \notin mix => seen[c].place = place[call[c].actor]
\* The departments the guard found were the reviewer's.
QueueOK(c) ==
    /\ At(c, "queue", "scope") \/ At(c, "queue", "read")
       => (call[c].admin => Things \subseteq could[c])
    /\ At(c, "queue", "read")
       => /\ upload.dept \in call[c].scope => Things \subseteq could[c]
          /\ "edit" \in mix => \A d \in call[c].scope :
                                  <<call[c].actor, d>> \in moderators

HandOK(c) ==
    WatchOK(c) /\ LinksOK(c) /\ LoadedOK(c) /\ FeedOK(c) /\ QueueOK(c)
HandInv == \A c \in Calls : HandOK(c)

LEMMA Trusted ==
  ASSUME NEW u \in Users,
         IsAdmin(u) \/ upload.owner = u \/ <<u, upload.dept>> \in moderators
  PROVE  Seeable(u) = Things
BY DEF Seeable, MaySee, Things

LEMMA OpensSeeable ==
  ASSUME SeenInv, NEW u \in Users, NEW t \in Things,
         Opens(upload, file, place[u], t)
  PROVE  t \in Seeable(u)
<1>1. upload.expires \in Maybe(Days) /\ today \in Nat
  BY AccessAssumption DEF SeenInv, UploadRow
<1>2. upload.expires = None \/ today < upload.expires
  BY <1>1, AccessAssumption DEF Opens, Expired, Maybe, Days
<1>3. QED
  BY <1>2 DEF Opens, Matches, Shown, Seeable, MaySee, Things

\* The day goes on: what has expired has expired later.
LEMMA Sooner ==
  ASSUME TypeInv, SeenInv, Next, NEW row \in UploadRow, Expired(row)
  PROVE  Expired(row)'
<1>1. today \in Nat
  BY AccessAssumption DEF SeenInv
<1>2. today' = today \/ today' = today + 1
  BY AccessWrites DEF access, Surroundings, Hide, Decide, DayEnds, Place,
     HandOut, EditWrite
<1>3. row.expires \in Maybe(Days)
  BY DEF UploadRow
<1>4. QED
  BY <1>1, <1>2, <1>3, AccessAssumption DEF Expired, Maybe, Days

\* What the steps around a reader change, and by operations of which behaviours.
LEMMA MixSteps ==
  ASSUME TypeInv, SeenInv, HandInv, Next
  PROVE  /\ UNCHANGED <<upload, file>> \/ mix \cap {"edit", "hide", "decide"} # {}
         /\ place' = place \/ /\ "place" \in mix
                              /\ UNCHANGED <<upload, file>>
         /\ upload'.dept = upload.dept
            \/ ("edit" \in mix /\ UNCHANGED moderators)
         /\ moderators \subseteq moderators'
            \/ mix \cap {"ban", "unassign", "unassignAll", "removeDept"} # {}
<1>1. ASSUME NEW c \in Calls, EditWrite(c)
      PROVE  "edit" \in mix /\ UNCHANGED <<place, file>>
  BY <1>1 DEF EditWrite, At, Busy, HandInv, HandOK, WatchOK
<1>2. UNCHANGED <<upload, file>> \/ mix \cap {"edit", "hide", "decide"} # {}
  BY <1>1, AccessWrites
  DEF access, Surroundings, Hide, Decide, DayEnds, Place, HandOut
<1>3. place' = place \/ /\ "place" \in mix
                        /\ UNCHANGED <<upload, file>>
  BY <1>1, AccessWrites
  DEF access, Surroundings, Hide, Decide, DayEnds, Place, HandOut
<1>4. ASSUME upload'.dept # upload.dept
      PROVE  "edit" \in mix /\ UNCHANGED moderators
  <2>1. PICK c \in Calls : EditWrite(c)
    BY <1>4, DeptSteps
  <2>2. UNCHANGED accounts
    BY <2>1 DEF EditWrite
  <2>3. QED
    BY <1>1, <2>1, <2>2 DEF accounts
<1>5. ASSUME ~(moderators \subseteq moderators')
      PROVE  mix \cap {"ban", "unassign", "unassignAll", "removeDept"} # {}
  <2>1. PICK c \in Calls : BanStrip(c) \/ Unassign(c) \/ UnassignAll(c)
                           \/ RemoveDeptWrite(c)
    <3>1. CASE \E c \in Calls : AccountStep(c) \/ Assign(c, There)
      BY <1>5, <3>1 DEF AccountStep, AdminGuard, SetRoleRead, SetRoleCount,
         SetRoleWrite, BanRead, BanCheck, BanInsert, UnbanRead, UnbanWrite,
         ReviewerRole, ReviewerScope, Assign, accounts
    <3>2. CASE \E c \in Calls : CatalogStep(c)
      BY <1>5, <3>2 DEF CatalogStep, PutFile, CreateDeptSave, SaveFails,
         UpdateDeptRead, UpdateDeptSave, RemoveDeptRead, RemoveDeptCount,
         CleanLogo, SubmitPut, SubmitSave, SubmitFails, WithdrawRead,
         DeleteSubject, ReviewRead, RejectCover, ReviewWrite, accounts
    <3>3. CASE UNCHANGED accounts
      BY <1>5, <3>3 DEF accounts
    <3>4. QED
      BY <3>1, <3>2, <3>3, NextCases DEF Arrives
  <2>2. /\ call[c].op \in {"ban", "unassign", "unassignAll", "removeDept"}
        /\ Busy(c)
    BY <2>1 DEF BanStrip, Unassign, UnassignAll, RemoveDeptWrite, At, Busy
  <2>3. QED
    BY <2>2 DEF HandInv, HandOK, WatchOK
<1>6. QED
  BY <1>2, <1>3, <1>4, <1>5

LEMMA WatchNext ==
  ASSUME TypeInv, HandInv, Next, NEW d \in Calls
  PROVE  WatchOK(d)'
<1>1. CASE call'[d].at = "idle"
  BY <1>1 DEF WatchOK, Busy
<1>2. CASE call'[d].at # "idle"
  <2>1. Seeable(call[d].actor)' \subseteq could'[d]
    BY <1>2, Watched
  <2>2. call'[d].op \in mix'
    <3>1. UNCHANGED mix
      BY NextCases
    <3>2. CASE \E c \in Calls : Arrives(c)
      <4>1. PICK c \in Calls, q \in CallRecord : Start(c, q) /\ CallOK(q)
        BY <3>2 DEF Arrives, Fresh
      <4>2. QED
        BY <1>2, <3>1, <4>1, StartWrites
        DEF OnlyCall, HandInv, HandOK, WatchOK, Busy
    <3>3. CASE UNCHANGED call \/ \E c \in Calls : Goes(c)
      <4>1. call[d].op = call'[d].op /\ Busy(d)
        BY <1>2, <3>3 DEF Goes, Moved, Ended, OnlyCall, IdleCall, Busy
      <4>2. QED
        BY <3>1, <4>1 DEF HandInv, HandOK, WatchOK
    <3>4. QED
      BY <3>2, <3>3, CallSteps
  <2>3. QED
    BY <2>1, <2>2 DEF WatchOK
<1>3. QED
  BY <1>1, <1>2

\* The links that are made are to what the reader could see by then.
LEMMA SignedAllowed ==
  ASSUME TypeInv, SeenInv, HandInv, NEW c \in Calls,
         LoadViewer(c) \/ FeedQuery(c) \/ QueueQuery(c)
  PROVE  seen'[c].links \subseteq could[c]
<1> DEFINE u == call[c].actor
           row == seen[c].row
<1>1. /\ u \in Users /\ Busy(c)
      /\ seen \in [Calls -> SeenRecord] /\ HandOK(c) /\ SeenOK(c)
  BY DEF LoadViewer, FeedQuery, QueueQuery, At, TypeInv, CallInv, CallOK,
     SeenInv, HandInv, Busy
<1>2. IsAdmin(u) \/ upload.owner = u => Things \subseteq could[c]
  BY <1>1, Trusted DEF HandOK, WatchOK
<1>3. ASSUME NEW links, Sign(c, links), links \subseteq could[c]
      PROVE  seen'[c].links \subseteq could[c]
  <2>1. seen'[c] \in {NotSeen, [NotSeen EXCEPT !.links = links]}
    BY <1>1, <1>3 DEF Sign
  <2>2. NotSeen.links = {} /\ [NotSeen EXCEPT !.links = links].links = links
    BY DEF NotSeen
  <2>3. QED
    BY <1>3, <2>1, <2>2
<1>4. CASE LoadViewer(c)
  <2>1. /\ call[c].op \in {"download", "detail", "pin"} /\ call[c].at = "viewer"
        /\ \/ /\ call[c].op = "download"
              /\ Sign(c, DownloadLinks(seen[c].target, row, seen[c].files, u))
           \/ call[c].op = "detail" /\ Sign(c, DetailLinks(row, seen[c].files, u))
           \/ call[c].op = "pin" /\ Sign(c, PinLinks(row, u))
    BY <1>4 DEF LoadViewer
  <2>2. /\ row.owner = upload.owner
        /\ call[c].op # "download" => row.status = "active"
        /\ \A t \in Things : Opens(row, seen[c].files, place[u], t)
                             => t \in could[c]
    BY <1>1, <2>1 DEF HandOK, LoadedOK
  <2>3. Privileged(row, u) => Things \subseteq could[c]
    BY <1>2, <2>2 DEF Privileged
  <2>4. seen[c].target \in Things
    BY <1>1 DEF SeenRecord
  <2>5. CASE Privileged(row, u)
    <3>1. /\ DownloadLinks(seen[c].target, row, seen[c].files, u) \subseteq Things
          /\ DetailLinks(row, seen[c].files, u) \subseteq Things
          /\ PinLinks(row, u) \subseteq Things
      BY <2>4 DEF DownloadLinks, DetailLinks, PinLinks, Things
    <3>2. QED
      BY <1>3, <2>1, <2>3, <2>5, <3>1
  <2>6. CASE ~Privileged(row, u)
    <3>1. CanView(row, u)
          => ~Expired(row) /\ ~row.hidden /\ Matches(row.audience, place[u])
      BY <2>6 DEF CanView, Privileged
    <3>2. ASSUME NEW f \in DownloadLinks(seen[c].target, row, seen[c].files, u)
          PROVE  f \in could[c]
      <4>1. /\ f = seen[c].target /\ CanView(row, u) /\ row.status = "active"
            /\ Shown(seen[c].files[f])
        BY <2>6, <3>2 DEF DownloadLinks
      <4>2. QED
        BY <2>2, <2>4, <3>1, <4>1 DEF Opens
    <3>3. ASSUME NEW f \in DetailLinks(row, seen[c].files, u),
                 call[c].op = "detail"
          PROVE  f \in could[c]
      <4>1. f \in Files /\ CanView(row, u) /\ Shown(seen[c].files[f])
        BY <2>6, <3>3 DEF DetailLinks
      <4>2. QED
        BY <2>2, <3>1, <3>3, <4>1 DEF Opens, Things
    <3>4. ASSUME NEW f \in PinLinks(row, u), call[c].op = "pin"
          PROVE  f \in could[c]
      <4>1. f = Folder /\ CanView(row, u)
        BY <3>4 DEF PinLinks
      <4>2. QED
        BY <2>2, <3>1, <3>4, <4>1 DEF Opens, Things
    <3>5. QED
      BY <1>3, <2>1, <3>2, <3>3, <3>4
  <2>7. QED
    BY <2>5, <2>6
<1>5. CASE FeedQuery(c)
  <2>1. /\ At(c, "feed", "read")
        /\ Sign(c, FeedLinks(u, call[c].admin, seen[c].place, seen[c].own))
    BY <1>5 DEF FeedQuery
  <2>2. /\ call[c].admin => Things \subseteq could[c]
        /\ \A t \in Things : Opens(upload, file, seen[c].place, t)
                             => t \in could[c]
    BY <1>1, <2>1 DEF HandOK, FeedOK
  <2>3. ASSUME NEW f \in FeedLinks(u, call[c].admin, seen[c].place, seen[c].own)
        PROVE  f \in could[c]
    <3>1. /\ seen[c].own => upload.owner = u
          /\ seen[c].own \/ upload.status = "active"
          /\ Visible(u, call[c].admin, seen[c].place, seen[c].own)
          /\ f \in Files /\ Shown(file[f])
      BY <2>3 DEF FeedLinks
    <3>2. f \in Things
      BY <3>1 DEF Things
    <3>3. CASE call[c].admin \/ upload.owner = u
      BY <1>2, <2>2, <3>2, <3>3
    <3>4. CASE ~call[c].admin /\ upload.owner # u
      BY <2>2, <3>1, <3>2, <3>4 DEF Visible, Opens
    <3>5. QED
      BY <3>3, <3>4
  <2>4. QED
    BY <1>3, <2>1, <2>3
<1>6. CASE QueueQuery(c)
  <2>1. At(c, "queue", "read") /\ Sign(c, QueueLinks(c))
    BY <1>6 DEF QueueQuery
  <2>2. CanModerate(c, upload.dept) => Things \subseteq could[c]
    BY <1>1, <2>1 DEF HandOK, QueueOK, CanModerate
  <2>3. QueueLinks(c) \subseteq could[c]
    BY <2>2 DEF QueueLinks, Things
  <2>4. QED
    BY <1>3, <2>1, <2>3
<1>7. QED
  BY <1>4, <1>5, <1>6

\* A step later, too, who finds the upload open can see it.
LEMMA OpensSeeableNext ==
  ASSUME SeenInv', NEW u \in Users, NEW t \in Things,
         Opens(upload, file, place[u], t)'
  PROVE  t \in Seeable(u)'
<1>1. upload'.expires \in Maybe(Days) /\ today' \in Nat
  BY AccessAssumption DEF SeenInv, UploadRow
<1>2. upload'.expires = None \/ today' < upload'.expires
  BY <1>1, AccessAssumption DEF Opens, Expired, Maybe, Days
<1>3. QED
  BY <1>2 DEF Opens, Matches, Shown, Seeable, MaySee, Things

LEMMA TrustedNext ==
  ASSUME NEW u \in Users,
         \/ IsAdmin(u)' \/ upload'.owner = u
         \/ <<u, upload'.dept>> \in moderators'
  PROVE  Seeable(u)' = Things
BY DEF Seeable, MaySee, Things

\* A row that was loaded, or is left to the next query, is open to nobody later
\* who could not see it before.
LEMMA StaysOpened ==
  ASSUME TypeInv, SeenInv, HandInv, Next, KeptApart, NEW d \in Calls,
         call'[d] = call[d], seen'[d] = seen[d], Busy(d)
  PROVE  LoadedOK(d)' /\ FeedOK(d)' /\ QueueOK(d)'
<1> DEFINE u == call[d].actor
<1>1. /\ u \in Users /\ HandOK(d) /\ SeenOK(d) /\ call'[d].at # "idle"
      /\ call[d].op \in mix
  BY DEF TypeInv, CallInv, CallOK, SeenInv, HandInv, HandOK, WatchOK, Busy
<1>2. could'[d] = could[d] \cup Seeable(u)'
  BY <1>1, Watched
<1>3. mix' = mix /\ mix \in Mixes
  BY NextCases DEF TypeInv, AccountsTypeOK
<1>4. SeenInv' /\ upload'.owner = upload.owner /\ upload \in UploadRow
      /\ upload' \in UploadRow
  BY SeenNext, RowsTyped DEF SeenInv
<1>5. "place" \in mix => UNCHANGED <<upload, file>>
  BY <1>3, MixSteps DEF KeptApart
<1>6. "place" \notin mix => UNCHANGED place
  BY MixSteps
<1>7. \A t \in Things : Opens(upload, file, place[u], t)' => t \in could'[d]
  BY <1>1, <1>2, <1>4, OpensSeeableNext
<1>8. LoadedOK(d)'
  <2> DEFINE row == seen[d].row
             files == seen[d].files
  <2>1. SUFFICES ASSUME call[d].at = "viewer",
                        call[d].op \in {"download", "detail", "pin"}
                 PROVE  /\ row.owner = upload'.owner
                        /\ call[d].op # "download" => row.status = "active"
                        /\ \A t \in Things :
                              (/\ row.status = "active" /\ ~row.hidden
                               /\ ~Expired(row)'
                               /\ Matches(row.audience, place'[u])
                               /\ t # Folder => Shown(files[t]))
                              => t \in could'[d]
                        /\ "place" \in mix' => row = upload' /\ files = file'
    BY DEF LoadedOK, Opens, Expired, Matches, Shown
  <2>2. /\ row.owner = upload.owner /\ row \in UploadRow
        /\ call[d].op # "download" => row.status = "active"
        /\ \A t \in Things : Opens(row, files, place[u], t) => t \in could[d]
        /\ "place" \in mix => row = upload /\ files = file
    BY <1>1, <2>1 DEF HandOK, LoadedOK, SeenOK
  <2>3. ASSUME NEW t \in Things, row.status = "active", ~row.hidden,
               ~Expired(row)', Matches(row.audience, place'[u]),
               t # Folder => Shown(files[t])
        PROVE  t \in could'[d]
    <3>1. CASE "place" \in mix
      <4>1. row = upload' /\ files = file'
        BY <1>5, <2>2, <3>1
      <4>2. Opens(upload, file, place[u], t)'
        BY <2>3, <4>1 DEF Opens, Expired, Matches, Shown
      <4>3. QED
        BY <1>7, <4>2
    <3>2. CASE "place" \notin mix
      <4>1. PICK r \in UploadRow : r = row
        BY <2>2
      <4>2. ~Expired(r)
        BY <2>3, <4>1, Sooner DEF Expired
      <4>3. Opens(r, files, place[u], t)
        BY <1>6, <2>3, <3>2, <4>1, <4>2 DEF Opens
      <4>4. QED
        BY <1>2, <2>2, <4>1, <4>3
    <3>3. QED
      BY <3>1, <3>2
  <2>4. QED
    BY <1>3, <1>4, <1>5, <2>2, <2>3
<1>9. FeedOK(d)'
  <2>1. SUFFICES ASSUME At(d, "feed", "read")
                 PROVE  /\ call[d].admin => Things \subseteq could'[d]
                        /\ \A t \in Things :
                              (/\ upload'.status = "active" /\ ~upload'.hidden
                               /\ ~Expired(upload)'
                               /\ Matches(upload'.audience, seen[d].place)
                               /\ t # Folder => Shown(file'[t]))
                              => t \in could'[d]
                        /\ "place" \notin mix' => seen[d].place = place'[u]
    BY DEF FeedOK, At, Opens, Expired, Matches, Shown
  <2>2. /\ call[d].admin => Things \subseteq could[d]
        /\ \A t \in Things :
              Opens(upload, file, seen[d].place, t) => t \in could[d]
        /\ "place" \notin mix => seen[d].place = place[u]
    BY <1>1, <2>1 DEF HandOK, FeedOK
  <2>3. ASSUME NEW t \in Things, upload'.status = "active", ~upload'.hidden,
               ~Expired(upload)', Matches(upload'.audience, seen[d].place),
               t # Folder => Shown(file'[t])
        PROVE  t \in could'[d]
    <3>1. CASE "place" \in mix
      <4>1. upload' = upload /\ file' = file
        BY <1>5, <3>1
      <4>2. ~Expired(upload)
        BY <1>4, <2>3, <4>1, Sooner DEF Expired
      <4>3. Opens(upload, file, seen[d].place, t)
        BY <2>3, <4>1, <4>2 DEF Opens
      <4>4. QED
        BY <1>2, <2>2, <4>3
    <3>2. CASE "place" \notin mix
      <4>1. seen[d].place = place'[u]
        BY <1>6, <2>2, <3>2
      <4>2. Opens(upload, file, place[u], t)'
        BY <2>3, <4>1 DEF Opens, Expired, Matches, Shown
      <4>3. QED
        BY <1>7, <4>2
    <3>3. QED
      BY <3>1, <3>2
  <2>4. QED
    BY <1>2, <1>3, <1>6, <2>2, <2>3
<1>10. QueueOK(d)'
  <2>1. CASE call[d].op # "queue"
    BY <2>1 DEF QueueOK, At
  <2>2. CASE call[d].op = "queue"
    <3>1. call[d].admin /\ call[d].at \in {"scope", "read"}
          => Things \subseteq could'[d]
      BY <1>1, <1>2, <2>2 DEF HandOK, QueueOK, At
    <3>2. ASSUME call[d].at = "read"
          PROVE  /\ upload'.dept \in call[d].scope => Things \subseteq could'[d]
                 /\ "edit" \in mix' => \A e \in call[d].scope :
                                          <<u, e>> \in moderators'
      <4>1. /\ upload.dept \in call[d].scope => Things \subseteq could[d]
            /\ "edit" \in mix => \A e \in call[d].scope : <<u, e>> \in moderators
        BY <1>1, <2>2, <3>2 DEF HandOK, QueueOK, At
      <4>2. "edit" \in mix => moderators \subseteq moderators'
        BY <1>1, <1>3, <2>2, MixSteps DEF KeptApart
      <4>3. "edit" \in mix => \A e \in call[d].scope : <<u, e>> \in moderators'
        BY <4>1, <4>2
      <4>4. ASSUME upload'.dept \in call[d].scope
            PROVE  Things \subseteq could'[d]
        <5>1. CASE upload'.dept = upload.dept
          BY <1>2, <4>1, <4>4, <5>1
        <5>2. CASE upload'.dept # upload.dept
          <6>1. <<u, upload'.dept>> \in moderators'
            BY <4>3, <4>4, <5>2, MixSteps
          <6>2. QED
            BY <1>1, <1>2, <6>1, TrustedNext
        <5>3. QED
          BY <5>1, <5>2
      <4>5. QED
        BY <1>3, <4>3, <4>4
    <3>3. QED
      BY <2>2, <3>1, <3>2 DEF QueueOK, At
  <2>3. QED
    BY <2>1, <2>2
<1>11. QED
  BY <1>8, <1>9, <1>10

LEMMA WatchedUser ==
  ASSUME Next, NEW c \in Calls, NEW u, call'[c].actor = u, call'[c].at # "idle"
  PROVE  could[c] \subseteq could'[c] /\ Seeable(u)' \subseteq could'[c]
BY Watched

\* What the step of a reader itself leaves behind.
LEMMA ReaderNext ==
  ASSUME TypeInv, SeenInv, HandInv, Next, NEW d \in Calls,
         AccessStep(d), UNCHANGED <<accounts, catalog>>
  PROVE  LinksOK(d)' /\ LoadedOK(d)' /\ FeedOK(d)' /\ QueueOK(d)'
<1>1. /\ call[d].actor \in Users /\ HandOK(d) /\ SeenOK(d) /\ Busy(d)
      /\ seen[d] \in SeenRecord /\ SeenInv'
  BY AccessStepGoes, SeenNext
  DEF TypeInv, CallInv, CallOK, SeenInv, HandInv, Busy, Goes, Moved, Ended
<1> PICK u \in Users : u = call[d].actor
  BY <1>1
<1>2. call'[d].actor = u /\ call'[d].at # "idle"
      => \A t \in Things : Opens(upload, file, place[u], t)' => t \in could'[d]
  BY <1>1, WatchedUser, OpensSeeableNext
<1>3. CASE Ended(d) /\ seen'[d] = NotSeen
  <2>1. call'[d].op = "none" /\ call'[d].at = "idle" /\ seen'[d].links = {}
    BY <1>3 DEF Ended, IdleCall, NotSeen
  <2>2. QED
    BY <2>1 DEF LinksOK, LoadedOK, FeedOK, QueueOK, At
<1>4. ASSUME NEW links \in SUBSET Things, links # {}, Moved(d),
             seen'[d] = [NotSeen EXCEPT !.links = links], call'[d].at = "sign"
      PROVE  LinksOK(d)' /\ LoadedOK(d)' /\ FeedOK(d)' /\ QueueOK(d)'
  <2>1. seen'[d].links \subseteq could[d]
    <3>1. CASE LoadViewer(d) \/ FeedQuery(d) \/ QueueQuery(d)
      BY <3>1, SignedAllowed
    <3>2. CASE LoadUpload(d) \/ FeedViewer(d) \/ HandOut(d) \/ EditRead(d)
               \/ EditWrite(d)
      <4>1. Goto(d, "viewer") \/ Finish(d) \/ FeedViewer(d) \/ Goto(d, "write")
        BY <3>2 DEF LoadUpload, HandOut, EditRead, EditWrite
      <4>2. call'[d].at # "sign"
        BY <1>1, <4>1, GotoMoves, FinishEnds, FeedViewerMoves
        DEF Ended, IdleCall, Positions
      <4>3. QED
        BY <1>4, <4>2
    <3>3. QED
      BY <3>1, <3>2 DEF AccessStep
  <2>2. could[d] \subseteq could'[d]
    BY <1>4, Watched DEF Moved
  <2>3. QED
    BY <1>4, <2>1, <2>2 DEF LinksOK, LoadedOK, FeedOK, QueueOK, At
<1>5. CASE /\ LoadUpload(d) /\ Moved(d) /\ call'[d].at = "viewer"
           /\ seen'[d] = [seen[d] EXCEPT !.row = upload, !.files = file]
           /\ call[d].op \in {"download", "detail", "pin"}
  <2>1. /\ call[d].at = "read" /\ UNCHANGED access
        /\ \/ call[d].op = "download" \/ upload.status = "active"
           \/ Finish(d)
    BY <1>5 DEF LoadUpload
  <2>2. ~Finish(d)
    BY <1>1, <1>5, FinishEnds DEF Ended, IdleCall
  <2>3. /\ seen'[d].row = upload' /\ seen'[d].files = file'
        /\ seen'[d].links = seen[d].links
    BY <1>1, <1>5, <2>1 DEF SeenRecord, access
  <2>4. seen'[d].links = {}
    BY <1>1, <2>1, <2>3 DEF SeenOK
  <2>5. LoadedOK(d)'
    <3>1. call[d].op # "download" => upload'.status = "active"
      BY <2>1, <2>2 DEF access
    <3>2. call'[d].actor = call[d].actor /\ call'[d].op = call[d].op
          /\ call'[d].at # "idle"
      BY <1>5 DEF Moved
    <3>3. \A t \in Things : Opens(upload, file, place[u], t)' => t \in could'[d]
      BY <1>2, <3>2
    <3>4. QED
      BY <2>3, <3>1, <3>2, <3>3 DEF LoadedOK, Opens, Expired, Matches, Shown
  <2>6. LinksOK(d)' /\ FeedOK(d)' /\ QueueOK(d)'
    BY <1>5, <2>4 DEF LinksOK, FeedOK, QueueOK, At
  <2>7. QED
    BY <2>5, <2>6
<1>6. CASE /\ FeedViewer(d) /\ Moved(d) /\ call'[d].at = "read"
           /\ call[d].op = "feed"
           /\ call'[d].admin = IsAdmin(call[d].actor)
           /\ seen'[d] = [seen[d] EXCEPT !.place = place[call[d].actor]]
  <2>1. call[d].at = "viewer" /\ UNCHANGED <<accounts, access>>
    BY <1>6 DEF FeedViewer, At
  <2>2. /\ seen'[d].place = place'[call[d].actor]
        /\ seen'[d].links = seen[d].links
    BY <1>1, <1>6, <2>1 DEF SeenRecord, access
  <2>3. seen'[d].links = {}
    BY <1>1, <2>1, <2>2 DEF SeenOK
  <2>4. call'[d].actor = call[d].actor /\ call'[d].op = call[d].op
        /\ call'[d].at # "idle"
    BY <1>6 DEF Moved
  <2>5. call'[d].admin => Things \subseteq could'[d]
    <3>1. call'[d].admin => IsAdmin(u)'
      BY <1>6, <2>1 DEF accounts, IsAdmin
    <3>2. QED
      BY <2>4, <3>1, TrustedNext, WatchedUser
  <2>6. \A t \in Things : Opens(upload, file, place[u], t)' => t \in could'[d]
    BY <1>2, <2>4
  <2>7. FeedOK(d)'
    BY <2>2, <2>4, <2>5, <2>6 DEF FeedOK, Opens, Expired, Matches, Shown
  <2>8. LinksOK(d)' /\ LoadedOK(d)' /\ QueueOK(d)'
    BY <1>6, <2>3, <2>4 DEF LinksOK, LoadedOK, QueueOK, At
  <2>9. QED
    BY <2>7, <2>8
<1>7. CASE /\ EditRead(d) /\ Moved(d) /\ call'[d].at = "write"
           /\ call[d].op = "edit"
           /\ seen'[d] = [seen[d] EXCEPT !.row = upload]
  <2>1. call[d].at = "read"
    BY <1>7 DEF EditRead, At
  <2>2. seen'[d].links = {}
    BY <1>1, <1>7, <2>1 DEF SeenRecord, SeenOK
  <2>3. QED
    BY <1>7, <2>2 DEF LinksOK, LoadedOK, FeedOK, QueueOK, At
<1>8. QED
  BY <1>3, <1>4, <1>5, <1>6, <1>7, SeenWrites

LEMMA HandNext ==
  ASSUME TypeInv, SeenInv, HandInv, Next, KeptApart, NEW d \in Calls
  PROVE  LinksOK(d)' /\ LoadedOK(d)' /\ FeedOK(d)' /\ QueueOK(d)'
<1>1. HandOK(d) /\ SeenOK(d) /\ CallOK(call[d])
  BY DEF HandInv, SeenInv, TypeInv, CallInv
<1>2. call[d].at = "idle" => call[d].op = "none"
  BY <1>1 DEF CallOK, IdleCall
<1>3. CASE call'[d] = call[d] /\ seen'[d] = seen[d]
  <2>1. CASE Busy(d)
    <3>1. could[d] \subseteq could'[d]
      BY <1>3, <2>1, Watched DEF Busy
    <3>2. LinksOK(d)'
      BY <1>1, <1>3, <3>1 DEF HandOK, LinksOK
    <3>3. QED
      BY <1>3, <2>1, <3>2, StaysOpened
  <2>2. CASE ~Busy(d)
    <3>1. seen'[d].links = {} /\ call'[d].op = "none"
      BY <1>1, <1>2, <1>3, <2>2 DEF SeenOK, Busy
    <3>2. QED
      BY <3>1 DEF LinksOK, LoadedOK, FeedOK, QueueOK, At
  <2>3. QED
    BY <2>1, <2>2
<1>4. CASE seen'[d] = seen[d] /\ call[d].at # "sign" /\ call'[d].op \notin Lookups
           /\ (call'[d].op = "queue" => ReviewerRole(d) \/ ReviewerScope(d))
  <2>1. seen'[d].links = {}
    BY <1>1, <1>4 DEF SeenOK
  <2>2. LinksOK(d)' /\ LoadedOK(d)' /\ FeedOK(d)'
    BY <1>4, <2>1 DEF LinksOK, LoadedOK, FeedOK, At, Lookups
  <2>3. CASE call'[d].op # "queue"
    BY <2>2, <2>3 DEF QueueOK, At
  <2>4. CASE call'[d].op = "queue" /\ ReviewerRole(d)
    <3>1. /\ call'[d].at = "scope" /\ Moved(d) /\ UNCHANGED accounts
          /\ call'[d].admin = IsAdmin(call[d].actor)
      BY <2>4, ReviewerRoleMoves DEF ReviewerRole
    <3>2. PICK u \in Users : u = call[d].actor
      BY <3>1, <1>1 DEF Moved, CallOK, Busy
    <3>3. call'[d].admin => IsAdmin(u)'
      BY <3>1, <3>2 DEF accounts, IsAdmin
    <3>4. call'[d].admin => Things \subseteq could'[d]
      BY <3>1, <3>2, <3>3, TrustedNext, WatchedUser DEF Moved
    <3>5. QED
      BY <2>2, <3>1, <3>4 DEF QueueOK, At
  <2>5. CASE call'[d].op = "queue" /\ ReviewerScope(d)
    <3>1. ~Ended(d)
      BY <2>5 DEF Ended, IdleCall
    <3>2. /\ call[d].at = "scope" /\ Moved(d) /\ call'[d].at = "read"
          /\ call'[d].admin = call[d].admin
          /\ call'[d].scope = {e \in Departments :
                                  <<call[d].actor, e>> \in moderators}
          /\ UNCHANGED accounts
      BY <2>5, <3>1, ReviewerScopeMoves DEF ReviewerScope
    <3>3. /\ call[d].actor \in Users /\ call'[d].actor = call[d].actor
          /\ call[d].op = "queue"
      BY <2>5, <3>2, <1>1 DEF Moved, CallOK, Busy
    <3>4. /\ could[d] \subseteq could'[d]
          /\ Seeable(call[d].actor)' \subseteq could'[d]
      BY <3>2, Watched
    <3>5. call'[d].admin => Things \subseteq could'[d]
      BY <1>1, <3>2, <3>3, <3>4 DEF HandOK, QueueOK, At
    <3>6. \A e \in call'[d].scope : <<call[d].actor, e>> \in moderators'
      BY <3>2 DEF accounts
    <3>7. upload'.dept \in call'[d].scope => Things \subseteq could'[d]
      BY <3>3, <3>4, <3>6, TrustedNext
    <3>8. QED
      BY <2>2, <3>2, <3>3, <3>5, <3>6, <3>7 DEF QueueOK, At
  <2>6. QED
    BY <1>4, <2>3, <2>4, <2>5
<1>5. CASE Looks(d)
  <2>1. PICK op \in Readers, at \in {"read", "viewer", "guard"},
             actor \in Users, target \in Things, own \in BOOLEAN :
           /\ Look(d, op, at, actor, target, own)
           /\ at = "guard" <=> op = "queue"
           /\ at = "viewer" <=> op = "feed"
    BY <1>5 DEF Looks
  <2>2. call'[d].op = op /\ call'[d].at = at
    BY <2>1 DEF Look, Start, Request, IdleCall, TypeInv, AccountsTypeOK
  <2>3. seen'[d].links = {}
    BY <2>1 DEF Look, SeenInv, NotSeen
  <2>4. QED
    BY <2>1, <2>2, <2>3 DEF LinksOK, LoadedOK, FeedOK, QueueOK, At
<1>6. CASE AccessStep(d) /\ UNCHANGED <<accounts, catalog>>
  BY <1>6, ReaderNext
<1>7. QED
  BY <1>3, <1>4, <1>5, <1>6, SeenCases DEF Elsewhere

\* "authorise, then sign": whoever is handed a link, or pins an upload, could see
\* it at some moment since he asked, although he and the upload were read by two
\* statements (signFileAccess(), findOne(), findAll(), setPinned(),
\* getDocumentsByGroup()), as long as what both statements are about does not
\* change between them (KeptApart).
THEOREM HandedOutAllowed == KeptApart => (Spec => []HandedOutWasAllowed)
<1> SUFFICES ASSUME KeptApart PROVE Spec => []HandedOutWasAllowed
  OBVIOUS
<1>1. Init => HandInv
  <2>1. SUFFICES ASSUME Init, NEW c \in Calls PROVE HandOK(c)
    BY DEF HandInv
  <2>2. call[c].op = "none" /\ call[c].at = "idle"
    BY <2>1 DEF Init, AccountsInit, IdleCall
  <2>3. seen[c].links = {}
    BY <2>1 DEF Init, AccessInit, NotSeen
  <2>4. QED
    BY <2>2, <2>3
    DEF HandOK, WatchOK, LinksOK, LoadedOK, FeedOK, QueueOK, At, Busy
<1>2. TypeInv /\ SeenInv /\ HandInv /\ [Next]_vars => HandInv'
  <2>1. HandInv /\ UNCHANGED vars => HandInv'
    BY DEF vars, accounts, access, HandInv, HandOK, WatchOK, LinksOK, LoadedOK,
       FeedOK, QueueOK, At, Busy, Opens, Expired, Matches, Shown, Seeable,
       MaySee, IsAdmin
  <2>2. TypeInv /\ SeenInv /\ HandInv /\ Next => HandInv'
    BY WatchNext, HandNext DEF HandInv, HandOK
  <2>3. QED
    BY <2>1, <2>2
<1>3. HandInv => HandedOutWasAllowed
  BY DEF HandInv, HandOK, LinksOK, HandedOutWasAllowed
<1>4. QED
  BY <1>1, <1>2, <1>3, TypeInvHolds, SeenInvHolds, PTL DEF Spec

-----------------------------------------------------------------------------
(* Logos of departments.                                                    *)

LogoOps == {"createDept", "updateDept", "removeDept"}

\* A department shows a logo that is stored, and no two show the same one.
RowsStored ==
    /\ \A d \in Departments : dept[d].logo # None => dept[d].logo \in used \cap logos
    /\ \A d, e \in Departments :
          dept[d].logo # None /\ dept[d].logo = dept[e].logo => d = e

\* A logo that is stored and belongs to no row yet.
Holds(c) == /\ call[c].op \in {"createDept", "updateDept"}
            /\ call[c].at = "write" /\ call[c].key # None
\* It is shown by nobody and no other request has to do with it.
HeldOK(c) ==
    Holds(c) =>
       /\ call[c].key \in used \cap logos
       /\ \A d \in Departments : dept[d].logo # call[c].key
       /\ \A b \in Calls : call[b].old # call[c].key
       /\ \A b \in Calls : Holds(b) /\ call[b].key = call[c].key => b = c

\* The logo a request replaces or takes away was stored once.  Until the row is
\* written only that row shows it, and then none does.
OldOK(c) ==
    /\ call[c].old \in used \cup {None}
    /\ At(c, "removeDept", "count") \/ At(c, "removeDept", "write")
       => \A e \in Departments :
             call[c].old # None /\ dept[e].logo = call[c].old => e = call[c].dept
    /\ call[c].at = "clean" /\ call[c].old # None
       => \A e \in Departments : dept[e].logo # call[c].old
    /\ At(c, "updateDept", "put") \/ At(c, "updateDept", "write")
       => dept[call[c].dept].logo = call[c].old

LogoInv == AloneInv /\ RowsStored /\ \A c \in Calls : HeldOK(c) /\ OldOK(c)

\* The statements of requests about departments.
LogoStep(c) ==
    \/ PutFile(c) \/ CreateDeptSave(c) \/ SaveFails(c)
    \/ UpdateDeptRead(c) \/ UpdateDeptSave(c)
    \/ RemoveDeptRead(c) \/ RemoveDeptCount(c) \/ RemoveDeptWrite(c)
    \/ CleanLogo(c)

LEMMA LogoRows ==
  ASSUME TypeInv, Next, \A c \in Calls : ~LogoStep(c)
  PROVE  UNCHANGED <<dept, logos, used>>
<1>1. CASE UNCHANGED catalog
  BY <1>1 DEF catalog
<1>2. CASE \E c \in Calls : CatalogStep(c)
  BY <1>2 DEF CatalogStep, LogoStep, SubmitPut, SubmitSave, SubmitFails,
     WithdrawRead, DeleteSubject, ReviewRead, RejectCover, ReviewWrite, catalog
<1>3. QED
  BY <1>1, <1>2, NextCases DEF Arrives

\* A request about a department that goes on without them passes the guard.
LEMMA LogoGuard ==
  ASSUME TypeInv, Next, NEW c \in Calls, Busy(c), call'[c] # call[c],
         call[c].op \in LogoOps, ~LogoStep(c)
  PROVE  AdminGuard(c)
<1>1. CASE AccountStep(c) \/ Assign(c, There)
  <2>1. /\ SetRoleRead(c) \/ SetRoleCount(c) \/ SetRoleWrite(c) => call[c].op = "role"
        /\ BanRead(c) \/ BanCheck(c) \/ BanInsert(c) \/ BanStrip(c) => call[c].op = "ban"
        /\ UnbanRead(c) \/ UnbanWrite(c) => call[c].op = "unban"
    BY DEF At, SetRoleRead, SetRoleCount, SetRoleWrite, BanRead, BanCheck,
       BanInsert, BanStrip, UnbanRead, UnbanWrite
  <2>2. /\ Unassign(c) => call[c].op = "unassign"
        /\ UnassignAll(c) => call[c].op = "unassignAll"
        /\ Assign(c, There) => call[c].op = "assign"
    BY DEF At, Unassign, UnassignAll, Assign
  <2>3. ReviewerRole(c) \/ ReviewerScope(c) => call[c].op \in ReviewerOps
    BY DEF TypeInv, CallInv, CallOK, ReviewerRole, ReviewerScope
  <2>4. QED
    BY <1>1, <2>1, <2>2, <2>3 DEF AccountStep, LogoOps, ReviewerOps
<1>2. CASE CatalogStep(c)
  BY <1>2 DEF CatalogStep, LogoStep, LogoOps, At, SubmitPut, SubmitSave,
     SubmitFails, WithdrawRead, DeleteSubject, ReviewRead, RejectCover, ReviewWrite
<1>3. CASE AccessStep(c)
  BY <1>3, OpsOf DEF AccessOps, LogoOps
<1>4. QED
  BY <1>1, <1>2, <1>3, OwnStep

\* Other steps leave a request about departments before its first statement.
Early(c) ==
    /\ call'[c].old \in {call[c].old, None}
    /\ call'[c].op \in LogoOps =>
          \/ call'[c].at \in {"guard", "read"}
          \/ call'[c].op = "createDept" /\ call'[c].at = "put"
          \/ call'[c].at = "idle"
    /\ call'[c].at = "clean" => call'[c].old = None

LEMMA LogoCalls ==
  ASSUME TypeInv, Next, NEW c \in Calls, ~LogoStep(c)
  PROVE  call'[c] = call[c] \/ Early(c)
<1> SUFFICES ASSUME call'[c] # call[c] PROVE Early(c)
  OBVIOUS
<1>1. CallInv' /\ CallOK(call[c])
  BY CallsTyped DEF TypeInv, CallInv
<1>2. CallOK(call'[c])
  BY <1>1 DEF CallInv
<1>3. CASE \E b \in Calls : Arrives(b)
  <2>1. PICK b \in Calls, q \in CallRecord : Start(b, q) /\ Fresh(b, q)
    BY <1>3 DEF Arrives
  <2>2. call'[b] = q /\ \A a \in Calls : a # b => call'[a] = call[a]
    BY <2>1, StartWrites DEF Fresh, OnlyCall
  <2>3. call'[c] = q
    BY <2>2
  <2>4. q.old = None /\ (q.op \in LogoOps => q.at \in {"guard", "read"})
    BY <2>1 DEF Fresh, LogoOps
  <2>5. QED
    BY <2>3, <2>4 DEF Early
<1>4. CASE \E b \in Calls : Goes(b)
  <2>1. PICK b \in Calls : Goes(b)
    BY <1>4
  <2>2. b = c
    BY <2>1 DEF Goes, Moved, Ended, OnlyCall
  <2>3. Busy(c)
    BY <2>1, <2>2 DEF Goes, Moved, Ended
  <2>4. CASE Ended(c)
    BY <2>4 DEF Ended, IdleCall, Early
  <2>5. CASE Moved(c) /\ call[c].op \notin LogoOps
    BY <1>2, <2>5 DEF Moved, LogoOps, CallOK, Early
  <2>6. CASE Moved(c) /\ call[c].op \in LogoOps
    <3>1. AdminGuard(c)
      BY <2>3, <2>6, LogoGuard
    <3>2. IsAdmin(call[c].actor)
      BY <2>6, <3>1 DEF AdminGuard, Moved, Finish, TypeInv, AccountsTypeOK, IdleCall
    <3>3. Goto(c, FirstOf(call[c].op))
      BY <3>1, <3>2 DEF AdminGuard
    <3>4. FirstOf(call[c].op) = IF call[c].op = "createDept" THEN "put" ELSE "read"
      BY <2>6 DEF FirstOf, LogoOps
    <3>5. /\ call'[c].at = FirstOf(call[c].op) /\ call'[c].old = call[c].old
      BY <2>3, <2>6, <3>3, <3>4, GotoMoves DEF Positions
    <3>6. QED
      BY <2>6, <3>4, <3>5 DEF Early, Moved
  <2>7. QED
    BY <2>1, <2>2, <2>4, <2>5, <2>6 DEF Goes
<1>5. QED
  BY <1>3, <1>4, CallSteps

LEMMA LogoQuiet ==
  ASSUME TypeInv, LogoInv, Next, \A c \in Calls : ~LogoStep(c)
  PROVE  RowsStored' /\ \A c \in Calls : HeldOK(c)' /\ OldOK(c)'
<1>1. UNCHANGED <<dept, logos, used>>
  BY LogoRows
<1>2. \A c \in Calls : call'[c] = call[c] \/ Early(c)
  BY LogoCalls
<1>3. RowsStored'
  BY <1>1 DEF LogoInv, RowsStored
<1>4. ASSUME NEW c \in Calls
      PROVE  Holds(c)' => Holds(c) /\ call'[c].key = call[c].key
  BY <1>2 DEF Holds, Early, LogoOps
<1>5. ASSUME NEW c \in Calls
      PROVE  HeldOK(c)'
  <2>1. SUFFICES ASSUME Holds(c)' PROVE HeldOK(c)'
    BY DEF HeldOK
  <2>2. HeldOK(c) /\ Holds(c) /\ call'[c].key = call[c].key /\ call[c].key # None
    BY <1>4, <2>1 DEF LogoInv, Holds
  <2>3. \A b \in Calls : call'[b].old \in {call[b].old, None}
    BY <1>2 DEF Early
  <2>4. QED
    BY <1>1, <1>4, <2>2, <2>3 DEF HeldOK
<1>6. ASSUME NEW c \in Calls
      PROVE  OldOK(c)'
  BY <1>1, <1>2 DEF LogoInv, OldOK, At, Early, LogoOps
<1>7. QED
  BY <1>3, <1>5, <1>6

\* The call of a step about a department, and those of others.
LEMMA LogoOwner ==
  ASSUME TypeInv, LogoInv, "updateDept" \in Alone, NEW c \in Calls, LogoStep(c)
  PROVE  /\ Busy(c) /\ call[c].op \in LogoOps /\ call[c].dept \in Departments
         /\ call[c].key \in Keys \cup {None} /\ call[c].old \in Keys \cup {None}
         /\ \A b \in Calls : b # c => ~At(b, "updateDept", "put")
                                      /\ ~At(b, "updateDept", "write")
         /\ call[c].op = "updateDept" => \A b \in Calls : b # c => ~Busy(b)
<1>1. CallOK(call[c]) /\ call[c] \in CallRecord
  BY DEF TypeInv, CallInv, AccountsTypeOK
<1>2. Busy(c) /\ call[c].op \in LogoOps
  BY DEF LogoStep, LogoOps, Busy, At, PutFile, CreateDeptSave, SaveFails,
     UpdateDeptRead, UpdateDeptSave, RemoveDeptRead, RemoveDeptCount,
     RemoveDeptWrite, CleanLogo
<1>3. call[c].dept \in Departments
  BY <1>1, <1>2 DEF CallOK, LogoOps
<1>4. call[c].key \in Keys \cup {None} /\ call[c].old \in Keys \cup {None}
  BY <1>1 DEF CallRecord
<1>5. \A b \in Calls : b # c => ~At(b, "updateDept", "put")
                                /\ ~At(b, "updateDept", "write")
  BY <1>2 DEF LogoInv, AloneInv, At
<1>6. call[c].op = "updateDept" => \A b \in Calls : b # c => ~Busy(b)
  BY DEF LogoInv, AloneInv
<1>7. QED
  BY <1>2, <1>3, <1>4, <1>5, <1>6

\* The rows and objects do not change and the call reads what its row shows.
LEMMA LogoReads ==
  ASSUME TypeInv, LogoInv, "updateDept" \in Alone, NEW c \in Calls,
         UpdateDeptRead(c) \/ RemoveDeptRead(c)
  PROVE  RowsStored' /\ \A b \in Calls : HeldOK(b)' /\ OldOK(b)'
<1>1. UNCHANGED <<dept, logos, used>>
  BY DEF UpdateDeptRead, RemoveDeptRead, catalog
<1>2. /\ call[c].op \in {"updateDept", "removeDept"}
      /\ \/ Ended(c)
         \/ /\ Moved(c)
            /\ call'[c].at = IF call[c].op = "updateDept" THEN "put" ELSE "count"
            /\ call'[c].old = dept[call[c].dept].logo
  BY DeptReadMoves
<1>3. \A b \in Calls : b # c => call'[b] = call[b]
  BY <1>2 DEF Moved, Ended, OnlyCall
<1>4. call[c].dept \in Departments
  BY LogoOwner DEF LogoStep
<1>5. RowsStored'
  BY <1>1 DEF LogoInv, RowsStored
<1>6. ~Holds(c)'
  BY <1>2 DEF Holds, Ended, IdleCall
<1>7. \A d \in Departments : dept[d].logo \in used \cup {None}
  BY DEF LogoInv, RowsStored
<1>8. call'[c].old = None \/ call'[c].old = dept[call[c].dept].logo
  BY <1>2 DEF Ended, IdleCall
<1>9. ASSUME NEW b \in Calls
      PROVE  HeldOK(b)'
  <2>1. SUFFICES ASSUME Holds(b)' PROVE HeldOK(b)'
    BY DEF HeldOK
  <2>2. b # c /\ call'[b] = call[b] /\ Holds(b) /\ HeldOK(b) /\ call[b].key # None
    BY <1>3, <1>6, <2>1 DEF LogoInv, Holds
  <2>3. \A a \in Calls : Holds(a)' => a # c /\ Holds(a) /\ call'[a].key = call[a].key
    BY <1>3, <1>6 DEF Holds
  <2>4. QED
    BY <1>1, <1>3, <1>4, <1>8, <2>2, <2>3 DEF HeldOK
<1>10. OldOK(c)'
  <2>1. CASE Ended(c)
    BY <2>1 DEF Ended, IdleCall, OldOK, At
  <2>2. CASE ~Ended(c)
    <3>1. /\ call'[c].op = call[c].op /\ call'[c].dept = call[c].dept
          /\ call'[c].at \in {"put", "count"}
          /\ call'[c].old = dept[call[c].dept].logo
          /\ call'[c].at = "put" <=> call[c].op = "updateDept"
      BY <1>2, <2>2 DEF Moved
    <3>2. QED
      BY <1>1, <1>4, <1>7, <3>1 DEF OldOK, At, LogoInv, RowsStored
  <2>3. QED
    BY <2>1, <2>2
<1>11. \A b \in Calls : b # c => OldOK(b)'
  BY <1>1, <1>3 DEF LogoInv, OldOK, At
<1>12. QED
  BY <1>5, <1>9, <1>10, <1>11

LEMMA LogoCounts ==
  ASSUME TypeInv, LogoInv, NEW c \in Calls, RemoveDeptCount(c)
  PROVE  RowsStored' /\ \A b \in Calls : HeldOK(b)' /\ OldOK(b)'
<1>1. UNCHANGED <<dept, logos, used>> /\ At(c, "removeDept", "count") /\ Busy(c)
  BY DEF RemoveDeptCount, catalog, At, Busy
<1>2. \/ Ended(c)
      \/ Moved(c) /\ call'[c].at = "write" /\ call'[c].old = call[c].old
  BY <1>1, FinishEnds, GotoMoves DEF RemoveDeptCount, Positions
<1>3. \A b \in Calls : b # c => call'[b] = call[b]
  BY <1>2 DEF Moved, Ended, OnlyCall
<1>4. RowsStored'
  BY <1>1 DEF LogoInv, RowsStored
<1>5. ~Holds(c)' /\ call'[c].old \in {None, call[c].old}
  BY <1>1, <1>2 DEF Holds, Ended, Moved, IdleCall, At
<1>6. ASSUME NEW b \in Calls
      PROVE  HeldOK(b)'
  <2>1. SUFFICES ASSUME Holds(b)' PROVE HeldOK(b)'
    BY DEF HeldOK
  <2>2. b # c /\ call'[b] = call[b] /\ Holds(b) /\ HeldOK(b) /\ call[b].key # None
    BY <1>3, <1>5, <2>1 DEF LogoInv, Holds
  <2>3. \A a \in Calls : Holds(a)' => a # c /\ Holds(a) /\ call'[a].key = call[a].key
    BY <1>3, <1>5 DEF Holds
  <2>4. QED
    BY <1>1, <1>3, <1>5, <2>2, <2>3 DEF HeldOK
<1>7. OldOK(c)'
  BY <1>1, <1>2 DEF Ended, IdleCall, OldOK, At, LogoInv, Moved
<1>8. \A b \in Calls : b # c => OldOK(b)'
  BY <1>1, <1>3 DEF LogoInv, OldOK, At
<1>9. QED
  BY <1>4, <1>6, <1>7, <1>8

\* A file is stored under a key no other file was stored under.
LEMMA LogoPuts ==
  ASSUME TypeInv, LogoInv, "updateDept" \in Alone, FreshNames, NEW c \in Calls,
         PutFile(c)
  PROVE  RowsStored' /\ \A b \in Calls : HeldOK(b)' /\ OldOK(b)'
<1>1. /\ UNCHANGED dept /\ Busy(c) /\ call[c].at = "put"
      /\ call[c].op \in {"createDept", "updateDept"}
  BY DEF PutFile, Busy
<1>2. PICK key \in Keys \cup {None} : key = call[c].key
  BY LogoOwner DEF LogoStep
<1>3. \/ Ended(c) /\ UNCHANGED <<logos, used>>
      \/ /\ Moved(c) /\ call'[c].at = "write" /\ call'[c].old = call[c].old
         /\ \/ key = None /\ UNCHANGED <<logos, used>>
            \/ /\ key # None /\ key \notin used
               /\ logos' = logos \cup {key} /\ used' = used \cup {key}
  BY <1>1, <1>2, FinishEnds, GotoMoves DEF PutFile, PutLogo, Positions
<1>4. \A b \in Calls : b # c => call'[b] = call[b]
  BY <1>3 DEF Moved, Ended, OnlyCall
<1>5. /\ logos \subseteq logos' /\ used \subseteq used'
      /\ call'[c].old \in {call[c].old, None}
  BY <1>3 DEF Ended, IdleCall
<1>6. RowsStored'
  BY <1>1, <1>5 DEF LogoInv, RowsStored
<1>7. Holds(c)' => /\ call'[c].key = key /\ key # None /\ key \notin used
                   /\ key \in used' \cap logos'
  BY <1>2, <1>3 DEF Holds, Ended, Moved, IdleCall
<1>8. \A b \in Calls : b # c /\ Holds(b)'
         => Holds(b) /\ HeldOK(b) /\ call'[b] = call[b] /\ call[b].key \in used
  BY <1>4 DEF Holds, LogoInv, HeldOK
<1>9. \A b \in Calls : call'[b].old = None \/ call'[b].old = call[b].old
  BY <1>4, <1>5
<1>10. ASSUME NEW b \in Calls
       PROVE  HeldOK(b)'
  <2>1. SUFFICES ASSUME Holds(b)' PROVE HeldOK(b)'
    BY DEF HeldOK
  <2>2. CASE b = c
    <3>1. \A d \in Departments : dept[d].logo # key
      BY <1>7, <2>1, <2>2 DEF LogoInv, RowsStored
    <3>2. \A a \in Calls : call'[a].old # key
      BY <1>7, <1>9, <2>1, <2>2 DEF LogoInv, OldOK
    <3>3. \A a \in Calls : Holds(a)' /\ call'[a].key = key => a = c
      BY <1>7, <1>8, <2>1, <2>2
    <3>4. QED
      BY <1>1, <1>7, <2>1, <2>2, <3>1, <3>2, <3>3 DEF HeldOK
  <2>3. CASE b # c
    <3>1. HeldOK(b) /\ Holds(b) /\ call'[b] = call[b] /\ call[b].key \in used
      BY <1>8, <2>1, <2>3
    <3>2. call[b].key # None
      BY <3>1 DEF Holds
    <3>3. \A a \in Calls : call'[a].old # call[b].key
      BY <1>9, <3>1, <3>2 DEF HeldOK
    <3>4. \A a \in Calls : Holds(a)' /\ call'[a].key = call[b].key => a = b
      BY <1>7, <1>8, <3>1 DEF HeldOK
    <3>5. QED
      BY <1>1, <1>5, <3>1, <3>3, <3>4 DEF HeldOK
  <2>4. QED
    BY <2>2, <2>3
<1>11. OldOK(c)'
  <2>1. OldOK(c)
    BY DEF LogoInv
  <2>2. CASE Ended(c)
    BY <2>2 DEF Ended, IdleCall, OldOK, At
  <2>3. CASE ~Ended(c)
    <3>1. /\ call'[c].op = call[c].op /\ call'[c].dept = call[c].dept
          /\ call'[c].at = "write" /\ call'[c].old = call[c].old
      BY <1>3, <2>3 DEF Moved
    <3>2. QED
      BY <1>1, <1>5, <2>1, <3>1 DEF OldOK, At
  <2>4. QED
    BY <2>2, <2>3
<1>12. \A b \in Calls : b # c => OldOK(b)'
  BY <1>1, <1>4, <1>5 DEF LogoInv, OldOK, At
<1>13. QED
  BY <1>6, <1>10, <1>11, <1>12

\* What a call keeps through the step of another one.
LEMMA LogoOthers ==
  ASSUME LogoInv, NEW c \in Calls, \A b \in Calls : b # c => call'[b] = call[b],
         ~Holds(c)', call'[c].old \in {call[c].old, None}, NEW b \in Calls, b # c,
         used' = used, Holds(b)
         => /\ call[b].key \in logos'
            /\ \A d \in Departments : dept'[d].logo # call[b].key
  PROVE  HeldOK(b)'
<1>1. SUFFICES ASSUME Holds(b)' PROVE HeldOK(b)'
  BY DEF HeldOK
<1>2. call'[b] = call[b] /\ Holds(b) /\ HeldOK(b) /\ call[b].key # None
  BY <1>1 DEF LogoInv, Holds
<1>3. \A a \in Calls : call'[a].old # call[b].key
  BY <1>2 DEF HeldOK
<1>4. \A a \in Calls : Holds(a)' /\ call'[a].key = call[b].key => a = b
  BY <1>2 DEF HeldOK, Holds
<1>5. QED
  BY <1>2, <1>3, <1>4 DEF HeldOK

\* The row shows the logo that was just stored.
LEMMA LogoSaves ==
  ASSUME TypeInv, LogoInv, "updateDept" \in Alone, NEW c \in Calls,
         CreateDeptSave(c) \/ UpdateDeptSave(c)
  PROVE  RowsStored' /\ \A b \in Calls : HeldOK(b)' /\ OldOK(b)'
<1>1. /\ UNCHANGED <<logos, used>> /\ Busy(c) /\ call[c].at = "write"
      /\ call[c].op \in {"createDept", "updateDept"}
  BY DEF CreateDeptSave, UpdateDeptSave, At, Busy
<1>2. PICK x \in Departments, key \in Keys \cup {None}, old \in Keys \cup {None} :
         x = call[c].dept /\ key = call[c].key /\ old = call[c].old
  BY LogoOwner DEF LogoStep
<1>3. PICK logo \in {key, old, None} :
         /\ dept' = [dept EXCEPT ![x] = [on |-> TRUE, logo |-> logo]]
         /\ key # None => logo = key
         /\ logo = old => logo = key \/ call[c].op = "updateDept"
  BY <1>1, <1>2 DEF CreateDeptSave, UpdateDeptSave, At
<1>4. \A d \in Departments : dept'[d].logo = IF d = x THEN logo ELSE dept[d].logo
  BY <1>3 DEF TypeInv, CatalogTypeOK
<1>5. \/ Ended(c)
      \/ /\ Moved(c) /\ call'[c].at = "clean" /\ call'[c].old = old
         /\ key # None /\ key # old /\ call[c].op = "updateDept"
  BY <1>1, <1>2, FinishEnds, GotoMoves DEF CreateDeptSave, UpdateDeptSave, Positions, At
<1>6. \A b \in Calls : b # c => call'[b] = call[b]
  BY <1>5 DEF Moved, Ended, OnlyCall
<1>7. call[c].op = "updateDept" => dept[x].logo = old
  BY <1>1, <1>2 DEF LogoInv, OldOK, At
<1>8. key # None => HeldOK(c) /\ Holds(c)
  BY <1>1, <1>2 DEF LogoInv, Holds
<1>9. logo # None /\ logo # key => dept[x].logo = logo
  BY <1>3, <1>7
<1>10. logo # None => /\ logo \in used \cap logos
                      /\ \A d \in Departments : d # x => dept[d].logo # logo
  BY <1>2, <1>8, <1>9 DEF HeldOK, LogoInv, RowsStored
<1>11. RowsStored'
  BY <1>1, <1>4, <1>10 DEF LogoInv, RowsStored
<1>12. ~Holds(c)' /\ call'[c].old \in {call[c].old, None}
  BY <1>2, <1>5 DEF Holds, Ended, IdleCall
<1>13. ASSUME NEW b \in Calls, b # c
       PROVE  HeldOK(b)'
  <2>1. Holds(b) => call[b].key \in logos /\ HeldOK(b) /\ call[b].key # None
    BY DEF LogoInv, HeldOK, Holds
  <2>2. Holds(b) => logo # call[b].key
    BY <1>2, <1>3, <1>8, <1>9, <1>13, <2>1 DEF HeldOK
  <2>3. Holds(b) => /\ call[b].key \in logos'
                    /\ \A d \in Departments : dept'[d].logo # call[b].key
    BY <1>1, <1>4, <2>1, <2>2 DEF HeldOK
  <2>4. QED
    BY <1>1, <1>6, <1>12, <1>13, <2>3, LogoOthers
<1>14. HeldOK(c)'
  BY <1>12 DEF HeldOK
<1>15. OldOK(c)'
  <2>1. CASE Ended(c)
    BY <2>1 DEF Ended, IdleCall, OldOK, At
  <2>2. CASE ~Ended(c)
    <3>1. /\ call'[c].at = "clean" /\ call'[c].old = old /\ key # old
          /\ logo = key /\ dept[x].logo = old /\ old \in used \cup {None}
      BY <1>2, <1>3, <1>5, <1>7, <2>2 DEF LogoInv, OldOK
    <3>2. old # None => \A d \in Departments : dept'[d].logo # old
      BY <1>4, <3>1 DEF LogoInv, RowsStored
    <3>3. QED
      BY <1>1, <3>1, <3>2 DEF OldOK, At
  <2>3. QED
    BY <2>1, <2>2
<1>16. ASSUME NEW b \in Calls, b # c
       PROVE  OldOK(b)'
  <2>1. call'[b] = call[b] /\ OldOK(b) /\ call[b].old \in used \cup {None}
    BY <1>6, <1>16 DEF LogoInv, OldOK
  <2>2. call[b].at # "idle" => call[c].op # "updateDept"
    BY <1>16, LogoOwner DEF LogoStep, Busy
  <2>3. call[b].at # "idle" /\ call[b].old # None => logo # call[b].old
    BY <1>2, <1>3, <1>8, <2>2 DEF HeldOK
  <2>4. ~At(b, "updateDept", "put") /\ ~At(b, "updateDept", "write")
    BY <1>16, LogoOwner DEF LogoStep
  <2>5. QED
    BY <1>1, <1>4, <2>1, <2>3, <2>4 DEF OldOK, At
<1>17. QED
  BY <1>11, <1>13, <1>14, <1>15, <1>16

\* What was stored for a row that did not land is taken back, or nobody shows
\* what is cleaned up.
LEMMA LogoDeletes ==
  ASSUME TypeInv, LogoInv, "updateDept" \in Alone, NEW c \in Calls,
         SaveFails(c) \/ CleanLogo(c)
  PROVE  RowsStored' /\ \A b \in Calls : HeldOK(b)' /\ OldOK(b)'
<1>1. /\ UNCHANGED <<dept, used>> /\ Busy(c) /\ Finish(c)
      /\ \/ /\ logos' = logos \ {call[c].key} /\ call[c].at = "write"
            /\ call[c].op \in {"createDept", "updateDept"}
         \/ logos' = logos \ {call[c].old} /\ call[c].at = "clean"
  BY DEF SaveFails, CleanLogo, Busy
<1>2. Ended(c)
  BY <1>1, FinishEnds
<1>3. \A b \in Calls : b # c => call'[b] = call[b]
  BY <1>2 DEF Ended, OnlyCall
<1>4. PICK gone \in Keys \cup {None} :
         /\ logos' = logos \ {gone}
         /\ \/ /\ gone = call[c].key /\ (gone # None => Holds(c) /\ HeldOK(c))
            \/ /\ gone = call[c].old
               /\ gone # None => \A d \in Departments : dept[d].logo # gone
  <2>1. /\ call[c].key \in Keys \cup {None} /\ call[c].old \in Keys \cup {None}
        /\ OldOK(c) /\ HeldOK(c)
    BY LogoOwner DEF LogoStep, LogoInv
  <2>2. CASE logos' = logos \ {call[c].key} /\ call[c].at = "write"
             /\ call[c].op \in {"createDept", "updateDept"}
    BY <2>1, <2>2 DEF Holds
  <2>3. CASE logos' = logos \ {call[c].old} /\ call[c].at = "clean"
    BY <2>1, <2>3 DEF OldOK
  <2>4. QED
    BY <1>1, <2>2, <2>3
<1>5. RowsStored'
  BY <1>1, <1>4 DEF LogoInv, RowsStored, HeldOK
<1>6. ~Holds(c)' /\ call'[c].old \in {call[c].old, None}
  BY <1>2 DEF Holds, Ended, IdleCall
<1>7. ASSUME NEW b \in Calls, b # c
      PROVE  HeldOK(b)'
  <2>1. Holds(b) => HeldOK(b) /\ call[b].key # None
    BY DEF LogoInv, Holds
  <2>2. Holds(b) => call[b].key # gone
    BY <1>4, <1>7, <2>1 DEF HeldOK
  <2>3. Holds(b) => /\ call[b].key \in logos'
                    /\ \A d \in Departments : dept'[d].logo # call[b].key
    BY <1>1, <1>4, <2>1, <2>2 DEF HeldOK
  <2>4. QED
    BY <1>1, <1>3, <1>6, <1>7, <2>3, LogoOthers
<1>8. HeldOK(c)'
  BY <1>6 DEF HeldOK
<1>9. OldOK(c)'
  BY <1>2 DEF Ended, IdleCall, OldOK, At
<1>10. \A b \in Calls : b # c => OldOK(b)'
  BY <1>1, <1>3 DEF LogoInv, OldOK, At
<1>11. QED
  BY <1>5, <1>7, <1>8, <1>9, <1>10

\* The row is gone, and its logo is shown by nobody.
LEMMA LogoRemoves ==
  ASSUME TypeInv, LogoInv, "updateDept" \in Alone, NEW c \in Calls,
         RemoveDeptWrite(c)
  PROVE  RowsStored' /\ \A b \in Calls : HeldOK(b)' /\ OldOK(b)'
<1>1. UNCHANGED <<logos, used>> /\ Busy(c) /\ At(c, "removeDept", "write")
  BY DEF RemoveDeptWrite, At, Busy
<1>2. PICK x \in Departments : x = call[c].dept
  BY LogoOwner DEF LogoStep
<1>3. dept' = [dept EXCEPT ![x] = [on |-> FALSE, logo |-> None]]
  BY <1>2 DEF RemoveDeptWrite
<1>4. \A d \in Departments : dept'[d].logo = IF d = x THEN None ELSE dept[d].logo
  BY <1>3 DEF TypeInv, CatalogTypeOK
<1>5. Moved(c) /\ call'[c].at = "clean" /\ call'[c].old = call[c].old
  BY <1>1, GotoMoves DEF RemoveDeptWrite, Positions
<1>6. \A b \in Calls : b # c => call'[b] = call[b]
  BY <1>5 DEF Moved, OnlyCall
<1>7. RowsStored'
  BY <1>1, <1>4 DEF LogoInv, RowsStored
<1>8. ~Holds(c)' /\ call'[c].old \in {call[c].old, None}
  BY <1>5 DEF Holds
<1>9. ASSUME NEW b \in Calls, b # c
      PROVE  HeldOK(b)'
  <2>1. Holds(b) => HeldOK(b) /\ call[b].key # None
    BY DEF LogoInv, Holds
  <2>2. Holds(b) => /\ call[b].key \in logos'
                    /\ \A d \in Departments : dept'[d].logo # call[b].key
    BY <1>1, <1>4, <2>1 DEF HeldOK
  <2>3. QED
    BY <1>1, <1>6, <1>8, <1>9, <2>2, LogoOthers
<1>10. HeldOK(c)'
  BY <1>8 DEF HeldOK
<1>11. OldOK(c)'
  <2>1. /\ call[c].old \in used \cup {None}
        /\ call[c].old # None => \A e \in Departments :
              dept[e].logo = call[c].old => e = x
    BY <1>1, <1>2 DEF LogoInv, OldOK
  <2>2. call[c].old # None => \A e \in Departments : dept'[e].logo # call[c].old
    BY <1>4, <2>1
  <2>3. QED
    BY <1>1, <1>5, <2>1, <2>2 DEF OldOK, At
<1>12. ASSUME NEW b \in Calls, b # c
       PROVE  OldOK(b)'
  <2>1. call'[b] = call[b] /\ OldOK(b) /\ call[b].old \in used \cup {None}
    BY <1>6, <1>12 DEF LogoInv, OldOK
  <2>2. ~At(b, "updateDept", "put") /\ ~At(b, "updateDept", "write")
    BY <1>12, LogoOwner DEF LogoStep
  <2>3. QED
    BY <1>1, <1>4, <2>1, <2>2 DEF OldOK, At
<1>13. QED
  BY <1>7, <1>9, <1>10, <1>11, <1>12

\* Whatever uploads and saves fail and however creations and removals overlap,
\* the logo a department shows is in storage (majors.service.ts).  Two provisos:
\* an update runs by itself, as one that reads the row before another one writes
\* it puts back a logo the other one deleted; and no two files of one day share a
\* name, as a failed save then deletes what another department shows.
THEOREM LogosAreStored ==
  FreshNames /\ "updateDept" \in Alone => (Spec => []LogosStored)
<1> SUFFICES ASSUME FreshNames, "updateDept" \in Alone
             PROVE  Spec => []LogosStored
  OBVIOUS
<1>1. Init => LogoInv
  <2>1. SUFFICES ASSUME Init PROVE LogoInv
    OBVIOUS
  <2>2. \A d \in Departments : dept[d].logo = None
    BY <2>1 DEF Init, CatalogInit
  <2>3. \A c \in Calls : call[c] = IdleCall
    BY <2>1 DEF Init, AccountsInit
  <2>4. QED
    BY <2>2, <2>3 DEF LogoInv, AloneInv, RowsStored, HeldOK, Holds, OldOK, At,
       Busy, IdleCall
<1>2. TypeInv /\ LogoInv /\ [Next]_vars => LogoInv'
  <2>1. ASSUME TypeInv, LogoInv, Next PROVE LogoInv'
    <3>1. AloneInv'
      BY <2>1, AloneNext DEF LogoInv
    <3>2. CASE \A c \in Calls : ~LogoStep(c)
      BY <2>1, <3>1, <3>2, LogoQuiet DEF LogoInv
    <3>3. ASSUME NEW c \in Calls, LogoStep(c) PROVE LogoInv'
      BY <2>1, <3>1, <3>3, LogoPuts, LogoReads, LogoCounts, LogoSaves,
         LogoDeletes, LogoRemoves DEF LogoStep, LogoInv
    <3>4. QED
      BY <3>2, <3>3
  <2>2. LogoInv /\ UNCHANGED vars => LogoInv'
    BY DEF vars, catalog, LogoInv, AloneInv, Busy, RowsStored, HeldOK, Holds,
       OldOK, At
  <2>3. QED
    BY <2>1, <2>2
<1>3. LogoInv => LogosStored
  BY DEF LogoInv, RowsStored, LogosStored, There
<1>4. QED
  BY <1>1, <1>2, <1>3, TypeInvHolds, PTL DEF Spec
=============================================================================
