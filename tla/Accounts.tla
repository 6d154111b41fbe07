------------------------------ MODULE Accounts ------------------------------
(***************************************************************************)
(* Roles, bans and moderators: setUserRole(), banUser() and unbanUser() of  *)
(* admin.service.ts, the assignments of moderation.service.ts, and the      *)
(* guards every such request passes.                                        *)
(*                                                                          *)
(* No handler uses a transaction: each awaited statement is a step, and the *)
(* actor's own standing was read when the request came in.                  *)
(***************************************************************************)
EXTENDS Naturals, FiniteSets

CONSTANTS
    Users,
    Departments,
    Subjects,
    Keys,     \* object keys of department logos
    Calls,    \* slots for handlers in flight
    Mixes,    \* sets of operations; a behaviour is made of those of one set
    Alone,    \* operations that never overlap another one in this instance
    None

AccountOps == {"role", "ban", "unban", "assign", "unassign", "unassignAll"}
CatalogOps == {"createDept", "updateDept", "removeDept", "submit", "withdraw",
               "approve", "reject", "removeSubject"}
AccessOps == {"download", "detail", "feed", "pin", "queue", "edit", "hide",
              "decide", "expire", "place"}
Ops == AccountOps \cup CatalogOps \cup AccessOps
ReviewerOps == {"approve", "reject", "queue"}
Roles == {"user", "admin"}

ASSUME CallsAssumption ==
    /\ Mixes \subseteq SUBSET Ops /\ Mixes # {}
    /\ Alone \subseteq Ops
    /\ None \notin Users \cup Departments \cup Subjects \cup Keys

VARIABLES
    role,        \* users.role
    banned,      \* who has a row in user_bans that was not lifted
    moderators,  \* department_moderators: pairs of a user and a department
    knowingly,   \* history: assignments made to an account already banned
    mix,         \* the operations of this behaviour
    call         \* the handlers in flight

accounts == <<role, banned, moderators, knowingly>>

Positions == {"idle", "guard", "scope", "read", "count", "check", "put",
              "write", "strip", "clean", "viewer", "sign"}
CallRecord == [op : Ops \cup {"none"}, at : Positions,
               actor : Users \cup {None}, user : Users \cup {None},
               role : Roles, dept : Departments \cup {None},
               subject : Subjects \cup {None}, key : Keys \cup {None},
               old : Keys \cup {None}, admin : BOOLEAN,
               scope : SUBSET Departments]

AccountsTypeOK ==
    /\ role \in [Users -> Roles]
    /\ banned \in SUBSET Users
    /\ moderators \in SUBSET (Users \X Departments)
    /\ knowingly \in SUBSET moderators
    /\ mix \in Mixes
    /\ call \in [Calls -> CallRecord]

IdleCall == [op |-> "none", at |-> "idle", actor |-> None, user |-> None,
             role |-> "user", dept |-> None, subject |-> None, key |-> None,
             old |-> None, admin |-> FALSE, scope |-> {}]

\* Somebody was made an admin when the system was set up.
AccountsInit ==
    /\ \E first \in Users :
          role = [u \in Users |-> IF u = first THEN "admin" ELSE "user"]
    /\ banned = {}
    /\ moderators = {}
    /\ knowingly = {}
    /\ mix \in Mixes
    /\ call = [c \in Calls |-> IdleCall]

-----------------------------------------------------------------------------

Busy(c) == call[c].at # "idle"
At(c, op, at) == call[c].op = op /\ call[c].at = at

\* JwtStrategy.validate() lets in who is not banned, on every request.  An
\* operation of Alone starts when nothing else runs and keeps others out.
Start(c, request) ==
    /\ ~Busy(c)
    /\ request.op \in mix
    /\ request.actor \notin banned
    /\ request.op \in Alone => \A d \in Calls : ~Busy(d)
    /\ \A d \in Calls : call[d].op \notin Alone
    /\ call' = [call EXCEPT ![c] = request]
Request(op, at, actor) ==
    [IdleCall EXCEPT !.op = op, !.at = at, !.actor = actor]
Goto(c, at) == call' = [call EXCEPT ![c].at = at]
Finish(c) == call' = [call EXCEPT ![c] = IdleCall]

IsAdmin(u) == role[u] = "admin"
Admins == {u \in Users : IsAdmin(u)}

FirstOf(op) ==
    CASE op \in {"assign", "unassign", "unassignAll", "removeSubject"} -> "write"
      [] op = "createDept" -> "put"
      [] OTHER -> "read"

\* AdminGuard reads the role of who is asking.
AdminGuard(c) ==
    /\ call[c].at = "guard"
    /\ call[c].op \notin ReviewerOps
    /\ IF IsAdmin(call[c].actor) THEN Goto(c, FirstOf(call[c].op)) ELSE Finish(c)
    /\ UNCHANGED accounts

-----------------------------------------------------------------------------
(* setUserRole()                                                            *)

\* Bug: demoting oneself is not refused.
SetRoleOnAnybody(c, actor, user, new) ==
    /\ Start(c, [Request("role", "guard", actor) EXCEPT
                   !.user = user, !.role = new])
    /\ UNCHANGED accounts

SetRole(c, actor, user, new) ==
    /\ ~(user = actor /\ new # "admin")
    /\ Start(c, [Request("role", "guard", actor) EXCEPT
                   !.user = user, !.role = new])
    /\ UNCHANGED accounts

SetRoleRead(c) ==
    /\ At(c, "role", "read")
    /\ Goto(c, IF IsAdmin(call[c].user) /\ call[c].role # "admin"
               THEN "count" ELSE "write")
    /\ UNCHANGED accounts

SetRoleCount(c) ==
    /\ At(c, "role", "count")
    /\ IF Cardinality(Admins) <= 1 THEN Finish(c) ELSE Goto(c, "write")
    /\ UNCHANGED accounts

SetRoleWrite(c) ==
    /\ At(c, "role", "write")
    /\ role' = [role EXCEPT ![call[c].user] = call[c].role]
    /\ Finish(c)
    /\ UNCHANGED <<banned, moderators, knowingly>>

-----------------------------------------------------------------------------
(* banUser() and unbanUser(); the sessions a ban ends are in                *)
(* RefreshSessions.                                                         *)

Ban(c, actor, user) ==
    /\ user # actor
    /\ Start(c, [Request("ban", "guard", actor) EXCEPT !.user = user])
    /\ UNCHANGED accounts

BanRead(c) ==
    /\ At(c, "ban", "read")
    /\ IF IsAdmin(call[c].user) THEN Finish(c) ELSE Goto(c, "check")
    /\ UNCHANGED accounts

BanCheck(c) ==
    /\ At(c, "ban", "check")
    /\ IF call[c].user \in banned THEN Finish(c) ELSE Goto(c, "write")
    /\ UNCHANGED accounts

\* The index allows one ban in force: the second of two that both looked fails.
BanInsert(c) ==
    /\ At(c, "ban", "write")
    /\ IF call[c].user \in banned
       THEN banned' = banned /\ Finish(c)
       ELSE banned' = banned \cup {call[c].user} /\ Goto(c, "strip")
    /\ UNCHANGED <<role, moderators, knowingly>>

\* DELETE FROM department_moderators of the pairs a condition picks out.
DeletePairs(pairs) ==
    /\ moderators' = moderators \ pairs
    /\ knowingly' = knowingly \ pairs
    /\ UNCHANGED <<role, banned>>

\* Bug: the department of the request is taken for all of them.
BanStripOne(c) ==
    /\ At(c, "ban", "strip")
    /\ DeletePairs({call[c].user} \X {call[c].dept})
    /\ Finish(c)

BanStrip(c) ==
    /\ At(c, "ban", "strip")
    /\ DeletePairs({call[c].user} \X Departments)
    /\ Finish(c)

Unban(c, actor, user) ==
    /\ Start(c, [Request("unban", "guard", actor) EXCEPT !.user = user])
    /\ UNCHANGED accounts

UnbanRead(c) ==
    /\ At(c, "unban", "read")
    /\ Goto(c, "write")
    /\ UNCHANGED accounts

UnbanWrite(c) ==
    /\ At(c, "unban", "write")
    /\ banned' = banned \ {call[c].user}
    /\ Finish(c)
    /\ UNCHANGED <<role, moderators, knowingly>>

-----------------------------------------------------------------------------
(* The assignments of moderation.service.ts; nobody asks about a ban here.  *)

Moderate(c, op, actor, user, dept) ==
    /\ op \in {"assign", "unassign", "unassignAll"}
    /\ Start(c, [Request(op, "guard", actor) EXCEPT !.user = user, !.dept = dept])
    /\ UNCHANGED accounts

\* INSERT ... ON CONFLICT DO NOTHING; the department has to be there.
Assign(c, there) ==
    LET pair == <<call[c].user, call[c].dept>>
    IN  /\ At(c, "assign", "write")
        /\ IF pair[2] \in there /\ pair \notin moderators
           THEN /\ moderators' = moderators \cup {pair}
                /\ knowingly' = IF pair[1] \in banned
                                THEN knowingly \cup {pair} ELSE knowingly
           ELSE UNCHANGED <<moderators, knowingly>>
        /\ Finish(c)
        /\ UNCHANGED <<role, banned>>

Unassign(c) ==
    /\ At(c, "unassign", "write")
    /\ DeletePairs({<<call[c].user, call[c].dept>>})
    /\ Finish(c)

UnassignAll(c) ==
    /\ At(c, "unassignAll", "write")
    /\ DeletePairs({call[c].user} \X Departments)
    /\ Finish(c)

-----------------------------------------------------------------------------
(* ReviewerGuard: resolveReviewer() reads the role, then the assignments,   *)
(* and the request carries what they said from there on.                    *)

ReviewerRole(c) ==
    /\ call[c].at = "guard"
    /\ call[c].op \in ReviewerOps
    /\ call' = [call EXCEPT ![c].at = "scope",
                            ![c].admin = IsAdmin(call[c].actor)]
    /\ UNCHANGED accounts

ReviewerScope(c) ==
    LET mine == {d \in Departments : <<call[c].actor, d>> \in moderators}
    IN  /\ call[c].at = "scope"
        /\ IF call[c].admin \/ mine # {}
           THEN call' = [call EXCEPT ![c].at = "read", ![c].scope = mine]
           ELSE Finish(c)
        /\ UNCHANGED accounts

CanModerate(c, dept) == call[c].admin \/ dept \in call[c].scope

-----------------------------------------------------------------------------

AccountArrival(c) ==
    \E actor, user \in Users :
       \/ \E new \in Roles : SetRole(c, actor, user, new)
       \/ Ban(c, actor, user)
       \/ Unban(c, actor, user)
       \/ \E op \in AccountOps, dept \in Departments :
             Moderate(c, op, actor, user, dept)

AccountStep(c) ==
    \/ AdminGuard(c)
    \/ SetRoleRead(c) \/ SetRoleCount(c) \/ SetRoleWrite(c)
    \/ BanRead(c) \/ BanCheck(c) \/ BanInsert(c) \/ BanStrip(c)
    \/ UnbanRead(c) \/ UnbanWrite(c)
    \/ Unassign(c) \/ UnassignAll(c)
    \/ ReviewerRole(c) \/ ReviewerScope(c)
=============================================================================
