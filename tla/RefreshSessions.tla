-------------------------- MODULE RefreshSessions --------------------------
(***************************************************************************)
(* Sessions: the refresh tokens of auth.service.ts with everything that     *)
(* ends a session - rotation and reuse, logout, a password reset, a ban     *)
(* from admin.service.ts - and the retention job.                           *)
(*                                                                          *)
(* No handler here uses a transaction: each awaited statement is a step,    *)
(* and nothing is locked between two of them.  A token is a row; one that   *)
(* was deleted keeps what it was, so that the properties can speak of it.   *)
(***************************************************************************)
EXTENDS Naturals, FiniteSets

CONSTANTS
    Users,
    Tokens,      \* refresh_tokens rows, numbered as they are issued
    Calls,       \* slots for handlers in flight
    MaxResets,   \* bound: password resets per user
    Windows,     \* the settings of the reuse window that are considered
    Alone,       \* operations that never overlap another one in this instance
    None

Ops == {"signIn", "refresh", "logout", "reset", "ban"}

ASSUME SessionsAssumption ==
    /\ MaxResets \in Nat
    /\ Tokens \subseteq Nat
    /\ Windows \subseteq BOOLEAN /\ Windows # {}
    /\ Alone \subseteq Ops
    /\ None \notin Users \cup Tokens

VARIABLES
    token,     \* the refresh_tokens table
    late,      \* consumed longer ago than the reuse window
    account,   \* password, verified address and ban of each user
    window,    \* whether REFRESH_REUSE_GRACE_SECONDS leaves any window
    call       \* the handlers in flight

vars == <<token, late, account, window, call>>

Present == {"live", "consumed"}
Deleted == {"revoked", "reused", "purged"}
TokenStatuses == {"unused"} \cup Present \cup Deleted
Passwords == 0 .. MaxResets

TokenRow == [status : TokenStatuses, user : Users \cup {None},
             family : Tokens \cup {None}, parent : Tokens \cup {None},
             password : Passwords]
Positions == {"idle", "ban", "insert", "claim", "grace", "reuse", "delete",
              "confirm", "write", "mark"}
CallRecord == [op : Ops \cup {"none"}, at : Positions, user : Users \cup {None},
               token : Tokens \cup {None}, family : Tokens \cup {None},
               password : Passwords]

TypeOK ==
    /\ token \in [Tokens -> TokenRow]
    /\ late \in SUBSET Tokens
    /\ account \in [Users -> [password : Passwords, verified : BOOLEAN,
                              banned : BOOLEAN]]
    /\ window \in BOOLEAN
    /\ call \in [Calls -> CallRecord]

NoToken == [status |-> "unused", user |-> None, family |-> None,
            parent |-> None, password |-> 0]
IdleCall == [op |-> "none", at |-> "idle", user |-> None, token |-> None,
             family |-> None, password |-> 0]

Init ==
    /\ token = [t \in Tokens |-> NoToken]
    /\ late = {}
    /\ account = [u \in Users |-> [password |-> 0, verified |-> FALSE,
                                 banned |-> FALSE]]
    /\ window \in Windows
    /\ call = [c \in Calls |-> IdleCall]

-----------------------------------------------------------------------------

Held(t) == token[t].status \in Present
Family(f) == {t \in Tokens : token[t].family = f}
Unused == {t \in Tokens : token[t].status = "unused"}
IsNext(t) == t \in Unused /\ \A s \in Unused : t <= s

Busy(c) == call[c].at # "idle"
At(c, at) == call[c].at = at

\* An operation of Alone starts when nothing else runs and keeps others out.
Start(c, op, at, u, t, f, p) ==
    /\ ~Busy(c)
    /\ op \in Alone => \A d \in Calls : ~Busy(d)
    /\ \A d \in Calls : call[d].op \notin Alone
    /\ call' = [call EXCEPT ![c] = [op |-> op, at |-> at, user |-> u,
                                    token |-> t, family |-> f, password |-> p]]
Goto(c, at) == call' = [call EXCEPT ![c].at = at]
Finish(c) == call' = [call EXCEPT ![c] = IdleCall]

Tables == <<token, late, account, window>>

\* DELETE of the rows a condition picks out, and why they went.
Delete(rows, why) ==
    /\ token' = [t \in Tokens |-> IF t \in rows /\ Held(t)
                                  THEN [token[t] EXCEPT !.status = why]
                                  ELSE token[t]]
    /\ late' = late \ rows

-----------------------------------------------------------------------------
(* Signing in: login(), completeGoogleLogin() and the end of                *)
(* verifyEmailCode(), which looked at the ban when it redeemed the code.    *)

LoginRead(c, u) ==
    /\ account[u].verified
    /\ Start(c, "signIn", "ban", u, None, None, account[u].password)
    /\ UNCHANGED Tables

\* Google vouches for the address, so arriving this way verifies it.
GoogleRead(c, u) ==
    /\ account' = [account EXCEPT ![u].verified = TRUE]
    /\ Start(c, "signIn", "ban", u, None, None, account[u].password)
    /\ UNCHANGED <<token, late, window>>

VerifyStart(c, u) ==
    /\ ~account[u].banned /\ ~account[u].verified
    /\ Start(c, "signIn", "confirm", u, None, None, account[u].password)
    /\ UNCHANGED Tables

VerifyWrite(c) ==
    /\ At(c, "confirm")
    /\ account' = [account EXCEPT ![call[c].user].verified = TRUE]
    /\ Goto(c, "insert")
    /\ UNCHANGED <<token, late, window>>

\* activeBan() of a sign-in, isBanned() of a refresh.
CheckBan(c) ==
    /\ At(c, "ban")
    /\ IF account[call[c].user].banned THEN Finish(c) ELSE Goto(c, "insert")
    /\ UNCHANGED Tables

\* A sign-in starts a family, a rotation stays in its own.
CreateRefreshToken(c, t) ==
    /\ At(c, "insert")
    /\ IsNext(t)
    /\ token' = [token EXCEPT ![t] =
                   [status |-> "live", user |-> call[c].user,
                    family |-> IF call[c].family = None THEN t
                               ELSE call[c].family,
                    parent |-> call[c].token, password |-> call[c].password]]
    /\ Finish(c)
    /\ UNCHANGED <<late, account, window>>

\* A bound of the model: every token has been issued.
CreateFails(c) ==
    /\ At(c, "insert")
    /\ Unused = {}
    /\ Finish(c)
    /\ UNCHANGED Tables

-----------------------------------------------------------------------------
(* refresh(): read the row, claim it, and ask about the ban.                *)

RefreshRead(c, t) ==
    /\ Held(t)
    /\ Start(c, "refresh", "claim", token[t].user, t, token[t].family,
             token[t].password)
    /\ UNCHANGED Tables

\* Bug: a claimed row is given a status nothing else knows.
RefreshClaims(c) ==
    /\ At(c, "claim")
    /\ token' = [token EXCEPT ![call[c].token].status = "claimed"]
    /\ Goto(c, "ban")
    /\ UNCHANGED <<late, account, window>>

RefreshClaim(c) ==
    LET t == call[c].token
    IN  /\ At(c, "claim")
        /\ IF token[t].status = "live"
           THEN /\ token' = [token EXCEPT ![t].status = "consumed"]
                /\ Goto(c, "ban")
           ELSE /\ token' = token
                /\ Goto(c, "grace")
        /\ UNCHANGED <<late, account, window>>

\* Bug: the row read before the claim is used, where it is not consumed yet.
WithinGraceStale(t) == FALSE

\* assertWithinReuseGrace() reads the row again; one that is gone is as old
\* as can be.
WithinGrace(t) == window /\ token[t].status = "consumed" /\ t \notin late

RefreshGrace(c) ==
    /\ At(c, "grace")
    /\ Goto(c, IF WithinGrace(call[c].token) THEN "ban" ELSE "reuse")
    /\ UNCHANGED Tables

\* Bug: only the row that was presented is deleted.
RefreshReuseRow(c) ==
    /\ At(c, "reuse")
    /\ Delete({call[c].token}, "reused")
    /\ Finish(c)
    /\ UNCHANGED <<account, window>>

RefreshReuse(c) ==
    /\ At(c, "reuse")
    /\ Delete(Family(call[c].family), "reused")
    /\ Finish(c)
    /\ UNCHANGED <<account, window>>

-----------------------------------------------------------------------------
(* logout(), resetPassword() once its code is redeemed, banUser() and       *)
(* unbanUser().                                                             *)

LogoutRead(c, t) ==
    /\ Held(t)
    /\ Start(c, "logout", "delete", None, t, token[t].family, 0)
    /\ UNCHANGED Tables

ResetStart(c, u) ==
    /\ ~account[u].banned /\ account[u].verified
    /\ account[u].password < MaxResets
    /\ Start(c, "reset", "write", u, None, None, 0)
    /\ UNCHANGED Tables

ResetWrite(c) ==
    LET u == call[c].user
    IN  /\ At(c, "write")
        /\ account' = [account EXCEPT ![u].password =
                         IF @ < MaxResets THEN @ + 1 ELSE @]
        /\ Goto(c, "delete")
        /\ UNCHANGED <<token, late, window>>

BanRead(c, u) ==
    /\ ~account[u].banned
    /\ Start(c, "ban", "mark", u, None, None, 0)
    /\ UNCHANGED Tables

\* The partial unique index lets one ban in; the other insert fails.
BanInsert(c) ==
    LET u == call[c].user
    IN  /\ At(c, "mark")
        /\ IF account[u].banned THEN account' = account /\ Finish(c)
           ELSE account' = [account EXCEPT ![u].banned = TRUE] /\ Goto(c, "delete")
        /\ UNCHANGED <<token, late, window>>

\* Bug: the row that was presented is deleted, and nothing else.
DeletePresented(c) ==
    /\ At(c, "delete")
    /\ Delete({call[c].token}, "revoked")
    /\ Finish(c)
    /\ UNCHANGED <<account, window>>

\* Logout deletes the family, a reset and a ban everything of the user.
DeleteSessions(c) ==
    /\ At(c, "delete")
    /\ Delete(IF call[c].op = "logout" THEN Family(call[c].family)
              ELSE {t \in Tokens : token[t].user = call[c].user}, "revoked")
    /\ Finish(c)
    /\ UNCHANGED <<account, window>>

Unban(u) ==
    /\ account[u].banned
    /\ account' = [account EXCEPT ![u].banned = FALSE]
    /\ UNCHANGED <<token, late, window, call>>

-----------------------------------------------------------------------------
(* Time, the retention job and restarts.                                    *)

GraceElapses(t) ==
    /\ token[t].status = "consumed"
    /\ t \notin late
    /\ late' = late \cup {t}
    /\ UNCHANGED <<token, account, window, call>>

\* An expired token is refused before its row is looked for, and what is left
\* of it to happen is that purge_expired_data() deletes the row.  All tokens
\* last equally long, so a parent goes before its child.
Expire(t) ==
    /\ Held(t)
    /\ \A p \in Tokens : token[t].parent = p => ~Held(p)
    /\ Delete({t}, "purged")
    /\ UNCHANGED <<account, window, call>>

Restart ==
    /\ \E c \in Calls : Busy(c)
    /\ call' = [c \in Calls |-> IdleCall]
    /\ UNCHANGED Tables

-----------------------------------------------------------------------------

CallStarts(c) ==
    \/ \E u \in Users :
          \/ LoginRead(c, u)
          \/ GoogleRead(c, u)
          \/ VerifyStart(c, u)
          \/ ResetStart(c, u)
          \/ BanRead(c, u)
    \/ \E t \in Tokens : RefreshRead(c, t) \/ LogoutRead(c, t)

CallSteps(c) ==
    \/ CheckBan(c)
    \/ VerifyWrite(c)
    \/ \E t \in Tokens : CreateRefreshToken(c, t)
    \/ CreateFails(c)
    \/ RefreshClaim(c)
    \/ RefreshGrace(c)
    \/ RefreshReuse(c)
    \/ ResetWrite(c)
    \/ BanInsert(c)
    \/ DeleteSessions(c)

Running ==
    \/ \E c \in Calls : CallStarts(c) \/ CallSteps(c)
    \/ \E u \in Users : Unban(u)
    \/ \E t \in Tokens : GraceElapses(t) \/ Expire(t)

Next == Running \/ Restart

Spec == Init /\ [][Next]_vars

\* A handler in flight runs on while the process stays up.
RunningSpec == Init /\ [][Running]_vars
FairSpec == RunningSpec /\ \A c \in Calls : WF_vars(CallSteps(c))

-----------------------------------------------------------------------------
(* Properties that hold however the handlers overlap.                       *)

\* Without a reuse window, a token is redeemed once: "exactly one of them can
\* win this write", so a session never forks however many tabs refresh it.
SingleSuccessor ==
    ~window => \A s, t \in Tokens :
        token[s].parent = token[t].parent /\ token[s].parent # None => s = t

\* A rotation stays in its session: a token belongs to the user and the family
\* of the one it was exchanged for.
OneLineage ==
    \A t \in Tokens : token[t].parent # None =>
        LET p == token[t].parent
        IN  token[t].user = token[p].user /\ token[t].family = token[p].family

\* Two tabs of one browser are not a replay: the family is only deleted when
\* there is no window, when the redemption is older than it, or when the row
\* is gone already.
ReuseNeedsCause ==
    \A c \in Calls : At(c, "reuse") =>
        \/ ~window
        \/ call[c].token \in late
        \/ ~Held(call[c].token)

\* Rotation, whatever overlaps: one successor, in the same session, and an alarm
\* only where there is a cause (refresh(), assertWithinReuseGrace()).
RotationInOrder == SingleSuccessor /\ OneLineage /\ ReuseNeedsCause

\* A token presented after its window ends its session, "including whatever the
\* thief (or the victim) is holding": at some moment no token of it is left.
ReplayEndsSession ==
    \A t \in Tokens :
        (t \in late /\ \E c \in Calls : At(c, "claim") /\ call[c].token = t)
            ~> \A s \in Tokens : token[s].family = token[t].family => ~Held(s)

-----------------------------------------------------------------------------
(* Properties the handlers promise and that some overlaps break.            *)

\* "Signing out means the session is over": once a logout, a reset or a ban
\* has deleted tokens of a session, no token of that session is left.
SignedOutIsOver ==
    \A s, t \in Tokens :
        token[s].status = "revoked" /\ token[t].family = token[s].family
            => ~Held(t)

\* "Every existing session dies with the old password."
ResetEndsSessions ==
    \A t \in Tokens : Held(t) =>
        \/ token[t].password = account[token[t].user].password
        \/ \E c \in Calls : /\ call[c].op = "reset" /\ At(c, "delete")
                            /\ call[c].user = token[t].user

\* "Banning revokes stored refresh tokens": a banned user holds none.
BanEndsSessions ==
    \A t \in Tokens : Held(t) /\ account[token[t].user].banned =>
        \E c \in Calls : /\ call[c].op = "ban" /\ At(c, "delete")
                         /\ call[c].user = token[t].user

\* The three ways a session is ended from outside, each by itself, leave none
\* of what they end (logout(), resetPassword(), banUser()).
EndedIsOver == SignedOutIsOver /\ ResetEndsSessions /\ BanEndsSessions
=============================================================================
