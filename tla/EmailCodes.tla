----------------------------- MODULE EmailCodes -----------------------------
(***************************************************************************)
(* The six-digit codes of auth.service.ts: issueEmailToken() and            *)
(* redeemCode() with the handlers that call them.  Each awaited statement   *)
(* is a step, and the database locks nothing between two of them.           *)
(*                                                                          *)
(* A code is the row that holds its hash.  What a person types is a code    *)
(* they were mailed, or something that is no code at all (Wrong).           *)
(***************************************************************************)
EXTENDS Naturals, FiniteSets

CONSTANTS
    Users,
    Codes,         \* email_tokens rows, numbered as they are stored
    Calls,         \* slots for handlers in flight
    MaxAttempts,   \* MAX_CODE_ATTEMPTS
    Alone,         \* operations that never overlap another one in this instance
    Wrong, None

Purposes == {"verify", "reset"}
Ops == {"issue", "verify", "check", "reset"}

ASSUME CodesAssumption ==
    /\ Codes \subseteq Nat /\ IsFiniteSet(Calls)
    /\ MaxAttempts \in Nat \ {0}
    /\ Alone \subseteq Ops
    /\ None \notin Users \cup Codes /\ Wrong \notin Codes

VARIABLES
    code,      \* the email_tokens table
    expired,   \* codes past expires_at
    user,      \* email_verified_at and the ban of each user
    effects,   \* for each code, the handlers it let through to act on it
    call       \* the handlers in flight

vars == <<code, expired, user, effects, call>>

CodeRow == [status : {"unused", "live", "consumed", "purged"},
            user : Users \cup {None}, purpose : Purposes, attempts : Nat]
Positions == {"idle", "store", "look", "expire", "burn", "compare", "count",
              "claim", "act"}
CallRecord == [op : Ops \cup {"none"}, at : Positions, user : Users \cup {None},
               purpose : Purposes, typed : Codes \cup {Wrong, None},
               row : Codes \cup {None}]

TypeOK ==
    /\ code \in [Codes -> CodeRow]
    /\ expired \in SUBSET Codes
    /\ user \in [Users -> [verified : BOOLEAN, banned : BOOLEAN]]
    /\ effects \in [Codes -> Nat]
    /\ call \in [Calls -> CallRecord]

NoCode == [status |-> "unused", user |-> None, purpose |-> "verify", attempts |-> 0]
IdleCall == [op |-> "none", at |-> "idle", user |-> None, purpose |-> "verify",
             typed |-> None, row |-> None]

Init ==
    /\ code = [k \in Codes |-> NoCode]
    /\ expired = {}
    /\ user = [u \in Users |-> [verified |-> FALSE, banned |-> FALSE]]
    /\ effects = [k \in Codes |-> 0]
    /\ call = [c \in Calls |-> IdleCall]

-----------------------------------------------------------------------------

Live(u, purpose) == {k \in Codes : /\ code[k].status = "live"
                                   /\ code[k].user = u
                                   /\ code[k].purpose = purpose}
Unused == {k \in Codes : code[k].status = "unused"}
IsNext(k) == k \in Unused /\ \A j \in Unused : k <= j

Busy(c) == call[c].at # "idle"
At(c, at) == call[c].at = at

\* An operation of Alone starts when nothing else runs and keeps others out.
Start(c, op, at, u, purpose, typed) ==
    /\ ~Busy(c)
    /\ op \in Alone => \A d \in Calls : ~Busy(d)
    /\ \A d \in Calls : call[d].op \notin Alone
    /\ call' = [call EXCEPT ![c] = [op |-> op, at |-> at, user |-> u,
                                    purpose |-> purpose, typed |-> typed,
                                    row |-> None]]
Goto(c, at) == call' = [call EXCEPT ![c].at = at]
Finish(c) == call' = [call EXCEPT ![c] = IdleCall]

\* UPDATE ... SET consumed_at, of the live rows among these.
Consume(rows) ==
    code' = [k \in Codes |-> IF k \in rows /\ code[k].status = "live"
                             THEN [code[k] EXCEPT !.status = "consumed"]
                             ELSE code[k]]

-----------------------------------------------------------------------------
(* issueEmailToken(), from register(), resendVerification() and             *)
(* forgotPassword(): consume the live codes, then store a new one.          *)

MayIssue(u, purpose) ==
    /\ ~user[u].banned
    /\ (purpose = "verify") # user[u].verified

\* Bug: the codes of before stay good.
IssueKeepsOld(c, u, purpose) ==
    /\ MayIssue(u, purpose)
    /\ Start(c, "issue", "store", u, purpose, None)
    /\ UNCHANGED <<code, expired, user, effects>>

IssueConsume(c, u, purpose) ==
    /\ MayIssue(u, purpose)
    /\ Start(c, "issue", "store", u, purpose, None)
    /\ Consume(Live(u, purpose))
    /\ UNCHANGED <<expired, user, effects>>

\* The mail goes out right after, and a mail that fails changes nothing.
IssueStore(c, k) ==
    /\ At(c, "store")
    /\ IsNext(k)
    /\ code' = [code EXCEPT ![k] = [status |-> "live", user |-> call[c].user,
                                    purpose |-> call[c].purpose, attempts |-> 0]]
    /\ Finish(c)
    /\ UNCHANGED <<expired, user, effects>>

\* A bound of the model: every row has been used.
IssueFails(c) ==
    /\ At(c, "store")
    /\ Unused = {}
    /\ Finish(c)
    /\ UNCHANGED <<code, expired, user, effects>>

-----------------------------------------------------------------------------
(* redeemCode(): find a live row, then judge the code against what was read *)
(* of it.  verifyEmailCode() refuses an address that is verified already.   *)

Typeable == {k \in Codes : code[k].status # "unused"} \cup {Wrong}

RedeemStart(c, u, op, typed) ==
    /\ ~user[u].banned
    /\ op = "verify" => ~user[u].verified
    /\ typed \in Typeable
    /\ Start(c, op, "look", u, IF op = "verify" THEN "verify" ELSE "reset", typed)
    /\ UNCHANGED <<code, expired, user, effects>>

\* Bug: the cap is not looked at.
NextAfterLookUncapped(k) == IF k \in expired THEN "expire" ELSE "compare"

NextAfterLook(k) ==
    IF k \in expired THEN "expire"
    ELSE IF code[k].attempts >= MaxAttempts THEN "burn" ELSE "compare"

RedeemLook(c) ==
    /\ At(c, "look")
    /\ \/ \E k \in Live(call[c].user, call[c].purpose) :
              call' = [call EXCEPT ![c].row = k, ![c].at = NextAfterLook(k)]
       \/ Live(call[c].user, call[c].purpose) = {} /\ Finish(c)
    /\ UNCHANGED <<code, expired, user, effects>>

\* Bug: a burned code is put away in a way nothing else knows.
RedeemBurns(c) ==
    /\ call[c].at \in {"expire", "burn"}
    /\ code' = [code EXCEPT ![call[c].row].status = "burned"]
    /\ Finish(c)
    /\ UNCHANGED <<expired, user, effects>>

\* An expired code and one that was guessed at too often are put away.
RedeemPutAway(c) ==
    /\ call[c].at \in {"expire", "burn"}
    /\ Consume({call[c].row})
    /\ Finish(c)
    /\ UNCHANGED <<expired, user, effects>>

\* bcrypt.compare() of what was typed with the hash in the row.
RedeemCompare(c) ==
    /\ At(c, "compare")
    /\ IF call[c].typed # call[c].row THEN Goto(c, "count")
       ELSE IF call[c].op = "check" THEN Finish(c) ELSE Goto(c, "claim")
    /\ UNCHANGED <<code, expired, user, effects>>

RedeemCount(c) ==
    /\ At(c, "count")
    /\ code' = [code EXCEPT ![call[c].row].attempts =
                   IF code[call[c].row].status = "purged" THEN @ ELSE @ + 1]
    /\ Finish(c)
    /\ UNCHANGED <<expired, user, effects>>

\* Bug: the row is consumed whether or not somebody else was first.
RedeemClaimBlind(c) ==
    /\ At(c, "claim")
    /\ Consume({call[c].row})
    /\ Goto(c, "act")
    /\ UNCHANGED <<expired, user, effects>>

RedeemClaim(c) ==
    /\ At(c, "claim")
    /\ IF code[call[c].row].status = "live"
       THEN Consume({call[c].row}) /\ Goto(c, "act")
       ELSE code' = code /\ Finish(c)
    /\ UNCHANGED <<expired, user, effects>>

\* The address is verified; a reset also writes the new password.
RedeemAct(c) ==
    /\ At(c, "act")
    /\ user' = [user EXCEPT ![call[c].user].verified = TRUE]
    /\ effects' = [effects EXCEPT ![call[c].row] = @ + 1]
    /\ Finish(c)
    /\ UNCHANGED <<code, expired>>

-----------------------------------------------------------------------------

SetBan(u, banned) ==
    /\ user[u].banned # banned
    /\ user' = [user EXCEPT ![u].banned = banned]
    /\ UNCHANGED <<code, expired, effects, call>>

Expires(k) ==
    /\ code[k].status \in {"live", "consumed"}
    /\ k \notin expired
    /\ expired' = expired \cup {k}
    /\ UNCHANGED <<code, user, effects, call>>

\* purge_expired_data()
Purge ==
    /\ \E k \in expired : code[k].status # "purged"
    /\ code' = [k \in Codes |-> IF k \in expired
                                THEN [code[k] EXCEPT !.status = "purged"]
                                ELSE code[k]]
    /\ UNCHANGED <<expired, user, effects, call>>

Restart ==
    /\ \E c \in Calls : Busy(c)
    /\ call' = [c \in Calls |-> IdleCall]
    /\ UNCHANGED <<code, expired, user, effects>>

Next ==
    \/ \E c \in Calls, u \in Users :
          \/ \E purpose \in Purposes : IssueConsume(c, u, purpose)
          \/ \E op \in {"verify", "check", "reset"}, typed \in Typeable :
                RedeemStart(c, u, op, typed)
    \/ \E c \in Calls :
          \/ \E k \in Codes : IssueStore(c, k)
          \/ IssueFails(c)
          \/ RedeemLook(c)
          \/ RedeemPutAway(c)
          \/ RedeemCompare(c)
          \/ RedeemCount(c)
          \/ RedeemClaim(c)
          \/ RedeemAct(c)
    \/ \E u \in Users, banned \in BOOLEAN : SetBan(u, banned)
    \/ \E k \in Codes : Expires(k)
    \/ Purge
    \/ Restart

Spec == Init /\ [][Next]_vars

-----------------------------------------------------------------------------
(* Properties. *)

\* "Two tabs submitting the same code must not both proceed": a code lets one
\* handler through, however many were holding the right one.
CodeUsedOnce == \A k \in Codes : effects[k] <= 1

\* MAX_CODE_ATTEMPTS is compared with what was read and counted after, so the
\* handlers in flight can pass it, each of them once and no further.
GuessesBounded ==
    \A k \in Codes : code[k].attempts <= MaxAttempts + Cardinality(Calls) - 1

\* "Live tokens of the same purpose are consumed first": never two codes of
\* one purpose that could both be redeemed.
OneLiveCode ==
    \A j, k \in Codes :
        /\ code[j].status = "live" /\ code[k].status = "live"
        /\ code[j].user = code[k].user /\ code[j].purpose = code[k].purpose
        => j = k

\* The code somebody was mailed last is never counted as a wrong guess.
RightCodeNotCounted ==
    \A c \in Calls : At(c, "count") =>
        call[c].typed \notin Live(call[c].user, call[c].purpose)
=============================================================================
