----------------------- MODULE RefreshSessions_proofs -----------------------
(***************************************************************************)
(* Proofs about RefreshSessions for every number of users, tokens, handlers *)
(* in flight and password resets, and either setting of the reuse window.   *)
(***************************************************************************)
EXTENDS RefreshSessions, TLAPS

USE SessionsAssumption

-----------------------------------------------------------------------------
(* The inductive invariant.  A handler goes by a row it read some steps ago, *)
(* so what has to be known of it is what no other handler can undo.          *)

\* A row that was never issued is empty.  One that was belongs to a user and a
\* family, whose first token is that user's, and so does its parent.
RowOK(t) ==
    /\ token[t].status = "unused" => token[t] = NoToken
    /\ token[t].status # "unused" =>
          /\ token[t].user \in Users
          /\ token[t].family \in Tokens
          /\ token[token[t].family].status # "unused"
          /\ token[token[t].family].user = token[t].user
    /\ token[t].parent # None =>
          /\ token[token[t].parent].status # "unused"
          /\ token[token[t].parent].user = token[t].user
          /\ token[token[t].parent].family = token[t].family

TokenInv == \A t \in Tokens : RowOK(t)

\* What a handler holds, by its operation and the position it is in.
CallOK(r) ==
    /\ r.op = "none" => r.at = "idle"
    /\ r.op = "signIn" =>
          /\ r.at \in {"ban", "insert", "confirm"}
          /\ r.user \in Users /\ r.token = None /\ r.family = None
    /\ r.op = "refresh" =>
          /\ r.at \in {"claim", "ban", "insert", "grace", "reuse"}
          /\ r.user \in Users /\ r.token \in Tokens
          /\ token[r.token].status # "unused"
          /\ token[r.token].user = r.user /\ token[r.token].family = r.family
          /\ r.at = "grace" => token[r.token].status # "live"
          /\ r.at = "reuse" => \/ ~window
                               \/ r.token \in late
                               \/ ~Held(r.token)
    /\ r.op = "logout" => /\ r.at = "delete" /\ r.token \in Tokens
                          /\ token[r.token].status # "unused"
                          /\ token[r.token].family = r.family
    /\ r.op = "reset" => r.at \in {"write", "delete"} /\ r.user \in Users
    /\ r.op = "ban" => r.at \in {"mark", "delete"} /\ r.user \in Users

CallInv == \A c \in Calls : CallOK(call[c])

\* Where there is no window, claiming a token makes one handler its winner, and
\* a winner is what a child comes from.
Winning(c, t) ==
    call[c].op = "refresh" /\ call[c].at \in {"ban", "insert"} /\ call[c].token = t

WinnerInv ==
    ~window => \A t \in Tokens :
       /\ \A c, d \in Calls : Winning(c, t) /\ Winning(d, t) => c = d
       /\ \A c \in Calls, s \in Tokens : Winning(c, t) => token[s].parent # t
       /\ \A r, s \in Tokens : token[r].parent = t /\ token[s].parent = t => r = s
       /\ token[t].status = "live" => /\ \A c \in Calls : ~Winning(c, t)
                                      /\ \A s \in Tokens : token[s].parent # t

IInv == TypeOK /\ TokenInv /\ CallInv /\ WinnerInv

-----------------------------------------------------------------------------
(* What moving, starting and ending a call change.                          *)

LEMMA GotoOnly ==
  ASSUME TypeOK, NEW c \in Calls, NEW at \in Positions, Goto(c, at)
  PROVE  /\ call' \in [Calls -> CallRecord]
         /\ call'[c].op = call[c].op /\ call'[c].at = at
         /\ call'[c].user = call[c].user /\ call'[c].token = call[c].token
         /\ call'[c].family = call[c].family
         /\ call'[c].password = call[c].password
         /\ \A d \in Calls : d # c => call'[d] = call[d]
<1>1. call[c] \in CallRecord
  BY DEF TypeOK
<1>2. call' = [call EXCEPT ![c] = [call[c] EXCEPT !.at = at]]
  BY DEF Goto
<1>3. [call[c] EXCEPT !.at = at] \in CallRecord
  BY <1>1 DEF CallRecord
<1>4. QED
  BY <1>1, <1>2, <1>3 DEF TypeOK, CallRecord

LEMMA FinishOnly ==
  ASSUME TypeOK, NEW c \in Calls, Finish(c)
  PROVE  /\ call' \in [Calls -> CallRecord]
         /\ call'[c] = IdleCall
         /\ \A d \in Calls : d # c => call'[d] = call[d]
<1>1. IdleCall \in CallRecord
  BY DEF IdleCall, CallRecord, Positions, Passwords
<1>2. QED
  BY <1>1 DEF TypeOK, Finish

LEMMA StartOnly ==
  ASSUME TypeOK, NEW c \in Calls, NEW op \in Ops, NEW at \in Positions,
         NEW u \in Users \cup {None}, NEW t \in Tokens \cup {None},
         NEW f \in Tokens \cup {None}, NEW p \in Passwords,
         Start(c, op, at, u, t, f, p)
  PROVE  /\ call' \in [Calls -> CallRecord]
         /\ call'[c] = [op |-> op, at |-> at, user |-> u, token |-> t,
                        family |-> f, password |-> p]
         /\ \A d \in Calls : d # c => call'[d] = call[d]
<1> DEFINE r == [op |-> op, at |-> at, user |-> u, token |-> t,
                 family |-> f, password |-> p]
<1>1. r \in CallRecord
  BY DEF CallRecord
<1>2. call' = [call EXCEPT ![c] = r]
  BY DEF Start
<1>3. QED
  BY <1>1, <1>2 DEF TypeOK

LEMMA IdleOK == CallOK(IdleCall)
  BY DEF CallOK, IdleCall

-----------------------------------------------------------------------------
(* What a step may do to rows that were issued.                             *)

\* Only the status changes, and only forwards.
RowsKept ==
    \A t \in Tokens :
       /\ token'[t].user = token[t].user /\ token'[t].family = token[t].family
       /\ token'[t].parent = token[t].parent
       /\ token'[t].password = token[t].password
       /\ token[t].status = "unused" => token'[t] = token[t]
       /\ token'[t].status = "unused" => token[t].status = "unused"
       /\ token'[t].status = "live" => token[t].status = "live"
       /\ Held(t)' => Held(t)

\* A token older than the window stays that, or goes.
LateKept == \A t \in Tokens : t \in late => t \in late' \/ ~Held(t)'

LEMMA DeleteKeeps ==
  ASSUME TypeOK, NEW rows \in SUBSET Tokens,
         NEW why \in Deleted, Delete(rows, why)
  PROVE  /\ token' \in [Tokens -> TokenRow] /\ late' \in SUBSET Tokens
         /\ RowsKept /\ LateKept
         /\ \A t \in rows : ~Held(t)'
         /\ \A t \in Tokens :
               token'[t].status # token[t].status =>
                  token'[t].status = why /\ t \in rows
<1>1. ASSUME NEW t \in Tokens
      PROVE  /\ token'[t] \in TokenRow
             /\ token'[t].user = token[t].user /\ token'[t].family = token[t].family
             /\ token'[t].parent = token[t].parent
             /\ token'[t].password = token[t].password
             /\ \/ token'[t] = token[t] /\ (t \notin rows \/ ~Held(t))
                \/ token'[t].status = why /\ Held(t) /\ t \in rows
  <2>1. token[t] \in TokenRow
    BY DEF TypeOK
  <2>2. token'[t] = IF t \in rows /\ Held(t)
                    THEN [token[t] EXCEPT !.status = why] ELSE token[t]
    BY DEF Delete
  <2>3. QED
    BY <2>1, <2>2 DEF TokenRow, TokenStatuses
<1>2. token' \in [Tokens -> TokenRow] /\ late' \in SUBSET Tokens
  BY <1>1 DEF Delete, TypeOK
<1>3. RowsKept
  BY <1>1 DEF RowsKept, Held, Present, Deleted
<1>4. \A t \in rows : ~Held(t)'
  BY <1>1 DEF Held, Present, Deleted
<1>5. LateKept
  BY <1>4 DEF LateKept, Delete
<1>6. \A t \in Tokens : token'[t].status # token[t].status =>
         token'[t].status = why /\ t \in rows
  BY <1>1
<1>7. QED
  BY <1>2, <1>3, <1>4, <1>5, <1>6

\* Handlers that stay where they are keep what they hold.
LEMMA StandingOK ==
  ASSUME TypeOK, RowsKept, LateKept, window' = window, NEW r, CallOK(r)
  PROVE  CallOK(r)'
  BY DEF CallOK, RowsKept, LateKept, Held

\* Outside a window only the call w can come to win, and a token that was live.
OnlyWinner(w) ==
    \A c \in Calls, t \in Tokens :
       Winning(c, t)' => \/ Winning(c, t)
                         \/ window
                         \/ c = w /\ token[t].status = "live"
                            /\ token'[t].status # "live"

\* The common part of every step that issues no token: rows only go forwards,
\* each call is as it was or fits its new place, and a handler only comes to
\* win a token within a window or by the claim that consumes it.
LEMMA StepKeeps ==
  ASSUME IInv, TypeOK', RowsKept, LateKept, window' = window, NEW w,
         \A c \in Calls : call'[c] = call[c] \/ CallOK(call[c])',
         OnlyWinner(w)
  PROVE  IInv'
<1>1. TokenInv'
  <2> SUFFICES ASSUME NEW t \in Tokens PROVE RowOK(t)'
    BY DEF TokenInv
  <2>1. RowOK(t) /\ token[t] \in TokenRow
    BY DEF IInv, TokenInv, TypeOK
  <2>2. token[t].parent \in Tokens \cup {None}
    BY <2>1 DEF TokenRow
  <2>3. /\ token'[t].user = token[t].user /\ token'[t].family = token[t].family
        /\ token'[t].parent = token[t].parent
        /\ token[t].status = "unused" => token'[t] = token[t]
        /\ token'[t].status = "unused" => token[t].status = "unused"
    BY DEF RowsKept
  <2>4. token'[t].status = "unused" => token'[t] = NoToken
    BY <2>1, <2>3 DEF RowOK
  <2>5. ASSUME token'[t].status # "unused"
        PROVE  /\ token'[t].user \in Users
               /\ token'[t].family \in Tokens
               /\ token'[token'[t].family].status # "unused"
               /\ token'[token'[t].family].user = token'[t].user
    <3>1. token[t].status # "unused"
      BY <2>3, <2>5
    <3>2. QED
      BY ZenonT(60), <2>1, <2>3, <3>1 DEF RowOK, RowsKept
  <2>6. ASSUME token'[t].parent # None
        PROVE  /\ token'[token'[t].parent].status # "unused"
               /\ token'[token'[t].parent].user = token'[t].user
               /\ token'[token'[t].parent].family = token'[t].family
    <3>1. token[t].parent \in Tokens
      BY <2>2, <2>3, <2>6
    <3>2. QED
      BY ZenonT(60), <2>1, <2>3, <2>6, <3>1 DEF RowOK, RowsKept
  <2>7. QED
    BY <2>4, <2>5, <2>6 DEF RowOK
<1>2. CallInv'
  BY StandingOK DEF IInv, CallInv
<1>3. WinnerInv'
  <2> SUFFICES ASSUME ~window, NEW t \in Tokens
               PROVE  /\ \A c, d \in Calls : Winning(c, t)' /\ Winning(d, t)' => c = d
                      /\ \A c \in Calls, s \in Tokens : Winning(c, t)' => token'[s].parent # t
                      /\ \A r, s \in Tokens :
                            token'[r].parent = t /\ token'[s].parent = t => r = s
                      /\ token'[t].status = "live" =>
                            /\ \A c \in Calls : ~Winning(c, t)'
                            /\ \A s \in Tokens : token'[s].parent # t
    BY DEF WinnerInv
  <2>1. /\ \A c, d \in Calls : Winning(c, t) /\ Winning(d, t) => c = d
        /\ \A c \in Calls, s \in Tokens : Winning(c, t) => token[s].parent # t
        /\ \A r, s \in Tokens : token[r].parent = t /\ token[s].parent = t => r = s
        /\ token[t].status = "live" => /\ \A c \in Calls : ~Winning(c, t)
                                       /\ \A s \in Tokens : token[s].parent # t
    BY DEF IInv, WinnerInv
  <2>2. /\ \A s \in Tokens : token'[s].parent = token[s].parent
        /\ token'[t].status = "live" => token[t].status = "live"
    BY DEF RowsKept
  <2>3. QED
    BY <2>1, <2>2 DEF OnlyWinner
<1>4. QED
  BY <1>1, <1>2, <1>3 DEF IInv
LEMMA NothingKept ==
  ASSUME token' = token, late' = late
  PROVE  RowsKept /\ LateKept
  BY DEF RowsKept, LateKept, Held

-----------------------------------------------------------------------------
(* The initial states, and each action in turn.                             *)

LEMMA InitInv == Init => IInv
<1> SUFFICES ASSUME Init PROVE IInv
  OBVIOUS
<1>1. NoToken \in TokenRow /\ IdleCall \in CallRecord
  BY DEF NoToken, TokenRow, TokenStatuses, IdleCall, CallRecord, Positions, Passwords
<1>2. TypeOK
  BY <1>1 DEF Init, TypeOK, Passwords
<1>3. TokenInv
  BY DEF Init, TokenInv, RowOK, NoToken
<1>4. CallInv
  BY IdleOK DEF Init, CallInv
<1>5. WinnerInv
  BY DEF Init, WinnerInv, Winning, IdleCall, NoToken
<1>6. QED
  BY <1>2, <1>3, <1>4, <1>5 DEF IInv

Standing == [password : Passwords, verified : BOOLEAN, banned : BOOLEAN]

\* The changes the handlers make to an account leave it one.
LEMMA AccountChanges ==
  ASSUME TypeOK, NEW u \in Users
  PROVE  /\ [account EXCEPT ![u].verified = TRUE] \in [Users -> Standing]
         /\ [account EXCEPT ![u].banned = TRUE] \in [Users -> Standing]
         /\ [account EXCEPT ![u].banned = FALSE] \in [Users -> Standing]
         /\ [account EXCEPT ![u].password = IF @ < MaxResets THEN @ + 1 ELSE @]
               \in [Users -> Standing]
<1>1. account \in [Users -> Standing] /\ account[u] \in Standing
  BY DEF TypeOK, Standing
<1> DEFINE p == account[u].password
           q == IF p < MaxResets THEN p + 1 ELSE p
<1>2. p \in Passwords /\ q \in Passwords
  BY <1>1 DEF Standing, Passwords
<1>3. /\ [account[u] EXCEPT !.verified = TRUE] \in Standing
      /\ [account[u] EXCEPT !.banned = TRUE] \in Standing
      /\ [account[u] EXCEPT !.banned = FALSE] \in Standing
      /\ [account[u] EXCEPT !.password = q] \in Standing
  <2> HIDE DEF q
  <2>1. QED
    BY <1>1, <1>2 DEF Standing
<1>4. QED
  BY <1>1, <1>3

\* A handler that starts holds what it has just read and has won nothing.
LEMMA StartKeeps ==
  ASSUME IInv, NEW c \in Calls, NEW op \in Ops, NEW at \in Positions,
         NEW u \in Users \cup {None}, NEW t \in Tokens \cup {None},
         NEW f \in Tokens \cup {None}, NEW p \in Passwords,
         Start(c, op, at, u, t, f, p),
         CallOK([op |-> op, at |-> at, user |-> u, token |-> t,
                 family |-> f, password |-> p]),
         at \notin {"ban", "insert"} \/ op # "refresh",
         token' = token, late' = late, window' = window,
         account' \in [Users -> [password : Passwords, verified : BOOLEAN,
                                 banned : BOOLEAN]]
  PROVE  IInv'
<1> DEFINE r == [op |-> op, at |-> at, user |-> u, token |-> t,
                 family |-> f, password |-> p]
<1>1. /\ call' \in [Calls -> CallRecord]
      /\ call'[c] = r
      /\ \A d \in Calls : d # c => call'[d] = call[d]
  BY StartOnly DEF IInv
<1>2. TypeOK'
  BY <1>1 DEF IInv, TypeOK
<1>3. CallOK(call[c])'
  BY <1>1 DEF CallOK, Held
<1>4. OnlyWinner(None)
  BY <1>1 DEF OnlyWinner, Winning
<1>5. \A d \in Calls : call'[d] = call[d] \/ CallOK(call[d])'
  BY <1>1, <1>3
<1>6. QED
  BY <1>2, <1>4, <1>5, NothingKept, StepKeeps

LEMMA SignInStarts ==
  ASSUME IInv, NEW c \in Calls, NEW u \in Users,
         LoginRead(c, u) \/ GoogleRead(c, u) \/ VerifyStart(c, u)
  PROVE  IInv'
<1>1. /\ account \in [Users -> [password : Passwords, verified : BOOLEAN,
                                banned : BOOLEAN]]
      /\ account[u].password \in Passwords
  BY DEF IInv, TypeOK
<1>2. account' \in [Users -> [password : Passwords, verified : BOOLEAN,
                              banned : BOOLEAN]]
  <2>1. account' = account \/ account' = [account EXCEPT ![u].verified = TRUE]
    BY DEF LoginRead, GoogleRead, VerifyStart, Tables
  <2>2. [account EXCEPT ![u].verified = TRUE] \in [Users -> Standing]
    BY AccountChanges DEF IInv
  <2>3. QED
    BY <1>1, <2>1, <2>2 DEF Standing
<1>3. token' = token /\ late' = late /\ window' = window
  BY DEF LoginRead, GoogleRead, VerifyStart, Tables
<1>4. "signIn" \in Ops /\ "ban" \in Positions /\ "confirm" \in Positions
  BY DEF Ops, Positions
<1>5. CASE Start(c, "signIn", "ban", u, None, None, account[u].password)
  <2>1. CallOK([op |-> "signIn", at |-> "ban", user |-> u, token |-> None,
                family |-> None, password |-> account[u].password])
    BY DEF CallOK
  <2>2. QED
    BY <1>1, <1>2, <1>3, <1>4, <1>5, <2>1, StartKeeps
<1>6. CASE Start(c, "signIn", "confirm", u, None, None, account[u].password)
  <2>1. CallOK([op |-> "signIn", at |-> "confirm", user |-> u, token |-> None,
                family |-> None, password |-> account[u].password])
    BY DEF CallOK
  <2>2. QED
    BY <1>1, <1>2, <1>3, <1>4, <1>6, <2>1, StartKeeps
<1>7. QED
  BY <1>5, <1>6 DEF LoginRead, GoogleRead, VerifyStart

LEMMA EndStarts ==
  ASSUME IInv, NEW c \in Calls, NEW u \in Users,
         ResetStart(c, u) \/ BanRead(c, u)
  PROVE  IInv'
<1>1. /\ account' \in [Users -> [password : Passwords, verified : BOOLEAN,
                                 banned : BOOLEAN]]
      /\ token' = token /\ late' = late /\ window' = window
  BY DEF IInv, TypeOK, ResetStart, BanRead, Tables
<1>2. /\ "reset" \in Ops /\ "ban" \in Ops /\ "write" \in Positions
      /\ "mark" \in Positions /\ 0 \in Passwords
  BY DEF Ops, Positions, Passwords
<1>3. CASE ResetStart(c, u)
  <2>1. CallOK([op |-> "reset", at |-> "write", user |-> u, token |-> None,
                family |-> None, password |-> 0])
    BY DEF CallOK
  <2>2. Start(c, "reset", "write", u, None, None, 0)
    BY <1>3 DEF ResetStart
  <2>3. QED
    BY <1>1, <1>2, <2>1, <2>2, StartKeeps
<1>4. CASE BanRead(c, u)
  <2>1. CallOK([op |-> "ban", at |-> "mark", user |-> u, token |-> None,
                family |-> None, password |-> 0])
    BY DEF CallOK
  <2>2. Start(c, "ban", "mark", u, None, None, 0)
    BY <1>4 DEF BanRead
  <2>3. QED
    BY <1>1, <1>2, <2>1, <2>2, StartKeeps
<1>5. QED
  BY <1>3, <1>4

LEMMA TokenStarts ==
  ASSUME IInv, NEW c \in Calls, NEW t \in Tokens,
         RefreshRead(c, t) \/ LogoutRead(c, t)
  PROVE  IInv'
<1>1. /\ account' \in [Users -> [password : Passwords, verified : BOOLEAN,
                                 banned : BOOLEAN]]
      /\ token' = token /\ late' = late /\ window' = window
  BY DEF IInv, TypeOK, RefreshRead, LogoutRead, Tables
<1>2. /\ token[t].status # "unused"
      /\ token[t] \in TokenRow
      /\ token[t].user \in Users /\ token[t].family \in Tokens
  BY DEF IInv, TypeOK, TokenInv, RowOK, RefreshRead, LogoutRead, Held, Present
<1>3. /\ "refresh" \in Ops /\ "logout" \in Ops /\ "claim" \in Positions
      /\ "delete" \in Positions /\ 0 \in Passwords
      /\ token[t].password \in Passwords
  BY <1>2 DEF Ops, Positions, Passwords, TokenRow
<1>4. CASE RefreshRead(c, t)
  <2>1. CallOK([op |-> "refresh", at |-> "claim", user |-> token[t].user,
                token |-> t, family |-> token[t].family,
                password |-> token[t].password])
    BY <1>2 DEF CallOK
  <2>2. Start(c, "refresh", "claim", token[t].user, t, token[t].family,
              token[t].password)
    BY <1>4 DEF RefreshRead
  <2>3. QED
    BY <1>1, <1>2, <1>3, <2>1, <2>2, StartKeeps
<1>5. CASE LogoutRead(c, t)
  <2>1. CallOK([op |-> "logout", at |-> "delete", user |-> None, token |-> t,
                family |-> token[t].family, password |-> 0])
    BY <1>2 DEF CallOK
  <2>2. Start(c, "logout", "delete", None, t, token[t].family, 0)
    BY <1>5 DEF LogoutRead
  <2>3. QED
    BY <1>1, <1>2, <1>3, <2>1, <2>2, StartKeeps
<1>6. QED
  BY <1>4, <1>5

\* A handler that goes on or ends, and changes no more than accounts.
LEMMA MoveKeeps ==
  ASSUME IInv, NEW c \in Calls,
         call' \in [Calls -> CallRecord],
         \A d \in Calls : d # c => call'[d] = call[d],
         CallOK(call'[c]),
         \A t \in Tokens : Winning(c, t)' => Winning(c, t) \/ window,
         token' = token, late' = late, window' = window,
         account' \in [Users -> Standing]
  PROVE  IInv'
<1>1. TypeOK'
  BY DEF IInv, TypeOK, Standing
<1>2. CallOK(call[c])'
  BY DEF CallOK, Held
<1>3. \A d \in Calls : call'[d] = call[d] \/ CallOK(call[d])'
  BY <1>2
<1>4. OnlyWinner(None)
  BY DEF OnlyWinner, Winning
<1>5. QED
  BY <1>1, <1>3, <1>4, NothingKept, StepKeeps

LEMMA FinishKeeps ==
  ASSUME IInv, NEW c \in Calls, Finish(c), token' = token, late' = late,
         window' = window, account' \in [Users -> Standing]
  PROVE  IInv'
<1>1. /\ call' \in [Calls -> CallRecord]
      /\ call'[c] = IdleCall
      /\ \A d \in Calls : d # c => call'[d] = call[d]
  BY FinishOnly DEF IInv
<1>2. \A t \in Tokens : ~Winning(c, t)'
  BY <1>1 DEF Winning, IdleCall
<1>3. QED
  BY <1>1, <1>2, IdleOK, MoveKeeps

LEMMA GotoKeeps ==
  ASSUME IInv, NEW c \in Calls, NEW at \in Positions, Goto(c, at),
         CallOK([call[c] EXCEPT !.at = at]),
         at \in {"ban", "insert"} => \/ call[c].at \in {"ban", "insert"}
                                     \/ call[c].op # "refresh"
                                     \/ window,
         token' = token, late' = late, window' = window,
         account' \in [Users -> Standing]
  PROVE  IInv'
<1>1. /\ call' \in [Calls -> CallRecord]
      /\ call'[c] = [call[c] EXCEPT !.at = at]
      /\ \A d \in Calls : d # c => call'[d] = call[d]
  <2>1. call'[c] = [call[c] EXCEPT !.at = at]
    BY DEF Goto, IInv, TypeOK
  <2>2. QED
    BY <2>1, GotoOnly DEF IInv
<1>2. \A t \in Tokens : Winning(c, t)' => Winning(c, t) \/ window
  <2>1. /\ call'[c].op = call[c].op /\ call'[c].at = at
        /\ call'[c].token = call[c].token
    BY GotoOnly DEF IInv
  <2>2. QED
    BY <2>1 DEF Winning
<1>3. QED
  BY <1>1, <1>2, MoveKeeps

\* What a handler that is about to take a step holds.
LEMMA CallHolds ==
  ASSUME IInv, NEW c \in Calls
  PROVE  /\ call[c] \in CallRecord /\ CallOK(call[c])
         /\ At(c, "ban") => call[c].op \in {"signIn", "refresh"}
         /\ At(c, "confirm") => call[c].op = "signIn"
         /\ At(c, "insert") => call[c].op \in {"signIn", "refresh"}
         /\ At(c, "claim") => call[c].op = "refresh"
         /\ At(c, "grace") => call[c].op = "refresh"
         /\ At(c, "reuse") => call[c].op = "refresh"
         /\ At(c, "write") => call[c].op = "reset"
         /\ At(c, "mark") => call[c].op = "ban"
         /\ At(c, "delete") => call[c].op \in {"logout", "reset", "ban"}
<1>1. call[c] \in CallRecord /\ CallOK(call[c])
  BY DEF IInv, TypeOK, CallInv
<1>2. call[c].op \in Ops \cup {"none"}
  BY <1>1 DEF CallRecord
<1>3. QED
  BY <1>1, <1>2 DEF CallOK, At, Ops

LEMMA CheckBanKeeps ==
  ASSUME IInv, NEW c \in Calls, CheckBan(c)
  PROVE  IInv'
<1>1. /\ token' = token /\ late' = late /\ window' = window
      /\ account' \in [Users -> Standing]
  BY DEF IInv, TypeOK, CheckBan, Tables, Standing
<1>2. CASE Finish(c)
  BY <1>1, <1>2, FinishKeeps
<1>3. CASE Goto(c, "insert")
  <2>1. CallOK([call[c] EXCEPT !.at = "insert"])
    BY CallHolds DEF CheckBan, CallOK, CallRecord, At
  <2>2. "insert" \in Positions /\ call[c].at = "ban"
    BY DEF Positions, CheckBan, At
  <2>3. QED
    BY <1>1, <1>3, <2>1, <2>2, GotoKeeps
<1>4. QED
  BY <1>2, <1>3 DEF CheckBan

LEMMA VerifyWriteKeeps ==
  ASSUME IInv, NEW c \in Calls, VerifyWrite(c)
  PROVE  IInv'
<1>1. call[c].op = "signIn" /\ call[c].user \in Users
  BY CallHolds DEF VerifyWrite, CallOK
<1>2. /\ token' = token /\ late' = late /\ window' = window
      /\ account' \in [Users -> Standing]
  BY <1>1, AccountChanges DEF IInv, VerifyWrite
<1>3. CallOK([call[c] EXCEPT !.at = "insert"])
  BY <1>1, CallHolds DEF CallOK, CallRecord
<1>4. "insert" \in Positions /\ Goto(c, "insert")
  BY DEF Positions, VerifyWrite
<1>5. QED
  BY <1>1, <1>2, <1>3, <1>4, GotoKeeps

LEMMA RefreshGraceKeeps ==
  ASSUME IInv, NEW c \in Calls, RefreshGrace(c)
  PROVE  IInv'
<1> DEFINE t == call[c].token
<1>1. /\ call[c].op = "refresh" /\ t \in Tokens
      /\ token[t].status \notin {"unused", "live"}
      /\ call[c] \in CallRecord /\ CallOK(call[c])
  BY CallHolds DEF RefreshGrace, CallOK, At
<1>2. /\ token' = token /\ late' = late /\ window' = window
      /\ account' \in [Users -> Standing]
  BY DEF IInv, TypeOK, RefreshGrace, Tables, Standing
<1>3. CASE WithinGrace(t)
  <2>1. Goto(c, "ban") /\ "ban" \in Positions /\ window
    BY <1>3 DEF RefreshGrace, WithinGrace, Positions
  <2>2. CallOK([call[c] EXCEPT !.at = "ban"])
    BY <1>1 DEF CallOK, CallRecord
  <2>3. QED
    BY <1>2, <2>1, <2>2, GotoKeeps
<1>4. CASE ~WithinGrace(t)
  <2>1. Goto(c, "reuse") /\ "reuse" \in Positions
    BY <1>4 DEF RefreshGrace, Positions
  <2>2. ~window \/ t \in late \/ ~Held(t)
    BY <1>1, <1>4 DEF WithinGrace, Held, Present
  <2>3. CallOK([call[c] EXCEPT !.at = "reuse"])
    BY <1>1, <2>2 DEF CallOK, CallRecord
  <2>4. QED
    BY <1>2, <2>1, <2>3, GotoKeeps
<1>5. QED
  BY <1>3, <1>4

LEMMA ResetWriteKeeps ==
  ASSUME IInv, NEW c \in Calls, ResetWrite(c)
  PROVE  IInv'
<1>1. call[c].op = "reset" /\ call[c].user \in Users
  BY CallHolds DEF ResetWrite, CallOK
<1>2. /\ token' = token /\ late' = late /\ window' = window
      /\ account' \in [Users -> Standing]
  BY <1>1, AccountChanges DEF IInv, ResetWrite
<1>3. CallOK([call[c] EXCEPT !.at = "delete"])
  BY <1>1, CallHolds DEF CallOK, CallRecord
<1>4. "delete" \in Positions /\ Goto(c, "delete")
  BY DEF Positions, ResetWrite
<1>5. QED
  BY <1>2, <1>3, <1>4, GotoKeeps

LEMMA BanInsertKeeps ==
  ASSUME IInv, NEW c \in Calls, BanInsert(c)
  PROVE  IInv'
<1>1. call[c].op = "ban" /\ call[c].user \in Users
  BY CallHolds DEF BanInsert, CallOK
<1>2. token' = token /\ late' = late /\ window' = window
  BY DEF BanInsert
<1>3. CASE account' = account /\ Finish(c)
  BY <1>2, <1>3, FinishKeeps DEF IInv, TypeOK, Standing
<1>4. CASE account' = [account EXCEPT ![call[c].user].banned = TRUE]
           /\ Goto(c, "delete")
  <2>1. account' \in [Users -> Standing]
    BY <1>1, <1>4, AccountChanges DEF IInv
  <2>2. CallOK([call[c] EXCEPT !.at = "delete"])
    BY <1>1, CallHolds DEF CallOK, CallRecord
  <2>3. "delete" \in Positions
    BY DEF Positions
  <2>4. QED
    BY <1>2, <1>4, <2>1, <2>2, <2>3, GotoKeeps
<1>5. QED
  BY <1>3, <1>4 DEF BanInsert

LEMMA CreateFailsKeeps ==
  ASSUME IInv, NEW c \in Calls, CreateFails(c)
  PROVE  IInv'
  BY FinishKeeps DEF CreateFails, Tables, IInv, TypeOK, Standing

\* The claim is the one step that makes a winner, of a token that was live: and
\* a live token has neither a winner nor a child.
LEMMA RefreshClaimKeeps ==
  ASSUME IInv, NEW c \in Calls, RefreshClaim(c)
  PROVE  IInv'
<1> DEFINE t == call[c].token
<1>1. /\ call[c].op = "refresh" /\ t \in Tokens /\ At(c, "claim")
      /\ token[t].status # "unused" /\ token[t] \in TokenRow
      /\ call[c] \in CallRecord /\ CallOK(call[c])
  BY CallHolds DEF RefreshClaim, CallOK, IInv, TypeOK
<1>2. late' = late /\ account' = account /\ window' = window
  BY DEF RefreshClaim
<1>3. CASE token[t].status = "live"
  <2>1. token' = [token EXCEPT ![t] = [token[t] EXCEPT !.status = "consumed"]]
        /\ Goto(c, "ban") /\ "ban" \in Positions
    BY <1>3 DEF RefreshClaim, Positions
  <2>2. [token[t] EXCEPT !.status = "consumed"] \in TokenRow
    BY <1>1 DEF TokenRow, TokenStatuses, Present
  <2>3. /\ token' \in [Tokens -> TokenRow]
        /\ token'[t] = [token[t] EXCEPT !.status = "consumed"]
        /\ \A s \in Tokens : s # t => token'[s] = token[s]
    BY <1>1, <2>1, <2>2 DEF IInv, TypeOK
  <2>4. /\ token'[t].user = token[t].user /\ token'[t].family = token[t].family
        /\ token'[t].parent = token[t].parent
        /\ token'[t].password = token[t].password
        /\ token'[t].status = "consumed"
    BY <1>1, <2>3 DEF TokenRow
  <2>5. RowsKept /\ LateKept
    BY <1>1, <1>2, <1>3, <2>3, <2>4 DEF RowsKept, LateKept, Held, Present
  <2>6. /\ call' \in [Calls -> CallRecord]
        /\ call'[c].op = "refresh" /\ call'[c].at = "ban"
        /\ call'[c].user = call[c].user /\ call'[c].token = t
        /\ call'[c].family = call[c].family
        /\ \A d \in Calls : d # c => call'[d] = call[d]
    BY <1>1, <2>1, GotoOnly DEF IInv
  <2>7. TypeOK'
    BY <1>2, <2>3, <2>6 DEF IInv, TypeOK
  <2>8. CallOK(call[c])'
    BY <1>1, <2>4, <2>6 DEF CallOK
  <2>9. \A d \in Calls : call'[d] = call[d] \/ CallOK(call[d])'
    BY <2>6, <2>8
  <2>10. \A d \in Calls, s \in Tokens :
            Winning(d, s)' => Winning(d, s) \/ (d = c /\ s = t)
    BY <2>6 DEF Winning
  <2>11. OnlyWinner(c)
    BY <1>3, <2>4, <2>10 DEF OnlyWinner
  <2>12. QED
    BY <1>2, <2>5, <2>7, <2>9, <2>11, StepKeeps
<1>4. CASE token[t].status # "live"
  <2>1. token' = token /\ Goto(c, "grace") /\ "grace" \in Positions
    BY <1>4 DEF RefreshClaim, Positions
  <2>2. CallOK([call[c] EXCEPT !.at = "grace"])
    BY <1>1, <1>4 DEF CallOK, CallRecord
  <2>3. QED
    BY <1>2, <2>1, <2>2, GotoKeeps DEF IInv, TypeOK, Standing
<1>5. QED
  BY <1>3, <1>4

\* Deleting rows is the last thing a handler does.
LEMMA DeleteStepKeeps ==
  ASSUME IInv, NEW rows \in SUBSET Tokens, NEW why \in Deleted,
         Delete(rows, why), account' = account, window' = window,
         call' = call \/ \E c \in Calls : Finish(c)
  PROVE  IInv'
<1>1. /\ token' \in [Tokens -> TokenRow] /\ late' \in SUBSET Tokens
      /\ RowsKept /\ LateKept
  BY DeleteKeeps DEF IInv
<1>2. /\ call' \in [Calls -> CallRecord]
      /\ \A d \in Calls : call'[d] = call[d] \/ call'[d] = IdleCall
  BY FinishOnly DEF IInv, TypeOK
<1>3. TypeOK'
  BY <1>1, <1>2 DEF IInv, TypeOK
<1>4. CallOK(IdleCall)'
  BY DEF CallOK, IdleCall
<1>5. \A d \in Calls : call'[d] = call[d] \/ CallOK(call[d])'
  BY <1>2, <1>4
<1>6. OnlyWinner(None)
  BY <1>2 DEF OnlyWinner, Winning, IdleCall
<1>7. QED
  BY <1>1, <1>3, <1>5, <1>6, StepKeeps

LEMMA DeletesKeep ==
  ASSUME IInv, NEW c \in Calls, RefreshReuse(c) \/ DeleteSessions(c)
  PROVE  IInv'
<1>1. CASE RefreshReuse(c)
  <2>1. Family(call[c].family) \in SUBSET Tokens /\ "reused" \in Deleted
    BY DEF Family, Deleted
  <2>2. QED
    BY <1>1, <2>1, DeleteStepKeeps DEF RefreshReuse
<1>2. CASE DeleteSessions(c)
  <2> DEFINE rows == IF call[c].op = "logout" THEN Family(call[c].family)
                     ELSE {t \in Tokens : token[t].user = call[c].user}
  <2>1. rows \in SUBSET Tokens /\ "revoked" \in Deleted
    BY DEF Family, Deleted
  <2>2. Delete(rows, "revoked") /\ Finish(c) /\ account' = account /\ window' = window
    BY <1>2 DEF DeleteSessions
  <2>3. QED
    BY <2>1, <2>2, DeleteStepKeeps
<1>3. QED
  BY <1>1, <1>2

LEMMA ExpireKeeps ==
  ASSUME IInv, NEW t \in Tokens, Expire(t)
  PROVE  IInv'
<1>1. {t} \in SUBSET Tokens /\ "purged" \in Deleted
  BY DEF Deleted
<1>2. QED
  BY <1>1, DeleteStepKeeps DEF Expire

LEMMA UnbanKeeps ==
  ASSUME IInv, NEW u \in Users, Unban(u)
  PROVE  IInv'
<1>1. TypeOK'
  <2>1. account' \in [Users -> Standing]
    BY AccountChanges DEF Unban, IInv
  <2>2. QED
    BY <2>1 DEF Unban, IInv, TypeOK, Standing
<1>2. OnlyWinner(None)
  BY DEF OnlyWinner, Winning, Unban
<1>3. QED
  BY <1>1, <1>2, NothingKept, StepKeeps DEF Unban

LEMMA GraceElapsesKeeps ==
  ASSUME IInv, NEW t \in Tokens, GraceElapses(t)
  PROVE  IInv'
<1>1. TypeOK'
  BY DEF GraceElapses, IInv, TypeOK
<1>2. RowsKept /\ LateKept
  BY DEF GraceElapses, RowsKept, LateKept, Held
<1>3. OnlyWinner(None)
  BY DEF OnlyWinner, Winning, GraceElapses
<1>4. QED
  BY <1>1, <1>2, <1>3, StepKeeps DEF GraceElapses

LEMMA RestartKeeps ==
  ASSUME IInv, Restart
  PROVE  IInv'
<1>1. /\ call' \in [Calls -> CallRecord]
      /\ \A d \in Calls : call'[d] = IdleCall
  BY DEF Restart, IdleCall, CallRecord, Positions, Passwords
<1>2. token' = token /\ late' = late /\ window' = window /\ account' = account
  BY DEF Restart, Tables
<1>3. TypeOK'
  BY <1>1, <1>2 DEF IInv, TypeOK
<1>4. CallOK(IdleCall)'
  BY DEF CallOK, IdleCall
<1>5. OnlyWinner(None)
  BY <1>1 DEF OnlyWinner, Winning, IdleCall
<1>6. QED
  BY <1>1, <1>2, <1>3, <1>4, <1>5, NothingKept, StepKeeps

\* What issuing a token writes: one row, which was empty.
LEMMA CreateWrites ==
  ASSUME IInv, NEW c \in Calls, NEW t \in Tokens, CreateRefreshToken(c, t)
  PROVE  /\ token[t] = NoToken /\ call[c].op \in {"signIn", "refresh"}
         /\ call[c].user \in Users /\ call[c].password \in Passwords
         /\ token' \in [Tokens -> TokenRow]
         /\ token'[t].status = "live" /\ token'[t].user = call[c].user
         /\ token'[t].family = IF call[c].op = "signIn" THEN t ELSE call[c].family
         /\ token'[t].parent = call[c].token
         /\ token'[t].password = call[c].password
         /\ \A s \in Tokens : s # t => token'[s] = token[s]
         /\ late' = late /\ account' = account /\ window' = window
         /\ call' \in [Calls -> CallRecord] /\ call'[c] = IdleCall
         /\ \A d \in Calls : d # c => call'[d] = call[d]
<1>1. /\ call[c] \in CallRecord /\ CallOK(call[c])
      /\ call[c].op \in {"signIn", "refresh"}
  BY CallHolds DEF CreateRefreshToken
<1>2. token[t] = NoToken
  BY DEF CreateRefreshToken, IsNext, Unused, IInv, TokenInv, RowOK
<1>3. /\ call[c].user \in Users /\ call[c].password \in Passwords
      /\ call[c].token \in Tokens \cup {None}
      /\ call[c].op = "signIn" => call[c].family = None
      /\ call[c].op = "refresh" =>
            /\ call[c].token \in Tokens
            /\ token[call[c].token].status # "unused"
            /\ token[call[c].token].family = call[c].family
  BY <1>1 DEF CallOK, CallRecord
<1>4. call[c].op = "refresh" => call[c].family \in Tokens
  BY <1>3 DEF IInv, TokenInv, RowOK
<1> DEFINE f == IF call[c].op = "signIn" THEN t ELSE call[c].family
           row == [status |-> "live", user |-> call[c].user, family |-> f,
                   parent |-> call[c].token, password |-> call[c].password]
<1>5. token' = [token EXCEPT ![t] = row]
  BY <1>1, <1>3, <1>4 DEF CreateRefreshToken
<1>6. f \in Tokens
  BY <1>1, <1>4
<1>7. row \in TokenRow
  <2> HIDE DEF f
  <2>1. QED
    BY <1>3, <1>6 DEF TokenRow, TokenStatuses, Present
<1>8. /\ token' \in [Tokens -> TokenRow] /\ token'[t] = row
      /\ \A s \in Tokens : s # t => token'[s] = token[s]
  <2> HIDE DEF row
  <2>1. QED
    BY <1>5, <1>7 DEF IInv, TypeOK
<1>9. /\ call' \in [Calls -> CallRecord] /\ call'[c] = IdleCall
      /\ \A d \in Calls : d # c => call'[d] = call[d]
  BY FinishOnly DEF CreateRefreshToken, IInv
<1>10. late' = late /\ account' = account /\ window' = window
  BY DEF CreateRefreshToken
<1>11. QED
  BY <1>1, <1>2, <1>3, <1>8, <1>9, <1>10

LEMMA CreateKeeps ==
  ASSUME IInv, NEW c \in Calls, NEW t \in Tokens, CreateRefreshToken(c, t)
  PROVE  IInv'
<1> DEFINE p == call[c].token
<1>1. /\ token[t] = NoToken /\ call[c].op \in {"signIn", "refresh"}
      /\ call[c].user \in Users
      /\ token' \in [Tokens -> TokenRow]
      /\ token'[t].status = "live" /\ token'[t].user = call[c].user
      /\ token'[t].family = IF call[c].op = "signIn" THEN t ELSE call[c].family
      /\ token'[t].parent = p
      /\ \A s \in Tokens : s # t => token'[s] = token[s]
      /\ late' = late /\ account' = account /\ window' = window
      /\ call' \in [Calls -> CallRecord] /\ call'[c] = IdleCall
      /\ \A d \in Calls : d # c => call'[d] = call[d]
  BY ZenonT(60), CreateWrites
<1>2. CallOK(call[c]) /\ call[c].at = "insert"
  BY CallHolds DEF CreateRefreshToken, At
<1>3. /\ token[t].status = "unused" /\ token[t].user = None
      /\ token[t].parent = None /\ token[t].family = None
  BY <1>1 DEF NoToken
<1>4. /\ call[c].op = "signIn" => p = None
      /\ call[c].op = "refresh" =>
            /\ p \in Tokens /\ token[p].status # "unused" /\ p # t
            /\ token[p].user = call[c].user /\ token[p].family = call[c].family
            /\ call[c].family \in Tokens /\ call[c].family # t
            /\ token[call[c].family].status # "unused"
            /\ token[call[c].family].user = call[c].user
  BY <1>2, <1>3 DEF CallOK, IInv, TokenInv, RowOK
<1>5. TypeOK'
  BY <1>1 DEF IInv, TypeOK
<1>6. TokenInv'
  <2> SUFFICES ASSUME NEW s \in Tokens PROVE RowOK(s)'
    BY DEF TokenInv
  <2>1. CASE s = t
    BY <1>1, <1>3, <1>4, <2>1 DEF RowOK
  <2>2. CASE s # t
    <3>1. RowOK(s) /\ token'[s] = token[s] /\ token[s] \in TokenRow
      BY <1>1, <2>2 DEF IInv, TokenInv, TypeOK
    <3>2. /\ token[s].status # "unused" =>
                token[s].family \in Tokens /\ token[s].family # t
          /\ token[s].parent # None =>
                token[s].parent \in Tokens /\ token[s].parent # t
      BY <1>3, <3>1 DEF RowOK, TokenRow
    <3>3. QED
      BY ZenonT(60), <1>1, <3>1, <3>2 DEF RowOK
  <2>3. QED
    BY <2>1, <2>2
<1>7. CallInv'
  <2> SUFFICES ASSUME NEW d \in Calls PROVE CallOK(call[d])'
    BY DEF CallInv
  <2>1. CASE d = c
    BY <1>1, <2>1 DEF CallOK, IdleCall
  <2>2. CASE d # c
    <3>1. CallOK(call[d]) /\ call'[d] = call[d] /\ call[d] \in CallRecord
      BY <1>1, <2>2 DEF IInv, CallInv, TypeOK
    <3>2. call[d].op \in {"refresh", "logout"} =>
             call[d].token \in Tokens /\ token'[call[d].token] = token[call[d].token]
      BY <1>1, <1>3, <3>1 DEF CallOK
    <3>3. QED
      BY <1>1, <3>1, <3>2 DEF CallOK, Held
  <2>3. QED
    BY <2>1, <2>2
<1>8. WinnerInv'
  <2> SUFFICES ASSUME ~window, NEW s \in Tokens
               PROVE  /\ \A b, d \in Calls : Winning(b, s)' /\ Winning(d, s)' => b = d
                      /\ \A b \in Calls, q \in Tokens : Winning(b, s)' => token'[q].parent # s
                      /\ \A q, r \in Tokens :
                            token'[q].parent = s /\ token'[r].parent = s => q = r
                      /\ token'[s].status = "live" =>
                            /\ \A b \in Calls : ~Winning(b, s)'
                            /\ \A q \in Tokens : token'[q].parent # s
    BY <1>1 DEF WinnerInv
  <2>1. /\ \A b, d \in Calls : Winning(b, s) /\ Winning(d, s) => b = d
        /\ \A b \in Calls, q \in Tokens : Winning(b, s) => token[q].parent # s
        /\ \A q, r \in Tokens : token[q].parent = s /\ token[r].parent = s => q = r
        /\ token[s].status = "live" => /\ \A b \in Calls : ~Winning(b, s)
                                       /\ \A q \in Tokens : token[q].parent # s
    BY DEF IInv, WinnerInv
  <2>2. \A b \in Calls : Winning(b, s)' => b # c /\ Winning(b, s)
    BY <1>1 DEF Winning, IdleCall
  <2>3. p = s => Winning(c, s)
    BY <1>1, <1>2, <1>4, SessionsAssumption DEF Winning
  <2>4. \A q \in Tokens : token'[q].parent = s => \/ q = t /\ p = s
                                                  \/ q # t /\ token[q].parent = s
    BY <1>1
  <2>5. s = t => /\ \A b \in Calls : ~Winning(b, s)
                 /\ \A q \in Tokens : token[q].parent # s
                 /\ p # s
    <3>1. \A b \in Calls : ~Winning(b, t)
      BY <1>3 DEF IInv, CallInv, CallOK, Winning
    <3>2. \A q \in Tokens : token[q].parent # t
      BY <1>3, SessionsAssumption DEF IInv, TokenInv, RowOK
    <3>3. p # t
      BY <1>1, <1>4, SessionsAssumption
    <3>4. QED
      BY <3>1, <3>2, <3>3
  <2>6. s # t => token'[s] = token[s]
    BY <1>1
  <2>7. QED
    BY <2>1, <2>2, <2>3, <2>4, <2>5, <2>6
<1>9. QED
  BY <1>5, <1>6, <1>7, <1>8 DEF IInv

LEMMA NextInv ==
  ASSUME IInv, [Next]_vars
  PROVE  IInv'
<1>1. CASE UNCHANGED vars
  BY <1>1 DEF vars, IInv, TypeOK, TokenInv, RowOK, CallInv, CallOK, Held,
              WinnerInv, Winning
<1>2. ASSUME NEW c \in Calls, CallStarts(c) PROVE IInv'
  BY <1>2, SignInStarts, EndStarts, TokenStarts DEF CallStarts
<1>3. ASSUME NEW c \in Calls, CallSteps(c) PROVE IInv'
  BY <1>3, CheckBanKeeps, VerifyWriteKeeps, CreateKeeps, CreateFailsKeeps,
     RefreshClaimKeeps, RefreshGraceKeeps, DeletesKeep, ResetWriteKeeps,
     BanInsertKeeps DEF CallSteps
<1>4. QED
  BY <1>1, <1>2, <1>3, UnbanKeeps, GraceElapsesKeeps, ExpireKeeps, RestartKeeps
     DEF Next, Running

\* Every behaviour stays within the inductive invariant.
THEOREM SpecInv == Spec => []IInv
<1>1. Init => IInv
  BY InitInv
<1>2. IInv /\ [Next]_vars => IInv'
  BY NextInv
<1>3. QED
  BY <1>1, <1>2, PTL DEF Spec

\* The tables and the calls keep their types, whatever overlaps.
THEOREM TypeCorrect == Spec => []TypeOK
<1>1. IInv => TypeOK
  BY DEF IInv
<1>2. QED
  BY <1>1, SpecInv, PTL

LEMMA InvInOrder == IInv => RotationInOrder
<1> SUFFICES ASSUME IInv PROVE RotationInOrder
  OBVIOUS
<1>1. SingleSuccessor
  <2> SUFFICES ASSUME ~window, NEW s \in Tokens, NEW t \in Tokens,
                      token[s].parent = token[t].parent, token[s].parent # None
               PROVE  s = t
    BY DEF SingleSuccessor
  <2>1. token[s].parent \in Tokens
    BY DEF IInv, TypeOK, TokenRow
  <2>2. QED
    BY <2>1 DEF IInv, WinnerInv
<1>2. OneLineage
  BY DEF OneLineage, IInv, TokenInv, RowOK
<1>3. ReuseNeedsCause
  BY CallHolds DEF ReuseNeedsCause, CallOK, At
<1>4. QED
  BY <1>1, <1>2, <1>3 DEF RotationInOrder

\* However many handlers overlap, whatever crashes between two statements and
\* whichever setting the reuse window has: without a window a token has one
\* successor, a successor stays in its session, and a session is only ended as
\* replayed with a cause (refresh(), assertWithinReuseGrace()).
THEOREM RotationCorrect == Spec => []RotationInOrder
<1>1. QED
  BY InvInOrder, SpecInv, PTL

-----------------------------------------------------------------------------
(* What ends a session, when nothing overlaps it.                           *)

\* A handler of Alone has the process to itself.
AloneInv ==
    \A c, d \in Calls : call[c].op \in Alone /\ Busy(d) => c = d

\* What a sign-in or a refresh is about to write down still holds.
FreshOK(r) ==
    /\ r.op \in {"signIn", "refresh"} =>
          /\ r.password = account[r.user].password
          /\ r.at \in {"insert", "confirm"} => ~account[r.user].banned
    /\ r.op = "refresh" =>
          \A s \in Tokens : token[s].family = r.family => token[s].status # "revoked"

EndInv ==
    /\ IInv
    /\ AloneInv
    /\ \A c \in Calls : FreshOK(call[c])
    /\ EndedIsOver

LEMMA InitEndInv == Init => EndInv
<1> SUFFICES ASSUME Init PROVE EndInv
  OBVIOUS
<1>1. IInv
  BY InitInv
<1>2. AloneInv
  BY DEF Init, AloneInv, Busy, IdleCall
<1>3. \A c \in Calls : FreshOK(call[c])
  BY DEF Init, FreshOK, IdleCall
<1>4. EndedIsOver
  BY DEF Init, EndedIsOver, SignedOutIsOver, ResetEndsSessions, BanEndsSessions,
         Held, Present, NoToken
<1>5. QED
  BY <1>1, <1>2, <1>3, <1>4 DEF EndInv

EndsAlone == {"logout", "reset", "ban"} \subseteq Alone

\* An idle call is of no operation.
LEMMA IdleIsNone ==
  ASSUME IInv, NEW c \in Calls
  PROVE  /\ Busy(c) <=> call[c].op # "none"
         /\ call[c].op \in Ops \cup {"none"}
<1>1. CallOK(call[c]) /\ call[c] \in CallRecord
  BY CallHolds
<1>2. QED
  BY <1>1 DEF CallOK, CallRecord, Ops, Busy

LEMMA IdleIsNoneNext ==
  ASSUME IInv', NEW c \in Calls
  PROVE  Busy(c)' <=> call'[c].op # "none"
<1>1. CallOK(call[c])' /\ call'[c] \in CallRecord
  BY DEF IInv, TypeOK, CallInv
<1>2. QED
  BY <1>1 DEF CallOK, CallRecord, Ops, Busy

\* A handler that starts leaves everything as it was: nothing of Alone runs.
LEMMA StartEnds ==
  ASSUME EndInv, IInv', EndsAlone, NEW c \in Calls, NEW op \in Ops,
         NEW at \in Positions, NEW u \in Users \cup {None},
         NEW t \in Tokens \cup {None}, NEW f \in Tokens \cup {None},
         NEW p \in Passwords,
         Start(c, op, at, u, t, f, p),
         token' = token,
         \A v \in Users : /\ account'[v].password = account[v].password
                          /\ account'[v].banned = account[v].banned,
         FreshOK([op |-> op, at |-> at, user |-> u, token |-> t,
                  family |-> f, password |-> p])
  PROVE  EndInv'
<1> DEFINE r == [op |-> op, at |-> at, user |-> u, token |-> t,
                 family |-> f, password |-> p]
<1>1. /\ call'[c] = r
      /\ \A d \in Calls : d # c => call'[d] = call[d]
  BY StartOnly DEF EndInv, IInv
<1>2. /\ op \in Alone => \A d \in Calls : ~Busy(d)
      /\ \A d \in Calls : call[d].op \notin Alone
  BY DEF Start
<1>3. AloneInv'
  BY <1>1, <1>2 DEF AloneInv, Busy
<1>4. \A d \in Calls : FreshOK(call[d])'
  <2>1. ASSUME NEW d \in Calls PROVE FreshOK(call'[d])
    BY <1>1 DEF EndInv
  <2>2. ASSUME NEW d \in Calls PROVE CallOK(call[d])'
    BY DEF IInv, CallInv
  <2>3. \A d \in Calls : call'[d].op \in {"signIn", "refresh"} => call'[d].user \in Users
    BY <2>2 DEF CallOK
  <2>4. QED
    BY <2>1, <2>3 DEF FreshOK
<1>5. \A w \in Tokens : Held(w) => token[w].user \in Users
  BY DEF EndInv, IInv, TokenInv, RowOK, Held, Present
<1>6. EndedIsOver'
  <2>1. SignedOutIsOver'
    BY DEF EndInv, EndedIsOver, SignedOutIsOver, Held
  <2>2. ResetEndsSessions'
    BY <1>2, <1>5 DEF EndsAlone, EndInv, EndedIsOver, ResetEndsSessions, Held
  <2>3. BanEndsSessions'
    BY <1>2, <1>5 DEF EndsAlone, EndInv, EndedIsOver, BanEndsSessions, Held
  <2>4. QED
    BY <2>1, <2>2, <2>3 DEF EndedIsOver
<1>7. QED
  BY <1>3, <1>4, <1>6 DEF EndInv

\* So does a step that revokes nothing, changes no password, bans nobody and is
\* not the delete that a reset or a ban still owes.
LEMMA QuietEnds ==
  ASSUME EndInv, IInv', RowsKept,
         \A t \in Tokens : token'[t].status = "revoked" => token[t].status = "revoked",
         \A v \in Users : /\ account'[v].password = account[v].password
                          /\ account'[v].banned => account[v].banned,
         \A d \in Calls : \/ call'[d] = call[d]
                          \/ /\ call[d].at # "delete"
                             /\ call'[d].op \in {call[d].op, "none"}
                             /\ FreshOK(call'[d])
  PROVE  EndInv'
<1>1. AloneInv'
  <2>1. ASSUME NEW d \in Calls
        PROVE  /\ call'[d].op \in Alone => call[d].op \in Alone
               /\ Busy(d)' => Busy(d)
    <3>1. "none" \notin Alone /\ call'[d].op \in {call[d].op, "none"}
      BY DEF Ops
    <3>2. QED
      BY <3>1, IdleIsNone, IdleIsNoneNext DEF EndInv
  <2>2. QED
    BY <2>1 DEF EndInv, AloneInv
<1>2. \A d \in Calls : FreshOK(call[d])'
  <2>1. ASSUME NEW d \in Calls PROVE FreshOK(call'[d])
    BY DEF EndInv
  <2>2. ASSUME NEW d \in Calls PROVE CallOK(call[d])'
    BY DEF IInv, CallInv
  <2>3. \A d \in Calls : call'[d].op \in {"signIn", "refresh"} => call'[d].user \in Users
    BY <2>2 DEF CallOK
  <2>4. \A t \in Tokens : token'[t].family = token[t].family
    BY DEF RowsKept
  <2>5. QED
    BY <2>1, <2>3, <2>4 DEF FreshOK
<1>3. \A t \in Tokens : /\ Held(t)' => Held(t)
                        /\ token'[t].family = token[t].family
                        /\ token'[t].user = token[t].user
                        /\ token'[t].password = token[t].password
  BY DEF RowsKept
<1>4. \A w \in Tokens : Held(w) => token[w].user \in Users
  BY DEF EndInv, IInv, TokenInv, RowOK, Held, Present
<1>5. \A d \in Calls : At(d, "delete") => call'[d] = call[d]
  BY DEF At
<1>6. SignedOutIsOver'
  BY <1>3 DEF EndInv, EndedIsOver, SignedOutIsOver
<1>7. ResetEndsSessions'
  <2> SUFFICES ASSUME NEW t \in Tokens, Held(t)',
                      token'[t].password # account'[token'[t].user].password
               PROVE  \E d \in Calls : /\ call'[d].op = "reset" /\ At(d, "delete")'
                                       /\ call'[d].user = token'[t].user
    BY DEF ResetEndsSessions
  <2>1. PICK d \in Calls : /\ call[d].op = "reset" /\ At(d, "delete")
                           /\ call[d].user = token[t].user
    BY <1>3, <1>4 DEF EndInv, EndedIsOver, ResetEndsSessions
  <2>2. QED
    BY <1>3, <1>5, <2>1 DEF At
<1>8. BanEndsSessions'
  <2> SUFFICES ASSUME NEW t \in Tokens, Held(t)', account'[token'[t].user].banned
               PROVE  \E d \in Calls : /\ call'[d].op = "ban" /\ At(d, "delete")'
                                       /\ call'[d].user = token'[t].user
    BY DEF BanEndsSessions
  <2>1. PICK d \in Calls : /\ call[d].op = "ban" /\ At(d, "delete")
                           /\ call[d].user = token[t].user
    BY <1>3, <1>4 DEF EndInv, EndedIsOver, BanEndsSessions
  <2>2. QED
    BY <1>3, <1>5, <2>1 DEF At
<1>9. QED
  BY <1>1, <1>2, <1>6, <1>7, <1>8 DEF EndInv, EndedIsOver

\* While a handler of Alone runs, the others are idle.
LEMMA AloneHolds ==
  ASSUME EndInv, EndsAlone, NEW c \in Calls,
         call[c].op \in {"logout", "reset", "ban"}
  PROVE  \A d \in Calls : d # c => ~Busy(d) /\ call[d].op = "none"
<1>1. call[c].op \in Alone
  BY DEF EndsAlone
<1>2. \A d \in Calls : Busy(d) => c = d
  BY <1>1 DEF EndInv, AloneInv
<1>3. QED
  BY <1>2, IdleIsNone DEF EndInv

LEMMA OnlyAlone ==
  ASSUME EndInv, EndsAlone, IInv', NEW c \in Calls,
         call[c].op \in {"logout", "reset", "ban"},
         call'[c].op \in {"logout", "reset", "ban", "none"},
         \A d \in Calls : d # c => call'[d] = call[d]
  PROVE  /\ AloneInv'
         /\ \A d \in Calls : FreshOK(call[d])'
<1>1. \A d \in Calls : d # c => call'[d].op = "none" /\ ~Busy(d)'
  BY AloneHolds DEF Busy
<1>2. AloneInv'
  BY <1>1 DEF AloneInv, Ops
<1>3. QED
  BY <1>1, <1>2 DEF FreshOK

LEMMA StartsEnd ==
  ASSUME EndInv, IInv', EndsAlone, NEW c \in Calls, CallStarts(c)
  PROVE  EndInv'
<1>1. /\ "signIn" \in Ops /\ "refresh" \in Ops /\ "logout" \in Ops
      /\ "reset" \in Ops /\ "ban" \in Ops
      /\ "ban" \in Positions /\ "confirm" \in Positions /\ "claim" \in Positions
      /\ "delete" \in Positions /\ "write" \in Positions /\ "mark" \in Positions
      /\ 0 \in Passwords
  BY DEF Ops, Positions, Passwords
<1>2. \A u \in Users : account[u] \in Standing /\ account[u].password \in Passwords
  BY DEF EndInv, IInv, TypeOK, Standing
<1>3. ASSUME NEW u \in Users, LoginRead(c, u) \/ GoogleRead(c, u)
      PROVE  EndInv'
  <2>1. /\ Start(c, "signIn", "ban", u, None, None, account[u].password)
        /\ token' = token
        /\ \A v \in Users : /\ account'[v].password = account[v].password
                            /\ account'[v].banned = account[v].banned
    <3>1. CASE account' = account
      BY <1>3, <3>1 DEF LoginRead, GoogleRead, Tables
    <3>2. CASE account' = [account EXCEPT ![u].verified = TRUE]
      BY <1>2, <1>3, <3>2 DEF LoginRead, GoogleRead, Tables, Standing, EndInv, IInv, TypeOK
    <3>3. QED
      BY <1>3, <3>1, <3>2 DEF LoginRead, GoogleRead, Tables
  <2>2. FreshOK([op |-> "signIn", at |-> "ban", user |-> u, token |-> None,
                 family |-> None, password |-> account[u].password])
    BY DEF FreshOK
  <2>3. QED
    BY <1>1, <1>2, <2>1, <2>2, StartEnds
<1>4. ASSUME NEW u \in Users, VerifyStart(c, u)
      PROVE  EndInv'
  <2>1. /\ Start(c, "signIn", "confirm", u, None, None, account[u].password)
        /\ token' = token /\ account' = account /\ ~account[u].banned
    BY <1>4 DEF VerifyStart, Tables
  <2>2. FreshOK([op |-> "signIn", at |-> "confirm", user |-> u, token |-> None,
                 family |-> None, password |-> account[u].password])
    BY <2>1 DEF FreshOK
  <2>3. QED
    BY <1>1, <1>2, <2>1, <2>2, StartEnds
<1>5. ASSUME NEW u \in Users, ResetStart(c, u)
      PROVE  EndInv'
  <2>1. /\ Start(c, "reset", "write", u, None, None, 0)
        /\ token' = token /\ account' = account
    BY <1>5 DEF ResetStart, Tables
  <2>2. FreshOK([op |-> "reset", at |-> "write", user |-> u, token |-> None,
                 family |-> None, password |-> 0])
    BY DEF FreshOK
  <2>3. QED
    BY <1>1, <2>1, <2>2, StartEnds
<1>6. ASSUME NEW u \in Users, BanRead(c, u)
      PROVE  EndInv'
  <2>1. /\ Start(c, "ban", "mark", u, None, None, 0)
        /\ token' = token /\ account' = account
    BY <1>6 DEF BanRead, Tables
  <2>2. FreshOK([op |-> "ban", at |-> "mark", user |-> u, token |-> None,
                 family |-> None, password |-> 0])
    BY DEF FreshOK
  <2>3. QED
    BY <1>1, <2>1, <2>2, StartEnds
<1>7. ASSUME NEW t \in Tokens, Held(t)
      PROVE  /\ token[t].user \in Users /\ token[t].family \in Tokens
             /\ token[t].password \in Passwords
  BY <1>7 DEF EndInv, IInv, TypeOK, TokenInv, RowOK, TokenRow, Held, Present
\* A token that is presented is of the current password, and nothing of its
\* session was revoked.
<1>8. ASSUME NEW t \in Tokens, RefreshRead(c, t)
      PROVE  EndInv'
  <2>1. /\ Start(c, "refresh", "claim", token[t].user, t, token[t].family,
                 token[t].password)
        /\ token' = token /\ account' = account /\ Held(t)
    BY <1>8 DEF RefreshRead, Tables
  <2>2. token[t].password = account[token[t].user].password
    BY <2>1 DEF Start, EndsAlone, EndInv, EndedIsOver, ResetEndsSessions
  <2>3. \A s \in Tokens : token[s].family = token[t].family => token[s].status # "revoked"
    BY <2>1 DEF EndInv, EndedIsOver, SignedOutIsOver
  <2>4. FreshOK([op |-> "refresh", at |-> "claim", user |-> token[t].user,
                 token |-> t, family |-> token[t].family,
                 password |-> token[t].password])
    BY <2>2, <2>3 DEF FreshOK
  <2>5. QED
    BY <1>1, <1>7, <2>1, <2>4, StartEnds
<1>9. ASSUME NEW t \in Tokens, LogoutRead(c, t)
      PROVE  EndInv'
  <2>1. /\ Start(c, "logout", "delete", None, t, token[t].family, 0)
        /\ token' = token /\ account' = account /\ Held(t)
    BY <1>9 DEF LogoutRead, Tables
  <2>2. FreshOK([op |-> "logout", at |-> "delete", user |-> None, token |-> t,
                 family |-> token[t].family, password |-> 0])
    BY DEF FreshOK
  <2>3. QED
    BY <1>1, <1>7, <2>1, <2>2, StartEnds
<1>10. QED
  BY <1>3, <1>4, <1>5, <1>6, <1>8, <1>9 DEF CallStarts

LEMMA FreshIdle == FreshOK(IdleCall)
  BY DEF FreshOK, IdleCall

\* A handler that ends without having owed a delete.
LEMMA FinishEnds ==
  ASSUME EndInv, IInv', NEW c \in Calls, Finish(c), RowsKept,
         \A t \in Tokens : token'[t].status = "revoked" => token[t].status = "revoked",
         call[c].at # "delete", account' = account
  PROVE  EndInv'
<1>1. /\ call'[c] = IdleCall
      /\ \A d \in Calls : d # c => call'[d] = call[d]
  BY FinishOnly DEF EndInv, IInv
<1>2. IdleCall.op = "none"
  BY DEF IdleCall
<1>3. QED
  BY <1>1, <1>2, FreshIdle, QuietEnds

\* One that goes on, and what it is about to write down still holds.
LEMMA GotoEnds ==
  ASSUME EndInv, IInv', NEW c \in Calls, NEW at \in Positions, Goto(c, at),
         RowsKept,
         \A t \in Tokens : token'[t].status = "revoked" => token[t].status = "revoked",
         call[c].at # "delete",
         at \in {"insert", "confirm"} /\ call[c].op \in {"signIn", "refresh"}
            => ~account[call[c].user].banned,
         \A v \in Users : /\ account'[v].password = account[v].password
                          /\ account'[v].banned => account[v].banned
  PROVE  EndInv'
<1>1. /\ call'[c].op = call[c].op /\ call'[c].at = at
      /\ call'[c].user = call[c].user /\ call'[c].family = call[c].family
      /\ call'[c].password = call[c].password
      /\ \A d \in Calls : d # c => call'[d] = call[d]
  BY GotoOnly DEF EndInv, IInv
<1>2. FreshOK(call'[c])
  BY <1>1 DEF EndInv, FreshOK
<1>3. QED
  BY <1>1, <1>2, QuietEnds

LEMMA MovesEnd ==
  ASSUME EndInv, IInv', NEW c \in Calls,
         \/ CheckBan(c) \/ VerifyWrite(c) \/ CreateFails(c) \/ RefreshGrace(c)
         \/ RefreshReuse(c) \/ RefreshClaim(c)
  PROVE  EndInv'
<1>1. IInv /\ TypeOK
  BY DEF EndInv, IInv
<1>2. /\ "insert" \in Positions /\ "ban" \in Positions /\ "reuse" \in Positions
      /\ "grace" \in Positions
  BY DEF Positions
<1>3. CASE CheckBan(c)
  <2>1. token' = token /\ late' = late /\ account' = account /\ call[c].at = "ban"
    BY <1>3 DEF CheckBan, Tables, At
  <2>2. \/ account[call[c].user].banned /\ Finish(c)
        \/ ~account[call[c].user].banned /\ Goto(c, "insert")
    BY <1>3 DEF CheckBan
  <2>3. QED
    BY <1>2, <2>1, <2>2, NothingKept, FinishEnds, GotoEnds
<1>4. CASE VerifyWrite(c)
  <2>1. /\ call[c].op = "signIn" /\ call[c].at = "confirm"
        /\ call[c].user \in Users /\ ~account[call[c].user].banned
    BY <1>1, <1>4, CallHolds DEF VerifyWrite, At, CallOK, EndInv, FreshOK
  <2>2. /\ token' = token /\ late' = late /\ Goto(c, "insert")
        /\ account' = [account EXCEPT ![call[c].user].verified = TRUE]
    BY <1>4 DEF VerifyWrite
  <2>3. account \in [Users -> Standing]
    BY <1>1 DEF TypeOK, Standing
  <2>4. \A v \in Users : /\ account'[v].password = account[v].password
                         /\ account'[v].banned = account[v].banned
    BY <2>1, <2>2, <2>3 DEF Standing
  <2>5. QED
    BY <1>2, <2>1, <2>2, <2>4, NothingKept, GotoEnds
<1>5. CASE CreateFails(c)
  BY <1>5, NothingKept, FinishEnds DEF CreateFails, Tables, At
<1>6. CASE RefreshGrace(c)
  <2>1. /\ token' = token /\ late' = late /\ account' = account
        /\ call[c].at = "grace"
    BY <1>6 DEF RefreshGrace, Tables, At
  <2>2. Goto(c, "ban") \/ Goto(c, "reuse")
    <3>1. CASE WithinGrace(call[c].token)
      BY <1>6, <3>1 DEF RefreshGrace
    <3>2. CASE ~WithinGrace(call[c].token)
      BY <1>6, <3>2 DEF RefreshGrace
    <3>3. QED
      BY <3>1, <3>2
  <2>3. QED
    BY <1>2, <2>1, <2>2, NothingKept, GotoEnds
<1>7. CASE RefreshReuse(c)
  <2> DEFINE rows == Family(call[c].family)
  <2>1. rows \in SUBSET Tokens /\ "reused" \in Deleted
    BY DEF Family, Deleted
  <2>2. /\ Delete(rows, "reused") /\ Finish(c)
        /\ account' = account /\ call[c].at = "reuse"
    BY <1>7 DEF RefreshReuse, At
  <2>3. /\ RowsKept
        /\ \A t \in Tokens : token'[t].status # token[t].status =>
              token'[t].status = "reused"
    <3> HIDE DEF rows
    <3>1. QED
      BY <1>1, <2>1, <2>2, DeleteKeeps
  <2>4. /\ \A t \in Tokens : token'[t].status = "revoked" => token[t].status = "revoked"
        /\ call[c].at # "delete"
    BY <2>2, <2>3
  <2>5. QED
    BY <2>2, <2>3, <2>4, FinishEnds
<1>8. CASE RefreshClaim(c)
  <2> DEFINE t == call[c].token
  <2>1. /\ call[c].op = "refresh" /\ t \in Tokens /\ call[c].at = "claim"
    BY <1>1, <1>8, CallHolds DEF RefreshClaim, At, CallOK
  <2>2. /\ Goto(c, "ban") \/ Goto(c, "grace")
        /\ account' = account
        /\ \/ token' = token
           \/ /\ token[t].status = "live"
              /\ token' = [token EXCEPT ![t].status = "consumed"]
    BY <1>8 DEF RefreshClaim
  <2>3. token \in [Tokens -> TokenRow]
    BY <1>1 DEF TypeOK
  <2>4. /\ RowsKept
        /\ \A s \in Tokens : token'[s].status = "revoked" => token[s].status = "revoked"
    <3>1. CASE token' = token
      BY <3>1 DEF RowsKept, Held
    <3>2. CASE /\ token[t].status = "live"
               /\ token' = [token EXCEPT ![t].status = "consumed"]
      <4>1. /\ token'[t].user = token[t].user /\ token'[t].family = token[t].family
            /\ token'[t].parent = token[t].parent
            /\ token'[t].password = token[t].password
            /\ token'[t].status = "consumed"
            /\ \A s \in Tokens : s # t => token'[s] = token[s]
        BY <2>1, <2>3, <3>2 DEF TokenRow
      <4>2. QED
        BY <3>2, <4>1 DEF RowsKept, Held, Present
    <3>3. QED
      BY <2>2, <3>1, <3>2
  <2>5. QED
    BY <1>2, <2>1, <2>2, <2>4, GotoEnds
<1>9. QED
  BY <1>3, <1>4, <1>5, <1>6, <1>7, <1>8

LEMMA TimeEnds ==
  ASSUME EndInv, IInv',
         \/ \E u \in Users : Unban(u)
         \/ \E t \in Tokens : GraceElapses(t) \/ Expire(t)
  PROVE  EndInv'
<1>1. account \in [Users -> Standing]
  BY DEF EndInv, IInv, TypeOK, Standing
<1>2. ASSUME NEW u \in Users, Unban(u) PROVE EndInv'
  <2>1. \A v \in Users : /\ account'[v].password = account[v].password
                         /\ account'[v].banned => account[v].banned
    BY <1>1, <1>2 DEF Unban, Standing
  <2>2. token' = token /\ late' = late /\ call' = call
    BY <1>2 DEF Unban
  <2>3. QED
    BY <2>1, <2>2, NothingKept, QuietEnds
<1>3. ASSUME NEW t \in Tokens, GraceElapses(t) PROVE EndInv'
  <2>1. token' = token /\ account' = account /\ call' = call
    BY <1>3 DEF GraceElapses
  <2>2. RowsKept
    BY <2>1 DEF RowsKept, Held
  <2>3. QED
    BY <2>1, <2>2, QuietEnds
<1>4. ASSUME NEW t \in Tokens, Expire(t) PROVE EndInv'
  <2>1. {t} \in SUBSET Tokens /\ "purged" \in Deleted
    BY DEF Deleted
  <2>2. Delete({t}, "purged") /\ account' = account /\ call' = call
    BY <1>4 DEF Expire
  <2>3. /\ RowsKept
        /\ \A s \in Tokens : token'[s].status # token[s].status =>
              token'[s].status = "purged"
    BY <2>1, <2>2, DeleteKeeps DEF EndInv, IInv
  <2>4. QED
    BY <2>2, <2>3, QuietEnds
<1>5. QED
  BY <1>2, <1>3, <1>4

\* The new password and the sessions of the old one: the reset that wrote it has
\* yet to delete them, and nothing else runs.
LEMMA ResetWriteEnds ==
  ASSUME EndInv, IInv', EndsAlone, NEW c \in Calls, ResetWrite(c)
  PROVE  EndInv'
<1> DEFINE u == call[c].user
<1>1. call[c].op = "reset" /\ u \in Users /\ call[c].at = "write"
  BY CallHolds DEF ResetWrite, CallOK, At, EndInv
<1>2. /\ call'[c].op = "reset" /\ call'[c].at = "delete" /\ call'[c].user = u
      /\ \A d \in Calls : d # c => call'[d] = call[d]
  BY <1>1, GotoOnly DEF ResetWrite, EndInv, IInv, Positions
<1>3. \A d \in Calls : d # c => ~Busy(d) /\ call[d].op = "none"
  BY <1>1, AloneHolds
<1>4. AloneInv' /\ \A d \in Calls : FreshOK(call[d])'
  BY <1>1, <1>2, OnlyAlone
<1>5. account \in [Users -> Standing] /\ token' = token
  BY DEF EndInv, IInv, TypeOK, Standing, ResetWrite
<1>6. /\ \A v \in Users : v # u => account'[v] = account[v]
      /\ \A v \in Users : account'[v].banned = account[v].banned
  BY <1>1, <1>5 DEF ResetWrite, Standing
<1>7. \A t \in Tokens : Held(t) => token[t].user \in Users
  BY DEF EndInv, IInv, TokenInv, RowOK, Held, Present
<1>8. SignedOutIsOver'
  BY <1>5 DEF EndInv, EndedIsOver, SignedOutIsOver, Held
<1>9. ResetEndsSessions'
  <2> SUFFICES ASSUME NEW t \in Tokens, Held(t),
                      token[t].password # account'[token[t].user].password
               PROVE  token[t].user = u
    BY <1>2, <1>5 DEF ResetEndsSessions, Held, At
  <2>1. \A d \in Calls : ~(call[d].op = "reset" /\ At(d, "delete"))
    BY <1>1, <1>3 DEF At
  <2>2. token[t].password = account[token[t].user].password
    BY <2>1 DEF EndInv, EndedIsOver, ResetEndsSessions
  <2>3. QED
    BY <1>6, <1>7, <2>2
<1>10. BanEndsSessions'
  <2> SUFFICES ASSUME NEW t \in Tokens, Held(t), account'[token[t].user].banned
               PROVE  FALSE
    BY <1>5 DEF BanEndsSessions, Held
  <2>1. account[token[t].user].banned
    BY <1>6, <1>7
  <2>2. \E d \in Calls : call[d].op = "ban" /\ At(d, "delete")
    BY <2>1 DEF EndInv, EndedIsOver, BanEndsSessions
  <2>3. QED
    BY <1>1, <1>3, <2>2
<1>11. QED
  BY <1>4, <1>8, <1>9, <1>10 DEF EndInv, EndedIsOver

\* Likewise the ban and the sessions of the account.
LEMMA BanInsertEnds ==
  ASSUME EndInv, IInv', EndsAlone, NEW c \in Calls, BanInsert(c)
  PROVE  EndInv'
<1> DEFINE u == call[c].user
<1>1. call[c].op = "ban" /\ u \in Users /\ call[c].at = "mark"
  BY CallHolds DEF BanInsert, CallOK, At, EndInv
<1>2. token' = token /\ late' = late /\ window' = window
  BY DEF BanInsert
<1>3. CASE account' = account /\ Finish(c)
  BY <1>1, <1>2, <1>3, NothingKept, FinishEnds
<1>4. CASE account' = [account EXCEPT ![u].banned = TRUE] /\ Goto(c, "delete")
  <2>1. /\ call'[c].op = "ban" /\ call'[c].at = "delete" /\ call'[c].user = u
        /\ \A d \in Calls : d # c => call'[d] = call[d]
    BY <1>1, <1>4, GotoOnly DEF EndInv, IInv, Positions
  <2>2. \A d \in Calls : d # c => ~Busy(d) /\ call[d].op = "none"
    BY <1>1, AloneHolds
  <2>3. AloneInv' /\ \A d \in Calls : FreshOK(call[d])'
    BY <1>1, <2>1, OnlyAlone
  <2>4. account \in [Users -> Standing]
    BY DEF EndInv, IInv, TypeOK, Standing
  <2>5. /\ \A v \in Users : v # u => account'[v] = account[v]
        /\ \A v \in Users : account'[v].password = account[v].password
    BY <1>1, <1>4, <2>4 DEF Standing
  <2>6. \A t \in Tokens : Held(t) => token[t].user \in Users
    BY DEF EndInv, IInv, TokenInv, RowOK, Held, Present
  <2>7. SignedOutIsOver'
    BY <1>2 DEF EndInv, EndedIsOver, SignedOutIsOver, Held
  <2>8. ResetEndsSessions'
    <3> SUFFICES ASSUME NEW t \in Tokens, Held(t)
                 PROVE  token[t].password = account'[token[t].user].password
      BY <1>2 DEF ResetEndsSessions, Held
    <3>1. \A d \in Calls : ~(call[d].op = "reset" /\ At(d, "delete"))
      BY <1>1, <2>2 DEF At
    <3>2. token[t].password = account[token[t].user].password
      BY <3>1 DEF EndInv, EndedIsOver, ResetEndsSessions
    <3>3. QED
      BY <2>5, <2>6, <3>2
  <2>9. BanEndsSessions'
    <3> SUFFICES ASSUME NEW t \in Tokens, Held(t), account'[token[t].user].banned
                 PROVE  token[t].user = u
      BY <1>2, <2>1 DEF BanEndsSessions, Held, At
    <3>1. \A d \in Calls : ~(call[d].op = "ban" /\ At(d, "delete"))
      BY <1>1, <2>2 DEF At
    <3>2. ~account[token[t].user].banned
      BY <3>1 DEF EndInv, EndedIsOver, BanEndsSessions
    <3>3. QED
      BY <2>5, <2>6, <3>2
  <2>10. QED
    BY <2>3, <2>7, <2>8, <2>9 DEF EndInv, EndedIsOver
<1>5. QED
  BY <1>3, <1>4 DEF BanInsert

\* What is deleted is all there is of the session, or of the account: every token
\* of a family is of one user.
LEMMA DeleteSessionsEnds ==
  ASSUME EndInv, IInv', EndsAlone, NEW c \in Calls, DeleteSessions(c)
  PROVE  EndInv'
<1> DEFINE r == call[c]
           rows == IF r.op = "logout" THEN Family(r.family)
                   ELSE {t \in Tokens : token[t].user = r.user}
<1>1. r.op \in {"logout", "reset", "ban"}
  BY CallHolds DEF DeleteSessions, EndInv
<1>2. /\ rows \in SUBSET Tokens /\ Delete(rows, "revoked") /\ Finish(c)
      /\ account' = account
  BY DEF DeleteSessions, Family
<1>3. /\ RowsKept
      /\ \A t \in rows : ~Held(t)'
      /\ \A t \in Tokens : token'[t].status # token[t].status =>
            token'[t].status = "revoked" /\ t \in rows
  BY <1>2, DeleteKeeps DEF EndInv, IInv, Deleted
<1>4. /\ call'[c] = IdleCall
      /\ \A d \in Calls : d # c => call'[d] = call[d]
  BY <1>2, FinishOnly DEF EndInv, IInv
<1>5. \A d \in Calls : d # c => ~Busy(d) /\ call[d].op = "none"
  BY <1>1, AloneHolds
<1>6. AloneInv' /\ \A d \in Calls : FreshOK(call[d])'
  BY <1>1, <1>4, OnlyAlone DEF IdleCall
<1>7. \A t \in Tokens : /\ Held(t)' => Held(t) /\ t \notin rows
                        /\ token'[t].user = token[t].user
                        /\ token'[t].family = token[t].family
                        /\ token'[t].password = token[t].password
  BY <1>3 DEF RowsKept
<1>8. SignedOutIsOver'
  <2> SUFFICES ASSUME NEW s \in Tokens, NEW t \in Tokens,
                      token'[s].status = "revoked", token[t].family = token[s].family,
                      Held(t)'
               PROVE  FALSE
    BY <1>7 DEF SignedOutIsOver
  <2>1. CASE token[s].status = "revoked"
    BY <1>7, <2>1 DEF EndInv, EndedIsOver, SignedOutIsOver
  <2>2. CASE token[s].status # "revoked"
    <3>1. s \in rows /\ Held(t) /\ t \notin rows
      BY <1>3, <1>7, <2>2
    <3>2. CASE r.op = "logout"
      BY <3>1, <3>2 DEF Family
    <3>3. CASE r.op # "logout"
      <4>1. token[s].user = r.user /\ token[t].user # r.user
        BY <3>1, <3>3
      <4>2. r.user \in Users
        BY <1>1, <3>3, CallHolds DEF EndInv, CallOK
      <4>3. token[s].status # "unused" /\ token[t].status # "unused"
        BY <3>1, <4>1, <4>2, SessionsAssumption
           DEF EndInv, IInv, TokenInv, RowOK, NoToken, Held, Present
      <4>4. QED
        BY <4>1, <4>3 DEF EndInv, IInv, TokenInv, RowOK
    <3>4. QED
      BY <3>2, <3>3
  <2>3. QED
    BY <2>1, <2>2
<1>9. ResetEndsSessions'
  <2> SUFFICES ASSUME NEW t \in Tokens, Held(t)'
               PROVE  token[t].password = account[token[t].user].password
    BY <1>2, <1>7 DEF ResetEndsSessions
  <2>1. Held(t) /\ t \notin rows
    BY <1>7
  <2>2. \A d \in Calls : call[d].op = "reset" /\ At(d, "delete")
                            => call[d].user # token[t].user
    BY <1>5, <2>1
  <2>3. QED
    BY <2>1, <2>2 DEF EndInv, EndedIsOver, ResetEndsSessions
<1>10. BanEndsSessions'
  <2> SUFFICES ASSUME NEW t \in Tokens, Held(t)'
               PROVE  ~account[token[t].user].banned
    BY <1>2, <1>7 DEF BanEndsSessions
  <2>1. Held(t) /\ t \notin rows
    BY <1>7
  <2>2. \A d \in Calls : call[d].op = "ban" /\ At(d, "delete")
                            => call[d].user # token[t].user
    BY <1>5, <2>1
  <2>3. QED
    BY <2>1, <2>2 DEF EndInv, EndedIsOver, BanEndsSessions
<1>11. QED
  BY <1>6, <1>8, <1>9, <1>10 DEF EndInv, EndedIsOver

\* A token that is issued is of the current password, of an account that is not
\* banned, and of a session of which nothing was revoked.
LEMMA CreateEnds ==
  ASSUME EndInv, IInv', EndsAlone, NEW c \in Calls, NEW t \in Tokens,
         CreateRefreshToken(c, t)
  PROVE  EndInv'
<1> DEFINE r == call[c]
<1>1. /\ token[t] = NoToken /\ r.op \in {"signIn", "refresh"}
      /\ r.user \in Users
      /\ token'[t].status = "live" /\ token'[t].user = r.user
      /\ token'[t].family = IF r.op = "signIn" THEN t ELSE r.family
      /\ token'[t].password = r.password
      /\ \A s \in Tokens : s # t => token'[s] = token[s]
      /\ account' = account
      /\ call'[c] = IdleCall
      /\ \A d \in Calls : d # c => call'[d] = call[d]
  BY ZenonT(60), CreateWrites DEF EndInv
<1>2. /\ r.password = account[r.user].password
      /\ ~account[r.user].banned
      /\ r.op = "refresh" =>
            \A s \in Tokens : token[s].family = r.family => token[s].status # "revoked"
  BY <1>1 DEF EndInv, FreshOK, CreateRefreshToken, At
<1>3. IdleCall.op = "none" /\ IdleCall.at = "idle"
  BY DEF IdleCall
<1>4. AloneInv'
  BY <1>1, <1>3 DEF EndInv, AloneInv, Busy, Ops
<1>5. \A d \in Calls : FreshOK(call[d])'
  <2> SUFFICES ASSUME NEW d \in Calls, d # c PROVE FreshOK(call[d])'
    BY <1>1, <1>3 DEF FreshOK
  <2>1. FreshOK(call[d]) /\ call'[d] = call[d]
    BY <1>1 DEF EndInv
  <2>2. \A s \in Tokens : token'[s].status = "revoked" =>
           token[s].status = "revoked" /\ token'[s].family = token[s].family
    BY <1>1
  <2>3. QED
    BY <1>1, <2>1, <2>2 DEF FreshOK
<1>6. \A s \in Tokens : Held(s) => s # t
  BY <1>1 DEF Held, Present, NoToken
<1>7. \A s \in Tokens : Held(s)' => s = t \/ (Held(s) /\ token'[s] = token[s])
  BY <1>1 DEF Held
<1>8. SignedOutIsOver'
  <2> SUFFICES ASSUME NEW s \in Tokens, NEW q \in Tokens,
                      token'[s].status = "revoked",
                      token'[q].family = token'[s].family, Held(q)'
               PROVE  FALSE
    BY DEF SignedOutIsOver
  <2>1. s # t /\ token'[s] = token[s] /\ token[s].status = "revoked"
    BY <1>1
  <2>2. CASE q # t
    BY <1>7, <2>1, <2>2 DEF EndInv, EndedIsOver, SignedOutIsOver
  <2>3. CASE q = t
    <3>1. token[s].family \in Tokens /\ token[s].family # t
      BY <1>1, <2>1 DEF EndInv, IInv, TokenInv, RowOK, NoToken
    <3>2. QED
      BY <1>1, <1>2, <2>1, <2>3, <3>1
  <2>4. QED
    BY <2>2, <2>3
<1>9. \A d \in Calls : At(d, "delete") => d # c
  BY DEF CreateRefreshToken, At
<1>10. ResetEndsSessions'
  <2> SUFFICES ASSUME NEW s \in Tokens, Held(s)'
               PROVE  \/ token'[s].password = account'[token'[s].user].password
                      \/ \E d \in Calls : /\ call'[d].op = "reset" /\ At(d, "delete")'
                                          /\ call'[d].user = token'[s].user
    BY DEF ResetEndsSessions
  <2>1. CASE s = t
    BY <1>1, <1>2, <2>1
  <2>2. CASE Held(s) /\ token'[s] = token[s]
    <3>1. \/ token[s].password = account[token[s].user].password
          \/ \E d \in Calls : /\ call[d].op = "reset" /\ At(d, "delete")
                              /\ call[d].user = token[s].user
      BY <2>2 DEF EndInv, EndedIsOver, ResetEndsSessions
    <3>2. \A d \in Calls : At(d, "delete") => call'[d] = call[d] /\ At(d, "delete")'
      BY <1>1, <1>9 DEF At
    <3>3. QED
      BY <1>1, <2>2, <3>1, <3>2
  <2>3. QED
    BY <1>7, <2>1, <2>2
<1>11. BanEndsSessions'
  <2> SUFFICES ASSUME NEW s \in Tokens, Held(s)', account'[token'[s].user].banned
               PROVE  \E d \in Calls : /\ call'[d].op = "ban" /\ At(d, "delete")'
                                       /\ call'[d].user = token'[s].user
    BY DEF BanEndsSessions
  <2>1. CASE s = t
    BY <1>1, <1>2, <2>1
  <2>2. CASE Held(s) /\ token'[s] = token[s]
    <3>1. \E d \in Calls : /\ call[d].op = "ban" /\ At(d, "delete")
                           /\ call[d].user = token[s].user
      BY <1>1, <2>2 DEF EndInv, EndedIsOver, BanEndsSessions
    <3>2. \A d \in Calls : At(d, "delete") => call'[d] = call[d] /\ At(d, "delete")'
      BY <1>1, <1>9 DEF At
    <3>3. QED
      BY <2>2, <3>1, <3>2
  <2>3. QED
    BY <1>7, <2>1, <2>2
<1>12. QED
  BY <1>4, <1>5, <1>8, <1>10, <1>11 DEF EndInv, EndedIsOver

LEMMA RunningEnds ==
  ASSUME EndInv, EndsAlone, [Running]_vars
  PROVE  EndInv'
<1>1. IInv'
  BY NextInv DEF EndInv, Next
<1>2. CASE UNCHANGED vars
  BY ZenonT(60), <1>1, <1>2 DEF vars, EndInv, AloneInv, Busy, FreshOK, EndedIsOver,
     SignedOutIsOver, ResetEndsSessions, BanEndsSessions, Held, At
<1>3. ASSUME NEW c \in Calls, CallSteps(c) PROVE EndInv'
  BY <1>1, <1>3, MovesEnd, ResetWriteEnds, BanInsertEnds, DeleteSessionsEnds,
     CreateEnds DEF CallSteps
<1>4. QED
  BY <1>1, <1>2, <1>3, StartsEnd, TimeEnds DEF Running

\* Where logouts, resets and bans do not overlap another request and the process
\* stays up, each of the three leaves none of what it ends, for good: the two
\* provisos are what the runs Sessions... show to be needed (logout(),
\* resetPassword(), banUser()).
THEOREM EndedForGood == EndsAlone => (RunningSpec => []EndedIsOver)
<1> SUFFICES ASSUME EndsAlone PROVE RunningSpec => []EndedIsOver
  OBVIOUS
<1>1. Init => EndInv
  BY InitEndInv
<1>2. EndInv /\ [Running]_vars => EndInv'
  BY RunningEnds
<1>3. EndInv => EndedIsOver
  BY DEF EndInv
<1>4. QED
  BY <1>1, <1>2, <1>3, PTL DEF RunningSpec
=============================================================================
