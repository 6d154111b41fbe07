------------------------- MODULE TelegramLink_proofs -------------------------
(***************************************************************************)
(* Proofs about TelegramLink for every number of users, chats, tokens and   *)
(* handlers in flight, and any number of failures.                          *)
(***************************************************************************)
EXTENDS TelegramLink, TLAPS

USE TelegramAssumption

-----------------------------------------------------------------------------
(* The inductive invariant.  A handler acts on what it was told a step ago: *)
(* what has to be known of each position is what still holds of it.         *)

\* What a handler holds, by the position it is in.
CallOK(r) ==
    /\ r.op \in {"connect", "unlink", "notify"} => r.user \in Users
    /\ r.op = "start" =>
          /\ r.token \in Tokens /\ r.chat \in Chats
          /\ token[r.token].user # None
    /\ r.op = "start" /\ r.at = "link" =>
          /\ r.user \in Users
          /\ ~token[r.token].live /\ links[r.token] = 0
    /\ r.op = "notify" /\ r.at \in {"send", "getChat", "forget"} =>
          r.chat \in Chats
    /\ r.op = "notify" /\ r.at = "getChat" =>
          r.chat \in blocks \/ faults >= 1
    /\ r.op = "notify" /\ r.at = "forget" =>
          r.chat \in blocks \/ faults >= 2

CallInv == \A c \in Calls : CallOK(call[c])

\* A token that can still be spent, or was not issued, has linked nothing.
TokenInv ==
    \A t \in Tokens :
       /\ links[t] <= 1
       /\ token[t].live \/ token[t].user = None => links[t] = 0

\* Spending a token makes one handler its holder.
Linking(c, t) == At(c, "start", "link") /\ call[c].token = t
HolderInv ==
    \A t \in Tokens : \A c, d \in Calls : Linking(c, t) /\ Linking(d, t) => c = d

IInv == TypeOK /\ CallInv /\ TokenInv /\ HolderInv

-----------------------------------------------------------------------------
(* What moving, starting and ending a call change.                          *)

LEMMA GotoOnly ==
  ASSUME TypeOK, NEW c \in Calls,
         NEW at \in {"spend", "store", "link", "read", "clear", "send",
                     "getChat", "forget"},
         Goto(c, at)
  PROVE  /\ call' \in [Calls -> CallRecord]
         /\ call'[c].op = call[c].op /\ call'[c].at = at
         /\ call'[c].user = call[c].user /\ call'[c].token = call[c].token
         /\ call'[c].chat = call[c].chat
         /\ \A d \in Calls : d # c => call'[d] = call[d]
<1>1. call[c] \in CallRecord
  BY DEF TypeOK
<1>2. call' = [call EXCEPT ![c] = [call[c] EXCEPT !.at = at]]
  BY DEF Goto
<1>3. [call[c] EXCEPT !.at = at] \in CallRecord
  BY <1>1 DEF CallRecord
<1>4. QED
  BY <1>1, <1>2, <1>3 DEF TypeOK, CallRecord

LEMMA FinishOnly ==
  ASSUME TypeOK, NEW c \in Calls, Finish(c)
  PROVE  /\ call' \in [Calls -> CallRecord]
         /\ call'[c] = IdleCall
         /\ \A d \in Calls : d # c => call'[d] = call[d]
  BY DEF TypeOK, Finish, IdleCall, CallRecord, Maybe

\* A step that moves one call and takes nothing from what the others rely on.
LEMMA OthersKeep ==
  ASSUME IInv, NEW c \in Calls,
         \A d \in Calls : d # c => call'[d] = call[d],
         \A t \in Tokens : /\ token[t].user # None => token'[t].user # None
                           /\ \/ token'[t].live => token[t].live
                              \/ token[t].user = None,
         \A t \in Tokens : links'[t] = links[t] \/ Linking(c, t),
         blocks \subseteq blocks', faults' >= faults, faults' \in Nat
  PROVE  \A d \in Calls : d # c => CallOK(call[d])'
<1> SUFFICES ASSUME NEW d \in Calls, d # c PROVE CallOK(call[d])'
  OBVIOUS
<1>1. CallOK(call[d]) /\ call'[d] = call[d]
  BY DEF IInv, CallInv
<1>2. ASSUME call[d].op = "start", call[d].at = "link"
      PROVE  links'[call[d].token] = links[call[d].token]
  BY <1>1, <1>2 DEF IInv, HolderInv, Linking, At, CallOK
<1>3. faults \in Nat
  BY DEF IInv, TypeOK
<1>4. QED
  BY <1>1, <1>2, <1>3 DEF CallOK

-----------------------------------------------------------------------------
(* Every step keeps the invariant.                                          *)

LEMMA InitInv == Init => IInv
<1> SUFFICES ASSUME Init PROVE IInv
  OBVIOUS
<1>1. TypeOK
  BY DEF Init, TypeOK, NoToken, IdleCall, CallRecord, Maybe
<1>2. CallInv
  BY DEF Init, CallInv, CallOK, IdleCall
<1>3. TokenInv /\ HolderInv
  BY DEF Init, TokenInv, HolderInv, Linking, At, NoToken, IdleCall
<1>4. QED
  BY <1>1, <1>2, <1>3 DEF IInv

\* Nothing but calls changes, and none comes to hold a token.
LEMMA CallsOnly ==
  ASSUME IInv, UNCHANGED <<chat, token, world, history>>,
         call' \in [Calls -> CallRecord],
         faults' \in 0 .. MaxFaults,
         \A c \in Calls : CallOK(call[c])',
         \A c \in Calls : \/ call'[c] = call[c]
                          \/ call'[c].op # "start" \/ call'[c].at # "link"
  PROVE  IInv'
<1>1. TypeOK'
  BY DEF IInv, TypeOK, world, history
<1>2. CallInv'
  BY DEF CallInv
<1>3. TokenInv'
  BY DEF IInv, TokenInv, history
<1>4. HolderInv'
  BY DEF IInv, HolderInv, Linking, At
<1>5. QED
  BY <1>1, <1>2, <1>3, <1>4 DEF IInv

LEMMA ArrivalInv ==
  ASSUME IInv, NEW c \in Calls,
         \/ \E u \in Users : Connect(c, u) \/ Unlink(c, u) \/ Notify(c, u)
         \/ \E t \in Tokens, ch \in Chats : StartBot(c, t, ch)
  PROVE  IInv'
<1>1. ASSUME NEW op \in Ops, NEW at \in {"spend", "read"}, NEW u \in Maybe(Users),
             NEW t \in Maybe(Tokens), NEW ch \in Maybe(Chats),
             Start(c, op, at, u, t, ch),
             op # "start" => u \in Users,
             op = "start" => t \in Tokens /\ ch \in Chats /\ token[t].user # None
      PROVE  IInv'
  <2> DEFINE r == [op |-> op, at |-> at, user |-> u, token |-> t, chat |-> ch]
  <2>1. /\ r \in CallRecord /\ call' = [call EXCEPT ![c] = r]
        /\ UNCHANGED <<chat, token, world, history, faults>>
    BY <1>1 DEF Start, CallRecord
  <2>2. call' \in [Calls -> CallRecord] /\ call'[c] = r
    BY <2>1 DEF IInv, TypeOK
  <2>3. \A d \in Calls : d # c => call'[d] = call[d]
    BY <2>1 DEF IInv, TypeOK
  <2>4. CallOK(call[c])'
    BY <1>1, <2>1, <2>2 DEF CallOK, Ops
  <2>5. \A d \in Calls : d # c => CallOK(call[d])'
    BY <2>1, <2>3 DEF IInv, CallInv, CallOK, world, history
  <2>6. faults' \in 0 .. MaxFaults
    BY <2>1 DEF IInv, TypeOK
  <2>7. call'[c].at # "link"
    BY <2>2
  <2>8. QED
    BY <2>1, <2>2, <2>3, <2>4, <2>5, <2>6, <2>7, CallsOnly
<1>2. QED
  BY <1>1 DEF Connect, Unlink, Notify, StartBot, Ops, Maybe

LEMMA FailsInv ==
  ASSUME IInv, NEW c \in Calls, Fails(c) \/ UnlinkRead(c)
  PROVE  IInv'
<1>1. ASSUME Fails(c) PROVE IInv'
  <2>1. /\ call' \in [Calls -> CallRecord] /\ call'[c] = IdleCall
        /\ \A d \in Calls : d # c => call'[d] = call[d]
    BY <1>1, FinishOnly DEF IInv, Fails
  <2>2. faults \in Nat /\ faults' \in 0 .. MaxFaults /\ faults' = faults + 1
    BY <1>1 DEF Fails, IInv, TypeOK
  <2>3. CallOK(call[c])'
    BY <2>1 DEF CallOK, IdleCall
  <2>4. \A d \in Calls : d # c => CallOK(call[d])'
    BY <1>1, <2>1, <2>2 DEF Fails, IInv, CallInv, CallOK, world, history
  <2>5. QED
    BY <1>1, <2>1, <2>2, <2>3, <2>4, CallsOnly DEF Fails, IdleCall
<1>2. ASSUME UnlinkRead(c) PROVE IInv'
  <2>1. /\ call' \in [Calls -> CallRecord]
        /\ call'[c].op = call[c].op /\ call'[c].at = "clear"
        /\ call'[c].user = call[c].user /\ call[c].op = "unlink"
        /\ \A d \in Calls : d # c => call'[d] = call[d]
    BY <1>2, GotoOnly DEF IInv, UnlinkRead, At
  <2>2. faults' \in 0 .. MaxFaults
    BY <1>2 DEF UnlinkRead, IInv, TypeOK
  <2>3. CallOK(call[c])'
    BY <2>1 DEF CallOK, IInv, CallInv
  <2>4. \A d \in Calls : d # c => CallOK(call[d])'
    BY <1>2, <2>1 DEF UnlinkRead, IInv, CallInv, CallOK, world, history
  <2>5. QED
    BY <1>2, <2>1, <2>2, <2>3, <2>4, CallsOnly DEF UnlinkRead
<1>3. QED
  BY <1>1, <1>2

\* A notice, from its read to the end of its probe.
LEMMA NotifyInv ==
  ASSUME IInv, NEW c \in Calls, NotifyRead(c) \/ SendMessage(c) \/ GetChat(c)
  PROVE  IInv'
<1>1. ASSUME NEW at \in {"getChat", "forget"}, call[c].op = "notify",
             Goto(c, at), faults' \in 0 .. MaxFaults, faults' >= faults,
             UNCHANGED <<chat, token, world, history>>,
             call[c].at \in {"send", "getChat"},
             at = "getChat" => call[c].chat \in blocks \/ faults' >= 1,
             at = "forget" => call[c].chat \in blocks \/ faults' >= 2
      PROVE  IInv'
  <2>1. /\ call' \in [Calls -> CallRecord]
        /\ call'[c].op = "notify" /\ call'[c].at = at
        /\ call'[c].user = call[c].user /\ call'[c].chat = call[c].chat
        /\ \A d \in Calls : d # c => call'[d] = call[d]
    BY <1>1, GotoOnly DEF IInv
  <2>2. CallOK(call[c])'
    BY <1>1, <2>1 DEF CallOK, IInv, CallInv, world
  <2>3. faults \in Nat /\ faults' \in Nat
    BY <1>1 DEF IInv, TypeOK
  <2>4. \A d \in Calls : d # c => CallOK(call[d])'
    BY <1>1, <2>1, <2>3 DEF IInv, CallInv, CallOK, world, history
  <2>5. QED
    BY <1>1, <2>1, <2>2, <2>4, CallsOnly
<1>2. ASSUME Finish(c), UNCHANGED <<chat, token, world, history, faults>>
      PROVE  IInv'
  <2>1. /\ call' \in [Calls -> CallRecord] /\ call'[c] = IdleCall
        /\ \A d \in Calls : d # c => call'[d] = call[d]
    BY <1>2, FinishOnly DEF IInv
  <2>2. CallOK(call[c])'
    BY <2>1 DEF CallOK, IdleCall
  <2>3. \A d \in Calls : d # c => CallOK(call[d])'
    BY <1>2, <2>1 DEF IInv, CallInv, CallOK, world, history
  <2>4. faults' \in 0 .. MaxFaults
    BY <1>2 DEF IInv, TypeOK
  <2>5. QED
    BY <1>2, <2>1, <2>2, <2>3, <2>4, CallsOnly DEF IdleCall
<1>3. faults \in 0 .. MaxFaults /\ blocked \subseteq blocks
  BY DEF IInv, TypeOK
<1>4. ASSUME NotifyRead(c) PROVE IInv'
  <2>1. CASE Finish(c)
    BY <1>2, <1>4, <2>1 DEF NotifyRead
  <2>2. CASE ~Finish(c)
    <3> DEFINE r == [call[c] EXCEPT !.at = "send", !.chat = chat[call[c].user]]
    <3>1. /\ call[c] \in CallRecord /\ call[c].op = "notify"
          /\ call[c].user \in Users
      BY <1>4 DEF NotifyRead, At, IInv, TypeOK, CallInv, CallOK
    <3>2. chat[call[c].user] \in Chats /\ call' = [call EXCEPT ![c] = r]
      BY <1>4, <2>2, <3>1 DEF NotifyRead, IInv, TypeOK, Maybe
    <3>3. r \in CallRecord /\ r.op = "notify" /\ r.at = "send"
          /\ r.chat \in Chats /\ r.user \in Users
      BY <3>1, <3>2 DEF CallRecord, Maybe
    <3>4. /\ call' \in [Calls -> CallRecord] /\ call'[c] = r
          /\ \A d \in Calls : d # c => call'[d] = call[d]
      BY <3>2, <3>3 DEF IInv, TypeOK
    <3>5. CallOK(call[c])'
      BY <3>3, <3>4 DEF CallOK
    <3>6. \A d \in Calls : d # c => CallOK(call[d])'
      BY <1>4, <3>4 DEF NotifyRead, IInv, CallInv, CallOK, world, history
    <3>7. faults' \in 0 .. MaxFaults
      BY <1>3, <1>4 DEF NotifyRead
    <3>8. QED
      BY <1>4, <3>3, <3>4, <3>5, <3>6, <3>7, CallsOnly DEF NotifyRead
  <2>3. QED
    BY <2>1, <2>2
<1>5. ASSUME SendMessage(c) PROVE IInv'
  <2>1. CASE Answers(c) /\ Finish(c)
    BY <1>2, <1>5, <2>1 DEF SendMessage, Answers
  <2>2. CASE FailsToAnswer(c) /\ Goto(c, "getChat")
    <3>1. /\ faults' \in 0 .. MaxFaults /\ faults' >= faults
          /\ call[c].chat \in blocks \/ faults' >= 1
      BY <1>3, <2>2 DEF FailsToAnswer
    <3>2. QED
      BY <1>1, <1>5, <2>2, <3>1 DEF SendMessage, At
  <2>3. QED
    BY <1>5, <2>1, <2>2 DEF SendMessage
<1>6. ASSUME GetChat(c) PROVE IInv'
  <2>1. CASE Finish(c) /\ UNCHANGED faults
    BY <1>2, <1>6, <2>1 DEF GetChat
  <2>2. CASE FailsToAnswer(c) /\ Goto(c, "forget")
    <3>1. call[c].chat \in blocks \/ faults >= 1
      BY <1>6 DEF GetChat, At, IInv, CallInv, CallOK
    <3>2. /\ faults' \in 0 .. MaxFaults /\ faults' >= faults
          /\ call[c].chat \in blocks \/ faults' >= 2
      BY <1>3, <2>2, <3>1 DEF FailsToAnswer
    <3>3. QED
      BY <1>1, <1>6, <2>2, <3>2 DEF GetChat, At
  <2>3. QED
    BY <1>6, <2>1, <2>2 DEF GetChat
<1>7. QED
  BY <1>4, <1>5, <1>6

\* What a step on tokens or chats leaves, where calls, failures and what was
\* linked so far stay as OthersKeep wants them.
SpentOnly ==
    \A t \in Tokens : /\ token'[t].user = token[t].user
                      /\ token'[t].live => token[t].live

LEMMA SpendOnly ==
  ASSUME TypeOK, NEW u, SpendOutstanding(u)
  PROVE  /\ token' \in [Tokens -> [user : Maybe(Users), live : BOOLEAN]]
         /\ SpentOnly
         /\ \A t \in OfUser(u) : ~token'[t].live
<1>1. ASSUME NEW t \in Tokens
      PROVE  /\ token'[t] \in [user : Maybe(Users), live : BOOLEAN]
             /\ token'[t].user = token[t].user
             /\ token'[t].live => token[t].live
             /\ t \in OfUser(u) => ~token'[t].live
  <2>1. token[t] \in [user : Maybe(Users), live : BOOLEAN]
    BY DEF TypeOK
  <2>2. token'[t] = IF t \in OfUser(u) THEN [token[t] EXCEPT !.live = FALSE]
                    ELSE token[t]
    BY DEF SpendOutstanding
  <2>3. QED
    BY <2>1, <2>2
<1>2. QED
  BY <1>1 DEF SpendOutstanding, SpentOnly, OfUser

\* Spending the tokens of a user, and going on or ending.
LEMMA SpendStepInv ==
  ASSUME IInv, NEW c \in Calls, ConnectSpend(c) \/ UnlinkSpend(c)
  PROVE  IInv'
<1>1. call[c].user \in Users
  BY DEF ConnectSpend, UnlinkSpend, At, IInv, CallInv, CallOK
<1>2. /\ token' \in [Tokens -> [user : Maybe(Users), live : BOOLEAN]]
      /\ SpentOnly /\ \A t \in OfUser(call[c].user) : ~token'[t].live
  BY SpendOnly DEF ConnectSpend, UnlinkSpend, IInv
<1>3. /\ UNCHANGED <<chat, world, links, faults>>
      /\ severed' \subseteq severed \cup OfUser(call[c].user)
  BY DEF ConnectSpend, UnlinkSpend, history
<1>4. /\ call' \in [Calls -> CallRecord]
      /\ \A d \in Calls : d # c => call'[d] = call[d]
      /\ call'[c].op \in {"connect", "none"} /\ CallOK(call[c])'
  <2>1. CASE ConnectSpend(c)
    <3>1. /\ call' \in [Calls -> CallRecord]
          /\ call'[c].op = "connect" /\ call'[c].at = "store"
          /\ call'[c].user = call[c].user
          /\ \A d \in Calls : d # c => call'[d] = call[d]
      BY <2>1, GotoOnly DEF IInv, ConnectSpend, At
    <3>2. QED
      BY <1>1, <3>1 DEF CallOK
  <2>2. CASE UnlinkSpend(c)
    <3>1. /\ call' \in [Calls -> CallRecord] /\ call'[c] = IdleCall
          /\ \A d \in Calls : d # c => call'[d] = call[d]
      BY <2>2, FinishOnly DEF IInv, UnlinkSpend
    <3>2. QED
      BY <3>1 DEF CallOK, IdleCall
  <2>3. QED
    BY <2>1, <2>2
<1>5. TypeOK'
  <2>1. \A t \in OfUser(call[c].user) : t \in Tokens /\ token[t].user # None
    BY <1>1 DEF OfUser
  <2>2. QED
    BY <1>2, <1>3, <1>4, <2>1 DEF IInv, TypeOK, SpentOnly, world
<1>6. \A d \in Calls : d # c => CallOK(call[d])'
  BY <1>2, <1>3, <1>4 DEF IInv, CallInv, CallOK, SpentOnly, world
<1>7. TokenInv'
  BY <1>2, <1>3 DEF IInv, TokenInv, SpentOnly
<1>8. HolderInv'
  BY <1>4 DEF IInv, HolderInv, Linking, At
<1>9. QED
  BY <1>4, <1>5, <1>6, <1>7, <1>8 DEF IInv, CallInv

\* A token that is stored was nobody's: no handler knows it.
LEMMA StoreInv ==
  ASSUME IInv, NEW c \in Calls, NEW t \in Tokens, ConnectStore(c, t)
  PROVE  IInv'
<1>1. call[c].user \in Users /\ token[t] = NoToken
  BY DEF ConnectStore, At, IInv, CallInv, CallOK
<1>2. /\ token' = [token EXCEPT ![t] = [user |-> call[c].user, live |-> TRUE]]
      /\ UNCHANGED <<chat, world, history, faults>>
  BY DEF ConnectStore
<1>3. /\ call' \in [Calls -> CallRecord] /\ call'[c] = IdleCall
      /\ \A d \in Calls : d # c => call'[d] = call[d]
  BY FinishOnly DEF IInv, ConnectStore
<1>4. /\ token' \in [Tokens -> [user : Maybe(Users), live : BOOLEAN]]
      /\ token'[t].user # None
      /\ \A s \in Tokens : s # t => token'[s] = token[s]
  BY <1>1, <1>2 DEF IInv, TypeOK, Maybe
<1>5. token[t].user = None /\ t \notin severed /\ links[t] = 0
  BY <1>1 DEF NoToken, IInv, TypeOK, TokenInv
<1>6. TypeOK'
  BY <1>2, <1>3, <1>4, <1>5 DEF IInv, TypeOK, world, history
<1>7. \A d \in Calls : d # c => CallOK(call[d])'
  BY <1>2, <1>3, <1>4, <1>5 DEF IInv, CallInv, CallOK, world, history
<1>8. CallOK(call[c])'
  BY <1>3 DEF CallOK, IdleCall
<1>9. TokenInv'
  BY <1>2, <1>4, <1>5 DEF IInv, TokenInv, history
<1>10. HolderInv'
  BY <1>3 DEF IInv, HolderInv, Linking, At, IdleCall
<1>11. QED
  BY <1>3, <1>6, <1>7, <1>8, <1>9, <1>10 DEF IInv, CallInv

\* A redemption: the conditional update lets one handler through, and it links
\* once.
LEMMA RedeemSpendInv ==
  ASSUME IInv, NEW c \in Calls, RedeemSpend(c)
  PROVE  IInv'
<1> DEFINE t == call[c].token
<1>1. /\ call[c].op = "start" /\ t \in Tokens /\ call[c].chat \in Chats
      /\ token[t].user \in Users /\ call[c] \in CallRecord
  BY DEF RedeemSpend, At, IInv, TypeOK, CallInv, CallOK, Maybe
<1>2. CASE token[t].live
  <2> DEFINE r == [call[c] EXCEPT !.at = "link", !.user = token[t].user]
  <2>1. /\ call' = [call EXCEPT ![c] = r]
        /\ token' = [token EXCEPT ![t].live = FALSE]
        /\ UNCHANGED <<chat, world, history, faults>>
    BY <1>2 DEF RedeemSpend
  <2>2. /\ r \in CallRecord /\ r.op = "start" /\ r.at = "link"
        /\ r.user \in Users /\ r.token = t /\ r.chat \in Chats
    BY <1>1 DEF CallRecord, Maybe
  <2>3. /\ call' \in [Calls -> CallRecord] /\ call'[c] = r
        /\ \A d \in Calls : d # c => call'[d] = call[d]
    BY <2>1, <2>2 DEF IInv, TypeOK
  <2>4. /\ token' \in [Tokens -> [user : Maybe(Users), live : BOOLEAN]]
        /\ token'[t].user = token[t].user /\ ~token'[t].live
        /\ \A s \in Tokens : s # t => token'[s] = token[s]
    <3>1. token \in [Tokens -> [user : Maybe(Users), live : BOOLEAN]]
      BY DEF IInv, TypeOK
    <3>2. /\ [token[t] EXCEPT !.live = FALSE] \in [user : Maybe(Users), live : BOOLEAN]
          /\ [token[t] EXCEPT !.live = FALSE].user = token[t].user
          /\ [token[t] EXCEPT !.live = FALSE].live = FALSE
      BY <1>1, <3>1
    <3>3. token' = [token EXCEPT ![t] = [token[t] EXCEPT !.live = FALSE]]
      BY <2>1
    <3>4. QED
      BY <1>1, <3>1, <3>2, <3>3
  <2>5. links[t] = 0 /\ \A d \in Calls : ~Linking(d, t)
    BY <1>1, <1>2 DEF IInv, TokenInv, CallInv, CallOK, Linking, At
  <2>6. TypeOK'
    BY <1>1, <2>1, <2>3, <2>4 DEF IInv, TypeOK, world, history
  <2>7. CallOK(call[c])'
    BY <1>1, <2>1, <2>2, <2>3, <2>4, <2>5 DEF CallOK, history
  <2>8. \A d \in Calls : d # c => CallOK(call[d])'
    BY <2>1, <2>3, <2>4 DEF IInv, CallInv, CallOK, world, history
  <2>9. TokenInv'
    BY <2>1, <2>4, <2>5 DEF IInv, TokenInv, history
  <2>10. HolderInv'
    <3> SUFFICES ASSUME NEW s \in Tokens, NEW d \in Calls, NEW e \in Calls,
                        Linking(d, s)', Linking(e, s)'
                 PROVE  d = e
      BY DEF HolderInv
    <3>1. CASE s = t
      <4>1. ASSUME NEW f \in Calls, f # c PROVE ~Linking(f, s)'
        BY <2>3, <2>5, <3>1, <4>1 DEF Linking, At
      <4>2. QED
        BY <4>1
    <3>2. CASE s # t
      <4>1. ASSUME NEW f \in Calls, Linking(f, s)' PROVE f # c /\ Linking(f, s)
        BY <2>2, <2>3, <3>2, <4>1 DEF Linking, At
      <4>2. QED
        BY <4>1 DEF IInv, HolderInv
    <3>3. QED
      BY <3>1, <3>2
  <2>11. QED
    BY <2>6, <2>7, <2>8, <2>9, <2>10 DEF IInv, CallInv
<1>3. CASE ~token[t].live
  <2>1. Finish(c) /\ UNCHANGED <<chat, token, world, history, faults>>
    BY <1>3 DEF RedeemSpend
  <2>2. /\ call' \in [Calls -> CallRecord] /\ call'[c] = IdleCall
        /\ \A d \in Calls : d # c => call'[d] = call[d]
    BY <2>1, FinishOnly DEF IInv
  <2>3. CallOK(call[c])' /\ faults' \in 0 .. MaxFaults
    BY <2>1, <2>2 DEF CallOK, IdleCall, IInv, TypeOK
  <2>4. \A d \in Calls : d # c => CallOK(call[d])'
    BY <2>1, <2>2 DEF IInv, CallInv, CallOK, world, history
  <2>5. QED
    BY <2>1, <2>2, <2>3, <2>4, CallsOnly DEF IdleCall
<1>4. QED
  BY <1>2, <1>3

LEMMA RedeemLinkInv ==
  ASSUME IInv, NEW c \in Calls, RedeemLink(c)
  PROVE  IInv'
<1> DEFINE t == call[c].token
           u == call[c].user
           ch == call[c].chat
<1>1. /\ t \in Tokens /\ u \in Users /\ ch \in Chats /\ Linking(c, t)
      /\ token[t].user # None /\ ~token[t].live /\ links[t] = 0
  BY DEF RedeemLink, At, Linking, IInv, CallInv, CallOK
<1>2. /\ call' \in [Calls -> CallRecord] /\ call'[c] = IdleCall
      /\ \A d \in Calls : d # c => call'[d] = call[d]
  BY FinishOnly DEF IInv, RedeemLink
<1>3. /\ UNCHANGED <<token, world, severed, faults>>
      /\ \/ UNCHANGED <<chat, links>>
         \/ /\ chat' = [chat EXCEPT ![u] = ch]
            /\ links' = [links EXCEPT ![t] = @ + 1]
            /\ \A v \in Users \ {u} : chat[v] # ch
  BY DEF RedeemLink
<1>4. /\ links' \in [Tokens -> Nat] /\ links'[t] <= 1
      /\ \A s \in Tokens : s # t => links'[s] = links[s]
  BY <1>1, <1>3 DEF IInv, TypeOK
<1>5. /\ chat' \in [Users -> Maybe(Chats)]
      /\ \A v, w \in Users : chat'[v] = chat'[w] /\ v # w => chat'[v] = None
  BY <1>1, <1>3 DEF IInv, TypeOK, Maybe
<1>6. TypeOK'
  BY <1>2, <1>3, <1>4, <1>5 DEF IInv, TypeOK, world
<1>7. CallOK(call[c])'
  BY <1>2 DEF CallOK, IdleCall
<1>8. \A d \in Calls : d # c => CallOK(call[d])'
  <2>1. \A d \in Calls : d # c => ~Linking(d, t)
    BY <1>1 DEF IInv, HolderInv
  <2>2. QED
    BY <1>2, <1>3, <1>4, <2>1 DEF IInv, CallInv, CallOK, Linking, At, world
<1>9. TokenInv'
  BY <1>1, <1>3, <1>4 DEF IInv, TokenInv
<1>10. HolderInv'
  BY <1>2 DEF IInv, HolderInv, Linking, At, IdleCall
<1>11. QED
  BY <1>6, <1>7, <1>8, <1>9, <1>10 DEF IInv, CallInv

\* A chat is cleared, by its user or because it is out of reach.
LEMMA ClearInv ==
  ASSUME IInv, NEW c \in Calls, UnlinkClear(c) \/ Forget(c)
  PROVE  IInv'
<1>1. /\ call' \in [Calls -> CallRecord]
      /\ \A d \in Calls : d # c => call'[d] = call[d]
      /\ call'[c].op \in {"unlink", "none"} /\ CallOK(call[c])'
  <2>1. CASE UnlinkClear(c)
    <3>1. /\ call' \in [Calls -> CallRecord]
          /\ call'[c].op = "unlink" /\ call'[c].user = call[c].user
          /\ \A d \in Calls : d # c => call'[d] = call[d]
      BY <2>1, GotoOnly DEF IInv, UnlinkClear, At
    <3>2. call[c].user \in Users
      BY <2>1 DEF UnlinkClear, At, IInv, CallInv, CallOK
    <3>3. QED
      BY <3>1, <3>2 DEF CallOK
  <2>2. CASE Forget(c)
    <3>1. /\ call' \in [Calls -> CallRecord] /\ call'[c] = IdleCall
          /\ \A d \in Calls : d # c => call'[d] = call[d]
      BY <2>2, FinishOnly DEF IInv, Forget
    <3>2. QED
      BY <3>1 DEF CallOK, IdleCall
  <2>3. QED
    BY <2>1, <2>2
<1>2. /\ UNCHANGED <<token, world, history, faults>>
      /\ chat' \in [Users -> Maybe(Chats)]
      /\ \A v \in Users : chat'[v] \in {chat[v], None}
  <2>1. CASE UnlinkClear(c)
    BY <2>1 DEF UnlinkClear, IInv, TypeOK, Maybe
  <2>2. CASE Forget(c)
    BY <2>2 DEF Forget, IInv, TypeOK, Maybe
  <2>3. QED
    BY <2>1, <2>2
<1>3. TypeOK'
  BY <1>1, <1>2 DEF IInv, TypeOK, world, history
<1>4. \A d \in Calls : d # c => CallOK(call[d])'
  BY <1>1, <1>2 DEF IInv, CallInv, CallOK, world, history
<1>5. TokenInv'
  BY <1>2 DEF IInv, TokenInv, history
<1>6. HolderInv'
  BY <1>1 DEF IInv, HolderInv, Linking, At
<1>7. QED
  BY <1>1, <1>3, <1>4, <1>5, <1>6 DEF IInv, CallInv

\* Time, Telegram's users and restarts.
LEMMA SurroundingsInv ==
  ASSUME IInv,
         \/ \E t \in Tokens : Expires(t)
         \/ \E ch \in Chats : Block(ch) \/ Unblock(ch)
         \/ Restart
         \/ UNCHANGED vars
  PROVE  IInv'
<1>1. ASSUME NEW t \in Tokens, Expires(t) PROVE IInv'
  <2>1. /\ token' = [token EXCEPT ![t].live = FALSE] /\ token[t].live
        /\ UNCHANGED <<chat, call, world, history, faults>>
    BY <1>1 DEF Expires
  <2>2. /\ token' \in [Tokens -> [user : Maybe(Users), live : BOOLEAN]]
        /\ SpentOnly
    BY <2>1 DEF IInv, TypeOK, SpentOnly
  <2>3. TypeOK'
    BY <2>1, <2>2 DEF IInv, TypeOK, SpentOnly, world, history
  <2>4. CallInv'
    BY <2>1, <2>2 DEF IInv, CallInv, CallOK, SpentOnly, world, history
  <2>5. TokenInv' /\ HolderInv'
    BY <2>1, <2>2 DEF IInv, TokenInv, HolderInv, Linking, At, SpentOnly, history
  <2>6. QED
    BY <2>3, <2>4, <2>5 DEF IInv
<1>2. ASSUME NEW ch \in Chats, Block(ch) \/ Unblock(ch) PROVE IInv'
  <2>1. /\ blocks \subseteq blocks' /\ blocks' \in SUBSET Chats
        /\ blocked' \subseteq blocks'
        /\ UNCHANGED <<chat, token, call, history, faults>>
    BY <1>2 DEF Block, Unblock, IInv, TypeOK
  <2>2. TypeOK'
    BY <2>1 DEF IInv, TypeOK, history
  <2>3. CallInv'
    BY <2>1 DEF IInv, CallInv, CallOK, history
  <2>4. TokenInv' /\ HolderInv'
    BY <2>1 DEF IInv, TokenInv, HolderInv, Linking, At, history
  <2>5. QED
    BY <2>2, <2>3, <2>4 DEF IInv
<1>3. ASSUME Restart PROVE IInv'
  <2>1. /\ call' = [c \in Calls |-> IdleCall]
        /\ UNCHANGED <<chat, token, world, history, faults>>
    BY <1>3 DEF Restart
  <2>2. call' \in [Calls -> CallRecord] /\ faults' \in 0 .. MaxFaults
    BY <2>1 DEF IdleCall, CallRecord, Maybe, IInv, TypeOK
  <2>3. \A c \in Calls : call'[c].op # "start" /\ CallOK(call[c])'
    BY <2>1 DEF CallOK, IdleCall
  <2>4. QED
    BY <2>1, <2>2, <2>3, CallsOnly
<1>4. ASSUME UNCHANGED vars PROVE IInv'
  BY <1>4 DEF vars, world, history, IInv, TypeOK, CallInv, CallOK, TokenInv,
              HolderInv, Linking, At
<1>5. QED
  BY <1>1, <1>2, <1>3, <1>4

LEMMA NextInv == IInv /\ [Next]_vars => IInv'
<1> SUFFICES ASSUME IInv, [Next]_vars PROVE IInv'
  OBVIOUS
<1>1. QED
  BY ArrivalInv, FailsInv, NotifyInv, SpendStepInv, StoreInv, RedeemSpendInv,
     RedeemLinkInv, ClearInv, SurroundingsInv DEF Next

LEMMA SpecInv == Spec => []IInv
  BY InitInv, NextInv, PTL DEF Spec

-----------------------------------------------------------------------------
(* The theorems.                                                            *)

\* Every variable keeps its type, and a chat is one account's at most, although
\* redeem() leaves that to the index and a failure to the next delivery.
THEOREM TypeCorrect == Spec => []TypeOK
<1>1. IInv => TypeOK
  BY DEF IInv
<1>2. QED
  BY <1>1, SpecInv, PTL

\* "Two /start messages racing must not both succeed" (redeem()): however many
\* are delivered, of any number of links, a token links one chat, once.
THEOREM OneLinkPerToken == Spec => []TokenLinksOnce
<1>1. IInv => TokenLinksOnce
  BY DEF IInv, TokenInv, TokenLinksOnce
<1>2. QED
  BY <1>1, SpecInv, PTL

\* "One failed send does not unlink someone" (forgetIfUnreachable()), for any
\* number of notices under way and whatever else fails later.
THEOREM BlipForgiven == Spec => OneBlipKeepsLink
<1> DEFINE Kept == \A u \in Users :
               chat[u] # None /\ chat'[u] = None /\ faults <= 1
               => \/ chat[u] \in blocks
                  \/ \E c \in Calls : At(c, "unlink", "clear") /\ call[c].user = u
<1>1. IInv /\ [Next]_vars => [Kept]_vars
  <2> SUFFICES ASSUME IInv, Next, NEW u \in Users,
                      chat[u] # None, chat'[u] = None, faults <= 1
               PROVE  \/ chat[u] \in blocks
                      \/ \E c \in Calls : At(c, "unlink", "clear") /\ call[c].user = u
    BY DEF Kept
  <2>1. chat' # chat
    OBVIOUS
  <2>2. CASE \E c \in Calls : Forget(c)
    <3>1. PICK c \in Calls : Forget(c)
      BY <2>2
    <3>2. chat[u] = call[c].chat
      BY <3>1 DEF Forget
    <3>3. call[c].chat \in blocks \/ faults >= 2
      BY <3>1 DEF Forget, At, IInv, CallInv, CallOK
    <3>4. faults \in Nat
      BY DEF IInv, TypeOK
    <3>5. QED
      BY <3>2, <3>3, <3>4
  <2>3. CASE \E c \in Calls : UnlinkClear(c)
    <3>1. PICK c \in Calls : UnlinkClear(c)
      BY <2>3
    <3>2. call[c].user = u
      BY <3>1 DEF UnlinkClear, IInv, TypeOK
    <3>3. QED
      BY <3>1, <3>2 DEF UnlinkClear
  <2>4. CASE \E c \in Calls : RedeemLink(c)
    <3>1. PICK c \in Calls : RedeemLink(c)
      BY <2>4
    <3>2. call[c].chat \in Chats /\ call[c].user \in Users
      BY <3>1 DEF RedeemLink, At, IInv, CallInv, CallOK
    <3>3. chat'[u] \in {chat[u], call[c].chat}
      BY <3>1, <3>2 DEF RedeemLink, IInv, TypeOK
    <3>4. QED
      BY <3>2, <3>3
  <2>5. QED
    BY <2>1, <2>2, <2>3, <2>4
       DEF Next, Connect, Unlink, Notify, StartBot, Start, ConnectSpend,
           ConnectStore, RedeemSpend, UnlinkRead, UnlinkSpend, NotifyRead,
           SendMessage, GetChat, Fails, Expires, Block, Unblock, Restart
<1>2. QED
  BY <1>1, SpecInv, PTL DEF Spec, OneBlipKeepsLink

-----------------------------------------------------------------------------
(* What disconnecting by itself leaves: no link that was handed out before  *)
(* can be spent, and nobody is about to use one.                            *)

LoneInv ==
    /\ \A c \in Calls : call[c].at = "idle" => call[c].op = "none"
    /\ \A c, d \in Calls : call[c].op = "unlink" /\ d # c => call[d].op = "none"
    /\ \A t \in severed : ~token[t].live /\ \A c \in Calls : ~Linking(c, t)

\* Calls end or go on, and none comes to hold a token.
QuietCalls ==
    \A c \in Calls :
       /\ call'[c].op \in {call[c].op, "none"}
       /\ call'[c].at = "idle" => call'[c].op = "none"
       /\ \A t \in Tokens : Linking(c, t)' => Linking(c, t)

LEMMA LoneQuiet ==
  ASSUME IInv, LoneInv, QuietCalls, SpentOnly, severed' = severed
  PROVE  LoneInv'
<1>1. severed \subseteq Tokens
  BY DEF IInv, TypeOK
<1>2. \A c, d \in Calls : call'[c].op = "unlink" /\ d # c => call'[d].op = "none"
  BY DEF LoneInv, QuietCalls
<1>3. QED
  BY <1>1, <1>2 DEF LoneInv, QuietCalls, SpentOnly

LEMMA QuietMove ==
  ASSUME IInv, LoneInv, NEW c \in Calls,
         \/ Finish(c)
         \/ \E at \in {"store", "clear", "spend", "getChat", "forget"} : Goto(c, at)
  PROVE  QuietCalls
<1>1. CASE Finish(c)
  BY <1>1, FinishOnly DEF IInv, LoneInv, QuietCalls, IdleCall, Linking, At
<1>2. ASSUME NEW at \in {"store", "clear", "spend", "getChat", "forget"}, Goto(c, at)
      PROVE  QuietCalls
  <2>1. /\ call'[c].op = call[c].op /\ call'[c].at = at
        /\ \A d \in Calls : d # c => call'[d] = call[d]
    BY <1>2, GotoOnly DEF IInv
  <2>2. QED
    BY <2>1 DEF LoneInv, QuietCalls, Linking, At
<1>3. QED
  BY <1>1, <1>2

LEMMA LoneArrival ==
  ASSUME IInv, LoneInv, "unlink" \in Alone, NEW c \in Calls,
         \/ \E u \in Users : Connect(c, u) \/ Unlink(c, u) \/ Notify(c, u)
         \/ \E t \in Tokens, ch \in Chats : StartBot(c, t, ch)
  PROVE  LoneInv'
<1>1. ASSUME NEW op \in Ops, NEW at \in {"spend", "read"}, NEW u, NEW t, NEW ch,
             Start(c, op, at, u, t, ch)
      PROVE  LoneInv'
  <2>1. /\ \A d \in Calls : d # c => call'[d] = call[d]
        /\ call'[c].op = op /\ call'[c].at = at
        /\ UNCHANGED <<token, severed>>
    BY <1>1 DEF Start, IInv, TypeOK, history
  <2>2. \A d \in Calls : call[d].op # "unlink"
    BY <1>1 DEF Start
  <2>3. op = "unlink" => \A d \in Calls : call[d].op = "none"
    BY <1>1 DEF Start, Busy, LoneInv
  <2>4. \A d, e \in Calls : call'[d].op = "unlink" /\ e # d => call'[e].op = "none"
    BY <2>1, <2>2, <2>3
  <2>5. \A d \in Calls : call'[d].at = "idle" => call'[d].op = "none"
    BY <2>1 DEF LoneInv
  <2>6. \A s \in severed : \A d \in Calls : ~Linking(d, s)'
    BY <2>1 DEF LoneInv, Linking, At
  <2>7. QED
    BY <2>1, <2>4, <2>5, <2>6 DEF LoneInv
<1>2. QED
  BY <1>1 DEF Connect, Unlink, Notify, StartBot, Ops

\* A token that is stored or spent is not one of those that were severed.
LEMMA LoneToken ==
  ASSUME IInv, LoneInv, NEW c \in Calls,
         RedeemSpend(c) \/ \E t \in Tokens : ConnectStore(c, t)
  PROVE  LoneInv'
<1>1. ASSUME NEW t \in Tokens, ConnectStore(c, t) PROVE LoneInv'
  <2>1. t \notin severed
    BY <1>1 DEF ConnectStore, NoToken, IInv, TypeOK
  <2>2. severed' = severed /\ \A s \in severed : token'[s] = token[s]
    BY <1>1, <2>1 DEF ConnectStore, IInv, TypeOK, history
  <2>3. QuietCalls
    BY <1>1, QuietMove DEF ConnectStore
  <2>4. severed \subseteq Tokens
    BY DEF IInv, TypeOK
  <2>5. QED
    BY <2>2, <2>3, <2>4 DEF LoneInv, QuietCalls
<1>2. ASSUME RedeemSpend(c) PROVE LoneInv'
  <2>1. CASE ~token[call[c].token].live
    <3>1. QuietCalls
      BY <1>2, <2>1, QuietMove DEF RedeemSpend
    <3>2. SpentOnly /\ severed' = severed
      BY <1>2, <2>1 DEF RedeemSpend, SpentOnly, history
    <3>3. QED
      BY <3>1, <3>2, LoneQuiet
  <2>2. CASE token[call[c].token].live
    <3> DEFINE k == call[c].token
    <3>1. k \in Tokens /\ k \notin severed /\ call[c].op = "start"
      BY <1>2, <2>2 DEF RedeemSpend, At, IInv, CallInv, CallOK, LoneInv
    <3>2. /\ \A d \in Calls : d # c => call'[d] = call[d]
          /\ call'[c].op = "start" /\ call'[c].at = "link"
          /\ call'[c].token = k
      <4>1. call[c] \in CallRecord
        BY DEF IInv, TypeOK
      <4>2. call' = [call EXCEPT ![c] = [call[c] EXCEPT !.at = "link",
                                                        !.user = token[k].user]]
        BY <1>2, <2>2 DEF RedeemSpend
      <4>3. QED
        BY <3>1, <4>1, <4>2 DEF IInv, TypeOK, CallRecord
    <3>3. severed' = severed /\ \A s \in Tokens : s # k => token'[s] = token[s]
      BY <1>2, <2>2 DEF RedeemSpend, IInv, TypeOK, history
    <3>4. \A d, e \in Calls : call'[d].op = "unlink" /\ e # d => call'[e].op = "none"
      BY <3>1, <3>2 DEF LoneInv
    <3>5. \A d \in Calls : call'[d].at = "idle" => call'[d].op = "none"
      BY <3>2 DEF LoneInv
    <3>6. ASSUME NEW s \in severed PROVE ~token'[s].live /\ \A d \in Calls : ~Linking(d, s)'
      <4>1. s \in Tokens /\ s # k
        BY <3>1 DEF IInv, TypeOK
      <4>2. QED
        BY <3>2, <3>3, <4>1 DEF LoneInv, Linking, At
    <3>7. QED
      BY <3>3, <3>4, <3>5, <3>6 DEF LoneInv
  <2>3. QED
    BY <2>1, <2>2
<1>3. QED
  BY <1>1, <1>2

\* Nothing else is under way when a disconnection spends the tokens.
LEMMA LoneSever ==
  ASSUME IInv, LoneInv, NEW c \in Calls, UnlinkSpend(c)
  PROVE  LoneInv'
<1>1. \A d \in Calls : call[d].op # "start"
  BY DEF UnlinkSpend, At, LoneInv
<1>2. QuietCalls
  BY QuietMove DEF UnlinkSpend
<1>3. /\ SpentOnly /\ \A t \in OfUser(call[c].user) : ~token'[t].live
      /\ severed' = severed \cup OfUser(call[c].user)
  BY SpendOnly DEF UnlinkSpend, IInv
<1>4. ASSUME NEW t \in severed' PROVE ~token'[t].live /\ \A d \in Calls : ~Linking(d, t)'
  <2>1. t \in Tokens
    BY <1>3 DEF IInv, TypeOK, OfUser
  <2>2. ~token'[t].live
    BY <1>3, <2>1 DEF SpentOnly, LoneInv
  <2>3. QED
    BY <1>1, <1>2, <2>1, <2>2 DEF QuietCalls, Linking, At
<1>5. \A d, e \in Calls : call'[d].op = "unlink" /\ e # d => call'[e].op = "none"
  BY <1>2 DEF LoneInv, QuietCalls
<1>6. QED
  BY <1>2, <1>4, <1>5 DEF LoneInv, QuietCalls

LEMMA LoneSteps ==
  ASSUME IInv, LoneInv, NEW c \in Calls,
         \/ ConnectSpend(c) \/ RedeemLink(c) \/ UnlinkRead(c) \/ UnlinkClear(c)
         \/ NotifyRead(c) \/ SendMessage(c) \/ GetChat(c) \/ Forget(c) \/ Fails(c)
  PROVE  LoneInv'
<1>1. SpentOnly /\ severed' = severed
  <2>1. CASE ConnectSpend(c)
    BY <2>1, SpendOnly DEF ConnectSpend, IInv, history
  <2>2. CASE ~ConnectSpend(c)
    <3>1. token' = token /\ severed' = severed
      BY <2>2 DEF RedeemLink, UnlinkRead, UnlinkClear, NotifyRead, SendMessage,
                  GetChat, Forget, Fails, history
    <3>2. QED
      BY <3>1 DEF SpentOnly
  <2>3. QED
    BY <2>1, <2>2
<1>2. QuietCalls
  <2>1. CASE ~NotifyRead(c)
    BY <2>1, QuietMove DEF ConnectSpend, RedeemLink, UnlinkRead, UnlinkClear,
                           SendMessage, GetChat, Forget, Fails
  <2>2. CASE NotifyRead(c) /\ ~Finish(c)
    <3> DEFINE ch == chat[call[c].user]
    <3>1. call' = [call EXCEPT ![c] = [call[c] EXCEPT !.at = "send", !.chat = ch]]
      BY <2>2 DEF NotifyRead
    <3>2. call[c] \in CallRecord
      BY DEF IInv, TypeOK
    <3>3. /\ \A d \in Calls : d # c => call'[d] = call[d]
          /\ call'[c].op = call[c].op /\ call'[c].at = "send"
      BY <3>1, <3>2 DEF IInv, TypeOK, CallRecord
    <3>4. QED
      BY <3>3 DEF LoneInv, QuietCalls, Linking, At
  <2>3. QED
    BY <2>1, <2>2, QuietMove
<1>3. QED
  BY <1>1, <1>2, LoneQuiet

LEMMA LoneSurroundings ==
  ASSUME IInv, LoneInv,
         \/ \E t \in Tokens : Expires(t)
         \/ \E ch \in Chats : Block(ch) \/ Unblock(ch)
         \/ Restart
         \/ UNCHANGED vars
  PROVE  LoneInv'
<1>1. severed' = severed
  BY DEF Expires, Block, Unblock, Restart, vars, history
<1>2. SpentOnly
  BY DEF Expires, Block, Unblock, Restart, vars, SpentOnly, IInv, TypeOK
<1>3. QuietCalls
  <2>1. CASE Restart
    BY <2>1 DEF Restart, QuietCalls, IdleCall, Linking, At
  <2>2. CASE call' = call
    BY <2>2 DEF QuietCalls, LoneInv, Linking, At
  <2>3. QED
    BY <2>1, <2>2 DEF Expires, Block, Unblock, vars
<1>4. QED
  BY <1>1, <1>2, <1>3, LoneQuiet

\* Where disconnecting runs by itself, no link handed out before it ever connects
\* the account again (unlink(), redeem()), whatever fails, restarts or is
\* delivered late.
THEOREM DisconnectedStays == "unlink" \in Alone => (Spec => DisconnectedForGood)
<1> SUFFICES ASSUME "unlink" \in Alone PROVE Spec => DisconnectedForGood
  OBVIOUS
<1> DEFINE Kept == \A t \in severed : links'[t] = links[t]
<1>1. Init => LoneInv
  BY DEF Init, LoneInv, IdleCall
<1>2. IInv /\ LoneInv /\ [Next]_vars => LoneInv'
  BY LoneArrival, LoneToken, LoneSever, LoneSteps, LoneSurroundings DEF Next
<1>3. IInv /\ LoneInv /\ [Next]_vars => [Kept]_vars
  <2> SUFFICES ASSUME IInv, LoneInv, Next, NEW t \in severed
               PROVE  links'[t] = links[t]
    BY DEF Kept
  <2>1. CASE \E c \in Calls : RedeemLink(c)
    <3>1. PICK c \in Calls : RedeemLink(c)
      BY <2>1
    <3>2. call[c].token # t
      BY <3>1 DEF RedeemLink, LoneInv, Linking
    <3>3. t \in Tokens /\ links \in [Tokens -> Nat]
      BY DEF IInv, TypeOK
    <3>4. QED
      BY <3>1, <3>2, <3>3 DEF RedeemLink
  <2>2. CASE links' = links
    BY <2>2
  <2>3. QED
    BY <2>1, <2>2
       DEF Next, Connect, Unlink, Notify, StartBot, Start, ConnectSpend,
           ConnectStore, RedeemSpend, UnlinkRead, UnlinkClear, UnlinkSpend,
           NotifyRead, SendMessage, GetChat, Forget, Fails, Expires, Block,
           Unblock, Restart, history
<1>4. QED
  BY <1>1, <1>2, <1>3, SpecInv, PTL DEF Spec, DisconnectedForGood
=============================================================================
