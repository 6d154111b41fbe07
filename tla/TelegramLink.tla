---------------------------- MODULE TelegramLink -----------------------------
(***************************************************************************)
(* Which Telegram chat belongs to which account (telegram.service.ts): link *)
(* tokens, the /start that redeems one, disconnecting, and the delivery of  *)
(* a notification (notifications.service.ts), which forgets a chat that     *)
(* cannot be reached.                                                       *)
(*                                                                          *)
(* Updates arrive as often as Telegram cares to send them; users block and  *)
(* unblock the bot; a call to the Bot API or a statement may fail.          *)
(***************************************************************************)
EXTENDS Naturals, FiniteSets

CONSTANTS
    Users,
    Chats,
    Tokens,
    Calls,      \* slots for handlers in flight
    MaxFaults,  \* bound on calls and statements that fail
    MaxBlocks,  \* bound on how often the bot is blocked
    Alone,      \* operations that never overlap another one in this instance
    None

Ops == {"connect", "start", "unlink", "notify"}

ASSUME TelegramAssumption ==
    /\ MaxFaults \in Nat /\ MaxBlocks \in Nat
    /\ Alone \subseteq Ops
    /\ None \notin Users \cup Chats \cup Tokens

VARIABLES
    chat,     \* users.telegram_chat_id
    token,    \* telegram_link_tokens
    call,     \* the handlers in flight
    blocked,  \* chats in which the bot is blocked
    links,    \* history: how often a token linked a chat
    severed,  \* history: tokens there were when their user had disconnected
    blocks,   \* history: chats in which the bot was ever blocked
    faults    \* how many calls and statements failed

world == <<blocked, blocks>>
history == <<links, severed>>
vars == <<chat, token, call, world, history, faults>>

Maybe(S) == S \cup {None}
NoToken == [user |-> None, live |-> FALSE]
CallRecord == [op : Ops \cup {"none"},
               at : {"idle", "spend", "store", "link", "read", "clear",
                     "send", "getChat", "forget"},
               user : Maybe(Users), token : Maybe(Tokens), chat : Maybe(Chats)]
IdleCall == [op |-> "none", at |-> "idle", user |-> None, token |-> None, chat |-> None]

\* A chat is one account's, and who is live or severed was issued to somebody.
TypeOK ==
    /\ chat \in [Users -> Maybe(Chats)]
    /\ \A u, v \in Users : chat[u] = chat[v] /\ u # v => chat[u] = None
    /\ token \in [Tokens -> [user : Maybe(Users), live : BOOLEAN]]
    /\ \A t \in Tokens : token[t].user = None => ~token[t].live /\ t \notin severed
    /\ call \in [Calls -> CallRecord]
    /\ blocked \subseteq blocks /\ blocks \in SUBSET Chats
    /\ links \in [Tokens -> Nat]
    /\ severed \in SUBSET Tokens
    /\ faults \in 0 .. MaxFaults

Init ==
    /\ chat = [u \in Users |-> None]
    /\ token = [t \in Tokens |-> NoToken]
    /\ call = [c \in Calls |-> IdleCall]
    /\ blocked = {} /\ blocks = {}
    /\ links = [t \in Tokens |-> 0]
    /\ severed = {}
    /\ faults = 0

-----------------------------------------------------------------------------

At(c, op, at) == call[c].op = op /\ call[c].at = at
Busy(c) == call[c].at # "idle"

\* An operation of Alone starts when nothing else runs and keeps others out.
Start(c, op, at, user, t, ch) ==
    /\ ~Busy(c)
    /\ op \in Alone => \A d \in Calls : ~Busy(d)
    /\ \A d \in Calls : call[d].op \notin Alone
    /\ call' = [call EXCEPT ![c] = [op |-> op, at |-> at, user |-> user,
                                    token |-> t, chat |-> ch]]
    /\ UNCHANGED <<chat, token, world, history, faults>>
Goto(c, at) == call' = [call EXCEPT ![c].at = at]
Finish(c) == call' = [call EXCEPT ![c] = IdleCall]

\* A statement that fails ends its handler: a 503, or an answer to try again.
Fails(c) ==
    /\ call[c].at \in {"spend", "store", "link", "read", "clear", "forget"}
    /\ faults < MaxFaults
    /\ faults' = faults + 1
    /\ Finish(c)
    /\ UNCHANGED <<chat, token, world, history>>

Restart ==
    /\ \E c \in Calls : Busy(c)
    /\ call' = [c \in Calls |-> IdleCall]
    /\ UNCHANGED <<chat, token, world, history, faults>>

OfUser(u) == {t \in Tokens : token[t].user = u}

\* UPDATE ... SET used_at WHERE user_id = u AND used_at IS NULL
SpendOutstanding(u) ==
    token' = [t \in Tokens |-> IF t \in OfUser(u) THEN [token[t] EXCEPT !.live = FALSE]
                               ELSE token[t]]

-----------------------------------------------------------------------------
(* createLinkToken(): outstanding tokens are spent, then one is stored.     *)

Connect(c, u) == Start(c, "connect", "spend", u, None, None)

ConnectSpend(c) ==
    /\ At(c, "connect", "spend")
    /\ SpendOutstanding(call[c].user)
    /\ Goto(c, "store")
    /\ UNCHANGED <<chat, world, history, faults>>

ConnectStore(c, t) ==
    /\ At(c, "connect", "store")
    /\ token[t] = NoToken
    /\ token' = [token EXCEPT ![t] = [user |-> call[c].user, live |-> TRUE]]
    /\ Finish(c)
    /\ UNCHANGED <<chat, world, history, faults>>

Expires(t) ==
    /\ token[t].live
    /\ token' = [token EXCEPT ![t].live = FALSE]
    /\ UNCHANGED <<chat, call, world, history, faults>>

-----------------------------------------------------------------------------
(* A /start with a token, from any chat it was passed on to: redeem().      *)

StartBot(c, t, ch) ==
    /\ token[t].user # None /\ ch \notin blocked
    /\ Start(c, "start", "spend", None, t, ch)

\* Bug: the token is looked at now and spent when the chat is saved.
RedeemLooks(c) ==
    LET t == call[c].token
    IN  /\ At(c, "start", "spend")
        /\ IF token[t].live
           THEN call' = [call EXCEPT ![c].at = "link", ![c].user = token[t].user]
           ELSE Finish(c)
        /\ UNCHANGED <<chat, token, world, history, faults>>

\* One conditional UPDATE spends it and says whose it was.
RedeemSpend(c) ==
    LET t == call[c].token
    IN  /\ At(c, "start", "spend")
        /\ IF token[t].live
           THEN /\ token' = [token EXCEPT ![t].live = FALSE]
                /\ call' = [call EXCEPT ![c].at = "link", ![c].user = token[t].user]
           ELSE token' = token /\ Finish(c)
        /\ UNCHANGED <<chat, world, history, faults>>

\* Bug: a chat is taken from the account it belonged to.
RedeemTakes(c) ==
    LET ch == call[c].chat
    IN  /\ At(c, "start", "link")
        /\ chat' = [chat EXCEPT ![call[c].user] = ch]
        /\ links' = [links EXCEPT ![call[c].token] = @ + 1]
        /\ Finish(c)
        /\ UNCHANGED <<token, world, severed, faults>>

\* The unique index refuses a chat that is somebody else's.
RedeemLink(c) ==
    LET u == call[c].user
        ch == call[c].chat
    IN  /\ At(c, "start", "link")
        /\ IF \E v \in Users \ {u} : chat[v] = ch
           THEN UNCHANGED <<chat, links>>
           ELSE /\ chat' = [chat EXCEPT ![u] = ch]
                /\ links' = [links EXCEPT ![call[c].token] = @ + 1]
        /\ Finish(c)
        /\ UNCHANGED <<token, world, severed, faults>>

-----------------------------------------------------------------------------
(* unlink(): the chat is read to say goodbye in it, cleared, and the        *)
(* outstanding tokens are spent.                                            *)

Unlink(c, u) == Start(c, "unlink", "read", u, None, None)

UnlinkRead(c) ==
    /\ At(c, "unlink", "read")
    /\ Goto(c, "clear")
    /\ UNCHANGED <<chat, token, world, history, faults>>

UnlinkClear(c) ==
    /\ At(c, "unlink", "clear")
    /\ chat' = [chat EXCEPT ![call[c].user] = None]
    /\ Goto(c, "spend")
    /\ UNCHANGED <<token, world, history, faults>>

\* Bug: links that were handed out go on working.
UnlinkKeepsTokens(c) ==
    /\ At(c, "unlink", "spend")
    /\ severed' = severed \cup OfUser(call[c].user)
    /\ Finish(c)
    /\ UNCHANGED <<chat, token, world, links, faults>>

UnlinkSpend(c) ==
    /\ At(c, "unlink", "spend")
    /\ SpendOutstanding(call[c].user)
    /\ severed' = severed \cup OfUser(call[c].user)
    /\ Finish(c)
    /\ UNCHANGED <<chat, world, links, faults>>

-----------------------------------------------------------------------------
(* notifyUser(), which create() starts once a notification is saved and     *)
(* nobody awaits.                                                           *)

Notify(c, u) == Start(c, "notify", "read", u, None, None)

NotifyRead(c) ==
    LET ch == chat[call[c].user]
    IN  /\ At(c, "notify", "read")
        /\ IF ch = None THEN Finish(c)
           ELSE call' = [call EXCEPT ![c].at = "send", ![c].chat = ch]
        /\ UNCHANGED <<chat, token, world, history, faults>>

\* A call of the Bot API about a chat: answered, refused, or lost on the way.
Answers(c) == call[c].chat \notin blocked /\ UNCHANGED faults
FailsToAnswer(c) ==
    \/ call[c].chat \in blocked /\ UNCHANGED faults
    \/ faults < MaxFaults /\ faults' = faults + 1

\* Bug: a message that did not get through forgets the chat.
SendOrForget(c) ==
    /\ At(c, "notify", "send")
    /\ \/ Answers(c) /\ Finish(c)
       \/ FailsToAnswer(c) /\ Goto(c, "forget")
    /\ UNCHANGED <<chat, token, world, history>>

SendMessage(c) ==
    /\ At(c, "notify", "send")
    /\ \/ Answers(c) /\ Finish(c)
       \/ FailsToAnswer(c) /\ Goto(c, "getChat")
    /\ UNCHANGED <<chat, token, world, history>>

\* forgetIfUnreachable(): the chat is asked for before it is given up.  Telegram
\* may describe a chat in which the bot is blocked.
GetChat(c) ==
    /\ At(c, "notify", "getChat")
    /\ \/ Finish(c) /\ UNCHANGED faults
       \/ FailsToAnswer(c) /\ Goto(c, "forget")
    /\ UNCHANGED <<chat, token, world, history>>

\* UPDATE ... WHERE telegram_chat_id = ..., whoever has it by now.
Forget(c) ==
    /\ At(c, "notify", "forget")
    /\ chat' = [u \in Users |-> IF chat[u] = call[c].chat THEN None ELSE chat[u]]
    /\ Finish(c)
    /\ UNCHANGED <<token, world, history, faults>>

Block(ch) ==
    /\ ch \notin blocks /\ Cardinality(blocks) < MaxBlocks
    /\ blocked' = blocked \cup {ch} /\ blocks' = blocks \cup {ch}
    /\ UNCHANGED <<chat, token, call, history, faults>>

Unblock(ch) ==
    /\ ch \in blocked
    /\ blocked' = blocked \ {ch}
    /\ UNCHANGED <<chat, token, call, blocks, history, faults>>

-----------------------------------------------------------------------------

Next ==
    \/ \E c \in Calls, u \in Users : Connect(c, u) \/ Unlink(c, u) \/ Notify(c, u)
    \/ \E c \in Calls, t \in Tokens : ConnectStore(c, t)
    \/ \E c \in Calls, t \in Tokens, ch \in Chats : StartBot(c, t, ch)
    \/ \E c \in Calls :
          \/ ConnectSpend(c) \/ RedeemSpend(c) \/ RedeemLink(c)
          \/ UnlinkRead(c) \/ UnlinkClear(c) \/ UnlinkSpend(c)
          \/ NotifyRead(c) \/ SendMessage(c) \/ GetChat(c) \/ Forget(c)
          \/ Fails(c)
    \/ \E t \in Tokens : Expires(t)
    \/ \E ch \in Chats : Block(ch) \/ Unblock(ch)
    \/ Restart

Spec == Init /\ [][Next]_vars

-----------------------------------------------------------------------------
(* Properties.                                                              *)

\* However often Telegram delivers a /start, and from however many chats the
\* link was opened at once, a token links one chat to its account, once: "two
\* /start messages racing must not both succeed" (redeem()).
TokenLinksOnce == \A t \in Tokens : links[t] <= 1

\* Once a user has disconnected, no link handed out before connects the account
\* again, whatever restarts come between.  Checked where disconnecting runs by
\* itself: a /start that overlaps it does connect it again (unlink(), redeem()).
DisconnectedForGood ==
    [][\A t \in severed : links'[t] = links[t]]_vars

\* "one failed send does not unlink someone over a momentary network blip"
\* (forgetIfUnreachable()): until two calls have failed, however many notifications
\* are under way, only the user's own request or a chat that was really out of
\* reach takes a link away.
OneBlipKeepsLink ==
    [][\A u \in Users :
          chat[u] # None /\ chat'[u] = None /\ faults <= 1
          => \/ chat[u] \in blocks
             \/ \E c \in Calls : At(c, "unlink", "clear") /\ call[c].user = u]_vars
=============================================================================
