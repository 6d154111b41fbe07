------------------------------ MODULE Throttle ------------------------------
(***************************************************************************)
(* Request limits: the tiers of rate-limit.config.ts, how the guard tells   *)
(* callers apart, and the counters of redis-throttler.storage.ts with the   *)
(* in-process store they fall back to.                                      *)
(***************************************************************************)
EXTENDS SharedCounters, Sequences

CONSTANTS
    Clients,   \* callers: [user, cookie, ip, email], None where there is none
    Limit,     \* how many requests each rule lets through
    Window,    \* and in how many ticks
    Traffics,  \* which tiers a behaviour's requests are of: sets of tiers
    None

Tiers == {"global", "auth", "signup", "refresh", "email-send", "email-code",
          "oauth", "write", "upload", "search", "book-request",
          "telegram-link", "telegram-webhook"}

\* A tier is one counter or two; all of them must let a request through.
RulesOf(tier) ==
    CASE tier = "auth" -> <<"auth-account", "auth-ip">>
      [] tier = "email-send" -> <<"email-send-ip", "email-send-addr">>
      [] tier = "email-code" -> <<"email-code-addr", "email-code-ip">>
      [] OTHER -> <<tier>>
RulesIn(tiers) ==
    UNION {{RulesOf(t)[i] : i \in 1 .. Len(RulesOf(t))} : t \in tiers}

KeyKind(rule) ==
    CASE rule \in {"auth-account", "email-send-addr", "email-code-addr"} ->
            "ip-email"
      [] rule = "refresh" -> "refresh-user"
      [] rule \in {"write", "upload", "search", "book-request",
                   "telegram-link"} -> "user"
      [] OTHER -> "ip"

ASSUME LimitsAssumption ==
    /\ Traffics \subseteq SUBSET Tiers /\ Traffics # {}
    /\ \A c \in Clients : c.ip # None
    /\ Limit \in [RulesIn(UNION Traffics) -> Nat]
    /\ Window \in [RulesIn(UNION Traffics) -> Nat \ {0}]

VARIABLES
    traffic, \* the tiers of this behaviour's requests
    hits,    \* per store and counter: requests counted
    block,   \* per store and counter: refused until it expires
    opened   \* history: windows a counter was given, over all stores

\* Bug: the route's own guard has not run yet, so nobody has a user.
TrackerByAddress(rule, client) ==
    IF KeyKind(rule) = "ip-email"
    THEN <<"ipmail", client.ip, client.email>>
    ELSE <<"ip", client.ip>>

\* Who a request is counted against.  A token or cookie that does not verify
\* names nobody, and the request is counted by its address.
TrackerFor(rule, client) ==
    LET kind == KeyKind(rule)
        id == IF kind = "user" THEN client.user
              ELSE IF kind = "refresh-user" THEN client.cookie ELSE None
    IN  CASE kind = "ip-email" -> <<"ipmail", client.ip, client.email>>
          [] id # None -> <<"user", id>>
          [] OTHER -> <<"ip", client.ip>>

TrackersOf(rule) ==
    LET kind == KeyKind(rule)
        ids == IF kind = "user" THEN {c.user : c \in Clients}
               ELSE IF kind = "refresh-user" THEN {c.cookie : c \in Clients}
               ELSE {}
    IN  IF kind = "ip-email"
        THEN {<<"ipmail", c.ip, c.email>> : c \in Clients}
        ELSE {<<"ip", c.ip>> : c \in Clients}
             \cup {<<"user", i>> : i \in ids \ {None}}
Counters == UNION {{r} \X TrackersOf(r) : r \in RulesIn(traffic)}

ThrottleInit ==
    /\ traffic \in Traffics
    /\ hits = [s \in Stores |-> [k \in Counters |-> NoKey]]
    /\ block = [s \in Stores |-> [k \in Counters |-> NoKey]]
    /\ opened = [k \in Counters |-> 0]

\* Bug: the hit that passes the limit is let through before the block.
RefusesLate(s, k) == block[s][k].on \/ hits[s][k].value > Limit[k[1]]

\* What INCREMENT is about to answer.
Refuses(s, k) == block[s][k].on \/ hits[s][k].value >= Limit[k[1]]

\* INCREMENT: nothing is counted while the block lives; the first hit opens
\* a window, and the one past the limit starts a block of a whole window.
Increment(s, k) ==
    IF block[s][k].on
    THEN UNCHANGED <<hits, block, opened>>
    ELSE LET n == hits[s][k].value + 1
         IN  /\ hits' = [hits EXCEPT ![s][k] =
                   [on |-> TRUE, value |-> n,
                    left |-> IF n = 1 \/ @.left = 0 THEN Window[k[1]]
                             ELSE @.left]]
             /\ block' = [block EXCEPT ![s][k] =
                   IF n > Limit[k[1]] THEN [on |-> TRUE, value |-> 1,
                                            left |-> Window[k[1]]]
                   ELSE @]
             /\ opened' = [opened EXCEPT ![k] = IF n = 1 THEN @ + 1 ELSE @]

ThrottleAges ==
    /\ hits' = [s \in Stores |-> [k \in Counters |-> Aged(hits[s][k])]]
    /\ block' = [s \in Stores |-> [k \in Counters |-> Aged(block[s][k])]]
    /\ UNCHANGED <<opened, traffic>>

\* The process ends, and with it what it counted by itself.
ThrottleForgets(p) ==
    /\ hits' = [hits EXCEPT ![p] = [k \in Counters |-> NoKey]]
    /\ block' = [block EXCEPT ![p] = [k \in Counters |-> NoKey]]
    /\ UNCHANGED <<opened, traffic>>
=============================================================================
