---------------------------- MODULE Limits_proofs ----------------------------
(***************************************************************************)
(* Proofs about Limits for every number of requests, callers and processes, *)
(* every limit and window, and however often Redis fails.                   *)
(***************************************************************************)
EXTENDS Limits, FiniteSetTheorems, TLAPS

-----------------------------------------------------------------------------
(* The rules of a tier, and who is counted by them.                         *)

LEMMA TwoRulesAtMost ==
  ASSUME NEW tier
  PROVE  /\ Len(RulesOf(tier)) \in {1, 2}
         /\ Len(RulesOf(tier)) = 2 => RulesOf(tier)[1] # RulesOf(tier)[2]
  BY DEF RulesOf

LEMMA RulesKnown ==
  ASSUME NEW T \in Traffics, NEW tier \in T, NEW i \in 1 .. Len(RulesOf(tier))
  PROVE  /\ RulesOf(tier)[i] \in RulesIn(T)
         /\ RulesOf(tier)[i] \in RulesIn(UNION Traffics)
  BY DEF RulesIn

LEMMA TrackersKnown ==
  ASSUME NEW rule, NEW client \in Clients
  PROVE  TrackerFor(rule, client) \in TrackersOf(rule)
<1>1. KeyKind(rule) \in {"ip-email", "refresh-user", "user", "ip"}
  BY DEF KeyKind
<1>2. CASE KeyKind(rule) = "ip-email"
  BY <1>2 DEF TrackerFor, TrackersOf
<1>3. CASE KeyKind(rule) = "refresh-user"
  BY <1>3 DEF TrackerFor, TrackersOf
<1>4. CASE KeyKind(rule) = "user"
  BY <1>4 DEF TrackerFor, TrackersOf
<1>5. CASE KeyKind(rule) = "ip"
  BY <1>5 DEF TrackerFor, TrackersOf
<1>6. QED
  BY <1>1, <1>2, <1>3, <1>4, <1>5

\* Every counter has a limit, and a window of a tick or more.
LEMMA CountersLimited ==
  ASSUME traffic \in Traffics, NEW k \in Counters
  PROVE  Limit[k[1]] \in Nat /\ Window[k[1]] \in Nat /\ Window[k[1]] > 0
<1>1. PICK rule \in RulesIn(traffic) : k \in {rule} \X TrackersOf(rule)
  BY DEF Counters
<1>2. k[1] = rule
  BY <1>1
<1>3. PICK tier \in traffic :
               \E i \in 1 .. Len(RulesOf(tier)) : rule = RulesOf(tier)[i]
  BY <1>1 DEF RulesIn
<1>4. rule \in RulesIn(UNION Traffics)
  BY <1>3, RulesKnown
<1>5. Limit[rule] \in Nat /\ Window[rule] \in Nat \ {0}
  BY <1>4, LimitsAssumption
<1>6. QED
  BY <1>2, <1>5

-----------------------------------------------------------------------------
(* The inductive invariant.                                                 *)

Paying == {"charge", "chargeAlone", "file", "refund", "refundAlone"}

\* What is known of a request once it has come in.
ReqOK(q) ==
    /\ q.at = "new" => q.rule = 0 /\ q.process = None
    /\ q.at # "new" => /\ q.client \in Clients /\ q.tier \in traffic
                       /\ q.rule \in 1 .. Len(RulesOf(q.tier))
                       /\ q.tier = "upload" => q.client.user \in Payers
    /\ q.at \notin Ended \cup {"new"} => q.process \in Processes
    /\ q.at \in Ended => q.process = None
    /\ q.at \in Paying => q.tier = "upload"
ReqInv == \A r \in Requests : ReqOK(request[r])

\* A key that is not there counts nothing.
KeyOK(key) ==
    /\ ~key.on => key.value = 0
    /\ key.on => key.left > 0
KeyInv ==
    /\ \A k \in Counters, s \in Stores : KeyOK(hits[s][k]) /\ KeyOK(block[s][k])
    /\ \A u \in Payers, s \in Stores : KeyOK(quota[s][u])

IInv == TypeOK /\ ReqInv /\ KeyInv

CounterKey == [on : BOOLEAN, value : Nat, left : Nat]
QuotaKey == [on : BOOLEAN, value : 0 .. MaxBytes, left : 0 .. QuotaWindow]

\* The counter a request is counted by under the rule it is at, or any other.
KeyOf(r, i) ==
    LET rule == RulesOf(request[r].tier)[i]
    IN  <<rule, TrackerFor(rule, request[r].client)>>

LEMMA KeyKnown ==
  ASSUME traffic \in Traffics, NEW r \in Requests, request[r].client \in Clients,
         request[r].tier \in traffic,
         NEW i \in 1 .. Len(RulesOf(request[r].tier))
  PROVE  KeyOf(r, i) \in Counters
<1> DEFINE rule == RulesOf(request[r].tier)[i]
<1>1. rule \in RulesIn(traffic)
  BY RulesKnown
<1>2. TrackerFor(rule, request[r].client) \in TrackersOf(rule)
  BY TrackersKnown
<1>3. QED
  BY <1>1, <1>2 DEF KeyOf, Counters

LEMMA CounterKnown ==
  ASSUME IInv, NEW r \in Requests, ~At(r, "new")
  PROVE  Counter(r) \in Counters /\ Counter(r) = KeyOf(r, request[r].rule)
<1>1. ReqOK(request[r]) /\ traffic \in Traffics
  BY DEF IInv, TypeOK, ReqInv
<1>2. Counter(r) = KeyOf(r, request[r].rule)
  BY DEF Counter, Rule, KeyOf
<1>3. QED
  BY <1>1, <1>2, KeyKnown DEF ReqOK, At

LEMMA InitInv == Init => IInv
<1> SUFFICES ASSUME Init PROVE IInv
  OBVIOUS
<1>1. /\ NoKey \in CounterKey /\ NoKey \in QuotaKey /\ KeyOK(NoKey)
      /\ NoRequest \in RequestRecord
  BY QuotaAssumption
  DEF NoKey, CounterKey, QuotaKey, KeyOK, NoRequest, RequestRecord, Positions
<1>2. LinkTypeOK
  BY StoresAssumption DEF Init, LinkInit, LinkTypeOK, Links
<1>3. QuotaTypeOK
  BY <1>1 DEF Init, QuotaInit, QuotaTypeOK, Keys, QuotaKey
<1>4. TypeOK
  BY <1>1, <1>2, <1>3 DEF Init, ThrottleInit, TypeOK, CounterKey
<1>5. ReqInv
  BY DEF Init, ReqInv, ReqOK, NoRequest, Ended, Paying
<1>6. KeyInv
  BY <1>1 DEF Init, ThrottleInit, QuotaInit, KeyInv
<1>7. QED
  BY <1>4, <1>5, <1>6 DEF IInv

-----------------------------------------------------------------------------
(* What the scripts do to the counters and budgets.                         *)

LEMMA AgedOK ==
  ASSUME NEW key \in CounterKey, KeyOK(key)
  PROVE  /\ Aged(key) \in CounterKey /\ KeyOK(Aged(key))
         /\ Aged(key).value \in {0, key.value}
         /\ Aged(key).on => key.on
         /\ Aged(key).left <= key.left
  BY DEF CounterKey, KeyOK, Aged, NoKey

LEMMA AgedBudgetOK ==
  ASSUME NEW key \in QuotaKey, KeyOK(key)
  PROVE  Aged(key) \in QuotaKey /\ KeyOK(Aged(key))
  BY QuotaAssumption DEF QuotaKey, KeyOK, Aged, NoKey

LEMMA IncrementWrites ==
  ASSUME IInv, NEW s \in Stores, NEW k \in Counters, Increment(s, k)
  PROVE  /\ hits' \in [Stores -> [Counters -> CounterKey]]
         /\ block' \in [Stores -> [Counters -> CounterKey]]
         /\ opened' \in [Counters -> Nat]
         /\ \A c \in Counters, t \in Stores :
               KeyOK(hits'[t][c]) /\ KeyOK(block'[t][c])
         /\ \A c \in Counters, t \in Stores : c # k \/ t # s =>
               hits'[t][c] = hits[t][c] /\ block'[t][c] = block[t][c]
         /\ \A c \in Counters : c # k => opened'[c] = opened[c]
         /\ block[s][k].on => UNCHANGED <<hits, block, opened>>
         /\ ~block[s][k].on =>
               /\ hits'[s][k].value = hits[s][k].value + 1
               /\ block'[s][k].on => hits[s][k].value + 1 > Limit[k[1]]
               /\ opened'[k] = IF hits[s][k].value = 0 THEN opened[k] + 1
                               ELSE opened[k]
<1>1. /\ hits \in [Stores -> [Counters -> CounterKey]]
      /\ block \in [Stores -> [Counters -> CounterKey]]
      /\ opened \in [Counters -> Nat]
      /\ \A c \in Counters, t \in Stores : KeyOK(hits[t][c]) /\ KeyOK(block[t][c])
  BY DEF IInv, TypeOK, KeyInv, CounterKey
<1>2. CASE block[s][k].on
  BY <1>1, <1>2 DEF Increment
<1>3. CASE ~block[s][k].on
  <2> DEFINE n == hits[s][k].value + 1
             h == [on |-> TRUE, value |-> n,
                   left |-> IF n = 1 \/ hits[s][k].left = 0 THEN Window[k[1]]
                            ELSE hits[s][k].left]
             b == IF n > Limit[k[1]]
                  THEN [on |-> TRUE, value |-> 1, left |-> Window[k[1]]]
                  ELSE block[s][k]
             o == IF n = 1 THEN opened[k] + 1 ELSE opened[k]
  <2>1. /\ hits[s][k] \in CounterKey /\ block[s][k] \in CounterKey
        /\ hits[s][k].value \in Nat /\ hits[s][k].left \in Nat
        /\ KeyOK(hits[s][k]) /\ KeyOK(block[s][k]) /\ opened[k] \in Nat
    BY <1>1 DEF CounterKey
  <2>2. Limit[k[1]] \in Nat /\ Window[k[1]] \in Nat /\ Window[k[1]] > 0
    <3>1. traffic \in Traffics
      BY DEF IInv, TypeOK
    <3>2. QED
      BY <3>1, CountersLimited, Zenon
  <2>3. h \in CounterKey /\ KeyOK(h) /\ h.value = n
    BY <2>1, <2>2 DEF CounterKey, KeyOK
  <2>4. b \in CounterKey /\ KeyOK(b) /\ (b.on => n > Limit[k[1]])
    BY <1>3, <2>1, <2>2 DEF CounterKey, KeyOK
  <2>5. o \in Nat /\ (o = IF hits[s][k].value = 0 THEN opened[k] + 1 ELSE opened[k])
    BY <2>1
  <2>6. /\ hits' = [hits EXCEPT ![s] = [hits[s] EXCEPT ![k] = h]]
        /\ block' = [block EXCEPT ![s] = [block[s] EXCEPT ![k] = b]]
        /\ opened' = [opened EXCEPT ![k] = o]
    BY <1>1, <1>3 DEF Increment
  <2>7. hits[s] \in [Counters -> CounterKey] /\ block[s] \in [Counters -> CounterKey]
    BY <1>1
  <2> HIDE DEF h, b, o
  <2>8. /\ [hits[s] EXCEPT ![k] = h] \in [Counters -> CounterKey]
        /\ [block[s] EXCEPT ![k] = b] \in [Counters -> CounterKey]
    BY <2>3, <2>4, <2>7
  <2>9. /\ hits' \in [Stores -> [Counters -> CounterKey]]
        /\ block' \in [Stores -> [Counters -> CounterKey]]
        /\ opened' \in [Counters -> Nat]
    BY <1>1, <2>5, <2>6, <2>8
  <2>10. /\ hits'[s][k] = h /\ block'[s][k] = b /\ opened'[k] = o
         /\ \A c \in Counters, t \in Stores : c # k \/ t # s =>
               hits'[t][c] = hits[t][c] /\ block'[t][c] = block[t][c]
         /\ \A c \in Counters : c # k => opened'[c] = opened[c]
    BY <1>1, <2>6, <2>7
  <2>11. \A c \in Counters, t \in Stores : KeyOK(hits'[t][c]) /\ KeyOK(block'[t][c])
    BY <1>1, <2>3, <2>4, <2>10
  <2>12. QED
    BY <1>3, <2>3, <2>4, <2>5, <2>9, <2>10, <2>11
<1>4. QED
  BY <1>2, <1>3

\* A budget stays one, and ends: what is taken fits it.
LEMMA TakeWrites ==
  ASSUME IInv, NEW s \in Stores, NEW u \in Payers, NEW bytes \in Nat,
         Affordable(s, u, bytes), Take(s, u, bytes)
  PROVE  QuotaTypeOK' /\ \A v \in Payers, t \in Stores : KeyOK(quota'[t][v])
<1> DEFINE old == quota[s][u]
           opens == IF s = Shared THEN old.value = 0 \/ old.left = 0 ELSE ~old.on
           new == [on |-> TRUE, value |-> old.value + bytes,
                   left |-> IF opens THEN QuotaWindow ELSE old.left]
<1>1. /\ quota \in [Stores -> [Payers -> QuotaKey]]
      /\ granted \in [Payers -> Nat]
      /\ \A v \in Payers, t \in Stores : KeyOK(quota[t][v])
  BY DEF IInv, TypeOK, QuotaTypeOK, Keys, QuotaKey, KeyInv
<1>2. old \in QuotaKey /\ KeyOK(old)
  BY <1>1
<1>3. old.value + bytes \in 0 .. MaxBytes
  BY <1>2 DEF QuotaKey, Affordable
<1>4. /\ old.left \in 0 .. QuotaWindow
      /\ ~opens => old.left > 0
  BY <1>2 DEF QuotaKey, KeyOK
<1>5. new \in QuotaKey /\ KeyOK(new)
  <2> HIDE DEF opens
  <2>1. QED
    BY <1>3, <1>4, QuotaAssumption DEF QuotaKey, KeyOK
<1>6. quota' = [quota EXCEPT ![s] = [quota[s] EXCEPT ![u] = new]]
  BY <1>1 DEF Take
<1>7. granted' \in [Payers -> Nat]
  BY <1>1 DEF Take
<1> HIDE DEF new
<1>8. [quota[s] EXCEPT ![u] = new] \in [Payers -> QuotaKey]
  BY <1>1, <1>5
<1>9. quota' \in [Stores -> [Payers -> QuotaKey]]
  BY <1>1, <1>6, <1>8
<1>10. \A v \in Payers, t \in Stores : KeyOK(quota'[t][v])
  BY <1>1, <1>5, <1>6
<1>11. QED
  BY <1>7, <1>9, <1>10 DEF QuotaTypeOK, Keys, QuotaKey

LEMMA GiveBackWrites ==
  ASSUME IInv, NEW s \in Stores, NEW u \in Payers, NEW bytes \in Nat,
         GiveBack(s, u, bytes)
  PROVE  QuotaTypeOK' /\ \A v \in Payers, t \in Stores : KeyOK(quota'[t][v])
<1> DEFINE old == quota[s][u]
           new == [old EXCEPT !.value = Difference(old.value, bytes)]
<1>1. /\ quota \in [Stores -> [Payers -> QuotaKey]]
      /\ granted \in [Payers -> Nat]
      /\ \A v \in Payers, t \in Stores : KeyOK(quota[t][v])
  BY DEF IInv, TypeOK, QuotaTypeOK, Keys, QuotaKey, KeyInv
<1>2. old \in QuotaKey /\ KeyOK(old)
  BY <1>1
<1>3. Difference(old.value, bytes) \in 0 .. MaxBytes
      /\ (old.value = 0 => Difference(old.value, bytes) = 0)
  BY <1>2, QuotaAssumption DEF QuotaKey, Difference
<1>4. new \in QuotaKey /\ KeyOK(new)
  BY <1>2, <1>3 DEF QuotaKey, KeyOK
<1>5. quota' = [quota EXCEPT ![s] = [quota[s] EXCEPT ![u] = new]]
  BY <1>1 DEF GiveBack
<1>6. granted' = granted
  BY DEF GiveBack
<1> HIDE DEF new
<1>7. [quota[s] EXCEPT ![u] = new] \in [Payers -> QuotaKey]
  BY <1>1, <1>4
<1>8. quota' \in [Stores -> [Payers -> QuotaKey]]
  BY <1>1, <1>5, <1>7
<1>9. \A v \in Payers, t \in Stores : KeyOK(quota'[t][v])
  BY <1>1, <1>4, <1>5
<1>10. QED
  BY <1>1, <1>6, <1>8, <1>9 DEF QuotaTypeOK, Keys, QuotaKey

-----------------------------------------------------------------------------
(* What becomes of the requests.                                            *)

LEMMA GotoWrites ==
  ASSUME IInv, NEW r \in Requests, ~At(r, "new"),
         NEW at \in Positions, at # "new", Goto(r, at),
         at \notin Ended => request[r].process \in Processes,
         at \in Paying => request[r].tier = "upload"
  PROVE  /\ request' \in [Requests -> RequestRecord]
         /\ \A q \in Requests : ReqOK(request'[q])
         /\ \A q \in Requests : q # r => request'[q] = request[q]
         /\ request'[r].at = at /\ request'[r].client = request[r].client
         /\ request'[r].tier = request[r].tier
         /\ request'[r].rule = request[r].rule
<1>1. /\ request \in [Requests -> RequestRecord]
      /\ \A q \in Requests : ReqOK(request[q])
  BY DEF IInv, TypeOK, ReqInv
<1> DEFINE q0 == request[r]
           process == IF at \in Ended THEN None ELSE q0.process
           moved == [q0 EXCEPT !.at = at, !.process = process]
<1>2. q0 \in RequestRecord /\ ReqOK(q0) /\ q0.at # "new"
  BY <1>1 DEF At
<1>3. process \in Processes \cup {None}
  BY <1>2 DEF RequestRecord
<1>4. request' = [request EXCEPT ![r] = moved]
  BY <1>1 DEF Goto
<1>5. /\ moved.at = at /\ moved.client = q0.client /\ moved.tier = q0.tier
      /\ moved.rule = q0.rule /\ moved.process = process
  BY <1>2 DEF RequestRecord
<1>6. moved \in RequestRecord
  BY <1>2, <1>3 DEF RequestRecord
<1>7. ReqOK(moved)
  <2> HIDE DEF moved
  <2>1. QED
    BY <1>2, <1>5 DEF ReqOK
<1> HIDE DEF moved, process, q0
<1>8. request'[r] = moved /\ \A q \in Requests : q # r => request'[q] = request[q]
  BY <1>1, <1>4
<1>9. request' \in [Requests -> RequestRecord]
  BY <1>1, <1>4, <1>6
<1>10. QED
  BY <1>1, <1>5, <1>7, <1>8, <1>9 DEF q0

\* On to the next rule of the tier.
LEMMA NextRuleWrites ==
  ASSUME IInv, NEW r \in Requests, At(r, "guard") \/ At(r, "guardAlone"),
         request[r].rule < Len(RulesOf(request[r].tier)),
         request' = [request EXCEPT ![r].rule = @ + 1, ![r].at = "guard"]
  PROVE  /\ request' \in [Requests -> RequestRecord]
         /\ \A q \in Requests : ReqOK(request'[q])
         /\ \A q \in Requests : q # r => request'[q] = request[q]
         /\ request'[r].at = "guard" /\ request'[r].client = request[r].client
         /\ request'[r].tier = request[r].tier
         /\ request'[r].rule = request[r].rule + 1
<1>1. /\ request \in [Requests -> RequestRecord]
      /\ \A q \in Requests : ReqOK(request[q])
  BY DEF IInv, TypeOK, ReqInv
<1> DEFINE q0 == request[r]
           next == q0.rule + 1
           moved == [q0 EXCEPT !.rule = next, !.at = "guard"]
<1>2. q0 \in RequestRecord /\ ReqOK(q0) /\ q0.at \in {"guard", "guardAlone"}
  BY <1>1 DEF At
<1>3. /\ q0.rule \in 0 .. 2 /\ next \in 0 .. 2
      /\ next \in 1 .. Len(RulesOf(q0.tier))
  <2>1. Len(RulesOf(q0.tier)) \in {1, 2}
    BY TwoRulesAtMost
  <2>2. q0.rule \in 0 .. 2
    BY <1>2 DEF RequestRecord
  <2>3. q0.rule < Len(RulesOf(q0.tier))
    OBVIOUS
  <2>4. \A a \in 0 .. 2, n \in {1, 2} :
           a < n => a + 1 \in 0 .. 2 /\ a + 1 \in 1 .. n
    OBVIOUS
  <2> HIDE DEF q0
  <2>5. QED
    BY <2>1, <2>2, <2>3, <2>4
<1>4. request' = [request EXCEPT ![r] = moved]
  BY <1>1
<1>5. /\ moved.at = "guard" /\ moved.client = q0.client /\ moved.tier = q0.tier
      /\ moved.rule = q0.rule + 1 /\ moved.process = q0.process
  BY <1>2 DEF RequestRecord
<1>6. moved \in RequestRecord
  <2> HIDE DEF next
  <2>1. QED
    BY <1>2, <1>3 DEF RequestRecord, Positions
<1>7. ReqOK(moved)
  <2> HIDE DEF moved
  <2>1. QED
    BY <1>2, <1>3, <1>5 DEF ReqOK, Ended, Paying
<1> HIDE DEF moved, q0
<1>8. request'[r] = moved /\ \A q \in Requests : q # r => request'[q] = request[q]
  BY <1>1, <1>4
<1>9. request' \in [Requests -> RequestRecord]
  BY <1>1, <1>4, <1>6
<1>10. QED
  BY <1>1, <1>5, <1>7, <1>8, <1>9 DEF q0

-----------------------------------------------------------------------------
(* The invariant holds after a step, and a step either counts one request   *)
(* in one store or counts nobody.                                           *)

CountsKept ==
    /\ hits' \in [Stores -> [Counters -> CounterKey]]
    /\ block' \in [Stores -> [Counters -> CounterKey]]
    /\ opened' \in [Counters -> Nat]
    /\ \A k \in Counters, s \in Stores : KeyOK(hits'[s][k]) /\ KeyOK(block'[s][k])
BudgetsKept ==
    /\ QuotaTypeOK'
    /\ \A u \in Payers, s \in Stores : KeyOK(quota'[s][u])
    /\ twice' \in [Payers -> Nat]
RequestsKept ==
    /\ request' \in [Requests -> RequestRecord]
    /\ \A r \in Requests : ReqOK(request'[r])

LEMMA Assemble ==
  ASSUME IInv, CountsKept, BudgetsKept, RequestsKept, LinkTypeOK',
         traffic' = traffic
  PROVE  IInv'
<1>1. Counters' = Counters
  BY DEF Counters
<1>2. TypeOK'
  BY <1>1 DEF IInv, TypeOK, CountsKept, BudgetsKept, RequestsKept, CounterKey
<1>3. ReqInv'
  BY DEF RequestsKept, ReqInv, ReqOK
<1>4. KeyInv'
  BY <1>1 DEF CountsKept, BudgetsKept, KeyInv, KeyOK
<1>5. QED
  BY <1>2, <1>3, <1>4 DEF IInv

LEMMA CountsUnchanged ==
  ASSUME IInv, UNCHANGED counting
  PROVE  CountsKept
  BY DEF IInv, TypeOK, KeyInv, CounterKey, counting, CountsKept

LEMMA BudgetsUnchanged ==
  ASSUME IInv, UNCHANGED paying
  PROVE  BudgetsKept
  BY DEF IInv, TypeOK, KeyInv, QuotaTypeOK, paying, BudgetsKept

LEMMA LinksUnchanged ==
  ASSUME IInv, UNCHANGED <<link, faults>>
  PROVE  LinkTypeOK'
  BY DEF IInv, TypeOK, LinkTypeOK

Waiting == {"guard", "guardAlone", "refused", "dropped"}

\* No rule counted it, let it through or refused it.
Quiet(q) ==
    \/ request'[q] = request[q]
    \/ /\ request[q].rule = 0
       /\ request'[q].rule = 1 /\ request'[q].at = "guard"
    \/ /\ request[q].at # "new"
       /\ request'[q].client = request[q].client
       /\ request'[q].tier = request[q].tier
       /\ request'[q].rule = request[q].rule
       /\ request'[q].at \notin {"guard", "refused"}
       /\ request'[q].at = "guardAlone" => request[q].at = "guard"
       /\ request[q].at \in Waiting => request'[q].at \in Waiting
QuietStep ==
    /\ traffic' = traffic /\ opened' = opened
    /\ \A k \in Counters, s \in Stores :
          /\ hits'[s][k].value \in {0, hits[s][k].value}
          /\ block'[s][k].on => block[s][k].on
    /\ \A q \in Requests : Quiet(q)

\* It is counted, and goes by the answer or, in Redis, loses it.
CountStep(s, r) ==
    /\ traffic' = traffic
    /\ At(r, "guard") \/ (At(r, "guardAlone") /\ s # Shared)
    /\ Increment(s, Counter(r))
    /\ \/ AfterRule(r, Refuses(s, Counter(r)))
       \/ s = Shared /\ At(r, "guard") /\ Goto(r, "guardAlone")
Steps == IInv' /\ (QuietStep \/ \E s \in Stores, r \in Requests : CountStep(s, r))

\* A request that is not being counted moves on.
LEMMA GotoQuiet ==
  ASSUME IInv, NEW r \in Requests, ~At(r, "new"),
         NEW at \in Positions \ {"new", "guard", "refused"}, Goto(r, at),
         at \notin Ended => request[r].process \in Processes,
         at \in Paying => request[r].tier = "upload",
         at = "guardAlone" => At(r, "guard"),
         At(r, "guard") \/ At(r, "guardAlone") => at = "guardAlone",
         ~At(r, "refused"), ~At(r, "dropped")
  PROVE  RequestsKept /\ \A q \in Requests : Quiet(q)
<1>1. /\ request' \in [Requests -> RequestRecord]
      /\ \A q \in Requests : ReqOK(request'[q])
      /\ \A q \in Requests : q # r => request'[q] = request[q]
      /\ request'[r].at = at /\ request'[r].client = request[r].client
      /\ request'[r].tier = request[r].tier
      /\ request'[r].rule = request[r].rule
  BY GotoWrites
<1>2. RequestsKept
  BY <1>1 DEF RequestsKept
<1>3. Quiet(r)
  BY <1>1 DEF Quiet, Waiting, At
<1>4. \A q \in Requests : q # r => Quiet(q)
  BY <1>1 DEF Quiet
<1>5. QED
  BY <1>2, <1>3, <1>4

LEMMA ArriveSteps ==
  ASSUME IInv, NEW r \in Requests, NEW c \in Clients, NEW p \in Processes,
         NEW tier \in traffic, NEW b \in Sizes, Arrive(r, c, p, tier, b)
  PROVE  Steps
<1>1. /\ request \in [Requests -> RequestRecord] /\ traffic \in Traffics
      /\ \A q \in Requests : ReqOK(request[q])
  BY DEF IInv, TypeOK, ReqInv
<1> DEFINE bytes == IF tier = "upload" THEN b ELSE 0
           come == [at |-> "guard", client |-> c, tier |-> tier, process |-> p,
                    rule |-> 1, bytes |-> bytes]
<1>2. tier \in Tiers
  BY <1>1, LimitsAssumption
<1>3. come \in RequestRecord
  <2>1. bytes \in Sizes \cup {0}
    OBVIOUS
  <2> HIDE DEF bytes
  <2>2. QED
    BY <1>2, <2>1 DEF RequestRecord, Positions
<1>4. tier = "upload" => c.user \in Payers
  BY RequestsAssumption DEF Arrive
<1>5. 1 \in 1 .. Len(RulesOf(tier))
  BY TwoRulesAtMost
<1>6. ReqOK(come)
  BY <1>4, <1>5 DEF ReqOK, Ended, Paying
<1>7. come.at = "guard" /\ come.rule = 1
  OBVIOUS
<1>8. request' = [request EXCEPT ![r] = come] /\ At(r, "new")
  BY DEF Arrive
<1> HIDE DEF come
<1>9. request'[r] = come /\ \A q \in Requests : q # r => request'[q] = request[q]
  BY <1>1, <1>8
<1>10. RequestsKept
  BY <1>1, <1>3, <1>6, <1>8, <1>9 DEF RequestsKept
<1>11. request[r].rule = 0
  BY <1>1, <1>8 DEF At, ReqOK
<1>12. \A q \in Requests : Quiet(q)
  BY <1>7, <1>9, <1>11 DEF Quiet
<1>13. UNCHANGED <<link, faults, counting, paying, traffic>>
  BY DEF Arrive
<1>14. IInv'
  BY <1>10, <1>13, Assemble, CountsUnchanged, BudgetsUnchanged, LinksUnchanged
<1>15. QuietStep
  BY <1>12, <1>13 DEF QuietStep, counting
<1>16. QED
  BY <1>14, <1>15 DEF Steps

\* Where a request that is counted in s goes.
Onward(s, r) ==
    /\ request'[r].client = request[r].client
    /\ request'[r].tier = request[r].tier
    /\ \/ /\ Refuses(s, Counter(r)) /\ request'[r].at = "refused"
          /\ request'[r].rule = request[r].rule
       \/ /\ ~Refuses(s, Counter(r)) /\ request'[r].at = "guard"
          /\ request'[r].rule = request[r].rule + 1
       \/ /\ ~Refuses(s, Counter(r)) /\ request'[r].at \in {"charge", "passed"}
          /\ request'[r].rule = request[r].rule
       \/ /\ s = Shared /\ At(r, "guard") /\ request'[r].at = "guardAlone"
          /\ request'[r].rule = request[r].rule

LEMMA CountStepWrites ==
  ASSUME IInv, NEW s \in Stores, NEW r \in Requests, CountStep(s, r)
  PROVE  /\ CountsKept /\ RequestsKept /\ Onward(s, r)
         /\ \A q \in Requests : q # r => request'[q] = request[q]
<1>1. At(r, "guard") \/ At(r, "guardAlone")
  BY DEF CountStep
<1>2. ~At(r, "new") /\ request[r].process \in Processes
  <2>1. ReqOK(request[r])
    BY DEF IInv, ReqInv
  <2>2. QED
    BY <1>1, <2>1 DEF At, ReqOK, Ended
<1>3. CountsKept
  <2>1. Counter(r) \in Counters
    BY <1>2, CounterKnown
  <2>2. QED
    BY <2>1, IncrementWrites DEF CountStep, CountsKept
<1> DEFINE Else == \A q \in Requests : q # r => request'[q] = request[q]
<1> DEFINE full == Refuses(s, Counter(r))
<1>4. \A at \in Positions :
         /\ at \notin {"new", "file", "refund", "refundAlone", "chargeAlone"}
         /\ at = "charge" => request[r].tier = "upload"
         /\ Goto(r, at)
         => /\ RequestsKept /\ Else
            /\ request'[r].at = at /\ request'[r].client = request[r].client
            /\ request'[r].tier = request[r].tier
            /\ request'[r].rule = request[r].rule
  BY <1>2, GotoWrites DEF Paying, RequestsKept
<1>5. CASE AfterRule(r, full)
  <2>1. CASE full
    <3>1. Goto(r, "refused")
      BY <1>5, <2>1 DEF AfterRule
    <3>2. QED
      BY <1>3, <1>4, <2>1, <3>1 DEF Positions, Onward
  <2>2. CASE ~full /\ request[r].rule < Len(RulesOf(request[r].tier))
    <3>1. request' = [request EXCEPT ![r].rule = @ + 1, ![r].at = "guard"]
      BY <1>5, <2>2 DEF AfterRule
    <3>2. /\ RequestsKept /\ Else /\ request'[r].at = "guard"
          /\ request'[r].client = request[r].client
          /\ request'[r].tier = request[r].tier
          /\ request'[r].rule = request[r].rule + 1
      BY <1>1, <2>2, <3>1, NextRuleWrites DEF RequestsKept
    <3>3. QED
      BY <1>3, <2>2, <3>2 DEF Onward
  <2>3. CASE ~full /\ ~(request[r].rule < Len(RulesOf(request[r].tier)))
    <3>1. CASE request[r].tier = "upload"
      <4>1. Goto(r, "charge")
        BY <1>5, <2>3, <3>1 DEF AfterRule
      <4>2. QED
        BY <1>3, <1>4, <2>3, <3>1, <4>1 DEF Positions, Onward
    <3>2. CASE request[r].tier # "upload"
      <4>1. Goto(r, "passed")
        BY <1>5, <2>3, <3>2 DEF AfterRule
      <4>2. QED
        BY <1>3, <1>4, <2>3, <4>1 DEF Positions, Onward
    <3>3. QED
      BY <3>1, <3>2
  <2>4. QED
    BY <2>1, <2>2, <2>3
<1>6. CASE s = Shared /\ At(r, "guard") /\ Goto(r, "guardAlone")
  BY <1>3, <1>4, <1>6 DEF Positions, Onward
<1>7. QED
  BY <1>5, <1>6 DEF CountStep

LEMMA CountStepSteps ==
  ASSUME IInv, NEW s \in Stores, NEW r \in Requests, CountStep(s, r),
         UNCHANGED <<link, faults, paying>>
  PROVE  Steps
<1>1. CountsKept /\ RequestsKept
  BY CountStepWrites
<1>2. traffic' = traffic
  BY DEF CountStep
<1>3. IInv'
  BY <1>1, <1>2, Assemble, BudgetsUnchanged, LinksUnchanged
<1>4. QED
  BY <1>3 DEF Steps

LEMMA GuardSteps ==
  ASSUME IInv, NEW r \in Requests, GuardAsk(r) \/ GuardAlone(r)
  PROVE  Steps
<1>1. /\ At(r, "guard") \/ At(r, "guardAlone")
      /\ UNCHANGED <<link, faults, paying, traffic>>
  BY DEF GuardAsk, GuardAlone
<1>2. request[r].process \in Processes /\ ~At(r, "new")
  <2>1. ReqOK(request[r])
    BY DEF IInv, ReqInv
  <2>2. QED
    BY <1>1, <2>1 DEF At, ReqOK, Ended
<1>3. CASE \E s \in Stores : CountStep(s, r)
  BY <1>1, <1>3, CountStepSteps
<1>4. CASE GuardAlone(r)
  <2>1. request[r].process \in Stores /\ request[r].process # Shared
    BY <1>2, StoresAssumption DEF Stores
  <2>2. CountStep(request[r].process, r)
    BY <1>1, <1>4, <2>1 DEF GuardAlone, CountIn, CountStep
  <2>3. QED
    BY <1>3, <2>1, <2>2
<1>5. CASE GuardAsk(r)
  <2>1. Outcomes(request[r].process) \subseteq {"answered", "lost", "failed"}
    BY DEF Outcomes
  <2>2. At(r, "guard") /\ Shared \in Stores
    BY <1>5 DEF GuardAsk, Stores
  <2>3. \/ CountIn(Shared, r)
        \/ Increment(Shared, Counter(r)) /\ Goto(r, "guardAlone")
        \/ UNCHANGED counting /\ Goto(r, "guardAlone")
    BY <1>5, <2>1 DEF GuardAsk
  <2>4. CASE CountIn(Shared, r)
                 \/ (Increment(Shared, Counter(r)) /\ Goto(r, "guardAlone"))
    <3>1. CountStep(Shared, r)
      BY <1>1, <2>2, <2>4 DEF CountIn, CountStep
    <3>2. QED
      BY <1>3, <2>2, <3>1
  <2>5. CASE UNCHANGED counting /\ Goto(r, "guardAlone")
    <3>1. RequestsKept /\ \A q \in Requests : Quiet(q)
      BY <1>2, <2>2, <2>5, GotoQuiet DEF Positions, Paying, Ended, At
    <3>2. IInv'
      BY <1>1, <2>5, <3>1, Assemble, CountsUnchanged, BudgetsUnchanged,
         LinksUnchanged
    <3>3. QuietStep
      BY <1>1, <2>5, <3>1 DEF QuietStep, counting
    <3>4. QED
      BY <3>2, <3>3 DEF Steps
  <2>6. QED
    BY <2>3, <2>4, <2>5
<1>6. QED
  BY <1>4, <1>5

LEMMA UserPays ==
  ASSUME IInv, NEW r \in Requests, request[r].at \in Paying
  PROVE  /\ User(r) \in Payers /\ request[r].bytes \in Nat
         /\ request[r].tier = "upload" /\ ~At(r, "new")
         /\ request[r].process \in Processes /\ request[r].process \in Stores
         /\ request[r].process # Shared
<1>1. ReqOK(request[r]) /\ request[r] \in RequestRecord
  BY DEF IInv, TypeOK, ReqInv
<1>2. request[r].bytes \in Sizes \cup {0}
  BY <1>1 DEF RequestRecord
<1>3. request[r].bytes \in Nat
  BY <1>2, RequestsAssumption
<1>4. request[r].process \in Processes
  BY <1>1 DEF ReqOK, Paying, Ended
<1>5. QED
  BY <1>1, <1>3, <1>4, StoresAssumption DEF ReqOK, Paying, User, At, Stores

\* A request past its rules moves on, and only its budget changes.
LEMMA PaidSteps ==
  ASSUME IInv, NEW r \in Requests, request[r].at \in Paying,
         NEW at \in {"file", "overBudget", "chargeAlone", "stored", "unsuitable",
                     "refund", "refundAlone", "failed"},
         Goto(r, at), BudgetsKept,
         UNCHANGED <<link, faults, counting, traffic>>
  PROVE  Steps
<1>1. RequestsKept /\ \A q \in Requests : Quiet(q)
  BY UserPays, GotoQuiet DEF Positions, Paying, At
<1>2. IInv'
  BY <1>1, Assemble, CountsUnchanged, LinksUnchanged
<1>3. QuietStep
  BY <1>1 DEF QuietStep, counting
<1>4. QED
  BY <1>2, <1>3 DEF Steps

LEMMA TakeKept ==
  ASSUME IInv, NEW s \in Stores, NEW u \in Payers, NEW bytes \in Nat,
         twice' = twice,
         \/ Affordable(s, u, bytes) /\ Take(s, u, bytes)
         \/ UNCHANGED <<quota, granted>>
  PROVE  BudgetsKept
<1>1. CASE UNCHANGED <<quota, granted>>
  BY <1>1, BudgetsUnchanged DEF paying
<1>2. CASE Affordable(s, u, bytes) /\ Take(s, u, bytes)
  BY <1>2, TakeWrites DEF IInv, TypeOK, BudgetsKept
<1>3. QED
  BY <1>1, <1>2

LEMMA ChargeSteps ==
  ASSUME IInv, NEW r \in Requests, ChargeAsk(r) \/ ChargeAlone(r)
  PROVE  Steps
<1> DEFINE u == User(r)
           bytes == request[r].bytes
           pays(s) == \/ Affordable(s, u, bytes) /\ Take(s, u, bytes)
                      \/ UNCHANGED <<quota, granted>>
<1>1. /\ request[r].at \in Paying
      /\ UNCHANGED <<link, faults, counting, traffic>> /\ twice' = twice
  BY DEF ChargeAsk, ChargeAlone, At, Paying
<1>2. u \in Payers /\ bytes \in Nat /\ request[r].process \in Stores
  BY <1>1, UserPays
<1>3. \A s \in Stores : ChargeTo(s, r) =>
          pays(s) /\ (Goto(r, "file") \/ Goto(r, "overBudget"))
  BY DEF ChargeTo
<1>4. \A s \in Stores : ChargeUnseen(s, r) => pays(s)
  BY DEF ChargeUnseen
<1>5. \E s \in Stores, at \in {"file", "overBudget", "chargeAlone"} :
          pays(s) /\ Goto(r, at)
  <2>1. CASE ChargeAlone(r)
    BY <1>2, <1>3, <2>1 DEF ChargeAlone
  <2>2. CASE ChargeAsk(r)
    <3>1. Outcomes(request[r].process) \subseteq {"answered", "lost", "failed"}
      BY DEF Outcomes
    <3>2. \/ ChargeTo(Shared, r)
          \/ ChargeUnseen(Shared, r) /\ Goto(r, "chargeAlone")
          \/ UNCHANGED <<quota, granted>> /\ Goto(r, "chargeAlone")
      BY <2>2, <3>1 DEF ChargeAsk
    <3>3. Shared \in Stores
      BY DEF Stores
    <3>4. QED
      BY <1>3, <1>4, <3>2, <3>3
  <2>3. QED
    BY <2>1, <2>2
<1>6. PICK s \in Stores, at \in {"file", "overBudget", "chargeAlone"} :
          pays(s) /\ Goto(r, at)
  BY <1>5
<1>7. BudgetsKept
  BY <1>1, <1>2, <1>6, TakeKept
<1>8. QED
  BY <1>1, <1>6, <1>7, PaidSteps

LEMMA KeepFileSteps ==
  ASSUME IInv, NEW r \in Requests, KeepFile(r)
  PROVE  Steps
<1>1. BudgetsKept
  BY BudgetsUnchanged DEF KeepFile
<1>2. QED
  BY <1>1, PaidSteps DEF KeepFile, At, Paying

LEMMA RefundSteps ==
  ASSUME IInv, NEW r \in Requests, RefundAsk(r) \/ RefundAlone(r)
  PROVE  Steps
<1> DEFINE u == User(r)
           bytes == request[r].bytes
<1>1. /\ request[r].at \in Paying
      /\ UNCHANGED <<link, faults, counting, traffic>>
  BY DEF RefundAsk, RefundAlone, At, Paying
<1>2. u \in Payers /\ bytes \in Nat /\ request[r].process \in Stores
  BY <1>1, UserPays
<1>3. \E s \in Stores, at \in {"failed", "refundAlone"} :
          /\ GiveBack(s, u, bytes) \/ UNCHANGED <<quota, granted>>
          /\ Goto(r, at)
  <2>1. CASE RefundAlone(r)
    BY <1>2, <2>1 DEF RefundAlone
  <2>2. CASE RefundAsk(r)
    <3>1. Shared \in Stores
      BY DEF Stores
    <3>2. QED
      BY <2>2, <3>1 DEF RefundAsk
  <2>3. QED
    BY <2>1, <2>2
<1>4. PICK s \in Stores, at \in {"failed", "refundAlone"} :
          /\ GiveBack(s, u, bytes) \/ UNCHANGED <<quota, granted>>
          /\ Goto(r, at)
  BY <1>3
<1>5. QuotaTypeOK' /\ \A v \in Payers, t \in Stores : KeyOK(quota'[t][v])
  <2>1. CASE GiveBack(s, u, bytes)
    BY <1>2, <2>1, GiveBackWrites
  <2>2. CASE UNCHANGED <<quota, granted>>
    BY <2>2 DEF IInv, TypeOK, QuotaTypeOK, KeyInv
  <2>3. QED
    BY <1>4, <2>1, <2>2
<1>6. twice' \in [Payers -> Nat]
  <2>1. twice \in [Payers -> Nat]
    BY DEF IInv, TypeOK
  <2>2. CASE twice' = twice
    BY <2>1, <2>2
  <2>3. CASE twice' = [twice EXCEPT ![u] = @ + bytes]
    BY <1>2, <2>1, <2>3
  <2>4. twice' = twice \/ twice' = [twice EXCEPT ![u] = @ + bytes]
    BY DEF RefundAsk, RefundAlone
  <2>5. QED
    BY <2>2, <2>3, <2>4
<1>7. BudgetsKept
  BY <1>5, <1>6 DEF BudgetsKept
<1>8. QED
  BY <1>1, <1>4, <1>7, PaidSteps

LEMMA TickSteps ==
  ASSUME IInv, Tick
  PROVE  Steps
<1>1. /\ hits \in [Stores -> [Counters -> CounterKey]]
      /\ block \in [Stores -> [Counters -> CounterKey]]
      /\ opened \in [Counters -> Nat]
      /\ quota \in [Stores -> [Payers -> QuotaKey]]
      /\ granted \in [Payers -> Nat] /\ twice \in [Payers -> Nat]
      /\ \A k \in Counters, s \in Stores : KeyOK(hits[s][k]) /\ KeyOK(block[s][k])
      /\ \A u \in Payers, s \in Stores : KeyOK(quota[s][u])
  BY DEF IInv, TypeOK, KeyInv, QuotaTypeOK, Keys, CounterKey, QuotaKey
<1>2. /\ hits' = [s \in Stores |-> [k \in Counters |-> Aged(hits[s][k])]]
      /\ block' = [s \in Stores |-> [k \in Counters |-> Aged(block[s][k])]]
      /\ quota' = [s \in Stores |-> [u \in Payers |-> Aged(quota[s][u])]]
      /\ UNCHANGED <<opened, traffic, granted, link, faults, request, twice>>
  BY DEF Tick, ThrottleAges, QuotaAges
<1>3. \A k \in Counters, s \in Stores :
          /\ hits[s][k] \in CounterKey /\ hits'[s][k] = Aged(hits[s][k])
          /\ block[s][k] \in CounterKey /\ block'[s][k] = Aged(block[s][k])
  BY <1>1, <1>2
<1>4. \A k \in Counters, s \in Stores :
          /\ Aged(hits[s][k]) \in CounterKey /\ KeyOK(hits'[s][k])
          /\ Aged(block[s][k]) \in CounterKey /\ KeyOK(block'[s][k])
          /\ hits'[s][k].value \in {0, hits[s][k].value}
          /\ block'[s][k].on => block[s][k].on
  BY <1>1, <1>3, AgedOK
<1>5. CountsKept
  BY <1>1, <1>2, <1>4 DEF CountsKept
<1>6. \A u \in Payers, s \in Stores :
          /\ Aged(quota[s][u]) \in QuotaKey /\ KeyOK(Aged(quota[s][u]))
          /\ quota'[s][u] = Aged(quota[s][u])
  <2> SUFFICES ASSUME NEW u \in Payers, NEW s \in Stores
               PROVE  /\ Aged(quota[s][u]) \in QuotaKey /\ KeyOK(Aged(quota[s][u]))
                      /\ quota'[s][u] = Aged(quota[s][u])
    OBVIOUS
  <2>1. quota[s][u] \in QuotaKey /\ KeyOK(quota[s][u])
    BY <1>1
  <2>2. Aged(quota[s][u]) \in QuotaKey /\ KeyOK(Aged(quota[s][u]))
    BY <2>1, AgedBudgetOK
  <2>3. QED
    BY <1>2, <2>2
<1>7. BudgetsKept
  <2>1. quota' \in [Stores -> [Payers -> QuotaKey]]
    BY <1>2, <1>6
  <2>2. QED
    BY <1>1, <1>2, <1>6, <2>1 DEF BudgetsKept, QuotaTypeOK, Keys, QuotaKey
<1>8. RequestsKept /\ \A q \in Requests : Quiet(q)
  BY <1>2 DEF IInv, TypeOK, ReqInv, RequestsKept, Quiet
<1>9. IInv'
  BY <1>2, <1>5, <1>7, <1>8, Assemble, LinksUnchanged
<1>10. QuietStep
  BY <1>2, <1>4, <1>8 DEF QuietStep
<1>11. QED
  BY <1>9, <1>10 DEF Steps

LEMMA LinkSteps ==
  ASSUME IInv, NEW p \in Processes, LinkStep(p)
  PROVE  Steps
<1>1. /\ link \in [Processes -> Links] /\ faults \in 0 .. MaxFaults
      /\ MaxFaults \in Nat
  BY StoresAssumption DEF IInv, TypeOK, LinkTypeOK
<1>2. UNCHANGED <<counting, paying, request, traffic>>
  BY DEF LinkStep
<1>3. LinkTypeOK'
  BY <1>1 DEF LinkStep, Disconnects, Reconnects, Fault, LinkTypeOK, Links
<1>4. RequestsKept /\ \A q \in Requests : Quiet(q)
  BY <1>2 DEF IInv, TypeOK, ReqInv, RequestsKept, Quiet
<1>5. IInv'
  BY <1>2, <1>3, <1>4, Assemble, CountsUnchanged, BudgetsUnchanged
<1>6. QuietStep
  BY <1>2, <1>4 DEF QuietStep, counting
<1>7. QED
  BY <1>5, <1>6 DEF Steps

\* The requests of a process that ends are dropped.
LEMMA RestartSteps ==
  ASSUME IInv, NEW p \in Processes, Restart(p)
  PROVE  Steps
<1>1. /\ hits \in [Stores -> [Counters -> CounterKey]]
      /\ block \in [Stores -> [Counters -> CounterKey]]
      /\ opened \in [Counters -> Nat]
      /\ quota \in [Stores -> [Payers -> QuotaKey]]
      /\ granted \in [Payers -> Nat] /\ twice \in [Payers -> Nat]
      /\ \A k \in Counters, s \in Stores : KeyOK(hits[s][k]) /\ KeyOK(block[s][k])
      /\ \A u \in Payers, s \in Stores : KeyOK(quota[s][u])
      /\ link \in [Processes -> Links] /\ faults \in 0 .. MaxFaults
      /\ MaxFaults \in Nat
  BY StoresAssumption
  DEF IInv, TypeOK, KeyInv, QuotaTypeOK, Keys, CounterKey, QuotaKey, LinkTypeOK
<1>2. /\ NoKey \in CounterKey /\ NoKey \in QuotaKey /\ KeyOK(NoKey)
      /\ NoKey.value = 0 /\ NoKey.on = FALSE
  BY QuotaAssumption DEF NoKey, CounterKey, QuotaKey, KeyOK
<1>3. /\ hits' = [hits EXCEPT ![p] = [k \in Counters |-> NoKey]]
      /\ block' = [block EXCEPT ![p] = [k \in Counters |-> NoKey]]
      /\ quota' = [quota EXCEPT ![p] = [u \in Payers |-> NoKey]]
      /\ UNCHANGED <<opened, traffic, granted, link, twice>>
      /\ faults < MaxFaults /\ faults' = faults + 1
  BY DEF Restart, ThrottleForgets, QuotaForgets, Fault
<1>4. LinkTypeOK'
  BY <1>1, <1>3 DEF LinkTypeOK
<1>5. /\ [k \in Counters |-> NoKey] \in [Counters -> CounterKey]
      /\ [u \in Payers |-> NoKey] \in [Payers -> QuotaKey]
  BY <1>2
<1>6. \A k \in Counters, s \in Stores :
          /\ hits'[s][k] \in {NoKey, hits[s][k]}
          /\ block'[s][k] \in {NoKey, block[s][k]}
  BY <1>1, <1>3
<1>7. CountsKept
  <2>1. /\ hits' \in [Stores -> [Counters -> CounterKey]]
        /\ block' \in [Stores -> [Counters -> CounterKey]]
    BY <1>1, <1>3, <1>5
  <2>2. \A k \in Counters, s \in Stores : KeyOK(hits'[s][k]) /\ KeyOK(block'[s][k])
    BY <1>1, <1>2, <1>6
  <2>3. QED
    BY <1>1, <1>3, <2>1, <2>2 DEF CountsKept
<1>8. BudgetsKept
  <2>1. quota' \in [Stores -> [Payers -> QuotaKey]]
    BY <1>1, <1>3, <1>5
  <2>2. \A u \in Payers, s \in Stores : quota'[s][u] \in {NoKey, quota[s][u]}
    BY <1>1, <1>3
  <2>3. \A u \in Payers, s \in Stores : KeyOK(quota'[s][u])
    BY <1>1, <1>2, <2>2
  <2>4. QED
    BY <1>1, <1>3, <2>1, <2>3 DEF BudgetsKept, QuotaTypeOK, Keys, QuotaKey
<1> DEFINE dropped(q) == [request[q] EXCEPT !.at = "dropped", !.process = None]
<1>9. /\ request \in [Requests -> RequestRecord]
      /\ \A q \in Requests : ReqOK(request[q])
  BY DEF IInv, TypeOK, ReqInv
<1>10. request' = [q \in Requests |-> IF request[q].process = p THEN dropped(q)
                                      ELSE request[q]]
  BY DEF Restart
<1>11. \A q \in Requests : request[q].process = p =>
          /\ dropped(q) \in RequestRecord /\ ReqOK(dropped(q))
          /\ request[q].at \notin Ended \cup {"new"}
          /\ dropped(q).at = "dropped"
          /\ dropped(q).client = request[q].client
          /\ dropped(q).tier = request[q].tier
          /\ dropped(q).rule = request[q].rule
  <2> SUFFICES ASSUME NEW q \in Requests, request[q].process = p
               PROVE  /\ dropped(q) \in RequestRecord /\ ReqOK(dropped(q))
                      /\ request[q].at \notin Ended \cup {"new"}
                      /\ dropped(q).at = "dropped"
                      /\ dropped(q).client = request[q].client
                      /\ dropped(q).tier = request[q].tier
                      /\ dropped(q).rule = request[q].rule
    OBVIOUS
  <2>1. request[q] \in RequestRecord /\ ReqOK(request[q])
    BY <1>9
  <2>2. request[q].at \notin Ended \cup {"new"}
    BY <2>1, RequestsAssumption DEF ReqOK
  <2>3. dropped(q) \in RequestRecord
    BY <2>1 DEF RequestRecord, Positions
  <2>4. /\ dropped(q).at = "dropped" /\ dropped(q).client = request[q].client
        /\ dropped(q).tier = request[q].tier /\ dropped(q).rule = request[q].rule
        /\ dropped(q).process = None
    BY <2>1 DEF RequestRecord
  <2> HIDE DEF dropped
  <2>5. ReqOK(dropped(q))
    BY <2>1, <2>2, <2>4 DEF ReqOK, Ended, Paying
  <2>6. QED
    BY <2>2, <2>3, <2>4, <2>5
<1> HIDE DEF dropped
<1>12. \A q \in Requests :
          request'[q] = IF request[q].process = p THEN dropped(q) ELSE request[q]
  BY <1>10
<1>13. RequestsKept
  BY <1>9, <1>10, <1>11, <1>12 DEF RequestsKept
<1>14. \A q \in Requests : Quiet(q)
  BY <1>11, <1>12 DEF Quiet, Waiting
<1>15. IInv'
  BY <1>3, <1>4, <1>7, <1>8, <1>13, Assemble
<1>16. QuietStep
  BY <1>2, <1>3, <1>6, <1>14 DEF QuietStep
<1>17. QED
  BY <1>15, <1>16 DEF Steps

LEMMA NextSteps == IInv /\ [Next]_vars => Steps
<1> SUFFICES ASSUME IInv, [Next]_vars PROVE Steps
  OBVIOUS
<1>1. CASE UNCHANGED vars
  <2>1. UNCHANGED <<counting, paying, link, faults, request, traffic>>
    BY <1>1 DEF vars, counting, paying
  <2>2. RequestsKept /\ \A q \in Requests : Quiet(q)
    BY <2>1 DEF IInv, TypeOK, ReqInv, RequestsKept, Quiet
  <2>3. IInv'
    BY <2>1, <2>2, Assemble, CountsUnchanged, BudgetsUnchanged, LinksUnchanged
  <2>4. QuietStep
    BY <2>1, <2>2 DEF QuietStep, counting
  <2>5. QED
    BY <2>3, <2>4 DEF Steps
<1>2. CASE \E r \in Requests : RequestStep(r)
  BY <1>2, ArriveSteps, GuardSteps, ChargeSteps, KeepFileSteps, RefundSteps
  DEF RequestStep
<1>3. CASE Tick
  BY <1>3, TickSteps
<1>4. CASE \E p \in Processes : LinkStep(p) \/ Restart(p)
  BY <1>4, LinkSteps, RestartSteps
<1>5. QED
  BY <1>1, <1>2, <1>3, <1>4 DEF Next

LEMMA NextInv == IInv /\ [Next]_vars => IInv'
  BY NextSteps DEF Steps

LEMMA SpecInv == Spec => []IInv
  BY InitInv, NextInv, PTL DEF Spec

\* The state is well typed: no budget is ever over the most it may hold, and
\* no request is at a rule its tier does not have.
THEOREM TypeCorrect == Spec => []TypeOK
<1>1. IInv => TypeOK
  BY DEF IInv
<1>2. QED
  BY <1>1, SpecInv, PTL

\* Every counter, block and budget that is there has ticks left: INCREMENT and
\* CONSUME give a window whenever they start one or find none, and REFUND
\* leaves the window it finds.
THEOREM WindowsEnd == Spec => []EveryWindowEnds
<1>1. IInv => EveryWindowEnds
  BY DEF IInv, KeyInv, KeyOK, EveryWindowEnds
<1>2. QED
  BY <1>1, SpecInv, PTL

-----------------------------------------------------------------------------
(* Who was counted, and who was let through.                                *)

LEMMA SmallerSet ==
  ASSUME NEW A, NEW B, IsFiniteSet(B), A \subseteq B
  PROVE  /\ Cardinality(A) \in Nat /\ Cardinality(B) \in Nat
         /\ Cardinality(A) <= Cardinality(B)
         /\ \A x \in B : x \notin A => Cardinality(A) + 1 <= Cardinality(B)
<1>1. IsFiniteSet(A) /\ Cardinality(A) <= Cardinality(B)
  BY FS_Subset
<1>2. Cardinality(A) \in Nat /\ Cardinality(B) \in Nat
  BY <1>1, FS_CardinalityType
<1>3. ASSUME NEW x \in B, x \notin A
      PROVE  Cardinality(A) + 1 <= Cardinality(B)
  <2>1. IsFiniteSet(A \cup {x}) /\ Cardinality(A \cup {x}) = Cardinality(A) + 1
    BY <1>1, <1>3, FS_AddElement
  <2>2. A \cup {x} \in SUBSET B
    BY <1>3
  <2>3. Cardinality(A \cup {x}) <= Cardinality(B)
    BY <2>2, FS_Subset
  <2>4. QED
    BY <2>1, <2>3
<1>4. QED
  BY <1>1, <1>2, <1>3

\* Those a store may have counted under a key: under the rules a request is
\* past, and under the one it is at once that has been asked.  A request that
\* lost its answer was counted in Redis, if anywhere.
CountedIn(s, k) ==
    {q \in Requests : \E i \in 1 .. request[q].rule :
        /\ KeyOf(q, i) = k
        /\ i = request[q].rule =>
              /\ ~At(q, "guard")
              /\ At(q, "guardAlone") => s = Shared}

LEMMA KeysDiffer ==
  ASSUME NEW r, NEW i \in 1 .. Len(RulesOf(request[r].tier)),
         NEW j \in 1 .. Len(RulesOf(request[r].tier)), i # j
  PROVE  KeyOf(r, i) # KeyOf(r, j)
<1> DEFINE rules == RulesOf(request[r].tier)
<1>1. Len(rules) \in {1, 2} /\ (Len(rules) = 2 => rules[1] # rules[2])
  BY TwoRulesAtMost
<1> HIDE DEF rules
<1>2. ((i = 1 /\ j = 2) \/ (i = 2 /\ j = 1)) /\ Len(rules) = 2
  <2>1. i \in 1 .. Len(rules) /\ j \in 1 .. Len(rules)
    BY DEF rules
  <2>2. \A n \in {1, 2} : i \in 1 .. n /\ j \in 1 .. n =>
            ((i = 1 /\ j = 2) \/ (i = 2 /\ j = 1)) /\ n = 2
    OBVIOUS
  <2>3. QED
    BY <1>1, <2>1, <2>2
<1>3. rules[i] # rules[j]
  BY <1>1, <1>2
<1>4. QED
  BY <1>3 DEF KeyOf, rules

LEMMA KeyStays ==
  ASSUME NEW q, NEW i, request'[q].client = request[q].client,
         request'[q].tier = request[q].tier
  PROVE  KeyOf(q, i)' = KeyOf(q, i)
  BY DEF KeyOf

LEMMA QuietSets ==
  ASSUME IInv, QuietStep, NEW k
  PROVE  /\ \A s : CountedIn(s, k) \subseteq CountedIn(s, k)'
         /\ PassedBy(k)' \subseteq PassedBy(k)
<1>1. \A q \in Requests : Quiet(q) /\ request[q] \in RequestRecord
  BY DEF QuietStep, IInv, TypeOK
<1>2. ASSUME NEW s, NEW q \in CountedIn(s, k)
      PROVE  q \in CountedIn(s, k)'
  <2>1. q \in Requests
    BY <1>2 DEF CountedIn
  <2>2. PICK i \in 1 .. request[q].rule :
          /\ KeyOf(q, i) = k
          /\ i = request[q].rule => /\ ~At(q, "guard")
                                    /\ At(q, "guardAlone") => s = Shared
    BY <1>2 DEF CountedIn
  <2>3. request[q].rule # 0
    BY <2>2
  <2>4. CASE request'[q] = request[q]
    BY <1>2, <2>4 DEF CountedIn, KeyOf, At
  <2>5. CASE /\ request[q].at # "new"
             /\ request'[q].client = request[q].client
             /\ request'[q].tier = request[q].tier
             /\ request'[q].rule = request[q].rule
             /\ request'[q].at \notin {"guard", "refused"}
             /\ request'[q].at = "guardAlone" => request[q].at = "guard"
             /\ request[q].at \in Waiting => request'[q].at \in Waiting
    <3>1. KeyOf(q, i)' = KeyOf(q, i)
      BY <2>5, KeyStays
    <3>2. /\ ~At(q, "guard")'
          /\ i = request[q].rule => ~At(q, "guardAlone")'
      BY <2>2, <2>5 DEF At
    <3>3. QED
      BY <2>1, <2>2, <2>5, <3>1, <3>2 DEF CountedIn
  <2>6. QED
    BY <1>1, <2>1, <2>3, <2>4, <2>5 DEF Quiet
<1>3. ASSUME NEW q \in PassedBy(k)'
      PROVE  q \in PassedBy(k)
  <2>1. q \in Requests
    BY <1>3 DEF PassedBy
  <2>2. PICK i \in 1 .. 2 : Passed(q, i)' /\ k = KeyOf(q, i)'
    BY <1>3 DEF PassedBy, KeyOf
  <2>3. CASE request'[q] = request[q]
    BY <1>3, <2>3 DEF PassedBy, Passed
  <2>4. request'[q].rule = 1 /\ request'[q].at = "guard" => FALSE
    BY <2>2 DEF Passed
  <2>5. CASE /\ request[q].at # "new"
             /\ request'[q].client = request[q].client
             /\ request'[q].tier = request[q].tier
             /\ request'[q].rule = request[q].rule
             /\ request'[q].at \notin {"guard", "refused"}
             /\ request'[q].at = "guardAlone" => request[q].at = "guard"
             /\ request[q].at \in Waiting => request'[q].at \in Waiting
    <3>1. KeyOf(q, i)' = KeyOf(q, i)
      BY <2>5, KeyStays
    <3>2. Passed(q, i)
      BY <2>2, <2>5 DEF Passed, Waiting
    <3>3. QED
      BY <2>1, <2>2, <3>1, <3>2 DEF PassedBy, KeyOf
  <2>6. QED
    BY <1>1, <2>1, <2>3, <2>4, <2>5 DEF Quiet
<1>4. QED
  BY <1>2, <1>3

\* The one request that is counted is new among those of its counter.
LEMMA CountSets ==
  ASSUME IInv, NEW s0 \in Stores, NEW r \in Requests, CountStep(s0, r), NEW k
  PROVE  /\ \A s : CountedIn(s, k) \subseteq CountedIn(s, k)'
         /\ k = Counter(r) => /\ r \notin CountedIn(s0, k)
                              /\ r \in CountedIn(s0, k)'
                              /\ r \notin PassedBy(k)
         /\ \A q \in PassedBy(k)' : \/ q \in PassedBy(k)
                                    \/ /\ q = r /\ k = Counter(r)
                                       /\ ~Refuses(s0, k)
<1>1. /\ Onward(s0, r)
      /\ \A q \in Requests : q # r => request'[q] = request[q]
  BY CountStepWrites
<1>2. /\ At(r, "guard") \/ (At(r, "guardAlone") /\ s0 # Shared)
      /\ request[r] \in RequestRecord /\ ReqOK(request[r])
  BY DEF CountStep, IInv, TypeOK, ReqInv
<1>3. PICK i0 \in 1 .. 2 :
         /\ i0 = request[r].rule
         /\ i0 \in 1 .. Len(RulesOf(request[r].tier))
         /\ Counter(r) = KeyOf(r, i0)
  <2> DEFINE rule == request[r].rule
  <2>1. ~At(r, "new") /\ rule \in 1 .. Len(RulesOf(request[r].tier))
    BY <1>2 DEF At, ReqOK
  <2>2. rule \in 0 .. 2
    BY <1>2 DEF RequestRecord
  <2>3. QED
    BY <2>1, <2>2, CounterKnown
<1>4. /\ request'[r].client = request[r].client
      /\ request'[r].tier = request[r].tier
      /\ \/ request'[r].rule = i0 /\ request'[r].at # "guard"
         \/ request'[r].rule = i0 + 1 /\ request'[r].at = "guard"
      /\ request'[r].at = "guardAlone" => s0 = Shared /\ At(r, "guard")
  BY <1>1, <1>2, <1>3 DEF Onward, At
<1>5. \A i : KeyOf(r, i)' = KeyOf(r, i)
  BY <1>4, KeyStays
<1>6. \A i \in 1 .. i0 : i = i0 \/ (i \in 1 .. Len(RulesOf(request[r].tier))
                                    /\ i < i0)
  BY <1>3
<1>7. \A i \in 1 .. i0 : i # i0 => KeyOf(r, i) # Counter(r)
  BY <1>3, <1>6, KeysDiffer
<1>8. ASSUME NEW s, NEW q \in CountedIn(s, k)
      PROVE  q \in CountedIn(s, k)'
  <2>1. q \in Requests
    BY <1>8 DEF CountedIn
  <2>2. PICK i \in 1 .. request[q].rule :
          /\ KeyOf(q, i) = k
          /\ i = request[q].rule => /\ ~At(q, "guard")
                                    /\ At(q, "guardAlone") => s = Shared
    BY <1>8 DEF CountedIn
  <2>3. CASE q # r
    BY <1>1, <1>8, <2>1, <2>3 DEF CountedIn, KeyOf, At
  <2>4. CASE q = r
    <3>1. i \in 1 .. i0 /\ KeyOf(r, i) = k
      BY <1>3, <2>2, <2>4
    <3>2. KeyOf(r, i)' = k
      BY <1>5, <3>1
    <3>3. CASE request'[r].rule = i0 + 1
      <4>1. i \in 1 .. request'[r].rule /\ i # request'[r].rule
        BY <1>3, <3>1, <3>3
      <4>2. QED
        BY <2>4, <3>2, <4>1 DEF CountedIn
    <3>4. CASE request'[r].rule = i0 /\ request'[r].at # "guard"
      <4>1. i = i0 => ~At(r, "guardAlone")'
        BY <1>3, <1>4, <2>2, <2>4 DEF At
      <4>2. QED
        BY <1>3, <2>4, <3>1, <3>2, <3>4, <4>1 DEF CountedIn, At
    <3>5. QED
      BY <1>4, <3>3, <3>4
  <2>5. QED
    BY <2>3, <2>4
<1>9. ASSUME k = Counter(r)
      PROVE  /\ r \notin CountedIn(s0, k) /\ r \in CountedIn(s0, k)'
             /\ r \notin PassedBy(k)
  <2>1. ASSUME r \in CountedIn(s0, k) PROVE FALSE
    <3>1. PICK i \in 1 .. i0 :
            /\ KeyOf(r, i) = k
            /\ i = i0 => /\ ~At(r, "guard")
                         /\ At(r, "guardAlone") => s0 = Shared
      BY <1>3, <2>1 DEF CountedIn
    <3>2. i = i0
      BY <1>7, <1>9, <3>1
    <3>3. QED
      BY <1>2, <3>1, <3>2
  <2>2. r \in CountedIn(s0, k)'
    <3>1. KeyOf(r, i0)' = k
      BY <1>3, <1>5, <1>9
    <3>2. /\ i0 \in 1 .. request'[r].rule
          /\ i0 = request'[r].rule => /\ ~At(r, "guard")'
                                      /\ At(r, "guardAlone")' => s0 = Shared
      BY <1>3, <1>4 DEF At
    <3>3. QED
      BY <3>1, <3>2 DEF CountedIn
  <2>3. ASSUME r \in PassedBy(k) PROVE FALSE
    <3>1. PICK i \in 1 .. 2 : Passed(r, i) /\ k = KeyOf(r, i)
      BY <2>3 DEF PassedBy, KeyOf
    <3>2. i \in 1 .. i0 /\ i # i0
      BY <1>2, <1>3, <3>1 DEF Passed, At
    <3>3. QED
      BY <1>7, <1>9, <3>1, <3>2
  <2>4. QED
    BY <2>1, <2>2, <2>3
<1>10. ASSUME NEW q \in PassedBy(k)'
       PROVE  \/ q \in PassedBy(k)
              \/ q = r /\ k = Counter(r) /\ ~Refuses(s0, k)
  <2>1. q \in Requests
    BY <1>10 DEF PassedBy
  <2>2. PICK i \in 1 .. 2 : Passed(q, i)' /\ k = KeyOf(q, i)'
    BY <1>10 DEF PassedBy, KeyOf
  <2>3. CASE q # r
    BY <1>1, <2>1, <2>2, <2>3 DEF PassedBy, Passed, KeyOf
  <2>4. CASE q = r
    <3>1. k = KeyOf(r, i)
      BY <1>5, <2>2, <2>4
    <3>2. i \in 1 .. i0
      BY <1>3, <1>4, <2>2, <2>4 DEF Passed
    <3>3. CASE i = i0
      <4>1. ~Refuses(s0, Counter(r))
        BY <1>1, <1>3, <2>2, <2>4, <3>3 DEF Onward, Passed
      <4>2. k = Counter(r)
        BY <1>3, <3>1, <3>3
      <4>3. QED
        BY <2>4, <4>1, <4>2
    <3>4. CASE i # i0
      <4>1. Passed(r, i)
        BY <1>3, <3>2, <3>4 DEF Passed
      <4>2. r \in PassedBy(k)
        BY <3>1, <4>1 DEF PassedBy, KeyOf
      <4>3. QED
        BY <2>4, <4>2
    <3>5. QED
      BY <3>3, <3>4
  <2>5. QED
    BY <2>3, <2>4
<1>11. QED
  BY <1>8, <1>9, <1>10

-----------------------------------------------------------------------------
(* No store counts more than were counted in it, so whoever is refused is   *)
(* one of more than the limit.                                              *)

Counted(s, k) == Cardinality(CountedIn(s, k))

CountInv ==
    /\ \A k \in Counters, s \in Stores :
          /\ hits[s][k].value <= Counted(s, k)
          /\ block[s][k].on => Limit[k[1]] < Counted(s, k)
    /\ \A r \in Requests, k \in Counters :
          At(r, "refused") /\ k = Counter(r) =>
             \E s \in Stores : Limit[k[1]] < Counted(s, k)

LEMMA CountedGrows ==
  ASSUME NEW s, NEW k, CountedIn(s, k) \subseteq CountedIn(s, k)'
  PROVE  /\ Counted(s, k) \in Nat /\ Counted(s, k)' \in Nat
         /\ Counted(s, k) <= Counted(s, k)'
         /\ \A x \in CountedIn(s, k)' :
               x \notin CountedIn(s, k) => Counted(s, k) + 1 <= Counted(s, k)'
<1> DEFINE A == CountedIn(s, k)
           B == CountedIn(s, k)'
<1>1. B \in SUBSET Requests
  BY DEF CountedIn
<1>2. IsFiniteSet(B)
  BY <1>1, RequestsAssumption, FS_Subset
<1>3. Counted(s, k) = Cardinality(A) /\ Counted(s, k)' = Cardinality(B)
  BY DEF Counted
<1> HIDE DEF A, B
<1>4. /\ Cardinality(A) \in Nat /\ Cardinality(B) \in Nat
      /\ Cardinality(A) <= Cardinality(B)
      /\ \A x \in B : x \notin A => Cardinality(A) + 1 <= Cardinality(B)
  <2>1. A \subseteq B
    BY DEF A, B
  <2>2. QED
    BY <1>2, <2>1, SmallerSet
<1>5. QED
  BY <1>3, <1>4 DEF A, B

LEMMA CountersTyped ==
  ASSUME IInv, NEW k \in Counters, NEW s \in Stores
  PROVE  hits[s][k].value \in Nat /\ Limit[k[1]] \in Nat
<1>1. traffic \in Traffics /\ hits[s][k] \in CounterKey
  BY DEF IInv, TypeOK, CounterKey
<1>2. hits[s][k].value \in Nat
  BY <1>1 DEF CounterKey
<1>3. QED
  BY <1>1, <1>2, CountersLimited, Zenon

LEMMA InitCount == Init => CountInv
<1> SUFFICES ASSUME Init PROVE CountInv
  OBVIOUS
<1>1. \A k \in Counters, s \in Stores :
          hits[s][k].value = 0 /\ block[s][k].on = FALSE
  BY DEF Init, ThrottleInit, NoKey
<1>2. \A k, s : Counted(s, k) \in Nat
  <2> SUFFICES ASSUME NEW k, NEW s PROVE Counted(s, k) \in Nat
    OBVIOUS
  <2>1. CountedIn(s, k) \in SUBSET Requests
    BY DEF CountedIn
  <2>2. QED
    BY <2>1, RequestsAssumption, FS_Subset, FS_CardinalityType DEF Counted
<1>3. \A r \in Requests : ~At(r, "refused")
  BY DEF Init, NoRequest, At
<1>4. \A k \in Counters, s \in Stores : hits[s][k].value <= Counted(s, k)
  BY <1>1, <1>2
<1>5. QED
  BY <1>1, <1>3, <1>4 DEF CountInv

LEMMA QuietCount ==
  ASSUME IInv, IInv', CountInv, QuietStep
  PROVE  CountInv'
<1>1. Counters' = Counters
  BY DEF QuietStep, Counters
<1>2. ASSUME NEW k \in Counters, NEW s \in Stores
      PROVE  /\ hits'[s][k].value <= Counted(s, k)'
             /\ block'[s][k].on => Limit[k[1]] < Counted(s, k)'
  <2>1. /\ Counted(s, k) \in Nat /\ Counted(s, k)' \in Nat
        /\ Counted(s, k) <= Counted(s, k)'
    BY QuietSets, CountedGrows
  <2>2. hits[s][k].value \in Nat /\ Limit[k[1]] \in Nat
    BY CountersTyped
  <2>3. /\ hits[s][k].value <= Counted(s, k)
        /\ block[s][k].on => Limit[k[1]] < Counted(s, k)
    BY DEF CountInv
  <2>4. /\ hits'[s][k].value \in {0, hits[s][k].value}
        /\ block'[s][k].on => block[s][k].on
    BY DEF QuietStep
  <2>5. QED
    BY <2>1, <2>2, <2>3, <2>4
<1>3. ASSUME NEW r \in Requests, NEW k \in Counters, At(r, "refused")',
             k = Counter(r)'
      PROVE  \E s \in Stores : Limit[k[1]] < Counted(s, k)'
  <2>1. request'[r] = request[r]
    BY <1>3 DEF QuietStep, Quiet, At
  <2>2. At(r, "refused") /\ k = Counter(r)
    BY <1>3, <2>1 DEF At, Rule, Counter
  <2>3. PICK s \in Stores : Limit[k[1]] < Counted(s, k)
    BY <2>2 DEF CountInv
  <2>4. /\ Counted(s, k) \in Nat /\ Counted(s, k)' \in Nat
        /\ Counted(s, k) <= Counted(s, k)'
    BY QuietSets, CountedGrows
  <2>5. Limit[k[1]] \in Nat
    BY CountersTyped
  <2>6. QED
    BY <2>3, <2>4, <2>5
<1>4. QED
  BY <1>1, <1>2, <1>3 DEF CountInv

LEMMA CountCount ==
  ASSUME IInv, IInv', CountInv, NEW s0 \in Stores, NEW r0 \in Requests,
         CountStep(s0, r0)
  PROVE  CountInv'
<1>1. Counters' = Counters
  BY DEF CountStep, Counters
<1>2. PICK k0 \in Counters : k0 = Counter(r0)
  <2>1. ReqOK(request[r0])
    BY DEF IInv, ReqInv
  <2>2. ~At(r0, "new")
    BY <2>1 DEF CountStep, At
  <2>3. QED
    BY <2>2, CounterKnown
<1>3. Increment(s0, k0)
  BY <1>2 DEF CountStep
<1>4. /\ \A c \in Counters, t \in Stores : c # k0 \/ t # s0 =>
            hits'[t][c] = hits[t][c] /\ block'[t][c] = block[t][c]
      /\ block[s0][k0].on => UNCHANGED <<hits, block, opened>>
      /\ ~block[s0][k0].on =>
            /\ hits'[s0][k0].value = hits[s0][k0].value + 1
            /\ block'[s0][k0].on => hits[s0][k0].value + 1 > Limit[k0[1]]
  BY <1>3, IncrementWrites
<1>5. ASSUME NEW k \in Counters, NEW s \in Stores
      PROVE  /\ Counted(s, k) \in Nat /\ Counted(s, k)' \in Nat
             /\ Counted(s, k) <= Counted(s, k)'
             /\ hits[s][k].value \in Nat /\ Limit[k[1]] \in Nat
             /\ hits[s][k].value <= Counted(s, k)
             /\ block[s][k].on => Limit[k[1]] < Counted(s, k)
  <2>1. CountedIn(s, k) \subseteq CountedIn(s, k)'
    BY CountSets
  <2>2. QED
    BY <2>1, CountedGrows, CountersTyped DEF CountInv
<1>6. Counted(s0, k0) + 1 <= Counted(s0, k0)'
  <2>1. /\ CountedIn(s0, k0) \subseteq CountedIn(s0, k0)'
        /\ r0 \notin CountedIn(s0, k0) /\ r0 \in CountedIn(s0, k0)'
    BY <1>2, CountSets
  <2>2. QED
    BY <2>1, CountedGrows
<1>7. ASSUME NEW k \in Counters, NEW s \in Stores
      PROVE  /\ hits'[s][k].value <= Counted(s, k)'
             /\ block'[s][k].on => Limit[k[1]] < Counted(s, k)'
  <2>1. CASE hits'[s][k] = hits[s][k] /\ block'[s][k] = block[s][k]
    BY <1>5, <2>1
  <2>2. CASE k = k0 /\ s = s0 /\ ~block[s0][k0].on
    BY <1>4, <1>5, <1>6, <2>2
  <2>3. QED
    BY <1>4, <2>1, <2>2
<1>8. ASSUME NEW r \in Requests, NEW k \in Counters, At(r, "refused")',
             k = Counter(r)'
      PROVE  \E s \in Stores : Limit[k[1]] < Counted(s, k)'
  <2>1. /\ Onward(s0, r0)
        /\ \A q \in Requests : q # r0 => request'[q] = request[q]
    BY CountStepWrites
  <2>2. CASE r # r0
    <3>1. At(r, "refused") /\ k = Counter(r)
      BY <1>8, <2>1, <2>2 DEF At, Rule, Counter
    <3>2. PICK s \in Stores : Limit[k[1]] < Counted(s, k)
      BY <3>1 DEF CountInv
    <3>3. Limit[k[1]] < Counted(s, k)'
      BY <1>5, <3>2
    <3>4. QED
      BY <3>3
  <2>3. CASE r = r0
    <3>1. Refuses(s0, Counter(r0)) /\ request'[r0].rule = request[r0].rule
      BY <1>8, <2>1, <2>3 DEF Onward, At
    <3>2. k = k0
      BY <1>2, <1>8, <2>1, <2>3, <3>1 DEF Onward, Rule, Counter
    <3>3. block[s0][k0].on \/ hits[s0][k0].value >= Limit[k0[1]]
      BY <1>2, <3>1 DEF Refuses
    <3>4. Limit[k0[1]] < Counted(s0, k0)'
      BY <1>5, <1>6, <3>3
    <3>5. QED
      BY <3>2, <3>4
  <2>4. QED
    BY <2>2, <2>3
<1>9. QED
  BY <1>1, <1>7, <1>8 DEF CountInv

\* Who is counted under the key of a request is the same caller to its rule,
\* and has asked.
LEMMA CountedAsked ==
  ASSUME IInv, NEW r \in Requests, ~At(r, "new"), NEW s
  PROVE  CountedIn(s, Counter(r)) \subseteq Asked(r)
<1> DEFINE rule == Rule(r)
           a == request[r].client
<1>1. \A q \in Requests : ReqOK(request[q])
  BY DEF IInv, ReqInv
<1>2. SUFFICES ASSUME NEW q \in CountedIn(s, Counter(r))
               PROVE  q \in Asked(r)
  OBVIOUS
<1>3. q \in Requests
  BY <1>2 DEF CountedIn
<1>4. PICK i \in 1 .. request[q].rule : KeyOf(q, i) = Counter(r)
  BY <1>2 DEF CountedIn
<1>5. ~At(q, "new")
  BY <1>1, <1>3, <1>4 DEF At, ReqOK
<1> DEFINE c == request[q].client
<1>6. TrackerFor(rule, a) = TrackerFor(rule, c)
  BY <1>4 DEF KeyOf, Counter
<1>7. SameCaller(KeyKind(rule), a, c)
  <2> HIDE DEF rule, a, c
  <2>1. KeyKind(rule) \in {"ip-email", "refresh-user", "user", "ip"}
    BY DEF KeyKind
  <2>2. CASE KeyKind(rule) = "ip-email"
    BY <1>6, <2>2 DEF TrackerFor, SameCaller
  <2>3. CASE KeyKind(rule) = "refresh-user"
    BY <1>6, <2>3 DEF TrackerFor, SameCaller
  <2>4. CASE KeyKind(rule) = "user"
    BY <1>6, <2>4 DEF TrackerFor, SameCaller
  <2>5. CASE KeyKind(rule) = "ip"
    BY <1>6, <2>5 DEF TrackerFor, SameCaller
  <2>6. QED
    BY <2>1, <2>2, <2>3, <2>4, <2>5
<1>8. QED
  BY <1>3, <1>5, <1>7 DEF Asked

LEMMA SpecCount == Spec => [](IInv /\ CountInv)
<1>1. IInv /\ CountInv /\ [Next]_vars => IInv' /\ CountInv'
  BY NextSteps, QuietCount, CountCount DEF Steps
<1>2. QED
  BY <1>1, InitInv, InitCount, PTL DEF Spec

\* A caller is only refused once more requests of his own than the limit have
\* come in: his in the sense of the rule, which RateLimitGuard's tracker and
\* the keys of the throttler have to tell apart from everyone behind his
\* address.
THEOREM EveryoneForHimself == Spec => []NobodyPaysForOthers
<1>1. ASSUME IInv, CountInv, NEW r \in Requests, At(r, "refused")
      PROVE  Cardinality(Asked(r)) > Limit[Rule(r)]
  <2>1. ~At(r, "new")
    BY <1>1 DEF At
  <2>2. PICK k \in Counters : k = Counter(r)
    BY <1>1, <2>1, CounterKnown
  <2>3. PICK s \in Stores : Limit[k[1]] < Counted(s, k)
    BY <1>1, <2>2 DEF CountInv
  <2>4. CountedIn(s, k) \subseteq Asked(r)
    BY <1>1, <2>1, <2>2, CountedAsked
  <2>5. IsFiniteSet(Asked(r))
    <3>1. Asked(r) \in SUBSET Requests
      BY DEF Asked
    <3>2. QED
      BY <3>1, RequestsAssumption, FS_Subset
  <2>6. /\ Counted(s, k) \in Nat /\ Cardinality(Asked(r)) \in Nat
        /\ Counted(s, k) <= Cardinality(Asked(r))
    BY <2>4, <2>5, SmallerSet DEF Counted
  <2>7. Limit[k[1]] \in Nat
    BY <1>1, CountersTyped
  <2>8. k[1] = Rule(r)
    BY <2>2 DEF Counter
  <2>9. Cardinality(Asked(r)) > Limit[k[1]]
    BY <2>3, <2>6, <2>7
  <2>10. QED
    BY <2>8, <2>9
<1>2. IInv /\ CountInv => NobodyPaysForOthers
  BY <1>1 DEF NobodyPaysForOthers
<1>3. QED
  BY <1>2, SpecCount, PTL

-----------------------------------------------------------------------------
(* Each request a rule let through has a place of its own in one of the     *)
(* windows that were opened.                                                *)

\* A store counts in its current window, no two in the same, and the places
\* taken there are within what it has counted.
Seats(k, win, place, current) ==
    /\ \A q \in PassedBy(k) : /\ win[q] \in 1 .. opened[k]
                              /\ place[q] \in 1 .. Limit[k[1]]
    /\ \A p, q \in PassedBy(k) :
          win[p] = win[q] /\ place[p] = place[q] => p = q
    /\ \A s \in Stores : hits[s][k].value > 0 =>
          /\ current[s] \in 1 .. opened[k]
          /\ \A q \in PassedBy(k) :
                win[q] = current[s] => place[q] <= hits[s][k].value
    /\ \A s, t \in Stores :
          hits[s][k].value > 0 /\ hits[t][k].value > 0
          /\ current[s] = current[t] => s = t
Seated(k) ==
    \E win \in [Requests -> Nat], place \in [Requests -> Nat],
       current \in [Stores -> Nat] : Seats(k, win, place, current)
SeatInv == \A k \in Counters : Seated(k)

LEMMA InitSeats == Init => SeatInv
<1> SUFFICES ASSUME Init, NEW k \in Counters PROVE Seated(k)
  BY DEF SeatInv
<1>1. \A s \in Stores : hits[s][k].value = 0
  BY DEF Init, ThrottleInit, NoKey
<1>2. PassedBy(k) = {}
  BY DEF Init, NoRequest, PassedBy, Passed
<1> DEFINE zero == [q \in Requests |-> 0]
           none == [s \in Stores |-> 0]
<1>3. Seats(k, zero, zero, none)
  BY <1>1, <1>2 DEF Seats
<1>4. zero \in [Requests -> Nat] /\ none \in [Stores -> Nat]
  OBVIOUS
<1> HIDE DEF zero, none
<1>5. QED
  BY <1>3, <1>4 DEF Seated

\* Nobody new is let through, and no store counts higher.
LEMMA SeatsStay ==
  ASSUME NEW k, Seated(k), PassedBy(k)' \subseteq PassedBy(k),
         opened'[k] = opened[k],
         \A s \in Stores : /\ hits[s][k].value \in Nat
                           /\ hits'[s][k].value \in {0, hits[s][k].value}
  PROVE  Seated(k)'
<1>1. PICK win \in [Requests -> Nat], place \in [Requests -> Nat],
           current \in [Stores -> Nat] : Seats(k, win, place, current)
  BY DEF Seated
<1>2. Seats(k, win, place, current)'
  BY <1>1 DEF Seats
<1>3. QED
  BY <1>2 DEF Seated

\* One more is counted in s0: at the next place of the store's window, or at
\* the first of a new one.  The request r0 takes it if it is let through.
LEMMA SeatsTaken ==
  ASSUME NEW k, NEW s0 \in Stores, NEW r0 \in Requests, Seated(k),
         \A s \in Stores : hits[s][k].value \in Nat,
         opened[k] \in Nat, Limit[k[1]] \in Nat,
         \A s \in Stores : s # s0 => hits'[s][k] = hits[s][k],
         hits'[s0][k].value = hits[s0][k].value + 1,
         opened'[k] = IF hits[s0][k].value = 0 THEN opened[k] + 1
                      ELSE opened[k],
         r0 \notin PassedBy(k),
         \A q \in PassedBy(k)' :
            q \in PassedBy(k) \/ (q = r0 /\ hits[s0][k].value < Limit[k[1]])
  PROVE  Seated(k)'
<1>1. PICK win \in [Requests -> Nat], place \in [Requests -> Nat],
           current \in [Stores -> Nat] : Seats(k, win, place, current)
  BY DEF Seated
<1>2. PICK n \in Nat : n = hits[s0][k].value + 1
  OBVIOUS
<1>3. PICK w \in Nat : w = IF hits[s0][k].value = 0 THEN opened[k] + 1
                           ELSE current[s0]
  OBVIOUS
<1>4. PICK was, o, limit \in Nat :
         /\ was = opened[k] /\ o = opened'[k] /\ limit = Limit[k[1]]
         /\ was <= o /\ w \in 1 .. o
  <2>1. hits[s0][k].value > 0 => current[s0] \in 1 .. opened[k]
    BY <1>1 DEF Seats
  <2>2. w \in 1 .. opened'[k] /\ opened'[k] \in Nat /\ opened[k] <= opened'[k]
    BY <1>3, <2>1
  <2>3. QED
    BY <2>2
<1> DEFINE W == [win EXCEPT ![r0] = w]
           P == [place EXCEPT ![r0] = n]
           C == [current EXCEPT ![s0] = w]
<1>5. /\ W \in [Requests -> Nat] /\ P \in [Requests -> Nat]
      /\ C \in [Stores -> Nat]
      /\ W[r0] = w /\ P[r0] = n /\ C[s0] = w
      /\ \A q \in Requests : q # r0 => W[q] = win[q] /\ P[q] = place[q]
      /\ \A s \in Stores : s # s0 => C[s] = current[s]
  OBVIOUS
<1> HIDE DEF W, P, C
<1>6. \A q \in PassedBy(k) : /\ q \in Requests /\ q # r0
                             /\ W[q] = win[q] /\ P[q] = place[q]
                             /\ win[q] \in 1 .. was /\ place[q] \in 1 .. limit
  BY <1>1, <1>4, <1>5 DEF Seats, PassedBy
\* The place r0 may take is free.
<1>7. \A q \in PassedBy(k) : win[q] = w => place[q] < n
  <2> SUFFICES ASSUME NEW q \in PassedBy(k), win[q] = w PROVE place[q] < n
    OBVIOUS
  <2>1. win[q] \in 1 .. was /\ place[q] \in Nat
    BY <1>6
  <2>2. hits[s0][k].value # 0
    BY <1>3, <1>4, <2>1
  <2>3. place[q] <= hits[s0][k].value
    BY <1>1, <1>3, <2>2 DEF Seats
  <2>4. QED
    BY <1>2, <2>1, <2>3
<1>8. ASSUME NEW q \in PassedBy(k)'
      PROVE  W[q] \in 1 .. o /\ P[q] \in 1 .. limit
  <2>1. CASE q \in PassedBy(k)
    BY <1>4, <1>6, <2>1
  <2>2. CASE q = r0 /\ hits[s0][k].value < Limit[k[1]]
    BY <1>2, <1>4, <1>5, <2>2
  <2>3. QED
    BY <2>1, <2>2
<1>9. ASSUME NEW p \in PassedBy(k)', NEW q \in PassedBy(k)',
             W[p] = W[q], P[p] = P[q]
      PROVE  p = q
  <2>1. \A x \in PassedBy(k)' : x \in PassedBy(k) \/ x = r0
    OBVIOUS
  <2>2. CASE p \in PassedBy(k) /\ q \in PassedBy(k)
    BY <1>1, <1>6, <1>9, <2>2 DEF Seats
  <2>3. ASSUME NEW x \in PassedBy(k), W[x] = W[r0], P[x] = P[r0] PROVE FALSE
    BY <1>5, <1>6, <1>7, <2>3
  <2>4. QED
    BY <1>9, <2>1, <2>2, <2>3
<1>10. ASSUME NEW s \in Stores, hits'[s][k].value > 0
       PROVE  /\ C[s] \in 1 .. o
              /\ \A q \in PassedBy(k)' : W[q] = C[s] => P[q] <= hits'[s][k].value
  <2>1. CASE s = s0
    <3>1. C[s] \in 1 .. o
      BY <1>4, <1>5, <2>1
    <3>2. ASSUME NEW q \in PassedBy(k)', W[q] = C[s]
          PROVE  P[q] <= hits'[s][k].value
      <4>1. CASE q = r0
        BY <1>2, <1>5, <2>1, <4>1
      <4>2. CASE q \in PassedBy(k)
        BY <1>2, <1>5, <1>6, <1>7, <2>1, <3>2, <4>2
      <4>3. QED
        BY <4>1, <4>2
    <3>3. QED
      BY <3>1, <3>2
  <2>2. CASE s # s0
    <3>1. /\ hits'[s][k] = hits[s][k] /\ hits[s][k].value > 0
          /\ C[s] = current[s]
      BY <1>5, <1>10, <2>2
    <3>2. /\ current[s] \in 1 .. was
          /\ \A q \in PassedBy(k) :
                win[q] = current[s] => place[q] <= hits[s][k].value
      BY <1>1, <1>4, <3>1 DEF Seats
    <3>3. w # current[s]
      <4>1. CASE hits[s0][k].value = 0
        BY <1>3, <1>4, <3>2, <4>1
      <4>2. CASE hits[s0][k].value # 0
        <5>1. hits[s0][k].value > 0 /\ w = current[s0]
          BY <1>3, <4>2
        <5>2. QED
          BY <1>1, <2>2, <3>1, <5>1 DEF Seats
      <4>3. QED
        BY <4>1, <4>2
    <3>4. ASSUME NEW q \in PassedBy(k)', W[q] = C[s]
          PROVE  P[q] <= hits'[s][k].value
      <4>1. q \in PassedBy(k)
        BY <1>5, <3>1, <3>3, <3>4
      <4>2. QED
        BY <1>6, <3>1, <3>2, <3>4, <4>1
    <3>5. QED
      BY <1>4, <3>1, <3>2, <3>4
  <2>3. QED
    BY <2>1, <2>2
<1>11. ASSUME NEW s \in Stores, NEW t \in Stores, hits'[s][k].value > 0,
              hits'[t][k].value > 0, C[s] = C[t]
       PROVE  s = t
  <2>1. \A x \in Stores : x # s0 => hits'[x][k] = hits[x][k] /\ C[x] = current[x]
    BY <1>5
  <2>2. CASE s # s0 /\ t # s0
    BY <1>1, <1>11, <2>1, <2>2 DEF Seats
  <2>3. ASSUME NEW x \in Stores, x # s0, hits[x][k].value > 0, current[x] = w
        PROVE  FALSE
    <3>1. w \in 1 .. was
      BY <1>1, <1>4, <2>3 DEF Seats
    <3>2. hits[s0][k].value > 0 /\ w = current[s0]
      BY <1>3, <1>4, <3>1
    <3>3. QED
      BY <1>1, <2>3, <3>2 DEF Seats
  <2>4. QED
    BY <1>5, <1>11, <2>1, <2>2, <2>3
<1>12. Seats(k, W, P, C)'
  BY <1>4, <1>8, <1>9, <1>10, <1>11 DEF Seats, W, P, C
<1>13. QED
  BY <1>5, <1>12 DEF Seated, W, P, C

LEMMA QuietSeats ==
  ASSUME IInv, SeatInv, QuietStep
  PROVE  SeatInv'
<1>1. Counters' = Counters
  BY DEF QuietStep, Counters
<1>2. ASSUME NEW k \in Counters
      PROVE  Seated(k)'
  <2>1. PassedBy(k)' \subseteq PassedBy(k)
    BY QuietSets
  <2>2. \A s \in Stores : /\ hits[s][k].value \in Nat
                          /\ hits'[s][k].value \in {0, hits[s][k].value}
    BY CountersTyped DEF QuietStep
  <2>3. opened'[k] = opened[k] /\ Seated(k)
    BY DEF QuietStep, SeatInv
  <2>4. QED
    BY <2>1, <2>2, <2>3, SeatsStay
<1>3. QED
  BY <1>1, <1>2 DEF SeatInv

LEMMA CountSeats ==
  ASSUME IInv, SeatInv, NEW s0 \in Stores, NEW r0 \in Requests,
         CountStep(s0, r0)
  PROVE  SeatInv'
<1>1. Counters' = Counters
  BY DEF CountStep, Counters
<1>2. PICK k0 \in Counters : k0 = Counter(r0)
  <2>1. ~At(r0, "new")
    BY DEF CountStep, At
  <2>2. QED
    BY <2>1, CounterKnown
<1>3. Increment(s0, k0)
  BY <1>2 DEF CountStep
<1>4. /\ \A c \in Counters, t \in Stores : c # k0 \/ t # s0 =>
            hits'[t][c] = hits[t][c] /\ block'[t][c] = block[t][c]
      /\ \A c \in Counters : c # k0 => opened'[c] = opened[c]
      /\ block[s0][k0].on => UNCHANGED <<hits, block, opened>>
      /\ ~block[s0][k0].on =>
            /\ hits'[s0][k0].value = hits[s0][k0].value + 1
            /\ opened'[k0] = IF hits[s0][k0].value = 0 THEN opened[k0] + 1
                             ELSE opened[k0]
  BY <1>3, IncrementWrites
<1>5. ASSUME NEW k \in Counters
      PROVE  Seated(k)'
  <2>1. /\ Seated(k) /\ opened[k] \in Nat
        /\ \A s \in Stores : hits[s][k].value \in Nat
    BY CountersTyped DEF SeatInv, IInv, TypeOK
  <2>2. \A q \in PassedBy(k)' : \/ q \in PassedBy(k)
                                \/ q = r0 /\ k = k0 /\ ~Refuses(s0, k)
    BY <1>2, CountSets
  <2>3. CASE k # k0 \/ block[s0][k0].on
    <3>1. PassedBy(k)' \subseteq PassedBy(k)
      BY <2>2, <2>3 DEF Refuses
    <3>2. /\ opened'[k] = opened[k]
          /\ \A s \in Stores : hits'[s][k] = hits[s][k]
      BY <1>4, <2>3
    <3>3. QED
      BY <2>1, <3>1, <3>2, SeatsStay
  <2>4. CASE k = k0 /\ ~block[s0][k0].on
    <3>1. r0 \notin PassedBy(k)
      BY <1>2, <2>4, CountSets
    <3>2. Limit[k[1]] \in Nat
      BY CountersTyped
    <3>3. \A q \in PassedBy(k)' :
             q \in PassedBy(k) \/ (q = r0 /\ hits[s0][k].value < Limit[k[1]])
      BY <2>1, <2>2, <3>2 DEF Refuses
    <3>4. /\ \A s \in Stores : s # s0 => hits'[s][k] = hits[s][k]
          /\ hits'[s0][k].value = hits[s0][k].value + 1
          /\ opened'[k] = IF hits[s0][k].value = 0 THEN opened[k] + 1
                          ELSE opened[k]
      BY <1>4, <2>4
    <3>5. QED
      BY <2>1, <3>1, <3>2, <3>3, <3>4, SeatsTaken
  <2>5. QED
    BY <2>3, <2>4
<1>6. QED
  BY <1>1, <1>5 DEF SeatInv

LEMMA SpecSeats == Spec => [](IInv /\ SeatInv)
<1>1. IInv /\ SeatInv /\ [Next]_vars => IInv' /\ SeatInv'
  BY NextSteps, QuietSeats, CountSeats DEF Steps
<1>2. QED
  BY <1>1, InitInv, InitSeats, PTL DEF Spec

\* No rule lets more through than its limit for each window that was opened,
\* in Redis or in a process that counts by itself, whatever the requests'
\* interleaving, the answers that are lost and the restarts.
THEOREM LimitsHold == Spec => []PassesBounded
<1>1. ASSUME IInv, SeatInv, NEW k \in Counters
      PROVE  Cardinality(PassedBy(k)) <= Limit[k[1]] * opened[k]
  <2>1. PICK win \in [Requests -> Nat], place \in [Requests -> Nat],
             current \in [Stores -> Nat] : Seats(k, win, place, current)
    BY <1>1 DEF SeatInv, Seated
  <2>2. Limit[k[1]] \in Nat /\ opened[k] \in Nat
    <3>1. Shared \in Stores
      BY DEF Stores
    <3>2. QED
      BY <1>1, <3>1, CountersTyped DEF IInv, TypeOK
  <2> DEFINE windows == 1 .. opened[k]
             places == 1 .. Limit[k[1]]
             seat == [q \in PassedBy(k) |-> <<win[q], place[q]>>]
  <2>3. /\ IsFiniteSet(windows) /\ Cardinality(windows) = opened[k]
        /\ IsFiniteSet(places) /\ Cardinality(places) = Limit[k[1]]
    <3>1. ASSUME NEW n \in Nat
          PROVE  IsFiniteSet(1 .. n) /\ Cardinality(1 .. n) = n
      <4>1. /\ IsFiniteSet(1 .. n)
            /\ Cardinality(1 .. n) = IF 1 > n THEN 0 ELSE n - 1 + 1
        BY FS_Interval
      <4>2. (IF 1 > n THEN 0 ELSE n - 1 + 1) = n
        OBVIOUS
      <4>3. QED
        BY <4>1, <4>2
    <3>2. QED
      BY <2>2, <3>1
  <2>4. /\ IsFiniteSet(windows \X places)
        /\ Cardinality(windows \X places) = opened[k] * Limit[k[1]]
    <3> HIDE DEF windows, places
    <3>1. QED
      BY <2>3, FS_Product
  <2>5. seat \in Injection(PassedBy(k), windows \X places)
    <3>1. seat \in [PassedBy(k) -> windows \X places]
      BY <2>1 DEF Seats
    <3>2. \A p, q \in PassedBy(k) : seat[p] = seat[q] => p = q
      BY <2>1 DEF Seats
    <3> HIDE DEF seat, windows, places
    <3>3. QED
      BY <3>1, <3>2 DEF Injection, IsInjective
  <2>6. Cardinality(PassedBy(k)) <= Cardinality(windows \X places)
    <3> HIDE DEF seat, windows, places
    <3>1. QED
      BY <2>4, <2>5, FS_Injection
  <2>7. opened[k] * Limit[k[1]] = Limit[k[1]] * opened[k]
    <3>1. \A a, b \in Nat : a * b = b * a
      OBVIOUS
    <3>2. QED
      BY <2>2, <3>1
  <2>8. QED
    BY <2>4, <2>6, <2>7
<1>2. IInv /\ SeatInv => PassesBounded
  BY <1>1 DEF PassesBounded
<1>3. QED
  BY <1>2, SpecSeats, PTL

-----------------------------------------------------------------------------
(* How many bytes a user can have in storage.  What counts against him is   *)
(* what he was charged and has not had back; beside it goes what the        *)
(* windows that are open still have to give.  No store knows the sum of     *)
(* the two, and it grows only by a window or a reply that was lost.         *)

Charged == {"file", "stored", "refund", "refundAlone"}

ChargedBytes(u) ==
    {p \in Requests \X Nat : /\ request[p[1]].at \in Charged
                             /\ User(p[1]) = u
                             /\ p[2] \in 1 .. request[p[1]].bytes}
SpareBytes(u) ==
    {p \in Stores \X Nat : /\ quota[p[1]][u].on
                           /\ p[2] \in quota[p[1]][u].value + 1 .. MaxBytes}

Budgeted(u) ==
    /\ IsFiniteSet(ChargedBytes(u)) /\ IsFiniteSet(SpareBytes(u))
    /\ Cardinality(ChargedBytes(u)) + Cardinality(SpareBytes(u))
         <= MaxBytes * granted[u] + twice[u]

BudgetInv == \A u \in Payers : Budgeted(u)

\* The bytes of x from past a up to b.
Run(x, a, b) == {x} \X (a + 1 .. b)

LEMMA RunLength ==
  ASSUME NEW x, NEW a \in Nat, NEW b \in Nat, a <= b
  PROVE  IsFiniteSet(Run(x, a, b)) /\ Cardinality(Run(x, a, b)) = b - a
<1> DEFINE first == a + 1
           T == first .. b
<1>1. IsFiniteSet({x}) /\ Cardinality({x}) = 1
  BY FS_Singleton
<1>2. first \in Int /\ b \in Int /\ first <= b + 1 /\ b - first + 1 = b - a
  OBVIOUS
<1> HIDE DEF first
<1>3. IsFiniteSet(T) /\ Cardinality(T) = IF first > b THEN 0 ELSE b - first + 1
  BY <1>2, FS_Interval
<1>4. Cardinality(T) = b - a
  BY <1>2, <1>3
<1> HIDE DEF T
<1>5. IsFiniteSet({x} \X T) /\ Cardinality({x} \X T) = 1 * Cardinality(T)
  BY <1>1, <1>3, FS_Product
<1>6. IsFiniteSet({x} \X T) /\ Cardinality({x} \X T) = b - a
  BY <1>4, <1>5
<1>7. QED
  BY <1>6 DEF Run, T, first

LEMMA CountedRun ==
  ASSUME NEW x, NEW b \in Nat
  PROVE  IsFiniteSet(Run(x, 0, b)) /\ Cardinality(Run(x, 0, b)) = b
<1>1. 0 \in Nat /\ 0 <= b /\ b - 0 = b
  OBVIOUS
<1>2. QED
  BY <1>1, RunLength

LEMMA SetGrows ==
  ASSUME NEW A, NEW B, NEW C, IsFiniteSet(A), IsFiniteSet(B), C \subseteq A \cup B
  PROVE  /\ IsFiniteSet(C)
         /\ Cardinality(A) \in Nat /\ Cardinality(B) \in Nat
         /\ Cardinality(C) \in Nat
         /\ Cardinality(C) <= Cardinality(A) + Cardinality(B)
<1>1. /\ IsFiniteSet(A \cup B)
      /\ Cardinality(A \cup B)
           = Cardinality(A) + Cardinality(B) - Cardinality(A \cap B)
  BY FS_Union
<1>2. IsFiniteSet(A \cap B)
  BY FS_Intersection
<1>3. IsFiniteSet(C) /\ Cardinality(C) <= Cardinality(A \cup B)
  BY <1>1, FS_Subset
<1>4. /\ Cardinality(A) \in Nat /\ Cardinality(B) \in Nat
      /\ Cardinality(C) \in Nat /\ Cardinality(A \cap B) \in Nat
  BY <1>2, <1>3, FS_CardinalityType
<1>5. QED
  BY <1>1, <1>3, <1>4

LEMMA SetShrinks ==
  ASSUME NEW A, NEW B, NEW C, IsFiniteSet(A), B \subseteq A, C \subseteq A \ B
  PROVE  /\ IsFiniteSet(C)
         /\ Cardinality(A) \in Nat /\ Cardinality(B) \in Nat
         /\ Cardinality(C) \in Nat
         /\ Cardinality(C) + Cardinality(B) <= Cardinality(A)
<1>1. IsFiniteSet(B)
  BY FS_Subset
<1>2. A \cap B = B
  OBVIOUS
<1>3. /\ IsFiniteSet(A \ B)
      /\ Cardinality(A \ B) = Cardinality(A) - Cardinality(B)
  BY <1>2, FS_Difference
<1>4. IsFiniteSet(C) /\ Cardinality(C) <= Cardinality(A \ B)
  BY <1>3, FS_Subset
<1>5. /\ Cardinality(A) \in Nat /\ Cardinality(B) \in Nat
      /\ Cardinality(C) \in Nat
  BY <1>1, <1>4, FS_CardinalityType
<1>6. QED
  BY <1>3, <1>4, <1>5

-----------------------------------------------------------------------------
(* What a step does to the two sets of one user.                            *)

\* Nothing is charged, and no window gives more than before.
Eased(u) ==
    /\ ChargedBytes(u)' \subseteq ChargedBytes(u)
    /\ SpareBytes(u)' \subseteq SpareBytes(u)
    /\ granted'[u] = granted[u] /\ twice'[u] = twice[u]

LEMMA EasedBudget ==
  ASSUME NEW u, Budgeted(u), Eased(u),
         granted[u] \in Nat, twice[u] \in Nat
  PROVE  Budgeted(u)'
<1> DEFINE C == ChargedBytes(u)  C1 == ChargedBytes(u)'
           S == SpareBytes(u)    S1 == SpareBytes(u)'
<1>1. /\ IsFiniteSet(C) /\ IsFiniteSet(S) /\ C1 \subseteq C /\ S1 \subseteq S
      /\ Cardinality(C) + Cardinality(S) <= MaxBytes * granted[u] + twice[u]
  BY DEF Budgeted, Eased
<1> HIDE DEF C, C1, S, S1
<1>2. /\ IsFiniteSet(C1) /\ Cardinality(C1) <= Cardinality(C)
      /\ Cardinality(C1) \in Nat /\ Cardinality(C) \in Nat
  BY <1>1, FS_Subset, FS_CardinalityType
<1>3. /\ IsFiniteSet(S1) /\ Cardinality(S1) <= Cardinality(S)
      /\ Cardinality(S1) \in Nat /\ Cardinality(S) \in Nat
  BY <1>1, FS_Subset, FS_CardinalityType
<1>4. MaxBytes * granted[u] \in Nat
  BY QuotaAssumption
<1>5. Cardinality(C1) + Cardinality(S1) <= MaxBytes * granted[u] + twice[u]
  BY <1>1, <1>2, <1>3, <1>4
<1>6. QED
  BY <1>2, <1>3, <1>5 DEF C1, S1, Budgeted, Eased

\* Bytes are charged to a window, and the window gives as many.
LEMMA ChargeBudget ==
  ASSUME NEW u, Budgeted(u), granted[u] \in Nat, twice[u] \in Nat,
         NEW b \in Nat, NEW R, IsFiniteSet(R), Cardinality(R) = b,
         NEW T, Cardinality(T) = b,
         ChargedBytes(u)' \subseteq ChargedBytes(u) \cup R,
         T \subseteq SpareBytes(u),
         SpareBytes(u)' \subseteq SpareBytes(u) \ T,
         granted'[u] = granted[u] /\ twice'[u] = twice[u]
  PROVE  Budgeted(u)'
<1> DEFINE C == ChargedBytes(u)  C1 == ChargedBytes(u)'
           S == SpareBytes(u)    S1 == SpareBytes(u)'
<1>1. /\ IsFiniteSet(C) /\ IsFiniteSet(S)
      /\ C1 \subseteq C \cup R /\ T \subseteq S /\ S1 \subseteq S \ T
      /\ Cardinality(C) + Cardinality(S) <= MaxBytes * granted[u] + twice[u]
  BY DEF Budgeted
<1> HIDE DEF C, C1, S, S1
<1>2. /\ IsFiniteSet(C1) /\ Cardinality(C1) \in Nat /\ Cardinality(C) \in Nat
      /\ Cardinality(C1) <= Cardinality(C) + b
  BY <1>1, SetGrows
<1>3. /\ IsFiniteSet(S1) /\ Cardinality(S1) \in Nat /\ Cardinality(S) \in Nat
      /\ Cardinality(S1) + b <= Cardinality(S)
  BY <1>1, SetShrinks
<1>4. MaxBytes * granted[u] \in Nat
  BY QuotaAssumption
<1>5. Cardinality(C1) + Cardinality(S1) <= MaxBytes * granted[u] + twice[u]
  BY <1>1, <1>2, <1>3, <1>4
<1>6. QED
  BY <1>2, <1>3, <1>5 DEF C1, S1, Budgeted

\* Bytes are charged to a window that is opened for them.
LEMMA OpenBudget ==
  ASSUME NEW u, Budgeted(u), granted[u] \in Nat, twice[u] \in Nat,
         NEW b \in Nat, NEW R, IsFiniteSet(R), Cardinality(R) = b,
         NEW T, IsFiniteSet(T), Cardinality(T) = MaxBytes - b,
         ChargedBytes(u)' \subseteq ChargedBytes(u) \cup R,
         SpareBytes(u)' \subseteq SpareBytes(u) \cup T,
         granted'[u] = granted[u] + 1 /\ twice'[u] = twice[u]
  PROVE  Budgeted(u)'
<1> DEFINE C == ChargedBytes(u)  C1 == ChargedBytes(u)'
           S == SpareBytes(u)    S1 == SpareBytes(u)'
<1>1. /\ IsFiniteSet(C) /\ IsFiniteSet(S)
      /\ C1 \subseteq C \cup R /\ S1 \subseteq S \cup T
      /\ Cardinality(C) + Cardinality(S) <= MaxBytes * granted[u] + twice[u]
  BY DEF Budgeted
<1> HIDE DEF C, C1, S, S1
<1>2. /\ IsFiniteSet(C1) /\ Cardinality(C1) \in Nat /\ Cardinality(C) \in Nat
      /\ Cardinality(C1) <= Cardinality(C) + b
  BY <1>1, SetGrows
<1>3. /\ IsFiniteSet(S1) /\ Cardinality(S1) \in Nat /\ Cardinality(S) \in Nat
      /\ Cardinality(S1) <= Cardinality(S) + (MaxBytes - b)
  BY <1>1, SetGrows
<1>4. /\ MaxBytes * granted[u] \in Nat
      /\ MaxBytes * (granted[u] + 1) = MaxBytes * granted[u] + MaxBytes
      /\ MaxBytes \in Nat
  BY QuotaAssumption
<1>5. Cardinality(C1) + Cardinality(S1)
        <= MaxBytes * (granted[u] + 1) + twice[u]
  BY <1>1, <1>2, <1>3, <1>4
<1>6. QED
  BY <1>2, <1>3, <1>5 DEF C1, S1, Budgeted

\* Bytes are handed back to a window, which has at most as many more to give.
LEMMA RefundBudget ==
  ASSUME NEW u, Budgeted(u), granted[u] \in Nat, twice[u] \in Nat,
         NEW b \in Nat, NEW R, Cardinality(R) = b,
         NEW T, IsFiniteSet(T), Cardinality(T) <= b,
         SpareBytes(u)' \subseteq SpareBytes(u) \cup T,
         granted'[u] = granted[u],
         \/ /\ R \subseteq ChargedBytes(u)
            /\ ChargedBytes(u)' \subseteq ChargedBytes(u) \ R
            /\ twice'[u] = twice[u]
         \/ /\ ChargedBytes(u)' \subseteq ChargedBytes(u)
            /\ twice'[u] = twice[u] + b
  PROVE  Budgeted(u)'
<1> DEFINE C == ChargedBytes(u)  C1 == ChargedBytes(u)'
           S == SpareBytes(u)    S1 == SpareBytes(u)'
<1>1. /\ IsFiniteSet(C) /\ IsFiniteSet(S) /\ S1 \subseteq S \cup T
      /\ Cardinality(C) + Cardinality(S) <= MaxBytes * granted[u] + twice[u]
  BY DEF Budgeted
<1>2. \/ R \subseteq C /\ C1 \subseteq C \ R /\ twice'[u] = twice[u]
      \/ C1 \subseteq C /\ twice'[u] = twice[u] + b
  OBVIOUS
<1> HIDE DEF C, C1, S, S1
<1>3. /\ IsFiniteSet(S1) /\ Cardinality(S1) \in Nat /\ Cardinality(S) \in Nat
      /\ Cardinality(S1) <= Cardinality(S) + b
  <2>1. /\ IsFiniteSet(S1) /\ Cardinality(S1) \in Nat /\ Cardinality(S) \in Nat
        /\ Cardinality(T) \in Nat
        /\ Cardinality(S1) <= Cardinality(S) + Cardinality(T)
    BY <1>1, SetGrows
  <2>2. QED
    BY <2>1
<1>4. MaxBytes * granted[u] \in Nat
  BY QuotaAssumption
<1>5. CASE R \subseteq C /\ C1 \subseteq C \ R /\ twice'[u] = twice[u]
  <2>1. /\ IsFiniteSet(C1) /\ Cardinality(C1) \in Nat /\ Cardinality(C) \in Nat
        /\ Cardinality(C1) + b <= Cardinality(C)
    BY <1>1, <1>5, SetShrinks
  <2>2. Cardinality(C1) + Cardinality(S1) <= MaxBytes * granted[u] + twice'[u]
    BY <1>1, <1>3, <1>4, <1>5, <2>1
  <2>3. QED
    BY <1>3, <2>1, <2>2 DEF C1, S1, Budgeted
<1>6. CASE C1 \subseteq C /\ twice'[u] = twice[u] + b
  <2>1. /\ IsFiniteSet(C1) /\ Cardinality(C1) <= Cardinality(C)
        /\ Cardinality(C1) \in Nat /\ Cardinality(C) \in Nat
    BY <1>1, <1>6, FS_Subset, FS_CardinalityType
  <2>2. Cardinality(C1) + Cardinality(S1) <= MaxBytes * granted[u] + twice'[u]
    BY <1>1, <1>3, <1>4, <1>6, <2>1
  <2>3. QED
    BY <1>3, <2>1, <2>2 DEF C1, S1, Budgeted
<1>7. QED
  BY <1>2, <1>5, <1>6

-----------------------------------------------------------------------------
(* What the handlers do to them. *)

LEMMA GotoMoves ==
  ASSUME IInv, NEW r \in Requests, NEW at, Goto(r, at)
  PROVE  /\ request[r].bytes \in Nat
         /\ request'[r].at = at
         /\ \A q \in Requests : /\ q # r => request'[q] = request[q]
                                /\ request'[q].bytes = request[q].bytes
                                /\ request'[q].client = request[q].client
<1>1. request \in [Requests -> RequestRecord]
  BY DEF IInv, TypeOK
<1>2. request[r].bytes \in Sizes \cup {0}
  BY <1>1 DEF RequestRecord
<1>3. request[r].bytes \in Nat
  BY <1>2, RequestsAssumption
<1> DEFINE q0 == request[r]
           process == IF at \in Ended THEN None ELSE q0.process
           moved == [q0 EXCEPT !.at = at, !.process = process]
<1>4. request' = [request EXCEPT ![r] = moved]
  BY <1>1 DEF Goto
<1>5. moved.at = at /\ moved.bytes = q0.bytes /\ moved.client = q0.client
  BY <1>1 DEF RequestRecord
<1> HIDE DEF moved
<1>6. request'[r] = moved /\ \A q \in Requests : q # r => request'[q] = request[q]
  BY <1>1, <1>4
<1> HIDE DEF q0
<1>7. QED
  BY <1>3, <1>5, <1>6 DEF q0

LEMMA NothingCharged ==
  ASSUME NEW u,
         \A q \in Requests : request'[q].at \in Charged =>
             /\ request[q].at \in Charged
             /\ request'[q].bytes = request[q].bytes
             /\ request'[q].client = request[q].client
  PROVE  ChargedBytes(u)' \subseteq ChargedBytes(u)
  BY DEF ChargedBytes, User

LEMMA ChargedGrow ==
  ASSUME IInv, NEW r \in Requests, NEW at, Goto(r, at), NEW u
  PROVE  /\ ChargedBytes(u)' \subseteq
              ChargedBytes(u) \cup Run(r, 0, request[r].bytes)
         /\ at \notin Charged \/ request[r].at \in Charged \/ u # User(r)
              => ChargedBytes(u)' \subseteq ChargedBytes(u)
<1>1. /\ request'[r].at = at
      /\ \A q \in Requests : /\ q # r => request'[q] = request[q]
                             /\ request'[q].bytes = request[q].bytes
                             /\ request'[q].client = request[q].client
  BY GotoMoves
<1>2. ASSUME NEW p \in ChargedBytes(u)', p[1] # r PROVE p \in ChargedBytes(u)
  BY <1>1, <1>2 DEF ChargedBytes, User
<1>3. ASSUME NEW p \in ChargedBytes(u)', p[1] = r
      PROVE  /\ at \in Charged /\ User(r) = u
             /\ p \in Run(r, 0, request[r].bytes)
             /\ request[r].at \in Charged => p \in ChargedBytes(u)
  BY <1>1, <1>3 DEF ChargedBytes, User, Run
<1>4. QED
  BY <1>2, <1>3

LEMMA ChargedLeave ==
  ASSUME IInv, NEW r \in Requests, NEW at, Goto(r, at), at \notin Charged,
         request[r].at \in Charged
  PROVE  /\ Run(r, 0, request[r].bytes) \subseteq ChargedBytes(User(r))
         /\ \A u : u = User(r) =>
               ChargedBytes(u)' \subseteq
                 ChargedBytes(u) \ Run(r, 0, request[r].bytes)
<1>1. /\ request'[r].at = at
      /\ \A q \in Requests : /\ q # r => request'[q] = request[q]
                             /\ request'[q].bytes = request[q].bytes
                             /\ request'[q].client = request[q].client
  BY GotoMoves
<1>2. Run(r, 0, request[r].bytes) \subseteq ChargedBytes(User(r))
  BY GotoMoves DEF Run, ChargedBytes
<1>3. ASSUME NEW u, NEW p \in ChargedBytes(u)'
      PROVE  p[1] # r /\ p \in ChargedBytes(u)
  BY <1>1 DEF ChargedBytes, User
<1>4. ASSUME NEW p \in Run(r, 0, request[r].bytes) PROVE p[1] = r
  BY DEF Run
<1>5. QED
  BY <1>2, <1>3, <1>4

LEMMA QuotaKnown ==
  ASSUME IInv
  PROVE  /\ quota \in [Stores -> [Payers -> QuotaKey]]
         /\ granted \in [Payers -> Nat] /\ twice \in [Payers -> Nat]
         /\ \A u \in Payers, s \in Stores :
               /\ quota[s][u] \in QuotaKey /\ quota[s][u].value \in 0 .. MaxBytes
               /\ ~quota[s][u].on => quota[s][u].value = 0
  BY DEF IInv, TypeOK, QuotaTypeOK, Keys, QuotaKey, KeyInv, KeyOK

LEMMA NothingGiven ==
  ASSUME NEW u,
         \A s \in Stores : quota'[s][u].on =>
             quota[s][u].on /\ quota'[s][u].value = quota[s][u].value
  PROVE  SpareBytes(u)' \subseteq SpareBytes(u)
  BY DEF SpareBytes

\* What CONSUME takes, or leaves of a window it opens.
LEMMA TakeSpares ==
  ASSUME IInv, NEW s \in Stores, NEW u \in Payers, NEW b \in Nat,
         Affordable(s, u, b), Take(s, u, b), NEW old, old = quota[s][u].value
  PROVE  /\ \A v \in Payers : v # u =>
               SpareBytes(v)' \subseteq SpareBytes(v) /\ granted'[v] = granted[v]
         /\ quota[s][u].on =>
               /\ Run(s, old, old + b) \subseteq SpareBytes(u)
               /\ SpareBytes(u)' \subseteq SpareBytes(u) \ Run(s, old, old + b)
               /\ granted'[u] = granted[u]
         /\ ~quota[s][u].on =>
               /\ SpareBytes(u)' \subseteq SpareBytes(u) \cup Run(s, b, MaxBytes)
               /\ granted'[u] = granted[u] + 1
         /\ old \in Nat /\ b <= MaxBytes
<1>1. /\ quota \in [Stores -> [Payers -> QuotaKey]]
      /\ granted \in [Payers -> Nat]
      /\ old \in 0 .. MaxBytes /\ (~quota[s][u].on => old = 0)
  BY QuotaKnown
<1>2. old + b <= MaxBytes /\ MaxBytes \in Nat
  BY QuotaAssumption DEF Affordable
<1>3. /\ quota'[s][u].on /\ quota'[s][u].value = old + b
      /\ \A t \in Stores, v \in Payers :
            t # s \/ v # u => quota'[t][v] = quota[t][v]
  BY <1>1 DEF Take
<1>4. /\ \A v \in Payers : v # u => granted'[v] = granted[v]
      /\ granted'[u] = IF quota[s][u].on THEN granted[u] ELSE granted[u] + 1
  BY <1>1 DEF Take
<1>5. ASSUME NEW v \in Payers, v # u PROVE SpareBytes(v)' \subseteq SpareBytes(v)
  BY <1>3, <1>5, NothingGiven
<1>6. ASSUME NEW p \in SpareBytes(u)', p[1] # s PROVE p \in SpareBytes(u)
  BY <1>3, <1>6 DEF SpareBytes
<1>7. ASSUME NEW p \in SpareBytes(u)', p[1] = s
      PROVE  p = <<s, p[2]>> /\ p[2] \in old + b + 1 .. MaxBytes /\ p[2] \in Nat
  BY <1>3, <1>7 DEF SpareBytes
<1>8. CASE quota[s][u].on
  <2>1. Run(s, old, old + b) \subseteq SpareBytes(u)
    BY <1>1, <1>2, <1>8 DEF Run, SpareBytes
  <2>2. ASSUME NEW p \in SpareBytes(u)', p[1] = s
        PROVE  p \in SpareBytes(u) /\ p \notin Run(s, old, old + b)
    BY <1>1, <1>2, <1>7, <1>8, <2>2 DEF Run, SpareBytes
  <2>3. ASSUME NEW p \in Run(s, old, old + b) PROVE p[1] = s
    BY DEF Run
  <2>4. SpareBytes(u)' \subseteq SpareBytes(u) \ Run(s, old, old + b)
    BY <1>6, <2>2, <2>3
  <2>5. QED
    BY <1>1, <1>2, <1>4, <1>5, <1>8, <2>1, <2>4
<1>9. CASE ~quota[s][u].on
  <2>1. ASSUME NEW p \in SpareBytes(u)', p[1] = s
        PROVE  p \in Run(s, b, MaxBytes)
    BY <1>1, <1>2, <1>7, <1>9, <2>1 DEF Run
  <2>2. SpareBytes(u)' \subseteq SpareBytes(u) \cup Run(s, b, MaxBytes)
    BY <1>6, <2>1
  <2>3. QED
    BY <1>1, <1>2, <1>4, <1>5, <1>9, <2>2
<1>10. QED
  BY <1>8, <1>9

\* What REFUND hands back is no more than what is refunded.
LEMMA GiveBackSpares ==
  ASSUME IInv, NEW s \in Stores, NEW u \in Payers, NEW b \in Nat,
         GiveBack(s, u, b),
         NEW old, old = quota[s][u].value, NEW new, new = Difference(old, b)
  PROVE  /\ old \in Nat /\ new \in Nat /\ new <= old /\ old - new <= b
         /\ SpareBytes(u)' \subseteq SpareBytes(u) \cup Run(s, new, old)
         /\ \A v \in Payers : v # u => SpareBytes(v)' \subseteq SpareBytes(v)
         /\ granted' = granted
<1>1. /\ quota \in [Stores -> [Payers -> QuotaKey]]
      /\ quota[s][u] \in QuotaKey
      /\ old \in 0 .. MaxBytes
  BY QuotaKnown
<1>2. old \in Nat /\ new \in Nat /\ new <= old /\ old - new <= b
  BY <1>1 DEF Difference
<1>3. quota' = [quota EXCEPT ![s] =
                  [quota[s] EXCEPT ![u] = [quota[s][u] EXCEPT !.value = new]]]
      /\ granted' = granted
  BY <1>1 DEF GiveBack
<1>4. /\ quota'[s][u].on = quota[s][u].on /\ quota'[s][u].value = new
      /\ \A t \in Stores, v \in Payers :
            t # s \/ v # u => quota'[t][v] = quota[t][v]
  BY <1>1, <1>3 DEF QuotaKey
<1>5. ASSUME NEW v \in Payers, v # u PROVE SpareBytes(v)' \subseteq SpareBytes(v)
  BY <1>4, <1>5, NothingGiven
<1>6. ASSUME NEW p \in SpareBytes(u)', p[1] # s PROVE p \in SpareBytes(u)
  BY <1>4, <1>6 DEF SpareBytes
<1>7. ASSUME NEW p \in SpareBytes(u)', p[1] = s
      PROVE  p \in SpareBytes(u) \cup Run(s, new, old)
  <2>1. /\ p = <<s, p[2]>> /\ p[2] \in Nat /\ quota[s][u].on
        /\ p[2] \in new + 1 .. MaxBytes
    BY <1>4, <1>7 DEF SpareBytes
  <2>2. CASE p[2] <= old
    BY <1>2, <2>1, <2>2 DEF Run
  <2>3. CASE ~(p[2] <= old)
    BY <1>2, <2>1, <2>3 DEF SpareBytes
  <2>4. QED
    BY <2>2, <2>3
<1>8. QED
  BY <1>2, <1>3, <1>5, <1>6, <1>7

-----------------------------------------------------------------------------
(* Every step keeps every user within the bound. *)

LEMMA InitBudget == Init => BudgetInv
<1> SUFFICES ASSUME Init, NEW u \in Payers PROVE Budgeted(u)
  BY DEF BudgetInv
<1>1. ChargedBytes(u) = {}
  BY DEF Init, NoRequest, ChargedBytes, Charged
<1>2. SpareBytes(u) = {}
  BY DEF Init, QuotaInit, NoKey, SpareBytes
<1>3. granted[u] = 0 /\ twice[u] = 0
  BY DEF Init, QuotaInit
<1>4. IsFiniteSet({}) /\ Cardinality({}) = 0
  BY FS_EmptySet
<1>5. MaxBytes * 0 = 0
  BY QuotaAssumption
<1>6. QED
  BY <1>1, <1>2, <1>3, <1>4, <1>5 DEF Budgeted

\* A step that touches no budget and lets nobody past it.
LEMMA UnchargedBudgets ==
  ASSUME IInv, BudgetInv, UNCHANGED paying,
         \A q \in Requests : request'[q].at \in Charged =>
             /\ request[q].at \in Charged
             /\ request'[q].bytes = request[q].bytes
             /\ request'[q].client = request[q].client
  PROVE  BudgetInv'
<1> SUFFICES ASSUME NEW u \in Payers PROVE Budgeted(u)'
  BY DEF BudgetInv
<1>1. quota' = quota /\ granted' = granted /\ twice' = twice
  BY DEF paying
<1>2. Eased(u)
  BY <1>1, NothingCharged, NothingGiven DEF Eased
<1>3. granted[u] \in Nat /\ twice[u] \in Nat
  BY QuotaKnown
<1>4. QED
  BY <1>2, <1>3, EasedBudget DEF BudgetInv

\* Or one that moves a request without charging it.
LEMMA GotoBudgets ==
  ASSUME IInv, BudgetInv, UNCHANGED paying, NEW r \in Requests, NEW at,
         Goto(r, at), at \in Charged => request[r].at \in Charged
  PROVE  BudgetInv'
<1>1. \A q \in Requests : request'[q].at \in Charged =>
          /\ request[q].at \in Charged
          /\ request'[q].bytes = request[q].bytes
          /\ request'[q].client = request[q].client
  BY GotoMoves
<1>2. QED
  BY <1>1, UnchargedBudgets

LEMMA TakeBudgets ==
  ASSUME IInv, BudgetInv, NEW r \in Requests, request[r].at \in Paying,
         NEW s \in Stores, NEW at, Goto(r, at),
         at \notin Charged \/ at = "file",
         NEW u, u = User(r), NEW b, b = request[r].bytes,
         Affordable(s, u, b), Take(s, u, b), twice' = twice
  PROVE  BudgetInv'
<1> PICK old : old = quota[s][u].value
  OBVIOUS
<1>1. u \in Payers /\ b \in Nat
  BY UserPays
<1>2. /\ \A v \in Payers : v # u =>
            SpareBytes(v)' \subseteq SpareBytes(v) /\ granted'[v] = granted[v]
      /\ quota[s][u].on =>
            /\ Run(s, old, old + b) \subseteq SpareBytes(u)
            /\ SpareBytes(u)' \subseteq SpareBytes(u) \ Run(s, old, old + b)
            /\ granted'[u] = granted[u]
      /\ ~quota[s][u].on =>
            /\ SpareBytes(u)' \subseteq SpareBytes(u) \cup Run(s, b, MaxBytes)
            /\ granted'[u] = granted[u] + 1
      /\ old \in Nat /\ b <= MaxBytes
  BY <1>1, TakeSpares
<1>3. \A v \in Payers :
         /\ ChargedBytes(v)' \subseteq ChargedBytes(v) \cup Run(r, 0, b)
         /\ v # u => ChargedBytes(v)' \subseteq ChargedBytes(v)
  BY ChargedGrow
<1>4. \A v \in Payers : Budgeted(v) /\ granted[v] \in Nat /\ twice[v] \in Nat
  BY QuotaKnown DEF BudgetInv
<1>5. ASSUME NEW v \in Payers, v # u PROVE Budgeted(v)'
  <2>1. Eased(v)
    BY <1>2, <1>3, <1>5 DEF Eased
  <2>2. QED
    BY <1>4, <2>1, EasedBudget
<1>6. /\ Budgeted(u) /\ granted[u] \in Nat /\ twice[u] \in Nat
      /\ ChargedBytes(u)' \subseteq ChargedBytes(u) \cup Run(r, 0, b)
      /\ twice'[u] = twice[u]
  BY <1>1, <1>3, <1>4
<1>7. IsFiniteSet(Run(r, 0, b)) /\ Cardinality(Run(r, 0, b)) = b
  BY <1>1, CountedRun
<1>8. ASSUME quota[s][u].on PROVE Budgeted(u)'
  <2> PICK top : top = old + b
    OBVIOUS
  <2> PICK T : T = Run(s, old, top)
    OBVIOUS
  <2>1. /\ T \subseteq SpareBytes(u)
        /\ SpareBytes(u)' \subseteq SpareBytes(u) \ T
        /\ granted'[u] = granted[u] /\ old \in Nat
    BY <1>2, <1>8
  <2>2. old <= top /\ top \in Nat /\ top - old = b
    BY <1>1, <2>1
  <2>3. Cardinality(T) = b
    BY <2>1, <2>2, RunLength
  <2>4. QED
    BY <1>1, <1>6, <1>7, <2>1, <2>3, ChargeBudget
<1>9. ASSUME ~quota[s][u].on PROVE Budgeted(u)'
  <2> PICK T : T = Run(s, b, MaxBytes)
    OBVIOUS
  <2>1. /\ SpareBytes(u)' \subseteq SpareBytes(u) \cup T
        /\ granted'[u] = granted[u] + 1 /\ b <= MaxBytes
    BY <1>2, <1>9
  <2>2. MaxBytes \in Nat
    BY QuotaAssumption
  <2>3. IsFiniteSet(T) /\ Cardinality(T) = MaxBytes - b
    BY <1>1, <2>1, <2>2, RunLength
  <2>4. QED
    BY <1>1, <1>6, <1>7, <2>1, <2>3, OpenBudget
<1>10. QED
  BY <1>5, <1>8, <1>9 DEF BudgetInv

LEMMA GiveBackBudgets ==
  ASSUME IInv, BudgetInv, NEW r \in Requests, NEW s \in Stores, NEW at,
         request[r].at \in {"refund", "refundAlone"}, Goto(r, at),
         NEW u, u = User(r), NEW b, b = request[r].bytes, GiveBack(s, u, b),
         \/ at = "failed" /\ twice' = twice
         \/ at = "refundAlone" /\ twice' = [twice EXCEPT ![u] = @ + b]
  PROVE  BudgetInv'
<1> PICK old : old = quota[s][u].value
  OBVIOUS
<1> PICK new : new = Difference(old, b)
  OBVIOUS
<1>1. u \in Payers /\ b \in Nat /\ request[r].at \in Charged
  BY UserPays DEF Paying, Charged
<1>2. /\ old \in Nat /\ new \in Nat /\ new <= old /\ old - new <= b
      /\ SpareBytes(u)' \subseteq SpareBytes(u) \cup Run(s, new, old)
      /\ \A v \in Payers : v # u => SpareBytes(v)' \subseteq SpareBytes(v)
      /\ granted' = granted
  BY <1>1, GiveBackSpares
<1>3. \A v \in Payers : ChargedBytes(v)' \subseteq ChargedBytes(v)
  BY <1>1, ChargedGrow
<1>4. at = "failed" =>
         /\ Run(r, 0, b) \subseteq ChargedBytes(u)
         /\ ChargedBytes(u)' \subseteq ChargedBytes(u) \ Run(r, 0, b)
  BY <1>1, ChargedLeave DEF Charged
<1>5. \A v \in Payers : Budgeted(v) /\ granted[v] \in Nat /\ twice[v] \in Nat
  BY QuotaKnown DEF BudgetInv
<1>6. /\ \A v \in Payers : v # u => twice'[v] = twice[v]
      /\ \/ at = "failed" /\ twice'[u] = twice[u]
         \/ at = "refundAlone" /\ twice'[u] = twice[u] + b
  <2>1. twice \in [Payers -> Nat]
    BY QuotaKnown
  <2>2. QED
    BY <1>1, <2>1
<1>7. ASSUME NEW v \in Payers, v # u PROVE Budgeted(v)'
  <2>1. Eased(v)
    BY <1>2, <1>3, <1>6, <1>7 DEF Eased
  <2>2. QED
    BY <1>5, <2>1, EasedBudget
<1>8. Budgeted(u)'
  <2>1. Cardinality(Run(r, 0, b)) = b
    BY <1>1, CountedRun
  <2>2. IsFiniteSet(Run(s, new, old)) /\ Cardinality(Run(s, new, old)) <= b
    <3>1. /\ IsFiniteSet(Run(s, new, old))
          /\ Cardinality(Run(s, new, old)) = old - new
      BY <1>2, RunLength
    <3>2. QED
      BY <1>2, <3>1
  <2>3. \/ /\ Run(r, 0, b) \subseteq ChargedBytes(u)
           /\ ChargedBytes(u)' \subseteq ChargedBytes(u) \ Run(r, 0, b)
           /\ twice'[u] = twice[u]
        \/ /\ ChargedBytes(u)' \subseteq ChargedBytes(u)
           /\ twice'[u] = twice[u] + b
    BY <1>1, <1>3, <1>4, <1>6
  <2>4. /\ Budgeted(u) /\ granted[u] \in Nat /\ twice[u] \in Nat
        /\ SpareBytes(u)' \subseteq SpareBytes(u) \cup Run(s, new, old)
        /\ granted'[u] = granted[u]
    BY <1>1, <1>2, <1>5
  <2>5. QED
    BY <1>1, <2>1, <2>2, <2>3, <2>4, RefundBudget
<1>9. QED
  BY <1>7, <1>8 DEF BudgetInv

LEMMA NextBudget == IInv /\ BudgetInv /\ [Next]_vars => BudgetInv'
<1> SUFFICES ASSUME IInv, BudgetInv, [Next]_vars PROVE BudgetInv'
  OBVIOUS
<1>1. CASE UNCHANGED vars
  BY <1>1, UnchargedBudgets DEF vars, paying
<1>2. ASSUME NEW r \in Requests, NEW c \in Clients, NEW p \in Processes,
             NEW tier \in traffic, NEW n \in Sizes, Arrive(r, c, p, tier, n)
      PROVE  BudgetInv'
  <2>1. UNCHANGED paying
    BY <1>2 DEF Arrive
  <2>2. \A q \in Requests : request'[q].at = "guard" \/ request'[q] = request[q]
    BY <1>2 DEF Arrive, IInv, TypeOK
  <2>3. QED
    BY <2>1, <2>2, UnchargedBudgets DEF Charged
<1>3. ASSUME NEW r \in Requests, GuardAsk(r) \/ GuardAlone(r)
      PROVE  BudgetInv'
  <2>1. UNCHANGED paying
    BY <1>3 DEF GuardAsk, GuardAlone
  <2>2. \/ \E at \in {"guardAlone", "refused", "charge", "passed"} : Goto(r, at)
        \/ request' = [request EXCEPT ![r].rule = @ + 1, ![r].at = "guard"]
    <3>1. ASSUME NEW s, CountIn(s, r)
          PROVE  \/ \E at \in {"refused", "charge", "passed"} : Goto(r, at)
                 \/ request' = [request EXCEPT ![r].rule = @ + 1, ![r].at = "guard"]
      BY <3>1 DEF CountIn, AfterRule
    <3>2. CASE GuardAlone(r)
      BY <3>1, <3>2 DEF GuardAlone
    <3>3. CASE GuardAsk(r)
      <4>1. Outcomes(request[r].process) \subseteq {"answered", "lost", "failed"}
        BY DEF Outcomes
      <4>2. CountIn(Shared, r) \/ Goto(r, "guardAlone")
        BY <3>3, <4>1 DEF GuardAsk
      <4>3. QED
        BY <3>1, <4>2
    <3>4. QED
      BY <1>3, <3>2, <3>3
  <2>3. CASE \E at \in {"guardAlone", "refused", "charge", "passed"} : Goto(r, at)
    BY <2>1, <2>3, GotoBudgets DEF Charged
  <2>4. CASE request' = [request EXCEPT ![r].rule = @ + 1, ![r].at = "guard"]
    <3>1. \A q \in Requests :
             request'[q].at = "guard" \/ request'[q] = request[q]
      BY <2>4 DEF IInv, TypeOK, RequestRecord
    <3>2. QED
      BY <2>1, <3>1, UnchargedBudgets DEF Charged
  <2>5. QED
    BY <2>2, <2>3, <2>4
<1>4. ASSUME NEW r \in Requests, ChargeAsk(r) \/ ChargeAlone(r)
      PROVE  BudgetInv'
  <2> DEFINE takes(s, at) ==
               /\ Goto(r, at)
               /\ Affordable(s, User(r), request[r].bytes)
               /\ Take(s, User(r), request[r].bytes)
             leaves(at) == Goto(r, at) /\ UNCHANGED <<quota, granted>>
  <2>1. /\ request[r].at \in Paying /\ twice' = twice
        /\ request[r].process \in Stores /\ Shared \in Stores
    BY <1>4, UserPays DEF ChargeAsk, ChargeAlone, At, Paying, Stores
  <2>2. \A s : ChargeTo(s, r) => takes(s, "file") \/ leaves("overBudget")
    BY DEF ChargeTo
  <2>3. \/ \E s \in Stores, at \in {"file", "chargeAlone"} : takes(s, at)
        \/ \E at \in {"overBudget", "chargeAlone"} : leaves(at)
    <3>1. CASE ChargeAlone(r)
      BY <2>1, <2>2, <3>1 DEF ChargeAlone
    <3>2. CASE ChargeAsk(r)
      <4>1. Outcomes(request[r].process) \subseteq {"answered", "lost", "failed"}
        BY DEF Outcomes
      <4>2. \/ ChargeTo(Shared, r)
            \/ takes(Shared, "chargeAlone") \/ leaves("chargeAlone")
        BY <3>2, <4>1 DEF ChargeAsk, ChargeUnseen
      <4>3. QED
        BY <2>1, <2>2, <4>2
    <3>3. QED
      BY <1>4, <3>1, <3>2
  <2>4. CASE \E s \in Stores, at \in {"file", "chargeAlone"} : takes(s, at)
    BY <2>1, <2>4, TakeBudgets DEF Charged
  <2>5. CASE \E at \in {"overBudget", "chargeAlone"} : leaves(at)
    BY <2>1, <2>5, GotoBudgets DEF paying, Charged
  <2>6. QED
    BY <2>3, <2>4, <2>5
<1>5. ASSUME NEW r \in Requests, KeepFile(r) PROVE BudgetInv'
  <2>1. UNCHANGED paying /\ request[r].at \in Charged /\ \E at : Goto(r, at)
    BY <1>5 DEF KeepFile, At, Charged
  <2>2. QED
    BY <2>1, GotoBudgets
<1>6. ASSUME NEW r \in Requests, RefundAsk(r) \/ RefundAlone(r)
      PROVE  BudgetInv'
  <2> DEFINE gives(s) == GiveBack(s, User(r), request[r].bytes)
  <2>1. /\ request[r].at \in {"refund", "refundAlone"}
        /\ request[r].process \in Stores /\ Shared \in Stores
    BY <1>6, UserPays DEF RefundAsk, RefundAlone, At, Paying, Stores
  <2>2. \/ \E s \in Stores : gives(s) /\ Goto(r, "failed") /\ twice' = twice
        \/ /\ gives(Shared) /\ Goto(r, "refundAlone")
           /\ twice' = [twice EXCEPT ![User(r)] = @ + request[r].bytes]
        \/ Goto(r, "refundAlone") /\ UNCHANGED paying
    <3>1. CASE RefundAlone(r)
      BY <2>1, <3>1 DEF RefundAlone
    <3>2. CASE RefundAsk(r)
      <4>1. Outcomes(request[r].process) \subseteq {"answered", "lost", "failed"}
        BY DEF Outcomes
      <4>2. QED
        BY <2>1, <3>2, <4>1 DEF RefundAsk, paying
    <3>3. QED
      BY <1>6, <3>1, <3>2
  <2>3. CASE \E s \in Stores : gives(s) /\ Goto(r, "failed") /\ twice' = twice
    BY <2>1, <2>3, GiveBackBudgets
  <2>4. CASE /\ gives(Shared) /\ Goto(r, "refundAlone")
             /\ twice' = [twice EXCEPT ![User(r)] = @ + request[r].bytes]
    BY <2>1, <2>4, GiveBackBudgets
  <2>5. CASE Goto(r, "refundAlone") /\ UNCHANGED paying
    BY <2>1, <2>5, GotoBudgets DEF Charged
  <2>6. QED
    BY <2>2, <2>3, <2>4, <2>5
<1>7. ASSUME \A s \in Stores, u \in Payers : quota'[s][u].on =>
                quota[s][u].on /\ quota'[s][u].value = quota[s][u].value,
             UNCHANGED <<granted, twice>>,
             \A q \in Requests : request'[q].at \in Charged =>
                request'[q] = request[q]
      PROVE  BudgetInv'
  <2> SUFFICES ASSUME NEW u \in Payers PROVE Budgeted(u)'
    BY DEF BudgetInv
  <2>1. ChargedBytes(u)' \subseteq ChargedBytes(u)
    BY <1>7, NothingCharged
  <2>2. SpareBytes(u)' \subseteq SpareBytes(u)
    BY <1>7, NothingGiven
  <2>3. Eased(u)
    BY <1>7, <2>1, <2>2 DEF Eased
  <2>4. granted[u] \in Nat /\ twice[u] \in Nat
    BY QuotaKnown
  <2>5. QED
    BY <2>3, <2>4, EasedBudget DEF BudgetInv
<1>8. CASE Tick
  <2>1. /\ quota' = [s \in Stores |-> [u \in Payers |-> Aged(quota[s][u])]]
        /\ UNCHANGED <<granted, twice, request>>
    BY <1>8 DEF Tick, QuotaAges
  <2>2. ASSUME NEW s \in Stores, NEW u \in Payers, quota'[s][u].on
        PROVE  quota[s][u].on /\ quota'[s][u].value = quota[s][u].value
    <3>1. quota[s][u] \in QuotaKey
      BY QuotaKnown
    <3>2. quota'[s][u] = Aged(quota[s][u])
      BY <2>1
    <3>3. QED
      BY <2>2, <3>1, <3>2 DEF Aged, NoKey, QuotaKey
  <2>3. QED
    BY <1>7, <2>1, <2>2
<1>9. ASSUME NEW p \in Processes, LinkStep(p) PROVE BudgetInv'
  <2>1. UNCHANGED paying /\ request' = request
    BY <1>9 DEF LinkStep
  <2>2. QED
    BY <2>1, UnchargedBudgets
<1>10. ASSUME NEW p \in Processes, Restart(p) PROVE BudgetInv'
  <2>1. /\ quota' = [quota EXCEPT ![p] = [u \in Payers |-> NoKey]]
        /\ UNCHANGED <<granted, twice>>
        /\ request' = [q \in Requests |->
              IF request[q].process = p
              THEN [request[q] EXCEPT !.at = "dropped", !.process = None]
              ELSE request[q]]
    BY <1>10 DEF Restart, QuotaForgets
  <2>2. ASSUME NEW s \in Stores, NEW u \in Payers, quota'[s][u].on
        PROVE  quota[s][u].on /\ quota'[s][u].value = quota[s][u].value
    <3>1. quota' \in [Stores -> [Payers -> QuotaKey]] \/ p \in Stores
      BY DEF Stores
    <3>2. quota'[s] = IF s = p THEN [v \in Payers |-> NoKey] ELSE quota[s]
      BY <2>1, QuotaKnown
    <3>3. QED
      BY <2>2, <3>2 DEF NoKey
  <2>3. ASSUME NEW q \in Requests, request'[q].at \in Charged
        PROVE  request'[q] = request[q]
    <3>1. request[q] \in RequestRecord
      BY DEF IInv, TypeOK
    <3>2. request[q].process = p => request'[q].at = "dropped"
      BY <2>1, <3>1 DEF RequestRecord
    <3>3. QED
      BY <2>1, <2>3, <3>2 DEF Charged
  <2>4. QED
    BY <1>7, <2>1, <2>2, <2>3
<1>11. QED
  BY <1>1, <1>2, <1>3, <1>4, <1>5, <1>6, <1>8, <1>9, <1>10
     DEF Next, RequestStep

\* Degraded or not, a user has at most one budget per window in storage, and
\* what lost replies handed back twice: CONSUME and the process's own window
\* check and reserve in one go, and no refund gives a window more than it took.
THEOREM BytesHold == Spec => []BytesBounded
<1>1. ASSUME IInv, BudgetInv PROVE BytesBounded
  <2> SUFFICES ASSUME NEW u \in Payers
               PROVE  Cardinality(BytesOf(u)) <= MaxBytes * granted[u] + twice[u]
    BY DEF BytesBounded
  <2>1. BytesOf(u) \subseteq ChargedBytes(u)
    <3> SUFFICES ASSUME NEW r \in Requests, request[r].at \in {"file", "stored"},
                        User(r) = u, NEW i \in 1 .. request[r].bytes
                 PROVE  <<r, i>> \in ChargedBytes(u)
      BY DEF BytesOf
    <3>1. request[r] \in RequestRecord
      BY <1>1 DEF IInv, TypeOK
    <3>2. request[r].bytes \in Sizes \cup {0}
      BY <3>1 DEF RequestRecord
    <3>3. request[r].bytes \in Nat
      BY <3>2, RequestsAssumption
    <3>4. QED
      BY <3>3 DEF ChargedBytes, Charged
  <2>2. /\ IsFiniteSet(ChargedBytes(u)) /\ IsFiniteSet(SpareBytes(u))
        /\ Cardinality(ChargedBytes(u)) + Cardinality(SpareBytes(u))
             <= MaxBytes * granted[u] + twice[u]
    BY <1>1 DEF BudgetInv, Budgeted
  <2>3. /\ Cardinality(BytesOf(u)) <= Cardinality(ChargedBytes(u))
        /\ Cardinality(BytesOf(u)) \in Nat
        /\ Cardinality(ChargedBytes(u)) \in Nat /\ Cardinality(SpareBytes(u)) \in Nat
    BY <2>1, <2>2, FS_Subset, FS_CardinalityType
  <2>4. granted[u] \in Nat /\ twice[u] \in Nat /\ MaxBytes * granted[u] \in Nat
    BY <1>1, QuotaKnown, QuotaAssumption
  <2>5. QED
    BY <2>2, <2>3, <2>4
<1>2. Init => BudgetInv
  BY InitBudget
<1>3. IInv /\ BudgetInv /\ [Next]_vars => BudgetInv'
  BY NextBudget
<1>4. QED
  BY <1>1, <1>2, <1>3, SpecInv, PTL DEF Spec
=============================================================================
