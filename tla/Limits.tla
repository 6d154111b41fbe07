------------------------------- MODULE Limits -------------------------------
(***************************************************************************)
(* A request on its way in: rate-limit.guard.ts counts it against every     *)
(* rule of its tier, and an upload then takes its bytes from the budget of  *)
(* its user and hands them back when the file cannot be kept                *)
(* (documents.service.ts).  Throttle and UploadQuota share one connection   *)
(* to Redis, which may fail at any await.                                   *)
(*                                                                          *)
(* Each awaited script is two steps where it can go wrong: what Redis does, *)
(* and what the process does by itself once the reply does not come.        *)
(***************************************************************************)
EXTENDS Throttle, UploadQuota

CONSTANTS
    Requests,
    Overlap,   \* bound: requests in flight at once
    Sizes      \* bytes of an upload

ASSUME RequestsAssumption ==
    /\ Sizes \subseteq Nat
    /\ Overlap \in Nat
    /\ Payers = {c.user : c \in Clients} \ {None}
    /\ IsFiniteSet(Requests)
    /\ None \notin Processes

VARIABLES
    request,  \* each request and how far it got
    twice     \* history: bytes a lost reply handed back in two stores

vars == <<link, faults, hits, block, opened, quota, granted, request, traffic,
          twice>>
counting == <<hits, block, opened>>
paying == <<quota, granted, twice>>

Positions == {"new", "guard", "guardAlone", "passed", "refused", "charge",
              "chargeAlone", "file", "refund", "refundAlone",
              "overBudget", "stored", "unsuitable", "failed", "dropped"}
Ended == {"passed", "refused", "overBudget", "stored", "unsuitable", "failed", "dropped"}

RequestRecord == [at : Positions, client : Clients \cup {None},
                  tier : Tiers \cup {None}, process : Processes \cup {None},
                  rule : 0 .. 2, bytes : Sizes \cup {0}]

TypeOK ==
    /\ LinkTypeOK
    /\ QuotaTypeOK
    /\ hits \in [Stores -> [Counters -> [on : BOOLEAN, value : Nat, left : Nat]]]
    /\ block \in [Stores -> [Counters -> [on : BOOLEAN, value : Nat, left : Nat]]]
    /\ opened \in [Counters -> Nat]
    /\ request \in [Requests -> RequestRecord]
    /\ traffic \in Traffics
    /\ twice \in [Payers -> Nat]

NoRequest == [at |-> "new", client |-> None, tier |-> None, process |-> None,
              rule |-> 0, bytes |-> 0]

Init ==
    /\ LinkInit
    /\ ThrottleInit
    /\ QuotaInit
    /\ request = [r \in Requests |-> NoRequest]
    /\ twice = [u \in Payers |-> 0]

-----------------------------------------------------------------------------

At(r, at) == request[r].at = at
\* A request that is over is no longer any process's.
Goto(r, at) ==
    request' = [request EXCEPT
                  ![r].at = at,
                  ![r].process = IF at \in Ended THEN None ELSE @]

InFlight == {r \in Requests : ~At(r, "new") /\ request[r].at \notin Ended}

Arrive(r, c, p, tier, bytes) ==
    /\ At(r, "new")
    /\ Cardinality(InFlight) < Overlap
    /\ tier = "upload" => c.user # None
    /\ request' = [request EXCEPT ![r] =
          [at |-> "guard", client |-> c, tier |-> tier, process |-> p,
           rule |-> 1,
           bytes |-> IF tier = "upload" THEN bytes ELSE 0]]
    /\ UNCHANGED <<link, faults, counting, paying, traffic>>

Rule(r) == RulesOf(request[r].tier)[request[r].rule]
Counter(r) == <<Rule(r), TrackerFor(Rule(r), request[r].client)>>

\* The first rule that refuses ends the request; those before it have counted
\* it.  Past the last one it reaches its handler.
AfterRule(r, refused) ==
    IF refused THEN Goto(r, "refused")
    ELSE IF request[r].rule < Len(RulesOf(request[r].tier))
    THEN request' = [request EXCEPT ![r].rule = @ + 1, ![r].at = "guard"]
    ELSE Goto(r, IF request[r].tier = "upload" THEN "charge" ELSE "passed")

\* Count in one of the stores and go by its answer.
CountIn(s, r) ==
    /\ Increment(s, Counter(r))
    /\ AfterRule(r, Refuses(s, Counter(r)))

GuardAsk(r) ==
    /\ At(r, "guard")
    /\ \E outcome \in Outcomes(request[r].process) :
          CASE outcome = "answered" -> CountIn(Shared, r)
            [] outcome = "lost" -> /\ Increment(Shared, Counter(r))
                                   /\ Goto(r, "guardAlone")
            [] outcome = "failed" -> /\ UNCHANGED counting
                                     /\ Goto(r, "guardAlone")
    /\ UNCHANGED <<link, faults, paying, traffic>>

\* Without a client, or once the script failed, the process counts by itself.
GuardAlone(r) ==
    /\ \/ At(r, "guardAlone")
       \/ At(r, "guard") /\ NoClient(request[r].process)
    /\ CountIn(request[r].process, r)
    /\ UNCHANGED <<link, faults, paying, traffic>>

-----------------------------------------------------------------------------
(* reserveQuota(), and what becomes of the file.                            *)

User(r) == request[r].client.user

ChargeTo(s, r) ==
    IF Affordable(s, User(r), request[r].bytes)
    THEN /\ Take(s, User(r), request[r].bytes)
         /\ Goto(r, "file")
    ELSE /\ UNCHANGED <<quota, granted>>
         /\ Goto(r, "overBudget")

\* The script ran, and whatever it answered is not known.
ChargeUnseen(s, r) ==
    IF Affordable(s, User(r), request[r].bytes)
    THEN Take(s, User(r), request[r].bytes)
    ELSE UNCHANGED <<quota, granted>>

ChargeAsk(r) ==
    /\ At(r, "charge")
    /\ \E outcome \in Outcomes(request[r].process) :
          CASE outcome = "answered" -> ChargeTo(Shared, r)
            [] outcome = "lost" -> /\ ChargeUnseen(Shared, r)
                                   /\ Goto(r, "chargeAlone")
            [] outcome = "failed" -> /\ UNCHANGED <<quota, granted>>
                                     /\ Goto(r, "chargeAlone")
    /\ UNCHANGED <<link, faults, counting, traffic, twice>>

ChargeAlone(r) ==
    /\ \/ At(r, "chargeAlone")
       \/ At(r, "charge") /\ NoClient(request[r].process)
    /\ ChargeTo(request[r].process, r)
    /\ UNCHANGED <<link, faults, counting, traffic, twice>>

\* A file that vetting turns down stays charged, on purpose.  One whose object
\* or row cannot be written is taken back out of storage and refunded.
KeepFile(r) ==
    /\ At(r, "file")
    /\ \E at \in {"stored", "unsuitable", "refund"} : Goto(r, at)
    /\ UNCHANGED <<link, faults, counting, paying, traffic>>

RefundAsk(r) ==
    /\ At(r, "refund")
    /\ \E outcome \in Outcomes(request[r].process) :
          /\ IF outcome = "failed" THEN UNCHANGED <<quota, granted>>
             ELSE GiveBack(Shared, User(r), request[r].bytes)
          /\ twice' = IF outcome = "lost"
                      THEN [twice EXCEPT ![User(r)] = @ + request[r].bytes]
                      ELSE twice
          /\ Goto(r, IF outcome = "answered" THEN "failed" ELSE "refundAlone")
    /\ UNCHANGED <<link, faults, counting, traffic>>

RefundAlone(r) ==
    /\ \/ At(r, "refundAlone")
       \/ At(r, "refund") /\ NoClient(request[r].process)
    /\ GiveBack(request[r].process, User(r), request[r].bytes)
    /\ Goto(r, "failed")
    /\ UNCHANGED <<link, faults, counting, traffic, twice>>

-----------------------------------------------------------------------------

Tick ==
    /\ ThrottleAges
    /\ QuotaAges
    /\ UNCHANGED <<link, faults, request, twice>>

LinkStep(p) ==
    /\ Disconnects(p) \/ Reconnects(p)
    /\ UNCHANGED <<counting, paying, request, traffic>>

\* Its counters and its requests go with the process.
Restart(p) ==
    /\ Fault
    /\ ThrottleForgets(p)
    /\ QuotaForgets(p)
    /\ request' = [r \in Requests |->
          IF request[r].process = p
          THEN [request[r] EXCEPT !.at = "dropped", !.process = None]
          ELSE request[r]]
    /\ UNCHANGED <<link, twice>>

RequestStep(r) ==
    \/ \E c \in Clients, p \in Processes, tier \in traffic, b \in Sizes :
          Arrive(r, c, p, tier, b)
    \/ GuardAsk(r) \/ GuardAlone(r)
    \/ ChargeAsk(r) \/ ChargeAlone(r)
    \/ KeepFile(r)
    \/ RefundAsk(r) \/ RefundAlone(r)

Next ==
    \/ \E r \in Requests : RequestStep(r)
    \/ Tick
    \/ \E p \in Processes : LinkStep(p) \/ Restart(p)

Spec == Init /\ [][Next]_vars

-----------------------------------------------------------------------------
(* Properties.                                                              *)

\* No counter, block or budget is there for good: whatever was counted,
\* refused, handed back or lost on the way, each key still has an expiry.  A
\* key without one would refuse its caller until somebody deletes it.
EveryWindowEnds ==
    /\ \A k \in Counters, s \in Stores :
          /\ hits[s][k].on => hits[s][k].left > 0
          /\ block[s][k].on => block[s][k].left > 0
    /\ \A u \in Payers, s \in Stores : quota[s][u].on => quota[s][u].left > 0

Passed(r, i) ==
    \/ request[r].rule > i
    \/ request[r].rule = i /\ request[r].at \notin
          {"guard", "guardAlone", "refused", "dropped"}
PassedBy(k) ==
    {r \in Requests : \E i \in 1 .. 2 :
        /\ Passed(r, i)
        /\ LET rule == RulesOf(request[r].tier)[i]
           IN  k = <<rule, TrackerFor(rule, request[r].client)>>}

\* However requests overlap, and wherever they are counted while Redis comes
\* and goes, a rule lets through no more than its limit for each window that
\* was opened: "a limit of 5" never admits 6.
PassesBounded ==
    \A k \in Counters :
       Cardinality(PassedBy(k)) <= Limit[k[1]] * opened[k]

SameCaller(kind, a, b) ==
    CASE kind = "ip-email" -> a.ip = b.ip /\ a.email = b.email
      [] kind = "user" /\ a.user # None -> a.user = b.user
      [] kind = "refresh-user" /\ a.cookie # None -> a.cookie = b.cookie
      [] OTHER -> a.ip = b.ip
Asked(r) ==
    {q \in Requests :
       /\ ~At(q, "new")
       /\ SameCaller(KeyKind(Rule(r)), request[r].client, request[q].client)}

\* Nobody is refused for what others did: a rule that is counted per user, or
\* per account and address, refuses a caller who asked that often himself,
\* also behind an address that many share.
NobodyPaysForOthers ==
    \A r \in Requests :
       At(r, "refused") => Cardinality(Asked(r)) > Limit[Rule(r)]

\* The bytes of a user's files that are in storage or on their way there, each
\* known by its request and its number.
BytesOf(u) ==
    UNION {{r} \X (1 .. request[r].bytes) :
             r \in {q \in Requests : request[q].at \in {"file", "stored"}
                                    /\ User(q) = u}}

\* Degraded, and still bounded: what a user has stored or is storing is never
\* more than one budget per window that was opened for him, in Redis or in a
\* process that was on its own, and what a lost reply handed back twice.
BytesBounded ==
    \A u \in Payers :
       Cardinality(BytesOf(u)) <= MaxBytes * granted[u] + twice[u]
=============================================================================
