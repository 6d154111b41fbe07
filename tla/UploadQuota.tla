---------------------------- MODULE UploadQuota ----------------------------
(***************************************************************************)
(* The byte budget of upload-quota.service.ts: the CONSUME and REFUND       *)
(* scripts on a user's window in Redis, and the same on the window that     *)
(* each process keeps for when Redis is out of reach.                       *)
(***************************************************************************)
EXTENDS SharedCounters

CONSTANTS
    Payers,       \* users with a budget
    MaxBytes,
    QuotaWindow   \* ticks

ASSUME QuotaAssumption ==
    /\ MaxBytes \in Nat
    /\ QuotaWindow \in Nat \ {0}

VARIABLES
    quota,    \* per store and user: bytes taken from the current window
    granted   \* history: windows a user was given, over all stores

QuotaTypeOK ==
    /\ quota \in [Stores -> [Payers -> Keys(0 .. MaxBytes, 0 .. QuotaWindow)]]
    /\ granted \in [Payers -> Nat]

QuotaInit ==
    /\ quota = [s \in Stores |-> [u \in Payers |-> NoKey]]
    /\ granted = [u \in Payers |-> 0]

\* Bug: the bytes on their way in are left out of the comparison.
AffordableSoFar(s, u, bytes) == quota[s][u].value <= MaxBytes

\* Check and reserve in one step: a script in Redis, and a function that does
\* not await anything in a process.
Affordable(s, u, bytes) == quota[s][u].value + bytes <= MaxBytes

\* CONSUME gives a key whose total is these bytes a window of its own, a new
\* key and one that was refunded to nothing alike.  A process only opens a
\* window where there is none or it ran out.
Take(s, u, bytes) ==
    LET old == quota[s][u]
        opens == IF s = Shared THEN old.value = 0 \/ old.left = 0 ELSE ~old.on
    IN  /\ quota' = [quota EXCEPT ![s][u] =
              [on |-> TRUE, value |-> old.value + bytes,
               left |-> IF opens THEN QuotaWindow ELSE old.left]]
        /\ granted' = [granted EXCEPT ![u] = IF old.on THEN @ ELSE @ + 1]

Difference(a, b) == IF a > b THEN a - b ELSE 0

\* Bug: SET without KEEPTTL, which takes the key's expiry away.
GiveBackForever(s, u, bytes) ==
    /\ quota' = [quota EXCEPT ![s][u] =
          IF @.on THEN [on |-> TRUE, value |-> Difference(@.value, bytes),
                        left |-> 0]
          ELSE @]
    /\ UNCHANGED granted

\* Bug: an absent key is recreated, and owes the refund.
GiveBackUnclamped(s, u, bytes) ==
    /\ quota' = [quota EXCEPT ![s][u].value = @ - bytes]
    /\ UNCHANGED granted

\* REFUND: never below nothing, and the window ends when it would have ended.
GiveBack(s, u, bytes) ==
    /\ quota' = [quota EXCEPT ![s][u].value = Difference(@, bytes)]
    /\ UNCHANGED granted

\* A key in Redis is gone when it expires.  A local window that ran out counts
\* for nothing any more, and prune() only frees it.
QuotaAges ==
    /\ quota' = [s \in Stores |-> [u \in Payers |-> Aged(quota[s][u])]]
    /\ UNCHANGED granted

QuotaForgets(p) ==
    /\ quota' = [quota EXCEPT ![p] = [u \in Payers |-> NoKey]]
    /\ UNCHANGED granted
=============================================================================
