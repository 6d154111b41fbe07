-------------------------- MODULE EmailCodes_proofs --------------------------
(***************************************************************************)
(* Proofs about EmailCodes for every number of users, codes and handlers   *)
(* in flight, and every cap on attempts, whatever overlaps.                *)
(***************************************************************************)
EXTENDS EmailCodes, FiniteSetTheorems, TLAPS

USE CodesAssumption

-----------------------------------------------------------------------------
(* The inductive invariant.  CodeUsedOnce is not inductive by itself: what  *)
(* must be known is that a handler between its claim and its effect is the  *)
(* only one, and that no such handler is about a code that is still live.   *)

WithRow == {"expire", "burn", "compare", "count", "claim", "act"}

\* A handler past its look has a row that was issued.
RowInv ==
    \A c \in Calls : call[c].at \in WithRow =>
        call[c].row \in Codes /\ code[call[c].row].status # "unused"

Acting(c, k) == At(c, "act") /\ call[c].row = k

\* A code's one effect is taken, is in the hands of one handler, or is still
\* to be had; a live one is the last.
SpendOK(k) ==
    /\ code[k].status \in {"unused", "live"} =>
          effects[k] = 0 /\ \A c \in Calls : ~Acting(c, k)
    /\ effects[k] <= 1
    /\ effects[k] = 1 => \A c \in Calls : ~Acting(c, k)
    /\ \A c, d \in Calls : Acting(c, k) /\ Acting(d, k) => c = d

SpendInv == \A k \in Codes : SpendOK(k)

\* Handlers that have passed the cap and may still count a guess at k.
Guessing(k) ==
    {c \in Calls : call[c].at \in {"compare", "count"} /\ call[c].row = k}

\* Each of them may add one to what is counted already.
GuessOK(k) ==
    code[k].attempts + Cardinality(Guessing(k))
        <= MaxAttempts + Cardinality(Calls) - 1

GuessInv == \A k \in Codes : GuessOK(k)

IInv == TypeOK /\ RowInv /\ SpendInv /\ GuessInv

-----------------------------------------------------------------------------
(* What the ways of moving a call, and of consuming codes, change.          *)

LEMMA GotoOnly ==
  ASSUME TypeOK, NEW c \in Calls, NEW at \in Positions, Goto(c, at)
  PROVE  /\ call' \in [Calls -> CallRecord]
         /\ call'[c].at = at /\ call'[c].row = call[c].row
         /\ \A d \in Calls : d # c => call'[d] = call[d]
<1>1. call[c] \in CallRecord
  BY DEF TypeOK
<1>2. /\ [call[c] EXCEPT !.at = at] \in CallRecord
      /\ [call[c] EXCEPT !.at = at].at = at
      /\ [call[c] EXCEPT !.at = at].row = call[c].row
  BY <1>1 DEF CallRecord
<1>3. call' = [call EXCEPT ![c] = [call[c] EXCEPT !.at = at]]
  BY DEF Goto
<1>4. QED
  BY <1>2, <1>3 DEF TypeOK

LEMMA FinishOnly ==
  ASSUME TypeOK, NEW c \in Calls, Finish(c)
  PROVE  /\ call' \in [Calls -> CallRecord]
         /\ call'[c].at = "idle" /\ call'[c].row = None
         /\ \A d \in Calls : d # c => call'[d] = call[d]
  BY DEF TypeOK, Finish, IdleCall, CallRecord, Positions, Purposes

LEMMA StartOnly ==
  ASSUME TypeOK, NEW c \in Calls, NEW op \in Ops, NEW at \in Positions,
         NEW u \in Users, NEW purpose \in Purposes,
         NEW typed \in Codes \cup {Wrong, None},
         Start(c, op, at, u, purpose, typed)
  PROVE  /\ call' \in [Calls -> CallRecord]
         /\ call'[c].at = at /\ call'[c].row = None
         /\ \A d \in Calls : d # c => call'[d] = call[d]
  BY DEF TypeOK, Start, CallRecord

LEMMA ConsumeOnly ==
  ASSUME TypeOK, NEW rows, Consume(rows)
  PROVE  /\ code' \in [Codes -> CodeRow]
         /\ \A k \in Codes :
               /\ code'[k].attempts = code[k].attempts
               /\ \/ code'[k] = code[k]
                  \/ code[k].status = "live" /\ code'[k].status = "consumed"
               /\ k \in rows => code'[k].status # "live"
  <1>1. ASSUME NEW k \in Codes
        PROVE  /\ code'[k] \in CodeRow
               /\ code'[k].attempts = code[k].attempts
               /\ \/ code'[k] = code[k]
                  \/ code[k].status = "live" /\ code'[k].status = "consumed"
               /\ k \in rows => code'[k].status # "live"
    <2>1. code[k] \in CodeRow
      BY DEF TypeOK
    <2>2. code'[k] = IF k \in rows /\ code[k].status = "live"
                     THEN [code[k] EXCEPT !.status = "consumed"] ELSE code[k]
      BY DEF Consume
    <2>3. QED
      BY <2>1, <2>2 DEF CodeRow
  <1>2. QED
    BY <1>1 DEF Consume

\* Guesses are bounded as long as nobody joins those who may count one.
LEMMA GuessKept ==
  ASSUME IInv, NEW k \in Codes, code'[k].attempts = code[k].attempts,
         Guessing(k)' \subseteq Guessing(k)
  PROVE  GuessOK(k)'
<1>1. Guessing(k) \subseteq Calls /\ IsFiniteSet(Guessing(k))
  <2>1. Guessing(k) \in SUBSET Calls
    BY DEF Guessing
  <2>2. QED
    BY <2>1, FS_Subset
<1>2. Guessing(k)' \in SUBSET Guessing(k)
  OBVIOUS
<1>3. /\ IsFiniteSet(Guessing(k)')
      /\ Cardinality(Guessing(k)') <= Cardinality(Guessing(k))
  BY <1>1, <1>2, FS_Subset
<1>4. /\ Cardinality(Guessing(k)) \in Nat /\ Cardinality(Guessing(k)') \in Nat
      /\ Cardinality(Calls) \in Nat
  BY <1>1, <1>3, FS_CardinalityType
<1>5. code[k].attempts \in Nat /\ code'[k].attempts = code[k].attempts
  BY DEF IInv, TypeOK, CodeRow
<1>6. code[k].attempts + Cardinality(Guessing(k))
        <= MaxAttempts + Cardinality(Calls) - 1
  BY DEF IInv, GuessInv, GuessOK
<1>7. code'[k].attempts + Cardinality(Guessing(k)')
        <= MaxAttempts + Cardinality(Calls) - 1
  BY <1>3, <1>4, <1>5, <1>6
<1>8. QED
  BY <1>7 DEF GuessOK

\* A step that leaves the codes' effects alone, lets nobody act and consumes
\* codes at most.
LEMMA QuietStep ==
  ASSUME IInv, TypeOK', effects' = effects,
         \A k \in Codes : /\ code'[k].attempts = code[k].attempts
                          /\ \/ code'[k].status = code[k].status
                             \/ code'[k].status \in {"consumed", "purged"},
         \A c \in Calls :
            \/ call'[c] = call[c]
            \/ call'[c].at \notin WithRow
            \/ /\ call'[c].at \in {"expire", "burn", "claim"}
               /\ call'[c].row \in Codes /\ code[call'[c].row].status # "unused"
            \/ /\ call'[c].at \in {"compare", "count"}
               /\ call[c].at \in {"compare", "count"} /\ call'[c].row = call[c].row
  PROVE  IInv'
<1>1. RowInv'
  BY DEF IInv, RowInv, WithRow
<1>2. \A c \in Calls, k \in Codes : Acting(c, k)' => Acting(c, k)
  BY DEF Acting, At, WithRow
<1>3. SpendInv'
  BY <1>2 DEF IInv, SpendInv, SpendOK
<1>4. \A k \in Codes : Guessing(k)' \subseteq Guessing(k)
  BY DEF Guessing, WithRow
<1>5. GuessInv'
  BY <1>4, GuessKept DEF GuessInv
<1>6. QED
  BY <1>1, <1>3, <1>5 DEF IInv

\* Nothing that IInv speaks of changes.
LEMMA SameStep ==
  ASSUME IInv, TypeOK', UNCHANGED <<code, effects, call>>
  PROVE  IInv'
  BY QuietStep

-----------------------------------------------------------------------------
(* One lemma per step, of which the ones that only move a call are together. *)

LEMMA IssueKeeps ==
  ASSUME IInv, NEW c \in Calls, NEW u \in Users, NEW purpose \in Purposes,
         IssueConsume(c, u, purpose)
  PROVE  IInv'
<1>1. /\ call' \in [Calls -> CallRecord] /\ call'[c].at = "store"
      /\ \A d \in Calls : d # c => call'[d] = call[d]
  <2>1. "issue" \in Ops /\ "store" \in Positions
    BY DEF Ops, Positions
  <2>2. QED
    BY <2>1, StartOnly DEF IInv, IssueConsume
<1>2. /\ code' \in [Codes -> CodeRow]
      /\ \A k \in Codes : /\ code'[k].attempts = code[k].attempts
                          /\ \/ code'[k] = code[k]
                             \/ code'[k].status = "consumed"
  BY ConsumeOnly DEF IInv, IssueConsume
<1>3. TypeOK'
  BY <1>1, <1>2 DEF IInv, TypeOK, IssueConsume
<1>4. effects' = effects
  BY DEF IssueConsume
<1>5. \A d \in Calls : call'[d] = call[d] \/ call'[d].at \notin WithRow
  BY <1>1 DEF WithRow
<1>6. QED
  BY <1>2, <1>3, <1>4, <1>5, QuietStep

LEMMA StartKeeps ==
  ASSUME IInv, NEW c \in Calls, NEW u \in Users,
         NEW op \in {"verify", "check", "reset"}, NEW typed \in Typeable,
         RedeemStart(c, u, op, typed)
  PROVE  IInv'
<1>1. /\ call' \in [Calls -> CallRecord] /\ call'[c].at = "look"
      /\ \A d \in Calls : d # c => call'[d] = call[d]
  <2>1. op \in Ops /\ "look" \in Positions /\ typed \in Codes \cup {Wrong, None}
    BY DEF Ops, Positions, Typeable
  <2>2. (IF op = "verify" THEN "verify" ELSE "reset") \in Purposes
    BY DEF Purposes
  <2>3. QED
    BY <2>1, <2>2, StartOnly DEF IInv, RedeemStart
<1>2. UNCHANGED <<code, expired, user, effects>>
  BY DEF RedeemStart
<1>3. TypeOK'
  BY <1>1, <1>2 DEF IInv, TypeOK
<1>4. \A d \in Calls : call'[d] = call[d] \/ call'[d].at \notin WithRow
  BY <1>1 DEF WithRow
<1>5. QED
  BY <1>2, <1>3, <1>4, QuietStep

\* A handler that ends, with codes consumed on its way or not.
LEMMA FinishKeeps ==
  ASSUME IInv, NEW c \in Calls, Finish(c), UNCHANGED <<expired, user, effects>>,
         code' = code \/ \E rows : Consume(rows)
  PROVE  IInv'
<1>1. /\ call' \in [Calls -> CallRecord] /\ call'[c].at = "idle"
      /\ \A d \in Calls : d # c => call'[d] = call[d]
  BY FinishOnly DEF IInv
<1>2. /\ code' \in [Codes -> CodeRow]
      /\ \A k \in Codes : /\ code'[k].attempts = code[k].attempts
                          /\ \/ code'[k] = code[k]
                             \/ code'[k].status = "consumed"
  <2>1. CASE code' = code
    BY <2>1 DEF IInv, TypeOK
  <2>2. ASSUME NEW rows, Consume(rows)
        PROVE  /\ code' \in [Codes -> CodeRow]
               /\ \A k \in Codes : /\ code'[k].attempts = code[k].attempts
                                   /\ \/ code'[k] = code[k]
                                      \/ code'[k].status = "consumed"
    BY <2>2, ConsumeOnly DEF IInv
  <2>3. QED
    BY <2>1, <2>2
<1>3. TypeOK'
  BY <1>1, <1>2 DEF IInv, TypeOK
<1>4. \A d \in Calls : call'[d] = call[d] \/ call'[d].at \notin WithRow
  BY <1>1 DEF WithRow
<1>5. QED
  BY <1>2, <1>3, <1>4, QuietStep

\* A new code takes a row nothing was let through by, and no handler holds.
LEMMA StoreKeeps ==
  ASSUME IInv, NEW c \in Calls, NEW k \in Codes, IssueStore(c, k)
  PROVE  IInv'
<1>1. /\ call' \in [Calls -> CallRecord] /\ call'[c].at = "idle"
      /\ \A d \in Calls : d # c => call'[d] = call[d]
  BY FinishOnly DEF IInv, IssueStore
<1>2. code[k].status = "unused" /\ effects' = effects
  BY DEF IssueStore, IsNext, Unused
<1>3. /\ code' \in [Codes -> CodeRow]
      /\ code'[k].status = "live" /\ code'[k].attempts = 0
      /\ \A j \in Codes : j # k => code'[j] = code[j]
  <2>1. call[c].user \in Users \cup {None} /\ call[c].purpose \in Purposes
    BY DEF IInv, TypeOK, CallRecord
  <2>2. [status |-> "live", user |-> call[c].user, purpose |-> call[c].purpose,
         attempts |-> 0] \in CodeRow
    BY <2>1 DEF CodeRow
  <2>3. QED
    BY <2>2 DEF IInv, TypeOK, IssueStore
<1>4. TypeOK'
  BY <1>1, <1>3 DEF IInv, TypeOK, IssueStore
<1>5. RowInv'
  BY <1>1, <1>2, <1>3 DEF IInv, RowInv, WithRow
<1>6. \A d \in Calls, j \in Codes : Acting(d, j)' => Acting(d, j)
  BY <1>1 DEF Acting, At
<1>7. SpendInv'
  BY <1>2, <1>3, <1>6 DEF IInv, SpendInv, SpendOK
<1>8. ASSUME NEW j \in Codes PROVE GuessOK(j)'
  <2>1. Guessing(j)' \subseteq Guessing(j) /\ Guessing(j)' \subseteq Calls
    BY <1>1 DEF Guessing
  <2>2. /\ Cardinality(Guessing(j)') \in Nat /\ Cardinality(Calls) \in Nat
        /\ Cardinality(Guessing(j)') <= Cardinality(Calls)
    <3>1. Guessing(j)' \in SUBSET Calls
      BY <2>1
    <3>2. QED
      BY <3>1, FS_Subset, FS_CardinalityType
  <2>3. CASE j = k
    <3>1. code'[j].attempts + Cardinality(Guessing(j)')
            <= MaxAttempts + Cardinality(Calls) - 1
      BY <1>3, <2>2, <2>3
    <3>2. QED
      BY <3>1 DEF GuessOK
  <2>4. CASE j # k
    BY <1>3, <2>1, <2>4, GuessKept
  <2>5. QED
    BY <2>3, <2>4
<1>9. GuessInv'
  BY <1>8 DEF GuessInv
<1>10. QED
  BY <1>4, <1>5, <1>7, <1>9 DEF IInv

\* The cap is what lets a handler join those who may count a guess.
LEMMA LookKeeps ==
  ASSUME IInv, NEW c \in Calls, RedeemLook(c)
  PROVE  IInv'
<1>1. CASE Finish(c)
  BY <1>1, FinishKeeps DEF RedeemLook
<1>2. ASSUME NEW k \in Live(call[c].user, call[c].purpose),
             call' = [call EXCEPT ![c].row = k, ![c].at = NextAfterLook(k)]
      PROVE  IInv'
  <2>1. k \in Codes /\ code[k].status = "live"
    BY DEF Live
  <2>2. /\ NextAfterLook(k) \in {"expire", "burn", "compare"}
        /\ NextAfterLook(k) = "compare" => ~(code[k].attempts >= MaxAttempts)
    BY DEF NextAfterLook
  <2>3. /\ call' \in [Calls -> CallRecord]
        /\ call'[c].at = NextAfterLook(k) /\ call'[c].row = k
        /\ \A d \in Calls : d # c => call'[d] = call[d]
    <3>1. call[c] \in CallRecord /\ NextAfterLook(k) \in Positions
      BY <2>2 DEF IInv, TypeOK, Positions
    <3>2. /\ [call[c] EXCEPT !.row = k, !.at = NextAfterLook(k)] \in CallRecord
          /\ [call[c] EXCEPT !.row = k, !.at = NextAfterLook(k)].at = NextAfterLook(k)
          /\ [call[c] EXCEPT !.row = k, !.at = NextAfterLook(k)].row = k
      BY <2>1, <3>1 DEF CallRecord
    <3>3. call' = [call EXCEPT ![c] = [call[c] EXCEPT !.row = k,
                                                      !.at = NextAfterLook(k)]]
      BY <1>2 DEF IInv, TypeOK
    <3>4. QED
      BY <3>2, <3>3 DEF IInv, TypeOK
  <2>4. UNCHANGED <<code, expired, user, effects>>
    BY DEF RedeemLook
  <2>5. TypeOK'
    BY <2>3, <2>4 DEF IInv, TypeOK
  <2>6. CASE NextAfterLook(k) # "compare"
    <3>1. call'[c].at \in {"expire", "burn", "claim"}
      BY <2>2, <2>3, <2>6
    <3>2. QED
      BY <2>1, <2>3, <2>4, <2>5, <3>1, QuietStep
  <2>7. CASE NextAfterLook(k) = "compare"
    <3>1. RowInv'
      BY <2>1, <2>3, <2>4, <2>7 DEF IInv, RowInv, WithRow
    <3>2. \A d \in Calls, j \in Codes : Acting(d, j)' => Acting(d, j)
      BY <2>3, <2>7 DEF Acting, At
    <3>3. SpendInv'
      BY <2>4, <3>2 DEF IInv, SpendInv, SpendOK
    <3>4. ASSUME NEW j \in Codes PROVE GuessOK(j)'
      <4>1. Guessing(j) \in SUBSET Calls /\ Guessing(j)' \in SUBSET Calls
        BY DEF Guessing
      <4>2. /\ Cardinality(Guessing(j)) \in Nat /\ Cardinality(Guessing(j)') \in Nat
            /\ Cardinality(Calls) \in Nat
            /\ Cardinality(Guessing(j)') <= Cardinality(Calls)
        BY <4>1, FS_Subset, FS_CardinalityType
      <4>3. code'[j].attempts = code[j].attempts /\ code[j].attempts \in Nat
        BY <2>4 DEF IInv, TypeOK, CodeRow
      <4>4. CASE j = k
        <5>1. code'[j].attempts + Cardinality(Guessing(j)')
                <= MaxAttempts + Cardinality(Calls) - 1
          BY <2>2, <2>7, <4>2, <4>3, <4>4
        <5>2. QED
          BY <5>1 DEF GuessOK
      <4>5. CASE j # k
        <5>1. Guessing(j)' \subseteq Guessing(j)
          BY <2>3, <4>5 DEF Guessing
        <5>2. QED
          BY <4>3, <5>1, GuessKept
      <4>6. QED
        BY <4>4, <4>5
    <3>5. QED
      BY <2>5, <3>1, <3>3, <3>4 DEF IInv, GuessInv
  <2>8. QED
    BY <2>6, <2>7
<1>3. QED
  BY <1>1, <1>2 DEF RedeemLook

LEMMA CompareKeeps ==
  ASSUME IInv, NEW c \in Calls, RedeemCompare(c)
  PROVE  IInv'
<1>1. UNCHANGED <<code, expired, user, effects>>
  BY DEF RedeemCompare
<1>2. CASE Finish(c)
  BY <1>1, <1>2, FinishKeeps
<1>3. ASSUME NEW at \in {"count", "claim"}, Goto(c, at) PROVE IInv'
  <2>1. /\ call' \in [Calls -> CallRecord]
        /\ call'[c].at = at /\ call'[c].row = call[c].row
        /\ \A d \in Calls : d # c => call'[d] = call[d]
    <3>1. at \in Positions
      BY DEF Positions
    <3>2. QED
      BY <1>3, <3>1, GotoOnly DEF IInv
  <2>2. call[c].at = "compare"
    BY DEF RedeemCompare, At
  <2>3. call[c].row \in Codes /\ code[call[c].row].status # "unused"
    BY <2>2 DEF IInv, RowInv, WithRow
  <2>4. TypeOK'
    BY <1>1, <2>1 DEF IInv, TypeOK
  <2>5. QED
    BY <1>1, <2>1, <2>2, <2>3, <2>4, QuietStep
<1>4. QED
  BY <1>2, <1>3 DEF RedeemCompare

\* A guess is counted by a handler that may not count another.
LEMMA CountKeeps ==
  ASSUME IInv, NEW c \in Calls, RedeemCount(c)
  PROVE  IInv'
<1>1. PICK k \in Codes :
        k = call[c].row /\ call[c].at = "count" /\ code[k].status # "unused"
  BY DEF RedeemCount, At, IInv, RowInv, WithRow
<1>2. /\ call' \in [Calls -> CallRecord] /\ call'[c].at = "idle"
      /\ \A d \in Calls : d # c => call'[d] = call[d]
  BY FinishOnly DEF IInv, RedeemCount
<1>3. /\ code' \in [Codes -> CodeRow]
      /\ code'[k].status = code[k].status
      /\ code'[k].attempts \in {code[k].attempts, code[k].attempts + 1}
      /\ \A j \in Codes : j # k => code'[j] = code[j]
  <2>1. code[k] \in CodeRow
    BY <1>1 DEF IInv, TypeOK
  <2>2. PICK n \in {code[k].attempts, code[k].attempts + 1} :
           code' = [code EXCEPT ![k] = [code[k] EXCEPT !.attempts = n]]
    BY <1>1 DEF RedeemCount
  <2>3. /\ [code[k] EXCEPT !.attempts = n] \in CodeRow
        /\ [code[k] EXCEPT !.attempts = n].status = code[k].status
        /\ [code[k] EXCEPT !.attempts = n].attempts = n
    BY <2>1 DEF CodeRow
  <2>4. QED
    BY <1>1, <2>2, <2>3 DEF IInv, TypeOK
<1>4. UNCHANGED <<expired, user, effects>>
  BY DEF RedeemCount
<1>5. TypeOK'
  BY <1>2, <1>3, <1>4 DEF IInv, TypeOK
<1>6. \A j \in Codes : code'[j].status = code[j].status
  BY <1>3
<1>7. RowInv'
  BY <1>2, <1>6 DEF IInv, RowInv, WithRow
<1>8. \A d \in Calls, j \in Codes : Acting(d, j)' => Acting(d, j)
  BY <1>2 DEF Acting, At
<1>9. SpendInv'
  BY <1>4, <1>6, <1>8 DEF IInv, SpendInv, SpendOK
<1>10. ASSUME NEW j \in Codes PROVE GuessOK(j)'
  <2>1. Guessing(j)' \subseteq Guessing(j)
    BY <1>2 DEF Guessing
  <2>2. CASE j # k
    BY <1>3, <2>1, <2>2, GuessKept
  <2>3. CASE j = k
    <3>1. c \in Guessing(k) /\ Guessing(k)' \in SUBSET (Guessing(k) \ {c})
      BY <1>1, <1>2 DEF Guessing
    <3>2. Guessing(k) \in SUBSET Calls
      BY DEF Guessing
    <3>3. /\ IsFiniteSet(Guessing(k)) /\ IsFiniteSet(Guessing(k) \ {c})
          /\ Cardinality(Guessing(k) \ {c}) = Cardinality(Guessing(k)) - 1
      BY <3>1, <3>2, FS_Subset, FS_RemoveElement
    <3>4. /\ IsFiniteSet(Guessing(k)')
          /\ Cardinality(Guessing(k)') <= Cardinality(Guessing(k)) - 1
      BY <3>1, <3>3, FS_Subset
    <3>5. /\ Cardinality(Guessing(k)) \in Nat /\ Cardinality(Guessing(k)') \in Nat
          /\ Cardinality(Calls) \in Nat
      BY <3>3, <3>4, FS_CardinalityType
    <3>6. code[k].attempts \in Nat
      BY <1>1 DEF IInv, TypeOK, CodeRow
    <3>7. code[k].attempts + Cardinality(Guessing(k))
            <= MaxAttempts + Cardinality(Calls) - 1
      BY <1>1 DEF IInv, GuessInv, GuessOK
    <3>8. code'[k].attempts + Cardinality(Guessing(k)')
            <= MaxAttempts + Cardinality(Calls) - 1
      BY <1>3, <3>4, <3>5, <3>6, <3>7
    <3>9. QED
      BY <2>3, <3>8 DEF GuessOK
  <2>4. QED
    BY <2>2, <2>3
<1>11. QED
  BY <1>5, <1>7, <1>9, <1>10 DEF IInv, GuessInv

\* The claim that finds the code live makes its handler the one that may act.
LEMMA ClaimKeeps ==
  ASSUME IInv, NEW c \in Calls, RedeemClaim(c)
  PROVE  IInv'
<1>1. UNCHANGED <<expired, user, effects>>
  BY DEF RedeemClaim
<1>2. CASE code' = code /\ Finish(c)
  BY <1>1, <1>2, FinishKeeps
<1>3. CASE code[call[c].row].status = "live" /\ Consume({call[c].row}) /\ Goto(c, "act")
  <2>1. PICK k \in Codes : k = call[c].row /\ code[k].status = "live"
    BY <1>3 DEF RedeemClaim, At, IInv, RowInv, WithRow
  <2>2. /\ call' \in [Calls -> CallRecord]
        /\ call'[c].at = "act" /\ call'[c].row = k
        /\ \A d \in Calls : d # c => call'[d] = call[d]
    <3>1. "act" \in Positions
      BY DEF Positions
    <3>2. QED
      BY <1>3, <2>1, <3>1, GotoOnly DEF IInv
  <2>3. /\ code' \in [Codes -> CodeRow]
        /\ \A j \in Codes : /\ code'[j].attempts = code[j].attempts
                            /\ \/ code'[j] = code[j]
                               \/ code'[j].status = "consumed"
        /\ code'[k].status # "live" /\ code'[k].status # "unused"
    BY <1>3, <2>1, ConsumeOnly DEF IInv
  <2>4. TypeOK'
    BY <1>1, <2>2, <2>3 DEF IInv, TypeOK
  <2>5. RowInv'
    BY <2>2, <2>3 DEF IInv, RowInv, WithRow
  <2>6. ASSUME NEW j \in Codes PROVE SpendOK(j)'
    <3>1. CASE j = k
      <4>1. effects[k] = 0 /\ \A d \in Calls : ~Acting(d, k)
        BY <2>1 DEF IInv, SpendInv, SpendOK
      <4>2. \A d \in Calls : Acting(d, k)' => d = c
        BY <2>2, <4>1 DEF Acting, At
      <4>3. QED
        BY <1>1, <2>3, <3>1, <4>1, <4>2 DEF SpendOK
    <3>2. CASE j # k
      <4>1. \A d \in Calls : Acting(d, j)' => Acting(d, j)
        BY <2>2, <3>2 DEF Acting, At
      <4>2. QED
        BY <1>1, <2>3, <4>1 DEF IInv, SpendInv, SpendOK
    <3>3. QED
      BY <3>1, <3>2
  <2>7. \A j \in Codes : Guessing(j)' \subseteq Guessing(j)
    BY <2>2 DEF Guessing
  <2>8. GuessInv'
    BY <2>3, <2>7, GuessKept DEF GuessInv
  <2>9. QED
    BY <2>4, <2>5, <2>6, <2>8 DEF IInv, SpendInv
<1>4. QED
  BY <1>2, <1>3 DEF RedeemClaim

\* A handler acts once, and was the only one that could.
LEMMA ActKeeps ==
  ASSUME IInv, NEW c \in Calls, RedeemAct(c)
  PROVE  IInv'
<1>1. PICK k \in Codes : k = call[c].row /\ Acting(c, k) /\ code[k].status # "unused"
  BY DEF RedeemAct, Acting, At, IInv, RowInv, WithRow
<1>2. /\ call' \in [Calls -> CallRecord] /\ call'[c].at = "idle"
      /\ \A d \in Calls : d # c => call'[d] = call[d]
  BY FinishOnly DEF IInv, RedeemAct
<1>3. UNCHANGED <<code, expired>>
  BY DEF RedeemAct
<1>4. effects[k] = 0 /\ code[k].status # "live"
  <2>1. SpendOK(k) /\ effects[k] \in Nat
    BY <1>1 DEF IInv, TypeOK, SpendInv
  <2>2. effects[k] <= 1 /\ effects[k] # 1
    BY <1>1, <2>1 DEF SpendOK
  <2>3. code[k].status # "live"
    BY <1>1, <2>1 DEF SpendOK
  <2>4. QED
    BY <2>1, <2>2, <2>3
<1>5. /\ effects' \in [Codes -> Nat] /\ effects'[k] = 1
      /\ \A j \in Codes : j # k => effects'[j] = effects[j]
  BY <1>1, <1>4 DEF RedeemAct, IInv, TypeOK
<1>6. user' \in [Users -> [verified : BOOLEAN, banned : BOOLEAN]]
  <2>1. ASSUME NEW u \in Users
        PROVE  [user[u] EXCEPT !.verified = TRUE]
                 \in [verified : BOOLEAN, banned : BOOLEAN]
    <3>1. user[u] \in [verified : BOOLEAN, banned : BOOLEAN]
      BY DEF IInv, TypeOK
    <3>2. QED
      BY <3>1
  <2>2. user' = [user EXCEPT ![call[c].user] =
                    [user[call[c].user] EXCEPT !.verified = TRUE]]
    BY DEF RedeemAct
  <2>3. QED
    BY <2>1, <2>2 DEF IInv, TypeOK
<1>7. TypeOK'
  BY <1>2, <1>3, <1>5, <1>6 DEF IInv, TypeOK
<1>8. RowInv'
  BY <1>2, <1>3 DEF IInv, RowInv, WithRow
<1>9. \A d \in Calls, j \in Codes : Acting(d, j)' => d # c /\ Acting(d, j)
  BY <1>2 DEF Acting, At
<1>10. ASSUME NEW j \in Codes PROVE SpendOK(j)'
  <2>1. CASE j = k
    <3>1. \A d \in Calls : ~Acting(d, k)'
      BY <1>1, <1>9 DEF IInv, SpendInv, SpendOK
    <3>2. QED
      BY <1>1, <1>3, <1>4, <1>5, <2>1, <3>1 DEF SpendOK
  <2>2. CASE j # k
    BY <1>3, <1>5, <1>9, <2>2 DEF IInv, SpendInv, SpendOK
  <2>3. QED
    BY <2>1, <2>2
<1>11. \A j \in Codes : Guessing(j)' \subseteq Guessing(j)
  BY <1>2 DEF Guessing
<1>12. GuessInv'
  BY <1>3, <1>11, GuessKept DEF GuessInv
<1>13. QED
  BY <1>7, <1>8, <1>10, <1>12 DEF IInv, SpendInv

\* Bans, time, the retention job and restarts.
LEMMA SurroundingsKeep ==
  ASSUME IInv,
         \/ \E u \in Users, banned \in BOOLEAN : SetBan(u, banned)
         \/ \E k \in Codes : Expires(k)
         \/ Purge
         \/ Restart
  PROVE  IInv'
<1>1. ASSUME NEW u \in Users, NEW banned \in BOOLEAN, SetBan(u, banned) PROVE IInv'
  <2>1. UNCHANGED <<code, expired, effects, call>>
    BY <1>1 DEF SetBan
  <2>2. user' = [user EXCEPT ![u] = [user[u] EXCEPT !.banned = banned]]
    BY <1>1 DEF SetBan
  <2>3. [user[u] EXCEPT !.banned = banned] \in [verified : BOOLEAN, banned : BOOLEAN]
    BY DEF IInv, TypeOK
  <2>4. TypeOK'
    BY <2>1, <2>2, <2>3 DEF IInv, TypeOK
  <2>5. QED
    BY <2>1, <2>4, SameStep
<1>2. ASSUME NEW k \in Codes, Expires(k) PROVE IInv'
  <2>1. TypeOK' /\ UNCHANGED <<code, effects, call>>
    BY <1>2 DEF IInv, TypeOK, Expires
  <2>2. QED
    BY <2>1, SameStep
<1>3. CASE Purge
  <2>1. UNCHANGED <<expired, user, effects, call>>
    BY <1>3 DEF Purge
  <2>2. ASSUME NEW k \in Codes
        PROVE  /\ code'[k] \in CodeRow
               /\ code'[k].attempts = code[k].attempts
               /\ code'[k].status \in {code[k].status, "purged"}
    <3>1. code[k] \in CodeRow
      BY DEF IInv, TypeOK
    <3>2. code'[k] = IF k \in expired
                     THEN [code[k] EXCEPT !.status = "purged"] ELSE code[k]
      BY <1>3 DEF Purge
    <3>3. QED
      BY <3>1, <3>2 DEF CodeRow
  <2>3. TypeOK'
    BY <1>3, <2>1, <2>2 DEF IInv, TypeOK, Purge
  <2>4. QED
    BY <2>1, <2>2, <2>3, QuietStep
<1>4. CASE Restart
  <2>1. UNCHANGED <<code, expired, user, effects>>
        /\ \A c \in Calls : call'[c] = IdleCall
    BY <1>4 DEF Restart
  <2>2. IdleCall \in CallRecord /\ IdleCall.at \notin WithRow
    BY DEF IdleCall, CallRecord, Positions, Purposes, WithRow
  <2>3. TypeOK'
    BY <1>4, <2>1, <2>2 DEF IInv, TypeOK, Restart
  <2>4. QED
    BY <2>1, <2>2, <2>3, QuietStep
<1>5. QED
  BY <1>1, <1>2, <1>3, <1>4

-----------------------------------------------------------------------------

LEMMA InitInv == Init => IInv
<1> SUFFICES ASSUME Init PROVE IInv
  OBVIOUS
<1>1. /\ NoCode \in CodeRow /\ IdleCall \in CallRecord
      /\ IdleCall.at = "idle"
  BY DEF NoCode, CodeRow, Purposes, IdleCall, CallRecord, Positions
<1>2. TypeOK
  BY <1>1 DEF Init, TypeOK
<1>3. RowInv /\ SpendInv
  BY <1>1 DEF Init, RowInv, WithRow, SpendInv, SpendOK, Acting, At
<1>4. ASSUME NEW k \in Codes PROVE GuessOK(k)
  <2>1. Guessing(k) = {} /\ code[k].attempts = 0
    BY <1>1 DEF Init, Guessing, NoCode
  <2>2. Cardinality(Guessing(k)) = 0 /\ Cardinality(Calls) \in Nat
    BY <2>1, FS_EmptySet, FS_CardinalityType
  <2>3. QED
    BY <2>1, <2>2 DEF GuessOK
<1>5. QED
  BY <1>2, <1>3, <1>4 DEF IInv, GuessInv

LEMMA NextInv == IInv /\ [Next]_vars => IInv'
<1> SUFFICES ASSUME IInv, [Next]_vars PROVE IInv'
  OBVIOUS
<1>1. ASSUME NEW c \in Calls, NEW u \in Users,
             \/ \E purpose \in Purposes : IssueConsume(c, u, purpose)
             \/ \E op \in {"verify", "check", "reset"}, typed \in Typeable :
                   RedeemStart(c, u, op, typed)
      PROVE  IInv'
  BY <1>1, IssueKeeps, StartKeeps
<1>2. ASSUME NEW c \in Calls, IssueFails(c) \/ RedeemPutAway(c) PROVE IInv'
  BY <1>2, FinishKeeps DEF IssueFails, RedeemPutAway
<1>3. ASSUME NEW c \in Calls, NEW k \in Codes, IssueStore(c, k) PROVE IInv'
  BY <1>3, StoreKeeps
<1>4. ASSUME NEW c \in Calls,
             \/ RedeemLook(c) \/ RedeemCompare(c) \/ RedeemCount(c)
             \/ RedeemClaim(c) \/ RedeemAct(c)
      PROVE  IInv'
  BY <1>4, LookKeeps, CompareKeeps, CountKeeps, ClaimKeeps, ActKeeps
<1>5. CASE UNCHANGED vars
  BY <1>5, SameStep DEF vars, IInv, TypeOK
<1>6. QED
  BY <1>1, <1>2, <1>3, <1>4, <1>5, SurroundingsKeep DEF Next

\* The table of codes, its effects and the handlers in flight keep their types.
THEOREM TypeCorrect == Spec => []TypeOK
<1>1. IInv => TypeOK
  BY DEF IInv
<1>2. QED
  BY <1>1, InitInv, NextInv, PTL DEF Spec

\* However many tabs submit one code, and whatever is issued, expires or is
\* purged meanwhile, redeemCode() lets one of them through.
THEOREM OneHandlerPerCode == Spec => []CodeUsedOnce
<1>1. IInv => CodeUsedOnce
  BY DEF IInv, SpendInv, SpendOK, CodeUsedOnce
<1>2. QED
  BY <1>1, InitInv, NextInv, PTL DEF Spec

\* The cap on wrong guesses, compared before a slow hash and counted after it,
\* is passed by no more than the handlers in flight.
THEOREM AttemptsAreBounded == Spec => []GuessesBounded
<1>1. IInv => GuessesBounded
  <2> SUFFICES ASSUME IInv, NEW k \in Codes
               PROVE  code[k].attempts <= MaxAttempts + Cardinality(Calls) - 1
    BY DEF GuessesBounded
  <2>1. Guessing(k) \in SUBSET Calls
    BY DEF Guessing
  <2>2. Cardinality(Guessing(k)) \in Nat /\ Cardinality(Calls) \in Nat
    BY <2>1, FS_Subset, FS_CardinalityType
  <2>3. code[k].attempts \in Nat
    BY DEF IInv, TypeOK, CodeRow
  <2>4. code[k].attempts + Cardinality(Guessing(k))
          <= MaxAttempts + Cardinality(Calls) - 1
    BY DEF IInv, GuessInv, GuessOK
  <2>5. QED
    BY <2>2, <2>3, <2>4
<1>2. QED
  BY <1>1, InitInv, NextInv, PTL DEF Spec

-----------------------------------------------------------------------------
(* Two codes of one purpose are never live at once, as long as an issue that *)
(* has consumed the old one and not stored the new one is left alone.        *)

StoreOK(c) ==
    At(c, "store") => /\ call[c].op = "issue"
                      /\ Live(call[c].user, call[c].purpose) = {}
                      /\ \A d \in Calls : Busy(d) => d = c

LiveInv == OneLiveCode /\ \A c \in Calls : StoreOK(c)

\* No code comes alive.
NoneRevived ==
    \A k \in Codes : code'[k].status = "live" =>
        /\ code[k].status = "live"
        /\ code'[k].user = code[k].user /\ code'[k].purpose = code[k].purpose

LEMMA NobodyStores ==
  ASSUME LiveInv, NoneRevived, \A c \in Calls : ~At(c, "store")'
  PROVE  LiveInv'
  BY DEF LiveInv, StoreOK, OneLiveCode, NoneRevived

LEMMA ConsumeRevivesNone ==
  ASSUME TypeOK, NEW rows, Consume(rows) PROVE NoneRevived
  BY ConsumeOnly DEF NoneRevived

\* While one handler stores, no other takes a step.
LEMMA StepOfOther ==
  ASSUME LiveInv, NoneRevived, NEW c \in Calls, Busy(c), call'[c].at # "store",
         \A d \in Calls : d # c => call'[d] = call[d]
  PROVE  LiveInv'
<1>1. \A d \in Calls : ~At(d, "store")'
  BY DEF LiveInv, StoreOK, Busy, At
<1>2. QED
  BY <1>1, NobodyStores

LEMMA LiveStarts ==
  ASSUME "issue" \in Alone, TypeOK, LiveInv, NEW c \in Calls, NEW u \in Users,
         \/ \E purpose \in Purposes : IssueConsume(c, u, purpose)
         \/ \E op \in {"verify", "check", "reset"}, typed \in Typeable :
               RedeemStart(c, u, op, typed)
  PROVE  LiveInv'
<1>1. ASSUME NEW purpose \in Purposes, IssueConsume(c, u, purpose) PROVE LiveInv'
  <2>1. /\ call'[c].at = "store" /\ call'[c].op = "issue"
        /\ call'[c].user = u /\ call'[c].purpose = purpose
        /\ \A d \in Calls : d # c => call'[d] = call[d]
        /\ \A d \in Calls : ~Busy(d)
    BY <1>1 DEF IssueConsume, Start, TypeOK
  <2>2. NoneRevived /\ \A k \in Live(u, purpose) : code'[k].status # "live"
    <3>1. Consume(Live(u, purpose))
      BY <1>1 DEF IssueConsume
    <3>2. QED
      BY <3>1, ConsumeOnly, ConsumeRevivesNone DEF Live
  <2>3. Live(u, purpose)' = {}
    BY <2>2 DEF Live, NoneRevived
  <2>4. OneLiveCode'
    BY <2>2 DEF LiveInv, OneLiveCode, NoneRevived
  <2>5. \A d \in Calls : StoreOK(d)'
    BY <2>1, <2>3 DEF StoreOK, At, Busy
  <2>6. QED
    BY <2>4, <2>5 DEF LiveInv
<1>2. ASSUME NEW op \in {"verify", "check", "reset"}, NEW typed \in Typeable,
             RedeemStart(c, u, op, typed)
      PROVE  LiveInv'
  <2>1. /\ call'[c].at = "look"
        /\ \A d \in Calls : d # c => call'[d] = call[d]
        /\ \A d \in Calls : call[d].op # "issue"
    BY <1>2 DEF RedeemStart, Start, TypeOK
  <2>2. NoneRevived
    BY <1>2 DEF RedeemStart, NoneRevived
  <2>3. \A d \in Calls : ~At(d, "store")'
    BY <2>1 DEF LiveInv, StoreOK, At
  <2>4. QED
    BY <2>2, <2>3, NobodyStores
<1>3. QED
  BY <1>1, <1>2

LEMMA LiveStore ==
  ASSUME TypeOK, LiveInv, NEW c \in Calls, NEW k \in Codes, IssueStore(c, k)
  PROVE  LiveInv'
<1>1. /\ Live(call[c].user, call[c].purpose) = {}
      /\ \A d \in Calls : Busy(d) => d = c
  BY DEF IssueStore, LiveInv, StoreOK
<1>2. /\ call'[c].at = "idle" /\ \A d \in Calls : d # c => call'[d] = call[d]
  BY FinishOnly DEF IssueStore
<1>3. \A d \in Calls : StoreOK(d)'
  BY <1>1, <1>2 DEF StoreOK, At, Busy
<1>4. /\ code'[k].user = call[c].user /\ code'[k].purpose = call[c].purpose
      /\ \A j \in Codes : j # k => code'[j] = code[j]
  BY DEF IssueStore, TypeOK
<1>5. \A j \in Codes : j # k /\ code'[j].status = "live" =>
        ~(code'[j].user = code'[k].user /\ code'[j].purpose = code'[k].purpose)
  BY <1>1, <1>4 DEF Live
<1>6. OneLiveCode'
  BY <1>4, <1>5 DEF LiveInv, OneLiveCode
<1>7. QED
  BY <1>3, <1>6 DEF LiveInv

LEMMA LiveSteps ==
  ASSUME TypeOK, LiveInv, NEW c \in Calls,
         \/ IssueFails(c) \/ RedeemLook(c) \/ RedeemPutAway(c) \/ RedeemCompare(c)
         \/ RedeemCount(c) \/ RedeemClaim(c) \/ RedeemAct(c)
  PROVE  LiveInv'
<1>1. Busy(c)
  BY DEF IssueFails, RedeemLook, RedeemPutAway, RedeemCompare, RedeemCount,
         RedeemClaim, RedeemAct, Busy, At
<1>2. /\ call'[c].at # "store"
      /\ \A d \in Calls : d # c => call'[d] = call[d]
  <2>1. CASE Finish(c)
    BY <2>1, FinishOnly
  <2>2. ASSUME NEW at \in {"count", "claim", "act"}, Goto(c, at)
        PROVE  /\ call'[c].at # "store"
               /\ \A d \in Calls : d # c => call'[d] = call[d]
    BY <2>2, GotoOnly DEF Positions
  <2>3. ASSUME NEW k \in Codes,
               call' = [call EXCEPT ![c].row = k, ![c].at = NextAfterLook(k)]
        PROVE  /\ call'[c].at # "store"
               /\ \A d \in Calls : d # c => call'[d] = call[d]
    BY <2>3 DEF TypeOK, CallRecord, NextAfterLook
  <2>4. QED
    BY <2>1, <2>2, <2>3
       DEF IssueFails, RedeemLook, RedeemPutAway, RedeemCompare, RedeemCount,
           RedeemClaim, RedeemAct, Live
<1>3. NoneRevived
  <2>1. CASE UNCHANGED code
    BY <2>1 DEF NoneRevived
  <2>2. ASSUME NEW rows, Consume(rows) PROVE NoneRevived
    BY <2>2, ConsumeRevivesNone
  <2>3. CASE RedeemCount(c)
    BY <2>3 DEF RedeemCount, NoneRevived, TypeOK, CodeRow
  <2>4. QED
    BY <2>1, <2>2, <2>3 DEF IssueFails, RedeemLook, RedeemPutAway, RedeemCompare,
                            RedeemClaim, RedeemAct
<1>4. QED
  BY <1>1, <1>2, <1>3, StepOfOther

LEMMA LiveSurroundings ==
  ASSUME TypeOK, LiveInv,
         \/ \E u \in Users, banned \in BOOLEAN : SetBan(u, banned)
         \/ \E k \in Codes : Expires(k)
         \/ Purge
         \/ Restart
         \/ UNCHANGED vars
  PROVE  LiveInv'
<1>1. NoneRevived
  <2>1. CASE Purge
    BY <2>1 DEF Purge, NoneRevived, TypeOK, CodeRow
  <2>2. CASE code' = code
    BY <2>2 DEF NoneRevived
  <2>3. QED
    BY <2>1, <2>2 DEF SetBan, Expires, Restart, vars
<1>2. CASE Restart
  <2>1. \A c \in Calls : ~At(c, "store")'
    BY <1>2 DEF Restart, IdleCall, At
  <2>2. QED
    BY <1>1, <2>1, NobodyStores
<1>3. CASE call' = call
  <2>1. OneLiveCode'
    <3> SUFFICES ASSUME NEW j \in Codes, NEW k \in Codes,
                        code'[j].status = "live", code'[k].status = "live",
                        code'[j].user = code'[k].user,
                        code'[j].purpose = code'[k].purpose
                 PROVE  j = k
      BY DEF OneLiveCode
    <3>1. /\ code[j].status = "live" /\ code'[j].user = code[j].user
          /\ code'[j].purpose = code[j].purpose
      BY <1>1 DEF NoneRevived
    <3>2. /\ code[k].status = "live" /\ code'[k].user = code[k].user
          /\ code'[k].purpose = code[k].purpose
      BY <1>1 DEF NoneRevived
    <3>3. QED
      BY <3>1, <3>2 DEF LiveInv, OneLiveCode
  <2>2. ASSUME NEW c \in Calls PROVE StoreOK(c)'
    <3>1. Live(call[c].user, call[c].purpose)'
            \subseteq Live(call[c].user, call[c].purpose)
      BY <1>1, <1>3 DEF Live, NoneRevived
    <3>2. QED
      BY <1>3, <3>1 DEF LiveInv, StoreOK, At, Busy
  <2>3. QED
    BY <2>1, <2>2 DEF LiveInv
<1>4. QED
  BY <1>2, <1>3 DEF SetBan, Expires, Purge, vars

\* Where issueEmailToken() runs by itself, "live tokens of the same purpose are
\* consumed first" leaves one code that can be redeemed, whatever else overlaps.
THEOREM OneCodeAtATime == "issue" \in Alone => (Spec => []OneLiveCode)
<1> SUFFICES ASSUME "issue" \in Alone PROVE Spec => []OneLiveCode
  OBVIOUS
<1>1. Init => LiveInv
  BY DEF Init, LiveInv, OneLiveCode, StoreOK, At, NoCode, IdleCall
<1>2. TypeOK /\ LiveInv /\ [Next]_vars => LiveInv'
  BY LiveStarts, LiveStore, LiveSteps, LiveSurroundings DEF Next
<1>3. LiveInv => OneLiveCode
  BY DEF LiveInv
<1>4. QED
  BY <1>1, <1>2, <1>3, TypeCorrect, PTL DEF Spec
=============================================================================
