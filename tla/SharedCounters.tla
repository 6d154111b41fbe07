--------------------------- MODULE SharedCounters ---------------------------
(***************************************************************************)
(* What redis.service.ts gives the two limiters: one set of counters that   *)
(* every process spends from while Redis answers, and a set of each         *)
(* process's own while it does not.                                         *)
(*                                                                          *)
(* A key is a value with the ticks left until it expires.  A key with none  *)
(* left has no expiry and stays for good.                                   *)
(***************************************************************************)
EXTENDS Naturals, FiniteSets

CONSTANTS
    Processes,
    Shared,      \* the store in Redis, beside one store per process
    Configured,  \* the settings of REDIS_URL that are considered
    MaxFaults    \* bound: outages and restarts in one behaviour

ASSUME StoresAssumption ==
    /\ Shared \notin Processes
    /\ Configured \subseteq BOOLEAN /\ Configured # {}
    /\ MaxFaults \in Nat

VARIABLES
    link,    \* each process's connection to Redis
    faults   \* outages and restarts so far

Stores == {Shared} \cup Processes
Links == {"unset", "up", "out"}

LinkTypeOK ==
    /\ link \in [Processes -> Links]
    /\ faults \in 0 .. MaxFaults

LinkInit ==
    /\ \E configured \in Configured :
          link = [p \in Processes |-> IF configured THEN "up" ELSE "unset"]
    /\ faults = 0

\* What comes back from a script a process sends.  One that fails may have
\* run in Redis before it did: the reply is lost.
Outcomes(p) ==
    CASE link[p] = "up" -> {"answered"}
      [] link[p] = "out" -> {"lost", "failed"}
      [] OTHER -> {}

\* The client is null - Redis was never configured, or the driver knows that
\* the socket is down: nothing is sent and the process counts by itself.
NoClient(p) == link[p] \in {"unset", "out"}

Fault == faults < MaxFaults /\ faults' = faults + 1

Disconnects(p) ==
    /\ link[p] = "up"
    /\ Fault
    /\ link' = [link EXCEPT ![p] = "out"]

Reconnects(p) ==
    /\ link[p] = "out"
    /\ link' = [link EXCEPT ![p] = "up"]
    /\ UNCHANGED faults

-----------------------------------------------------------------------------

NoKey == [on |-> FALSE, value |-> 0, left |-> 0]
Keys(values, ticks) == [on : BOOLEAN, value : values, left : ticks]

\* One tick of a key's life.
Aged(key) ==
    IF key.left = 1 THEN NoKey
    ELSE IF key.left = 0 THEN key ELSE [key EXCEPT !.left = @ - 1]
=============================================================================
