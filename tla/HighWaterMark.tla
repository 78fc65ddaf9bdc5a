--------------------------- MODULE HighWaterMark ---------------------------
(***************************************************************************)
(* What the instance counters of internal/drbg promise, without saying how *)
(* they are kept: the number of live generators is the number of members   *)
(* that entered and did not leave, and every entry raises the high-water   *)
(* mark to the count it saw, at some moment before its constructor returns.*)
(***************************************************************************)
EXTENDS Naturals, FiniteSets

CONSTANTS
  Members,   \* the generators that can be counted
  First      \* the one counted from the start

VARIABLES
  live,      \* the members counted at this moment
  pending,   \* pending[m]: the count m saw on entering, 0 once it is recorded
  peak       \* the high-water mark

hwVars == <<live, pending, peak>>

Init ==
  /\ live = {First}
  /\ pending = [m \in Members |-> 0]
  /\ peak = 1

Enter(m) ==
  /\ m \notin live
  /\ live' = live \cup {m}
  /\ pending' = [pending EXCEPT ![m] = Cardinality(live) + 1]
  /\ UNCHANGED peak

Settle(m) ==
  /\ pending[m] # 0
  /\ peak' = IF pending[m] > peak THEN pending[m] ELSE peak
  /\ pending' = [pending EXCEPT ![m] = 0]
  /\ UNCHANGED live

Leave(m) ==
  /\ m \in live
  /\ pending[m] = 0
  /\ live' = live \ {m}
  /\ UNCHANGED <<pending, peak>>

Next == \E m \in Members : Enter(m) \/ Settle(m) \/ Leave(m)

Spec == Init /\ [][Next]_hwVars
=============================================================================
