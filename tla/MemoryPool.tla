---------------------------- MODULE MemoryPool -----------------------------
(***************************************************************************)
(* What an admission budget promises: at every moment a limited number of  *)
(* clients together hold a limited amount of memory.  The amount a client  *)
(* holds is what its work really costs.                                    *)
(***************************************************************************)
EXTENDS Integers, FiniteSets

CONSTANTS
  Clients,
  MaxActive,   \* clients admitted together
  MaxMemory    \* bytes they may cost together

VARIABLE held   \* held[c]: the cost of the work c is admitted for, 0 if none

Admitted == {c \in Clients : held[c] > 0}

\* The bytes in use, one by one: byte i of client c.
Cells == UNION {{c} \X (1 .. held[c]) : c \in Clients}

Init == held = [c \in Clients |-> 0]

Grant(c) ==
  /\ held[c] = 0
  /\ Cardinality(Admitted) < MaxActive
  /\ \E n \in 1 .. MaxMemory :
       /\ Cardinality(Cells) + n <= MaxMemory
       /\ held' = [held EXCEPT ![c] = n]

Return(c) ==
  /\ held[c] > 0
  /\ held' = [held EXCEPT ![c] = 0]

Next == \E c \in Clients : Grant(c) \/ Return(c)

Spec == Init /\ [][Next]_held
=============================================================================
