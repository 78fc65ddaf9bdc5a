------------------------------- MODULE Budget ------------------------------
(***************************************************************************)
(* Admission of generation work: httpRequestBudget for HTTP requests and,  *)
(* with the same critical sections, webSocketBudget for WebSockets.  The   *)
(* budgets compute with int64, modelled by integers that wrap beyond       *)
(* MaxInt; what the work really costs is kept beside it, in full.          *)
(***************************************************************************)
EXTENDS Integers, FiniteSets

CONSTANTS
  Clients,       \* handlers of one kind running at a time
  MaxActive,     \* maxRequests, maxConnections
  MaxMemory,     \* maxMemory, in bytes
  MaxInt,        \* the largest int64
  Overhead,      \* httpRequestMemory, wsConnectionMemory
  Quantities,    \* bytes or words a client may ask for
  Factors,       \* bytes reserved per item: 1, wsJSONMemoryFactor, wordMemory
  FixedCosts,    \* reservations of the image, QR, sound and upload routes
  MaxRejected    \* bound: rejections explored of each kind

ASSUME BudgetAssumption ==
  /\ IsFiniteSet(Clients)
  /\ MaxActive \in Nat \ {0}
  /\ MaxInt \in Nat
  /\ MaxMemory \in 1 .. (MaxInt - 1)
  /\ Overhead \in 1 .. MaxInt
  /\ Quantities \subseteq 1 .. MaxInt
  /\ Factors \subseteq 1 .. MaxInt
  /\ FixedCosts \subseteq 1 .. MaxInt
  /\ MaxRejected \in Nat

VARIABLES
  active, peakActive,      \* admitted clients, and most of them together
  reserved, peakReserved,   \* their reservations, and most of them together
  rejected,     \* rejectedSize, rejectedRequests, rejectedMemory
  pc,           \* a client's handler: "idle", "asked", "working"
  needed,       \* its argument of admit
  cost,         \* history: what its work costs, without wrapping
  answer        \* history: what its last admission was answered

budget == <<active, peakActive, reserved, peakReserved, rejected>>
vars == <<budget, pc, needed, cost, answer>>

Working == {c \in Clients : pc[c] = "working"}

\* Two's complement.
Int64 == -(MaxInt + 1) .. MaxInt
Wrap(x) ==
  IF x \in Int64 THEN x
  ELSE ((x + MaxInt + 1) % (2 * (MaxInt + 1))) - (MaxInt + 1)

TypeOK ==
  /\ active \in Nat /\ peakActive \in Nat
  /\ reserved \in Int64 /\ peakReserved \in Int64
  /\ rejected \in [{"size", "count", "memory"} -> Nat]
  /\ pc \in [Clients -> {"idle", "asked", "working"}]
  /\ needed \in [Clients -> Int64]
  /\ cost \in [Clients -> Nat]
  /\ answer \in [Clients -> {"none", "ok", "cancelled", "size", "count", "memory"}]

Init ==
  /\ active = 0 /\ peakActive = 0
  /\ reserved = 0 /\ peakReserved = 0
  /\ rejected = [k \in {"size", "count", "memory"} |-> 0]
  /\ pc = [c \in Clients |-> "idle"]
  /\ needed = [c \in Clients |-> 0]
  /\ cost = [c \in Clients |-> 0]
  /\ answer = [c \in Clients |-> "none"]

Larger(x, y) == IF x > y THEN x ELSE y

-----------------------------------------------------------------------------
\* The handler of c is over; its local variables are gone.
Ends(c) ==
  /\ pc' = [pc EXCEPT ![c] = "idle"]
  /\ needed' = [needed EXCEPT ![c] = 0]
  /\ cost' = [cost EXCEPT ![c] = 0]

\* Mutant: the product is formed without looking at it first.
ReservationWraps(quantity, perItem) ==
  Wrap(Overhead + Wrap(quantity * perItem))

\* httpReservation, wsReservation: the reservation saturates before the
\* product or the sum can wrap.
Reservation(quantity, perItem) ==
  IF quantity > (MaxInt - Overhead) \div perItem
  THEN MaxInt
  ELSE Wrap(Overhead + Wrap(quantity * perItem))

\* A byte or word route has validated what it is asked for.
AskSized(c) ==
  /\ pc[c] = "idle"
  /\ \E q \in Quantities, f \in Factors :
       /\ needed' = [needed EXCEPT ![c] = Reservation(q, f)]
       /\ cost' = [cost EXCEPT ![c] = Overhead + q * f]
  /\ pc' = [pc EXCEPT ![c] = "asked"]
  /\ answer' = [answer EXCEPT ![c] = "none"]
  /\ UNCHANGED budget

\* wrap: a route whose work has a fixed size.
AskFixed(c) ==
  /\ pc[c] = "idle"
  /\ \E n \in FixedCosts :
       /\ needed' = [needed EXCEPT ![c] = n]
       /\ cost' = [cost EXCEPT ![c] = n]
  /\ pc' = [pc EXCEPT ![c] = "asked"]
  /\ answer' = [answer EXCEPT ![c] = "none"]
  /\ UNCHANGED budget

\* The request was cancelled before admit looked at it: 503, not counted.
RefuseCancelled(c) ==
  /\ pc[c] = "asked"
  /\ Ends(c)
  /\ answer' = [answer EXCEPT ![c] = "cancelled"]
  /\ UNCHANGED budget

\* The conditions of the critical section, in its order.
TooLarge(c) == needed[c] <= 0 \/ needed[c] > MaxMemory

NoSlot(c) == active >= MaxActive

\* Mutant: what is exactly left over cannot be reserved.
NoMemoryByOne(c) == needed[c] >= Wrap(MaxMemory - reserved)

NoMemory(c) == needed[c] > Wrap(MaxMemory - reserved)

\* Why the critical section refuses c, if it does: the first condition met.
Refused(c, why) ==
  \/ why = "size" /\ TooLarge(c)
  \/ why = "count" /\ ~TooLarge(c) /\ NoSlot(c)
  \/ why = "memory" /\ ~TooLarge(c) /\ ~NoSlot(c) /\ NoMemory(c)

\* 413 for "size", 503 with Retry-After for the others.
Refuse(c) ==
  /\ pc[c] = "asked"
  /\ \E why \in {"size", "count", "memory"} :
       /\ Refused(c, why)
       /\ rejected[why] < MaxRejected
       /\ rejected' = [rejected EXCEPT ![why] = @ + 1]
       /\ answer' = [answer EXCEPT ![c] = why]
  /\ Ends(c)
  /\ UNCHANGED <<active, peakActive, reserved, peakReserved>>

Admit(c) ==
  /\ pc[c] = "asked"
  /\ ~TooLarge(c) /\ ~NoSlot(c) /\ ~NoMemory(c)
  /\ active' = active + 1
  /\ reserved' = Wrap(reserved + needed[c])
  /\ peakActive' = Larger(peakActive, active')
  /\ peakReserved' = Larger(peakReserved, reserved')
  /\ pc' = [pc EXCEPT ![c] = "working"]
  /\ answer' = [answer EXCEPT ![c] = "ok"]
  /\ UNCHANGED <<rejected, needed, cost>>

\* The handler returns, whatever ended it: its deferred release runs once.
Release(c) ==
  /\ pc[c] = "working"
  /\ active' = active - 1
  /\ reserved' = Wrap(reserved - needed[c])
  /\ Ends(c)
  /\ UNCHANGED <<peakActive, peakReserved, rejected, answer>>

Next ==
  \E c \in Clients :
    \/ AskSized(c) \/ AskFixed(c)
    \/ RefuseCancelled(c) \/ Refuse(c) \/ Admit(c)
    \/ Release(c)

Spec == Init /\ [][Next]_vars

-----------------------------------------------------------------------------
(***************************************************************************)
(* Properties                                                              *)
(***************************************************************************)

\* The memory the admitted clients really cost, however large the requests
\* around them: no reservation wraps into a small one.
Pool == INSTANCE MemoryPool WITH
  held <- [c \in Clients |-> IF pc[c] = "working" THEN cost[c] ELSE 0]

ImplementsMemoryPool == Pool!Spec

\* The two counters are the admitted clients and the sum of their costs:
\* nothing leaks when handlers end in any order.
CountersAreExact ==
  /\ active = Cardinality(Working)
  /\ reserved = Cardinality(Pool!Cells)

\* A client is sent away only for a reason that holds of the real costs: 413
\* if the whole budget cannot carry the work, 503 if it could but not now.
RefusalsAreJustified ==
  [][\A c \in Clients :
       /\ answer'[c] = "size" /\ answer[c] = "none" => cost[c] > MaxMemory
       /\ answer'[c] = "count" /\ answer[c] = "none" =>
            cost[c] <= MaxMemory /\ Cardinality(Working) = MaxActive
       /\ answer'[c] = "memory" /\ answer[c] = "none" =>
            /\ cost[c] <= MaxMemory
            /\ Cardinality(Pool!Cells) + cost[c] > MaxMemory]_vars
=============================================================================
