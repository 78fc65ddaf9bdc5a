--------------------------- MODULE ServingProofs ---------------------------
(***************************************************************************)
(* What a request meets keeps its promises for any number of clients and   *)
(* any request sizes an int64 can hold, any codes and calls of a handler,  *)
(* any number of listeners and slots, any counters, and any limits and     *)
(* preferences.                                                            *)
(***************************************************************************)
EXTENDS Serving, FiniteSetTheorems, TLAPS

(***************************************************************************)
(* Budget                                                                  *)
(***************************************************************************)
\* What the overflow check of a reservation decides.
LEMMA DivisionBounds ==
  ASSUME NEW m \in Nat, NEW f \in Nat \ {0}, NEW q \in Nat
  PROVE  /\ q > m \div f => q * f > m
         /\ q <= m \div f => q * f <= m
<1>. DEFINE d == m \div f
<1>1. d \in Nat /\ d * f <= m /\ m < d * f + f
  OBVIOUS
<1>. HIDE DEF d
<1>2. CASE q > d
  <2>. DEFINE k == q - (d + 1)
  <2>1. k \in Nat /\ q = d + 1 + k
    BY <1>1, <1>2
  <2>. HIDE DEF k
  <2>2. q * f = d * f + f + k * f
    BY <1>1, <2>1
  <2>3. k * f >= 0
    BY <2>1
  <2>. QED
    BY <1>1, <1>2, <2>2, <2>3
<1>3. CASE q <= d
  <2>. DEFINE k == d - q
  <2>1. k \in Nat /\ d = q + k
    BY <1>1, <1>3
  <2>. HIDE DEF k
  <2>2. d * f = q * f + k * f
    BY <2>1
  <2>3. k * f >= 0
    BY <2>1
  <2>. QED
    BY <1>1, <1>3, <2>2, <2>3
<1>. QED
  BY <1>1, <1>2, <1>3 DEF d
-----------------------------------------------------------------------------
(***************************************************************************)
(* Adding up costs: the bytes in use as a set.                             *)
(***************************************************************************)
CellsOf(h) == UNION {{c} \X (1 .. h[c]) : c \in Clients}

\* Bytes in use by the clients at work.
Held == [c \in Clients |-> IF pc[c] = "working" THEN cost[c] ELSE 0]

LEMMA BlockSize ==
  ASSUME NEW c, NEW n \in Nat
  PROVE  /\ IsFiniteSet({c} \X (1 .. n))
         /\ Cardinality({c} \X (1 .. n)) = n
<1>1. IsFiniteSet({c}) /\ Cardinality({c}) = 1
  BY FS_Singleton
<1>2. IsFiniteSet(1 .. n) /\ Cardinality(1 .. n) = n
  BY FS_Interval
<1>3. /\ IsFiniteSet({c} \X (1 .. n))
      /\ Cardinality({c} \X (1 .. n)) = Cardinality({c}) * Cardinality(1 .. n)
  BY <1>1, <1>2, FS_Product, Zenon
<1>. QED
  BY <1>1, <1>2, <1>3

\* One client more uses its own bytes and nobody else's.
LEMMA CellsGrow ==
  ASSUME NEW h \in [Clients -> Nat], NEW g \in [Clients -> Nat],
         NEW c \in Clients, NEW n \in Nat,
         IsFiniteSet(CellsOf(h)), h[c] = 0, g[c] = n,
         \A x \in Clients : x # c => g[x] = h[x]
  PROVE  /\ IsFiniteSet(CellsOf(g))
         /\ Cardinality(CellsOf(g)) = Cardinality(CellsOf(h)) + n
<1>1. CellsOf(g) = CellsOf(h) \cup ({c} \X (1 .. n))
  BY DEF CellsOf
<1>2. CellsOf(h) \cap ({c} \X (1 .. n)) = {}
  BY DEF CellsOf
<1>3. Cardinality(CellsOf(h)) \in Nat
  BY FS_CardinalityType
<1>4. IsFiniteSet({c} \X (1 .. n)) /\ Cardinality({c} \X (1 .. n)) = n
  BY BlockSize
<1>5. /\ IsFiniteSet(CellsOf(g))
      /\ Cardinality(CellsOf(g)) =
           Cardinality(CellsOf(h)) + Cardinality({c} \X (1 .. n))
             - Cardinality(CellsOf(h) \cap ({c} \X (1 .. n)))
  <2>. DEFINE b == {c} \X (1 .. n)
  <2>1. IsFiniteSet(b)
    BY <1>4
  <2>2. /\ IsFiniteSet(CellsOf(h) \cup b)
        /\ Cardinality(CellsOf(h) \cup b) =
             Cardinality(CellsOf(h)) + Cardinality(b) - Cardinality(CellsOf(h) \cap b)
    <3>. HIDE DEF b
    <3>. QED
      BY <2>1, FS_Union
  <2>. QED
    BY <1>1, <2>2
<1>6. Cardinality(CellsOf(h) \cap ({c} \X (1 .. n))) = 0
  BY <1>2, FS_EmptySet
<1>. QED
  BY <1>3, <1>4, <1>5, <1>6

\* A client less: its bytes come free, and nobody else's.
LEMMA CellsShrink ==
  ASSUME NEW h \in [Clients -> Nat], NEW g \in [Clients -> Nat],
         NEW c \in Clients, IsFiniteSet(CellsOf(h)), g[c] = 0,
         \A x \in Clients : x # c => g[x] = h[x]
  PROVE  /\ IsFiniteSet(CellsOf(g))
         /\ Cardinality(CellsOf(g)) = Cardinality(CellsOf(h)) - h[c]
<1>1. CellsOf(g) \in SUBSET CellsOf(h)
  BY DEF CellsOf
<1>2. IsFiniteSet(CellsOf(g))
  BY <1>1, FS_Subset
<1>3. h[c] \in Nat
  OBVIOUS
<1>4. Cardinality(CellsOf(h)) = Cardinality(CellsOf(g)) + h[c]
  BY <1>2, <1>3, CellsGrow
<1>5. Cardinality(CellsOf(g)) \in Nat
  BY <1>2, FS_CardinalityType
<1>. QED
  BY <1>2, <1>4, <1>5

-----------------------------------------------------------------------------
(***************************************************************************)
(* The inductive invariant: what a handler has asked for is what it costs, *)
(* unless the whole budget cannot carry it, and the counters add up.       *)
(***************************************************************************)
Handlers ==
  \A c \in Clients :
    /\ pc[c] = "asked" =>
         /\ needed[c] \in 1 .. MaxInt /\ cost[c] \in Nat \ {0}
         /\ needed[c] = cost[c] \/ (needed[c] > MaxMemory /\ cost[c] > MaxMemory)
    /\ pc[c] = "working" => needed[c] = cost[c] /\ cost[c] \in 1 .. MaxMemory

Totals ==
  /\ active = Cardinality(Working) /\ active <= MaxActive
  /\ IsFiniteSet(CellsOf(Held))
  /\ reserved = Cardinality(CellsOf(Held)) /\ reserved <= MaxMemory

IInv == TypeOK /\ Handlers /\ Totals

LEMMA ReservationIsCost ==
  ASSUME NEW q \in Quantities, NEW f \in Factors
  PROVE  /\ Overhead + q * f \in Nat \ {0}
         /\ Reservation(q, f) \in 1 .. MaxInt
         /\ \/ Reservation(q, f) = Overhead + q * f
            \/ Reservation(q, f) > MaxMemory /\ Overhead + q * f > MaxMemory
<1>1. /\ q \in Nat /\ f \in Nat \ {0} /\ MaxInt - Overhead \in Nat
      /\ MaxMemory \in Nat /\ MaxMemory < MaxInt
      /\ Overhead \in Nat \ {0} /\ MaxInt \in Nat
  BY BudgetAssumption
<1>. DEFINE p == q * f
            d == (MaxInt - Overhead) \div f
<1>2. p \in Nat
  BY <1>1
<1>3. /\ q > d => p > MaxInt - Overhead
      /\ q <= d => p <= MaxInt - Overhead
  BY <1>1, DivisionBounds
<1>4. d \in Int
  BY <1>1
<1>5. Reservation(q, f) = IF q > d THEN MaxInt ELSE Wrap(Overhead + Wrap(p))
  BY DEF Reservation
<1>. HIDE DEF p, d
<1>6. CASE q > d
  BY <1>1, <1>2, <1>3, <1>5, <1>6 DEF p
<1>7. CASE q <= d
  <2>1. p \in Int64 /\ Overhead + p \in Int64
    BY <1>1, <1>2, <1>3, <1>7 DEF Int64
  <2>2. Wrap(Overhead + Wrap(p)) = Overhead + p
    BY <2>1 DEF Wrap
  <2>3. ~(q > d)
    BY <1>1, <1>4, <1>7
  <2>. QED
    BY <1>1, <1>2, <1>3, <1>5, <1>7, <2>2, <2>3 DEF p
<1>. QED
  BY <1>1, <1>4, <1>6, <1>7

LEMMA IInvInit == Init => IInv
<1>. SUFFICES ASSUME Init PROVE IInv
  OBVIOUS
<1>1. TypeOK
  BY BudgetAssumption DEF Init, TypeOK, Int64
<1>2. Handlers
  BY DEF Init, Handlers
<1>3. Working = {} /\ CellsOf(Held) = {}
  BY DEF Init, Working, CellsOf, Held
<1>4. Totals
  BY <1>3, FS_EmptySet, BudgetAssumption DEF Init, Totals
<1>. QED
  BY <1>1, <1>2, <1>4 DEF IInv

\* A step that changes neither who is at work nor the counters.
LEMMA SameCounters ==
  ASSUME Totals, Working' = Working, \A c \in Working : cost'[c] = cost[c],
         active' = active, reserved' = reserved
  PROVE  Totals'
<1>1. Held' = Held
  BY DEF Held, Working
<1>. QED
  BY <1>1 DEF Totals, CellsOf

\* A step that takes c's local variables away, and nobody else's.
LEMMA OthersKeep ==
  ASSUME TypeOK, Handlers, NEW c \in Clients, Ends(c)
  PROVE  /\ Handlers'
         /\ needed' \in [Clients -> Int64] /\ cost' \in [Clients -> Nat]
         /\ pc' \in [Clients -> {"idle", "asked", "working"}]
BY BudgetAssumption DEF Ends, Handlers, TypeOK, Int64

LEMMA IInvNext == IInv /\ [Next]_vars => IInv'
<1>. SUFFICES ASSUME IInv, [Next]_vars PROVE IInv'
  OBVIOUS
<1>. USE DEF IInv
<1>0. IsFiniteSet(Clients) /\ MaxInt \in Nat /\ MaxMemory \in 1 .. (MaxInt - 1)
      /\ MaxActive \in Nat \ {0}
  BY BudgetAssumption
<1>1. ASSUME NEW c \in Clients, AskSized(c) PROVE IInv'
  <2>1. PICK q \in Quantities, f \in Factors :
          /\ needed' = [needed EXCEPT ![c] = Reservation(q, f)]
          /\ cost' = [cost EXCEPT ![c] = Overhead + q * f]
    BY <1>1 DEF AskSized
  <2>. DEFINE n == Reservation(q, f)
              k == Overhead + q * f
  <2>2. /\ k \in Nat \ {0} /\ n \in 1 .. MaxInt
        /\ n = k \/ (n > MaxMemory /\ k > MaxMemory)
    BY ReservationIsCost
  <2>3. needed' = [needed EXCEPT ![c] = n] /\ cost' = [cost EXCEPT ![c] = k]
    BY <2>1
  <2>. HIDE DEF n, k
  <2>4. TypeOK'
    BY <1>0, <1>1, <2>2, <2>3 DEF AskSized, budget, TypeOK, Int64
  <2>5. Handlers'
    BY <1>0, <1>1, <2>2, <2>3 DEF AskSized, Handlers, TypeOK
  <2>6. Working' = Working /\ c \notin Working
    BY <1>1 DEF AskSized, Working, TypeOK
  <2>7. Totals'
    BY <1>1, <2>3, <2>6, SameCounters DEF AskSized, budget, TypeOK, Working
  <2>. QED
    BY <2>4, <2>5, <2>7
<1>2. ASSUME NEW c \in Clients, AskFixed(c) PROVE IInv'
  <2>1. PICK n \in FixedCosts : /\ needed' = [needed EXCEPT ![c] = n]
                                /\ cost' = [cost EXCEPT ![c] = n]
    BY <1>2 DEF AskFixed
  <2>2. n \in 1 .. MaxInt
    BY BudgetAssumption
  <2>4. TypeOK'
    BY <1>0, <1>2, <2>1, <2>2 DEF AskFixed, budget, TypeOK, Int64
  <2>5. Handlers'
    BY <1>0, <1>2, <2>1, <2>2 DEF AskFixed, Handlers, TypeOK
  <2>6. Working' = Working /\ c \notin Working
    BY <1>2 DEF AskFixed, Working, TypeOK
  <2>7. Totals'
    BY <1>2, <2>1, <2>6, SameCounters DEF AskFixed, budget, TypeOK, Working
  <2>. QED
    BY <2>4, <2>5, <2>7
<1>3. ASSUME NEW c \in Clients, RefuseCancelled(c) PROVE IInv'
  <2>1. TypeOK' /\ Handlers'
    BY <1>3, OthersKeep DEF RefuseCancelled, budget, TypeOK
  <2>2. Working' = Working /\ c \notin Working
    BY <1>3 DEF RefuseCancelled, Ends, Working, TypeOK
  <2>3. Totals'
    BY <1>3, <2>2, SameCounters DEF RefuseCancelled, Ends, budget, TypeOK, Working
  <2>. QED
    BY <2>1, <2>3
<1>4. ASSUME NEW c \in Clients, Refuse(c) PROVE IInv'
  <2>1. TypeOK' /\ Handlers'
    BY <1>4, OthersKeep DEF Refuse, TypeOK
  <2>2. Working' = Working /\ c \notin Working
    BY <1>4 DEF Refuse, Ends, Working, TypeOK
  <2>3. Totals'
    BY <1>4, <2>2, SameCounters DEF Refuse, Ends, TypeOK, Working
  <2>. QED
    BY <2>1, <2>3
<1>5. ASSUME NEW c \in Clients, Admit(c) PROVE IInv'
  <2>1. reserved \in 0 .. MaxMemory /\ active \in Nat
    <3>1. Cardinality(CellsOf(Held)) \in Nat
      BY FS_CardinalityType DEF Totals
    <3>. QED
      BY <3>1, <1>0 DEF Totals, TypeOK
  <2>2. /\ needed[c] = cost[c] /\ cost[c] \in 1 .. MaxMemory
        /\ reserved + cost[c] <= MaxMemory
        /\ active < MaxActive
    <3>1. MaxMemory - reserved \in Int64
      BY <1>0, <2>1 DEF Int64
    <3>2. Wrap(MaxMemory - reserved) = MaxMemory - reserved
      BY <3>1 DEF Wrap
    <3>. QED
      BY <1>0, <1>5, <2>1, <3>2
         DEF Admit, TooLarge, NoSlot, NoMemory, Handlers, TypeOK, Int64
  <2>3. reserved' = reserved + cost[c]
    BY <1>0, <1>5, <2>1, <2>2 DEF Admit, Wrap, Int64
  <2>4. TypeOK'
    BY <1>0, <1>5, <2>1, <2>2, <2>3 DEF Admit, Larger, TypeOK, Int64
  <2>5. Handlers'
    BY <1>5, <2>2 DEF Admit, Handlers, TypeOK
  <2>6. Working' = Working \cup {c} /\ c \notin Working
    BY <1>5 DEF Admit, Working, TypeOK
  <2>7. IsFiniteSet(Working)
    BY <1>0, FS_Subset DEF Working
  <2>8. active' = Cardinality(Working') /\ active' <= MaxActive
    <3>1. Cardinality(Working') = Cardinality(Working) + 1
      BY <2>6, <2>7, FS_AddElement
    <3>. QED
      BY <1>0, <1>5, <2>1, <2>2, <3>1 DEF Admit, Totals
  <2>9. /\ Held \in [Clients -> Nat] /\ Held' \in [Clients -> Nat]
        /\ Held[c] = 0 /\ Held'[c] = cost[c] /\ cost[c] \in Nat
        /\ \A x \in Clients : x # c => Held'[x] = Held[x]
    BY <1>5, <2>2 DEF Admit, Held, TypeOK
  <2>10. /\ IsFiniteSet(CellsOf(Held'))
         /\ Cardinality(CellsOf(Held')) = Cardinality(CellsOf(Held)) + cost[c]
    <3>. DEFINE h == Held
                g == Held'
                n == cost[c]
    <3>1. /\ h \in [Clients -> Nat] /\ g \in [Clients -> Nat] /\ n \in Nat
          /\ IsFiniteSet(CellsOf(h)) /\ h[c] = 0 /\ g[c] = n
          /\ \A x \in Clients : x # c => g[x] = h[x]
      BY <2>9 DEF Totals
    <3>2. /\ IsFiniteSet(CellsOf(g))
          /\ Cardinality(CellsOf(g)) = Cardinality(CellsOf(h)) + n
      <4>. HIDE DEF h, g, n
      <4>. QED
        BY <3>1, CellsGrow
    <3>. QED
      BY <3>2
  <2>11. Totals'
    BY <2>2, <2>3, <2>8, <2>10 DEF Totals, CellsOf
  <2>. QED
    BY <2>4, <2>5, <2>11
<1>6. ASSUME NEW c \in Clients, Release(c) PROVE IInv'
  <2>1. reserved \in 0 .. MaxMemory /\ active \in Nat
    <3>1. Cardinality(CellsOf(Held)) \in Nat
      BY FS_CardinalityType DEF Totals
    <3>. QED
      BY <3>1, <1>0 DEF Totals, TypeOK
  <2>2. needed[c] = cost[c] /\ cost[c] \in 1 .. MaxMemory
    BY <1>6 DEF Release, Handlers
  <2>6. Working' = Working \ {c} /\ c \in Working
    BY <1>6 DEF Release, Ends, Working, TypeOK
  <2>7. IsFiniteSet(Working)
    BY <1>0, FS_Subset DEF Working
  <2>8. active' = Cardinality(Working') /\ active' <= MaxActive /\ active' \in Nat
    <3>1. IsFiniteSet(Working') /\ Cardinality(Working') = Cardinality(Working) - 1
      BY <2>6, <2>7, FS_RemoveElement
    <3>2. Cardinality(Working') \in Nat
      BY <3>1, FS_CardinalityType
    <3>. QED
      BY <1>0, <1>6, <2>1, <3>1, <3>2 DEF Release, Totals
  <2>9. /\ Held \in [Clients -> Nat] /\ Held' \in [Clients -> Nat]
        /\ Held[c] = cost[c] /\ Held'[c] = 0
        /\ \A x \in Clients : x # c => Held'[x] = Held[x]
    BY <1>6 DEF Release, Ends, Held, TypeOK
  <2>10. /\ IsFiniteSet(CellsOf(Held'))
         /\ Cardinality(CellsOf(Held')) = Cardinality(CellsOf(Held)) - cost[c]
    <3>. DEFINE h == Held
                g == Held'
    <3>1. /\ h \in [Clients -> Nat] /\ g \in [Clients -> Nat]
          /\ IsFiniteSet(CellsOf(h)) /\ g[c] = 0
          /\ \A x \in Clients : x # c => g[x] = h[x]
      BY <2>9 DEF Totals
    <3>2. /\ IsFiniteSet(CellsOf(g))
          /\ Cardinality(CellsOf(g)) = Cardinality(CellsOf(h)) - h[c]
      <4>. HIDE DEF h, g
      <4>. QED
        BY <3>1, CellsShrink
    <3>. QED
      BY <2>9, <3>2
  <2>11. Cardinality(CellsOf(Held')) \in Nat
    BY <2>10, FS_CardinalityType
  <2>12. reserved - cost[c] \in 0 .. MaxMemory
    BY <1>0, <2>1, <2>2, <2>10, <2>11 DEF Totals
  <2>3. reserved' = reserved - cost[c]
    BY <1>0, <1>6, <2>2, <2>12 DEF Release, Wrap, Int64
  <2>4. TypeOK' /\ Handlers'
    BY <1>0, <1>6, <2>3, <2>8, <2>12, OthersKeep DEF Release, TypeOK, Int64
  <2>13. Totals'
    BY <2>3, <2>8, <2>10, <2>12 DEF Totals, CellsOf
  <2>. QED
    BY <2>4, <2>13
<1>7. CASE UNCHANGED vars
  <2>1. Held' = Held /\ Working' = Working
    BY <1>7 DEF vars, Held, Working
  <2>2. TypeOK' /\ Handlers'
    BY <1>7 DEF vars, budget, TypeOK, Handlers
  <2>3. Totals'
    BY <1>7, <2>1, SameCounters DEF vars, budget
  <2>. QED
    BY <2>2, <2>3
<1>. QED
  BY <1>1, <1>2, <1>3, <1>4, <1>5, <1>6, <1>7 DEF Next

LEMMA IInvHolds == Spec => []IInv
BY IInvInit, IInvNext, PTL DEF Spec

-----------------------------------------------------------------------------
\* What the invariant says of the pool the refinement maps to.
LEMMA PoolFacts ==
  ASSUME IInv
  PROVE  /\ Pool!Cells = CellsOf(Held)
         /\ Pool!Admitted = Working
         /\ Cardinality(Working) \in Nat
         /\ Cardinality(CellsOf(Held)) \in Nat
<1>1. IsFiniteSet(Working)
  BY BudgetAssumption, FS_Subset DEF Working
<1>2. Pool!Admitted = Working
  BY DEF Pool!Admitted, Working, IInv, Handlers
<1>. QED
  BY <1>1, <1>2, FS_CardinalityType DEF Pool!Cells, CellsOf, Held, IInv, Totals

\* The counters are exact for any clients and any requests: reservations are
\* given back whole, and no arithmetic wraps.
THEOREM CountersAreExactHolds == Spec => []CountersAreExact
<1>1. IInv => CountersAreExact
  BY PoolFacts DEF IInv, Totals, CountersAreExact
<1>. QED
  BY <1>1, IInvHolds, PTL

LEMMA PoolInit == Init => Pool!Init
BY DEF Init, Pool!Init

LEMMA PoolNext == IInv /\ [Next]_vars => [Pool!Next]_Held
<1>. SUFFICES ASSUME IInv, [Next]_vars PROVE [Pool!Next]_Held
  OBVIOUS
<1>1. ASSUME NEW c \in Clients,
             AskSized(c) \/ AskFixed(c) \/ RefuseCancelled(c) \/ Refuse(c)
      PROVE  Held' = Held
  BY <1>1 DEF AskSized, AskFixed, RefuseCancelled, Refuse, Ends, Held, IInv, TypeOK
<1>2. ASSUME NEW c \in Clients, Admit(c) PROVE Pool!Next
  <2>0. IInv'
    BY IInvNext
  <2>1. /\ Held[c] = 0 /\ cost[c] \in 1 .. MaxMemory
        /\ Held' = [Held EXCEPT ![c] = cost[c]]
        /\ c \notin Working /\ Working' = Working \cup {c}
    <3>1. cost[c] \in 1 .. MaxMemory
      BY <1>2, <2>0 DEF Admit, IInv, Handlers, TypeOK
    <3>. QED
      BY <1>2, <3>1 DEF Admit, Held, Working, IInv, TypeOK
  <2>2. Cardinality(Working) < MaxActive
    BY <1>2, PoolFacts, BudgetAssumption DEF Admit, NoSlot, IInv, Totals
  <2>3. Cardinality(CellsOf(Held)) + cost[c] <= MaxMemory
    <3>1. /\ Held \in [Clients -> Nat] /\ Held' \in [Clients -> Nat]
          /\ IsFiniteSet(CellsOf(Held)) /\ Held[c] = 0 /\ Held'[c] = cost[c]
          /\ cost[c] \in Nat
          /\ \A x \in Clients : x # c => Held'[x] = Held[x]
      BY <1>2, <2>1 DEF Admit, Held, IInv, TypeOK, Totals
    <3>2. Cardinality(CellsOf(Held')) = Cardinality(CellsOf(Held)) + cost[c]
      <4>. DEFINE h == Held
                  g == Held'
                  n == cost[c]
      <4>1. /\ h \in [Clients -> Nat] /\ g \in [Clients -> Nat] /\ n \in Nat
            /\ IsFiniteSet(CellsOf(h)) /\ h[c] = 0 /\ g[c] = n
            /\ \A x \in Clients : x # c => g[x] = h[x]
        BY <3>1
      <4>2. Cardinality(CellsOf(g)) = Cardinality(CellsOf(h)) + n
        <5>. HIDE DEF h, g, n
        <5>. QED
          BY <4>1, CellsGrow
      <4>. QED
        BY <4>2
    <3>3. reserved' = Cardinality(CellsOf(Held')) /\ reserved' <= MaxMemory
      BY <2>0 DEF IInv, Totals, CellsOf
    <3>. QED
      BY <3>2, <3>3
  <2>4. Pool!Cardinality(Pool!Admitted) = Cardinality(Working)
    BY PoolFacts DEF Pool!Cardinality, Cardinality
  <2>5. Pool!Cardinality(Pool!Cells) = Cardinality(CellsOf(Held))
    BY PoolFacts DEF Pool!Cardinality, Cardinality
  <2>6. Pool!Grant(c)
    BY <2>1, <2>2, <2>3, <2>4, <2>5 DEF Pool!Grant, Held
  <2>. QED
    BY <2>6 DEF Pool!Next
<1>3. ASSUME NEW c \in Clients, Release(c) PROVE Pool!Next
  <2>1. Held[c] > 0 /\ Held' = [Held EXCEPT ![c] = 0]
    <3>1. pc[c] = "working" /\ cost[c] \in 1 .. MaxMemory
      BY <1>3 DEF Release, IInv, Handlers
    <3>2. Held[c] = cost[c]
      BY <3>1 DEF Held
    <3>3. Held' = [Held EXCEPT ![c] = 0]
      BY <1>3 DEF Release, Ends, Held, IInv, TypeOK
    <3>4. cost[c] > 0
      BY <3>1, BudgetAssumption
    <3>. QED
      BY <3>2, <3>3, <3>4
  <2>2. Pool!Return(c)
    BY <2>1 DEF Pool!Return, Held
  <2>. QED
    BY <2>2 DEF Pool!Next
<1>4. CASE UNCHANGED vars
  BY <1>4 DEF vars, Held
<1>. QED
  BY <1>1, <1>2, <1>3, <1>4 DEF Next

\* What is admitted really fits: together never more clients than the limit,
\* never more bytes than the budget, whatever sizes are asked for.
THEOREM ImplementsMemoryPoolHolds == Spec => ImplementsMemoryPool
BY PoolInit, PoolNext, IInvHolds, PTL
   DEF Spec, ImplementsMemoryPool, Pool!Spec, Held

\* What justifies an answer, of the real costs.
Justified(c, why) ==
  /\ why = "size" => cost[c] > MaxMemory
  /\ why = "count" => cost[c] <= MaxMemory /\ Cardinality(Working) = MaxActive
  /\ why = "memory" => /\ cost[c] <= MaxMemory
                       /\ Cardinality(CellsOf(Held)) + cost[c] > MaxMemory

LEMMA RefusedIsJustified ==
  ASSUME IInv, NEW c \in Clients, Refuse(c)
  PROVE  Justified(c, answer'[c])
<1>1. PICK why \in {"size", "count", "memory"} :
        Refused(c, why) /\ answer' = [answer EXCEPT ![c] = why]
  BY DEF Refuse
<1>2. answer'[c] = why
  BY <1>1 DEF IInv, TypeOK
<1>3. /\ needed[c] \in 1 .. MaxInt /\ cost[c] \in Nat
      /\ needed[c] = cost[c] \/ (needed[c] > MaxMemory /\ cost[c] > MaxMemory)
  BY DEF Refuse, IInv, Handlers
<1>4. /\ MaxInt \in Nat /\ MaxMemory \in 1 .. (MaxInt - 1)
      /\ MaxActive \in Nat
  BY BudgetAssumption
<1>5. /\ active = Cardinality(Working) /\ active <= MaxActive /\ active \in Nat
      /\ reserved = Cardinality(CellsOf(Held)) /\ reserved \in 0 .. MaxMemory
  BY <1>4, PoolFacts DEF IInv, Totals, TypeOK
<1>6. MaxMemory - reserved \in Int64
  BY <1>4, <1>5 DEF Int64
<1>7. Wrap(MaxMemory - reserved) = MaxMemory - reserved
  BY <1>6 DEF Wrap
<1>8. CASE why = "size"
  BY <1>1, <1>2, <1>3, <1>4, <1>8 DEF Refused, TooLarge, Justified
<1>9. CASE why = "count"
  BY <1>1, <1>2, <1>3, <1>4, <1>5, <1>9 DEF Refused, TooLarge, NoSlot, Justified
<1>10. CASE why = "memory"
  BY <1>1, <1>2, <1>3, <1>4, <1>5, <1>7, <1>10
     DEF Refused, TooLarge, NoMemory, Justified
<1>. QED
  BY <1>8, <1>9, <1>10

LEMMA OnlyOwnAnswer ==
  ASSUME TypeOK, NEW d \in Clients, NEW c \in Clients, d # c,
         \/ AskSized(d) \/ AskFixed(d) \/ RefuseCancelled(d) \/ Refuse(d)
         \/ Admit(d) \/ Release(d)
  PROVE  answer'[c] = answer[c]
<1>1. CASE AskSized(d) \/ AskFixed(d)
  BY <1>1 DEF AskSized, AskFixed, TypeOK
<1>2. CASE RefuseCancelled(d) \/ Admit(d) \/ Release(d)
  BY <1>2 DEF RefuseCancelled, Admit, Release, TypeOK
<1>3. CASE Refuse(d)
  <2>1. PICK why \in {"size", "count", "memory"} :
          answer' = [answer EXCEPT ![d] = why]
    BY <1>3 DEF Refuse
  <2>. QED
    BY <2>1 DEF TypeOK
<1>. QED
  BY <1>1, <1>2, <1>3

\* Nobody is sent away without need: every refusal is true of the real costs.
THEOREM RefusalsAreJustifiedHolds == Spec => RefusalsAreJustified
<1>1. ASSUME IInv, [Next]_vars, NEW c \in Clients, answer[c] = "none",
             answer'[c] \in {"size", "count", "memory"}
      PROVE  Justified(c, answer'[c])
  <2>1. ASSUME NEW d \in Clients, d # c,
               AskSized(d) \/ AskFixed(d) \/ RefuseCancelled(d) \/ Refuse(d)
                 \/ Admit(d) \/ Release(d)
        PROVE  answer'[c] = answer[c]
    BY <1>1, <2>1, OnlyOwnAnswer DEF IInv
  <2>2. ASSUME AskSized(c) \/ AskFixed(c) \/ RefuseCancelled(c) \/ Admit(c)
                 \/ Release(c)
        PROVE  answer'[c] \in {"none", "cancelled", "ok"}
    <3>1. \/ \E a \in {"none", "cancelled", "ok"} :
                answer' = [answer EXCEPT ![c] = a]
          \/ answer' = answer
      BY <2>2 DEF AskSized, AskFixed, RefuseCancelled, Admit, Release
    <3>. QED
      BY <1>1, <3>1 DEF IInv, TypeOK
  <2>3. Refuse(c)
    BY <1>1, <2>1, <2>2 DEF Next, vars
  <2>. QED
    BY <1>1, <2>3, RefusedIsJustified
<1>2. ASSUME IInv, [Next]_vars
      PROVE  \A c \in Clients :
               /\ answer'[c] = "size" /\ answer[c] = "none" => cost[c] > MaxMemory
               /\ answer'[c] = "count" /\ answer[c] = "none" =>
                    cost[c] <= MaxMemory /\ Cardinality(Working) = MaxActive
               /\ answer'[c] = "memory" /\ answer[c] = "none" =>
                    /\ cost[c] <= MaxMemory
                    /\ Cardinality(Pool!Cells) + cost[c] > MaxMemory
  BY <1>1, <1>2, PoolFacts DEF Justified
<1>. QED
  BY <1>2, IInvHolds, PTL DEF Spec, RefusalsAreJustified

(***************************************************************************)
(* RequestLog                                                              *)
(***************************************************************************)
\* What is sent is what is kept, but for the 200 net/http sends by itself;
\* of a connection that broke nothing is said.
LogInv ==
  /\ status \in Nat /\ sent \in Nat
  /\ hijacked => status # 0
  /\ ~broken => sent = status \/ (returned /\ status = 0 /\ sent = 200)
  /\ returned => logged = IF status >= 400 THEN status ELSE 0

LEMMA InitLog == LogInit => LogInv
BY DEF LogInit, LogInv

LEMMA StepLog == LogInv /\ [LogNext]_log => LogInv'
<1> SUFFICES ASSUME LogInv, [LogNext]_log PROVE LogInv'
  OBVIOUS
<1> USE DEF LogInv, Handler, Commit, FirstStatus
<1>1. CASE WriteHeader
  <2>1. ASSUME NEW code \in Final, KeepFinal(code) PROVE LogInv'
    <3>1. code \in Nat /\ code # 0
      BY RequestLogAssumption DEF RequestLogAssumption
    <3>2. status = 0 => status' = code /\ (sent' = sent \/ sent' = code)
      BY <2>1 DEF KeepFinal
    <3>3. status # 0 => status' = status /\ sent' = sent
      BY <2>1 DEF KeepFinal
    <3>4. status = 0 /\ ~hijacked /\ sent = 0 => sent' = code
      BY <2>1 DEF KeepFinal
    <3>5. ~returned /\ UNCHANGED <<logged, returned, hijacked, broken>>
      BY <1>1 DEF WriteHeader
    <3> QED
      BY <3>1, <3>2, <3>3, <3>4, <3>5
  <2>2. CASE UNCHANGED <<status, sent>>
    BY <1>1, <2>2 DEF WriteHeader
  <2> QED
    BY <1>1, <2>1, <2>2 DEF WriteHeader
<1>2. CASE Write
  BY <1>2 DEF Write
<1>3. CASE ReadFrom
  BY <1>3 DEF ReadFrom
<1>4. CASE Flush
  BY <1>4 DEF Flush
<1>5. CASE Hijack
  BY <1>5 DEF Hijack
<1>6. CASE Return
  BY <1>6 DEF Return
<1>7. CASE UNCHANGED log
  BY <1>7 DEF log
<1> QED
  BY <1>1, <1>2, <1>3, <1>4, <1>5, <1>6, <1>7 DEF LogNext

\* Whatever a handler calls in whatever order, the log has the failure its
\* client was told of, and no other.
THEOREM LoggedAsSentHolds == LogSpec => []LoggedAsSent
<1>1. LogInv => LoggedAsSent
  BY DEF LogInv, LoggedAsSent
<1> QED
  BY <1>1, InitLog, StepLog, PTL DEF LogSpec

-----------------------------------------------------------------------------
(***************************************************************************)
(* Rendering                                                               *)
(***************************************************************************)
\* Every slot that is taken has its handler.
RenderingInv == RenderingTypeOK /\ slots = Cardinality(Holding)

LEMMA InitRendering == RenderingInit => RenderingInv
<1> SUFFICES ASSUME RenderingInit PROVE RenderingInv
  OBVIOUS
<1>1. RenderingTypeOK
  BY RenderingAssumption DEF RenderingInit, RenderingTypeOK, RenderingAssumption
<1>2. Holding = {}
  BY DEF RenderingInit, Holding
<1> QED
  BY <1>1, <1>2, FS_EmptySet DEF RenderingInv, RenderingInit

LEMMA HoldingFinite == IsFiniteSet(Holding)
BY RenderingAssumption, FS_Subset DEF RenderingAssumption, Holding

\* Who holds a slot, when a handler goes from one place to another.
LEMMA GoHolds ==
  ASSUME RenderingTypeOK, NEW c \in Listeners, NEW place, Go(c, place)
  PROVE  /\ place \notin {"nothing", "picturing"} /\ doing[c] \notin {"nothing", "picturing"}
              /\ place \in {"seeding", "sampling", "encoding", "sending", "leaving"}
            => Holding' = Holding
         /\ place \in {"nothing", "picturing"} => Holding' = Holding \ {c}
         /\ place = "seeding" => Holding' = Holding \cup {c}
<1>1. /\ \A d \in Listeners \ {c} : doing'[d] = doing[d]
      /\ doing'[c] = place
  BY DEF Go, RenderingTypeOK
<1>2. doing[c] \notin {"nothing", "picturing"} => c \in Holding
  BY DEF RenderingTypeOK, Holding
<1> QED
  BY <1>1, <1>2 DEF Holding

LEMMA StepRendering == RenderingInv /\ [RenderingNext]_rendering => RenderingInv'
<1> SUFFICES ASSUME RenderingInv, [RenderingNext]_rendering PROVE RenderingInv'
  OBVIOUS
<1> USE DEF RenderingInv
<1>a. Slots \in Nat
  BY RenderingAssumption DEF RenderingAssumption
<1>1. ASSUME NEW c \in Listeners, AskPicture(c) \/ Draw(c) PROVE RenderingInv'
  <2>1. RenderingTypeOK'
    BY <1>1 DEF AskPicture, Draw, Arrive, Go, Tell, RenderingTypeOK
  <2>2. Holding' = Holding \ {c} /\ c \notin Holding /\ slots' = slots
    BY <1>1, GoHolds DEF AskPicture, Draw, Arrive, Holding
  <2> QED
    BY <2>1, <2>2
<1>2. ASSUME NEW c \in Listeners, RefuseSound(c) \/ AskLength(c) \/ GiveUp(c)
      PROVE  RenderingInv'
  <2>1. RenderingTypeOK'
    BY <1>2 DEF RefuseSound, AskLength, GiveUp, Arrive, Tell, RenderingTypeOK
  <2>2. Holding' = Holding /\ slots' = slots
    BY <1>2 DEF RefuseSound, AskLength, GiveUp, Holding
  <2> QED
    BY <2>1, <2>2
<1>3. ASSUME NEW c \in Listeners, AskSound(c) PROVE RenderingInv'
  <2>1. RenderingTypeOK'
    BY <1>3, <1>a DEF AskSound, Arrive, Go, Tell, RenderingTypeOK
  <2>2. CASE UNCHANGED <<doing, slots>>
    BY <2>1, <2>2 DEF Holding
  <2>3. CASE slots' = slots + 1 /\ Go(c, "seeding")
    <3>1. Holding' = Holding \cup {c} /\ c \notin Holding
      BY <1>3, <2>3, GoHolds DEF AskSound, Arrive, Holding
    <3>2. Cardinality(Holding \cup {c}) = Cardinality(Holding) + 1
      BY <3>1, HoldingFinite, FS_AddElement
    <3> QED
      BY <2>1, <2>3, <3>1, <3>2
  <2> QED
    BY <1>3, <2>2, <2>3 DEF AskSound
<1>4. ASSUME NEW c \in Listeners, Seed(c) \/ Sample(c) \/ Encode(c) \/ Send(c)
      PROVE  RenderingInv'
  <2>1. RenderingTypeOK'
    BY <1>4 DEF Seed, Sample, Encode, Pass, Send, Go, Tell, RenderingTypeOK
  <2>2. /\ doing[c] \notin {"nothing", "picturing"} /\ slots' = slots
        /\ \E p \in {"seeding", "sampling", "encoding", "sending", "leaving"} : Go(c, p)
    BY <1>4 DEF Seed, Sample, Encode, Pass, Send
  <2>3. Holding' = Holding
    BY <2>2, GoHolds
  <2> QED
    BY <2>1, <2>2, <2>3
<1>5. ASSUME NEW c \in Listeners, LeaveSound(c) PROVE RenderingInv'
  <2>1. Holding' = Holding \ {c} /\ c \in Holding /\ slots' = slots - 1
    BY <1>5, GoHolds DEF LeaveSound, Holding
  <2>2. Cardinality(Holding \ {c}) = Cardinality(Holding) - 1
    BY <2>1, HoldingFinite, FS_RemoveElement
  <2>3. Cardinality(Holding \ {c}) \in Nat
    BY HoldingFinite, FS_Subset, FS_CardinalityType
  <2>4. RenderingTypeOK'
    BY <1>5, <1>a, <2>1, <2>2, <2>3 DEF LeaveSound, Go, RenderingTypeOK
  <2> QED
    BY <2>1, <2>2, <2>4
<1>6. CASE UNCHANGED rendering
  BY <1>6 DEF rendering, RenderingTypeOK, Holding
<1> QED
  BY <1>1, <1>2, <1>3, <1>4, <1>5, <1>6 DEF RenderingNext

\* The slots of rendering that are taken are as many as handlers hold one.
THEOREM RenderingInvHolds == RenderingSpec => []RenderingInv
BY InitRendering, StepRendering, PTL DEF RenderingSpec

\* Busy is the answer only while all slots are with others that work.
THEOREM BusyIsJustifiedHolds == RenderingSpec => BusyIsJustified
<1>1. ASSUME RenderingInv, NEW c \in Listeners, AskSound(c), told'[c] = 503
      PROVE  Cardinality(Holding \ {c}) = Slots
  <2>1. slots = Slots
    BY <1>1 DEF AskSound, Tell, RenderingInv, RenderingTypeOK
  <2>2. Holding \ {c} = Holding
    BY <1>1 DEF AskSound, Arrive, Holding
  <2> QED
    BY <1>1, <2>1, <2>2 DEF RenderingInv
<1>2. RenderingInv /\ [RenderingNext]_rendering
        => [\A c \in Listeners : (AskSound(c) /\ told'[c] = 503)
                                    => Cardinality(Holding \ {c}) = Slots]_rendering
  BY <1>1
<1> QED
  BY <1>2, RenderingInvHolds, PTL DEF RenderingSpec, BusyIsJustified

-----------------------------------------------------------------------------
(***************************************************************************)
(* ActivityPeaks                                                           *)
(***************************************************************************)
\* The average of two intervals is not above the higher of the two.
LEMMA Mediant ==
  ASSUME NEW A \in Nat, NEW T \in Nat, NEW a \in Nat, NEW t \in Nat,
         NEW p \in Nat, NEW q \in Nat \ {0},
         A * q <= p * T, t > 0
  PROVE  /\ a * q <= p * t => (A + a) * q <= p * (T + t)
         /\ a * q > p * t => (A + a) * t <= a * (T + t)
<1>1. (A + a) * q = A * q + a * q /\ p * (T + t) = p * T + p * t
  OBVIOUS
<1>2. A * q \in Nat /\ a * q \in Nat /\ p * T \in Nat /\ p * t \in Nat /\ A * t \in Nat /\ a * T \in Nat
  OBVIOUS
<1>3. ASSUME a * q > p * t PROVE A * t <= a * T
  <2>1. (A * q) * t <= (p * T) * t
    <3>1. \E k \in Nat : p * T = A * q + k
      <4>1. p * T - A * q \in Nat /\ p * T = A * q + (p * T - A * q)
        BY <1>2
      <4> QED
        BY <4>1
    <3>2. PICK k \in Nat : p * T = A * q + k
      BY <3>1
    <3>3. (A * q + k) * t = (A * q) * t + k * t /\ k * t \in Nat
      BY <1>2
    <3> QED
      BY <1>2, <3>2, <3>3
  <2>2. (p * t) * T <= (a * q) * T
    <3>1. a * q - p * t \in Nat /\ a * q = p * t + (a * q - p * t)
      BY <1>2, <1>3
    <3>2. PICK k \in Nat : a * q = p * t + k
      BY <3>1
    <3>3. (p * t + k) * T = (p * t) * T + k * T /\ k * T \in Nat
      BY <1>2
    <3> QED
      BY <1>2, <3>2, <3>3
  <2>3. (p * T) * t = (p * t) * T
    OBVIOUS
  <2>4. (A * q) * t = (A * t) * q /\ (a * q) * T = (a * T) * q
    OBVIOUS
  <2>5. (A * t) * q <= (a * T) * q
    BY <1>2, <2>1, <2>2, <2>3, <2>4
  <2>6. SUFFICES ASSUME A * t > a * T PROVE FALSE
    BY <1>2
  <2>7. A * t - a * T - 1 \in Nat /\ A * t = a * T + 1 + (A * t - a * T - 1)
    BY <1>2, <2>6
  <2>8. PICK k \in Nat : A * t = a * T + 1 + k
    BY <2>7
  <2>9. (a * T + 1 + k) * q = (a * T) * q + q + k * q /\ k * q \in Nat /\ (a * T) * q \in Nat
    BY <1>2
  <2> QED
    BY <2>5, <2>8, <2>9
<1>4. (A + a) * t = A * t + a * t /\ a * (T + t) = a * T + a * t /\ a * t \in Nat
  OBVIOUS
<1> QED
  BY <1>1, <1>2, <1>3, <1>4

PeaksTypeOK ==
  /\ counted \in [Kinds -> Nat] /\ current \in [Kinds -> Nat]
  /\ previous \in [Kinds -> Nat] /\ first.counted \in [Kinds -> Nat]
  /\ clock \in Nat /\ last \in Nat /\ first.at \in Nat
  /\ peak \in [Kinds -> Nat \X (Nat \ {0})]
  /\ started \in BOOLEAN

\* Readings follow one another: no counter and no clock goes back.
InSequence ==
  /\ first.at <= last /\ last <= clock
  /\ ~started => last = first.at
  /\ \A k \in Kinds :
       /\ first.counted[k] <= previous[k] /\ previous[k] <= current[k]
       /\ current[k] <= counted[k]
       /\ ~started => previous[k] = first.counted[k]

PeaksInv == PeaksTypeOK /\ InSequence /\ PeakCoversAverage

LEMMA InitPeaks == PeaksInit => PeaksInv
<1> SUFFICES ASSUME PeaksInit PROVE PeaksInv
  OBVIOUS
<1>1. PeaksTypeOK
  <2>1. Zero \in [Kinds -> Nat] /\ <<0, 1>> \in Nat \X (Nat \ {0})
    BY DEF Zero
  <2>2. [k \in Kinds |-> <<0, 1>>] \in [Kinds -> Nat \X (Nat \ {0})]
    BY <2>1
  <2> QED
    BY <2>1, <2>2 DEF PeaksInit, PeaksTypeOK
<1>2. InSequence
  BY DEF PeaksInit, InSequence, Zero
<1>3. PeakCoversAverage
  BY DEF PeaksInit, PeakCoversAverage, Zero
<1> QED
  BY <1>1, <1>2, <1>3 DEF PeaksInv

\* A reading taken later does not hide what the earlier ones have shown.
LEMMA RaisedCovers ==
  ASSUME PeaksInv, NEW k \in Kinds, clock > last
  PROVE  LET p == Raised(k, clock - last) IN
         /\ p \in Nat \X (Nat \ {0})
         /\ (current[k] - first.counted[k]) * p[2] <= p[1] * (clock - first.at)
<1> DEFINE A == previous[k] - first.counted[k]
           a == current[k] - previous[k]
           T == last - first.at
           t == clock - last
           p == peak[k][1]
           q == peak[k][2]
<1>1. /\ A \in Nat /\ a \in Nat /\ T \in Nat /\ t \in Nat /\ t > 0
      /\ current[k] - first.counted[k] = A + a /\ clock - first.at = T + t
      /\ ~(current[k] < previous[k])
  BY DEF PeaksInv, PeaksTypeOK, InSequence
<1>2. p \in Nat /\ q \in Nat \ {0} /\ peak[k] \in Nat \X (Nat \ {0})
  BY DEF PeaksInv, PeaksTypeOK
<1>3. A * q <= p * T
  BY DEF PeaksInv, PeakCoversAverage
<1>4. Raised(k, clock - last) = IF a * q > p * t THEN <<a, t>> ELSE peak[k]
  BY <1>1 DEF Raised, Higher
<1>5. <<a, t>> \in Nat \X (Nat \ {0})
  BY <1>1
<1> HIDE DEF A, a, T, t
<1>6. /\ a * q <= p * t => (A + a) * q <= p * (T + t)
      /\ a * q > p * t => (A + a) * t <= a * (T + t)
  BY <1>1, <1>2, <1>3, Mediant
<1>7. a * q \in Nat /\ p * t \in Nat
  BY <1>1, <1>2
<1>8. CASE a * q > p * t
  BY <1>1, <1>4, <1>5, <1>6, <1>8
<1>9. CASE a * q <= p * t
  BY <1>1, <1>2, <1>4, <1>6, <1>7, <1>9
<1> QED
  BY <1>7, <1>8, <1>9

LEMMA StepPeaks == PeaksInv /\ [PeaksNext]_peaks => PeaksInv'
<1> SUFFICES ASSUME PeaksInv, [PeaksNext]_peaks PROVE PeaksInv'
  OBVIOUS
<1>1. CASE Count
  <2>1. PeaksTypeOK'
    BY <1>1 DEF Count, PeaksInv, PeaksTypeOK
  <2>2. InSequence'
    BY <1>1 DEF Count, PeaksInv, PeaksTypeOK, InSequence
  <2>3. PeakCoversAverage'
    BY <1>1 DEF Count, PeaksInv, PeakCoversAverage
  <2> QED
    BY <2>1, <2>2, <2>3 DEF PeaksInv
<1>2. CASE Advance \/ Tick \/ StopSampling \/ UNCHANGED peaks
  <2>1. PeaksTypeOK'
    BY <1>2 DEF Advance, Tick, StopSampling, peaks, PeaksInv, PeaksTypeOK
  <2>2. InSequence'
    BY <1>2 DEF Advance, Tick, StopSampling, peaks, PeaksInv, PeaksTypeOK, InSequence
  <2>3. PeakCoversAverage'
    BY <1>2 DEF Advance, Tick, StopSampling, peaks, PeaksInv, PeakCoversAverage
  <2> QED
    BY <2>1, <2>2, <2>3 DEF PeaksInv
<1>3. CASE Read
  <2>1. PeaksTypeOK'
    BY <1>3 DEF Read, PeaksInv, PeaksTypeOK
  <2>2. InSequence'
    BY <1>3 DEF Read, PeaksInv, PeaksTypeOK, InSequence
  <2>3. PeakCoversAverage'
    BY <1>3 DEF Read, PeaksInv, PeakCoversAverage
  <2> QED
    BY <2>1, <2>2, <2>3 DEF PeaksInv
<1>4. CASE Observe
  <2>1. CASE ~started /\ last' = clock /\ previous' = current /\ UNCHANGED peak
                      /\ first' = [at |-> clock, counted |-> current] /\ started' = TRUE
    <3>1. PeaksTypeOK'
      BY <1>4, <2>1 DEF Observe, PeaksInv, PeaksTypeOK
    <3>2. InSequence'
      BY <1>4, <2>1 DEF Observe, PeaksInv, PeaksTypeOK, InSequence
    <3>3. PeakCoversAverage'
      BY <2>1 DEF PeaksInv, PeaksTypeOK, PeakCoversAverage
    <3> QED
      BY <3>1, <3>2, <3>3 DEF PeaksInv
  <2>2. CASE /\ started /\ clock > last
             /\ peak' = [k \in Kinds |-> Raised(k, clock - last)]
             /\ last' = clock /\ previous' = current /\ UNCHANGED <<started, first>>
    <3>1. PeaksTypeOK'
      BY <1>4, <2>2, RaisedCovers DEF Observe, PeaksInv, PeaksTypeOK
    <3>2. InSequence'
      BY <1>4, <2>2 DEF Observe, PeaksInv, PeaksTypeOK, InSequence
    <3>3. PeakCoversAverage'
      BY <2>2, RaisedCovers DEF PeakCoversAverage
    <3> QED
      BY <3>1, <3>2, <3>3 DEF PeaksInv
  <2>3. CASE UNCHANGED <<peak, last, previous, started, first>>
    <3>1. PeaksTypeOK'
      BY <1>4, <2>3 DEF Observe, PeaksInv, PeaksTypeOK
    <3>2. InSequence'
      BY <1>4, <2>3 DEF Observe, PeaksInv, PeaksTypeOK, InSequence
    <3>3. PeakCoversAverage'
      BY <2>3 DEF PeaksInv, PeakCoversAverage
    <3> QED
      BY <3>1, <3>2, <3>3 DEF PeaksInv
  <2> QED
    BY <1>4, <2>1, <2>2, <2>3 DEF Observe
<1> QED
  BY <1>1, <1>2, <1>3, <1>4 DEF PeaksNext

\* No peak is below the average of the time observed, however ticks, readings
\* and events interleave.
THEOREM PeakCoversAverageHolds == PeaksSpec => []PeakCoversAverage
<1>1. PeaksInv => PeakCoversAverage
  BY DEF PeaksInv
<1> QED
  BY <1>1, InitPeaks, StepPeaks, PTL DEF PeaksSpec

-----------------------------------------------------------------------------
(***************************************************************************)
(* Preferences                                                             *)
(***************************************************************************)
Amounts == [Fields -> Nat]

PreferencesTypeOK ==
  /\ limits \in [{"bytes", "words"} -> Limits] /\ cookies \in BOOLEAN
  /\ jar \in Amounts /\ served \in Amounts /\ chosen \in Amounts

\* What the visitor chose is what his browser remembers.
ChosenInJar == \A f \in Fields : chosen[f] # 0 => jar[f] = chosen[f]

PreferencesInv == PreferencesTypeOK /\ ChosenInJar /\ ServedAsAsked

LEMMA NothingIsZero == Nothing \in Amounts /\ \A f \in Fields : Nothing[f] = 0
BY DEF Nothing, Amounts

LEMMA InitPreferences == PreferencesInit => PreferencesInv
BY NothingIsZero
   DEF PreferencesInit, PreferencesInv, PreferencesTypeOK, ChosenInJar, ServedAsAsked

LEMMA LimitIsPositive ==
  ASSUME limits \in [{"bytes", "words"} -> Limits], NEW f \in Fields
  PROVE  Limit(f) \in Nat \ {0}
<1>1. MaxNumber \in Nat \ {0} /\ \A l \in Limits : l \in Nat \ {0}
  BY PreferencesAssumption DEF PreferencesAssumption
<1> QED
  BY <1>1 DEF Limit, Fields

\* A parameter that is accepted is within its limit, if its default is; and
\* what a client gave is taken as it is.
LEMMA ParameterFits ==
  ASSUME NEW values \in Values, NEW limit \in Nat, NEW default \in 0 .. limit
  PROVE  /\ Parameter(values, default, limit) \in 0 .. limit
         /\ values # <<>> /\ Parameter(values, default, limit) # 0
              => Parameter(values, default, limit) = values[1]
         /\ values = <<>> => Parameter(values, default, limit) = default
<1>1. values = <<>> \/ values # <<>>
  OBVIOUS
<1> QED
  BY <1>1 DEF Parameter

LEMMA FreshDefaultsFit ==
  ASSUME limits \in [{"bytes", "words"} -> Limits], NEW f \in Fields
  PROVE  FreshDefaults[f] \in 1 .. Limit(f)
<1>1. /\ MaxNumber \in Nat /\ \A l \in Limits : l \in 1 .. MaxNumber
      /\ PlainBytes \in 1 .. MaxNumber /\ PlainRefresh \in 1 .. MaxNumber
      /\ CookieBytes \in 1 .. MaxNumber /\ CookieWords \in 1 .. MaxNumber
  BY PreferencesAssumption DEF PreferencesAssumption
<1>2. limits["bytes"] \in 1 .. MaxNumber /\ limits["words"] \in 1 .. MaxNumber
  BY <1>1
<1>3. CASE f = "bytes"
  BY <1>1, <1>2, <1>3 DEF FreshDefaults, Limit, Least
<1>4. CASE f = "words"
  BY <1>1, <1>2, <1>4 DEF FreshDefaults, Limit, Least
<1>5. CASE f = "refresh"
  BY <1>1, <1>2, <1>5 DEF FreshDefaults, Limit, Least
<1> QED
  BY <1>3, <1>4, <1>5 DEF Fields

LEMMA DefaultsFit ==
  ASSUME limits \in [{"bytes", "words"} -> Limits], NEW f \in Fields
  PROVE  Defaults[f] \in 1 .. Limit(f)
BY FreshDefaultsFit DEF Defaults

LEMMA PrefsFit ==
  ASSUME PreferencesInv, NEW q \in Queries
  PROVE  /\ extractPrefs(q) \in Amounts
         /\ \A f \in Fields :
              /\ extractPrefs(q)[f] <= Limit(f)
              /\ q[f] # <<>> /\ extractPrefs(q)[f] # 0 => extractPrefs(q)[f] = q[f][1]
              /\ q[f] = <<>> => extractPrefs(q)[f] = Defaults[f]
<1>1. limits \in [{"bytes", "words"} -> Limits]
  BY DEF PreferencesInv, PreferencesTypeOK
<1>2. ASSUME NEW f \in Fields
      PROVE  /\ Parameter(q[f], Defaults[f], Limit(f)) \in 0 .. Limit(f)
             /\ Limit(f) \in Nat
             /\ q[f] # <<>> /\ Parameter(q[f], Defaults[f], Limit(f)) # 0
                  => Parameter(q[f], Defaults[f], Limit(f)) = q[f][1]
             /\ q[f] = <<>> => Parameter(q[f], Defaults[f], Limit(f)) = Defaults[f]
  <2>1. Limit(f) \in Nat /\ Defaults[f] \in 0 .. Limit(f)
    BY <1>1, LimitIsPositive, DefaultsFit
  <2>2. q[f] \in Values
    BY DEF Queries
  <2> QED
    BY <2>1, <2>2, ParameterFits
<1> QED
  BY <1>2 DEF extractPrefs, Amounts

LEMMA StepPreferences == PreferencesInv /\ [PreferencesNext]_preferences => PreferencesInv'
<1> SUFFICES ASSUME PreferencesInv, [PreferencesNext]_preferences PROVE PreferencesInv'
  OBVIOUS
<1>a. PreferencesTypeOK /\ ChosenInJar /\ ServedAsAsked
  BY DEF PreferencesInv
<1>1. ASSUME NEW q \in Queries, Page(q) PROVE PreferencesInv'
  <2> DEFINE prefs == extractPrefs(q)
  <2>1. UNCHANGED <<limits, cookies>>
    BY <1>1 DEF Page
  <2>2. CASE served' = Nothing /\ UNCHANGED <<jar, chosen>>
    BY <1>a, <2>1, <2>2, NothingIsZero
       DEF PreferencesInv, PreferencesTypeOK, ChosenInJar, ServedAsAsked
  <2>3. CASE /\ Accepted(prefs) /\ cookies
             /\ jar' = prefs /\ chosen' = Remembered(q) /\ served' \in {prefs, Nothing}
    <3>1. /\ prefs \in Amounts
          /\ \A f \in Fields :
               /\ prefs[f] <= Limit(f)
               /\ q[f] # <<>> /\ prefs[f] # 0 => prefs[f] = q[f][1]
               /\ q[f] = <<>> => prefs[f] = Defaults[f]
      BY PrefsFit
    <3> HIDE DEF prefs
    <3>2. \A f \in Fields : prefs[f] \in Nat /\ prefs[f] # 0
      BY <2>3, <3>1 DEF Accepted, Amounts
    <3>3. ASSUME NEW f \in Fields, q[f] = <<>>, chosen[f] \in 1 .. Limit(f)
          PROVE  prefs[f] = chosen[f]
      <4>1. Limit(f) \in Nat
        BY <1>a, LimitIsPositive DEF PreferencesTypeOK
      <4>2. chosen[f] # 0 /\ jar[f] = chosen[f]
        BY <1>a, <3>3, <4>1 DEF ChosenInJar
      <4> QED
        BY <2>3, <3>1, <3>3, <4>2 DEF Defaults
    <3>4. \A f \in Fields : chosen'[f] = 0 \/ chosen'[f] = prefs[f]
      BY <2>3, <3>1, <3>2, <3>3 DEF Remembered
    <3>5. chosen' \in Amounts
      <4>1. chosen' = [f \in Fields |-> chosen'[f]]
        BY <2>3 DEF Remembered
      <4> QED
        BY <3>2, <3>4, <4>1 DEF Amounts
    <3>6. PreferencesTypeOK'
      BY <1>a, <2>1, <2>3, <3>1, <3>5, NothingIsZero DEF PreferencesTypeOK
    <3>7. ChosenInJar'
      BY <2>3, <3>4 DEF ChosenInJar
    <3>8. ServedAsAsked'
      BY <2>1, <2>3, <3>1, <3>4 DEF ServedAsAsked, Limit
    <3> QED
      BY <3>6, <3>7, <3>8 DEF PreferencesInv
  <2>4. CASE ~cookies /\ UNCHANGED <<jar, chosen>> /\ served' \in {prefs, Nothing}
    <3>1. prefs \in Amounts /\ \A f \in Fields : prefs[f] <= Limit(f)
      BY PrefsFit
    <3> HIDE DEF prefs
    <3>2. PreferencesTypeOK'
      BY <1>a, <2>1, <2>4, <3>1, NothingIsZero DEF PreferencesTypeOK
    <3>3. ChosenInJar'
      BY <1>a, <2>4 DEF ChosenInJar
    <3>4. ServedAsAsked'
      BY <2>1, <2>4, <3>1 DEF ServedAsAsked, Limit
    <3> QED
      BY <3>2, <3>3, <3>4 DEF PreferencesInv
  <2> QED
    BY <1>1, <1>a, <2>2, <2>3, <2>4 DEF Page, PreferencesTypeOK
<1>2. ASSUME NEW q \in Queries, Plain(q) PROVE PreferencesInv'
  <2>1. UNCHANGED <<limits, cookies, jar, chosen>>
    BY <1>2 DEF Plain
  <2>2. /\ MaxNumber \in Nat /\ MaxRefresh \in 1 .. MaxNumber
        /\ PlainRefresh \in 1 .. MaxNumber
        /\ RouteBytes \subseteq 1 .. MaxNumber /\ Limits \subseteq 1 .. MaxNumber
    BY PreferencesAssumption DEF PreferencesAssumption
  <2>3. limits["bytes"] \in 1 .. MaxNumber /\ limits["words"] \in 1 .. MaxNumber
    BY <1>a, <2>2 DEF PreferencesTypeOK
  <2>4. q["bytes"] \in Values /\ q["words"] \in Values /\ q["refresh"] \in Values
    BY DEF Queries, Fields
  <2> DEFINE r == Parameter(q["refresh"], PlainRefresh, MaxRefresh)
  <2>5. r \in 0 .. MaxNumber
    BY <2>2, <2>4 DEF Parameter, Values
  <2> HIDE DEF r
  <2>6. ASSUME NEW n \in 0 .. limits["bytes"], NEW m \in 0 .. limits["words"],
               NEW t \in 0 .. MaxNumber, n = 0 \/ m = 0,
               served' = [bytes |-> n, words |-> m, refresh |-> t]
        PROVE  PreferencesInv'
    <3>1. /\ served' = [f \in Fields |-> IF f = "bytes" THEN n
                                          ELSE IF f = "words" THEN m ELSE t]
          /\ served' \in Amounts
      BY <2>2, <2>3, <2>6 DEF Fields, Amounts
    <3>2. \A f \in Fields : served'[f] <= Limit(f)
      <4>1. served'["bytes"] = n /\ served'["words"] = m /\ served'["refresh"] = t
        BY <3>1 DEF Fields
      <4>2. /\ n <= Limit("bytes") /\ m <= Limit("words") /\ t <= Limit("refresh")
        BY <2>2, <2>3 DEF Limit
      <4> QED
        BY <4>1, <4>2 DEF Fields
    <3>3. \E f \in Fields : served'[f] = 0
      BY <2>6, <3>1 DEF Fields
    <3>4. ~Accepted(served')
      BY <3>3 DEF Accepted
    <3>5. PreferencesTypeOK' /\ ChosenInJar'
      BY <1>a, <2>1, <3>1 DEF PreferencesTypeOK, ChosenInJar
    <3>6. ServedAsAsked'
      BY <2>1, <3>2, <3>4 DEF ServedAsAsked, Limit, Accepted
    <3> QED
      BY <3>5, <3>6 DEF PreferencesInv
  <2>7. CASE served' = Nothing
    BY <1>a, <2>1, <2>7, NothingIsZero
       DEF PreferencesInv, PreferencesTypeOK, ChosenInJar, ServedAsAsked
  <2>8. ASSUME NEW b \in RouteBytes,
               NEW n, n = Parameter(q["bytes"], Least(b, limits["bytes"]), limits["bytes"]),
               served' = [bytes |-> n, words |-> 0, refresh |-> LenientRefresh(q["refresh"])]
        PROVE  PreferencesInv'
    <3>1. Least(b, limits["bytes"]) \in 0 .. limits["bytes"] /\ limits["bytes"] \in Nat
      BY <2>2, <2>3 DEF Least
    <3>2. n \in 0 .. limits["bytes"]
      BY <2>4, <2>8, <3>1, ParameterFits
    <3>3. LenientRefresh(q["refresh"]) \in 0 .. MaxNumber
      BY <2>2 DEF LenientRefresh
    <3>4. 0 \in 0 .. limits["words"]
      BY <2>3
    <3> QED
      BY <2>6, <2>8, <3>2, <3>3, <3>4
  <2>9. ASSUME NEW n, n = Parameter(q["words"], limits["words"], limits["words"]),
               served' = [bytes |-> 0, words |-> n, refresh |-> r]
        PROVE  PreferencesInv'
    <3>1. n \in 0 .. limits["words"]
      <4>1. limits["words"] \in Nat /\ limits["words"] \in 0 .. limits["words"]
        BY <2>3
      <4> QED
        BY <2>4, <2>9, <4>1, ParameterFits
    <3>2. 0 \in 0 .. limits["bytes"]
      BY <2>3
    <3> QED
      BY <2>5, <2>6, <2>9, <3>1, <3>2
  <2> QED
    BY <1>2, <2>7, <2>8, <2>9 DEF Plain, r
<1>3. CASE Expire
  BY <1>3, <1>a, NothingIsZero
     DEF Expire, PreferencesInv, PreferencesTypeOK, ChosenInJar, ServedAsAsked, Limit
<1>4. CASE Restart
  BY <1>4, <1>a, NothingIsZero
     DEF Restart, PreferencesInv, PreferencesTypeOK, ChosenInJar, ServedAsAsked
<1>5. CASE UNCHANGED preferences
  BY <1>5, <1>a
     DEF preferences, PreferencesInv, PreferencesTypeOK, ChosenInJar, ServedAsAsked, Limit
<1> QED
  BY <1>1, <1>2, <1>3, <1>4, <1>5 DEF PreferencesNext

\* A remembered preference never exceeds the limits of the server that runs,
\* and a choice that fits is kept, through any restarts.
THEOREM ServedAsAskedHolds == PreferencesSpec => []ServedAsAsked
<1>1. PreferencesInv => ServedAsAsked
  BY DEF PreferencesInv
<1> QED
  BY <1>1, InitPreferences, StepPreferences, PTL DEF PreferencesSpec

-----------------------------------------------------------------------------
(***************************************************************************)
(* The parts together: each part's steps are its own, and leave the others *)
(* as they are.                                                            *)
(***************************************************************************)
LEMMA ServingSteps ==
  [Admits \/ Logs \/ Renders \/ Samples \/ Reads]_<<part, vars, log, rendering, peaks, preferences>>
    => /\ [Next]_vars /\ [LogNext]_log /\ [RenderingNext]_rendering
       /\ [PeaksNext]_peaks /\ [PreferencesNext]_preferences
BY DEF Admits, Logs, Renders, Samples, Reads

\* Whatever part of a request is looked at: admission is a pool with reasons
\* for its refusals, a sound is refused only while all slots are at work, the
\* log has what was sent, peaks cover averages, and limits are what was asked.
THEOREM ServingIsSafe ==
  ServingSpec => /\ ImplementsMemoryPool /\ RefusalsAreJustified /\ BusyIsJustified
                 /\ [](LoggedAsSent /\ PeakCoversAverage /\ ServedAsAsked)
<1>1. ServingSpec => Spec /\ LogSpec /\ RenderingSpec /\ PeaksSpec /\ PreferencesSpec
  BY ServingSteps, PTL
     DEF ServingSpec, ServingInit, Spec, LogSpec, RenderingSpec, PeaksSpec, PreferencesSpec
<1> QED
  BY <1>1, ImplementsMemoryPoolHolds, RefusalsAreJustifiedHolds, BusyIsJustifiedHolds,
     LoggedAsSentHolds, PeakCoversAverageHolds, ServedAsAskedHolds, PTL
=============================================================================
