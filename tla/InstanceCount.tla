--------------------------- MODULE InstanceCount ---------------------------
(***************************************************************************)
(* The process-wide counters activeDRBG and peakDRBG of internal/drbg.     *)
(* They are atomics outside every generator's mutex: constructors running  *)
(* in different goroutines add to the count and then raise the peak in a   *)
(* load / compare-and-swap loop, and Close subtracts.                      *)
(***************************************************************************)
EXTENDS Naturals, FiniteSets

CONSTANTS
  Generators,   \* generator values alive at one time; a child's slot is reused
  Root          \* the root generator, constructed before anything can run

ASSUME GeneratorsAssumption == IsFiniteSet(Generators) /\ Root \in Generators

VARIABLES
  activeDRBG,    \* atomic.Int64
  peakDRBG,      \* atomic.Int64
  construction,  \* where each generator's constructor is: "none", "load", "swap";
                 \* "live" once it returned, "closed" after Close
  mine,          \* local variable active of the constructor: what Add(1) returned
  seen,          \* local variable peak of the constructor: what Load() returned
  highest        \* history: the largest value activeDRBG ever had

instances == <<activeDRBG, peakDRBG, construction, mine, seen, highest>>

\* Generators whose Add(1) happened and whose Add(-1) did not (field counted).
Counted == {g \in Generators : construction[g] \in {"load", "swap", "live"}}

\* Constructors between Add(1) and the end of the loop that records it.
Recording == {g \in Generators : construction[g] \in {"load", "swap"}}

InstanceTypeOK ==
  /\ activeDRBG \in Nat
  /\ peakDRBG \in Nat
  /\ highest \in Nat
  /\ construction \in [Generators -> {"none", "load", "swap", "live", "closed"}]
  /\ mine \in [Generators -> Nat]
  /\ seen \in [Generators -> Nat]

InstanceInit ==
  /\ activeDRBG = 1
  /\ peakDRBG = 1
  /\ highest = 1
  /\ construction = [g \in Generators |-> IF g = Root THEN "live" ELSE "none"]
  /\ mine = [g \in Generators |-> 0]
  /\ seen = [g \in Generators |-> 0]

\* active := activeDRBG.Add(1)
Add(g) ==
  /\ construction[g] = "none"
  /\ activeDRBG' = activeDRBG + 1
  /\ mine' = [mine EXCEPT ![g] = activeDRBG + 1]
  /\ construction' = [construction EXCEPT ![g] = "load"]
  /\ highest' = IF activeDRBG + 1 > highest THEN activeDRBG + 1 ELSE highest
  /\ UNCHANGED <<peakDRBG, seen>>

\* peak := peakDRBG.Load(); if active <= peak { break }
Load(g) ==
  /\ construction[g] = "load"
  /\ seen' = [seen EXCEPT ![g] = peakDRBG]
  /\ construction' = [construction EXCEPT ![g] = IF mine[g] <= peakDRBG THEN "live" ELSE "swap"]
  /\ UNCHANGED <<activeDRBG, peakDRBG, mine, highest>>

\* Mutant: the peak is stored, whatever happened to it since the load.
SwapBlindly(g) ==
  /\ construction[g] = "swap"
  /\ peakDRBG' = mine[g]
  /\ construction' = [construction EXCEPT ![g] = "live"]
  /\ UNCHANGED <<activeDRBG, mine, seen, highest>>

\* if peakDRBG.CompareAndSwap(peak, active) { break }
CompareAndSwap(g) ==
  /\ construction[g] = "swap"
  /\ \/ /\ peakDRBG = seen[g]
        /\ peakDRBG' = mine[g]
        /\ construction' = [construction EXCEPT ![g] = "live"]
     \/ /\ peakDRBG # seen[g]
        /\ construction' = [construction EXCEPT ![g] = "load"]
        /\ UNCHANGED peakDRBG
  /\ UNCHANGED <<activeDRBG, mine, seen, highest>>

\* Mutant: a repeated call releases the count once more.
CloseReleasesTwice(g) ==
  /\ construction[g] \in {"live", "closed"}
  /\ construction' = [construction EXCEPT ![g] = "closed"]
  /\ activeDRBG' = activeDRBG - 1
  /\ UNCHANGED <<peakDRBG, mine, seen, highest>>

\* Close: the first call releases the count, a repeated one returns at once.
Close(g) ==
  \/ /\ construction[g] = "live"
     /\ construction' = [construction EXCEPT ![g] = "closed"]
     /\ activeDRBG' = activeDRBG - 1
     /\ UNCHANGED <<peakDRBG, mine, seen, highest>>
  \/ /\ construction[g] = "closed"
     /\ UNCHANGED instances

\* The owner drops a closed child: its slot can hold a new one.
Forget(g) ==
  /\ construction[g] = "closed"
  /\ g # Root
  /\ construction' = [construction EXCEPT ![g] = "none"]
  /\ mine' = [mine EXCEPT ![g] = 0]
  /\ seen' = [seen EXCEPT ![g] = 0]
  /\ UNCHANGED <<activeDRBG, peakDRBG, highest>>

Construct(g) == Load(g) \/ CompareAndSwap(g)

InstanceNext ==
  \E g \in Generators : Add(g) \/ Construct(g) \/ Close(g) \/ Forget(g)

InstanceSpec == InstanceInit /\ [][InstanceNext]_instances

-----------------------------------------------------------------------------
(***************************************************************************)
(* Properties                                                              *)
(***************************************************************************)

\* However constructors and Close interleave, and however often Close is
\* called, the count is the number of generators that hold one.
CountIsExact == activeDRBG = Cardinality(Counted)

\* The peak never claims more instances than ever existed together, and once
\* no constructor is between its Add and the end of its loop it is exactly the
\* largest count there ever was: no compare-and-swap loses an update.
PeakIsExact ==
  /\ peakDRBG <= highest
  /\ Recording = {} => peakDRBG = highest

\* Both counters, under any interleaving of constructors, closes that are
\* repeated and slots that are reused: a count released twice for one generator
\* is as wrong as a peak that a late constructor overwrites.
CountAndPeakAreExact == CountIsExact /\ PeakIsExact

\* The atomics implement the abstract counter: the swap loop settles the value
\* its Add returned in one indivisible step, retries being invisible.
HighWater == INSTANCE HighWaterMark WITH
  Members <- Generators,
  First   <- Root,
  live    <- Counted,
  pending <- [g \in Generators |-> IF g \in Recording THEN mine[g] ELSE 0],
  peak    <- peakDRBG

ImplementsHighWaterMark == HighWater!Spec
=============================================================================
