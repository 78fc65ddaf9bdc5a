--------------------------- MODULE ReseedingProofs -------------------------
(***************************************************************************)
(* Proofs about Reseeding, for any number of generators, interval and age  *)
(* limit, and about ReseedTiming, for any number of generators whose reads *)
(* fit into three intervals.                                               *)
(***************************************************************************)
EXTENDS ReseedTiming, TLAPS

InRound == {"next", "read", "failed", "got", "install"}

\* What the buffer holds at each place of the loop.
SeedFollowsPc == pc \in {"got", "install"} => seed = "fresh"

\* Inside a round, the generators whose turn is over are accounted for.
BehindIsSettled ==
  pc \in InRound => \A g \in Generators : g < i => g \in served \/ lastError[g]

\* Before the first round every generator counts as reseeded: it was created.
StartsSettled == pc = "start" => served = Generators

IInv ==
  TypeOK /\ SeedFollowsPc /\ BehindIsSettled /\ NobodyLeftOut /\ StartsSettled

LEMMA InitIInv == Init => IInv
<1> USE ReseedingAssumption DEF ReseedingAssumption
<1> SUFFICES ASSUME Init PROVE IInv
  OBVIOUS
<1>1. TypeOK
  <2>1. /\ epoch \in [Generators -> {0, 1}]
        /\ lastError \in [Generators -> BOOLEAN]
        /\ age \in [Generators -> 0..(MaxAge + 1)]
        /\ i \in 1..(N + 1) /\ timer \in 1..Interval
    BY DEF Init
  <2> QED
    BY <2>1, Zenon DEF Init, TypeOK, Pcs
<1>2. SeedFollowsPc /\ BehindIsSettled /\ NobodyLeftOut /\ StartsSettled
  BY DEF Init, SeedFollowsPc, BehindIsSettled, NobodyLeftOut, StartsSettled, InRound
<1> QED
  BY <1>1, <1>2 DEF IInv

\* Every step keeps the types.
LEMMA NextTypeOK == ASSUME TypeOK, [Next]_vars PROVE TypeOK'
<1> USE ReseedingAssumption DEF ReseedingAssumption, TypeOK, Pcs, Generators, UnlessCancelled
<1>1. CASE Start
  BY <1>1 DEF Start, clock, world
<1>2. CASE TakeTick
  <2>1. i' \in 1..(N + 1) /\ pc' = "next" /\ served' \in SUBSET Generators
    BY <1>2 DEF TakeTick
  <2> QED
    BY <1>2, <2>1, Zenon DEF TakeTick, world
<1>9. CASE TakeDone \/ NextGenerator
  BY <1>9 DEF TakeDone, NextGenerator, generator, clock, world
<1>3. CASE ReadFull \/ Failed \/ Got
  BY <1>3 DEF ReadFull, Failed, Got, generator, clock, world
<1>4. CASE Install
  BY <1>4 DEF Install, clock, world
<1>5. CASE InstallRefused
  BY <1>5 DEF InstallRefused, clock, world
<1>6. CASE Pass
  <2>1. age' \in [Generators -> 0..(MaxAge + 1)]
    BY <1>6 DEF Pass
  <2>2. timer' \in 1..Interval
    BY <1>6 DEF Pass, clock
  <2>3. tick' \in BOOLEAN
    BY <1>6, Zenon DEF Pass, clock
  <2> QED
    BY <1>6, <2>1, <2>2, <2>3, Zenon DEF Pass, loop, generator, world
<1>7. CASE SourceTurns \/ Cancel \/ CloseGenerators
  BY <1>7 DEF SourceTurns, Cancel, CloseGenerators, loop, generator, clock
<1>8. CASE UNCHANGED vars
  BY <1>8 DEF vars, loop, generator, clock, world
<1> QED
  BY <1>1, <1>2, <1>3, <1>4, <1>5, <1>6, <1>7, <1>8, <1>9 DEF Next, Work

LEMMA NextIInv == ASSUME IInv, [Next]_vars PROVE IInv'
<1> USE ReseedingAssumption
    DEF ReseedingAssumption, SeedFollowsPc, BehindIsSettled, NobodyLeftOut, StartsSettled, InRound,
        UnlessCancelled, Generators
<1>t. TypeOK /\ TypeOK'
  BY NextTypeOK DEF IInv
<1>i. /\ i \in 1..(N + 1) /\ N \in Nat
      /\ pc \in {"read", "failed", "got", "install"} => i <= N
  BY <1>t DEF TypeOK, Pcs
<1>e. lastError \in [Generators -> BOOLEAN] /\ lastError' \in [Generators -> BOOLEAN]
  BY <1>t DEF TypeOK
<1>p. SeedFollowsPc /\ BehindIsSettled /\ NobodyLeftOut /\ StartsSettled
  BY DEF IInv
<1> SUFFICES SeedFollowsPc' /\ BehindIsSettled' /\ NobodyLeftOut' /\ StartsSettled'
  BY <1>t DEF IInv
<1>1. CASE Start
  BY <1>1, <1>p DEF Start
<1>2. CASE TakeTick \/ TakeDone
  BY <1>2, <1>p, <1>i DEF TakeTick, TakeDone, generator
<1>3. CASE NextGenerator
  <2>1. CASE i > N /\ pc' = "wait"
    BY <1>3, <2>1, <1>p, <1>i DEF NextGenerator, generator
  <2>2. CASE i <= N /\ UnlessCancelled("read")
    BY <1>3, <2>2, <1>p, <1>i DEF NextGenerator, generator
  <2> QED
    BY <1>3, <2>1, <2>2 DEF NextGenerator
<1>4. CASE ReadFull
  BY <1>4, <1>p DEF ReadFull, generator
<1>5. CASE Failed
  <2>1. pc' = "exited" \/ (pc' = "wait" /\ ~cancelled)
    BY <1>5 DEF Failed
  <2>2. ~cancelled => \A g \in Generators : g \in served' \/ lastError'[g]
    <3> SUFFICES ASSUME ~cancelled, NEW g \in Generators
                 PROVE  g \in served' \/ lastError'[g]
      OBVIOUS
    <3>1. lastError'[g] = (lastError[g] \/ g >= i) /\ served' = served
      BY <1>5 DEF Failed
    <3>2. g >= i \/ g < i
      BY <1>i
    <3>3. g < i => g \in served \/ lastError[g]
      BY <1>5, <1>p DEF Failed
    <3> QED
      BY <3>1, <3>2, <3>3
  <2> QED
    BY <2>1, <2>2
<1>6. CASE Got
  BY <1>6, <1>p DEF Got, generator
<1>7. CASE Install \/ InstallRefused
  <2>1. pc = "install" /\ pc' = "next" /\ i' = i + 1 /\ i \in Generators
    BY <1>7, <1>i DEF Install, InstallRefused
  <2>2. ASSUME NEW g \in Generators, g < i' PROVE g \in served' \/ lastError'[g]
    <3>1. CASE g = i
      BY <1>7, <3>1, <1>e DEF Install, InstallRefused, TypeOK
    <3>2. CASE g # i
      <4>1. g < i
        BY <2>1, <2>2, <3>2, <1>i
      <4>2. g \in served \/ lastError[g]
        BY <4>1, <2>1, <1>p
      <4>3. lastError'[g] = lastError[g]
        BY <1>7, <3>2, <1>e DEF Install, InstallRefused
      <4> QED
        BY <4>2, <4>3, <1>7 DEF Install, InstallRefused
    <3> QED
      BY <3>1, <3>2
  <2> QED
    BY <2>1, <2>2
<1>8. CASE Pass \/ SourceTurns \/ Cancel \/ CloseGenerators \/ UNCHANGED vars
  BY <1>8, <1>p DEF Pass, SourceTurns, Cancel, CloseGenerators, vars, loop, generator
<1> QED
  BY <1>1, <1>2, <1>3, <1>4, <1>5, <1>6, <1>7, <1>8 DEF Next, Work

\* Every round of reseedLoop has served, or marked, the generators before i.
THEOREM IInvHolds == Spec => []IInv
<1>1. Init => IInv
  BY InitIInv
<1>2. IInv /\ [Next]_vars => IInv'
  BY NextIInv
<1> QED
  BY <1>1, <1>2, PTL DEF Spec

\* Types, for any number of generators.
THEOREM TypeOKHolds == Spec => []TypeOK
<1>1. IInv => TypeOK
  BY DEF IInv
<1> QED
  BY <1>1, IInvHolds, PTL

\* A finished round has reseeded or marked every generator: a read that fails
\* half way through reseedLoop's inner loop leaves none looking healthy.
THEOREM NobodyLeftOutHolds == Spec => []NobodyLeftOut
<1>1. IInv => NobodyLeftOut
  BY DEF IInv
<1> QED
  BY <1>1, IInvHolds, PTL

\* Reseed is only ever given a complete read, and each one only once.
THEOREM OnlyFreshSeedsHolds == Spec => OnlyFreshSeeds
<1> DEFINE Fresh == \A g \in Generators :
             epoch'[g] # epoch[g] => seed = "fresh" /\ seed' = "clear"
<1>1. ASSUME IInv, Next PROVE Fresh
  <2>1. CASE Install
    BY <1>1, <2>1 DEF Install, IInv, SeedFollowsPc
  <2>2. CASE ~Install
    <3>1. epoch' = epoch
      BY <1>1, <2>2 DEF Next, Work, Start, TakeTick, TakeDone, NextGenerator, ReadFull,
         Failed, Got, InstallRefused, Pass, SourceTurns, Cancel, CloseGenerators, generator
    <3> QED
      BY <3>1
  <2> QED
    BY <2>1, <2>2
<1>2. IInv /\ [Next]_vars => [Fresh]_vars
  BY <1>1
<1> QED
  BY <1>2, IInvHolds, PTL DEF Spec, OnlyFreshSeeds

\* Readiness comes back only with a new key.
THEOREM StaysDegradedHolds == Spec => StaysDegraded
<1> DEFINE Stays == \A g \in Generators :
             ~Ready(g) /\ Ready(g)' => epoch'[g] # epoch[g]
<1>1. ASSUME IInv, Next, NEW g \in Generators, ~Ready(g), epoch'[g] = epoch[g]
      PROVE  ~Ready(g)'
  <2>t. /\ age \in [Generators -> 0..(MaxAge + 1)]
        /\ epoch \in [Generators -> {0, 1}]
        /\ lastError \in [Generators -> BOOLEAN]
        /\ MaxAge \in Nat
    BY <1>1, ReseedingAssumption DEF ReseedingAssumption, IInv, TypeOK
  <2>1. CASE Install
    <3>1. g # i
      BY <1>1, <2>1, <2>t DEF Install
    <3>2. age'[g] = age[g] /\ lastError'[g] = lastError[g]
      BY <2>1, <3>1, <2>t DEF Install
    <3> QED
      BY <1>1, <3>2 DEF Ready
  <2>2. CASE ~Install
    <3>1. lastError[g] => lastError'[g]
      BY <1>1, <2>2, <2>t DEF Next, Work, Start, TakeTick, TakeDone, NextGenerator, ReadFull,
         Failed, Got, InstallRefused, Pass, SourceTurns, Cancel, CloseGenerators, generator
    <3>2. age[g] <= age'[g]
      <4>1. CASE Pass
        BY <4>1, <2>t DEF Pass
      <4>2. CASE ~Pass
        <5>1. age' = age
          BY <1>1, <2>2, <4>2 DEF Next, Work, Start, TakeTick, TakeDone, NextGenerator,
             ReadFull, Failed, Got, InstallRefused, SourceTurns, Cancel, CloseGenerators
        <5> QED
          BY <5>1, <2>t
      <4> QED
        BY <4>1, <4>2
    <3>3. age'[g] \in Nat
      BY <1>1, <2>t, ReseedingAssumption, NextTypeOK DEF ReseedingAssumption, IInv, TypeOK
    <3> QED
      BY <1>1, <3>1, <3>2, <3>3, <2>t DEF Ready
  <2> QED
    BY <2>1, <2>2
<1>2. IInv /\ [Next]_vars => [Stays]_vars
  BY <1>1
<1> QED
  BY <1>2, IInvHolds, PTL DEF Spec, StaysDegraded

-----------------------------------------------------------------------------
(***************************************************************************)
(* A loop that keeps up                                                    *)
(***************************************************************************)
\* How long n reads may take.
Reads(n) == n * ReadTime

LEMMA ReadsAddUp ==
  /\ Reads(0) = 0
  /\ \A n \in Nat : Reads(n) \in Nat /\ Reads(n + 1) = Reads(n) + ReadTime
  /\ \A m, n \in Nat : m <= n => Reads(m) <= Reads(n)
<1>1. ReadTime \in Nat
  BY TimingAssumption DEF TimingAssumption
<1>2. \A n \in Nat : Reads(n) \in Nat /\ Reads(n + 1) = Reads(n) + ReadTime
  BY <1>1 DEF Reads
<1>3. ASSUME NEW m \in Nat, NEW n \in Nat, m <= n PROVE Reads(m) <= Reads(n)
  <2>1. PICK d \in Nat : n = m + d
    <3>1. n - m \in Nat /\ n = m + (n - m)
      BY <1>3
    <3> QED
      BY <3>1
  <2>2. Reads(n) = Reads(m) + Reads(d)
    BY <1>1, <2>1 DEF Reads
  <2> QED
    BY <1>2, <2>2
<1> QED
  BY <1>1, <1>2, <1>3 DEF Reads

\* Reads that ended since a generator was reseeded, or since the tick that
\* came at most an interval after the round in which it was.
Lag(g) == IF g < i THEN i - 1 - g ELSE N - g + i - 1
Waited(g) == IF g < i THEN 0 ELSE Interval
Spent == CASE pc = "next" -> 0 [] pc = "read" -> elapsed [] OTHER -> ReadTime

\* No generator is older than the reads that separate it from its seed, and
\* the interval waited between two rounds, allow.
Young ==
  /\ pc = "start" => \A g \in Generators : age[g] = 0
  /\ pc = "wait" /\ ~tick =>
       \A g \in Generators : age[g] + timer <= Interval + Reads(N - g)
  /\ pc = "wait" /\ tick => \A g \in Generators : age[g] <= Interval + Reads(N - g)
  /\ pc \in InRound =>
       \A g \in Generators : age[g] <= Waited(g) + Reads(Lag(g)) + Spent

KeepsUp ==
  /\ source = "ok" /\ pc # "failed"
  /\ elapsed \in 0 .. ReadTime /\ (closed => cancelled)
  /\ ~cancelled /\ pc # "exited" => Young /\ \A g \in Generators : ~lastError[g]

LEMMA LagGrows ==
  ASSUME TypeOK, NEW g \in Generators, pc \in InRound
  PROVE  /\ Lag(g) \in Nat /\ Waited(g) \in Nat
         /\ i <= N => Lag(g) + 1 <= N
         /\ i' = i + 1 /\ g # i => Lag(g)' = Lag(g) + 1 /\ Waited(g)' = Waited(g)
         /\ i = N + 1 => Lag(g) = N - g /\ Waited(g) = 0
<1>1. N \in Nat /\ Interval \in Nat /\ i \in 1 .. N + 1 /\ g \in 1 .. N
  BY ReseedingAssumption DEF ReseedingAssumption, TypeOK, Generators
<1> QED
  BY <1>1 DEF Lag, Waited

LEMMA InitKeepsUp == TimedInit => KeepsUp
<1> SUFFICES ASSUME TimedInit PROVE KeepsUp
  OBVIOUS
<1>1. elapsed \in 0 .. ReadTime
  BY TimingAssumption DEF TimingAssumption, TimedInit
<1> QED
  BY <1>1 DEF TimedInit, Init, KeepsUp, Young, InRound

\* A step of the loop, which takes no time of its own but what a read took.
LEMMA WorkKeepsYoung ==
  ASSUME TypeOK, KeepsUp, Work, ~cancelled', pc' # "exited"
  PROVE  Young' \/ elapsed' # 0
<1> SUFFICES ASSUME elapsed' = 0 PROVE Young'
  OBVIOUS
<1>n. N \in Nat /\ Interval \in Nat /\ ReadTime \in Nat /\ i \in 1 .. N + 1
  BY ReseedingAssumption, TimingAssumption DEF ReseedingAssumption, TimingAssumption, TypeOK
<1>w. ~cancelled /\ UNCHANGED <<timer, cancelled>>
  BY DEF Work, Start, TakeTick, TakeDone, NextGenerator, ReadFull, Failed, Got, Install,
         InstallRefused, clock, world
<1>a. age \in [Generators -> Nat] /\ age' \in [Generators -> Nat] /\ timer \in 1 .. Interval
  <2>1. age \in [Generators -> Nat] /\ timer \in 1 .. Interval
    BY ReseedingAssumption DEF ReseedingAssumption, TypeOK
  <2>2. age' = age \/ age' = [age EXCEPT ![i] = 0]
    BY DEF Work, Start, TakeTick, TakeDone, NextGenerator, ReadFull, Failed, Got, Install,
           InstallRefused
  <2> QED
    BY <2>1, <2>2
<1>r. \A g \in Generators : N - g \in Nat /\ Reads(N - g) \in Nat
  <2>1. \A g \in Generators : N - g \in Nat
    BY <1>n DEF Generators
  <2> QED
    BY <2>1, ReadsAddUp
<1>1. CASE Start
  <2>1. pc = "start" /\ pc' = "wait" /\ UNCHANGED <<age, timer, tick>>
    BY <1>1 DEF Start, clock
  <2>2. \A g \in Generators : age'[g] = 0
    BY <1>w, <2>1 DEF KeepsUp, Young
  <2> QED
    BY <1>n, <1>a, <1>r, <2>1, <2>2 DEF Young, InRound
<1>2. CASE TakeTick
  <2>1. pc = "wait" /\ tick /\ pc' = "next" /\ i' = 1 /\ UNCHANGED age
    BY <1>2 DEF TakeTick
  <2>2. \A g \in Generators : age[g] <= Interval + Reads(N - g)
    BY <1>w, <2>1 DEF KeepsUp, Young
  <2>3. \A g \in Generators : Lag(g)' = N - g /\ Waited(g)' = Interval
    BY <1>n, <2>1 DEF Lag, Waited, Generators
  <2>4. Spent' = 0
    BY <2>1 DEF Spent
  <2> QED
    BY <1>n, <1>a, <1>r, <2>1, <2>2, <2>3, <2>4 DEF Young, InRound
<1>3. CASE TakeDone \/ Failed \/ InstallRefused
  BY <1>3, <1>w DEF TakeDone, Failed, InstallRefused, KeepsUp
<1>4. CASE NextGenerator
  <2>1. /\ pc = "next" /\ UNCHANGED <<i, age, timer, tick>>
        /\ \/ i = N + 1 /\ pc' = "wait"
           \/ i <= N /\ pc' = "read"
    BY <1>4, <1>w, <1>n DEF NextGenerator, UnlessCancelled, clock
  <2>2. \A g \in Generators : age[g] <= Waited(g) + Reads(Lag(g))
    <3>1. Spent = 0
      BY <2>1 DEF Spent
    <3>2. \A g \in Generators : Lag(g) \in Nat /\ Waited(g) \in Nat
      BY <2>1, LagGrows DEF InRound
    <3> QED
      BY <1>w, <2>1, <3>1, <3>2, ReadsAddUp DEF KeepsUp, Young, InRound
  <2>3. CASE i = N + 1 /\ pc' = "wait"
    <3>1. \A g \in Generators : Lag(g) = N - g /\ Waited(g) = 0
      BY <2>1, <2>3, LagGrows DEF InRound
    <3>2. \A g \in Generators : age[g] <= Reads(N - g)
      BY <1>r, <2>2, <3>1
    <3> QED
      BY <1>n, <1>a, <1>r, <2>1, <2>3, <3>2 DEF Young, InRound
  <2>4. CASE i <= N /\ pc' = "read"
    <3>1. \A g \in Generators : Lag(g)' = Lag(g) /\ Waited(g)' = Waited(g)
      BY <2>1 DEF Lag, Waited
    <3>2. Spent' = 0
      BY <2>4 DEF Spent
    <3>3. \A g \in Generators : Reads(Lag(g)) \in Nat /\ Waited(g) \in Nat
      BY <2>1, LagGrows, ReadsAddUp DEF InRound
    <3> QED
      BY <1>a, <2>1, <2>2, <2>4, <3>1, <3>2, <3>3 DEF Young, InRound
  <2> QED
    BY <2>1, <2>3, <2>4
<1>5. CASE ReadFull \/ Got
  <2>1. /\ pc \in {"read", "got"} /\ pc' \in {"got", "install"} /\ UNCHANGED <<i, age>>
    BY <1>5, <1>w DEF ReadFull, Got, KeepsUp, UnlessCancelled
  <2>2. Spent \in Nat /\ Spent <= ReadTime /\ Spent' = ReadTime
    BY <1>n, <2>1 DEF Spent, KeepsUp
  <2>3. \A g \in Generators :
          Lag(g)' = Lag(g) /\ Waited(g)' = Waited(g) /\ Lag(g) \in Nat /\ Waited(g) \in Nat
    BY <2>1, LagGrows DEF InRound, Lag, Waited
  <2>4. \A g \in Generators : age[g] <= Waited(g) + Reads(Lag(g)) + Spent
    BY <1>w, <2>1 DEF KeepsUp, Young, InRound
  <2>5. \A g \in Generators : age'[g] <= Waited(g)' + Reads(Lag(g)') + Spent'
    <3>1. \A g \in Generators : Reads(Lag(g)) \in Nat
      BY <2>3, ReadsAddUp
    <3> QED
      BY <1>n, <1>a, <2>1, <2>2, <2>3, <2>4, <3>1
  <2> QED
    BY <2>1, <2>5 DEF Young, InRound
<1>6. CASE Install
  <2>1. /\ pc = "install" /\ pc' = "next" /\ i' = i + 1 /\ age' = [age EXCEPT ![i] = 0]
    BY <1>6 DEF Install
  <2>2. Spent = ReadTime /\ Spent' = 0
    BY <2>1 DEF Spent
  <2>3. \A g \in Generators : Lag(g) \in Nat /\ Waited(g) \in Nat
    BY <2>1, LagGrows DEF InRound
  <2>4. \A g \in Generators : age[g] <= Waited(g) + Reads(Lag(g)) + ReadTime
    BY <1>w, <2>1, <2>2 DEF KeepsUp, Young, InRound
  <2>5. ASSUME NEW g \in Generators PROVE age'[g] <= Waited(g)' + Reads(Lag(g)') + Spent'
    <3>1. CASE g = i
      <4>1. Lag(g)' = 0 /\ Waited(g)' = 0 /\ age'[g] = 0
        BY <1>n, <1>a, <2>1, <3>1 DEF Lag, Waited, Generators
      <4> QED
        BY <2>2, <4>1, ReadsAddUp
    <3>2. CASE g # i
      <4>1. Lag(g)' = Lag(g) + 1 /\ Waited(g)' = Waited(g) /\ age'[g] = age[g]
        BY <1>a, <2>1, <3>2, LagGrows DEF InRound
      <4>2. Reads(Lag(g) + 1) = Reads(Lag(g)) + ReadTime /\ Reads(Lag(g)) \in Nat
        BY <2>3, ReadsAddUp
      <4> QED
        BY <1>n, <1>a, <2>2, <2>3, <2>4, <4>1, <4>2
    <3> QED
      BY <3>1, <3>2
  <2> QED
    BY <2>1, <2>5 DEF Young, InRound
<1> QED
  BY <1>1, <1>2, <1>3, <1>4, <1>5, <1>6 DEF Work

LEMMA PassKeepsYoung ==
  ASSUME TypeOK, KeepsUp, Pass, Unhurried, ~cancelled, pc # "exited",
         elapsed' = IF pc = "read" THEN elapsed + 1 ELSE elapsed
  PROVE  Young' /\ elapsed' \in 0 .. ReadTime
<1>n. N \in Nat /\ Interval \in Nat /\ ReadTime \in Nat /\ i \in 1 .. N + 1
  BY ReseedingAssumption, TimingAssumption DEF ReseedingAssumption, TimingAssumption, TypeOK
<1>y. Young /\ elapsed \in 0 .. ReadTime
  BY DEF KeepsUp
<1>a. /\ age \in [Generators -> Nat] /\ age' \in [Generators -> Nat]
      /\ \A g \in Generators : age'[g] <= age[g] + 1
      /\ timer \in 1 .. Interval
  <2>1. age \in [Generators -> Nat] /\ MaxAge \in Nat /\ timer \in 1 .. Interval
    BY ReseedingAssumption DEF ReseedingAssumption, TypeOK
  <2> QED
    BY <2>1 DEF Pass
<1>r. \A g \in Generators : N - g \in Nat /\ Reads(N - g) \in Nat
  <2>1. \A g \in Generators : N - g \in Nat
    BY <1>n DEF Generators
  <2> QED
    BY <2>1, ReadsAddUp
<1>1. CASE pc = "wait" /\ ~tick
  <2>1. \A g \in Generators : age[g] + timer <= Interval + Reads(N - g)
    BY <1>1, <1>y DEF Young
  <2>2. pc' = "wait" /\ elapsed' = elapsed
    BY <1>1 DEF Pass, loop
  <2>3. CASE timer = 1 /\ tick'
    <3>1. \A g \in Generators : age'[g] <= Interval + Reads(N - g)
      BY <1>n, <1>a, <1>r, <2>1, <2>3
    <3> QED
      BY <1>y, <2>2, <2>3, <3>1 DEF Young, InRound
  <2>4. CASE timer > 1 /\ timer' = timer - 1 /\ ~tick'
    <3>1. \A g \in Generators : age'[g] + timer' <= Interval + Reads(N - g)
      BY <1>n, <1>a, <1>r, <2>1, <2>4
    <3> QED
      BY <1>y, <2>2, <2>4, <3>1 DEF Young, InRound
  <2> QED
    BY <1>1, <2>3, <2>4 DEF Pass, Ticking
<1>2. CASE pc = "read" /\ elapsed < ReadTime
  <2>1. pc' = "read" /\ i' = i /\ elapsed' = elapsed + 1
    BY <1>2 DEF Pass, loop
  <2>2. Spent = elapsed /\ Spent' = elapsed + 1
    BY <1>2, <2>1 DEF Spent
  <2>3. \A g \in Generators : Reads(Lag(g)) \in Nat /\ Waited(g) \in Nat
    BY <1>2, LagGrows, ReadsAddUp DEF InRound
  <2>4. \A g \in Generators : age[g] <= Waited(g) + Reads(Lag(g)) + elapsed
    BY <1>2, <1>y, <2>2 DEF Young, InRound
  <2>5. \A g \in Generators : Lag(g)' = Lag(g) /\ Waited(g)' = Waited(g)
    BY <2>1 DEF Lag, Waited
  <2>6. \A g \in Generators : age'[g] <= Waited(g)' + Reads(Lag(g)') + Spent'
    BY <1>n, <1>a, <1>y, <2>2, <2>3, <2>4, <2>5
  <2> QED
    BY <1>n, <1>2, <1>y, <2>1, <2>6 DEF Young, InRound
<1> QED
  BY <1>1, <1>2 DEF Unhurried

LEMMA StepKeepsUp == ASSUME TypeOK, KeepsUp, [TimedNext]_timedVars PROVE KeepsUp'
<1>n. ReadTime \in Nat /\ elapsed \in 0 .. ReadTime /\ source = "ok" /\ (closed => cancelled)
  BY TimingAssumption DEF TimingAssumption, KeepsUp
<1>1. CASE Work /\ elapsed' = 0
  <2>1. UNCHANGED <<source, cancelled, closed>> /\ pc' # "failed"
    BY <1>1, <1>n DEF Work, Start, TakeTick, TakeDone, NextGenerator, ReadFull, Failed, Got,
           Install, InstallRefused, UnlessCancelled, world, KeepsUp
  <2>2. ~cancelled' /\ pc' # "exited" => Young'
    BY <1>1, WorkKeepsYoung
  <2>3. ~cancelled' /\ pc' # "exited" => \A g \in Generators : ~lastError'[g]
    <3> SUFFICES ASSUME ~cancelled', pc' # "exited" PROVE \A g \in Generators : ~lastError'[g]
      OBVIOUS
    <3>1. ~cancelled /\ ~closed /\ pc # "exited" /\ pc # "failed"
      BY <1>1, <1>n, <2>1 DEF Work, Start, TakeTick, TakeDone, NextGenerator, ReadFull, Failed,
             Got, Install, InstallRefused, KeepsUp
    <3>2. \A g \in Generators : ~lastError[g]
      BY <3>1 DEF KeepsUp
    <3>3. lastError' = lastError \/ lastError' = [lastError EXCEPT ![i] = FALSE]
      BY <1>1, <3>1 DEF Work, Start, TakeTick, TakeDone, NextGenerator, ReadFull, Failed,
             Got, Install, InstallRefused, generator
    <3>4. lastError \in [Generators -> BOOLEAN]
      BY DEF TypeOK
    <3> QED
      BY <3>2, <3>3, <3>4
  <2>4. elapsed' \in 0 .. ReadTime
    BY <1>1, <1>n
  <2> QED
    BY <1>n, <2>1, <2>2, <2>3, <2>4 DEF KeepsUp
<1>2. CASE Pass /\ Unhurried /\ elapsed' = IF pc = "read" THEN elapsed + 1 ELSE elapsed
  <2>1. UNCHANGED <<pc, lastError, source, cancelled, closed>>
    BY <1>2 DEF Pass, loop, generator, world
  <2>2. elapsed' \in 0 .. ReadTime
    BY <1>2, <1>n DEF Unhurried
  <2>3. ~cancelled' /\ pc' # "exited" => Young'
    BY <1>2, <2>1, PassKeepsYoung
  <2> QED
    BY <2>1, <2>2, <2>3 DEF KeepsUp
<1>3. CASE (Cancel \/ CloseGenerators) /\ UNCHANGED elapsed
  <2>1. cancelled' /\ UNCHANGED <<pc, source, elapsed>>
    <3>1. CASE Cancel
      BY <1>3, <3>1 DEF Cancel, loop
    <3>2. CASE CloseGenerators
      BY <1>3, <3>2 DEF CloseGenerators, loop
    <3> QED
      BY <1>3, <3>1, <3>2
  <2> QED
    BY <1>n, <2>1 DEF KeepsUp
<1>4. CASE UNCHANGED timedVars
  BY <1>4 DEF timedVars, vars, loop, generator, clock, world, KeepsUp, Young, Lag, Waited, Spent
<1> QED
  BY <1>1, <1>2, <1>3, <1>4 DEF TimedNext

\* On a machine that keeps up, a source that works never makes the service
\* look stale, whatever ticks a read drops: with the default age limit, if the
\* reads of a round fit into three intervals.  (main passes one generator.)
THEOREM HealthyStaysReadyHolds ==
  ASSUME MaxAge = DefaultMaxAge, N * ReadTime <= 3 * Interval
  PROVE  TimedSpec => []HealthyStaysReady
<1>n. N \in Nat \ {0} /\ Interval \in Nat /\ ReadTime \in Nat /\ Second \in Nat
  BY ReseedingAssumption, TimingAssumption DEF ReseedingAssumption, TimingAssumption
<1>m. MaxAge >= Interval + Reads(N)
  BY <1>n DEF DefaultMaxAge, Reads
<1>1. TimedInit => IInv /\ KeepsUp
  BY InitIInv, InitKeepsUp DEF TimedInit
<1>2. IInv /\ KeepsUp /\ [TimedNext]_timedVars => IInv' /\ KeepsUp'
  <2>1. [TimedNext]_timedVars => [Next]_vars
    BY DEF TimedNext, Next, timedVars
  <2> QED
    BY <2>1, NextIInv, StepKeepsUp DEF IInv
<1>3. IInv /\ KeepsUp => HealthyStaysReady
  <2> SUFFICES ASSUME TypeOK, KeepsUp, ~cancelled, pc # "exited", NEW g \in Generators
               PROVE  Ready(g)
    BY DEF IInv, HealthyStaysReady
  <2>1. Young /\ ~lastError[g] /\ age[g] \in Nat /\ elapsed \in 0 .. ReadTime
    BY ReseedingAssumption DEF ReseedingAssumption, KeepsUp, TypeOK
  <2>2. N - g \in Nat /\ N \in Nat /\ N - g <= N
    BY <1>n DEF Generators
  <2>3. Reads(N - g) \in Nat /\ Reads(N) \in Nat /\ Reads(N - g) <= Reads(N)
    BY <2>2, ReadsAddUp
  <2>4. CASE pc = "start"
    BY <1>n, <1>m, <2>1, <2>3, <2>4, ReseedingAssumption DEF ReseedingAssumption, Young, Ready
  <2>5. CASE pc = "wait"
    <3>1. timer \in Nat
      BY ReseedingAssumption DEF ReseedingAssumption, TypeOK
    <3>2. age[g] <= Interval + Reads(N - g)
      BY <1>n, <2>1, <2>3, <2>5, <3>1 DEF Young
    <3> QED
      BY <1>n, <1>m, <2>1, <2>3, <3>2, ReseedingAssumption DEF ReseedingAssumption, Ready
  <2>6. CASE pc \in InRound
    <3>1. age[g] <= Waited(g) + Reads(Lag(g)) + Spent
      BY <2>1, <2>6 DEF Young
    <3>2. Lag(g) \in Nat /\ Waited(g) \in Nat /\ Waited(g) <= Interval
      BY <1>n, <2>6, LagGrows DEF Waited
    <3>3. CASE i = N + 1
      <4>1. pc = "next" /\ Spent = 0
        BY <1>n, <2>6, <3>3 DEF TypeOK, InRound, Spent
      <4>2. Lag(g) = N - g
        BY <2>6, <3>3, LagGrows
      <4> QED
        BY <1>n, <1>m, <2>1, <2>3, <3>1, <3>2, <4>1, <4>2, ReseedingAssumption
           DEF ReseedingAssumption, Ready
    <3>4. CASE i # N + 1
      <4>1. Lag(g) + 1 <= N
        BY <1>n, <2>6, <3>4, LagGrows DEF TypeOK
      <4>2. Spent \in Nat /\ Spent <= ReadTime
        BY <1>n, <2>1 DEF Spent
      <4>3. Reads(Lag(g)) + ReadTime <= Reads(N) /\ Reads(Lag(g)) \in Nat
        BY <2>2, <3>2, <4>1, ReadsAddUp
      <4> QED
        BY <1>n, <1>m, <2>1, <2>3, <3>1, <3>2, <4>2, <4>3, ReseedingAssumption
           DEF ReseedingAssumption, Ready
    <3> QED
      BY <3>3, <3>4
  <2> QED
    BY <2>1, <2>4, <2>5, <2>6 DEF TypeOK, Pcs, KeepsUp, InRound
<1> QED
  BY <1>1, <1>2, <1>3, PTL DEF TimedSpec
=============================================================================
