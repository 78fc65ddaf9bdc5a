--------------------------- MODULE GeneratorProofs --------------------------
(***************************************************************************)
(* Generators from their seeds to their counters: every seed is made of    *)
(* bytes of the source, each mixed with CPU samples of its own, for any    *)
(* sizes of seeds and words; and the counters of internal/drbg are exact   *)
(* for any finite number of generators, and implement the high-water mark. *)
(***************************************************************************)
EXTENDS SeedSource, InstanceCount, FiniteSetTheorems, TLAPS

-----------------------------------------------------------------------------
(***************************************************************************)
(* SeedSource                                                              *)
(***************************************************************************)
Byte == [source : Nat, cpu : SUBSET (Nat \X Nat)]

\* How CPU samples may be spread over the bytes of a buffer or seed.
AtMostOne(S) == S = {} \/ \E x : S = {x}
SpreadOnce(s) ==
  \A i, j \in DOMAIN s : AtMostOne(s[i].cpu) /\ (i # j => s[i].cpu \cap s[j].cpu = {})

\* The buffer: what was read lies in it as it was drawn, the rest is clear;
\* and what the mixer has yet to do has no sample, nor has any byte one of the
\* samples to come.
Types ==
  /\ filled \in 0 .. Size /\ drawn \in Nat /\ sampled \in Nat /\ offset \in Nat
  /\ buffer \in [1 .. Size -> Byte]

AsDrawn ==
  /\ filled <= drawn
  /\ \A i \in 1 .. Size : buffer[i].source = IF i <= filled THEN drawn - filled + i ELSE 0

AsMixed ==
  /\ SpreadOnce(buffer)
  /\ \A i \in 1 .. Size :
       /\ i > filled \/ (pc = "mix" /\ i > offset) => buffer[i].cpu = {}
       /\ \A x \in buffer[i].cpu : x[1] <= sampled

GoodSeed == seed = Cleared(0) \/ (DOMAIN seed # {} /\ BytesInPlace /\ SpreadOnce(seed))

\* Which files are open: none before and after an attempt that failed, and the
\* one that was accepted from then on.
Accepted ==
  \/ origin = sourceGoCryptoRand /\ opened = {} /\ devices = {}
  \/ origin # sourceGoCryptoRand /\ opened = {origin} /\ devices = {origin}

Checked ==
  /\ pc \in {"select", "open", "refused"} => opened = {} /\ devices = {}
  /\ pc = "inspect" => opened = {tried} /\ devices \subseteq {tried}
  /\ pc \in {"select", "open", "inspect", "refused"} => drawn = 0
  /\ pc \in {"wrap", "wait"} \cup Reading => Accepted
  /\ drawn > 0 => Accepted
  /\ pc \in {"open", "inspect", "refused"} => tried \in Paths
  /\ path \in Paths \cup {None}

Permitted == StrictMeansStrict /\ Checked

IInv == Types /\ AsDrawn /\ AsMixed /\ GoodSeed /\ Permitted

LEMMA SizeIsPositive == Size \in Nat \ {0}
BY SeedSourceAssumption DEF SeedSourceAssumption, Size

LEMMA ZeroByte == Zero \in Byte /\ Zero.source = 0 /\ Zero.cpu = {}
BY DEF Zero, Byte

\* A clear buffer, from which the next seed is read.
Clear ==
  /\ filled = 0 /\ drawn \in Nat /\ sampled \in Nat /\ offset \in Nat
  /\ buffer = Cleared(Size)

LEMMA ClearIsGood == Clear => Types /\ AsDrawn /\ AsMixed
<1> SUFFICES ASSUME Clear PROVE Types /\ AsDrawn /\ AsMixed
  OBVIOUS
<1> USE DEF Clear
<1>1. \A k \in 1 .. Size : buffer[k] = Zero
  BY DEF Cleared
<1>2. Types
  BY <1>1, SizeIsPositive, ZeroByte DEF Types, Cleared
<1>3. AsDrawn
  BY <1>1, SizeIsPositive, ZeroByte DEF AsDrawn
<1>4. AsMixed
  BY <1>1, <1>2, ZeroByte DEF AsMixed, SpreadOnce, AtMostOne, Types
<1> QED
  BY <1>2, <1>3, <1>4

LEMMA ClearStaysGood == Clear' => (Types /\ AsDrawn /\ AsMixed)'
BY ClearIsGood, PTL

LEMMA InitIInv == Init => IInv
<1> SUFFICES ASSUME Init PROVE IInv
  OBVIOUS
<1>1. Size = RootSeedSize
  BY DEF Init, Size
<1>2. Types /\ AsDrawn /\ AsMixed
  BY <1>1, ClearIsGood DEF Init, Clear
<1>3. GoodSeed /\ Permitted
  BY DEF Init, GoodSeed, Permitted, StrictMeansStrict, Checked, Reading
<1> QED
  BY <1>2, <1>3 DEF IInv

\* Steps that do not touch the seeds.
LEMMA SameSeeds ==
  ASSUME IInv, UNCHANGED <<drawn, sampled, buffer, filled, seed>>,
         \/ UNCHANGED offset \/ (offset \in Nat /\ offset' = filled),
         pc' = "mix" => pc = "mix"
  PROVE  Types' /\ AsDrawn' /\ AsMixed' /\ GoodSeed'
<1>1. Size' = Size
  BY DEF Size
<1>2. Types' /\ AsDrawn' /\ GoodSeed'
  BY <1>1, SizeIsPositive DEF IInv, Types, AsDrawn, GoodSeed, BytesInPlace
<1>3. AsMixed'
  BY <1>1, SizeIsPositive DEF IInv, AsMixed, Types
<1> QED
  BY <1>2, <1>3

\* Once a source was accepted, nothing happens to it.
LEMMA SameSource ==
  ASSUME Permitted, UNCHANGED <<path, require, source>>,
         \/ UNCHANGED <<pc, drawn>>
         \/ pc \in {"wait"} \cup Reading /\ pc' \in {"wait", "ended", "fatal"} \cup Reading
  PROVE  Permitted'
<1>1. UNCHANGED <<path, require, tried, opened, devices, origin>>
  BY DEF source
<1>2. StrictMeansStrict'
  BY <1>1 DEF Permitted, StrictMeansStrict
<1>3. Checked'
  BY <1>1 DEF Permitted, Checked, Accepted, Reading
<1> QED
  BY <1>2, <1>3 DEF Permitted

\* Selecting a source: a strict configuration gives up instead, and a file that
\* is no device is closed before another one is tried.
LEMMA SelectionKeepsIInv ==
  ASSUME IInv, Select \/ Open \/ Inspect \/ FallBack \/ Wrap
  PROVE  IInv'
<1>1. /\ UNCHANGED <<path, require, drawn, sampled, buffer, filled, offset, seed>> /\ pc' # "mix"
  BY DEF Select, Open, Inspect, FallBack, Wrap, AtStart, options, fill
<1>2. StrictMeansStrict'
  BY <1>1 DEF IInv, Permitted, StrictMeansStrict, Select, Open, Inspect, FallBack, Wrap,
          AtStart, source, None
<1>3. Checked'
  <2> USE <1>1 DEF IInv, Permitted, Checked, AtStart, Reading
  <2>1. CASE Select
    BY <2>1 DEF Select, Paths
  <2>2. CASE Open
    BY <2>2 DEF Open
  <2>3. CASE Inspect
    BY <2>3 DEF Inspect, CloseTried, Accepted, Paths, Configured, DefaultCSPRNG, sourceGoCryptoRand
  <2>4. CASE FallBack
    BY <2>4 DEF FallBack, Accepted, Paths
  <2>5. CASE Wrap
    BY <2>5 DEF Wrap, Accepted, source
  <2> QED
    BY <2>1, <2>2, <2>3, <2>4, <2>5
<1> QED
  BY <1>1, <1>2, <1>3, SameSeeds DEF IInv, Permitted

LEMMA SourceReadKeepsIInv ==
  ASSUME IInv, SourceRead
  PROVE  IInv'
<1>1. PICK n \in 0 .. Size - filled :
        /\ buffer' = [i \in DOMAIN buffer |->
                        IF i \in filled + 1 .. filled + n
                        THEN [Zero EXCEPT !.source = drawn + i - filled]
                        ELSE buffer[i]]
        /\ drawn' = drawn + n /\ filled' = filled + n
  BY DEF SourceRead
<1>2. /\ pc' = "mix" /\ offset' = filled
      /\ UNCHANGED <<sampled, seed, require, path, source>> /\ pc \in Reading
  BY DEF SourceRead, InRead, options, Reading
<1>3. Size' = Size /\ Size \in Nat \ {0}
  BY <1>2, SizeIsPositive DEF Size
<1>4. /\ filled \in 0 .. Size /\ drawn \in Nat /\ n \in Nat /\ filled + n <= Size
      /\ buffer \in [1 .. Size -> Byte]
  BY <1>1, <1>3 DEF IInv, Types
<1>5. \A k \in Nat : /\ [Zero EXCEPT !.source = k] \in Byte
                     /\ [Zero EXCEPT !.source = k].source = k
                     /\ [Zero EXCEPT !.source = k].cpu = {}
  BY DEF Zero, Byte
<1>6. \A i \in 1 .. Size :
        IF i \in filled + 1 .. filled + n
        THEN buffer'[i] \in Byte /\ buffer'[i].source = drawn + i - filled /\ buffer'[i].cpu = {}
        ELSE buffer'[i] = buffer[i]
  <2> SUFFICES ASSUME NEW i \in 1 .. Size
               PROVE  IF i \in filled + 1 .. filled + n
                      THEN /\ buffer'[i] \in Byte /\ buffer'[i].source = drawn + i - filled
                           /\ buffer'[i].cpu = {}
                      ELSE buffer'[i] = buffer[i]
    OBVIOUS
  <2>1. DOMAIN buffer = 1 .. Size
    BY <1>4
  <2>2. buffer'[i] = IF i \in filled + 1 .. filled + n
                     THEN [Zero EXCEPT !.source = drawn + i - filled] ELSE buffer[i]
    BY <1>1, <2>1
  <2>3. i \in filled + 1 .. filled + n => drawn + i - filled \in Nat
    BY <1>3, <1>4
  <2>4. CASE i \in filled + 1 .. filled + n
    <3> DEFINE k == drawn + i - filled
    <3>1. k \in Nat /\ buffer'[i] = [Zero EXCEPT !.source = k]
      BY <2>2, <2>3, <2>4
    <3> HIDE DEF k
    <3>2. buffer'[i] \in Byte /\ buffer'[i].source = k /\ buffer'[i].cpu = {}
      BY <1>5, <3>1
    <3> QED
      BY <2>4, <3>2 DEF k
  <2>5. CASE i \notin filled + 1 .. filled + n
    BY <2>2, <2>5
  <2> QED
    BY <2>4, <2>5
<1>7. Types'
  <2>1. \A i \in 1 .. Size : buffer'[i] \in Byte
    BY <1>4, <1>6
  <2> QED
    BY <1>1, <1>2, <1>3, <1>4, <2>1 DEF IInv, Types
<1>8. AsDrawn'
  BY <1>1, <1>3, <1>4, <1>6 DEF IInv, AsDrawn
<1>9. AsMixed'
  <2>1. \A i \in 1 .. Size : buffer'[i].cpu = buffer[i].cpu
    <3>1. \A i \in 1 .. Size : i \in filled + 1 .. filled + n => i > filled
      BY <1>4
    <3>2. \A i \in 1 .. Size : i > filled => buffer[i].cpu = {}
      BY DEF IInv, AsMixed
    <3> QED
      BY <1>6, <3>1, <3>2
  <2>2. SpreadOnce(buffer')
    BY <1>3, <1>4, <1>7, <2>1 DEF IInv, AsMixed, SpreadOnce, Types
  <2>3. \A i \in 1 .. Size : i > filled => buffer'[i].cpu = {}
    BY <2>1 DEF IInv, AsMixed
  <2>4. \A i \in 1 .. Size : i > filled' => i > filled
    BY <1>1, <1>4
  <2>5. \A i \in 1 .. Size : \A x \in buffer'[i].cpu : x[1] <= sampled'
    BY <1>2, <2>1 DEF IInv, AsMixed
  <2> QED
    BY <1>2, <1>3, <2>2, <2>3, <2>4, <2>5 DEF AsMixed
<1>10. GoodSeed' /\ Permitted'
  BY <1>2, SameSource DEF IInv, GoodSeed, BytesInPlace, Reading
<1> QED
  BY <1>7, <1>8, <1>9, <1>10 DEF IInv

\* A sample is added to bytes that have none.
LEMMA MixWordKeepsIInv ==
  ASSUME IInv, MixWord
  PROVE  IInv'
<1> DEFINE InWord(i) == i > offset /\ i <= offset + WordSize /\ i <= filled
           new(i) == <<sampled + 1, i - offset - 1>>
<1>1. /\ buffer' = [i \in DOMAIN buffer |->
                      IF i \in offset + 1 .. offset + WordSize /\ i <= filled
                      THEN AddCPUByte(i) ELSE buffer[i]]
      /\ pc = "mix" /\ sampled' = sampled + 1 /\ offset' = offset + WordSize
      /\ UNCHANGED <<pc, drawn, filled, seed, require, path, source>>
  BY DEF MixWord, InRead, options
<1>2. Size' = Size /\ Size \in Nat \ {0} /\ WordSize \in Nat
  BY <1>1, SizeIsPositive, SeedSourceAssumption DEF Size, SeedSourceAssumption
<1>3. /\ filled \in 0 .. Size /\ offset \in Nat /\ sampled \in Nat
      /\ buffer \in [1 .. Size -> Byte]
  BY DEF IInv, Types
<1>4. \A i \in 1 .. Size :
        buffer'[i] = IF InWord(i) THEN [buffer[i] EXCEPT !.cpu = @ \cup {new(i)}] ELSE buffer[i]
  BY <1>1, <1>2, <1>3 DEF AddCPUByte
<1>5. \A i \in 1 .. Size : InWord(i) => buffer[i].cpu = {} /\ new(i) \in Nat \X Nat
  BY <1>1, <1>3 DEF IInv, AsMixed
<1>6. \A b \in Byte : \A x \in Nat \X Nat :
        /\ [b EXCEPT !.cpu = @ \cup {x}] \in Byte
        /\ [b EXCEPT !.cpu = @ \cup {x}].source = b.source
        /\ [b EXCEPT !.cpu = @ \cup {x}].cpu = b.cpu \cup {x}
  BY DEF Byte
<1>7. \A i \in 1 .. Size :
        /\ buffer'[i] \in Byte /\ buffer'[i].source = buffer[i].source
        /\ buffer'[i].cpu = IF InWord(i) THEN {new(i)} ELSE buffer[i].cpu
  <2> SUFFICES ASSUME NEW i \in 1 .. Size
               PROVE  /\ buffer'[i] \in Byte /\ buffer'[i].source = buffer[i].source
                      /\ buffer'[i].cpu = IF InWord(i) THEN {new(i)} ELSE buffer[i].cpu
    OBVIOUS
  <2>1. buffer[i] \in Byte
    BY <1>3
  <2>2. CASE InWord(i)
    <3>1. buffer[i].cpu = {} /\ new(i) \in Nat \X Nat
      BY <1>5, <2>2
    <3>2. buffer'[i] = [buffer[i] EXCEPT !.cpu = @ \cup {new(i)}]
      BY <1>4, <2>2
    <3> HIDE DEF new, InWord
    <3> QED
      BY <1>6, <2>1, <2>2, <3>1, <3>2
  <2>3. CASE ~InWord(i)
    BY <1>4, <2>1, <2>3
  <2> QED
    BY <2>2, <2>3
<1>8. Types'
  <2>1. buffer' \in [1 .. Size -> Byte]
    <3>1. DOMAIN buffer = 1 .. Size
      BY <1>3
    <3>2. buffer' = [k \in 1 .. Size |-> buffer'[k]]
      BY <1>1, <3>1
    <3> QED
      BY <1>7, <3>2
  <2> QED
    BY <1>1, <1>2, <1>3, <2>1 DEF IInv, Types
<1>9. AsDrawn'
  BY <1>1, <1>2, <1>7 DEF IInv, AsDrawn
<1>10. AsMixed'
  <2>1. \A i, j \in 1 .. Size : i # j => new(i) # new(j)
    BY <1>3
  <2>2. \A i, j \in 1 .. Size : new(j) \notin buffer[i].cpu
    BY <1>3 DEF IInv, AsMixed
  <2>3. \A i \in 1 .. Size : \A x \in buffer'[i].cpu : x[1] <= sampled'
    <3> SUFFICES ASSUME NEW i \in 1 .. Size, NEW x \in buffer'[i].cpu PROVE x[1] <= sampled + 1
      BY <1>1
    <3>1. CASE InWord(i)
      <4>1. x = new(i)
        BY <1>7, <3>1
      <4> QED
        BY <1>3, <4>1
    <3>2. CASE ~InWord(i)
      <4>1. x \in buffer[i].cpu /\ buffer[i].cpu \subseteq Nat \X Nat
        BY <1>3, <1>7, <3>2 DEF Byte
      <4>2. x[1] <= sampled /\ x[1] \in Nat
        BY <4>1 DEF IInv, AsMixed
      <4> QED
        BY <1>3, <4>2
    <3> QED
      BY <3>1, <3>2
  <2>4. \A i \in 1 .. Size : i > filled \/ i > offset + WordSize => ~InWord(i)
    BY <1>2, <1>3
  <2>5. \A i \in 1 .. Size : i > offset + WordSize => i > offset
    BY <1>2, <1>3
  <2>6. \A i \in 1 .. Size : i > filled \/ i > offset + WordSize => buffer'[i].cpu = {}
    BY <1>1, <1>7, <2>4, <2>5 DEF IInv, AsMixed
  <2>7. DOMAIN buffer = 1 .. Size /\ DOMAIN buffer' = 1 .. Size
    BY <1>3, <1>8, <1>2 DEF Types
  <2> HIDE DEF new, InWord
  <2>8. SpreadOnce(buffer')
    <3>1. \A k \in 1 .. Size : AtMostOne(buffer'[k].cpu)
      <4>1. \A k \in 1 .. Size : AtMostOne(buffer[k].cpu)
        BY <2>7 DEF IInv, AsMixed, SpreadOnce
      <4>2. \A x : AtMostOne({x})
        BY DEF AtMostOne
      <4> QED
        BY <1>7, <4>1, <4>2
    <3>2. ASSUME NEW j \in 1 .. Size, NEW k \in 1 .. Size, j # k
          PROVE  buffer'[j].cpu \cap buffer'[k].cpu = {}
      <4>1. buffer[j].cpu \cap buffer[k].cpu = {}
        BY <2>7, <3>2 DEF IInv, AsMixed, SpreadOnce
      <4>2. /\ buffer'[j].cpu = IF InWord(j) THEN {new(j)} ELSE buffer[j].cpu
            /\ buffer'[k].cpu = IF InWord(k) THEN {new(k)} ELSE buffer[k].cpu
        BY <1>7
      <4>3. new(j) # new(k) /\ new(j) \notin buffer[k].cpu /\ new(k) \notin buffer[j].cpu
        BY <2>1, <2>2, <3>2
      <4> QED
        BY <4>1, <4>2, <4>3
    <3> QED
      BY <2>7, <3>1, <3>2 DEF SpreadOnce
  <2> QED
    BY <1>1, <1>2, <2>3, <2>6, <2>8 DEF AsMixed
<1>11. GoodSeed' /\ Permitted'
  BY <1>1, SameSource DEF IInv, GoodSeed, BytesInPlace
<1> QED
  BY <1>8, <1>9, <1>10, <1>11 DEF IInv

\* A buffer that was filled is a seed.
LEMMA FullIsGood ==
  ASSUME IInv, Full
  PROVE  /\ DOMAIN buffer # {} /\ SpreadOnce(buffer) /\ buffer # Cleared(0)
         /\ \A i \in DOMAIN buffer :
              buffer[i].source # 0 /\ buffer[i].source = buffer[1].source + i - 1
<1>1. DOMAIN buffer = 1 .. Size /\ 1 \in 1 .. Size /\ Size \in Nat
  BY SizeIsPositive DEF IInv, Types
<1>2. drawn \in Nat /\ Size <= drawn
  BY DEF IInv, Types, AsDrawn, Full
<1>3. \A i \in 1 .. Size : buffer[i].source = drawn - Size + i
  BY <1>1 DEF IInv, AsDrawn, Full
<1>4. SpreadOnce(buffer)
  BY DEF IInv, AsMixed
<1>5. DOMAIN Cleared(0) = {}
  BY DEF Cleared
<1>6. \A i \in 1 .. Size :
        buffer[i].source # 0 /\ buffer[i].source = buffer[1].source + i - 1
  <2>1. buffer[1].source = drawn - Size + 1
    BY <1>1, <1>3
  <2> QED
    BY <1>1, <1>2, <1>3, <2>1
<1>7. DOMAIN buffer # {} /\ buffer # Cleared(0)
  BY <1>1, <1>5
<1> QED
  BY <1>1, <1>4, <1>6, <1>7

LEMMA UseKeepsIInv ==
  ASSUME IInv, MakeRoot \/ Reseed
  PROVE  IInv'
<1>1. /\ UNCHANGED <<drawn, sampled, path, require, source>>
      /\ pc = "full" /\ pc' \in {"wait", "ended", "fatal"}
  BY DEF MakeRoot, Reseed, Used, options
<1>2. Permitted'
  BY <1>1, SameSource DEF IInv, Reading
<1>3. CASE UNCHANGED <<seed, buffer, filled, offset>>
  BY <1>1, <1>2, <1>3, SameSeeds DEF IInv
<1>4. CASE ~UNCHANGED <<seed, buffer, filled, offset>>
  <2>1. /\ buffer' = Cleared(ReseedSize) /\ filled' = 0 /\ offset' = 0
        /\ (seed' = buffer /\ Full) \/ (seed' = seed /\ seed # Cleared(0))
    BY <1>4 DEF MakeRoot, Reseed, Refilling, fill
  <2>2. GoodSeed' /\ seed' # Cleared(0)
    <3>1. CASE seed' = buffer /\ Full
      BY <3>1, FullIsGood DEF GoodSeed, BytesInPlace
    <3>2. CASE seed' = seed /\ seed # Cleared(0)
      BY <3>2 DEF IInv, GoodSeed, BytesInPlace
    <3> QED
      BY <2>1, <3>1, <3>2
  <2>3. Size' = ReseedSize
    BY <2>2 DEF Size
  <2>4. Clear'
    BY <1>1, <2>1, <2>3 DEF IInv, Types, Clear
  <2>5. (Types /\ AsDrawn /\ AsMixed)'
    BY <2>4, ClearStaysGood
  <2> QED
    BY <1>2, <2>2, <2>5 DEF IInv
<1> QED
  BY <1>3, <1>4

LEMMA NextIInv == IInv /\ [Next]_vars => IInv'
<1> SUFFICES ASSUME IInv, [Next]_vars PROVE IInv'
  OBVIOUS
<1>1. CASE MixFails \/ ReadReturns \/ Tick \/ Cancel \/ UNCHANGED vars
  <2>1. /\ UNCHANGED <<drawn, sampled, buffer, filled, seed, path, require, source>>
        /\ UNCHANGED offset \/ offset' = filled
        /\ pc' = "mix" => pc = "mix"
        /\ UNCHANGED pc \/ (pc \in {"wait", "mix"} /\ pc' \in {"ended", "read", "full"})
    BY <1>1 DEF MixFails, ReadReturns, Tick, Cancel, InRead, vars, options, fill
  <2>2. Permitted'
    BY <2>1, SameSource DEF IInv, Reading
  <2>3. offset \in Nat
    BY DEF IInv, Types
  <2> QED
    BY <2>1, <2>2, <2>3, SameSeeds DEF IInv
<1> QED
  BY <1>1, SelectionKeepsIInv, SourceReadKeepsIInv, MixWordKeepsIInv, UseKeepsIInv DEF Next

\* Seeds are bytes of a source the configuration permits, each in its place
\* and mixed with a CPU byte of its own, for any sizes and whatever fails.
THEOREM SeedsAreSourceBytesHolds == Spec => []SeedsAreSourceBytes
<1>1. Init => IInv
  BY InitIInv
<1>2. IInv /\ [Next]_vars => IInv'
  BY NextIInv
<1>3. IInv => SeedsAreSourceBytes
  <2> SUFFICES ASSUME IInv PROVE SeedsAreSourceBytes
    OBVIOUS
  <2>1. BytesInPlace /\ SpreadOnce(seed)
    BY DEF IInv, GoodSeed, BytesInPlace, SpreadOnce, Cleared
  <2>2. \A S : AtMostOne(S) => Cardinality(S) <= 1
    <3>1. \A x : Cardinality({x}) = 1
      BY FS_Singleton
    <3> QED
      BY <3>1, FS_EmptySet DEF AtMostOne
  <2>3. EachSampleOnce
    BY <2>1, <2>2 DEF SpreadOnce, EachSampleOnce
  <2>4. OnlyCheckedSource
    BY DEF IInv, Permitted, Checked, Accepted, OnlyCheckedSource
  <2> QED
    BY <2>1, <2>3, <2>4 DEF IInv, Permitted, SeedsAreSourceBytes
<1> QED
  BY <1>1, <1>2, <1>3, PTL DEF Spec

-----------------------------------------------------------------------------
(***************************************************************************)
(* InstanceCount                                                           *)
(***************************************************************************)
\* Why the peak is exact at rest: a constructor still on its way to the peak
\* carries the largest count whenever the peak itself does not.
Exact ==
  /\ InstanceTypeOK
  /\ activeDRBG = Cardinality(Counted)
  /\ activeDRBG <= highest
  /\ peakDRBG <= highest
  /\ \A g \in Recording : 0 < mine[g] /\ mine[g] <= highest
  /\ peakDRBG = highest \/ \E g \in Recording : mine[g] = highest
  /\ \A g \in Generators : construction[g] = "swap" => seen[g] < mine[g]

LEMMA CountedIsFinite ==
  IsFiniteSet(Counted) /\ Cardinality(Counted) \in Nat
<1>1. Counted \in SUBSET Generators
  BY DEF Counted
<1>2. IsFiniteSet(Counted)
  BY <1>1, GeneratorsAssumption, FS_Subset
<1>. QED
  BY <1>2, FS_CardinalityType

LEMMA InitExact == InstanceInit => Exact
<1>. SUFFICES ASSUME InstanceInit PROVE Exact
  OBVIOUS
<1>1. Root \in Generators
  BY GeneratorsAssumption
<1>2. InstanceTypeOK
  BY DEF InstanceInit, InstanceTypeOK
<1>3. Counted = {Root}
  BY <1>1 DEF InstanceInit, Counted
<1>4. Cardinality(Counted) = 1
  BY <1>3, FS_Singleton
<1>. QED
  BY <1>2, <1>4 DEF InstanceInit, Exact, Recording

\* Add enters the set of counted generators.
LEMMA AddExact ==
  ASSUME Exact, NEW g \in Generators, Add(g)
  PROVE  Exact'
<1>1. Counted' = Counted \cup {g}
  BY DEF Add, Exact, InstanceTypeOK, Counted
<1>2. g \notin Counted
  BY DEF Add, Counted
<1>3. Cardinality(Counted') = Cardinality(Counted) + 1
  BY <1>1, <1>2, CountedIsFinite, FS_AddElement
<1>4. InstanceTypeOK'
  BY DEF Add, Exact, InstanceTypeOK
<1>5. Recording' = Recording \cup {g}
  BY DEF Add, Exact, InstanceTypeOK, Recording
<1>6. \A h \in Recording : h # g
  BY DEF Add, Recording
<1>7. /\ activeDRBG' <= highest'
      /\ peakDRBG' <= highest'
  BY DEF Add, Exact, InstanceTypeOK
<1>8. \A h \in Recording' : 0 < mine'[h] /\ mine'[h] <= highest'
  BY <1>5, <1>6 DEF Add, Exact, InstanceTypeOK, Recording
<1>9. peakDRBG' = highest' \/ \E h \in Recording' : mine'[h] = highest'
  <2>1. CASE activeDRBG + 1 > highest
    BY <2>1, <1>5 DEF Add, Exact, InstanceTypeOK
  <2>2. CASE ~(activeDRBG + 1 > highest)
    BY <2>2, <1>5, <1>6 DEF Add, Exact, InstanceTypeOK, Recording
  <2>. QED
    BY <2>1, <2>2
<1>10. \A h \in Generators : construction'[h] = "swap" => seen'[h] < mine'[h]
  BY DEF Add, Exact, InstanceTypeOK
<1>. QED
  BY <1>3, <1>4, <1>7, <1>8, <1>9, <1>10 DEF Add, Exact

\* Load and CompareAndSwap leave the counted set alone and may move the peak.
LEMMA ConstructExact ==
  ASSUME Exact, NEW g \in Generators, Construct(g)
  PROVE  Exact'
<1>1. Counted' = Counted /\ activeDRBG' = activeDRBG /\ highest' = highest
      /\ mine' = mine
  BY DEF Construct, Load, CompareAndSwap, Exact, InstanceTypeOK, Counted
<1>2. InstanceTypeOK'
  BY DEF Construct, Load, CompareAndSwap, Exact, InstanceTypeOK
<1>3. Recording' \subseteq Recording /\ g \in Recording
  BY DEF Construct, Load, CompareAndSwap, Exact, InstanceTypeOK, Recording
<1>4. \A h \in Recording : h \in Recording' \/ h = g
  BY DEF Construct, Load, CompareAndSwap, Exact, InstanceTypeOK, Recording
<1>5. \A h \in Generators : construction'[h] = "swap" => seen'[h] < mine'[h]
  BY DEF Construct, Load, CompareAndSwap, Exact, InstanceTypeOK
<1>6. /\ peakDRBG' <= highest
      /\ peakDRBG' = highest \/ \E h \in Recording' : mine[h] = highest
  <2>1. CASE Load(g)
    BY <2>1, <1>3, <1>4 DEF Load, Exact, InstanceTypeOK, Recording
  <2>2. CASE CompareAndSwap(g)
    BY <2>2, <1>3, <1>4 DEF CompareAndSwap, Exact, InstanceTypeOK, Recording
  <2>. QED
    BY <2>1, <2>2 DEF Construct
<1>. QED
  BY <1>1, <1>2, <1>3, <1>5, <1>6 DEF Exact

\* The first Close leaves the counted set, a repeated one changes nothing.
LEMMA CloseExact ==
  ASSUME Exact, NEW g \in Generators, Close(g)
  PROVE  Exact'
<1>1. CASE construction[g] = "live"
  <2>1. construction' = [construction EXCEPT ![g] = "closed"] /\ activeDRBG' = activeDRBG - 1
        /\ UNCHANGED <<peakDRBG, mine, seen, highest>>
    BY <1>1 DEF Close
  <2>2. Counted' = Counted \ {g} /\ g \in Counted
    BY <1>1, <2>1 DEF Exact, InstanceTypeOK, Counted
  <2>3. Cardinality(Counted') = Cardinality(Counted) - 1
    BY <2>2, CountedIsFinite, FS_RemoveElement
  <2>4. Counted # {}
    BY <2>2
  <2>5. Cardinality(Counted) # 0
    BY <2>4, CountedIsFinite, FS_EmptySet
  <2>6. activeDRBG' \in Nat
    BY <2>1, <2>5, CountedIsFinite DEF Exact
  <2>7. InstanceTypeOK'
    BY <2>1, <2>6 DEF Exact, InstanceTypeOK
  <2>8. Recording' = Recording
    BY <1>1, <2>1 DEF Exact, InstanceTypeOK, Recording
  <2>9. \A h \in Generators : construction'[h] = "swap" => seen'[h] < mine'[h]
    BY <2>1 DEF Exact, InstanceTypeOK
  <2>10. activeDRBG' <= highest'
    BY <2>1 DEF Exact, InstanceTypeOK
  <2>. QED
    BY <2>1, <2>3, <2>7, <2>8, <2>9, <2>10 DEF Exact
<1>2. CASE construction[g] # "live"
  BY <1>2 DEF Close, instances, Exact, InstanceTypeOK, Counted, Recording
<1>. QED
  BY <1>1, <1>2

LEMMA ForgetExact ==
  ASSUME Exact, NEW g \in Generators, Forget(g)
  PROVE  Exact'
<1>1. Counted' = Counted /\ Recording' = Recording
  BY DEF Forget, Exact, InstanceTypeOK, Counted, Recording
<1>2. InstanceTypeOK'
  BY DEF Forget, Exact, InstanceTypeOK
<1>3. \A h \in Recording : h # g
  BY DEF Forget, Recording
<1>4. \A h \in Recording : mine'[h] = mine[h]
  BY <1>3 DEF Forget, Exact, InstanceTypeOK, Recording
<1>5. \A h \in Generators : construction'[h] = "swap" => seen'[h] < mine'[h]
  BY DEF Forget, Exact, InstanceTypeOK
<1>. QED
  BY <1>1, <1>2, <1>4, <1>5 DEF Forget, Exact

LEMMA NextExact == Exact /\ [InstanceNext]_instances => Exact'
<1>. SUFFICES ASSUME Exact, [InstanceNext]_instances PROVE Exact'
  OBVIOUS
<1>1. CASE InstanceNext
  BY <1>1, AddExact, ConstructExact, CloseExact, ForgetExact DEF InstanceNext
<1>2. CASE UNCHANGED instances
  BY <1>2 DEF instances, Exact, InstanceTypeOK, Counted, Recording
<1>. QED
  BY <1>1, <1>2

LEMMA ExactHolds == InstanceSpec => []Exact
BY InitExact, NextExact, PTL DEF InstanceSpec

-----------------------------------------------------------------------------
(***************************************************************************)
(* Results                                                                 *)
(***************************************************************************)

\* activeDRBG is always the number of generators holding a count, for any
\* number of concurrent constructors and repeated Close calls.
THEOREM CountIsExactHolds == InstanceSpec => []CountIsExact
<1>1. Exact => CountIsExact
  BY DEF Exact, CountIsExact
<1>. QED
  BY <1>1, ExactHolds, PTL

\* peakDRBG never exceeds the largest count and equals it whenever no
\* constructor is between its Add and the end of its swap loop.
THEOREM PeakIsExactHolds == InstanceSpec => []PeakIsExact
<1>1. Exact => PeakIsExact
  BY DEF Exact, PeakIsExact
<1>. QED
  BY <1>1, ExactHolds, PTL

\* Both together: no update is lost, and no generator releases its count twice.
THEOREM CountAndPeakAreExactHolds == InstanceSpec => []CountAndPeakAreExact
BY CountIsExactHolds, PeakIsExactHolds, PTL DEF CountAndPeakAreExact

\* The swap loop implements an indivisible update of the high-water mark.
THEOREM ImplementsHighWaterMarkHolds == InstanceSpec => ImplementsHighWaterMark
<1>. DEFINE abs == [g \in Generators |-> IF g \in Recording THEN mine[g] ELSE 0]
<1>1. InstanceInit => HighWater!Init
  <2>. SUFFICES ASSUME InstanceInit PROVE HighWater!Init
    OBVIOUS
  <2>1. Counted = {Root} /\ Recording = {}
    BY GeneratorsAssumption DEF InstanceInit, Counted, Recording
  <2>. QED
    BY <2>1 DEF InstanceInit, HighWater!Init
<1>2. Exact /\ [InstanceNext]_instances => [HighWater!Next]_(HighWater!hwVars)
  <2>. SUFFICES ASSUME Exact, [InstanceNext]_instances
                PROVE  [HighWater!Next]_(HighWater!hwVars)
    OBVIOUS
  <2>1. ASSUME NEW g \in Generators, Add(g)
        PROVE  HighWater!Enter(g)
    <3>1. Counted' = Counted \cup {g} /\ g \notin Counted
      BY <2>1 DEF Add, Exact, InstanceTypeOK, Counted
    <3>2. Recording' = Recording \cup {g} /\ g \notin Recording
      BY <2>1 DEF Add, Exact, InstanceTypeOK, Recording
    <3>3. abs' = [abs EXCEPT ![g] = Cardinality(Counted) + 1]
      BY <2>1, <3>2 DEF Add, Exact, InstanceTypeOK
    <3>. QED
      BY <2>1, <3>1, <3>3 DEF Add, HighWater!Enter, HighWater!Cardinality, Cardinality
  <2>2. ASSUME NEW g \in Generators, Construct(g)
        PROVE  HighWater!Settle(g) \/ UNCHANGED HighWater!hwVars
    <3>1. Counted' = Counted /\ mine' = mine /\ g \in Recording
      BY <2>2 DEF Construct, Load, CompareAndSwap, Exact, InstanceTypeOK, Counted, Recording
    <3>2. mine[g] # 0 /\ abs[g] = mine[g]
      BY <3>1 DEF Exact, InstanceTypeOK
    <3>3. CASE construction'[g] = "live"
      <4>1. Recording' = Recording \ {g}
        BY <2>2, <3>3 DEF Construct, Load, CompareAndSwap, Exact, InstanceTypeOK, Recording
      <4>2. abs' = [abs EXCEPT ![g] = 0]
        BY <3>1, <4>1
      <4>3. peakDRBG' = IF mine[g] > peakDRBG THEN mine[g] ELSE peakDRBG
        BY <2>2, <3>3 DEF Construct, Load, CompareAndSwap, Exact, InstanceTypeOK
      <4>. QED
        BY <3>1, <3>2, <4>2, <4>3 DEF HighWater!Settle
    <3>4. CASE construction'[g] # "live"
      <4>1. Recording' = Recording /\ peakDRBG' = peakDRBG
        BY <2>2, <3>4 DEF Construct, Load, CompareAndSwap, Exact, InstanceTypeOK, Recording
      <4>. QED
        BY <3>1, <4>1 DEF HighWater!hwVars
    <3>. QED
      BY <3>3, <3>4
  <2>3. ASSUME NEW g \in Generators, Close(g)
        PROVE  HighWater!Leave(g) \/ UNCHANGED HighWater!hwVars
    <3>1. CASE construction[g] = "live"
      <4>1. Counted' = Counted \ {g} /\ g \in Counted
        BY <2>3, <3>1 DEF Close, Exact, InstanceTypeOK, Counted
      <4>2. Recording' = Recording /\ g \notin Recording
        BY <2>3, <3>1 DEF Close, Exact, InstanceTypeOK, Recording
      <4>3. UNCHANGED <<peakDRBG, mine>>
        BY <2>3, <3>1 DEF Close
      <4>. QED
        BY <4>1, <4>2, <4>3 DEF HighWater!Leave
    <3>2. CASE construction[g] # "live"
      BY <2>3, <3>2 DEF Close, instances, HighWater!hwVars, Counted, Recording
    <3>. QED
      BY <3>1, <3>2
  <2>4. ASSUME NEW g \in Generators, Forget(g)
        PROVE  UNCHANGED HighWater!hwVars
    <3>1. Counted' = Counted /\ Recording' = Recording /\ g \notin Recording
      BY <2>4 DEF Forget, Exact, InstanceTypeOK, Counted, Recording
    <3>2. \A h \in Recording : mine'[h] = mine[h]
      BY <2>4, <3>1 DEF Forget, Exact, InstanceTypeOK, Recording
    <3>3. abs' = abs
      BY <3>1, <3>2
    <3>. QED
      BY <2>4, <3>1, <3>3 DEF Forget, HighWater!hwVars
  <2>5. CASE UNCHANGED instances
    BY <2>5 DEF instances, HighWater!hwVars, Counted, Recording
  <2>. QED
    BY <2>1, <2>2, <2>3, <2>4, <2>5 DEF InstanceNext, HighWater!Next
<1>. QED
  BY <1>1, <1>2, ExactHolds, PTL DEF InstanceSpec, ImplementsHighWaterMark, HighWater!Spec
=============================================================================
