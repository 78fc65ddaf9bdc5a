---------------------- MODULE ConnectionStreamsProofs ----------------------
(***************************************************************************)
(* The private streams keep their promises for any number of readers and   *)
(* requests, any key budget and any number of reseeds.                     *)
(***************************************************************************)
EXTENDS ConnectionStreams, FiniteSetTheorems, TLAPS

ReadPcs == {"seed", "build", "settle", "rekey", "emit"}
HoldingPcs == {"build", "settle", "rekey"}

\* Which data each control point comes with.
Control ==
  /\ \A o \in Owners :
       /\ pc[o] \in HoldingPcs <=> drawn[o] # None
       /\ pc[o] \in {"rekey", "emit"} => child[o] # None
       /\ child[o] # None => ~child[o].closed
  /\ \A r \in Readers :
       /\ pc[r] \in {"build", "settle", "closed"} => child[r] = None
       /\ pc[r] \in ReadPcs => want[r] <= MaxBytesPerKey

TypeInv == TypeOK /\ Control

LEMMA Disjointness ==
  /\ \A r \in Readers : r \in Owners /\ r \in Users /\ r \notin Requests
                        /\ r \notin Raws
  /\ \A q \in Requests : q \in Owners /\ q \in Users /\ q \notin Readers
                         /\ q \notin Raws
  /\ \A w \in Raws : w \in Users /\ w \notin Owners
  /\ \A o \in Owners : o \in Users /\ o # Root /\ (o \in Readers \/ o \in Requests)
BY StreamsAssumption DEF Owners, Users

\* What a draw leaves behind, whoever makes it.
LEMMA DrawFacts ==
  ASSUME TypeInv, NEW u \in Users, NEW n \in Nat, DrawFromRoot(u, n)
  PROVE  /\ root' \in Generator(Nat)
         /\ root'.key = root.key /\ root'.closed = root.closed
         /\ root'.generated = root.generated + n
         /\ drawn' = [drawn EXCEPT ![u] =
                        [root |-> root.key, at |-> root.generated, len |-> n]]
         /\ drawn' \in [Users -> Draw \cup {None}]
         /\ drawn'[u] # None
BY DrbgAssumption, StreamsAssumption
   DEF DrawFromRoot, CanRead, AfterRead, TypeInv, TypeOK, Generator, Draw

LEMMA NewIsGenerator ==
  ASSUME NEW d \in Draw
  PROVE  /\ NewDRBG(d) \in Generator(Draw)
         /\ NewDRBG(d) # None
         /\ NewDRBG(d).key = d /\ NewDRBG(d).generated = 0
         /\ NewDRBG(d).closed = FALSE
<1>1. NewDRBG(d) \in Generator(Draw)
  BY DrbgAssumption DEF NewDRBG, Generator
<1>. QED
  BY <1>1, StreamsAssumption DEF NewDRBG

LEMMA RekeyedIsGenerator ==
  ASSUME NEW g \in Generator(Draw), NEW d \in Draw
  PROVE  /\ AfterReseed(g, d) \in Generator(Draw)
         /\ AfterReseed(g, d) # None
         /\ AfterReseed(g, d).key = d
         /\ AfterReseed(g, d).generated = 0
         /\ AfterReseed(g, d).closed = g.closed
<1>1. AfterReseed(g, d) \in Generator(Draw)
  BY DrbgAssumption DEF AfterReseed, Generator
<1>. QED
  BY <1>1, StreamsAssumption DEF AfterReseed

LEMMA ReadIsGenerator ==
  ASSUME NEW g \in Generator(Draw), NEW n \in Nat, CanRead(g, n)
  PROVE  /\ AfterRead(g, n) \in Generator(Draw)
         /\ AfterRead(g, n) # None
         /\ AfterRead(g, n).key = g.key
         /\ AfterRead(g, n).closed = g.closed
<1>1. g.generated + n \in 0 .. MaxBytesPerKey
  BY DrbgAssumption DEF CanRead, Generator
<1>2. AfterRead(g, n) = [key |-> g.key, generated |-> g.generated + n,
                         closed |-> g.closed]
  BY DEF AfterRead, Generator
<1>3. AfterRead(g, n) \in Generator(Draw)
  BY <1>1, <1>2 DEF Generator
<1>. QED
  BY <1>2, <1>3, StreamsAssumption

\* The counters keep their types in every step that moves them.
LEMMA CountTypes ==
  ASSUME TypeInv, NEW o \in Owners \cup {Root},
         Count!Enter(o) \/ Count!Settle(o) \/ Count!Leave(o) \/ UNCHANGED counters
  PROVE  /\ live' \subseteq Owners \cup {Root}
         /\ pending' \in [Owners \cup {Root} -> Nat]
         /\ peak' \in Nat
<1>1. IsFiniteSet(Owners \cup {Root})
  BY StreamsAssumption, FS_AddElement
<1>2. IsFiniteSet(live)
  BY <1>1, FS_Subset DEF TypeInv, TypeOK
<1>3. Cardinality(live) \in Nat
  BY <1>2, FS_CardinalityType
<1>4. Count!Cardinality(live) = Cardinality(live)
  BY DEF Count!Cardinality, Cardinality
<1>. QED
  BY <1>3, <1>4
     DEF Count!Enter, Count!Settle, Count!Leave, counters, TypeInv, TypeOK

-----------------------------------------------------------------------------
LEMMA TypeInit == Init => TypeInv
BY DrbgAssumption, StreamsAssumption, Disjointness
   DEF Init, TypeInv, TypeOK, Control, NewDRBG, Generator, Count!Init,
       HoldingPcs, ReadPcs

LEMMA TypeNext == TypeInv /\ [Next]_vars => TypeInv'
<1>. SUFFICES ASSUME TypeInv, [Next]_vars PROVE TypeInv'
  OBVIOUS
<1>. USE Disjointness DEF HoldingPcs, ReadPcs
<1>1. CASE Reseed
  <2>1. root' \in Generator(Nat)
    BY <1>1, DrbgAssumption DEF Reseed, AfterReseed, Generator, TypeInv, TypeOK
  <2>. QED
    BY <1>1, <2>1 DEF Reseed, counters, history, TypeInv, TypeOK, Control
<1>2. CASE CloseRoot
  <2>1. root' \in Generator(Nat)
    BY <1>2 DEF CloseRoot, AfterClose, Generator, TypeInv, TypeOK
  <2>2. /\ live' \subseteq Owners \cup {Root}
        /\ pending' \in [Owners \cup {Root} -> Nat]
        /\ peak' \in Nat
    BY <1>2, CountTypes DEF CloseRoot
  <2>. QED
    BY <1>2, <2>1, <2>2 DEF CloseRoot, history, TypeInv, TypeOK, Control
<1>3. ASSUME NEW r \in Readers, NEW n \in ReadSizes, BeginRead(r, n)
      PROVE  TypeInv'
  <2>1. n \in Nat /\ root.key \in Nat
    BY StreamsAssumption DEF TypeInv, TypeOK, Generator
  <2>2. NeedsRefresh(r, n) \/ child[r] # None
    BY DEF NeedsRefresh
  <2>3. TypeOK'
    BY <1>3, <2>1 DEF BeginRead, counters, TypeInv, TypeOK
  <2>4. Control'
    BY <1>3, <2>1, <2>2 DEF BeginRead, counters, TypeInv, TypeOK, Control
  <2>. QED
    BY <2>3, <2>4 DEF TypeInv
<1>4. ASSUME NEW r \in Readers, ConnectionSeed(r)
      PROVE  TypeInv'
  <2>1. SeedLen \in Nat /\ DrawFromRoot(r, SeedLen)
    BY <1>4, DrbgAssumption DEF ConnectionSeed
  <2>2. /\ root' \in Generator(Nat)
        /\ drawn' \in [Users -> Draw \cup {None}]
        /\ drawn'[r] # None
        /\ \A u \in Users : u # r => drawn'[u] = drawn[u]
    BY <2>1, DrawFacts DEF TypeInv, TypeOK
  <2>3. TypeOK'
    BY <1>4, <2>2 DEF ConnectionSeed, counters, history, TypeInv, TypeOK
  <2>4. Control'
    BY <1>4, <2>2 DEF ConnectionSeed, counters, history, TypeInv, TypeOK, Control
  <2>. QED
    BY <2>3, <2>4 DEF TypeInv
<1>5. ASSUME NEW r \in Readers, ConnectionSeedFails(r)
      PROVE  TypeInv'
  BY <1>5 DEF ConnectionSeedFails, counters, TypeInv, TypeOK, Control
<1>6. ASSUME NEW r \in Readers, Rekey(r)
      PROVE  TypeInv'
  <2>1. drawn[r] \in Draw /\ child[r] \in Generator(Draw) /\ ~child[r].closed
    BY <1>6 DEF Rekey, TypeInv, TypeOK, Control
  <2>2. /\ child'[r] \in Generator(Draw) /\ child'[r] # None
        /\ ~child'[r].closed
        /\ \A o \in Owners : o # r => child'[o] = child[o]
        /\ child' \in [Owners -> Generator(Draw) \cup {None}]
    BY <1>6, <2>1, RekeyedIsGenerator DEF Rekey, TypeInv, TypeOK
  <2>3. TypeOK'
    BY <1>6, <2>2 DEF Rekey, counters, history, TypeInv, TypeOK
  <2>4. Control'
    BY <1>6, <2>2 DEF Rekey, counters, history, TypeInv, TypeOK, Control
  <2>. QED
    BY <2>3, <2>4 DEF TypeInv
<1>7. ASSUME NEW r \in Readers, Emit(r)
      PROVE  TypeInv'
  <2>1. child[r] \in Generator(Draw) /\ want[r] \in Nat /\ ~child[r].closed
        /\ child[r].key.root \in Nat
    BY <1>7 DEF Emit, TypeInv, TypeOK, Control, Generator, Draw
  <2>2. /\ child'[r] \in Generator(Draw) /\ child'[r] # None
        /\ ~child'[r].closed
        /\ \A o \in Owners : o # r => child'[o] = child[o]
        /\ child' \in [Owners -> Generator(Draw) \cup {None}]
    BY <1>7, <2>1, ReadIsGenerator DEF Emit, TypeInv, TypeOK, Control
  <2>3. TypeOK'
    BY <1>7, <2>1, <2>2 DEF Emit, counters, TypeInv, TypeOK
  <2>4. Control'
    BY <1>7, <2>2 DEF Emit, counters, TypeInv, TypeOK, Control
  <2>. QED
    BY <2>3, <2>4 DEF TypeInv
<1>8. ASSUME NEW r \in Readers, CloseReader(r)
      PROVE  TypeInv'
  <2>1. /\ live' \subseteq Owners \cup {Root}
        /\ pending' \in [Owners \cup {Root} -> Nat]
        /\ peak' \in Nat
    BY <1>8, CountTypes DEF CloseReader
  <2>. QED
    BY <1>8, <2>1 DEF CloseReader, history, TypeInv, TypeOK, Control
<1>9. ASSUME NEW r \in Readers, NewConnectionReader(r)
      PROVE  TypeInv'
  BY <1>9 DEF NewConnectionReader, counters, TypeInv, TypeOK, Control
<1>10. ASSUME NEW o \in Owners, Build(o)
       PROVE  TypeInv'
  <2>1. /\ live' \subseteq Owners \cup {Root}
        /\ pending' \in [Owners \cup {Root} -> Nat]
        /\ peak' \in Nat
    BY <1>10, CountTypes DEF Build
  <2>. QED
    BY <1>10, <2>1 DEF Build, history, TypeInv, TypeOK, Control
<1>11. ASSUME NEW o \in Owners, Settle(o)
       PROVE  TypeInv'
  <2>1. /\ live' \subseteq Owners \cup {Root}
        /\ pending' \in [Owners \cup {Root} -> Nat]
        /\ peak' \in Nat
    BY <1>11, CountTypes DEF Settle
  <2>2. drawn[o] \in Draw
    BY <1>11 DEF Settle, TypeInv, TypeOK, Control
  <2>3. /\ child'[o] \in Generator(Draw) /\ child'[o] # None
        /\ ~child'[o].closed
        /\ \A p \in Owners : p # o => child'[p] = child[p]
        /\ child' \in [Owners -> Generator(Draw) \cup {None}]
    BY <1>11, <2>2, NewIsGenerator DEF Settle, TypeInv, TypeOK
  <2>4. TypeOK'
    BY <1>11, <2>1, <2>3 DEF Settle, history, TypeInv, TypeOK
  <2>5. Control'
    BY <1>11, <2>3 DEF Settle, history, TypeInv, TypeOK, Control
  <2>. QED
    BY <2>4, <2>5 DEF TypeInv
<1>12. ASSUME NEW q \in Requests, NewConnectionDRBG(q)
       PROVE  TypeInv'
  <2>1. SeedLen \in Nat /\ DrawFromRoot(q, SeedLen)
    BY <1>12, DrbgAssumption DEF NewConnectionDRBG
  <2>2. /\ root' \in Generator(Nat)
        /\ drawn' \in [Users -> Draw \cup {None}]
        /\ drawn'[q] # None
        /\ \A u \in Users : u # q => drawn'[u] = drawn[u]
    BY <2>1, DrawFacts DEF TypeInv, TypeOK
  <2>3. TypeOK'
    BY <1>12, <2>2 DEF NewConnectionDRBG, counters, history, TypeInv, TypeOK
  <2>4. Control'
    BY <1>12, <2>2
       DEF NewConnectionDRBG, counters, history, TypeInv, TypeOK, Control
  <2>. QED
    BY <2>3, <2>4 DEF TypeInv
<1>13. ASSUME NEW q \in Requests, NEW n \in ReadSizes, ReadChild(q, n)
       PROVE  TypeInv'
  <2>1. child[q] \in Generator(Draw) /\ ~child[q].closed /\ n \in Nat
    BY <1>13, StreamsAssumption DEF ReadChild, TypeInv, TypeOK, Control
  <2>2. /\ child'[q] \in Generator(Draw) /\ child'[q] # None
        /\ ~child'[q].closed
        /\ \A p \in Owners : p # q => child'[p] = child[p]
        /\ child' \in [Owners -> Generator(Draw) \cup {None}]
    BY <1>13, <2>1, ReadIsGenerator DEF ReadChild, TypeInv, TypeOK
  <2>3. TypeOK'
    BY <1>13, <2>2 DEF ReadChild, counters, history, TypeInv, TypeOK
  <2>4. Control'
    BY <1>13, <2>2 DEF ReadChild, counters, history, TypeInv, TypeOK, Control
  <2>. QED
    BY <2>3, <2>4 DEF TypeInv
<1>14. ASSUME NEW q \in Requests, CloseChild(q)
       PROVE  TypeInv'
  <2>1. /\ live' \subseteq Owners \cup {Root}
        /\ pending' \in [Owners \cup {Root} -> Nat]
        /\ peak' \in Nat
    BY <1>14, CountTypes DEF CloseChild
  <2>. QED
    BY <1>14, <2>1 DEF CloseChild, history, TypeInv, TypeOK, Control
<1>15. ASSUME NEW w \in Raws, NEW n \in ReadSizes, ReadRoot(w, n)
       PROVE  TypeInv'
  <2>1. n \in Nat /\ DrawFromRoot(w, n)
    BY <1>15, StreamsAssumption DEF ReadRoot
  <2>2. /\ root' \in Generator(Nat)
        /\ drawn' \in [Users -> Draw \cup {None}]
        /\ \A u \in Users : u # w => drawn'[u] = drawn[u]
    BY <2>1, DrawFacts DEF TypeInv, TypeOK
  <2>. QED
    BY <1>15, <2>2 DEF ReadRoot, counters, history, TypeInv, TypeOK, Control
<1>16. ASSUME NEW w \in Raws, SendChunk(w)
       PROVE  TypeInv'
  BY <1>16 DEF SendChunk, counters, history, TypeInv, TypeOK, Control
<1>17. CASE UNCHANGED vars
  BY <1>17 DEF vars, counters, history, TypeInv, TypeOK, Control
<1>. QED
  BY <1>1, <1>2, <1>3, <1>4, <1>5, <1>6, <1>7, <1>8, <1>9, <1>10, <1>11,
     <1>12, <1>13, <1>14, <1>15, <1>16, <1>17 DEF Next

\* Every variable keeps its type, and every control point its data.
THEOREM TypeInvHolds == Spec => []TypeInv
BY TypeInit, TypeNext, PTL DEF Spec

\* Types, among them that no generator of DRBG.Read and Reseed ever exceeds
\* the budget of its key.
THEOREM TypeOKHolds == Spec => []TypeOK
<1>1. TypeInv => TypeOK
  BY DEF TypeInv
<1>. QED  BY <1>1, TypeInvHolds, PTL

-----------------------------------------------------------------------------
\* Why a label can be trusted and a read is fresh: the seed on its way was
\* drawn no earlier than the read began, and its epoch came with it.
PairInv ==
  /\ epoch = root.key
  /\ \A r \in Readers :
       /\ child[r] # None => label[r] = child[r].key.root
       /\ pc[r] \in ReadPcs <=> since[r] # None
       /\ pc[r] \in ReadPcs => since[r] <= root.key
       /\ pc[r] \in HoldingPcs => /\ fetched[r] = drawn[r].root
                                  /\ since[r] <= drawn[r].root
                                  /\ drawn[r].root <= root.key
       /\ pc[r] = "emit" => /\ since[r] <= child[r].key.root
                            /\ child[r].key.root <= root.key
                            /\ CanRead(child[r], want[r])

LEMMA PairInit == Init => PairInv
BY Disjointness DEF Init, PairInv, NewDRBG, ReadPcs, HoldingPcs

LEMMA PairNext == TypeInv /\ PairInv /\ [Next]_vars => PairInv'
<1>. SUFFICES ASSUME TypeInv, PairInv, [Next]_vars PROVE PairInv'
  OBVIOUS
<1>. USE Disjointness DEF HoldingPcs, ReadPcs
<1>0. /\ root.key \in Nat
      /\ \A r \in Readers :
           /\ drawn[r] # None => drawn[r].root \in Nat
           /\ child[r] # None => /\ child[r] \in Generator(Draw)
                                 /\ child[r].key.root \in Nat
           /\ want[r] \in Nat
  BY DEF TypeInv, TypeOK, Generator, Draw
<1>1. CASE Reseed
  <2>1. root'.key = root.key + 1
    BY <1>1 DEF Reseed, AfterReseed
  <2>2. \A r \in Readers : pc[r] \in ReadPcs => since[r] \in Nat
    BY DEF PairInv, TypeInv, TypeOK
  <2>. QED
    BY <1>0, <1>1, <2>1, <2>2
       DEF Reseed, counters, history, PairInv, TypeInv, TypeOK, Control
<1>2. CASE CloseRoot
  <2>1. root'.key = root.key
    BY <1>2 DEF CloseRoot, AfterClose, TypeInv, TypeOK, Generator
  <2>. QED
    BY <1>2, <2>1 DEF CloseRoot, history, PairInv
<1>3. ASSUME NEW r \in Readers, NEW n \in ReadSizes, BeginRead(r, n)
      PROVE  PairInv'
  <2>1. n \in Nat
    BY StreamsAssumption
  <2>2. NeedsRefresh(r, n) \/ (/\ child[r] # None /\ label[r] = epoch
                               /\ CanRead(child[r], n))
    BY <1>0, <2>1, DrbgAssumption
       DEF NeedsRefresh, CanRead, Generator, TypeInv, Control
  <2>3. \A s \in Readers : s # r => /\ pc'[s] = pc[s] /\ since'[s] = since[s]
                                    /\ want'[s] = want[s]
    BY <1>3 DEF BeginRead, TypeInv, TypeOK
  <2>4. since'[r] = root.key /\ want'[r] = n
    BY <1>3 DEF BeginRead, TypeInv, TypeOK
  <2>5. pc'[r] = IF NeedsRefresh(r, n) THEN "seed" ELSE "emit"
    BY <1>3 DEF BeginRead, TypeInv, TypeOK
  <2>. QED
    BY <1>0, <1>3, <2>2, <2>3, <2>4, <2>5, StreamsAssumption
       DEF BeginRead, counters, PairInv
<1>4. ASSUME NEW r \in Readers, ConnectionSeed(r)
      PROVE  PairInv'
  <2>1. /\ root'.key = root.key
        /\ drawn'[r].root = root.key
        /\ \A s \in Readers : s # r => drawn'[s] = drawn[s]
    BY <1>4, DrawFacts, DrbgAssumption DEF ConnectionSeed, TypeInv, TypeOK
  <2>2. \A s \in Readers : s # r => /\ pc'[s] = pc[s]
                                    /\ fetched'[s] = fetched[s]
    BY <1>4 DEF ConnectionSeed, TypeInv, TypeOK
  <2>3. fetched'[r] = epoch /\ pc'[r] \in {"build", "rekey"}
    BY <1>4 DEF ConnectionSeed, TypeInv, TypeOK
  <2>. QED
    BY <1>0, <1>4, <2>1, <2>2, <2>3
       DEF ConnectionSeed, counters, history, PairInv
<1>5. ASSUME NEW r \in Readers, ConnectionSeedFails(r)
      PROVE  PairInv'
  BY <1>5 DEF ConnectionSeedFails, counters, PairInv, TypeInv, TypeOK
<1>6. ASSUME NEW r \in Readers, Rekey(r)
      PROVE  PairInv'
  <2>1. /\ drawn[r] \in Draw /\ child[r] \in Generator(Draw)
        /\ ~child[r].closed /\ want[r] <= MaxBytesPerKey
    BY <1>6 DEF Rekey, TypeInv, TypeOK, Control
  <2>2. /\ child'[r].key = drawn[r] /\ child'[r].generated = 0
        /\ ~child'[r].closed
    BY <1>6, <2>1, RekeyedIsGenerator DEF Rekey, TypeInv, TypeOK
  <2>3. CanRead(child'[r], want[r])
    BY <1>0, <2>1, <2>2, DrbgAssumption DEF CanRead
  <2>4. \A s \in Readers : s # r => /\ pc'[s] = pc[s] /\ child'[s] = child[s]
                                    /\ label'[s] = label[s]
                                    /\ drawn'[s] = drawn[s]
    BY <1>6 DEF Rekey, TypeInv, TypeOK
  <2>5. pc'[r] = "emit" /\ label'[r] = fetched[r]
    BY <1>6 DEF Rekey, TypeInv, TypeOK
  <2>. QED
    BY <1>0, <1>6, <2>2, <2>3, <2>4, <2>5
       DEF Rekey, counters, history, PairInv
<1>7. ASSUME NEW r \in Readers, Emit(r)
      PROVE  PairInv'
  <2>1. child[r] \in Generator(Draw) /\ child[r] # None
    BY <1>7 DEF Emit, TypeInv, TypeOK, Control
  <2>2. child'[r].key = child[r].key
    BY <1>0, <1>7, <2>1, ReadIsGenerator DEF Emit, TypeInv, TypeOK
  <2>3. \A s \in Readers : s # r => /\ pc'[s] = pc[s] /\ child'[s] = child[s]
                                    /\ since'[s] = since[s]
    BY <1>7 DEF Emit, TypeInv, TypeOK
  <2>4. pc'[r] = "idle" /\ since'[r] = None
    BY <1>7 DEF Emit, TypeInv, TypeOK
  <2>. QED
    BY <1>7, <2>1, <2>2, <2>3, <2>4 DEF Emit, counters, PairInv
<1>8. ASSUME NEW r \in Readers, CloseReader(r)
      PROVE  PairInv'
  BY <1>8 DEF CloseReader, history, PairInv, TypeInv, TypeOK
<1>9. ASSUME NEW r \in Readers, NewConnectionReader(r)
      PROVE  PairInv'
  <2>1. child[r] = None
    BY <1>9 DEF NewConnectionReader, TypeInv, Control
  <2>. QED
    BY <1>9, <2>1 DEF NewConnectionReader, counters, PairInv, TypeInv, TypeOK
<1>10. ASSUME NEW o \in Owners, Build(o)
       PROVE  PairInv'
  BY <1>10 DEF Build, history, PairInv, TypeInv, TypeOK
<1>11. ASSUME NEW o \in Owners, Settle(o)
       PROVE  PairInv'
  <2>1. drawn[o] \in Draw
    BY <1>11 DEF Settle, TypeInv, TypeOK, Control
  <2>2. /\ child'[o].key = drawn[o] /\ child'[o].generated = 0
        /\ ~child'[o].closed
    BY <1>11, <2>1, NewIsGenerator DEF Settle, TypeInv, TypeOK
  <2>3. \A s \in Readers : s # o => /\ pc'[s] = pc[s] /\ child'[s] = child[s]
                                    /\ label'[s] = label[s]
                                    /\ drawn'[s] = drawn[s]
    BY <1>11 DEF Settle, TypeInv, TypeOK
  <2>4. CASE o \in Readers
    <3>1. pc'[o] = "emit" /\ label'[o] = fetched[o]
      BY <1>11, <2>4 DEF Settle, TypeInv, TypeOK
    <3>2. CanRead(child'[o], want[o])
      BY <1>0, <1>11, <2>2, <2>4, DrbgAssumption
         DEF Settle, CanRead, TypeInv, Control
    <3>. QED
      BY <1>0, <1>11, <2>1, <2>2, <2>3, <2>4, <3>1, <3>2
         DEF Settle, history, PairInv
  <2>5. CASE o \notin Readers
    BY <1>11, <2>3, <2>5 DEF Settle, history, PairInv
  <2>. QED
    BY <2>4, <2>5
<1>12. ASSUME NEW q \in Requests, NewConnectionDRBG(q)
       PROVE  PairInv'
  <2>1. root'.key = root.key /\ \A s \in Readers : drawn'[s] = drawn[s]
    BY <1>12, DrawFacts, DrbgAssumption DEF NewConnectionDRBG, TypeInv, TypeOK
  <2>. QED
    BY <1>12, <2>1
       DEF NewConnectionDRBG, counters, history, PairInv, TypeInv, TypeOK
<1>13. ASSUME NEW q \in Requests, NEW n \in ReadSizes, ReadChild(q, n)
       PROVE  PairInv'
  BY <1>13 DEF ReadChild, counters, history, PairInv, TypeInv, TypeOK
<1>14. ASSUME NEW q \in Requests, CloseChild(q)
       PROVE  PairInv'
  BY <1>14 DEF CloseChild, history, PairInv, TypeInv, TypeOK
<1>15. ASSUME NEW w \in Raws, NEW n \in ReadSizes, ReadRoot(w, n)
       PROVE  PairInv'
  <2>1. root'.key = root.key /\ \A s \in Readers : drawn'[s] = drawn[s]
    BY <1>15, DrawFacts, StreamsAssumption DEF ReadRoot, TypeInv, TypeOK
  <2>. QED
    BY <1>15, <2>1 DEF ReadRoot, counters, history, PairInv
<1>16. ASSUME NEW w \in Raws, SendChunk(w)
       PROVE  PairInv'
  BY <1>16 DEF SendChunk, counters, history, PairInv, TypeInv, TypeOK
<1>17. CASE UNCHANGED vars
  BY <1>17 DEF vars, counters, history, PairInv
<1>. QED
  BY <1>1, <1>2, <1>3, <1>4, <1>5, <1>6, <1>7, <1>8, <1>9, <1>10, <1>11,
     <1>12, <1>13, <1>14, <1>15, <1>16, <1>17 DEF Next

LEMMA PairInvHolds == Spec => [](TypeInv /\ PairInv)
BY TypeInit, TypeNext, PairInit, PairNext, PTL DEF Spec

\* The epoch a reader compares with the root's is the one its own stream was
\* seeded under, whatever reseeds happened while the seed was on its way.
THEOREM LabelNamesSeedKeyHolds == Spec => []LabelNamesSeedKey
<1>1. PairInv => LabelNamesSeedKey
  BY DEF PairInv, LabelNamesSeedKey
<1>. QED
  BY <1>1, PairInvHolds, PTL

\* A read that has its stream never runs into that stream's byte limit.
THEOREM OwnBudgetSufficesHolds == Spec => []OwnBudgetSuffices
<1>1. TypeInv /\ PairInv => OwnBudgetSuffices
  BY Disjointness DEF TypeInv, Control, PairInv, OwnBudgetSuffices
<1>. QED
  BY <1>1, PairInvHolds, PTL

-----------------------------------------------------------------------------
\* A draw lies in a part of the root's keystream that is never read again.
Past(x) ==
  \/ x.root < root.key
  \/ /\ x.root = root.key
     /\ x.at + x.len <= root.generated

DisjointInv ==
  /\ \A u \in Users : drawn[u] # None => Past(drawn[u])
  /\ \A o \in Owners : child[o] # None => Past(child[o].key)
  /\ KeystreamNeverReused

\* A new draw starts where every past one has ended.
LEMMA NewDrawIsDisjoint ==
  ASSUME TypeInv, NEW u \in Users, NEW n \in Nat, DrawFromRoot(u, n),
         NEW x \in Draw, Past(x)
  PROVE  /\ Past(x)'
         /\ Past(drawn[u])'
         /\ Disjoint(x, drawn'[u])
         /\ Disjoint(drawn'[u], x)
BY DrawFacts DEF Past, Disjoint, TypeInv, TypeOK, Generator, Draw

\* A step that draws for u, and takes nobody's child.
LEMMA DrawingDisjoint ==
  ASSUME TypeInv, DisjointInv, NEW u \in Users, NEW n \in Nat,
         DrawFromRoot(u, n), UNCHANGED child
  PROVE  DisjointInv'
<1>1. \A v \in Users : v # u => drawn'[v] = drawn[v]
  BY DrawFacts DEF TypeInv, TypeOK
<1>2. \A v \in Users : drawn[v] # None => drawn[v] \in Draw
  BY DEF TypeInv, TypeOK
<1>3. \A o \in Owners : child[o] # None => child[o].key \in Draw
  BY DEF TypeInv, TypeOK, Generator
<1>4. drawn'[u] \in Draw /\ Past(drawn[u])'
  BY DrawFacts DEF Past, TypeInv, TypeOK, Generator, Draw
<1>5. \A v \in Users : v # u /\ drawn[v] # None =>
        /\ Past(drawn[v])' /\ Disjoint(drawn[v], drawn'[u])
        /\ Disjoint(drawn'[u], drawn[v])
  BY <1>1, <1>2, NewDrawIsDisjoint DEF DisjointInv, Past
<1>6. \A o \in Owners : child[o] # None =>
        Past(child[o].key)' /\ Disjoint(drawn'[u], child[o].key)
  BY <1>3, NewDrawIsDisjoint DEF DisjointInv, Past
<1>7. (\A v \in Users : drawn[v] # None => Past(drawn[v]))'
  BY <1>1, <1>4, <1>5
<1>8. (\A o \in Owners : child[o] # None => Past(child[o].key))'
  BY <1>6
<1>9. KeystreamNeverReused'
  BY <1>1, <1>5, <1>6 DEF DisjointInv, KeystreamNeverReused
<1>. QED
  BY <1>7, <1>8, <1>9 DEF DisjointInv

\* A step that hands o's own draw over to its generator.
LEMMA InstallingDisjoint ==
  ASSUME TypeInv, DisjointInv, NEW o \in Owners, drawn[o] # None,
         drawn' = [drawn EXCEPT ![o] = None], UNCHANGED root,
         child'[o].key = drawn[o],
         \A p \in Owners : p # o => child'[p] = child[p]
  PROVE  DisjointInv'
<1>1. drawn'[o] = None /\ \A v \in Users : v # o => drawn'[v] = drawn[v]
  BY Disjointness DEF TypeInv, TypeOK
<1>2. \A x : Past(x)' <=> Past(x)
  BY DEF Past
<1>3. \A x, y \in Draw : Disjoint(x, y) => Disjoint(y, x)
  BY DEF Disjoint, Draw
<1>4. \A v \in Users : drawn[v] # None => drawn[v] \in Draw
  BY DEF TypeInv, TypeOK
<1>5. \A p \in Owners : child[p] # None => child[p].key \in Draw
  BY DEF TypeInv, TypeOK, Generator
<1>6. (\A v \in Users : drawn[v] # None => Past(drawn[v]))'
  BY <1>1, <1>2 DEF DisjointInv
<1>7. (\A p \in Owners : child[p] # None => Past(child[p].key))'
  BY <1>2, Disjointness DEF DisjointInv
<1>8. KeystreamNeverReused'
  BY <1>1, <1>3, <1>4, <1>5, Disjointness
     DEF DisjointInv, KeystreamNeverReused
<1>. QED
  BY <1>6, <1>7, <1>8 DEF DisjointInv

\* A step that draws nothing and gives no generator a new key.
LEMMA KeepingDisjoint ==
  ASSUME TypeInv, DisjointInv,
         \/ root'.key = root.key /\ root'.generated = root.generated
         \/ root'.key = root.key + 1,
         \A u \in Users : drawn'[u] = drawn[u] \/ drawn'[u] = None,
         \A o \in Owners : \/ child'[o] = None
                           \/ child[o] # None /\ child'[o].key = child[o].key
  PROVE  DisjointInv'
<1>0. root.key \in Nat
  BY DEF TypeInv, TypeOK, Generator
<1>1. \A x \in Draw : Past(x) => Past(x)'
  <2>1. CASE root'.key = root.key /\ root'.generated = root.generated
    BY <2>1 DEF Past
  <2>2. CASE root'.key = root.key + 1
    BY <1>0, <2>2 DEF Past, Draw
  <2>. QED
    BY <2>1, <2>2
<1>2. \A v \in Users : drawn[v] # None => drawn[v] \in Draw
  BY DEF TypeInv, TypeOK
<1>3. \A p \in Owners : child[p] # None => child[p].key \in Draw
  BY DEF TypeInv, TypeOK, Generator
<1>4. ASSUME NEW v \in Users, drawn'[v] # None
      PROVE  Past(drawn[v])'
  <2>1. drawn'[v] = drawn[v] /\ drawn[v] \in Draw /\ Past(drawn[v])
    BY <1>2, <1>4 DEF DisjointInv
  <2>. QED
    BY <1>1, <2>1 DEF Past
<1>5. ASSUME NEW p \in Owners, child'[p] # None
      PROVE  Past(child[p].key)'
  <2>1. /\ child'[p].key = child[p].key
        /\ child[p].key \in Draw /\ Past(child[p].key)
    BY <1>3, <1>5 DEF DisjointInv
  <2>. QED
    BY <1>1, <2>1 DEF Past
<1>6. KeystreamNeverReused'
  BY DEF DisjointInv, KeystreamNeverReused
<1>. QED
  BY <1>4, <1>5, <1>6 DEF DisjointInv

LEMMA DisjointInit == Init => DisjointInv
BY Disjointness DEF Init, DisjointInv, KeystreamNeverReused

LEMMA DisjointNext == TypeInv /\ DisjointInv /\ [Next]_vars => DisjointInv'
<1>. SUFFICES ASSUME TypeInv, DisjointInv, [Next]_vars PROVE DisjointInv'
  OBVIOUS
<1>. USE Disjointness
<1>0. root.key \in Nat
  BY DEF TypeInv, TypeOK, Generator
<1>1. CASE Reseed
  BY <1>1, KeepingDisjoint, <1>0 DEF Reseed, AfterReseed
<1>2. CASE CloseRoot
  <2>1. root'.key = root.key /\ root'.generated = root.generated
    BY <1>2 DEF CloseRoot, AfterClose, TypeInv, TypeOK, Generator
  <2>. QED
    BY <1>2, <2>1, KeepingDisjoint DEF CloseRoot
<1>3. ASSUME NEW r \in Readers, NEW n \in ReadSizes, BeginRead(r, n)
      PROVE  DisjointInv'
  BY <1>3, KeepingDisjoint DEF BeginRead
<1>4. ASSUME NEW r \in Readers, ConnectionSeed(r)
      PROVE  DisjointInv'
  BY <1>4, DrawingDisjoint, DrbgAssumption DEF ConnectionSeed
<1>5. ASSUME NEW r \in Readers, ConnectionSeedFails(r)
      PROVE  DisjointInv'
  BY <1>5, KeepingDisjoint DEF ConnectionSeedFails
<1>6. ASSUME NEW r \in Readers, Rekey(r)
      PROVE  DisjointInv'
  <2>1. drawn[r] \in Draw /\ child[r] \in Generator(Draw) /\ drawn[r] # None
    BY <1>6, StreamsAssumption
       DEF Rekey, TypeInv, TypeOK, Control, HoldingPcs
  <2>2. /\ child'[r].key = drawn[r]
        /\ \A p \in Owners : p # r => child'[p] = child[p]
    BY <1>6, <2>1, RekeyedIsGenerator DEF Rekey, TypeInv, TypeOK
  <2>. QED
    BY <1>6, <2>1, <2>2, InstallingDisjoint DEF Rekey
<1>7. ASSUME NEW r \in Readers, Emit(r)
      PROVE  DisjointInv'
  <2>1. child[r] \in Generator(Draw) /\ want[r] \in Nat /\ child[r] # None
    BY <1>7 DEF Emit, TypeInv, TypeOK, Control
  <2>2. \A o \in Owners : \/ child'[o] = child[o]
                          \/ o = r /\ child'[o].key = child[o].key
    BY <1>7, <2>1, ReadIsGenerator DEF Emit, TypeInv, TypeOK
  <2>3. \A o \in Owners : \/ child'[o] = None
                          \/ child[o] # None /\ child'[o].key = child[o].key
    BY <2>1, <2>2
  <2>. QED
    BY <1>7, <2>3, KeepingDisjoint DEF Emit
<1>8. ASSUME NEW r \in Readers, CloseReader(r)
      PROVE  DisjointInv'
  <2>1. \A o \in Owners : child'[o] = None \/ child'[o] = child[o]
    BY <1>8 DEF CloseReader, TypeInv, TypeOK
  <2>. QED
    BY <1>8, <2>1, KeepingDisjoint DEF CloseReader
<1>9. ASSUME NEW r \in Readers, NewConnectionReader(r)
      PROVE  DisjointInv'
  BY <1>9, KeepingDisjoint DEF NewConnectionReader
<1>10. ASSUME NEW o \in Owners, Build(o)
       PROVE  DisjointInv'
  BY <1>10, KeepingDisjoint DEF Build
<1>11. ASSUME NEW o \in Owners, Settle(o)
       PROVE  DisjointInv'
  <2>1. drawn[o] \in Draw /\ drawn[o] # None
    BY <1>11, StreamsAssumption
       DEF Settle, TypeInv, TypeOK, Control, HoldingPcs
  <2>2. /\ child'[o].key = drawn[o]
        /\ \A p \in Owners : p # o => child'[p] = child[p]
    BY <1>11, <2>1, NewIsGenerator DEF Settle, TypeInv, TypeOK
  <2>. QED
    BY <1>11, <2>1, <2>2, InstallingDisjoint DEF Settle
<1>12. ASSUME NEW q \in Requests, NewConnectionDRBG(q)
       PROVE  DisjointInv'
  BY <1>12, DrawingDisjoint, DrbgAssumption DEF NewConnectionDRBG
<1>13. ASSUME NEW q \in Requests, NEW n \in ReadSizes, ReadChild(q, n)
       PROVE  DisjointInv'
  <2>1. child[q] \in Generator(Draw) /\ child[q] # None /\ n \in Nat
    BY <1>13, StreamsAssumption DEF ReadChild, TypeInv, TypeOK
  <2>2. \A o \in Owners : \/ child'[o] = child[o]
                          \/ o = q /\ child'[o].key = child[o].key
    BY <1>13, <2>1, ReadIsGenerator DEF ReadChild, TypeInv, TypeOK
  <2>3. \A o \in Owners : \/ child'[o] = None
                          \/ child[o] # None /\ child'[o].key = child[o].key
    BY <2>1, <2>2
  <2>. QED
    BY <1>13, <2>3, KeepingDisjoint DEF ReadChild
<1>14. ASSUME NEW q \in Requests, CloseChild(q)
       PROVE  DisjointInv'
  <2>1. \A o \in Owners : child'[o] = None \/ child'[o] = child[o]
    BY <1>14 DEF CloseChild, TypeInv, TypeOK
  <2>. QED
    BY <1>14, <2>1, KeepingDisjoint DEF CloseChild
<1>15. ASSUME NEW w \in Raws, NEW n \in ReadSizes, ReadRoot(w, n)
       PROVE  DisjointInv'
  BY <1>15, DrawingDisjoint, StreamsAssumption DEF ReadRoot
<1>16. ASSUME NEW w \in Raws, SendChunk(w)
       PROVE  DisjointInv'
  <2>1. \A u \in Users : drawn'[u] = drawn[u] \/ drawn'[u] = None
    BY <1>16 DEF SendChunk, TypeInv, TypeOK
  <2>. QED
    BY <1>16, <2>1, KeepingDisjoint DEF SendChunk
<1>17. CASE UNCHANGED vars
  BY <1>17, KeepingDisjoint DEF vars
<1>. QED
  BY <1>1, <1>2, <1>3, <1>4, <1>5, <1>6, <1>7, <1>8, <1>9, <1>10, <1>11,
     <1>12, <1>13, <1>14, <1>15, <1>16, <1>17 DEF Next

\* No byte of the root's keystream serves two purposes, whatever is reseeded,
\* closed or failing between the draws.
THEOREM KeystreamNeverReusedHolds == Spec => []KeystreamNeverReused
<1>1. DisjointInv => KeystreamNeverReused
  BY DEF DisjointInv
<1>. QED
  BY <1>1, TypeInit, TypeNext, DisjointInit, DisjointNext, PTL DEF Spec
-----------------------------------------------------------------------------
LEMMA CountedInit == Init => EveryGeneratorIsCounted
BY Disjointness DEF Init, EveryGeneratorIsCounted, Count!Init, NewDRBG

LEMMA CountedNext ==
  TypeInv /\ EveryGeneratorIsCounted /\ [Next]_vars => EveryGeneratorIsCounted'
<1>. SUFFICES ASSUME TypeInv, EveryGeneratorIsCounted, [Next]_vars
              PROVE  EveryGeneratorIsCounted'
  OBVIOUS
<1>. USE Disjointness DEF EveryGeneratorIsCounted
\* What every step that moves no counter has to leave alone.
<1>0. ASSUME root'.closed = root.closed, live' = live,
             \A o \in Owners : (child'[o] # None \/ pc'[o] = "settle")
                               <=> (child[o] # None \/ pc[o] = "settle")
      PROVE  EveryGeneratorIsCounted'
  BY <1>0
<1>1. CASE Reseed
  BY <1>0, <1>1 DEF Reseed, AfterReseed, counters
<1>2. CASE CloseRoot
  <2>1. root'.closed /\ ~root.closed
    BY <1>2 DEF CloseRoot, AfterClose, TypeInv, TypeOK, Generator
  <2>. QED
    BY <1>2, <2>1 DEF CloseRoot, Count!Leave
<1>3. ASSUME NEW r \in Readers, NEW n \in ReadSizes, BeginRead(r, n)
      PROVE  EveryGeneratorIsCounted'
  BY <1>0, <1>3 DEF BeginRead, counters, TypeInv, TypeOK
<1>4. ASSUME NEW r \in Readers, ConnectionSeed(r)
      PROVE  EveryGeneratorIsCounted'
  <2>1. root'.closed = root.closed
    BY <1>4, DrawFacts, DrbgAssumption DEF ConnectionSeed
  <2>. QED
    BY <1>0, <1>4, <2>1 DEF ConnectionSeed, counters, TypeInv, TypeOK
<1>5. ASSUME NEW r \in Readers, ConnectionSeedFails(r)
      PROVE  EveryGeneratorIsCounted'
  BY <1>0, <1>5 DEF ConnectionSeedFails, counters, TypeInv, TypeOK
<1>6. ASSUME NEW r \in Readers, Rekey(r)
      PROVE  EveryGeneratorIsCounted'
  <2>1. drawn[r] \in Draw /\ child[r] \in Generator(Draw) /\ child[r] # None
    BY <1>6 DEF Rekey, TypeInv, TypeOK, Control, HoldingPcs
  <2>2. child'[r] # None
    BY <1>6, <2>1, RekeyedIsGenerator DEF Rekey, TypeInv, TypeOK
  <2>. QED
    BY <1>0, <1>6, <2>1, <2>2 DEF Rekey, counters, TypeInv, TypeOK
<1>7. ASSUME NEW r \in Readers, Emit(r)
      PROVE  EveryGeneratorIsCounted'
  <2>1. child[r] \in Generator(Draw) /\ child[r] # None /\ want[r] \in Nat
    BY <1>7 DEF Emit, TypeInv, TypeOK, Control
  <2>2. child'[r] # None
    BY <1>7, <2>1, ReadIsGenerator DEF Emit, TypeInv, TypeOK
  <2>. QED
    BY <1>0, <1>7, <2>1, <2>2 DEF Emit, counters, TypeInv, TypeOK
<1>8. ASSUME NEW r \in Readers, CloseReader(r)
      PROVE  EveryGeneratorIsCounted'
  BY <1>0, <1>8 DEF CloseReader, counters, Count!Leave, TypeInv, TypeOK
<1>9. ASSUME NEW r \in Readers, NewConnectionReader(r)
      PROVE  EveryGeneratorIsCounted'
  BY <1>0, <1>9 DEF NewConnectionReader, counters, TypeInv, TypeOK
<1>10. ASSUME NEW o \in Owners, Build(o)
       PROVE  EveryGeneratorIsCounted'
  BY <1>10 DEF Build, Count!Enter, TypeInv, TypeOK
<1>11. ASSUME NEW o \in Owners, Settle(o)
       PROVE  EveryGeneratorIsCounted'
  <2>1. drawn[o] \in Draw
    BY <1>11 DEF Settle, TypeInv, TypeOK, Control, HoldingPcs
  <2>2. child'[o] # None
    BY <1>11, <2>1, NewIsGenerator DEF Settle, TypeInv, TypeOK
  <2>. QED
    BY <1>0, <1>11, <2>2 DEF Settle, Count!Settle, TypeInv, TypeOK
<1>12. ASSUME NEW q \in Requests, NewConnectionDRBG(q)
       PROVE  EveryGeneratorIsCounted'
  <2>1. root'.closed = root.closed
    BY <1>12, DrawFacts, DrbgAssumption DEF NewConnectionDRBG
  <2>. QED
    BY <1>0, <1>12, <2>1 DEF NewConnectionDRBG, counters, TypeInv, TypeOK
<1>13. ASSUME NEW q \in Requests, NEW n \in ReadSizes, ReadChild(q, n)
       PROVE  EveryGeneratorIsCounted'
  <2>1. child[q] \in Generator(Draw) /\ n \in Nat
    BY <1>13, StreamsAssumption DEF ReadChild, TypeInv, TypeOK
  <2>2. child'[q] # None
    BY <1>13, <2>1, ReadIsGenerator DEF ReadChild, TypeInv, TypeOK
  <2>. QED
    BY <1>0, <1>13, <2>2 DEF ReadChild, counters, TypeInv, TypeOK
<1>14. ASSUME NEW q \in Requests, CloseChild(q)
       PROVE  EveryGeneratorIsCounted'
  BY <1>14 DEF CloseChild, Count!Leave, TypeInv, TypeOK
<1>15. ASSUME NEW w \in Raws, NEW n \in ReadSizes, ReadRoot(w, n)
       PROVE  EveryGeneratorIsCounted'
  <2>1. root'.closed = root.closed
    BY <1>15, DrawFacts, StreamsAssumption DEF ReadRoot
  <2>. QED
    BY <1>0, <1>15, <2>1 DEF ReadRoot, counters
<1>16. ASSUME NEW w \in Raws, SendChunk(w)
       PROVE  EveryGeneratorIsCounted'
  BY <1>0, <1>16 DEF SendChunk, counters
<1>17. CASE UNCHANGED vars
  BY <1>0, <1>17 DEF vars, counters
<1>. QED
  BY <1>1, <1>2, <1>3, <1>4, <1>5, <1>6, <1>7, <1>8, <1>9, <1>10, <1>11,
     <1>12, <1>13, <1>14, <1>15, <1>16, <1>17 DEF Next

\* The instance gauge counts the generators that exist: closing, failing and
\* replacing connections neither leaks nor releases one twice.
THEOREM EveryGeneratorIsCountedHolds == Spec => []EveryGeneratorIsCounted
BY TypeInit, TypeNext, CountedInit, CountedNext, PTL DEF Spec

-----------------------------------------------------------------------------
LEMMA PromiseInit == Init => Promise!Init
BY DEF Init, Promise!Init, NewDRBG

LEMMA PromiseNext ==
  TypeInv /\ PairInv /\ [Next]_vars => [Promise!Next]_Promise!fsVars
<1>. SUFFICES ASSUME TypeInv, PairInv, [Next]_vars
              PROVE  [Promise!Next]_Promise!fsVars
  OBVIOUS
<1>. USE Disjointness
<1>0. ASSUME root'.key = root.key, since' = since, out' = out
      PROVE  [Promise!Next]_Promise!fsVars
  BY <1>0 DEF Promise!fsVars
<1>1. CASE Reseed
  <2>1. Promise!Advance
    BY <1>1 DEF Reseed, AfterReseed, history, Promise!Advance
  <2>. QED
    BY <2>1 DEF Promise!Next
<1>2. CASE CloseRoot
  <2>1. root'.key = root.key
    BY <1>2 DEF CloseRoot, AfterClose, TypeInv, TypeOK, Generator
  <2>. QED
    BY <1>0, <1>2, <2>1 DEF CloseRoot, history
<1>3. ASSUME NEW r \in Readers, NEW n \in ReadSizes, BeginRead(r, n)
      PROVE  [Promise!Next]_Promise!fsVars
  <2>1. Promise!Begin(r)
    BY <1>3 DEF BeginRead, PairInv, ReadPcs, Promise!Begin
  <2>. QED
    BY <2>1 DEF Promise!Next
<1>4. ASSUME NEW r \in Readers, ConnectionSeed(r)
      PROVE  [Promise!Next]_Promise!fsVars
  <2>1. root'.key = root.key
    BY <1>4, DrawFacts, DrbgAssumption DEF ConnectionSeed
  <2>. QED
    BY <1>0, <1>4, <2>1 DEF ConnectionSeed, history
<1>5. ASSUME NEW r \in Readers, ConnectionSeedFails(r)
      PROVE  [Promise!Next]_Promise!fsVars
  <2>1. Promise!Fail(r)
    BY <1>5 DEF ConnectionSeedFails, PairInv, ReadPcs, Promise!Fail
  <2>. QED
    BY <2>1 DEF Promise!Next
<1>6. ASSUME NEW r \in Readers, Rekey(r)
      PROVE  [Promise!Next]_Promise!fsVars
  BY <1>0, <1>6 DEF Rekey, history
<1>7. ASSUME NEW r \in Readers, Emit(r)
      PROVE  [Promise!Next]_Promise!fsVars
  <2>1. /\ child[r].key.root \in since[r] .. root.key
        /\ since[r] # None
        /\ CanRead(child[r], want[r])
    <3>1. child[r] \in Generator(Draw)
      BY <1>7 DEF Emit, TypeInv, TypeOK, Control
    <3>2. since[r] \in Nat /\ root.key \in Nat
      BY <1>7 DEF Emit, PairInv, ReadPcs, TypeInv, TypeOK, Generator
    <3>. QED
      BY <1>7, <3>1, <3>2 DEF Emit, PairInv, ReadPcs, Generator, Draw
  <2>2. Promise!Deliver(r)
    BY <1>7, <2>1 DEF Emit, Promise!Deliver
  <2>. QED
    BY <2>2 DEF Promise!Next
<1>8. ASSUME NEW r \in Readers, CloseReader(r)
      PROVE  [Promise!Next]_Promise!fsVars
  BY <1>0, <1>8 DEF CloseReader, history
<1>9. ASSUME NEW r \in Readers, NewConnectionReader(r)
      PROVE  [Promise!Next]_Promise!fsVars
  <2>1. Promise!Renew(r)
    BY <1>9 DEF NewConnectionReader, PairInv, ReadPcs, Promise!Renew
  <2>. QED
    BY <2>1 DEF Promise!Next
<1>10. ASSUME NEW o \in Owners, Build(o) \/ Settle(o)
       PROVE  [Promise!Next]_Promise!fsVars
  BY <1>0, <1>10 DEF Build, Settle, history
<1>11. ASSUME NEW q \in Requests, NewConnectionDRBG(q)
       PROVE  [Promise!Next]_Promise!fsVars
  <2>1. root'.key = root.key
    BY <1>11, DrawFacts, DrbgAssumption DEF NewConnectionDRBG
  <2>. QED
    BY <1>0, <1>11, <2>1 DEF NewConnectionDRBG, history
<1>12. ASSUME NEW q \in Requests, NEW n \in ReadSizes, ReadChild(q, n)
       PROVE  [Promise!Next]_Promise!fsVars
  BY <1>0, <1>12 DEF ReadChild, history
<1>13. ASSUME NEW q \in Requests, CloseChild(q)
       PROVE  [Promise!Next]_Promise!fsVars
  BY <1>0, <1>13 DEF CloseChild, history
<1>14. ASSUME NEW w \in Raws, NEW n \in ReadSizes, ReadRoot(w, n)
       PROVE  [Promise!Next]_Promise!fsVars
  <2>1. root'.key = root.key
    BY <1>14, DrawFacts, StreamsAssumption DEF ReadRoot
  <2>. QED
    BY <1>0, <1>14, <2>1 DEF ReadRoot, history
<1>15. ASSUME NEW w \in Raws, SendChunk(w)
       PROVE  [Promise!Next]_Promise!fsVars
  BY <1>0, <1>15 DEF SendChunk, history
<1>16. CASE UNCHANGED vars
  BY <1>0, <1>16 DEF vars, history
<1>. QED
  BY <1>1, <1>2, <1>3, <1>4, <1>5, <1>6, <1>7, <1>8, <1>9, <1>10, <1>11,
     <1>12, <1>13, <1>14, <1>15, <1>16 DEF Next

\* Every read that returns bytes returns them from a stream seeded under a
\* root key no older than the newest one when the read began.
THEOREM ImplementsFreshStreamsHolds == Spec => ImplementsFreshStreams
<1>1. Init => Promise!Init
  BY PromiseInit
<1>. QED
  BY <1>1, PairInvHolds, PromiseNext, PTL
     DEF Spec, ImplementsFreshStreams, Promise!Spec
=============================================================================
