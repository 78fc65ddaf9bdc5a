--------------------------- MODULE ShutdownProofs --------------------------
(***************************************************************************)
(* What a Shutdown reports is true, for any servers, any connections and   *)
(* any deadline.                                                           *)
(***************************************************************************)
EXTENDS Shutdown, FiniteSetTheorems, TLAPS

\* A handler that is counted: behind Add and before Done.
Inside(c) == pc[c] \notin {"none", "arrived", "refusing"}
InsideOf(s) == {c \in Connections : Home[c] = s /\ Inside(c)}

Counted == \A s \in Servers : count[s] = Cardinality(InsideOf(s))

\* Before its upgrade or its child a handler has nothing to leave behind.
BareAt(c) ==
  pc[c] \in {"none", "arrived", "refusing", "entered", "admitted"} =>
    /\ gen[c] = "none"
    /\ c \in Sockets => conn[c] = "none" /\ reader[c] = "none" /\ after[c] = "none"

Bare == \A c \in Connections : BareAt(c)

AdmissionStopped == \A s \in Servers : shut[s] # "serving" => stopping[s]

\* Behind net/http's drain only hijacked connections have a handler; behind a
\* success none has.
Drained ==
  \A c \in Connections :
    /\ shut[Home[c]] \in {"waiting", "nil"} => pc[c] = "none" \/ (c \in Sockets /\ conn[c] # "none")
    /\ shut[Home[c]] = "nil" => pc[c] = "none"

FailedLate == \A s \in Servers : shut[s] \in {"failed", "error"} => deadline

MainLast == main \in {"returning", "exited"} => \A s \in Servers : shut[s] \in {"nil", "error"}

Orderly == Bare /\ AdmissionStopped /\ Drained /\ FailedLate /\ MainLast
SInv == TypeOK /\ Counted /\ Orderly

LEMMA Finite == \A s : IsFiniteSet(InsideOf(s)) /\ Cardinality(InsideOf(s)) \in Nat
BY ShutdownAssumption, FS_Subset, FS_CardinalityType DEF ShutdownAssumption, InsideOf

LEMMA HomeType == \A c \in Connections : Home[c] \in Servers
BY ShutdownAssumption DEF ShutdownAssumption

LEMMA InitShutdown == Init => SInv
<1> SUFFICES ASSUME Init PROVE SInv
  OBVIOUS
<1>1. TypeOK
  BY DEF Init, TypeOK, ShutPcs, HandlerPcs
<1>2. \A s \in Servers : InsideOf(s) = {}
  BY DEF Init, InsideOf, Inside
<1>3. Counted
  BY <1>2, FS_EmptySet DEF Counted, Init
<1>4. Orderly
  BY HomeType DEF Init, Orderly, Bare, BareAt, AdmissionStopped, Drained, FailedLate, MainLast,
                  Connections
<1> QED
  BY <1>1, <1>3, <1>4 DEF SInv

-----------------------------------------------------------------------------
(***************************************************************************)
(* What the steps of a connection do to the invariant's variables          *)
(***************************************************************************)
Apart(c) ==
  /\ UNCHANGED <<main, deadline, shut, stopping>>
  /\ \A d \in Connections : d # c => pc'[d] = pc[d] /\ gen'[d] = gen[d]
  /\ \A w \in Sockets :
       w # c => conn'[w] = conn[w] /\ reader'[w] = reader[w] /\ after'[w] = after[w]

Steady(c) ==
  /\ gen'[c] = gen[c]
  /\ c \in Sockets => conn'[c] = conn[c] /\ reader'[c] = reader[c] /\ after'[c] = after[c]

\* Arrives, or is refused.
StaysOutside(c) ==
  /\ Apart(c) /\ Steady(c) /\ count' = count
  /\ ~Inside(c) /\ ~Inside(c)'
  /\ pc[c] = "none" => shut[Home[c]] \in {"serving", "stopped", "draining"}

Enters(c) ==
  /\ Apart(c) /\ Steady(c)
  /\ pc[c] = "arrived" /\ pc'[c] = "entered"
  /\ ~stopping[Home[c]]
  /\ count' = [count EXCEPT ![Home[c]] = @ + 1]

StaysInside(c) ==
  /\ Apart(c) /\ count' = count
  /\ Inside(c) /\ Inside(c)'
  /\ BareAt(c)'
  /\ c \in Sockets /\ conn[c] # "none" => conn'[c] # "none"

Leaves(c) ==
  /\ Apart(c)
  /\ Inside(c) /\ pc'[c] = "none"
  /\ BareAt(c)'
  /\ count' = [count EXCEPT ![Home[c]] = @ - 1]

Moves(c) == StaysOutside(c) \/ Enters(c) \/ StaysInside(c) \/ Leaves(c)

LEMMA Disjoint == Connections = Downloads \cup Sockets /\ \A d \in Downloads : d \notin Sockets
BY ShutdownAssumption DEF ShutdownAssumption, Connections

\* Requests: from their arrival to the end of their handler.
LEMMA RequestMoves ==
  ASSUME SInv, NEW c \in Connections,
         Arrive(c) \/ Enter(c) \/ Rejected(c) \/ Admit(c) \/ Leave(c)
  PROVE  Moves(c)
<1> USE Disjoint DEF SInv, TypeOK, server, socket, Goto, Apart, Steady, Inside
<1>1. CASE Arrive(c)
  BY <1>1 DEF Arrive, Moves, StaysOutside
<1>2. CASE Enter(c)
  <2>1. CASE stopping[Home[c]]
    BY <1>2, <2>1 DEF Enter, Moves, StaysOutside
  <2>2. CASE ~stopping[Home[c]]
    BY <1>2, <2>2 DEF Enter, Moves, Enters
  <2> QED
    BY <2>1, <2>2
<1>3. CASE Rejected(c)
  BY <1>3 DEF Rejected, Moves, StaysOutside
<1>4. CASE Admit(c)
  BY <1>4 DEF Admit, Moves, StaysInside, BareAt, Orderly, Bare
<1>5. CASE Leave(c)
  BY <1>5 DEF Leave, Moves, Leaves, BareAt
<1> QED
  BY <1>1, <1>2, <1>3, <1>4, <1>5

LEMMA DownloadMoves ==
  ASSUME SInv, NEW d \in Downloads,
         OpenChild(d) \/ NextChunk(d) \/ ChunkSent(d) \/ ChunkLost(d) \/ ChunkForced(d)
           \/ CloseChild(d)
  PROVE  Moves(d)
<1> USE Disjoint DEF SInv, TypeOK, server, socket, Goto, Apart, Steady, Inside, Moves, StaysInside, BareAt
<1>1. CASE OpenChild(d)
  BY <1>1 DEF OpenChild
<1>2. CASE NextChunk(d) \/ ChunkSent(d) \/ ChunkLost(d) \/ ChunkForced(d)
  BY <1>2 DEF NextChunk, ChunkSent, ChunkLost, ChunkForced
<1>3. CASE CloseChild(d)
  BY <1>3 DEF CloseChild
<1> QED
  BY <1>1, <1>2, <1>3

LEMMA SocketMoves ==
  ASSUME SInv, NEW w \in Sockets,
         Upgrade(w) \/ StartReader(w) \/ SelectDone(w) \/ SelectTick(w) \/ FrameSent(w)
           \/ FrameLost(w) \/ WriteInterrupted(w) \/ Cleanup(w) \/ Join(w) \/ CloseSource(w)
  PROVE  Moves(w)
<1> USE Disjoint DEF SInv, TypeOK, server, socket, Goto, Apart, Steady, Inside, Moves, StaysInside, BareAt
<1>1. CASE Upgrade(w)
  BY <1>1 DEF Upgrade
<1>2. CASE StartReader(w)
  BY <1>2 DEF StartReader
<1>3. CASE SelectDone(w) \/ SelectTick(w) \/ FrameSent(w) \/ FrameLost(w)
             \/ WriteInterrupted(w) \/ Join(w)
  BY <1>3 DEF SelectDone, SelectTick, FrameSent, FrameLost, WriteInterrupted, Join
<1>4. CASE Cleanup(w)
  BY <1>4 DEF Cleanup
<1>5. CASE CloseSource(w)
  BY <1>5 DEF CloseSource
<1> QED
  BY <1>1, <1>2, <1>3, <1>4, <1>5

\* The two goroutines beside a WebSocket handler live while it does.
LEMMA HelperMoves ==
  ASSUME SInv, NEW w \in Sockets,
         AfterFunc(w) \/ PeerGone(w) \/ ReadInterrupted(w) \/ ReaderDone(w)
  PROVE  Moves(w)
<1> USE Disjoint DEF SInv, TypeOK, server, socket
<1>1. BareAt(w)
  BY DEF Orderly, Bare
<1>2. pc[w] \notin {"none", "arrived", "refusing", "entered", "admitted"}
  BY <1>1 DEF BareAt, AfterFunc, PeerGone, ReadInterrupted, ReaderDone
<1>3. Apart(w) /\ count' = count /\ pc' = pc
  BY DEF Apart, AfterFunc, PeerGone, ReadInterrupted, ReaderDone
<1>4. conn[w] # "none" => conn'[w] # "none"
  BY DEF AfterFunc, PeerGone, ReadInterrupted, ReaderDone
<1> QED
  BY <1>2, <1>3, <1>4 DEF Moves, StaysInside, Inside, BareAt

MainStep == Signal \/ Expire \/ CloseRoot \/ Exit

LEMMA StepMoves ==
  ASSUME SInv, [Next]_vars
  PROVE  \/ UNCHANGED vars
         \/ MainStep
         \/ \E s \in Servers : ServerStep(s)
         \/ \E c \in Connections : Moves(c)
<1>1. ASSUME NEW c \in Connections, HandlerStep(c) PROVE Moves(c)
  BY <1>1, RequestMoves, DownloadMoves, SocketMoves DEF HandlerStep
<1>2. ASSUME NEW w \in Sockets, ReaderStep(w) PROVE Moves(w)
  BY <1>2, HelperMoves DEF ReaderStep
<1> QED
  BY <1>1, <1>2, Disjoint, RequestMoves, DownloadMoves, SocketMoves, HelperMoves
     DEF Next, MainStep

-----------------------------------------------------------------------------
(***************************************************************************)
(* Every step preserves the invariant                                      *)
(***************************************************************************)
\* Done is never called more often than Add.
LEMMA InsideCounts ==
  ASSUME SInv, NEW c \in Connections, Inside(c)
  PROVE  count[Home[c]] \in Nat \ {0}
<1>1. c \in InsideOf(Home[c])
  BY DEF InsideOf
<1>2. Cardinality(InsideOf(Home[c])) # 0
  BY <1>1, Finite, FS_EmptySet
<1> QED
  BY <1>2, Finite, HomeType DEF SInv, Counted

LEMMA MovesCounted ==
  ASSUME SInv, NEW c \in Connections, Moves(c)
  PROVE  Counted'
<1>1. c \in InsideOf(Home[c]) <=> Inside(c)
  BY DEF InsideOf
<1>2. CASE StaysOutside(c) \/ StaysInside(c)
  <2>1. \A d \in Connections : Inside(d)' <=> Inside(d)
    BY <1>2 DEF StaysOutside, StaysInside, Apart, Inside
  <2>2. \A s \in Servers : InsideOf(s)' = InsideOf(s)
    BY <2>1 DEF InsideOf
  <2> QED
    BY <1>2, <2>2 DEF SInv, Counted, StaysOutside, StaysInside
<1>3. CASE Enters(c)
  <2>1. \A d \in Connections : Inside(d)' <=> Inside(d) \/ d = c
    BY <1>3 DEF Enters, Apart, Inside
  <2>2. \A s \in Servers : s # Home[c] => InsideOf(s)' = InsideOf(s)
    BY <2>1 DEF InsideOf
  <2>3. InsideOf(Home[c])' = InsideOf(Home[c]) \cup {c}
    BY <2>1 DEF InsideOf
  <2>4. c \notin InsideOf(Home[c])
    BY <1>1, <1>3 DEF Enters, Inside
  <2>5. Cardinality(InsideOf(Home[c]))' = Cardinality(InsideOf(Home[c])) + 1
    BY <2>3, <2>4, Finite, FS_AddElement
  <2>6. \A s \in Servers : s # Home[c] => count'[s] = count[s]
    BY <1>3 DEF Enters, SInv, TypeOK
  <2>7. count'[Home[c]] = count[Home[c]] + 1
    BY <1>3, HomeType DEF Enters, SInv, TypeOK
  <2> QED
    BY <2>2, <2>5, <2>6, <2>7, HomeType DEF SInv, Counted
<1>4. CASE Leaves(c)
  <2>1. \A d \in Connections : Inside(d)' <=> Inside(d) /\ d # c
    BY <1>4 DEF Leaves, Apart, Inside
  <2>2. \A s \in Servers : s # Home[c] => InsideOf(s)' = InsideOf(s)
    BY <2>1 DEF InsideOf
  <2>3. InsideOf(Home[c])' = InsideOf(Home[c]) \ {c}
    BY <2>1 DEF InsideOf
  <2>4. c \in InsideOf(Home[c])
    BY <1>1, <1>4 DEF Leaves
  <2>5. Cardinality(InsideOf(Home[c]))' = Cardinality(InsideOf(Home[c])) - 1
    BY <2>3, <2>4, Finite, FS_RemoveElement
  <2>6. \A s \in Servers : s # Home[c] => count'[s] = count[s]
    BY <1>4 DEF Leaves, SInv, TypeOK
  <2>7. count'[Home[c]] = count[Home[c]] - 1
    BY <1>4, HomeType DEF Leaves, SInv, TypeOK
  <2> QED
    BY <2>2, <2>5, <2>6, <2>7, HomeType DEF SInv, Counted
<1> QED
  BY <1>2, <1>3, <1>4 DEF Moves

LEMMA MovesOrderly ==
  ASSUME SInv, NEW c \in Connections, Moves(c)
  PROVE  Orderly'
<1> USE DEF SInv, Orderly
<1>1. Apart(c)
  BY DEF Moves, StaysOutside, Enters, StaysInside, Leaves
<1>2. AdmissionStopped' /\ FailedLate' /\ MainLast'
  BY <1>1 DEF Apart, AdmissionStopped, FailedLate, MainLast
<1>3. BareAt(c)
  BY DEF Bare
<1>4. BareAt(c)'
  <2>1. CASE StaysOutside(c) \/ Enters(c)
    BY <2>1, <1>3 DEF StaysOutside, Enters, Steady, Inside, BareAt
  <2> QED
    BY <2>1 DEF Moves, StaysInside, Leaves
<1>5. Bare'
  BY <1>1, <1>4 DEF Apart, Bare, BareAt
<1>6. /\ shut[Home[c]] \in {"waiting", "nil"} => pc'[c] = "none" \/ (c \in Sockets /\ conn'[c] # "none")
      /\ shut[Home[c]] = "nil" => pc'[c] = "none"
  <2>1. CASE StaysOutside(c) \/ Enters(c)
    <3>1. pc[c] = "none" => shut[Home[c]] \in {"serving", "stopped", "draining"}
      BY <2>1 DEF StaysOutside, Enters
    <3>2. pc[c] \in {"none", "arrived", "refusing"}
      BY <2>1 DEF StaysOutside, Enters, Inside
    <3>3. c \in Sockets => conn[c] = "none"
      BY <1>3, <3>2 DEF BareAt
    <3> QED
      BY <3>1, <3>3 DEF Drained
  <2>2. CASE StaysInside(c)
    BY <2>2 DEF StaysInside, Inside, Drained
  <2>3. CASE Leaves(c)
    BY <2>3 DEF Leaves
  <2> QED
    BY <2>1, <2>2, <2>3 DEF Moves
<1>7. Drained'
  BY <1>1, <1>6 DEF Apart, Drained
<1> QED
  BY <1>2, <1>5, <1>7

\* main waits for every Shutdown before it closes the root.
LEMMA MainOrderly ==
  ASSUME SInv, MainStep
  PROVE  TypeOK' /\ Counted' /\ Orderly'
<1> USE DEF SInv, MainStep, Signal, Expire, CloseRoot, Exit, server, socket
<1>1. TypeOK'
  BY DEF TypeOK
<1>2. Counted'
  BY DEF Counted, InsideOf, Inside
<1>3. Bare' /\ Drained'
  BY DEF Orderly, Bare, BareAt, Drained
<1>4. AdmissionStopped' /\ FailedLate' /\ MainLast'
  BY DEF Orderly, AdmissionStopped, FailedLate, MainLast
<1> QED
  BY <1>1, <1>2, <1>3, <1>4 DEF Orderly

\* A Shutdown that returns without an error found no tracked connection and
\* no counted handler.
LEMMA ReturnFindsNothing ==
  ASSUME SInv, NEW s \in Servers, count[s] = 0, shut[s] \in {"waiting", "nil"},
         NEW c \in Connections, Home[c] = s
  PROVE  pc[c] = "none"
<1>1. ~Inside(c)
  BY InsideCounts
<1>2. BareAt(c)
  BY DEF SInv, Orderly, Bare
<1> QED
  BY <1>1, <1>2 DEF Inside, BareAt, SInv, Orderly, Drained

LEMMA ServerOrderly ==
  ASSUME SInv, NEW s \in Servers, ServerStep(s)
  PROVE  TypeOK' /\ Counted' /\ Orderly'
<1> USE DEF SInv, ServerStep, StopAdmission, CloseListeners, Drain, Return, socket
<1>1. TypeOK'
  BY DEF TypeOK, ShutPcs
<1>2. Counted'
  BY DEF Counted, InsideOf, Inside
<1>3. Bare'
  BY DEF Orderly, Bare, BareAt
<1>4. AdmissionStopped'
  BY DEF Orderly, AdmissionStopped, TypeOK
<1>5. FailedLate'
  BY DEF Orderly, FailedLate, TypeOK
<1>6. MainLast'
  BY DEF Orderly, MainLast, TypeOK
<1>7. Drained'
  <2> SUFFICES ASSUME NEW c \in Connections
               PROVE  /\ shut'[Home[c]] \in {"waiting", "nil"} =>
                           pc[c] = "none" \/ (c \in Sockets /\ conn[c] # "none")
                      /\ shut'[Home[c]] = "nil" => pc[c] = "none"
    BY DEF Drained
  <2>1. CASE Home[c] # s
    <3>1. shut'[Home[c]] = shut[Home[c]]
      BY <2>1, HomeType DEF TypeOK
    <3> QED
      BY <3>1 DEF Orderly, Drained
  <2>2. CASE Home[c] = s /\ (StopAdmission(s) \/ CloseListeners(s))
    BY <2>2 DEF TypeOK
  <2>3. CASE Home[c] = s /\ Drain(s)
    BY <2>3 DEF TypeOK, Tracked
  <2>4. CASE Home[c] = s /\ Return(s)
    <3>1. CASE count[s] = 0 /\ shut[s] = "waiting"
      BY <2>4, <3>1, ReturnFindsNothing
    <3>2. CASE ~(count[s] = 0 /\ shut[s] = "waiting")
      BY <2>4, <3>2 DEF TypeOK
    <3> QED
      BY <3>1, <3>2
  <2> QED
    BY <2>1, <2>2, <2>3, <2>4
<1> QED
  BY <1>1, <1>2, <1>3, <1>4, <1>5, <1>6, <1>7 DEF Orderly

LEMMA RequestTyped ==
  ASSUME SInv, NEW c \in Connections,
         Arrive(c) \/ Enter(c) \/ Rejected(c) \/ Admit(c) \/ Leave(c)
  PROVE  TypeOK'
<1> USE Disjoint, HomeType DEF SInv, TypeOK, server, socket, Goto, HandlerPcs
<1>1. CASE Arrive(c) \/ Rejected(c) \/ Admit(c)
  BY <1>1 DEF Arrive, Rejected, Admit
<1>2. CASE Enter(c)
  BY <1>2 DEF Enter
<1>3. CASE Leave(c)
  <2>1. count[Home[c]] \in Nat \ {0}
    BY <1>3, InsideCounts DEF Leave, Inside
  <2>2. count' \in [Servers -> Nat]
    BY <1>3, <2>1 DEF Leave
  <2> QED
    BY <1>3, <2>2 DEF Leave
<1> QED
  BY <1>1, <1>2, <1>3

LEMMA DownloadTyped ==
  ASSUME SInv, NEW d \in Downloads,
         OpenChild(d) \/ NextChunk(d) \/ ChunkSent(d) \/ ChunkLost(d) \/ ChunkForced(d)
           \/ CloseChild(d)
  PROVE  TypeOK'
BY Disjoint DEF SInv, TypeOK, server, socket, Goto, HandlerPcs, OpenChild, NextChunk, ChunkSent,
                ChunkLost, ChunkForced, CloseChild

LEMMA SocketTyped ==
  ASSUME SInv, NEW w \in Sockets,
         \/ Upgrade(w) \/ StartReader(w) \/ SelectDone(w) \/ SelectTick(w) \/ FrameSent(w)
         \/ FrameLost(w) \/ WriteInterrupted(w) \/ Cleanup(w) \/ Join(w) \/ CloseSource(w)
         \/ AfterFunc(w) \/ PeerGone(w) \/ ReadInterrupted(w) \/ ReaderDone(w)
  PROVE  TypeOK'
<1> USE Disjoint DEF SInv, TypeOK, server, socket, Goto, HandlerPcs
<1>1. CASE Join(w) \/ CloseSource(w)
  BY <1>1 DEF Join, CloseSource
<1>4. CASE StartReader(w)
  BY <1>4 DEF StartReader
<1>5. CASE Upgrade(w)
  BY <1>5 DEF Upgrade
<1>6. CASE Cleanup(w)
  BY <1>6 DEF Cleanup
<1>2. CASE SelectDone(w) \/ SelectTick(w) \/ FrameSent(w) \/ FrameLost(w) \/ WriteInterrupted(w)
  BY <1>2 DEF SelectDone, SelectTick, FrameSent, FrameLost, WriteInterrupted
<1>3. CASE AfterFunc(w) \/ PeerGone(w) \/ ReadInterrupted(w) \/ ReaderDone(w)
  BY <1>3 DEF AfterFunc, PeerGone, ReadInterrupted, ReaderDone
<1> QED
  BY <1>1, <1>2, <1>3, <1>4, <1>5, <1>6

LEMMA ConnectionTyped ==
  ASSUME SInv, [Next]_vars, ~MainStep, ~ \E s \in Servers : ServerStep(s)
  PROVE  TypeOK'
<1>1. CASE UNCHANGED vars
  BY <1>1 DEF vars, server, socket, SInv, TypeOK
<1>2. ASSUME NEW c \in Connections, HandlerStep(c) PROVE TypeOK'
  BY <1>2, RequestTyped, DownloadTyped, SocketTyped DEF HandlerStep
<1>3. ASSUME NEW w \in Sockets, ReaderStep(w) PROVE TypeOK'
  BY <1>3, SocketTyped DEF ReaderStep
<1> QED
  BY <1>1, <1>2, <1>3, RequestTyped, DownloadTyped, SocketTyped DEF Next, MainStep

LEMMA StepShutdown == SInv /\ [Next]_vars => SInv'
<1> SUFFICES ASSUME SInv, [Next]_vars PROVE SInv'
  OBVIOUS
<1>1. CASE MainStep
  BY <1>1, MainOrderly DEF SInv
<1>2. CASE \E s \in Servers : ServerStep(s)
  BY <1>2, ServerOrderly DEF SInv
<1>3. CASE ~MainStep /\ ~ \E s \in Servers : ServerStep(s)
  <2>1. TypeOK'
    BY <1>3, ConnectionTyped
  <2>2. CASE UNCHANGED vars
    BY <2>1, <2>2 DEF vars, server, socket, SInv, Counted, InsideOf, Inside, Orderly, Bare, BareAt,
                      AdmissionStopped, Drained, FailedLate, MainLast
  <2>3. CASE \E c \in Connections : Moves(c)
    BY <2>1, <2>3, MovesCounted, MovesOrderly DEF SInv
  <2> QED
    BY <1>3, <2>2, <2>3, StepMoves
<1> QED
  BY <1>1, <1>2, <1>3

\* The count of a WaitGroup is the number of its handlers, and admission has
\* ended where somebody waits.
THEOREM ShutdownInvariant == Spec => []SInv
<1> QED
  BY InitShutdown, StepShutdown, PTL DEF Spec

\* A Shutdown that reports success has left neither a handler nor a reader
\* behind, and before the deadline main closes the root under nobody.
THEOREM CleanShutdownHolds == Spec => []CleanShutdown
<1>1. ASSUME SInv PROVE CleanShutdown
  <2>1. \A c \in Connections : BareAt(c)
    BY <1>1 DEF SInv, Orderly, Bare
  <2>2. SuccessLeavesNothing
    BY <1>1, <2>1 DEF SInv, Orderly, Drained, BareAt, SuccessLeavesNothing
  <2>3. RootClosedLast
    BY <1>1, HomeType DEF SInv, Orderly, MainLast, FailedLate, Drained, RootClosedLast
  <2> QED
    BY <2>2, <2>3 DEF CleanShutdown
<1> QED
  BY <1>1, ShutdownInvariant, PTL

\* Nobody calls Add while the goroutine of Shutdown may be in Wait.
THEOREM NoAddAfterWaitHolds == Spec => NoAddAfterWait
<1> DEFINE NoAdd == \A s \in Servers : shut[s] \in {"waiting", "failed"} => count'[s] <= count[s]
<1>1. ASSUME SInv, [Next]_vars PROVE NoAdd
  <2> SUFFICES ASSUME NEW s \in Servers, shut[s] \in {"waiting", "failed"}
               PROVE  count'[s] <= count[s]
    OBVIOUS
  <2>1. count \in [Servers -> Nat]
    BY <1>1 DEF SInv, TypeOK
  <2>2. stopping[s]
    BY <1>1 DEF SInv, Orderly, AdmissionStopped
  <2>3. CASE UNCHANGED count
    BY <2>1, <2>3
  <2>4. ASSUME NEW c \in Connections, Moves(c) PROVE count'[s] <= count[s]
    <3>1. Home[c] \in Servers
      BY HomeType
    <3>2. CASE Enters(c)
      BY <2>1, <2>2, <3>1, <3>2 DEF Enters
    <3>3. CASE Leaves(c)
      BY <2>1, <3>1, <3>3 DEF Leaves
    <3> QED
      BY <2>3, <2>4, <3>2, <3>3 DEF Moves, StaysOutside, StaysInside
  <2>5. (UNCHANGED vars) \/ MainStep \/ (\E r \in Servers : ServerStep(r)) => UNCHANGED count
    BY DEF vars, MainStep, Signal, Expire, CloseRoot, Exit, server, ServerStep, StopAdmission,
           CloseListeners, Drain, Return
  <2> QED
    BY <1>1, <2>3, <2>4, <2>5, StepMoves
<1>2. Spec => [][NoAdd]_vars
  BY <1>1, ShutdownInvariant, PTL DEF Spec
<1> QED
  BY <1>2 DEF NoAddAfterWait
=============================================================================
