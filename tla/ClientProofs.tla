---------------------------- MODULE ClientProofs ---------------------------
(***************************************************************************)
(* The client: pull mode uses every frame before it reports a failed       *)
(* fetch, always has the reason to report, and leaves no goroutine behind, *)
(* for any number of fetches; what a stream delivers arrives whole, needs  *)
(* three buffers, and is counted once, for any messages; and what the live *)
(* statistics say is what the two-pass diagnostics say, for any data and   *)
(* however it was cut into chunks.                                         *)
(***************************************************************************)
EXTENDS Client, FiniteSetTheorems, SequenceTheorems, WellFoundedInduction, TLAPS

(***************************************************************************)
(* Meter                                                                   *)
(***************************************************************************)
MeterTypeOK ==
  /\ stage \in {"sampling", "draining", "resetting", "monitoring", "ending", "done"}
  /\ reading \in [Readings -> BOOLEAN]
  /\ hand \in [Readings -> Nat] /\ slot \in [Readings -> Nat] /\ read \in [Readings -> Nat]
  /\ bytes \in Nat /\ total \in Nat /\ windows \in Nat
  /\ frames \in Nat /\ received \in Nat /\ samples \in Nat /\ analysed \in Nat

\* A stream that has ended holds no frame back; the sample's has, before the
\* meter is reset, and the monitor's has not begun.
StreamsInTurn ==
  /\ \A s \in Readings : ~reading[s] => hand[s] = 0
  /\ stage \in {"resetting", "monitoring"} => ~reading["sample"] /\ slot["sample"] = 0
  /\ stage \in {"sampling", "draining", "resetting"} =>
       /\ ~reading["monitor"] /\ slot["monitor"] = 0
       /\ frames = 0 /\ received = 0 /\ samples = 0 /\ analysed = 0

MeterInv == MeterTypeOK /\ StreamsInTurn /\ MeterCountsMonitor

LEMMA InitMeter == MeterInit => MeterInv
<1> SUFFICES ASSUME MeterInit PROVE MeterInv
  OBVIOUS
<1>1. reading \in [Readings -> BOOLEAN]
  BY DEF MeterInit, Readings
<1>2. MeterTypeOK
  BY <1>1 DEF MeterInit, MeterTypeOK
<1>3. StreamsInTurn
  BY DEF MeterInit, StreamsInTurn, Readings
<1>4. MeterCountsMonitor
  BY DEF MeterInit, MeterCountsMonitor, Readings
<1> QED
  BY <1>2, <1>3, <1>4 DEF MeterInv

LEMMA StepMeterTypeOK == MeterInv /\ [MeterNext]_meter => MeterTypeOK'
<1> SUFFICES ASSUME MeterTypeOK, [MeterNext]_meter PROVE MeterTypeOK'
  BY DEF MeterInv
<1> USE MeterAssumption DEF MeterAssumption, MeterTypeOK, Gauge, Monitor
<1>1. ASSUME NEW s \in Readings, ReadFrame(s) PROVE MeterTypeOK'
  BY <1>1 DEF ReadFrame, Update
<1>2. ASSUME NEW s \in Readings, Queue(s) PROVE MeterTypeOK'
  BY <1>2 DEF Queue
<1>3. ASSUME NEW s \in Readings, EndStream(s) PROVE MeterTypeOK'
  <2>1. reading' \in [Readings -> BOOLEAN] /\ hand' \in [Readings -> Nat]
    BY <1>3 DEF EndStream
  <2> QED
    BY <1>3, <2>1 DEF EndStream
<1>4. CASE TakeSample \/ DiscardFrame
  BY <1>4 DEF TakeSample, DiscardFrame, Readings
<1>5. CASE Return \/ EndMonitor \/ Finish
  BY <1>5 DEF Return, Drained, EndMonitor, Finish
<1>6. CASE BeginMonitor
  BY <1>6 DEF BeginMonitor, Reset
<1>7. CASE ObserveFrame
  <2>1. slot["monitor"] \in Nat /\ Analysed(slot["monitor"]) \in Nat
    BY DEF Readings, Analysed
  <2>2. slot' \in [Readings -> Nat]
    BY <1>7 DEF ObserveFrame
  <2>3. received' \in Nat /\ frames' \in Nat /\ samples' \in Nat /\ analysed' \in Nat
    BY <1>7, <2>1 DEF ObserveFrame
  <2> QED
    BY <1>7, <2>2, <2>3 DEF ObserveFrame
<1>8. CASE UNCHANGED meter
  BY <1>8 DEF meter
<1> QED
  BY <1>1, <1>2, <1>3, <1>4, <1>5, <1>6, <1>7, <1>8 DEF MeterNext

LEMMA StepStreamsInTurn == MeterInv /\ [MeterNext]_meter => StreamsInTurn'
<1> SUFFICES ASSUME MeterTypeOK, StreamsInTurn, [MeterNext]_meter PROVE StreamsInTurn'
  BY DEF MeterInv
<1> USE DEF MeterTypeOK, StreamsInTurn, Readings, Gauge, Monitor
<1>1. ASSUME NEW s \in Readings, ReadFrame(s) PROVE StreamsInTurn'
  BY <1>1 DEF ReadFrame
<1>2. ASSUME NEW s \in Readings, Queue(s) PROVE StreamsInTurn'
  BY <1>2 DEF Queue
<1>3. ASSUME NEW s \in Readings, EndStream(s) PROVE StreamsInTurn'
  BY <1>3 DEF EndStream
<1>4. CASE TakeSample
  BY <1>4 DEF TakeSample
<1>5. CASE DiscardFrame
  BY <1>5 DEF DiscardFrame
<1>6. CASE Return
  BY <1>6 DEF Return, Drained
<1>7. CASE BeginMonitor
  BY <1>7 DEF BeginMonitor
<1>8. CASE ObserveFrame
  BY <1>8 DEF ObserveFrame
<1>9. CASE EndMonitor \/ Finish
  BY <1>9 DEF EndMonitor, Finish
<1>10. CASE UNCHANGED meter
  BY <1>10 DEF meter
<1> QED
  BY <1>1, <1>2, <1>3, <1>4, <1>5, <1>6, <1>7, <1>8, <1>9, <1>10 DEF MeterNext

LEMMA StepMeterCounts == MeterInv /\ [MeterNext]_meter => MeterCountsMonitor'
<1> SUFFICES ASSUME MeterTypeOK, StreamsInTurn, MeterCountsMonitor, [MeterNext]_meter
             PROVE  MeterCountsMonitor'
  BY DEF MeterInv
<1> USE MeterAssumption DEF MeterAssumption, MeterTypeOK, StreamsInTurn, MeterCountsMonitor,
        Readings, Gauge, Monitor
<1>1. ASSUME NEW s \in Readings, ReadFrame(s) PROVE MeterCountsMonitor'
  BY <1>1 DEF ReadFrame, Update
<1>2. ASSUME NEW s \in Readings, Queue(s) PROVE MeterCountsMonitor'
  BY <1>2 DEF Queue
<1>3. ASSUME NEW s \in Readings, EndStream(s) PROVE MeterCountsMonitor'
  BY <1>3 DEF EndStream, Cancelled
<1>4. CASE TakeSample \/ DiscardFrame
  BY <1>4 DEF TakeSample, DiscardFrame
<1>5. CASE Return \/ EndMonitor \/ Finish
  BY <1>5 DEF Return, Drained, EndMonitor, Finish
<1>6. CASE BeginMonitor
  BY <1>6 DEF BeginMonitor, Reset
<1>7. CASE ObserveFrame
  <2>1. slot["monitor"] \in Nat /\ Analysed(slot["monitor"]) \in 0 .. slot["monitor"]
    BY DEF Analysed
  <2> QED
    BY <1>7, <2>1 DEF ObserveFrame
<1>8. CASE UNCHANGED meter
  BY <1>8 DEF meter
<1> QED
  BY <1>1, <1>2, <1>3, <1>4, <1>5, <1>6, <1>7, <1>8 DEF MeterNext

\* The meter shows what the monitor received, and no byte of the sample.
THEOREM MeterCountsMonitorHolds == MeterSpec => []MeterCountsMonitor
<1>1. MeterInv /\ [MeterNext]_meter => MeterInv'
  BY StepMeterTypeOK, StepStreamsInTurn, StepMeterCounts DEF MeterInv
<1>2. MeterInv => MeterCountsMonitor
  BY DEF MeterInv
<1> QED
  BY <1>1, <1>2, InitMeter, PTL DEF MeterSpec

-----------------------------------------------------------------------------
(***************************************************************************)
(* ClientStream: the buffers                                               *)
(***************************************************************************)
Members(s) == {s[k] : k \in DOMAIN s}
Distinct(s) == \A i, j \in DOMAIN s : s[i] = s[j] => i = j
One(x) == IF x = None THEN 0 ELSE 1

Places ==
  /\ filling # None <=> producer \in {"fill", "queue"}
  /\ producer \in {"fill", "queue"} => sent # 0
  /\ held # None <=> consumer = "using"
  /\ producer \in {"dial", "upgraded", "dialled"} => consumer = "waiting"

\* A buffer is in one place at a time.
OneOwner ==
  /\ Distinct(pool)
  /\ Pooled \cap Queued = {}
  /\ filling # None => filling \notin Pooled \cup Queued
  /\ held # None => held.buf \notin Pooled \cup Queued \cup {filling}

\* There are never more than the pool can take.
Enough == Len(pool) + Len(queue) + One(filling) + One(held) <= PoolSize

Contents ==
  /\ FramesIntact
  /\ producer = "queue" => content[filling] = sent

StreamInv == StreamTypeOK /\ Places /\ OneOwner /\ Enough /\ Contents

LEMMA NoneIsNobody == None \notin Buffers /\ None \notin Frame
BY ClientStreamAssumption DEF ClientStreamAssumption, Frame

LEMMA TailOf ==
  ASSUME NEW S, NEW s \in Seq(S), s # <<>>
  PROVE  /\ Head(s) \in S /\ Tail(s) \in Seq(S) /\ Len(Tail(s)) = Len(s) - 1
         /\ Head(s) \in Members(s) /\ Members(Tail(s)) \subseteq Members(s)
         /\ Distinct(s) => Distinct(Tail(s)) /\ Head(s) \notin Members(Tail(s))
<1>1. /\ Head(s) \in S /\ Tail(s) \in Seq(S) /\ Len(Tail(s)) = Len(s) - 1
      /\ \A i \in 1 .. Len(Tail(s)) : Tail(s)[i] = s[i + 1]
  BY HeadTailProperties
<1>2. /\ Len(s) \in Nat \ {0} /\ DOMAIN s = 1 .. Len(s)
      /\ DOMAIN Tail(s) = 1 .. Len(Tail(s)) /\ Head(s) = s[1]
  BY <1>1, EmptySeq, LenProperties
<1>3. \A i \in DOMAIN Tail(s) : i + 1 \in DOMAIN s /\ Tail(s)[i] = s[i + 1] /\ i \in Nat /\ i # 0
  BY <1>1, <1>2
<1>4. 1 \in DOMAIN s
  BY <1>2
<1>5. Head(s) \in Members(s) /\ Members(Tail(s)) \subseteq Members(s)
  BY <1>2, <1>3, <1>4 DEF Members
<1>6. ASSUME Distinct(s) PROVE Distinct(Tail(s)) /\ Head(s) \notin Members(Tail(s))
  <2>1. Distinct(Tail(s))
    BY <1>3, <1>6 DEF Distinct
  <2>2. \A i \in DOMAIN Tail(s) : Tail(s)[i] # s[1]
    BY <1>3, <1>4, <1>6 DEF Distinct
  <2> QED
    BY <1>2, <2>1, <2>2 DEF Members
<1> QED
  BY <1>1, <1>5, <1>6

LEMMA AppendedTo ==
  ASSUME NEW S, NEW s \in Seq(S), NEW x \in S
  PROVE  /\ Append(s, x) \in Seq(S) /\ Len(Append(s, x)) = Len(s) + 1
         /\ Members(Append(s, x)) = Members(s) \cup {x}
         /\ Distinct(s) /\ x \notin Members(s) => Distinct(Append(s, x))
<1> DEFINE a == Append(s, x)
<1>1. /\ a \in Seq(S) /\ Len(a) = Len(s) + 1
      /\ \A i \in 1 .. Len(s) : a[i] = s[i]
      /\ a[Len(s) + 1] = x
  BY AppendProperties
<1>2. Len(s) \in Nat /\ DOMAIN s = 1 .. Len(s) /\ DOMAIN a = 1 .. Len(s) + 1
  BY <1>1, LenProperties
<1> HIDE DEF a
<1>3. /\ \A i \in DOMAIN a : (i \in DOMAIN s /\ a[i] = s[i]) \/ (i = Len(s) + 1 /\ a[i] = x)
      /\ DOMAIN s \subseteq DOMAIN a /\ Len(s) + 1 \in DOMAIN a
  BY <1>1, <1>2
<1>4. Members(a) = Members(s) \cup {x}
  BY <1>1, <1>2, <1>3 DEF Members
<1>5. Distinct(s) /\ x \notin Members(s) => Distinct(a)
  BY <1>3 DEF Distinct, Members
<1> QED
  BY <1>1, <1>4, <1>5 DEF a

\* A channel of one frame is empty or holds that frame.
LEMMA QueueOfOne ==
  ASSUME StreamTypeOK
  PROVE  \/ queue = <<>> /\ Len(queue) = 0 /\ Queued = {}
         \/ /\ queue # <<>> /\ Len(queue) = 1 /\ Head(queue) \in Frame /\ Tail(queue) = <<>>
            /\ Queued = {Head(queue).buf} /\ queue = <<Head(queue)>>
<1>1. queue \in Seq(Frame) /\ Len(queue) \in {0, 1}
  <2>1. queue \in Seq(Frame) /\ Len(queue) <= 1
    BY DEF StreamTypeOK, QueueSize
  <2>2. Len(queue) \in Nat
    BY <2>1, LenProperties
  <2> QED
    BY <2>1, <2>2
<1>2. CASE Len(queue) = 0
  <2>1. queue = <<>>
    BY <1>1, <1>2, EmptySeq
  <2> QED
    BY <1>2, <2>1 DEF Queued
<1>3. CASE Len(queue) = 1
  <2>1. queue # <<>>
    BY <1>3
  <2>2. Head(queue) \in Frame /\ Tail(queue) \in Seq(Frame) /\ Len(Tail(queue)) = 0
    BY <1>1, <1>3, <2>1, HeadTailProperties
  <2>3. Tail(queue) = <<>>
    BY <2>2, EmptySeq
  <2>4. DOMAIN queue = {1} /\ queue[1] = Head(queue)
    BY <1>1, <1>3, LenProperties
  <2>5. Queued = {Head(queue).buf}
    BY <2>4 DEF Queued
  <2>6. queue = <<Head(queue)>>
    BY <1>1, <1>3, <2>4
  <2> QED
    BY <1>3, <2>1, <2>2, <2>3, <2>5, <2>6
<1> QED
  BY <1>1, <1>2, <1>3

LEMMA InitStream == StreamInit => StreamInv
<1> SUFFICES ASSUME StreamInit PROVE StreamInv
  OBVIOUS
<1>1. /\ queue = <<>> /\ pool = <<>> /\ <<>> \in Seq(Frame) /\ <<>> \in Seq(Buffers)
      /\ Len(<<>>) = 0 /\ DOMAIN pool = {} /\ DOMAIN queue = {}
  BY DEF StreamInit
<1>2. StreamTypeOK
  <2>1. content \in [Buffers -> 0 .. MaxMessages] /\ sent \in 0 .. MaxMessages
    BY ClientStreamAssumption DEF StreamInit, ClientStreamAssumption
  <2>2. queue \in Seq(Frame) /\ Len(queue) <= QueueSize
    BY <1>1 DEF QueueSize
  <2>3. pool \in Seq(Buffers) /\ Len(pool) <= PoolSize
    BY <1>1 DEF PoolSize
  <2> QED
    BY <2>1, <2>2, <2>3 DEF StreamInit, StreamTypeOK, ProducerPcs
<1>3. Places
  BY DEF StreamInit, Places
<1>4. OneOwner
  BY <1>1 DEF StreamInit, OneOwner, Distinct, Pooled, Queued
<1>5. Enough
  BY <1>1 DEF StreamInit, Enough, One, PoolSize
<1>6. Contents
  BY <1>1 DEF StreamInit, Contents, FramesIntact
<1> QED
  BY <1>2, <1>3, <1>4, <1>5, <1>6 DEF StreamInv

-----------------------------------------------------------------------------
(***************************************************************************)
(* A step leaves the buffers where they are, or moves one                  *)
(***************************************************************************)
Stays ==
  /\ UNCHANGED <<filling, queue, pool, held, sent>>
  /\ \/ UNCHANGED content
     \/ filling # None /\ content' = [content EXCEPT ![filling] = sent]
  /\ producer' # "queue" \/ UNCHANGED <<producer, content>> \/ content'[filling] = sent

Takes ==
  /\ filling = None /\ sent < MaxMessages /\ sent' = sent + 1
  /\ \E b \in Buffers :
       TakeBuffer(b) /\ filling' = b /\ content' = [content EXCEPT ![b] = 0]
  /\ producer' = "fill" /\ UNCHANGED <<queue, held>>

Drops ==
  /\ filling # None /\ filling' = None /\ producer' = "closed"
  /\ GiveBack(filling) /\ UNCHANGED <<queue, held, content, sent>>

Queues ==
  /\ producer = "queue" /\ producer' = "check" /\ Len(queue) < QueueSize
  /\ queue' = Append(queue, [buf |-> filling, msg |-> sent])
  /\ filling' = None /\ UNCHANGED <<pool, held, content, sent>>

Receives ==
  /\ held = None /\ queue # <<>> /\ held' = Head(queue) /\ queue' = Tail(queue)
  /\ UNCHANGED <<pool, filling, content, sent, producer>>

Releases ==
  /\ held # None /\ GiveBack(held.buf) /\ held' = None
  /\ UNCHANGED <<queue, filling, content, sent, producer>>

Drains ==
  /\ queue # <<>> /\ GiveBack(Head(queue).buf) /\ queue' = Tail(queue)
  /\ UNCHANGED <<filling, held, content, sent, producer>>

Moves == Stays \/ Takes \/ Drops \/ Queues \/ Receives \/ Releases \/ Drains

LEMMA StepMoves == StreamInv /\ [StreamNext]_stream => Moves
<1> SUFFICES ASSUME StreamTypeOK, Places, [StreamNext]_stream PROVE Moves
  BY DEF StreamInv
<1>1. CASE Dial \/ StopWatch \/ Watch \/ DialInterrupted
  <2>1. /\ UNCHANGED <<filling, queue, pool, held, sent, content>> /\ producer' # "queue"
    BY <1>1 DEF Dial, Connect, Upgraded, DialFails, StopWatch, Watch, DialInterrupted
  <2> QED
    BY <2>1 DEF Moves, Stays
<1>2. CASE CheckContext \/ NoMessage
  <2>1. /\ UNCHANGED <<filling, queue, pool, held, sent, content>> /\ producer' # "queue"
    BY <1>2 DEF CheckContext, NoMessage, End, Places
  <2> QED
    BY <2>1 DEF Moves, Stays
<1>3. CASE MessageBegins
  <2>1. filling = None
    BY <1>3 DEF MessageBegins, Places
  <2> QED
    BY <1>3, <2>1 DEF MessageBegins, Moves, Takes
<1>4. CASE MessageComplete
  <2>1. /\ UNCHANGED <<filling, queue, pool, held, sent>> /\ filling # None
        /\ content' = [content EXCEPT ![filling] = sent]
    BY <1>4 DEF MessageComplete, Places
  <2>2. content'[filling] = sent
    BY <2>1 DEF StreamTypeOK
  <2> QED
    BY <2>1, <2>2 DEF Moves, Stays
<1>5. CASE MessageBroken \/ DropFrame
  BY <1>5 DEF MessageBroken, DropFrame, End, Places, Moves, Drops
<1>6. CASE ReadInterrupted
  BY <1>2, <1>5, <1>6 DEF ReadInterrupted
<1>7. CASE QueueFrame
  BY <1>7 DEF QueueFrame, Moves, Queues
<1>8. CASE AfterFunc \/ ReleaseCopy \/ Cancel \/ Leave \/ UNCHANGED stream
  <2>1. UNCHANGED <<filling, queue, pool, held, sent, content, producer>>
    BY <1>8 DEF AfterFunc, ReleaseCopy, Cancel, Leave, stream
  <2> QED
    BY <2>1 DEF Moves, Stays
<1>9. CASE Receive
  <2>1. held = None
    BY <1>9 DEF Receive, Places
  <2> QED
    BY <1>9, <2>1 DEF Receive, Moves, Receives
<1>10. CASE Release
  BY <1>10 DEF Release, Places, Moves, Releases
<1>11. CASE DrainStream
  BY <1>11 DEF DrainStream, Moves, Drains, Stays
<1> QED
  BY <1>1, <1>2, <1>3, <1>4, <1>5, <1>6, <1>7, <1>8, <1>9, <1>10, <1>11
  DEF StreamNext, Produce, Consume

\* A buffer that is given back always finds room in the pool.
LEMMA RoomForIt ==
  ASSUME StreamTypeOK, Enough, NEW b \in Buffers, GiveBack(b),
         filling # None \/ held # None \/ queue # <<>>
  PROVE  /\ Len(pool) < PoolSize /\ pool' = Append(pool, b)
         /\ pool' \in Seq(Buffers) /\ Len(pool') = Len(pool) + 1
         /\ Members(pool') = Members(pool) \cup {b}
         /\ Distinct(pool) /\ b \notin Members(pool) => Distinct(pool')
<1>1. Len(pool) \in Nat /\ Len(queue) \in {0, 1} /\ (queue # <<>> => Len(queue) = 1)
  BY QueueOfOne, LenProperties DEF StreamTypeOK
<1>2. One(filling) \in {0, 1} /\ One(held) \in {0, 1}
      /\ (filling # None => One(filling) = 1) /\ (held # None => One(held) = 1)
  BY DEF One
<1>3. Len(pool) < PoolSize
  BY <1>1, <1>2 DEF Enough, PoolSize
<1>4. pool' = Append(pool, b) /\ pool \in Seq(Buffers)
  BY <1>3 DEF GiveBack, StreamTypeOK
<1> QED
  BY <1>3, <1>4, AppendedTo

\* A buffer that is taken was nobody's, or the pool's alone.
LEMMA TakenIsFree ==
  ASSUME StreamTypeOK, OneOwner, filling = None, NEW b \in Buffers, TakeBuffer(b)
  PROVE  /\ pool' \in Seq(Buffers) /\ Distinct(pool') /\ Members(pool') \subseteq Members(pool)
         /\ b \notin Members(pool') \cup Queued /\ (held # None => b # held.buf)
         /\ \/ pool # <<>> /\ Len(pool') = Len(pool) - 1
            \/ pool = <<>> /\ pool' = pool
<1>1. pool \in Seq(Buffers) /\ Distinct(pool) /\ Pooled = Members(pool)
  BY DEF StreamTypeOK, OneOwner, Pooled, Members
<1>2. CASE pool # <<>> /\ b = Head(pool) /\ pool' = Tail(pool)
  BY <1>1, <1>2, TailOf DEF OneOwner
<1>3. CASE pool = <<>> /\ b \notin InUse /\ UNCHANGED pool
  BY <1>1, <1>3 DEF InUse
<1> QED
  BY <1>2, <1>3 DEF TakeBuffer

-----------------------------------------------------------------------------
(***************************************************************************)
(* What the moves keep                                                     *)
(***************************************************************************)
LEMMA FrameQueued ==
  ASSUME StreamTypeOK, Places, Queues
  PROVE  LET f == [buf |-> filling, msg |-> sent] IN
         f \in Frame /\ queue = <<>> /\ queue' = <<f>> /\ Queued' = {filling}
<1> DEFINE f == [buf |-> filling, msg |-> sent]
<1>1. filling \in Buffers /\ sent \in 1 .. MaxMessages
  BY DEF Queues, Places, StreamTypeOK
<1>2. queue = <<>>
  BY QueueOfOne DEF Queues, QueueSize
<1>3. queue' = <<f>>
  BY <1>2 DEF Queues
<1>4. DOMAIN queue' = {1} /\ queue'[1] = f
  BY <1>3
<1>5. Queued' = {f.buf}
  BY <1>4 DEF Queued
<1> QED
  BY <1>1, <1>2, <1>3, <1>5 DEF Frame

LEMMA MovesKeepTypes ==
  ASSUME StreamInv, Moves
  PROVE  /\ filling' \in Buffers \cup {None} /\ held' \in Frame \cup {None}
         /\ sent' \in 0 .. MaxMessages /\ content' \in [Buffers -> 0 .. MaxMessages]
         /\ queue' \in Seq(Frame) /\ Len(queue') <= QueueSize
         /\ pool' \in Seq(Buffers) /\ Len(pool') <= PoolSize
<1> USE DEF StreamInv
<1>0. /\ filling \in Buffers \cup {None} /\ held \in Frame \cup {None}
      /\ sent \in 0 .. MaxMessages /\ content \in [Buffers -> 0 .. MaxMessages]
      /\ queue \in Seq(Frame) /\ Len(queue) <= QueueSize
      /\ pool \in Seq(Buffers) /\ Len(pool) <= PoolSize /\ Len(pool) \in Nat
      /\ MaxMessages \in Nat /\ PoolSize = 3 /\ QueueSize = 1
      /\ \A f \in Frame : f.buf \in Buffers
      /\ <<>> \in Seq(Frame) /\ Len(<<>>) = 0
  BY ClientStreamAssumption, LenProperties
     DEF StreamTypeOK, PoolSize, QueueSize, ClientStreamAssumption, Frame
<1>1. CASE Stays
  <2>1. content' \in [Buffers -> 0 .. MaxMessages]
    BY <1>0, <1>1 DEF Stays
  <2> QED
    BY <1>0, <1>1, <2>1 DEF Stays
<1>2. CASE Takes
  <2>1. PICK b \in Buffers :
          TakeBuffer(b) /\ filling' = b /\ content' = [content EXCEPT ![b] = 0]
    BY <1>2 DEF Takes
  <2>2. pool' \in Seq(Buffers) /\ (Len(pool') = Len(pool) - 1 \/ pool' = pool)
    BY <1>2, <2>1, TakenIsFree DEF Takes
  <2>3. content' \in [Buffers -> 0 .. MaxMessages] /\ sent' \in 0 .. MaxMessages
    BY <1>0, <1>2, <2>1 DEF Takes
  <2>4. Len(pool') <= PoolSize
    BY <1>0, <2>2
  <2> QED
    BY <1>0, <1>2, <2>1, <2>2, <2>3, <2>4 DEF Takes
<1>3. CASE Drops
  <2>1. filling \in Buffers
    BY <1>0, <1>3 DEF Drops
  <2>2. pool' \in Seq(Buffers) /\ Len(pool) < PoolSize /\ Len(pool') = Len(pool) + 1
    BY <1>3, <2>1, RoomForIt DEF Drops
  <2> QED
    BY <1>0, <1>3, <2>2 DEF Drops
<1>4. CASE Queues
  <2>1. queue' \in Seq(Frame) /\ Len(queue') = 1
    <3> DEFINE f == [buf |-> filling, msg |-> sent]
    <3>1. f \in Frame /\ queue' = <<f>>
      BY <1>4, FrameQueued
    <3> HIDE DEF f
    <3> QED
      BY <3>1
  <2> QED
    BY <1>0, <1>4, <2>1 DEF Queues
<1>5. CASE Receives
  BY <1>0, <1>5, QueueOfOne DEF Receives
<1>6. CASE Releases
  <2>1. held.buf \in Buffers
    BY <1>0, <1>6 DEF Releases
  <2>2. pool' \in Seq(Buffers) /\ Len(pool) < PoolSize /\ Len(pool') = Len(pool) + 1
    BY <1>6, <2>1, RoomForIt DEF Releases
  <2> QED
    BY <1>0, <1>6, <2>2 DEF Releases
<1>7. CASE Drains
  <2>1. Head(queue).buf \in Buffers /\ Tail(queue) = <<>>
    BY <1>0, <1>7, QueueOfOne DEF Drains
  <2>2. pool' \in Seq(Buffers) /\ Len(pool) < PoolSize /\ Len(pool') = Len(pool) + 1
    BY <1>7, <2>1, RoomForIt DEF Drains
  <2> QED
    BY <1>0, <1>7, <2>1, <2>2 DEF Drains
<1> QED
  BY <1>1, <1>2, <1>3, <1>4, <1>5, <1>6, <1>7 DEF Moves

LEMMA MovesKeepOwners ==
  ASSUME StreamInv, Moves
  PROVE  OneOwner'
<1> USE DEF StreamInv
<1>0. /\ Pooled = Members(pool) /\ Pooled' = Members(pool')
      /\ filling \in Buffers \cup {None} /\ held \in Frame \cup {None}
      /\ \A f \in Frame : f.buf \in Buffers
      /\ None \notin Buffers
  BY NoneIsNobody DEF StreamTypeOK, Pooled, Members, Frame
<1>1. CASE Stays
  BY <1>1 DEF Stays, OneOwner, Pooled, Queued
<1>2. CASE Takes
  <2>1. PICK b \in Buffers : TakeBuffer(b) /\ filling' = b
    BY <1>2 DEF Takes
  <2>2. /\ Distinct(pool') /\ Members(pool') \subseteq Members(pool)
        /\ b \notin Members(pool') \cup Queued /\ (held # None => b # held.buf)
    BY <1>2, <2>1, TakenIsFree DEF Takes
  <2>3. Queued' = Queued /\ held' = held
    BY <1>2 DEF Takes, Queued
  <2> QED
    BY <1>0, <2>1, <2>2, <2>3 DEF OneOwner
<1>3. CASE Drops
  <2>1. filling \in Buffers /\ filling \notin Pooled \cup Queued
        /\ (held # None => held.buf # filling)
    BY <1>0, <1>3 DEF Drops, OneOwner
  <2>2. Distinct(pool') /\ Members(pool') = Members(pool) \cup {filling}
    BY <1>0, <1>3, <2>1, RoomForIt DEF Drops, OneOwner
  <2>3. Queued' = Queued /\ held' = held /\ filling' = None
    BY <1>3 DEF Drops, Queued
  <2> QED
    BY <1>0, <2>1, <2>2, <2>3 DEF OneOwner
<1>4. CASE Queues
  <2>1. Queued' = {filling} /\ filling # None /\ filling' = None /\ UNCHANGED <<pool, held>>
    BY <1>4, FrameQueued DEF Queues, Places
  <2> QED
    BY <1>0, <2>1 DEF OneOwner
<1>5. CASE Receives
  <2>1. Queued = {held'.buf} /\ held' \in Frame /\ queue' = <<>> /\ UNCHANGED <<pool, filling>>
    BY <1>5, QueueOfOne DEF Receives
  <2>2. Queued' = {}
    BY <2>1 DEF Queued
  <2> QED
    BY <1>0, <2>1, <2>2 DEF OneOwner
<1>6. CASE Releases
  <2>1. held.buf \in Buffers /\ held.buf \notin Pooled \cup Queued \cup {filling}
    BY <1>0, <1>6 DEF Releases, OneOwner
  <2>2. Distinct(pool') /\ Members(pool') = Members(pool) \cup {held.buf}
    BY <1>0, <1>6, <2>1, RoomForIt DEF Releases, OneOwner
  <2>3. Queued' = Queued /\ filling' = filling /\ held' = None
    BY <1>6 DEF Releases, Queued
  <2> QED
    BY <1>0, <2>1, <2>2, <2>3 DEF OneOwner
<1>7. CASE Drains
  <2>1. /\ Queued = {Head(queue).buf} /\ Head(queue).buf \in Buffers /\ queue' = <<>>
        /\ UNCHANGED <<filling, held>>
    BY <1>0, <1>7, QueueOfOne DEF Drains
  <2>2. Distinct(pool') /\ Members(pool') = Members(pool) \cup {Head(queue).buf}
    BY <1>0, <1>7, <2>1, RoomForIt DEF Drains, OneOwner
  <2>3. Queued' = {}
    BY <2>1 DEF Queued
  <2> QED
    BY <1>0, <2>1, <2>2, <2>3 DEF OneOwner
<1> QED
  BY <1>1, <1>2, <1>3, <1>4, <1>5, <1>6, <1>7 DEF Moves

LEMMA MovesKeepEnough ==
  ASSUME StreamInv, Moves
  PROVE  Enough'
<1> USE DEF StreamInv
<1>0. /\ filling \in Buffers \cup {None} /\ held \in Frame \cup {None}
      /\ None \notin Buffers /\ None \notin Frame
      /\ Len(pool) \in Nat /\ Len(queue) \in {0, 1} /\ PoolSize = 3
      /\ \A f \in Frame : f.buf \in Buffers
      /\ <<>> \in Seq(Frame) /\ Len(<<>>) = 0
  BY NoneIsNobody, LenProperties, QueueOfOne DEF StreamTypeOK, PoolSize, Frame
<1>a. One(filling) \in {0, 1} /\ One(held) \in {0, 1}
  BY DEF One
<1>1. CASE Stays
  BY <1>1 DEF Stays, Enough, One
<1>2. CASE Takes
  <2>1. PICK b \in Buffers : TakeBuffer(b) /\ filling' = b
    BY <1>2 DEF Takes
  <2>2. \/ Len(pool') = Len(pool) - 1
        \/ Len(pool') = 0 /\ Len(pool) = 0
    BY <1>0, <1>2, <2>1, TakenIsFree DEF Takes
  <2>3. One(filling) = 0 /\ One(filling') = 1 /\ UNCHANGED queue
        /\ One(held') = One(held)
    BY <1>0, <1>2, <2>1 DEF Takes, One
  <2>4. Len(queue') = Len(queue)
    BY <2>3
  <2>5. CASE Len(pool') = Len(pool) - 1
    <3>1. Len(pool') + Len(queue') + One(filling') + One(held')
            = Len(pool) + Len(queue) + One(filling) + One(held)
      BY <1>0, <1>a, <2>3, <2>4, <2>5
    <3> QED
      BY <3>1 DEF Enough
  <2>6. CASE Len(pool') = 0
    <3>1. Len(pool') + Len(queue') + One(filling') + One(held') <= 3
      <4>1. Len(queue') = 0 \/ Len(queue') = 1
        BY <1>0, <2>4
      <4>2. One(held') = 0 \/ One(held') = 1
        BY <1>a, <2>3
      <4>3. One(filling') = 1
        BY <2>3
      <4> QED
        BY <2>6, <4>1, <4>2, <4>3
    <3> QED
      BY <1>0, <3>1 DEF Enough, PoolSize
  <2> QED
    BY <2>2, <2>5, <2>6
<1>3. CASE Drops
  <2>1. Len(pool') = Len(pool) + 1
    BY <1>0, <1>3, RoomForIt DEF Drops
  <2>2. One(filling) = 1 /\ One(filling') = 0 /\ UNCHANGED queue
        /\ One(held') = One(held)
    BY <1>3 DEF Drops, One
  <2> QED
    BY <1>0, <1>a, <2>1, <2>2 DEF Enough
<1>4. CASE Queues
  <2>1. Len(queue) = 0 /\ Len(queue') = 1 /\ UNCHANGED pool
        /\ One(held') = One(held)
    BY <1>4, FrameQueued DEF Queues, One
  <2>2. One(filling) = 1 /\ One(filling') = 0
    BY <1>4 DEF Queues, Places, One
  <2> QED
    BY <1>0, <1>a, <2>1, <2>2 DEF Enough
<1>5. CASE Receives
  <2>1. Len(queue) = 1 /\ Len(queue') = 0 /\ UNCHANGED pool
        /\ One(filling') = One(filling)
    BY <1>0, <1>5, QueueOfOne DEF Receives, One
  <2>2. One(held) = 0 /\ One(held') = 1
    BY <1>0, <1>5, QueueOfOne DEF Receives, One
  <2> QED
    BY <1>0, <1>a, <2>1, <2>2 DEF Enough
<1>6. CASE Releases
  <2>1. Len(pool') = Len(pool) + 1
    BY <1>0, <1>6, RoomForIt DEF Releases
  <2>2. One(held) = 1 /\ One(held') = 0 /\ UNCHANGED queue
        /\ One(filling') = One(filling)
    BY <1>6 DEF Releases, One
  <2> QED
    BY <1>0, <1>a, <2>1, <2>2 DEF Enough
<1>7. CASE Drains
  <2>1. Len(pool') = Len(pool) + 1
    BY <1>0, <1>7, QueueOfOne, RoomForIt DEF Drains
  <2>2. Len(queue) = 1 /\ Len(queue') = 0 /\ One(filling') = One(filling)
        /\ One(held') = One(held)
    BY <1>0, <1>7, QueueOfOne DEF Drains, One
  <2> QED
    BY <1>0, <1>a, <2>1, <2>2 DEF Enough
<1> QED
  BY <1>1, <1>2, <1>3, <1>4, <1>5, <1>6, <1>7 DEF Moves

LEMMA MovesKeepContents ==
  ASSUME StreamInv, Moves
  PROVE  Contents'
<1> USE DEF StreamInv
<1>0. /\ filling \in Buffers \cup {None} /\ held \in Frame \cup {None}
      /\ None \notin Buffers /\ None \notin Frame
      /\ content \in [Buffers -> 0 .. MaxMessages]
      /\ \A f \in Frame : f.buf \in Buffers
      /\ queue \in Seq(Frame) /\ \A k \in DOMAIN queue : queue[k] \in Frame
  BY NoneIsNobody, LenProperties, ElementOfSeq DEF StreamTypeOK, Frame
<1>1. ASSUME NEW b \in Buffers, b \notin Queued, held # None => held.buf # b,
             NEW n, content' = [content EXCEPT ![b] = n], UNCHANGED <<queue, held>>
      PROVE  FramesIntact'
  <2>1. \A k \in DOMAIN queue : queue[k].buf \in Buffers \ {b}
    BY <1>0, <1>1 DEF Queued
  <2>2. held # None => held.buf \in Buffers \ {b}
    BY <1>0, <1>1
  <2>3. \A c \in Buffers \ {b} : content'[c] = content[c]
    BY <1>0, <1>1
  <2> QED
    BY <1>1, <2>1, <2>2, <2>3 DEF Contents, FramesIntact
<1>2. CASE Stays
  <2>1. FramesIntact'
    <3>1. CASE UNCHANGED content
      BY <1>2, <3>1 DEF Stays, Contents, FramesIntact
    <3>2. CASE filling # None /\ content' = [content EXCEPT ![filling] = sent]
      BY <1>0, <1>1, <1>2, <3>2 DEF Stays, OneOwner
    <3> QED
      BY <1>2, <3>1, <3>2 DEF Stays
  <2>2. producer' = "queue" => content'[filling'] = sent'
    BY <1>2 DEF Stays, Contents
  <2> QED
    BY <2>1, <2>2 DEF Contents
<1>3. CASE Takes
  <2>1. PICK b \in Buffers :
          TakeBuffer(b) /\ filling' = b /\ content' = [content EXCEPT ![b] = 0]
    BY <1>3 DEF Takes
  <2>2. b \notin Queued /\ (held # None => held.buf # b)
    BY <1>3, <2>1, TakenIsFree DEF Takes
  <2>3. FramesIntact'
    BY <1>1, <1>3, <2>1, <2>2 DEF Takes
  <2> QED
    BY <1>3, <2>3 DEF Takes, Contents
<1>4. CASE Drops
  BY <1>4 DEF Drops, Contents, FramesIntact
<1>5. CASE Queues
  <2> DEFINE f == [buf |-> filling, msg |-> sent]
  <2>1. queue' = <<f>> /\ content[filling] = sent /\ UNCHANGED <<held, content>>
        /\ producer' = "check"
    BY <1>5, FrameQueued DEF Queues, Contents
  <2>2. DOMAIN queue' = {1} /\ queue'[1] = f
    BY <2>1
  <2> QED
    BY <2>1, <2>2 DEF Contents, FramesIntact
<1>6. CASE Receives
  <2>1. queue = <<held'>> /\ queue' = <<>>
    BY <1>6, QueueOfOne DEF Receives
  <2>2. 1 \in DOMAIN queue /\ queue[1] = held' /\ DOMAIN queue' = {}
    BY <2>1
  <2> QED
    BY <1>6, <2>2 DEF Receives, Contents, FramesIntact
<1>7. CASE Releases
  BY <1>7 DEF Releases, Contents, FramesIntact
<1>8. CASE Drains
  <2>1. queue' = <<>>
    BY <1>8, QueueOfOne DEF Drains
  <2>2. DOMAIN queue' = {}
    BY <2>1
  <2> QED
    BY <1>8, <2>2 DEF Drains, Contents, FramesIntact
<1> QED
  BY <1>2, <1>3, <1>4, <1>5, <1>6, <1>7, <1>8 DEF Moves

-----------------------------------------------------------------------------
(***************************************************************************)
(* The steps                                                               *)
(***************************************************************************)
LEMMA StepPlaces == StreamInv /\ [StreamNext]_stream => Places'
<1> SUFFICES ASSUME StreamTypeOK, Places, [StreamNext]_stream PROVE Places'
  BY DEF StreamInv
<1>0. None \notin Buffers /\ None \notin Frame
  BY NoneIsNobody
<1> USE DEF Places
<1>1. CASE Connect \/ Upgraded \/ StopWatch
  BY <1>1 DEF Connect, Upgraded, StopWatch
<1>2. CASE Watch
  BY <1>2 DEF Watch
<1>3. CASE DialFails \/ DialInterrupted
  BY <1>3 DEF DialInterrupted, DialFails
<1>4. CASE CheckContext
  BY <1>4 DEF CheckContext, End
<1>5. CASE MessageBegins
  <2>1. filling' \in Buffers /\ sent' = sent + 1 /\ sent \in Nat
        /\ producer' = "fill" /\ UNCHANGED <<held, consumer>>
    BY <1>5 DEF MessageBegins, StreamTypeOK
  <2> QED
    BY <1>0, <2>1
<1>6. CASE NoMessage \/ MessageBroken \/ DropFrame
  <2>1. filling' = None /\ producer' = "closed" /\ UNCHANGED <<held, consumer>>
    BY <1>6 DEF NoMessage, MessageBroken, DropFrame, End
  <2> QED
    BY <2>1
<1>7. CASE MessageComplete \/ QueueFrame
  BY <1>7 DEF MessageComplete, QueueFrame
<1>8. CASE AfterFunc \/ ReleaseCopy \/ Cancel \/ UNCHANGED stream
  BY <1>8 DEF AfterFunc, ReleaseCopy, Cancel, stream
<1>9. CASE Receive
  <2>1. held' # None
    BY <1>0, <1>9, QueueOfOne DEF Receive
  <2> QED
    BY <1>9, <2>1 DEF Receive
<1>10. CASE Release \/ Leave \/ DrainStream
  BY <1>10 DEF Release, Leave, DrainStream
<1> QED
  BY <1>1, <1>2, <1>3, <1>4, <1>5, <1>6, <1>7, <1>8, <1>9, <1>10
  DEF StreamNext, Dial, Produce, ReadInterrupted, Consume

LEMMA StepStreamTypeOK == StreamInv /\ [StreamNext]_stream => StreamTypeOK'
<1> SUFFICES ASSUME StreamInv, [StreamNext]_stream PROVE StreamTypeOK'
  OBVIOUS
<1>0. /\ filling' \in Buffers \cup {None} /\ held' \in Frame \cup {None}
      /\ sent' \in 0 .. MaxMessages /\ content' \in [Buffers -> 0 .. MaxMessages]
      /\ queue' \in Seq(Frame) /\ Len(queue') <= QueueSize
      /\ pool' \in Seq(Buffers) /\ Len(pool') <= PoolSize
  BY StepMoves, MovesKeepTypes
<1> DEFINE Others ==
      /\ cancelled' \in BOOLEAN /\ watch' \in {"none", "dial", "stream"}
      /\ conn' \in {"none", "open", "closed"} /\ producer' \in ProducerPcs
      /\ consumer' \in {"waiting", "select", "using", "draining", "done"}
      /\ copy' \in Buffers \cup {None}
<1>a. /\ cancelled \in BOOLEAN /\ watch \in {"none", "dial", "stream"}
      /\ conn \in {"none", "open", "closed"} /\ producer \in ProducerPcs
      /\ consumer \in {"waiting", "select", "using", "draining", "done"}
      /\ copy \in Buffers \cup {None} /\ StreamTypeOK /\ Places
  BY DEF StreamInv, StreamTypeOK
<1>1. ASSUME Connect \/ Upgraded \/ StopWatch \/ Watch \/ DialFails \/ DialInterrupted PROVE Others
  BY <1>a, <1>1
     DEF Connect, Upgraded, StopWatch, Watch, DialFails, DialInterrupted, ProducerPcs
<1>2. ASSUME CheckContext \/ NoMessage \/ MessageBroken \/ DropFrame PROVE Others
  BY <1>a, <1>2 DEF CheckContext, NoMessage, MessageBroken, DropFrame, End, ProducerPcs
<1>3. ASSUME MessageBegins \/ MessageComplete \/ QueueFrame PROVE Others
  BY <1>a, <1>3 DEF MessageBegins, MessageComplete, QueueFrame, ProducerPcs
<1>4. ASSUME AfterFunc \/ ReleaseCopy \/ Cancel \/ Receive \/ Leave
             \/ DrainStream \/ UNCHANGED stream
      PROVE  Others
  BY <1>a, <1>4 DEF AfterFunc, ReleaseCopy, Cancel, Receive, Leave, DrainStream, stream
<1>5. ASSUME Release PROVE Others
  <2>1. held.buf \in Buffers
    BY <1>a, <1>5 DEF Release, Places, StreamTypeOK, Frame
  <2> QED
    BY <1>a, <1>5, <2>1 DEF Release
<1>6. Others
  <2> HIDE DEF Others
  <2> QED
    BY <1>1, <1>2, <1>3, <1>4, <1>5
    DEF StreamNext, Dial, Produce, ReadInterrupted, Consume
<1> QED
  BY <1>0, <1>6 DEF StreamTypeOK

LEMMA StepStream == StreamInv /\ [StreamNext]_stream => StreamInv'
<1> SUFFICES ASSUME StreamInv, [StreamNext]_stream PROVE StreamInv'
  OBVIOUS
<1>1. Moves
  BY StepMoves
<1>2. OneOwner' /\ Enough' /\ Contents'
  BY <1>1, MovesKeepOwners, MovesKeepEnough, MovesKeepContents
<1>3. StreamTypeOK' /\ Places'
  BY StepStreamTypeOK, StepPlaces
<1> QED
  BY <1>2, <1>3 DEF StreamInv

\* The buffers of a stream keep their places: each has one owner, and all the
\* queued and used ones their message.
THEOREM StreamInvHolds == StreamSpec => []StreamInv
BY InitStream, StepStream, PTL DEF StreamSpec

\* The payload of a frame is the message it was received with until its
\* buffer is given back, and no copy's Release gives it back twice.
THEOREM FramesIntactHolds == StreamSpec => []FramesIntact
<1>1. StreamInv => FramesIntact
  BY DEF StreamInv, Contents
<1> QED
  BY <1>1, StreamInvHolds, PTL

\* However many messages come, the stream lives on three buffers.
LEMMA ThreeSuffice == StreamInv => ThreeBuffersSuffice
<1> SUFFICES ASSUME StreamInv PROVE ThreeBuffersSuffice
  OBVIOUS
<1> USE DEF StreamInv
<1> DEFINE F == IF filling = None THEN {} ELSE {filling}
           H == IF held = None THEN {} ELSE {held.buf}
<1>1. IsFiniteSet(Pooled) /\ Cardinality(Pooled) <= Len(pool) /\ Len(pool) \in Nat
  <2>1. Len(pool) \in Nat /\ DOMAIN pool = 1 .. Len(pool) /\ pool \in [1 .. Len(pool) -> Buffers]
    BY LenProperties DEF StreamTypeOK
  <2>2. pool \in Surjection(1 .. Len(pool), Pooled)
    BY <2>1 DEF Pooled, Surjection
  <2>3. IsFiniteSet(1 .. Len(pool)) /\ Cardinality(1 .. Len(pool)) = Len(pool)
    BY <2>1, FS_Interval
  <2> QED
    BY <2>1, <2>2, <2>3, FS_Surjection
<1>2. IsFiniteSet(Queued) /\ Cardinality(Queued) <= Len(queue) /\ Len(queue) \in Nat
  <2>1. CASE Len(queue) = 0 /\ Queued = {}
    BY <2>1, FS_EmptySet
  <2>2. CASE Len(queue) = 1 /\ Queued = {Head(queue).buf}
    <3>1. \A x : IsFiniteSet({x}) /\ Cardinality({x}) = 1
      BY FS_Singleton
    <3>2. IsFiniteSet(Queued) /\ Cardinality(Queued) = 1
      BY <2>2, <3>1
    <3> QED
      BY <2>2, <3>2
  <2> QED
    BY <2>1, <2>2, QueueOfOne
<1>3. IsFiniteSet(F) /\ Cardinality(F) = One(filling) /\ IsFiniteSet(H) /\ Cardinality(H) = One(held)
  BY FS_EmptySet, FS_Singleton DEF One
<1> HIDE DEF F, H
<1>4. ASSUME NEW S, NEW T, IsFiniteSet(S), IsFiniteSet(T)
      PROVE  /\ IsFiniteSet(S \cup T) /\ Cardinality(S \cup T) \in Nat
             /\ Cardinality(S \cup T) <= Cardinality(S) + Cardinality(T)
  <2>1. /\ IsFiniteSet(S \cup T)
        /\ Cardinality(S \cup T) = Cardinality(S) + Cardinality(T) - Cardinality(S \cap T)
    BY <1>4, FS_Union
  <2>2. IsFiniteSet(S \cap T)
    BY <1>4, FS_Subset
  <2> QED
    BY <1>4, <2>1, <2>2, FS_CardinalityType
<1>5. /\ IsFiniteSet(Pooled \cup Queued)
      /\ Cardinality(Pooled \cup Queued) <= Len(pool) + Len(queue)
      /\ Cardinality(Pooled \cup Queued) \in Nat
  BY <1>1, <1>2, <1>4, FS_CardinalityType
<1>6. /\ IsFiniteSet(F \cup H) /\ Cardinality(F \cup H) \in Nat
      /\ Cardinality(F \cup H) <= One(filling) + One(held)
  BY <1>3, <1>4, FS_CardinalityType
<1>7. One(filling) \in Nat /\ One(held) \in Nat
  BY DEF One
<1>8. /\ IsFiniteSet((Pooled \cup Queued) \cup (F \cup H))
      /\ Cardinality((Pooled \cup Queued) \cup (F \cup H)) <= PoolSize
      /\ Cardinality((Pooled \cup Queued) \cup (F \cup H)) \in Nat
  <2> DEFINE A == Pooled \cup Queued
             B == F \cup H
  <2>1. /\ IsFiniteSet(A \cup B) /\ Cardinality(A \cup B) \in Nat
        /\ Cardinality(A \cup B) <= Cardinality(A) + Cardinality(B)
    BY <1>4, <1>5, <1>6
  <2> HIDE DEF A, B
  <2>2. /\ Cardinality(A) \in Nat /\ Cardinality(A) <= Len(pool) + Len(queue)
        /\ Cardinality(B) \in Nat /\ Cardinality(B) <= One(filling) + One(held)
    BY <1>5, <1>6 DEF A, B
  <2>3. Cardinality(A \cup B) <= PoolSize
    BY <1>1, <1>2, <1>7, <2>1, <2>2 DEF Enough, PoolSize
  <2> QED
    BY <2>1, <2>3 DEF A, B
<1>9. InUse \ {None} \subseteq (Pooled \cup Queued) \cup (F \cup H)
  BY DEF InUse, F, H
<1>10. Cardinality(InUse \ {None}) <= Cardinality((Pooled \cup Queued) \cup (F \cup H))
       /\ IsFiniteSet(InUse \ {None})
  BY <1>8, <1>9, FS_Subset
<1> QED
  BY <1>8, <1>10, FS_CardinalityType DEF ThreeBuffersSuffice, PoolSize

\* However many messages a stream has, no more than three buffers are in its
\* pool, in its channel or in use at a time.
THEOREM ThreeBuffersSufficeHolds == StreamSpec => []ThreeBuffersSuffice
BY ThreeSuffice, StreamInvHolds, PTL

-----------------------------------------------------------------------------
(***************************************************************************)
(* Statistics: sums and testers are taken step by step, and what is so     *)
(* taken is found by induction on the number of steps.                     *)
(***************************************************************************)
\* Induction on numbers, for a set that is given: what holds of 0 and is handed
\* on from each k to k + 1 holds up to n.
Smaller == {x \in Nat \X Nat : x[1] < x[2]}

LEMMA LeastOf ==
  ASSUME NEW S, S \subseteq Nat, S # {}
  PROVE  \E x \in S : \A y \in S : x <= y
<1>1. IsWellFoundedOn(Smaller, Nat)
  BY NatLessThanWellFounded DEF OpToRel, Smaller
<1>2. \E x \in S : \A y \in S : ~(<<y, x>> \in Smaller)
  BY <1>1, WFMin
<1>3. PICK x \in S : \A y \in S : ~(<<y, x>> \in Smaller)
  BY <1>2
<1>4. ASSUME NEW y \in S PROVE x <= y
  <2>1. ~(y < x)
    <3>1. <<y, x>> \in Nat \X Nat
      OBVIOUS
    <3>2. <<y, x>> \notin Smaller
      BY <1>3
    <3> QED
      BY <3>1, <3>2 DEF Smaller
  <2> QED
    BY <2>1
<1> QED
  BY <1>4

LEMMA UpTo ==
  ASSUME NEW n \in Nat, NEW S, 0 \in S, \A k \in 0 .. n - 1 : k \in S => k + 1 \in S
  PROVE  \A k \in 0 .. n : k \in S
<1> DEFINE R == {k \in 0 .. n : k \notin S}
<1>1. SUFFICES ASSUME R # {} PROVE FALSE
  OBVIOUS
<1>2. PICK x \in R : \A y \in R : x <= y
  <2>1. R \subseteq Nat
    OBVIOUS
  <2> HIDE DEF R
  <2> QED
    BY <1>1, <2>1, LeastOf
<1>3. x # 0 /\ x \in 0 .. n /\ x \notin S
  OBVIOUS
<1>4. x - 1 \in 0 .. n - 1 /\ (x - 1) + 1 = x
  BY <1>3
<1>5. x - 1 \in S
  BY <1>2, <1>4
<1> QED
  BY <1>3, <1>4, <1>5

\* A sum taken step by step exists, ...
Summing(g, f, n) == g = [k \in 0 .. n |-> IF k = 0 THEN 0 ELSE g[k - 1] + f[k]]

LEMMA SumExists ==
  ASSUME NEW f, NEW n \in Nat PROVE \E g : Summing(g, f, n)
<1> DEFINE S == {k \in Nat : \E g : Summing(g, f, k)}
<1>1. 0 \in S
  <2>1. Summing([k \in 0 .. 0 |-> 0], f, 0)
    BY DEF Summing
  <2> QED
    BY <2>1
<1>2. ASSUME NEW k \in 0 .. n - 1, k \in S PROVE k + 1 \in S
  <2>1. PICK g : Summing(g, f, k)
    BY <1>2
  <2> DEFINE h == [j \in 0 .. k + 1 |-> IF j = k + 1 THEN g[k] + f[k + 1] ELSE g[j]]
  <2>2. Summing(h, f, k + 1)
    <3>1. ASSUME NEW j \in 0 .. k + 1
          PROVE  h[j] = IF j = 0 THEN 0 ELSE h[j - 1] + f[j]
      <4>1. CASE j = k + 1
        <5>1. h[j] = g[k] + f[k + 1] /\ h[k] = g[k] /\ j # 0 /\ j - 1 = k
          BY <4>1
        <5> QED
          BY <5>1, <4>1
      <4>2. CASE j # k + 1
        <5>1. j \in 0 .. k
          BY <4>2
        <5>2. h[j] = g[j] /\ (j # 0 => h[j - 1] = g[j - 1])
          BY <5>1
        <5>3. g[j] = IF j = 0 THEN 0 ELSE g[j - 1] + f[j]
          BY <2>1, <5>1 DEF Summing
        <5> QED
          BY <5>2, <5>3
      <4> QED
        BY <4>1, <4>2
    <3>2. h = [j \in 0 .. k + 1 |-> h[j]]
      OBVIOUS
    <3> HIDE DEF h
    <3> QED
      BY <3>1, <3>2 DEF Summing
  <2> QED
    BY <2>2
<1>3. n \in S
  <2> HIDE DEF S
  <2> QED
    BY <1>1, <1>2, UpTo
<1> QED
  BY <1>3

LEMMA SumIsStepwise ==
  ASSUME NEW f, NEW n \in Nat
  PROVE  \E g : Summing(g, f, n) /\ SumTo(f, n) = g[n]
<1> DEFINE g == CHOOSE g : Summing(g, f, n)
<1>1. Summing(g, f, n)
  BY SumExists
<1>2. SumTo(f, n) = g[n]
  BY DEF SumTo, Summing
<1> QED
  BY <1>1, <1>2

\* ... two that begin with the same numbers are the same so far, ...
LEMMA SumsAgree ==
  ASSUME NEW f, NEW e, NEW n \in Nat, NEW m \in Nat, n <= m,
         \A k \in 1 .. n : f[k] = e[k],
         NEW g, NEW h, Summing(g, f, n), Summing(h, e, m)
  PROVE  g[n] = h[n]
<1> DEFINE S == {k \in 0 .. n : g[k] = h[k]}
<1>1. 0 \in S
  BY DEF Summing
<1>2. ASSUME NEW k \in 0 .. n - 1, k \in S PROVE k + 1 \in S
  <2>1. k + 1 \in 0 .. n /\ k + 1 \in 0 .. m /\ k + 1 # 0 /\ (k + 1) - 1 = k /\ k + 1 \in 1 .. n
    OBVIOUS
  <2>2. g[k + 1] = g[k] + f[k + 1] /\ h[k + 1] = h[k] + e[k + 1]
    BY <2>1 DEF Summing
  <2>3. g[k] = h[k]
    BY <1>2
  <2> QED
    BY <2>1, <2>2, <2>3
<1>3. n \in S
  <2> HIDE DEF S
  <2> QED
    BY <1>1, <1>2, UpTo
<1> QED
  BY <1>3

\* ... so that it grows by one number at a time.
LEMMA SumOfNone == ASSUME NEW f PROVE SumTo(f, 0) = 0
BY SumIsStepwise DEF Summing

LEMMA SumSame ==
  ASSUME NEW f, NEW e, NEW n \in Nat, \A k \in 1 .. n : f[k] = e[k]
  PROVE  SumTo(f, n) = SumTo(e, n)
<1>1. PICK g : Summing(g, f, n) /\ SumTo(f, n) = g[n]
  BY SumIsStepwise
<1>2. PICK h : Summing(h, e, n) /\ SumTo(e, n) = h[n]
  BY SumIsStepwise
<1> QED
  BY <1>1, <1>2, SumsAgree

LEMMA SumGrows ==
  ASSUME NEW f, NEW n \in Nat
  PROVE  SumTo(f, n + 1) = SumTo(f, n) + f[n + 1]
<1>1. PICK g : Summing(g, f, n) /\ SumTo(f, n) = g[n]
  BY SumIsStepwise
<1>2. PICK h : Summing(h, f, n + 1) /\ SumTo(f, n + 1) = h[n + 1]
  BY SumIsStepwise
<1>3. g[n] = h[n]
  <2> DEFINE m == n + 1
  <2>1. PICK e : e = f
    OBVIOUS
  <2>2. m \in Nat /\ n <= m /\ Summing(h, e, m)
    BY <1>2, <2>1
  <2>3. Summing(g, f, n) /\ \A k \in 1 .. n : f[k] = e[k]
    BY <1>1, <2>1
  <2> HIDE DEF m
  <2> QED
    BY <2>2, <2>3, SumsAgree
<1>4. h[n + 1] = h[n] + f[n + 1]
  <2>1. n + 1 \in 0 .. n + 1 /\ n + 1 # 0 /\ (n + 1) - 1 = n
    OBVIOUS
  <2> QED
    BY <1>2, <2>1 DEF Summing
<1> QED
  BY <1>1, <1>2, <1>3, <1>4

-----------------------------------------------------------------------------
\* Add takes the bytes of a chunk one after the other.
Adding(run, t, chunk, n) ==
  run = [k \in 0 .. n |-> IF k = 0 THEN t ELSE AddByte(run[k - 1], chunk[k])]

LEMMA RunExists ==
  ASSUME NEW t, NEW chunk, NEW n \in Nat PROVE \E run : Adding(run, t, chunk, n)
<1> DEFINE S == {k \in Nat : \E g : Adding(g, t, chunk, k)}
<1>1. 0 \in S
  <2>1. Adding([k \in 0 .. 0 |-> t], t, chunk, 0)
    BY DEF Adding
  <2> QED
    BY <2>1
<1>2. ASSUME NEW k \in 0 .. n - 1, k \in S PROVE k + 1 \in S
  <2>1. PICK g : Adding(g, t, chunk, k)
    BY <1>2
  <2> DEFINE h == [j \in 0 .. k + 1 |-> IF j = k + 1 THEN AddByte(g[k], chunk[k + 1]) ELSE g[j]]
  <2>2. Adding(h, t, chunk, k + 1)
    <3>1. ASSUME NEW j \in 0 .. k + 1
          PROVE  h[j] = IF j = 0 THEN t ELSE AddByte(h[j - 1], chunk[j])
      <4>1. CASE j = k + 1
        <5>1. h[j] = AddByte(g[k], chunk[k + 1]) /\ h[k] = g[k] /\ j # 0 /\ j - 1 = k
          BY <4>1
        <5> QED
          BY <5>1, <4>1
      <4>2. CASE j # k + 1
        <5>1. j \in 0 .. k
          BY <4>2
        <5>2. h[j] = g[j] /\ (j # 0 => h[j - 1] = g[j - 1])
          BY <5>1
        <5>3. g[j] = IF j = 0 THEN t ELSE AddByte(g[j - 1], chunk[j])
          BY <2>1, <5>1 DEF Adding
        <5> QED
          BY <5>2, <5>3
      <4> QED
        BY <4>1, <4>2
    <3>2. h = [j \in 0 .. k + 1 |-> h[j]]
      OBVIOUS
    <3> HIDE DEF h
    <3> QED
      BY <3>1, <3>2 DEF Adding
  <2> QED
    BY <2>2
<1>3. n \in S
  <2> HIDE DEF S
  <2> QED
    BY <1>1, <1>2, UpTo
<1> QED
  BY <1>3

LEMMA AddIsStepwise ==
  ASSUME NEW t, NEW chunk, Len(chunk) \in Nat
  PROVE  \E run : Adding(run, t, chunk, Len(chunk)) /\ Add(t, chunk) = run[Len(chunk)]
<1> DEFINE run == CHOOSE run : Adding(run, t, chunk, Len(chunk))
<1>1. Adding(run, t, chunk, Len(chunk))
  BY RunExists
<1>2. Add(t, chunk) = run[Len(chunk)]
  BY DEF Add, Adding
<1> QED
  BY <1>1, <1>2

LEMMA SumIsInt ==
  ASSUME NEW f, NEW n \in Nat, \A k \in 1 .. n : f[k] \in Int
  PROVE  SumTo(f, n) \in Int
<1> DEFINE S == {k \in 0 .. n : SumTo(f, k) \in Int}
<1>1. 0 \in S
  BY SumOfNone
<1>2. ASSUME NEW k \in 0 .. n - 1, k \in S PROVE k + 1 \in S
  <2>1. k + 1 \in 1 .. n /\ k \in Nat
    OBVIOUS
  <2>2. SumTo(f, k + 1) = SumTo(f, k) + f[k + 1]
    BY <2>1, SumGrows
  <2>3. f[k + 1] \in Int /\ SumTo(f, k) \in Int
    BY <1>2, <2>1
  <2> QED
    BY <2>1, <2>2, <2>3
<1>3. n \in S
  <2>1. \A k \in 0 .. n - 1 : k \in S => k + 1 \in S
    BY <1>2
  <2> HIDE DEF S
  <2>2. \A k \in 0 .. n : k \in S
    BY <1>1, <2>1, UpTo
  <2> QED
    BY <2>2
<1> QED
  BY <1>3

\* What a tester has counted when it is behind the first n bytes of s.
Is(s, v) == [i \in 1 .. Len(s) |-> IF s[i] = v THEN 1 ELSE 0]
Ones(s) == [i \in 1 .. Len(s) |-> OnesCount[s[i]]]
Squares(s) == [i \in 1 .. Len(s) |-> s[i] * s[i]]
Products(s) == [i \in 1 .. Len(s) - 1 |-> s[i] * s[i + 1]]

Describes(t, s, n) ==
  /\ t.total = n
  /\ t.hist = [v \in Bytes |-> SumTo(Is(s, v), n)]
  /\ t.ones = SumTo(Ones(s), n)
  /\ t.sum = SumTo(s, n) /\ t.sumSq = SumTo(Squares(s), n)
  /\ n = 0 => t.havePrev = FALSE /\ t.pairs = 0 /\ t.sumProd = 0
  /\ n # 0 =>
       /\ t.havePrev = TRUE /\ t.prev = s[n]
       /\ t.pairs = n - 1 /\ t.sumProd = SumTo(Products(s), n - 1)

LEMMA ByteIsNumber == ASSUME NEW v \in Bytes PROVE v \in Int
BY StatisticsAssumption DEF StatisticsAssumption

LEMMA HistogramGrows ==
  ASSUME NEW s \in Seq(Bytes), NEW n \in Nat, n < Len(s)
  PROVE  [[v \in Bytes |-> SumTo(Is(s, v), n)] EXCEPT ![s[n + 1]] = @ + 1]
           = [v \in Bytes |-> SumTo(Is(s, v), n + 1)]
<1>1. n + 1 \in 1 .. Len(s) /\ s[n + 1] \in Bytes
  OBVIOUS
<1>2. ASSUME NEW v \in Bytes
      PROVE  SumTo(Is(s, v), n + 1) = IF v = s[n + 1] THEN SumTo(Is(s, v), n) + 1
                                                      ELSE SumTo(Is(s, v), n)
  <2>1. SumTo(Is(s, v), n + 1) = SumTo(Is(s, v), n) + Is(s, v)[n + 1]
    BY SumGrows
  <2>2. Is(s, v)[n + 1] = IF v = s[n + 1] THEN 1 ELSE 0
    BY <1>1 DEF Is
  <2>3. SumTo(Is(s, v), n) \in Int
    <3>1. \A k \in 1 .. n : Is(s, v)[k] \in Int
      BY DEF Is
    <3> QED
      BY <3>1, SumIsInt
  <2> QED
    BY <2>1, <2>2, <2>3
<1> DEFINE old == [v \in Bytes |-> SumTo(Is(s, v), n)]
<1>3. old[s[n + 1]] = SumTo(Is(s, s[n + 1]), n)
  BY <1>1
<1> QED
  BY <1>1, <1>2

LEMMA ByteDescribed ==
  ASSUME NEW s \in Seq(Bytes), NEW n \in Nat, n < Len(s), NEW t, Describes(t, s, n)
  PROVE  Describes(AddByte(t, s[n + 1]), s, n + 1)
<1> DEFINE v == s[n + 1]
           u == AddByte(t, v)
<1>1. n + 1 \in 1 .. Len(s) /\ n + 1 # 0 /\ (n + 1) - 1 = n /\ v \in Int
  BY ByteIsNumber
<1>2. u.total = n + 1 /\ u.prev = s[n + 1] /\ u.havePrev = TRUE
  BY DEF Describes, AddByte
<1>3. u.hist = [w \in Bytes |-> SumTo(Is(s, w), n + 1)]
  <2>1. u.hist = [t.hist EXCEPT ![v] = @ + 1]
    BY DEF AddByte
  <2>2. t.hist = [w \in Bytes |-> SumTo(Is(s, w), n)]
    BY DEF Describes
  <2>3. [[w \in Bytes |-> SumTo(Is(s, w), n)] EXCEPT ![v] = @ + 1]
          = [w \in Bytes |-> SumTo(Is(s, w), n + 1)]
    BY HistogramGrows
  <2> HIDE DEF u, v
  <2> QED
    BY <2>1, <2>2, <2>3, Zenon
<1>4. u.ones = SumTo(Ones(s), n + 1)
  <2>1. u.ones = SumTo(Ones(s), n) + OnesCount[v]
    BY DEF AddByte, Describes
  <2>2. Ones(s)[n + 1] = OnesCount[v]
    BY <1>1 DEF Ones
  <2> QED
    BY <2>1, <2>2, SumGrows
<1>5. u.sum = SumTo(s, n + 1)
  <2>1. u.sum = SumTo(s, n) + v
    BY DEF AddByte, Describes
  <2> QED
    BY <2>1, SumGrows
<1>6. u.sumSq = SumTo(Squares(s), n + 1)
  <2>1. u.sumSq = SumTo(Squares(s), n) + v * v
    BY DEF AddByte, Describes
  <2>2. Squares(s)[n + 1] = v * v
    BY <1>1 DEF Squares
  <2> QED
    BY <2>1, <2>2, SumGrows
<1>7. u.pairs = n /\ u.sumProd = SumTo(Products(s), n)
  <2>1. CASE n = 0
    <3>1. u.pairs = 0 /\ u.sumProd = 0
      BY <2>1 DEF AddByte, Describes
    <3> QED
      BY <2>1, <3>1, SumOfNone
  <2>2. CASE n # 0
    <3> DEFINE m == n - 1
    <3>1. t.havePrev = TRUE /\ t.prev = s[n] /\ t.pairs = m /\ t.sumProd = SumTo(Products(s), m)
      BY <2>2 DEF Describes
    <3>2. u.pairs = m + 1 /\ u.sumProd = SumTo(Products(s), m) + s[n] * v
      BY <3>1 DEF AddByte
    <3>3. m \in Nat /\ m + 1 = n /\ m + 1 \in 1 .. Len(s) - 1
      BY <2>2
    <3>4. Products(s)[m + 1] = s[n] * v
      BY <3>3 DEF Products
    <3>5. SumTo(Products(s), m + 1) = SumTo(Products(s), m) + Products(s)[m + 1]
      <4> HIDE DEF m
      <4> QED
        BY <3>3, SumGrows
    <3> QED
      BY <3>2, <3>3, <3>4, <3>5
  <2> QED
    BY <2>1, <2>2
<1> HIDE DEF u
<1>8. Describes(u, s, n + 1)
  BY <1>1, <1>2, <1>3, <1>4, <1>5, <1>6, <1>7 DEF Describes
<1> QED
  BY <1>8 DEF u

\* What describes the beginning of a stream describes it when it goes on.
LEMMA StillDescribed ==
  ASSUME NEW s \in Seq(Bytes), NEW r \in Seq(Bytes), NEW n \in Nat,
         n <= Len(s), n <= Len(r), \A k \in 1 .. n : s[k] = r[k],
         NEW t, Describes(t, s, n)
  PROVE  Describes(t, r, n)
<1>1. ASSUME NEW v \in Bytes PROVE SumTo(Is(s, v), n) = SumTo(Is(r, v), n)
  <2>1. \A k \in 1 .. n : Is(s, v)[k] = Is(r, v)[k]
    BY DEF Is
  <2> QED
    BY <2>1, SumSame
<1>2. SumTo(Ones(s), n) = SumTo(Ones(r), n)
  <2>1. \A k \in 1 .. n : Ones(s)[k] = Ones(r)[k]
    BY DEF Ones
  <2> QED
    BY <2>1, SumSame
<1>3. SumTo(s, n) = SumTo(r, n)
  BY SumSame
<1>4. SumTo(Squares(s), n) = SumTo(Squares(r), n)
  <2>1. \A k \in 1 .. n : Squares(s)[k] = Squares(r)[k]
    BY DEF Squares
  <2> QED
    BY <2>1, SumSame
<1>5. ASSUME n # 0
      PROVE  s[n] = r[n] /\ SumTo(Products(s), n - 1) = SumTo(Products(r), n - 1)
  <2> DEFINE m == n - 1
  <2>1. m \in Nat /\ \A k \in 1 .. m : Products(s)[k] = Products(r)[k]
    BY <1>5 DEF Products
  <2>2. SumTo(Products(s), m) = SumTo(Products(r), m)
    <3> HIDE DEF m
    <3> QED
      BY <2>1, SumSame
  <2> QED
    BY <1>5, <2>2
<1>6. [v \in Bytes |-> SumTo(Is(s, v), n)] = [v \in Bytes |-> SumTo(Is(r, v), n)]
  BY <1>1
<1> QED
  BY <1>2, <1>3, <1>4, <1>5, <1>6 DEF Describes

LEMMA ChunkDescribed ==
  ASSUME NEW d \in Seq(Bytes), NEW chunk \in Seq(Bytes), NEW t, Describes(t, d, Len(d))
  PROVE  /\ d \o chunk \in Seq(Bytes) /\ Len(d \o chunk) = Len(d) + Len(chunk)
         /\ Describes(Add(t, chunk), d \o chunk, Len(d \o chunk))
<1> DEFINE s == d \o chunk
           n == Len(d)
           m == Len(chunk)
<1>1. /\ s \in Seq(Bytes) /\ n \in Nat /\ m \in Nat /\ Len(s) = n + m
      /\ \A k \in 1 .. n : s[k] = d[k]
      /\ \A k \in 1 .. m : s[n + k] = chunk[k]
  OBVIOUS
<1>2. PICK run : Adding(run, t, chunk, m) /\ Add(t, chunk) = run[m]
  BY <1>1, AddIsStepwise
<1> DEFINE S == {k \in 0 .. m : Describes(run[k], s, n + k)}
<1> HIDE DEF s, n, m
<1>3. 0 \in S
  <2>1. run[0] = t
    BY <1>1, <1>2 DEF Adding
  <2>2. Describes(t, d, n)
    BY DEF n
  <2>3. n <= Len(s) /\ n <= Len(d) /\ \A k \in 1 .. n : d[k] = s[k]
    BY <1>1 DEF n
  <2>4. Describes(t, s, n)
    BY <1>1, <2>2, <2>3, StillDescribed
  <2> QED
    BY <1>1, <2>1, <2>4
<1>4. ASSUME NEW k \in 0 .. m - 1, k \in S PROVE k + 1 \in S
  <2> DEFINE j == n + k
  <2>1. j \in Nat /\ j < Len(s) /\ k + 1 \in 1 .. m /\ k + 1 \in 0 .. m
    BY <1>1
  <2>2. run[k + 1] = AddByte(run[k], chunk[k + 1])
    <3>1. k + 1 # 0 /\ (k + 1) - 1 = k
      OBVIOUS
    <3> QED
      BY <1>2, <2>1, <3>1 DEF Adding
  <2>3. s[j + 1] = chunk[k + 1]
    <3>1. j + 1 = n + (k + 1)
      BY <1>1
    <3>2. s[n + (k + 1)] = chunk[k + 1]
      BY <1>1, <2>1
    <3> QED
      BY <3>1, <3>2
  <2>4. Describes(run[k], s, j)
    BY <1>4
  <2>5. Describes(AddByte(run[k], s[j + 1]), s, j + 1)
    <3> HIDE DEF j
    <3> QED
      BY <1>1, <2>1, <2>4, ByteDescribed
  <2>6. j + 1 = n + (k + 1)
    BY <1>1
  <2>7. Describes(run[k + 1], s, n + (k + 1))
    BY <2>2, <2>3, <2>5, <2>6
  <2> QED
    BY <2>1, <2>7
<1>5. m \in S
  <2>1. \A k \in 0 .. m - 1 : k \in S => k + 1 \in S
    BY <1>4
  <2> HIDE DEF S
  <2>2. \A k \in 0 .. m : k \in S
    BY <1>1, <1>3, <2>1, UpTo
  <2> QED
    BY <1>1, <2>2
<1>6. Describes(Add(t, chunk), s, Len(s))
  BY <1>1, <1>2, <1>5
<1> QED
  BY <1>1, <1>6 DEF s, n, m

-----------------------------------------------------------------------------
(***************************************************************************)
(* Statistics: the tester describes all that was read, and a report is     *)
(* due within an interval of the last one.                                 *)
(***************************************************************************)
Pace ==
  /\ reported \in Nat /\ nextCallback \in Nat
  /\ Len(data) - reported < Interval
  /\ transport = "http" /\ over = "" =>
       Len(data) < nextCallback /\ nextCallback <= reported + Interval
  /\ over = "eof" => reported = Len(data)

StatisticsInv ==
  /\ data \in Seq(Bytes) /\ Describes(tester, data, Len(data))
  /\ Pace

LEMMA InitStatistics == StatisticsInit => StatisticsInv
<1> SUFFICES ASSUME StatisticsInit PROVE StatisticsInv
  OBVIOUS
<1>0. /\ data = <<>> /\ nextCallback = Interval /\ reported = 0 /\ over = ""
      /\ tester = NewStreamTester
  BY DEF StatisticsInit
<1>1. data \in Seq(Bytes) /\ Len(data) = 0
  <2>1. data = <<>>
    BY <1>0
  <2> QED
    BY <2>1
<1>2. Describes(NewStreamTester, data, 0)
  <2>1. ASSUME NEW v \in Bytes PROVE SumTo(Is(data, v), 0) = 0
    BY SumOfNone
  <2>2. /\ SumTo(Ones(data), 0) = 0 /\ SumTo(data, 0) = 0 /\ SumTo(Squares(data), 0) = 0
    BY SumOfNone
  <2>3. [v \in Bytes |-> SumTo(Is(data, v), 0)] = [v \in Bytes |-> 0]
    BY <2>1
  <2> QED
    BY <2>2, <2>3 DEF Describes, NewStreamTester
<1>3. Pace
  <2>1. Interval \in Nat /\ 0 < Interval /\ Interval <= 0 + Interval /\ 0 - 0 < Interval
    BY StatisticsAssumption DEF StatisticsAssumption
  <2> QED
    BY <1>0, <1>1, <2>1 DEF Pace
<1> QED
  BY <1>0, <1>1, <1>2, <1>3 DEF StatisticsInv

LEMMA ChunkIsSequence ==
  ASSUME NEW chunk \in Chunks, data \in Seq(Bytes)
  PROVE  /\ chunk \in Seq(Bytes) /\ Len(chunk) > 0
         /\ transport = "http" => Len(chunk) <= ChunkSize
<1> DEFINE room == MaxBytes - Len(data)
           most == IF transport = "http" /\ ChunkSize < room THEN ChunkSize ELSE room
<1>1. most \in Int /\ (transport = "http" => most <= ChunkSize)
  BY StatisticsAssumption DEF StatisticsAssumption
<1>2. PICK n \in 1 .. most : chunk \in [1 .. n -> Bytes]
  BY DEF Chunks
<1>3. chunk \in Seq(Bytes) /\ Len(chunk) = n
  <2> HIDE DEF most
  <2>1. n \in Nat /\ chunk \in [1 .. n -> Bytes]
    BY <1>1, <1>2
  <2> QED
    BY <2>1
<1> HIDE DEF most
<1> QED
  BY <1>1, <1>3, StatisticsAssumption DEF StatisticsAssumption

LEMMA StepStatistics == StatisticsInv /\ [StatisticsNext]_statistics => StatisticsInv'
<1> SUFFICES ASSUME StatisticsInv, [StatisticsNext]_statistics PROVE StatisticsInv'
  OBVIOUS
<1> USE DEF StatisticsInv
<1>0. Len(data) \in Nat
  OBVIOUS
<1>1. CASE Take
  <2>1. PICK chunk \in Chunks :
          LET after == Add(tester, chunk) IN
          /\ tester' = after /\ data' = data \o chunk
          /\ \/ /\ Due(after.total)
                /\ reported' = after.total
                /\ nextCallback' = nextCallback + Interval
             \/ ~Due(after.total) /\ UNCHANGED <<reported, nextCallback>>
    BY <1>1 DEF Take
  <2>2. chunk \in Seq(Bytes) /\ Len(chunk) > 0 /\ (transport = "http" => Len(chunk) <= ChunkSize)
    BY ChunkIsSequence
  <2>3. /\ data' \in Seq(Bytes) /\ Len(data') = Len(data) + Len(chunk)
        /\ Describes(tester', data', Len(data'))
    BY <2>1, <2>2, ChunkDescribed
  <2> DEFINE length == Len(data')
  <2>4. Add(tester, chunk).total = length /\ length \in Nat
    BY <2>1, <2>3 DEF Describes
  <2>5. over = "" /\ UNCHANGED <<transport, over>>
    BY <1>1 DEF Take
  <2>6. length = Len(data) + Len(chunk) /\ Len(chunk) \in Nat
    BY <2>2, <2>3
  <2>7. /\ Interval \in Nat /\ ChunkSize \in Nat /\ ChunkSize <= Interval /\ 0 < Interval
    BY StatisticsAssumption DEF StatisticsAssumption
  <2>8. /\ reported \in Nat /\ nextCallback \in Nat
        /\ transport = "http" =>
             Len(data) < nextCallback /\ nextCallback <= reported + Interval
    BY <2>5 DEF Pace
  <2>9. Pace'
    <3> HIDE DEF length
    <3>1. CASE Due(length) /\ reported' = length /\ nextCallback' = nextCallback + Interval
      <4>1. transport = "http" => length >= nextCallback
        BY <3>1 DEF Due
      <4>2. transport = "http" => length < nextCallback + Interval
        BY <1>0, <2>2, <2>6, <2>7, <2>8
      <4>3. transport = "http" => nextCallback + Interval <= length + Interval
        BY <2>4, <2>7, <2>8, <4>1
      <4>4. length - length < Interval /\ nextCallback + Interval \in Nat
        BY <2>4, <2>7, <2>8
      <4> QED
        BY <2>4, <2>5, <3>1, <4>2, <4>3, <4>4 DEF Pace, length
    <3>2. CASE ~Due(length) /\ UNCHANGED <<reported, nextCallback>>
      <4>1. transport = "http" => length < nextCallback
        BY <2>4, <2>8, <3>2 DEF Due
      <4>2. length - reported < Interval
        BY <2>4, <2>7, <2>8, <3>2, <4>1 DEF Due
      <4> QED
        BY <2>4, <2>5, <2>8, <3>2, <4>1, <4>2 DEF Pace, length
    <3> QED
      BY <2>1, <2>4, <3>1, <3>2
  <2> QED
    BY <2>3, <2>9
<1>2. CASE EndOfBody
  <2>1. tester.total = Len(data)
    BY DEF Describes
  <2>2. UNCHANGED <<transport, tester, nextCallback, data>>
    BY <1>2 DEF EndOfBody
  <2>3. over' = "eof" /\ reported' = Len(data)
    BY <1>2, <2>1 DEF EndOfBody
  <2>4. Len(data) - Len(data) < Interval
    BY <1>0, StatisticsAssumption DEF StatisticsAssumption
  <2>5. Pace'
    BY <1>0, <2>2, <2>3, <2>4 DEF Pace
  <2> QED
    BY <2>2, <2>5
<1>3. CASE Fail
  <2>1. over' = "failed" /\ UNCHANGED <<transport, tester, nextCallback, reported, data>>
    BY <1>3 DEF Fail
  <2>2. Pace'
    BY <2>1 DEF Pace
  <2> QED
    BY <2>1, <2>2
<1>4. CASE UNCHANGED statistics
  BY <1>4 DEF statistics, Pace
<1> QED
  BY <1>1, <1>2, <1>3, <1>4 DEF StatisticsNext

\* What the tester has counted describes all that StreamTester.Add was given,
\* and the next report is in time.
THEOREM StatisticsInvHolds == StatisticsSpec => []StatisticsInv
BY InitStatistics, StepStatistics, PTL DEF StatisticsSpec

\* Less than an interval is ever behind the last report, for any chunks of an
\* interval at most.
THEOREM ReportsKeepPaceHolds == StatisticsSpec => []ReportsKeepPace
<1>1. StatisticsInv => ReportsKeepPace
  BY DEF StatisticsInv, Pace, Describes, ReportsKeepPace
<1> QED
  BY <1>1, StatisticsInvHolds, PTL

-----------------------------------------------------------------------------
(***************************************************************************)
(* The two-pass formulas of RunDiagnostics, multiplied out.                *)
(***************************************************************************)
Deviations(d, N, S) == [i \in 1 .. N |-> (N * d[i] - S) * (N * d[i] - S)]
Codeviations(d, N, S) == [i \in 1 .. N - 1 |-> (N * d[i] - S) * (N * d[i + 1] - S)]

LEMMA SumsAreInt ==
  ASSUME NEW d \in Seq(Bytes), NEW m \in Nat
  PROVE  /\ m <= Len(d) => SumTo(d, m) \in Int /\ SumTo(Squares(d), m) \in Int
         /\ m <= Len(d) - 1 => SumTo(Products(d), m) \in Int
<1>1. \A k \in 1 .. Len(d) : d[k] \in Int
  BY ByteIsNumber
<1>2. \A k \in 1 .. Len(d) : Squares(d)[k] \in Int
  BY <1>1 DEF Squares
<1>3. \A k \in 1 .. Len(d) - 1 : Products(d)[k] \in Int
  BY <1>1 DEF Products
<1>4. ASSUME m <= Len(d) PROVE SumTo(d, m) \in Int
  <2>1. \A k \in 1 .. m : d[k] \in Int
    BY <1>1, <1>4
  <2> QED
    BY <2>1, SumIsInt
<1>5. ASSUME m <= Len(d) PROVE SumTo(Squares(d), m) \in Int
  <2>1. \A k \in 1 .. m : Squares(d)[k] \in Int
    BY <1>2, <1>5
  <2> QED
    BY <2>1, SumIsInt
<1>6. ASSUME m <= Len(d) - 1 PROVE SumTo(Products(d), m) \in Int
  <2>1. \A k \in 1 .. m : Products(d)[k] \in Int
    BY <1>3, <1>6
  <2> QED
    BY <2>1, SumIsInt
<1> QED
  BY <1>4, <1>5, <1>6

LEMMA OneDeviation ==
  ASSUME NEW N \in Int, NEW S \in Int, NEW x \in Int, NEW P \in Int, NEW Q \in Int, NEW k \in Int
  PROVE  (N * N * Q - 2 * N * S * P + k * S * S) + (N * x - S) * (N * x - S)
           = N * N * (Q + x * x) - 2 * N * S * (P + x) + (k + 1) * S * S
OBVIOUS

LEMMA DeviationsMultipliedOut ==
  ASSUME NEW d \in Seq(Bytes), NEW S \in Int
  PROVE  \A m \in 0 .. Len(d) :
           SumTo(Deviations(d, Len(d), S), m)
             = Len(d) * Len(d) * SumTo(Squares(d), m) - 2 * Len(d) * S * SumTo(d, m) + m * S * S
<1> DEFINE N == Len(d)
           Dev == Deviations(d, N, S)
           M == {m \in 0 .. N :
                   SumTo(Dev, m)
                     = N * N * SumTo(Squares(d), m) - 2 * N * S * SumTo(d, m) + m * S * S}
<1>0. N \in Nat
  OBVIOUS
<1>1. 0 \in M
  <2>1. SumTo(Dev, 0) = 0 /\ SumTo(Squares(d), 0) = 0 /\ SumTo(d, 0) = 0
    BY SumOfNone
  <2>2. 0 = N * N * 0 - 2 * N * S * 0 + 0 * S * S
    BY <1>0
  <2> QED
    BY <1>0, <2>1, <2>2
<1>2. ASSUME NEW k \in 0 .. N - 1, k \in M PROVE k + 1 \in M
  <2> DEFINE x == d[k + 1]
             P == SumTo(d, k)
             Q == SumTo(Squares(d), k)
  <2>1. k + 1 \in 1 .. N /\ k \in Nat /\ k <= N
    BY <1>0
  <2>2. x \in Int /\ P \in Int /\ Q \in Int
    BY <2>1, ByteIsNumber, SumsAreInt
  <2>3. Dev[k + 1] = (N * x - S) * (N * x - S) /\ Squares(d)[k + 1] = x * x
    BY <2>1 DEF Deviations, Squares
  <2>4. /\ SumTo(Dev, k + 1) = SumTo(Dev, k) + Dev[k + 1]
        /\ SumTo(Squares(d), k + 1) = Q + Squares(d)[k + 1]
        /\ SumTo(d, k + 1) = P + x
    BY <2>1, SumGrows
  <2>5. SumTo(Dev, k) = N * N * Q - 2 * N * S * P + k * S * S
    BY <1>2
  <2> HIDE DEF x, P, Q, N, Dev
  <2>6. (N * N * Q - 2 * N * S * P + k * S * S) + (N * x - S) * (N * x - S)
           = N * N * (Q + x * x) - 2 * N * S * (P + x) + (k + 1) * S * S
    BY <1>0, <2>1, <2>2, OneDeviation
  <2>7. SumTo(Dev, k + 1)
          = N * N * SumTo(Squares(d), k + 1) - 2 * N * S * SumTo(d, k + 1) + (k + 1) * S * S
    BY <2>3, <2>4, <2>5, <2>6
  <2> QED
    BY <1>0, <2>1, <2>7
<1> HIDE DEF N, Dev
<1>3. \A m \in 0 .. N : m \in M
  <2>1. \A k \in 0 .. N - 1 : k \in M => k + 1 \in M
    BY <1>2
  <2> HIDE DEF M
  <2> QED
    BY <1>0, <1>1, <2>1, UpTo
<1> QED
  BY <1>3 DEF N, Dev

LEMMA OneCodeviation ==
  ASSUME NEW N \in Int, NEW S \in Int, NEW x \in Int, NEW y \in Int,
         NEW P \in Int, NEW R \in Int, NEW k \in Int
  PROVE  (N * N * R - N * S * P + k * S * S) + (N * x - S) * (N * y - S)
           = N * N * (R + x * y) - N * S * (P + x + y) + (k + 1) * S * S
OBVIOUS

LEMMA CodeviationsMultipliedOut ==
  ASSUME NEW d \in Seq(Bytes), NEW S \in Int, Len(d) > 0
  PROVE  \A m \in 0 .. Len(d) - 1 :
           SumTo(Codeviations(d, Len(d), S), m)
             = Len(d) * Len(d) * SumTo(Products(d), m)
                 - Len(d) * S * (SumTo(d, m) + SumTo(d, m + 1) - d[1]) + m * S * S
<1> DEFINE N == Len(d)
           Codev == Codeviations(d, N, S)
           Two(m) == SumTo(d, m) + SumTo(d, m + 1) - d[1]
           M == {m \in 0 .. N - 1 :
                   SumTo(Codev, m) = N * N * SumTo(Products(d), m) - N * S * Two(m) + m * S * S}
<1>0. N \in Nat /\ N > 0 /\ N - 1 \in Nat /\ d[1] \in Int
  <2>1. 1 \in 1 .. Len(d)
    OBVIOUS
  <2> QED
    BY <2>1, ByteIsNumber
<1>1. 0 \in M
  <2>1. SumTo(Codev, 0) = 0 /\ SumTo(Products(d), 0) = 0 /\ SumTo(d, 0) = 0
    BY SumOfNone
  <2>2. SumTo(d, 0 + 1) = SumTo(d, 0) + d[0 + 1]
    BY SumGrows
  <2>3. Two(0) = 0
    BY <1>0, <2>1, <2>2
  <2>4. 0 = N * N * 0 - N * S * 0 + 0 * S * S
    BY <1>0
  <2> HIDE DEF Two, Codev
  <2> QED
    BY <1>0, <2>1, <2>3, <2>4
<1>2. ASSUME NEW k \in 0 .. (N - 1) - 1, k \in M PROVE k + 1 \in M
  <2> DEFINE x == d[k + 1]
             y == d[k + 2]
             R == SumTo(Products(d), k)
             P == SumTo(d, k)
  <2>1. /\ k + 1 \in 1 .. N - 1 /\ k + 1 \in 1 .. N /\ k + 2 \in 1 .. N /\ k \in Nat
        /\ k <= N - 1 /\ k <= N /\ k + 1 \in Nat /\ (k + 1) + 1 = k + 2
    BY <1>0
  <2>2. x \in Int /\ y \in Int /\ P \in Int /\ R \in Int
    BY <2>1, ByteIsNumber, SumsAreInt
  <2>3. Codev[k + 1] = (N * x - S) * (N * y - S) /\ Products(d)[k + 1] = x * y
    BY <2>1 DEF Codeviations, Products
  <2>4. /\ SumTo(Codev, k + 1) = SumTo(Codev, k) + Codev[k + 1]
        /\ SumTo(Products(d), k + 1) = R + Products(d)[k + 1]
        /\ SumTo(d, k + 1) = P + x
    BY <2>1, SumGrows
  <2>5. SumTo(d, (k + 1) + 1) = SumTo(d, k + 1) + d[(k + 1) + 1]
    BY <2>1, SumGrows
  <2>6. SumTo(d, (k + 1) + 1) = P + x + y
    BY <2>1, <2>2, <2>4, <2>5
  <2>7. Two(k) = P + (P + x) - d[1] /\ Two(k) \in Int /\ Two(k + 1) = Two(k) + x + y
    <3> HIDE DEF x, y, P
    <3>1. Two(k) = P + (P + x) - d[1] /\ Two(k + 1) = (P + x) + (P + x + y) - d[1]
      BY <2>4, <2>6 DEF P
    <3> QED
      BY <1>0, <2>2, <3>1
  <2>8. SumTo(Codev, k) = N * N * R - N * S * Two(k) + k * S * S
    BY <1>2
  <2> HIDE DEF x, y, P, R, N, Codev, Two
  <2>9. (N * N * R - N * S * Two(k) + k * S * S) + (N * x - S) * (N * y - S)
          = N * N * (R + x * y) - N * S * (Two(k) + x + y) + (k + 1) * S * S
    BY <1>0, <2>1, <2>2, <2>7, OneCodeviation
  <2>10. SumTo(Codev, k + 1)
           = N * N * SumTo(Products(d), k + 1) - N * S * Two(k + 1) + (k + 1) * S * S
    BY <2>3, <2>4, <2>7, <2>8, <2>9
  <2>11. k + 1 \in 0 .. N - 1
    BY <1>0, <2>1
  <2> QED
    BY <2>10, <2>11
<1>3. \A m \in 0 .. N - 1 : m \in M
  <2> HIDE DEF N, Codev, Two
  <2>1. \A k \in 0 .. (N - 1) - 1 : k \in M => k + 1 \in M
    BY <1>2
  <2> HIDE DEF M
  <2> QED
    BY <1>0, <1>1, <2>1, UpTo
<1> QED
  BY <1>3

\* However the stream was cut into chunks, the live statistics are those that
\* RunDiagnostics makes of the whole, but for the ends in the correlation.
LEMMA DescribedAgrees ==
  ASSUME NEW d \in Seq(Bytes), NEW t, Describes(t, d, Len(d)), Len(d) >= 4
  PROVE  LET N == Len(d)
             all == Diagnostics(d)
         IN  /\ t.total = N /\ t.pairs = N - 1
             /\ t.hist = all.hist /\ t.ones = all.ones
             /\ N * Denominator(t) = all.den
             /\ N * Numerator(t) = all.num - t.sum * (N * (d[1] + d[N]) - t.sum)
<1> DEFINE N == Len(d)
           S == SumTo(d, N)
           Q == SumTo(Squares(d), N)
           R == SumTo(Products(d), N - 1)
           all == Diagnostics(d)
<1>0. N \in Nat /\ N >= 4 /\ N - 1 \in Nat /\ N \in 0 .. N /\ N - 1 \in 0 .. N - 1
  OBVIOUS
<1>1. S \in Int /\ Q \in Int /\ R \in Int /\ d[1] \in Int /\ d[N] \in Int
  <2>1. 1 \in 1 .. Len(d) /\ N \in 1 .. Len(d)
    BY <1>0
  <2>2. S \in Int /\ Q \in Int
    BY <1>0, SumsAreInt
  <2>3. R \in Int
    <3> DEFINE m == N - 1
    <3>1. m \in Nat /\ m <= Len(d) - 1
      BY <1>0
    <3>2. SumTo(Products(d), m) \in Int
      <4> HIDE DEF m
      <4> QED
        BY <3>1, SumsAreInt
    <3> QED
      BY <3>2
  <2> QED
    BY <2>1, <2>2, <2>3, ByteIsNumber
<1>2. /\ t.total = N /\ t.pairs = N - 1 /\ t.sum = S /\ t.sumSq = Q /\ t.sumProd = R
      /\ t.hist = [v \in Bytes |-> SumTo(Is(d, v), N)] /\ t.ones = SumTo(Ones(d), N)
  BY <1>0 DEF Describes
<1>3. /\ all.hist = [v \in Bytes |-> SumTo(Is(d, v), N)] /\ all.ones = SumTo(Ones(d), N)
      /\ all.den = SumTo(Deviations(d, N, S), N)
      /\ all.num = SumTo(Codeviations(d, N, S), N - 1)
  BY DEF Diagnostics, Is, Ones, Deviations, Codeviations
<1>4. all.den = N * N * Q - 2 * N * S * S + N * S * S
  BY <1>0, <1>1, <1>3, DeviationsMultipliedOut
<1>5. all.num = N * N * R - N * S * (S + S - d[N] - d[1]) + (N - 1) * S * S
  <2> DEFINE m == N - 1
  <2>1. SumTo(Codeviations(d, N, S), m)
          = N * N * R - N * S * (SumTo(d, m) + SumTo(d, m + 1) - d[1]) + m * S * S
    <3>1. Len(d) > 0 /\ m \in 0 .. Len(d) - 1
      BY <1>0
    <3>2. \A k \in 0 .. Len(d) - 1 :
            SumTo(Codeviations(d, Len(d), S), k)
              = Len(d) * Len(d) * SumTo(Products(d), k)
                  - Len(d) * S * (SumTo(d, k) + SumTo(d, k + 1) - d[1]) + k * S * S
      <4> HIDE DEF S, N
      <4> QED
        BY <1>1, <3>1, CodeviationsMultipliedOut
    <3> HIDE DEF S
    <3>3. SumTo(Codeviations(d, N, S), m)
            = N * N * SumTo(Products(d), m)
                - N * S * (SumTo(d, m) + SumTo(d, m + 1) - d[1]) + m * S * S
      <4> HIDE DEF m
      <4> QED
        BY <3>1, <3>2
    <3> QED
      BY <3>3
  <2>2. SumTo(d, m + 1) = SumTo(d, m) + d[m + 1]
    <3>1. m \in Nat
      BY <1>0
    <3> HIDE DEF m
    <3> QED
      BY <3>1, SumGrows
  <2>3. m + 1 = N /\ SumTo(d, m) \in Int
    <3>1. m \in Nat /\ m <= Len(d) /\ m + 1 = N
      BY <1>0
    <3> HIDE DEF m
    <3> QED
      BY <3>1, SumsAreInt
  <2>4. SumTo(d, m) + SumTo(d, m + 1) - d[1] = S + S - d[N] - d[1]
    BY <1>1, <2>2, <2>3
  <2> QED
    BY <1>3, <2>1, <2>4
<1> HIDE DEF N, S, Q, R, all
<1>6. N * (N * Q - S * S) = N * N * Q - 2 * N * S * S + N * S * S
  BY <1>0, <1>1
<1>7. N * (N * R - S * S)
        = (N * N * R - N * S * (S + S - d[N] - d[1]) + (N - 1) * S * S)
            - S * (N * (d[1] + d[N]) - S)
  BY <1>0, <1>1
<1>8. N * Denominator(t) = all.den /\ N * Numerator(t) = all.num - t.sum * (N * (d[1] + d[N]) - t.sum)
  BY <1>2, <1>4, <1>5, <1>6, <1>7 DEF Denominator, Numerator
<1> QED
  BY <1>2, <1>3, <1>8 DEF N, all

\* The statistics a StreamTester shows of a stream are those RunDiagnostics
\* makes of its data, but for what the one-pass correlation neglects.
THEOREM LiveAgreesWithDiagnosticsHolds == StatisticsSpec => []LiveAgreesWithDiagnostics
<1>1. StatisticsInv => LiveAgreesWithDiagnostics
  BY DescribedAgrees DEF StatisticsInv, LiveAgreesWithDiagnostics
<1> QED
  BY <1>1, StatisticsInvHolds, PTL

-----------------------------------------------------------------------------
(***************************************************************************)
(* PullClient                                                              *)
(***************************************************************************)
USE PullClientAssumption DEF PullClientAssumption

Numbers == 1 .. MaxFetches
Early == {"sample", "pause", "diagnose", "pauseAgain"}
Serving == {"select", "ended"}
Over == {"returned", "exited"}

\* Where the two goroutines can be together.
Together ==
  /\ main \in Early => puller = "none" /\ result = "nil"
  /\ main \in Early \cup Serving => ~left
  /\ main \in Serving => puller # "none" /\ result = "nil"
  /\ main = "draining" => puller # "none"
  /\ main \in Over => puller \in {"none", "done"}

\* Frames are used one after the other: the channel holds at most one, the
\* next, and one more is waiting to be delivered.
Waiting == Len(out) + IF puller = "deliver" THEN 1 ELSE 0

InOrder ==
  /\ \/ out = <<>>
     \/ \E x \in Numbers : out = <<x>>
  /\ main \in Serving =>
       /\ out # <<>> => Head(out) = observed + 1
       /\ puller # "done" \/ failures = 1 => fetched = observed + Waiting
  /\ puller = "none" => fetched = 0 /\ observed = 0 /\ out = <<>>
  /\ puller = "deliver" => fetched # 0

\* A failure is in its channel only behind the last frame, and the goroutine
\* gives up without one only when the program was told to stop.
Reported ==
  /\ failures = 1 => puller = "done"
  /\ main \in Serving /\ puller = "done" /\ failures = 0 => signalled
  /\ main = "ended" => failures = 1 /\ out = <<>> /\ puller = "done"
  /\ result = "fetch" =>
       /\ main \notin Early \cup Serving
       /\ puller = "done" /\ out = <<>> /\ observed = fetched
  /\ result # "closed"

PullInv == TypeOK /\ Together /\ InOrder /\ Reported

\* What the operators on sequences do with a channel of one frame.
LEMMA OneFrame ==
  ASSUME NEW x \in Numbers, NEW s, s = <<x>>
  PROVE  /\ s \in Seq(Numbers) /\ s # <<>> /\ Len(s) = 1
         /\ Head(s) = x /\ Tail(s) = <<>>
BY DEF Numbers

LEMMA NoFrame == <<>> \in Seq(Numbers) /\ Len(<<>>) = 0
OBVIOUS

LEMMA InitPull == Init => PullInv
<1> SUFFICES ASSUME Init PROVE PullInv
  OBVIOUS
<1> USE DEF Init
<1>1. TypeOK
  <2>1. out \in Seq(1 .. MaxFetches) /\ Len(out) <= 1
    BY NoFrame DEF Numbers
  <2>2. /\ fetched \in 0 .. MaxFetches /\ observed \in 0 .. MaxFetches
        /\ failures \in 0 .. 1 /\ exitCode \in 0 .. 2
    OBVIOUS
  <2> QED
    BY <2>1, <2>2, Zenon DEF TypeOK, MainPcs, PullerPcs
<1>2. Together /\ InOrder /\ Reported
  BY DEF Together, InOrder, Reported, Early, Serving, Over, Waiting
<1> QED
  BY <1>1, <1>2 DEF PullInv

\* Types: a failure finds its channel empty.
LEMMA StepTypeOK == PullInv /\ [Next]_vars => TypeOK'
<1> SUFFICES ASSUME PullInv, [Next]_vars PROVE TypeOK'
  OBVIOUS
<1> USE NoFrame, OneFrame
<1> USE DEF PullInv, TypeOK, Together, InOrder, Reported, Early, Serving, Over,
            Waiting, Numbers, MainPcs, PullerPcs, pulling, channels, Done
<1>1. CASE Sample
  BY <1>1 DEF Sample, Run, RunGoesOn, RunReturns
<1>2. CASE Pause
  BY <1>2 DEF Pause, Run, RunGoesOn, RunReturns
<1>3. CASE Diagnose
  BY <1>3 DEF Diagnose, Run, RunGoesOn, RunReturns
<1>4. CASE PauseEnds
  BY <1>4 DEF PauseEnds, Run, RunReturns
<1>5. CASE StartMonitor
  BY <1>5 DEF StartMonitor
<1>6. CASE Exit
  BY <1>6 DEF Exit
<1>7. CASE MonitorCancelled
  BY <1>7 DEF MonitorCancelled, MonitorReturns
<1>8. CASE Observe
  BY <1>8 DEF Observe
<1>9. CASE StreamEnded
  BY <1>9 DEF StreamEnded, MonitorReturns
<1>10. CASE TakeFailure
  BY <1>10 DEF TakeFailure, MonitorReturns
<1>11. CASE Drain
  BY <1>11 DEF Drain
<1>12. CASE AwaitTick
  BY <1>12 DEF AwaitTick, Pull
<1>13. CASE FetchFails
  BY <1>13 DEF FetchFails, Pull
<1>14. CASE ReportFailure
  BY <1>14 DEF ReportFailure, Pull
<1>15. CASE Deliver
  <2>1. CASE out = <<>> /\ out' = <<fetched>>
    <3>1. fetched \in Numbers
      BY <1>15 DEF Deliver, Pull
    <3>2. out' \in Seq(Numbers) /\ Len(out') = 1
      BY <2>1, <3>1
    <3> QED
      BY <1>15, <2>1, <3>2 DEF Deliver, Pull
  <2>2. CASE Done /\ UNCHANGED out
    BY <1>15, <2>2 DEF Deliver, Pull
  <2> QED
    BY <1>15, <2>1, <2>2 DEF Deliver
<1>16. CASE FetchSucceeds
  BY <1>16 DEF FetchSucceeds, Pull
<1>17. CASE Tick
  BY <1>17 DEF Tick
<1>18. CASE Signal
  BY <1>18 DEF Signal
<1>19. CASE UNCHANGED vars
  BY <1>19 DEF vars
<1> QED
  BY <1>1, <1>2, <1>3, <1>4, <1>5, <1>6, <1>7, <1>8, <1>9, <1>10,
     <1>11, <1>12, <1>13, <1>14, <1>15, <1>16, <1>17, <1>18, <1>19
  DEF Next, Main, Puller

\* The goroutines.
LEMMA StepTogether == PullInv /\ [Next]_vars => Together'
<1> SUFFICES ASSUME PullInv, [Next]_vars PROVE Together'
  OBVIOUS
<1> USE NoFrame, OneFrame
<1> USE DEF PullInv, TypeOK, Together, InOrder, Reported, Early, Serving, Over,
            Waiting, Numbers, MainPcs, PullerPcs, pulling, channels, Done
<1>1. CASE Sample
  BY <1>1 DEF Sample, Run, RunGoesOn, RunReturns
<1>2. CASE Pause
  BY <1>2 DEF Pause, Run, RunGoesOn, RunReturns
<1>3. CASE Diagnose
  BY <1>3 DEF Diagnose, Run, RunGoesOn, RunReturns
<1>4. CASE PauseEnds
  BY <1>4 DEF PauseEnds, Run, RunReturns
<1>5. CASE StartMonitor
  BY <1>5 DEF StartMonitor
<1>6. CASE Exit
  BY <1>6 DEF Exit
<1>7. CASE MonitorCancelled
  BY <1>7 DEF MonitorCancelled, MonitorReturns
<1>8. CASE Observe
  BY <1>8 DEF Observe
<1>9. CASE StreamEnded
  BY <1>9 DEF StreamEnded, MonitorReturns
<1>10. CASE TakeFailure
  BY <1>10 DEF TakeFailure, MonitorReturns
<1>11. CASE Drain
  BY <1>11 DEF Drain
<1>12. CASE AwaitTick
  BY <1>12 DEF AwaitTick, Pull
<1>13. CASE FetchFails
  BY <1>13 DEF FetchFails, Pull
<1>14. CASE ReportFailure
  BY <1>14 DEF ReportFailure, Pull
<1>15. CASE Deliver
  BY <1>15 DEF Deliver, Pull
<1>16. CASE FetchSucceeds
  BY <1>16 DEF FetchSucceeds, Pull
<1>17. CASE Tick
  BY <1>17 DEF Tick
<1>18. CASE Signal
  BY <1>18 DEF Signal
<1>19. CASE UNCHANGED vars
  BY <1>19 DEF vars
<1> QED
  BY <1>1, <1>2, <1>3, <1>4, <1>5, <1>6, <1>7, <1>8, <1>9, <1>10,
     <1>11, <1>12, <1>13, <1>14, <1>15, <1>16, <1>17, <1>18, <1>19
  DEF Next, Main, Puller

\* The frames.
LEMMA StepInOrder == PullInv /\ [Next]_vars => InOrder'
<1> SUFFICES ASSUME PullInv, [Next]_vars PROVE InOrder'
  OBVIOUS
<1> USE NoFrame, OneFrame
<1> USE DEF PullInv, TypeOK, Together, InOrder, Reported, Early, Serving, Over,
            Waiting, Numbers, MainPcs, PullerPcs, pulling, channels, Done
<1>1. CASE Sample
  BY <1>1 DEF Sample, Run, RunGoesOn, RunReturns
<1>2. CASE Pause
  BY <1>2 DEF Pause, Run, RunGoesOn, RunReturns
<1>3. CASE Diagnose
  BY <1>3 DEF Diagnose, Run, RunGoesOn, RunReturns
<1>4. CASE PauseEnds
  BY <1>4 DEF PauseEnds, Run, RunReturns
<1>5. CASE StartMonitor
  BY <1>5 DEF StartMonitor
<1>6. CASE Exit
  BY <1>6 DEF Exit
<1>7. CASE MonitorCancelled
  BY <1>7 DEF MonitorCancelled, MonitorReturns
<1>8. CASE Observe
  BY <1>8 DEF Observe
<1>9. CASE StreamEnded
  BY <1>9 DEF StreamEnded, MonitorReturns
<1>10. CASE TakeFailure
  BY <1>10 DEF TakeFailure, MonitorReturns
<1>11. CASE Drain
  BY <1>11 DEF Drain
<1>12. CASE AwaitTick
  BY <1>12 DEF AwaitTick, Pull
<1>13. CASE FetchFails
  BY <1>13 DEF FetchFails, Pull
<1>14. CASE ReportFailure
  BY <1>14 DEF ReportFailure, Pull
<1>15. CASE Deliver
  <2>1. CASE out = <<>> /\ out' = <<fetched>>
    <3>1. fetched \in Numbers /\ puller = "deliver" /\ puller' = "tick"
      BY <1>15, <2>1 DEF Deliver, Pull
    <3>2. out' # <<>> /\ Len(out') = 1 /\ Head(out') = fetched
      BY <2>1, <3>1
    <3> QED
      BY <1>15, <2>1, <3>1, <3>2 DEF Deliver, Pull
  <2>2. CASE Done /\ UNCHANGED out
    BY <1>15, <2>2 DEF Deliver, Pull
  <2> QED
    BY <1>15, <2>1, <2>2 DEF Deliver
<1>16. CASE FetchSucceeds
  BY <1>16 DEF FetchSucceeds, Pull
<1>17. CASE Tick
  BY <1>17 DEF Tick
<1>18. CASE Signal
  BY <1>18 DEF Signal
<1>19. CASE UNCHANGED vars
  BY <1>19 DEF vars
<1> QED
  BY <1>1, <1>2, <1>3, <1>4, <1>5, <1>6, <1>7, <1>8, <1>9, <1>10,
     <1>11, <1>12, <1>13, <1>14, <1>15, <1>16, <1>17, <1>18, <1>19
  DEF Next, Main, Puller

\* The failures.
LEMMA StepReported == PullInv /\ [Next]_vars => Reported'
<1> SUFFICES ASSUME PullInv, [Next]_vars PROVE Reported'
  OBVIOUS
<1> USE NoFrame, OneFrame
<1> USE DEF PullInv, TypeOK, Together, InOrder, Reported, Early, Serving, Over,
            Waiting, Numbers, MainPcs, PullerPcs, pulling, channels, Done
<1>1. CASE Sample
  BY <1>1 DEF Sample, Run, RunGoesOn, RunReturns
<1>2. CASE Pause
  BY <1>2 DEF Pause, Run, RunGoesOn, RunReturns
<1>3. CASE Diagnose
  BY <1>3 DEF Diagnose, Run, RunGoesOn, RunReturns
<1>4. CASE PauseEnds
  BY <1>4 DEF PauseEnds, Run, RunReturns
<1>5. CASE StartMonitor
  BY <1>5 DEF StartMonitor
<1>6. CASE Exit
  BY <1>6 DEF Exit
<1>7. CASE MonitorCancelled
  BY <1>7 DEF MonitorCancelled, MonitorReturns
<1>8. CASE Observe
  BY <1>8 DEF Observe
<1>9. CASE StreamEnded
  BY <1>9 DEF StreamEnded, MonitorReturns
<1>10. CASE TakeFailure
  BY <1>10 DEF TakeFailure, MonitorReturns
<1>11. CASE Drain
  BY <1>11 DEF Drain
<1>12. CASE AwaitTick
  BY <1>12 DEF AwaitTick, Pull
<1>13. CASE FetchFails
  BY <1>13 DEF FetchFails, Pull
<1>14. CASE ReportFailure
  BY <1>14 DEF ReportFailure, Pull
<1>15. CASE Deliver
  BY <1>15 DEF Deliver, Pull
<1>16. CASE FetchSucceeds
  BY <1>16 DEF FetchSucceeds, Pull
<1>17. CASE Tick
  BY <1>17 DEF Tick
<1>18. CASE Signal
  BY <1>18 DEF Signal
<1>19. CASE UNCHANGED vars
  BY <1>19 DEF vars
<1> QED
  BY <1>1, <1>2, <1>3, <1>4, <1>5, <1>6, <1>7, <1>8, <1>9, <1>10,
     <1>11, <1>12, <1>13, <1>14, <1>15, <1>16, <1>17, <1>18, <1>19
  DEF Next, Main, Puller

LEMMA StepPull == PullInv /\ [Next]_vars => PullInv'
BY StepTypeOK, StepTogether, StepInOrder, StepReported DEF PullInv

\* What the invariant says of the properties.
LEMMA PullConsequences ==
  PullInv => FramesBeforeFailure /\ ReasonGiven /\ PullerJoined
BY DEF PullInv, Together, Reported, FramesBeforeFailure, ReasonGiven, PullerJoined, Over

-----------------------------------------------------------------------------
\* The goroutines of the pulling client are where they can be together, with
\* the frames between them in order.
THEOREM PullInvHolds == Spec => []PullInv
BY InitPull, StepPull, PTL DEF Spec

\* Every variable of the pull client keeps its type; no failure is reported
\* into a full channel, on which pullFrames would wait.
THEOREM TypeOKHolds == Spec => []TypeOK
<1>1. PullInv => TypeOK
  BY DEF PullInv
<1> QED
  BY <1>1, PullInvHolds, PTL

\* A failed fetch is the monitor's result only when every frame fetched
\* before it was used, although frames and failures have separate channels.
THEOREM FramesBeforeFailureHolds == Spec => []FramesBeforeFailure
BY PullConsequences, PullInvHolds, PTL

\* A monitor that ends by itself always has an error of pullFrames to return.
THEOREM ReasonGivenHolds == Spec => []ReasonGiven
BY PullConsequences, PullInvHolds, PTL

\* When run has returned, pullFrames has ended or never began.
THEOREM PullerJoinedHolds == Spec => []PullerJoined
BY PullConsequences, PullInvHolds, PTL

-----------------------------------------------------------------------------
(***************************************************************************)
(* The parts together: each part's steps are its own, and leave the others *)
(* as they are.                                                            *)
(***************************************************************************)
LEMMA ClientSteps ==
  [Pulls \/ Streams \/ Counts \/ Tests]_<<part, vars, stream, meter, statistics>>
    => [Next]_vars /\ [StreamNext]_stream /\ [MeterNext]_meter /\ [StatisticsNext]_statistics
BY DEF Pulls, Streams, Counts, Tests

\* Whatever the client is doing: frames come before a failure, the puller is
\* joined, messages stay intact and need three buffers, the meter counts what
\* the monitor received, and the live statistics are those of all that was
\* read, reported in time.
THEOREM ClientIsSafe ==
  ClientSpec => [](/\ FramesBeforeFailure /\ PullerJoined
                   /\ FramesIntact /\ ThreeBuffersSuffice
                   /\ MeterCountsMonitor
                   /\ LiveAgreesWithDiagnostics /\ ReportsKeepPace)
<1>1. ClientSpec => Init /\ [][Next]_vars
  BY ClientSteps, PTL DEF ClientSpec, ClientInit
<1>2. ClientSpec => StreamSpec /\ MeterSpec /\ StatisticsSpec
  BY ClientSteps, PTL DEF ClientSpec, ClientInit, StreamSpec, MeterSpec, StatisticsSpec
<1>3. Init /\ [][Next]_vars => []PullInv
  BY InitPull, StepPull, PTL
<1> QED
  BY <1>1, <1>2, <1>3, PullConsequences, FramesIntactHolds, ThreeBuffersSufficeHolds,
     MeterCountsMonitorHolds, LiveAgreesWithDiagnosticsHolds, ReportsKeepPaceHolds, PTL
=============================================================================
