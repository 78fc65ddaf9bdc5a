---------------------------- MODULE ClientStream ---------------------------
(***************************************************************************)
(* The client's WebSocket stream: StreamEntropy dials, its goroutine reads *)
(* messages of a requested size into leased buffers and queues them, the   *)
(* consumer (runMonitor or sampleEntropy) uses a frame and gives its       *)
(* buffer back.  A buffer is never allocated while the pool holds one.     *)
(***************************************************************************)
EXTENDS Naturals, Sequences, FiniteSets

CONSTANTS
  Buffers,      \* identities of allocated buffers; one that is dropped is reused
  MaxMessages,  \* bound: messages the server sends
  None          \* no buffer, no message

ASSUME ClientStreamAssumption ==
  /\ IsFiniteSet(Buffers) /\ None \notin Buffers
  /\ MaxMessages \in Nat /\ None \notin [buf : Buffers, msg : 1 .. MaxMessages]

PoolSize == 3    \* cap(pool)
QueueSize == 1   \* cap(out)

VARIABLES
  cancelled,  \* the context
  watch,      \* who closes the connection when the context is done: the dialling
              \* ("dial"), the stream ("stream"), nobody ("none")
  conn,       \* "none" yet, "open", or "closed" on this side
  producer,   \* where StreamEntropy's goroutine is, see ProducerPcs
  filling,    \* the buffer it is filling or about to queue
  sent,       \* messages received so far; the number of the last one
  content,    \* what a buffer holds: a message's number, 0 when half filled
  queue,      \* the channel out: frames [buf, msg]
  pool,       \* the channel of free buffers
  consumer,   \* "select", "using", "draining", "done"; "waiting" for the stream
  held,       \* the frame the consumer uses
  copy        \* a copy of a frame released before, whose lease is spent

ProducerPcs ==
  {"dial", "upgraded", "dialled", "check", "read", "fill", "queue", "closed"}
Frame == [buf : Buffers, msg : 1 .. MaxMessages]

stream == <<cancelled, watch, conn, producer, filling, sent, content, queue, pool,
          consumer, held, copy>>

StreamTypeOK ==
  /\ cancelled \in BOOLEAN
  /\ watch \in {"none", "dial", "stream"}
  /\ conn \in {"none", "open", "closed"}
  /\ producer \in ProducerPcs
  /\ filling \in Buffers \cup {None}
  /\ sent \in 0 .. MaxMessages
  /\ content \in [Buffers -> 0 .. MaxMessages]
  /\ queue \in Seq(Frame) /\ Len(queue) <= QueueSize
  /\ pool \in Seq(Buffers) /\ Len(pool) <= PoolSize
  /\ consumer \in {"waiting", "select", "using", "draining", "done"}
  /\ held \in Frame \cup {None}
  /\ copy \in Buffers \cup {None}

StreamInit ==
  /\ cancelled = FALSE /\ watch = "none" /\ conn = "none"
  /\ producer = "dial" /\ filling = None /\ sent = 0
  /\ content = [b \in Buffers |-> 0]
  /\ queue = <<>> /\ pool = <<>>
  /\ consumer = "waiting" /\ held = None /\ copy = None

Pooled == {pool[k] : k \in DOMAIN pool}
Queued == {queue[k].buf : k \in DOMAIN queue}

\* Buffers somebody still refers to, copies with a spent lease aside.
InUse ==
  Pooled \cup Queued \cup {filling} \cup (IF held = None THEN {} ELSE {held.buf})

\* release: the pool's channel takes the buffer unless it is full.
GiveBack(b) == pool' = IF Len(pool) < PoolSize THEN Append(pool, b) ELSE pool

-----------------------------------------------------------------------------
(***************************************************************************)
(* dialWebSocket and StreamEntropy                                         *)
(***************************************************************************)

\* A transport; it is watched from here on.
Connect ==
  /\ producer = "dial" /\ conn = "none" /\ ~cancelled
  /\ conn' = "open" /\ watch' = "dial"
  /\ UNCHANGED <<cancelled, producer, filling, sent, content, queue, pool, consumer,
                 held, copy>>

\* The server's answer to the handshake, which may be long in coming: the
\* handshake's own deadline is left out.  The watch goes on until
\* dialWebSocket returns ...
Upgraded ==
  /\ producer = "dial" /\ conn = "open"
  /\ producer' = "upgraded"
  /\ UNCHANGED <<cancelled, watch, conn, filling, sent, content, queue, pool, consumer,
                 held, copy>>

\* ... its deferred stops, ...
StopWatch ==
  /\ producer = "upgraded"
  /\ watch' = "none" /\ producer' = "dialled"
  /\ UNCHANGED <<cancelled, conn, filling, sent, content, queue, pool, consumer, held,
                 copy>>

\* ... and StreamEntropy watches itself and starts its goroutine.
Watch ==
  /\ producer = "dialled"
  /\ watch' = "stream" /\ producer' = "check" /\ consumer' = "select"
  /\ UNCHANGED <<cancelled, conn, filling, sent, content, queue, pool, held, copy>>

\* No transport, or no handshake on it: StreamEntropy returns the error.
DialFails ==
  /\ producer = "dial"
  /\ producer' = "closed" /\ consumer' = "done"
  /\ conn' = "closed" /\ watch' = "none"
  /\ UNCHANGED <<cancelled, filling, sent, content, queue, pool, held, copy>>

\* At once when the context is done, and it is known to the transport.
DialInterrupted == cancelled /\ conn # "open" /\ DialFails

(***************************************************************************)
(* StreamEntropy's goroutine                                               *)
(***************************************************************************)

\* The deferred calls: stop, conn.Close, close(out).
End ==
  /\ producer' = "closed" /\ filling' = None /\ conn' = "closed"

CheckContext ==
  /\ producer = "check"
  /\ \/ cancelled /\ End
     \/ ~cancelled /\ producer' = "read" /\ UNCHANGED <<conn, filling>>
  /\ UNCHANGED <<cancelled, watch, sent, content, queue, pool, consumer, held, copy>>

\* Mutant: the pool is not asked.
AlwaysAllocate(b) == b \notin InUse /\ UNCHANGED pool

\* A buffer from the pool if it holds one, else a new one.
TakeBuffer(b) ==
  \/ pool # <<>> /\ b = Head(pool) /\ pool' = Tail(pool)
  \/ pool = <<>> /\ b \notin InUse /\ UNCHANGED pool

\* NextReader: a binary message begins; its bytes overwrite the buffer.
MessageBegins ==
  /\ producer = "read" /\ conn = "open"
  /\ sent < MaxMessages
  /\ sent' = sent + 1
  /\ \E b \in Buffers :
       /\ TakeBuffer(b)
       /\ filling' = b
       /\ content' = [content EXCEPT ![b] = 0]
  /\ producer' = "fill"
  /\ UNCHANGED <<cancelled, watch, conn, queue, consumer, held, copy>>

\* No message, or one that is not binary.
NoMessage ==
  /\ producer = "read"
  /\ End
  /\ UNCHANGED <<cancelled, watch, sent, content, queue, pool, consumer, held, copy>>

\* ReadFull has the requested size, and the message ends there.
MessageComplete ==
  /\ producer = "fill" /\ conn = "open"
  /\ content' = [content EXCEPT ![filling] = sent]
  /\ producer' = "queue"
  /\ UNCHANGED <<cancelled, watch, conn, filling, sent, queue, pool, consumer, held, copy>>

\* It is shorter or longer, or the connection breaks: the lease is released.
MessageBroken ==
  /\ producer = "fill"
  /\ GiveBack(filling)
  /\ End
  /\ UNCHANGED <<cancelled, watch, sent, content, queue, consumer, held, copy>>

\* A read fails at once on a connection that is closed on this side.
ReadInterrupted == conn = "closed" /\ (NoMessage \/ MessageBroken)

\* select: the frame is queued ...
QueueFrame ==
  /\ producer = "queue" /\ Len(queue) < QueueSize
  /\ queue' = Append(queue, [buf |-> filling, msg |-> sent])
  /\ filling' = None /\ producer' = "check"
  /\ UNCHANGED <<cancelled, watch, conn, sent, content, pool, consumer, held, copy>>

\* ... or dropped because the context is done.
DropFrame ==
  /\ producer = "queue" /\ cancelled
  /\ GiveBack(filling)
  /\ End
  /\ UNCHANGED <<cancelled, watch, sent, content, queue, consumer, held, copy>>

\* Mutant: cancellation leaves a blocked read blocked.
AfterFuncIdle ==
  /\ cancelled /\ conn = "open" /\ producer = "closed"
  /\ conn' = "closed"
  /\ UNCHANGED <<cancelled, watch, producer, filling, sent, content, queue, pool,
                 consumer, held, copy>>

\* context.AfterFunc, of the dialling or of the stream, until it is stopped.
AfterFunc ==
  /\ cancelled /\ conn = "open" /\ watch # "none"
  /\ conn' = "closed"
  /\ UNCHANGED <<cancelled, watch, producer, filling, sent, content, queue, pool,
                 consumer, held, copy>>

-----------------------------------------------------------------------------
(***************************************************************************)
(* The consumer                                                            *)
(***************************************************************************)

\* The parent's context, from a signal or a time limit.
Cancel ==
  /\ ~cancelled
  /\ cancelled' = TRUE
  /\ UNCHANGED <<watch, conn, producer, filling, sent, content, queue, pool,
                 consumer, held, copy>>

Receive ==
  /\ consumer = "select" /\ queue # <<>>
  /\ held' = Head(queue) /\ queue' = Tail(queue)
  /\ consumer' = "using"
  /\ UNCHANGED <<cancelled, watch, conn, producer, filling, sent, content, pool, copy>>

\* frame.Release after the last use: runMonitor goes on, sampleEntropy returns.
Release ==
  /\ consumer = "using"
  /\ GiveBack(held.buf)
  /\ copy' = held.buf /\ held' = None
  /\ \/ consumer' = "select" /\ UNCHANGED cancelled
     \/ consumer' = "draining" /\ cancelled' = TRUE
  /\ UNCHANGED <<watch, conn, producer, filling, sent, content, queue>>

\* Mutant: every release gives the buffer back.
ReleaseCopyAgain ==
  /\ copy # None
  /\ GiveBack(copy)
  /\ copy' = None
  /\ UNCHANGED <<cancelled, watch, conn, producer, filling, sent, content, queue,
                 consumer, held>>

\* Release of a copy of a frame that was released: its lease is spent.
ReleaseCopy ==
  /\ copy # None
  /\ copy' = None
  /\ UNCHANGED <<cancelled, watch, conn, producer, filling, sent, content, queue, pool,
                 consumer, held>>

\* ctx.Done, or the channel is closed and empty: the deferred function cancels.
Leave ==
  /\ consumer = "select"
  /\ cancelled \/ (producer = "closed" /\ queue = <<>>)
  /\ consumer' = "draining" /\ cancelled' = TRUE
  /\ UNCHANGED <<watch, conn, producer, filling, sent, content, queue, pool, held, copy>>

\* for frame := range frames { frame.Release() }
DrainStream ==
  /\ consumer = "draining"
  /\ \/ /\ queue # <<>>
        /\ GiveBack(Head(queue).buf)
        /\ queue' = Tail(queue)
        /\ UNCHANGED consumer
     \/ /\ queue = <<>> /\ producer = "closed"
        /\ consumer' = "done"
        /\ UNCHANGED <<queue, pool>>
  /\ UNCHANGED <<cancelled, watch, conn, producer, filling, sent, content, held, copy>>

-----------------------------------------------------------------------------
Dial == Connect \/ Upgraded \/ DialFails

Produce ==
  \/ StopWatch \/ Watch \/ DialInterrupted
  \/ CheckContext \/ MessageComplete \/ ReadInterrupted \/ QueueFrame \/ DropFrame

Consume == Receive \/ Release \/ Leave \/ DrainStream

StreamNext ==
  \/ Dial
  \/ Produce \/ MessageBegins \/ NoMessage \/ MessageBroken
  \/ AfterFunc
  \/ Consume \/ ReleaseCopy \/ Cancel

\* The safety part; Client adds the fairness.
StreamSpec == StreamInit /\ [][StreamNext]_stream

-----------------------------------------------------------------------------
(***************************************************************************)
(* Properties                                                              *)
(***************************************************************************)

\* A frame that is queued or in use holds the message it was received with:
\* the producer never overwrites a queued or retained payload, however often
\* the consumer releases its copies.
FramesIntact ==
  /\ \A k \in DOMAIN queue : content[queue[k].buf] = queue[k].msg
  /\ held # None => content[held.buf] = held.msg

\* Three buffers serve a stream for ever: one being filled, one queued, one
\* used; the pool never has to refuse one.
ThreeBuffersSuffice == Cardinality(InUse \ {None}) <= PoolSize

\* Once the context is done both goroutines end, whatever they were blocked
\* in, the handshake as well as a read or a send, and although the server
\* says nothing; also if it is done between the end of one watch and the
\* beginning of the next.
StreamEnds == cancelled ~> producer = "closed" /\ consumer = "done"
=============================================================================
