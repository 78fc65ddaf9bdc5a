------------------------------ MODULE Shutdown -----------------------------
(***************************************************************************)
(* How the server stops: main, one Shutdown goroutine per managedServer,   *)
(* the handlers, and beside every WebSocket handler the reader goroutine   *)
(* and the AfterFunc of websocketContext.  HTTP handlers stand for those   *)
(* of the byte routes: a private generator, then chunk after chunk.        *)
(***************************************************************************)
EXTENDS Naturals, FiniteSets

CONSTANTS
  Servers,     \* the HTTP, HTTPS and debug servers that were started
  Downloads,   \* connections that serve plain HTTP requests
  Sockets,     \* connections that become WebSockets
  Home         \* the server of each connection

Connections == Downloads \cup Sockets

ASSUME ShutdownAssumption ==
  /\ IsFiniteSet(Servers) /\ IsFiniteSet(Connections)
  /\ Downloads \cap Sockets = {}
  /\ Home \in [Connections -> Servers]

VARIABLES
  main,      \* "running", "signalled", "returning" (root closed), "exited"
  deadline,  \* the five seconds of shutdownCtx are over
  shut,      \* a server's Shutdown call, see ShutPcs
  stopping,  \* field stopping
  count,     \* field handlers, the WaitGroup counter
  forced,    \* Close: the connections net/http still tracks are closed
  pc,        \* the goroutine of a connection, see HandlerPcs
  gen,       \* its private generator: "none", "open", "closed"
  conn,      \* a hijacked connection: "none", "open", "closed"
  reader,    \* the goroutine blocked in ReadMessage
  own,       \* the context made by websocketContext is cancelled
  after      \* its AfterFunc: "none", "armed", "ran"

ShutPcs == {"serving", "stopped", "draining", "waiting", "failed", "nil", "error"}
HandlerPcs == {"none", "arrived", "refusing", "entered", "admitted", "upgraded",
               "select", "chunk", "write", "cleanup", "join", "close", "leave"}

server == <<shut, stopping, forced>>
socket == <<conn, reader, own, after>>
vars == <<main, deadline, server, count, pc, gen, socket>>

TypeOK ==
  /\ main \in {"running", "signalled", "returning", "exited"}
  /\ deadline \in BOOLEAN
  /\ shut \in [Servers -> ShutPcs]
  /\ stopping \in [Servers -> BOOLEAN]
  /\ count \in [Servers -> Nat]
  /\ forced \in [Servers -> BOOLEAN]
  /\ pc \in [Connections -> HandlerPcs]
  /\ gen \in [Connections -> {"none", "open", "closed"}]
  /\ conn \in [Sockets -> {"none", "open", "closed"}]
  /\ reader \in [Sockets -> {"none", "reading", "failed", "done"}]
  /\ own \in [Sockets -> BOOLEAN]
  /\ after \in [Sockets -> {"none", "armed", "ran"}]

Init ==
  /\ main = "running"
  /\ deadline = FALSE
  /\ shut = [s \in Servers |-> "serving"]
  /\ stopping = [s \in Servers |-> FALSE]
  /\ count = [s \in Servers |-> 0]
  /\ forced = [s \in Servers |-> FALSE]
  /\ pc = [c \in Connections |-> "none"]
  /\ gen = [c \in Connections |-> "none"]
  /\ conn = [c \in Sockets |-> "none"]
  /\ reader = [c \in Sockets |-> "none"]
  /\ own = [c \in Sockets |-> FALSE]
  /\ after = [c \in Sockets |-> "none"]

\* Every request's context descends from main's, which the signal cancels.
Cancelled == main # "running"
Goto(c, next) == pc' = [pc EXCEPT ![c] = next]
Alive == main # "exited"

-----------------------------------------------------------------------------
(***************************************************************************)
(* main and Shutdown                                                       *)
(***************************************************************************)

Signal ==
  /\ main = "running"
  /\ main' = "signalled"
  /\ UNCHANGED <<deadline, server, count, pc, gen, socket>>

Expire ==
  /\ main = "signalled"
  /\ ~deadline
  /\ deadline' = TRUE
  /\ UNCHANGED <<main, server, count, pc, gen, socket>>

\* Shutdown closes admission, then cancels (which main's signal already did).
StopAdmission(s) ==
  /\ main = "signalled"
  /\ shut[s] = "serving"
  /\ stopping' = [stopping EXCEPT ![s] = TRUE]
  /\ shut' = [shut EXCEPT ![s] = "stopped"]
  /\ UNCHANGED <<main, deadline, count, forced, pc, gen, socket>>

\* Server.Shutdown closes the listeners ...
CloseListeners(s) ==
  /\ shut[s] = "stopped"
  /\ shut' = [shut EXCEPT ![s] = "draining"]
  /\ UNCHANGED <<main, deadline, count, stopping, forced, pc, gen, socket>>

\* Connections net/http tracks: not those a handler has hijacked.
Tracked(s) ==
  {c \in Connections : /\ Home[c] = s /\ pc[c] # "none"
                       /\ c \in Sockets => conn[c] = "none"}

\* Mutant: Server.Shutdown is called with a context that never ends.
DrainForever(s) ==
  /\ shut[s] = "draining"
  /\ Tracked(s) = {}
  /\ shut' = [shut EXCEPT ![s] = "waiting"]
  /\ UNCHANGED <<main, deadline, count, stopping, forced, pc, gen, socket>>

\* ... and waits for the tracked connections; its error makes Shutdown close
\* them.  Then the goroutine that waits for the handlers starts.
Drain(s) ==
  /\ shut[s] = "draining"
  /\ \/ /\ Tracked(s) = {}
        /\ shut' = [shut EXCEPT ![s] = "waiting"]
        /\ UNCHANGED forced
     \/ /\ deadline
        /\ shut' = [shut EXCEPT ![s] = "failed"]
        /\ forced' = [forced EXCEPT ![s] = TRUE]
  /\ UNCHANGED <<main, deadline, count, stopping, pc, gen, socket>>

\* Mutant: the hijacked connections are not waited for.
ReturnDrained(s) ==
  /\ shut[s] \in {"waiting", "failed"}
  /\ shut' = [shut EXCEPT ![s] = IF @ = "waiting" THEN "nil" ELSE "error"]
  /\ UNCHANGED <<main, deadline, count, stopping, forced, pc, gen, socket>>

\* select: done was closed because the WaitGroup reached zero, or time is up.
Return(s) ==
  /\ \/ /\ shut[s] \in {"waiting", "failed"}
        /\ count[s] = 0
        /\ shut' = [shut EXCEPT ![s] = IF @ = "waiting" THEN "nil" ELSE "error"]
     \/ /\ shut[s] \in {"waiting", "failed"}
        /\ deadline
        /\ shut' = [shut EXCEPT ![s] = "error"]
  /\ UNCHANGED <<main, deadline, count, stopping, forced, pc, gen, socket>>

\* shutdown.Wait() is over; the deferred root.Close runs ...
CloseRoot ==
  /\ main = "signalled"
  /\ \A s \in Servers : shut[s] \in {"nil", "error"}
  /\ main' = "returning"
  /\ UNCHANGED <<deadline, server, count, pc, gen, socket>>

\* ... and the process ends with every goroutine in it.
Exit ==
  /\ main = "returning"
  /\ main' = "exited"
  /\ UNCHANGED <<deadline, server, count, pc, gen, socket>>

-----------------------------------------------------------------------------
(***************************************************************************)
(* The handler newManagedServer installs                                   *)
(***************************************************************************)

\* net/http has read a request: on a connection the server accepted before
\* its listeners closed, as long as it keeps it.
Arrive(c) ==
  /\ pc[c] = "none"
  /\ shut[Home[c]] \in {"serving", "stopped", "draining"}
  /\ Goto(c, "arrived")
  /\ UNCHANGED <<main, deadline, server, count, gen, socket>>

\* Mutant: stopping is not looked at under the mutex.
EnterAlways(c) ==
  /\ pc[c] = "arrived"
  /\ count' = [count EXCEPT ![Home[c]] = @ + 1]
  /\ Goto(c, "entered")
  /\ UNCHANGED <<main, deadline, server, gen, socket>>

\* One critical section of s.mu.
Enter(c) ==
  /\ pc[c] = "arrived"
  /\ \/ /\ stopping[Home[c]]
        /\ Goto(c, "refusing")
        /\ UNCHANGED count
     \/ /\ ~stopping[Home[c]]
        /\ count' = [count EXCEPT ![Home[c]] = @ + 1]
        /\ Goto(c, "entered")
  /\ UNCHANGED <<main, deadline, server, gen, socket>>

\* rejectStopped answers 503.
Rejected(c) ==
  /\ pc[c] = "refusing"
  /\ Goto(c, "none")
  /\ UNCHANGED <<main, deadline, server, count, gen, socket>>

\* admit refuses a request that is already cancelled, and others.
Admit(c) ==
  /\ pc[c] = "entered"
  /\ \/ ~Cancelled /\ Goto(c, "admitted")
     \/ Goto(c, "leave")
  /\ UNCHANGED <<main, deadline, server, count, gen, socket>>

\* The deferred release and Done: the handler is over, its variables are gone.
Leave(c) ==
  /\ pc[c] = "leave"
  /\ count' = [count EXCEPT ![Home[c]] = @ - 1]
  /\ Goto(c, "none")
  /\ gen' = [gen EXCEPT ![c] = "none"]
  /\ \/ /\ c \in Sockets
        /\ conn' = [conn EXCEPT ![c] = "none"]
        /\ reader' = [reader EXCEPT ![c] = "none"]
        /\ own' = [own EXCEPT ![c] = FALSE]
        /\ after' = [after EXCEPT ![c] = "none"]
     \/ c \in Downloads /\ UNCHANGED socket
  /\ UNCHANGED <<main, deadline, server>>

-----------------------------------------------------------------------------
(***************************************************************************)
(* Plain HTTP: randomBytesHandler and streamEntropyResponse                *)
(***************************************************************************)

\* NewConnectionDRBG; it fails once the root is closed.
OpenChild(d) ==
  /\ pc[d] = "admitted"
  /\ \/ /\ main \in {"running", "signalled"}
        /\ gen' = [gen EXCEPT ![d] = "open"]
        /\ Goto(d, "chunk")
     \/ /\ main = "returning"
        /\ Goto(d, "leave")
        /\ UNCHANGED gen
  /\ UNCHANGED <<main, deadline, server, count, socket>>

\* requestEntropyReader checks the context before every chunk.
NextChunk(d) ==
  /\ pc[d] = "chunk"
  /\ \/ Cancelled /\ Goto(d, "close")
     \/ ~Cancelled /\ Goto(d, "write")
  /\ UNCHANGED <<main, deadline, server, count, gen, socket>>

\* The client takes the chunk; it may have been the last one.
ChunkSent(d) ==
  /\ pc[d] = "write"
  /\ Goto(d, "chunk") \/ Goto(d, "close")
  /\ UNCHANGED <<main, deadline, server, count, gen, socket>>

\* The connection is closed under the write: by the client, by WriteTimeout ...
ChunkLost(d) ==
  /\ pc[d] = "write"
  /\ Goto(d, "close")
  /\ UNCHANGED <<main, deadline, server, count, gen, socket>>

\* ... or by a Shutdown that ran out of time.
ChunkForced(d) == forced[Home[d]] /\ ChunkLost(d)

CloseChild(d) ==
  /\ pc[d] = "close"
  /\ gen' = [gen EXCEPT ![d] = "closed"]
  /\ Goto(d, "leave")
  /\ UNCHANGED <<main, deadline, server, count, socket>>

-----------------------------------------------------------------------------
(***************************************************************************)
(* WebSockets: wsBinaryHandler and websocketContext                        *)
(***************************************************************************)

CtxDone(w) == Cancelled \/ own[w]

\* Upgrade fails, or hijacks the connection.
Upgrade(w) ==
  /\ pc[w] = "admitted"
  /\ \/ Goto(w, "leave") /\ UNCHANGED conn
     \/ /\ ~forced[Home[w]]
        /\ Goto(w, "upgraded")
        /\ conn' = [conn EXCEPT ![w] = "open"]
  /\ UNCHANGED <<main, deadline, server, count, gen, reader, own, after>>

\* NewConnectionReader, then websocketContext with its two goroutines.
StartReader(w) ==
  /\ pc[w] = "upgraded"
  /\ gen' = [gen EXCEPT ![w] = "open"]
  /\ reader' = [reader EXCEPT ![w] = "reading"]
  /\ after' = [after EXCEPT ![w] = "armed"]
  /\ Goto(w, "select")
  /\ UNCHANGED <<main, deadline, server, count, conn, own>>

\* Mutant: nothing closes the connection when the context ends.
NeverCloses(w) ==
  /\ after[w] = "armed"
  /\ CtxDone(w)
  /\ after' = [after EXCEPT ![w] = "ran"]
  /\ UNCHANGED <<main, deadline, server, count, pc, gen, conn, reader, own>>

\* context.AfterFunc closes the connection from a goroutine of its own.
AfterFunc(w) ==
  /\ after[w] = "armed"
  /\ CtxDone(w)
  /\ after' = [after EXCEPT ![w] = "ran"]
  /\ conn' = [conn EXCEPT ![w] = "closed"]
  /\ UNCHANGED <<main, deadline, server, count, pc, gen, reader, own>>

\* ReadMessage fails: the client is gone or sent too much ...
PeerGone(w) ==
  /\ reader[w] = "reading"
  /\ reader' = [reader EXCEPT ![w] = "failed"]
  /\ own' = [own EXCEPT ![w] = TRUE]
  /\ UNCHANGED <<main, deadline, server, count, pc, gen, conn, after>>

\* ... or the connection was closed on this side.  The deferred cancel runs ...
ReadInterrupted(w) == conn[w] = "closed" /\ PeerGone(w)

\* ... before the deferred close(done).
ReaderDone(w) ==
  /\ reader[w] = "failed"
  /\ reader' = [reader EXCEPT ![w] = "done"]
  /\ UNCHANGED <<main, deadline, server, count, pc, gen, conn, own, after>>

\* select: when the context is done and the ticker too, either branch is taken.
SelectDone(w) ==
  /\ pc[w] = "select"
  /\ CtxDone(w)
  /\ Goto(w, "cleanup")
  /\ UNCHANGED <<main, deadline, server, count, gen, socket>>

\* A tick: the private stream delivers, or fails if it needs the closed root.
SelectTick(w) ==
  /\ pc[w] = "select"
  /\ \/ Goto(w, "write")
     \/ main = "returning" /\ Goto(w, "cleanup")
  /\ UNCHANGED <<main, deadline, server, count, gen, socket>>

FrameSent(w) ==
  /\ pc[w] = "write"
  /\ conn[w] = "open"
  /\ Goto(w, "select")
  /\ UNCHANGED <<main, deadline, server, count, gen, socket>>

\* The write fails: the five-second write deadline, or a broken connection ...
FrameLost(w) ==
  /\ pc[w] = "write"
  /\ Goto(w, "cleanup")
  /\ UNCHANGED <<main, deadline, server, count, gen, socket>>

\* ... or the connection was closed on this side.
WriteInterrupted(w) == conn[w] = "closed" /\ FrameLost(w)

\* The cleanup of websocketContext: cancel, stop, close the connection ...
Cleanup(w) ==
  /\ pc[w] = "cleanup"
  /\ own' = [own EXCEPT ![w] = TRUE]
  /\ conn' = [conn EXCEPT ![w] = "closed"]
  /\ Goto(w, "join")
  /\ UNCHANGED <<main, deadline, server, count, gen, reader, after>>

\* ... and <-done.
Join(w) ==
  /\ pc[w] = "join"
  /\ reader[w] = "done"
  /\ Goto(w, "close")
  /\ UNCHANGED <<main, deadline, server, count, gen, socket>>

\* The deferred source.Close.
CloseSource(w) ==
  /\ pc[w] = "close"
  /\ gen' = [gen EXCEPT ![w] = "closed"]
  /\ Goto(w, "leave")
  /\ UNCHANGED <<main, deadline, server, count, socket>>

-----------------------------------------------------------------------------
ServerStep(s) ==
  StopAdmission(s) \/ CloseListeners(s) \/ Drain(s) \/ Return(s)

\* What a goroutine does without anybody's help.
HandlerStep(c) ==
  \/ Enter(c) \/ Rejected(c) \/ Admit(c) \/ Leave(c)
  \/ /\ c \in Downloads
     /\ OpenChild(c) \/ NextChunk(c) \/ ChunkForced(c) \/ CloseChild(c)
  \/ /\ c \in Sockets
     /\ \/ Upgrade(c) \/ StartReader(c) \/ SelectDone(c) \/ WriteInterrupted(c)
        \/ Cleanup(c) \/ Join(c) \/ CloseSource(c)

ReaderStep(w) == ReadInterrupted(w) \/ ReaderDone(w)

Next ==
  /\ Alive
  /\ \/ Signal \/ Expire \/ CloseRoot \/ Exit
     \/ \E s \in Servers : ServerStep(s)
     \/ \E c \in Connections : Arrive(c) \/ HandlerStep(c)
     \/ \E d \in Downloads : ChunkSent(d) \/ ChunkLost(d)
     \/ \E w \in Sockets : \/ AfterFunc(w) \/ ReaderStep(w) \/ PeerGone(w)
                           \/ SelectTick(w) \/ FrameSent(w) \/ FrameLost(w)

\* Goroutines that can run do run.  Nothing is assumed of the signal, of the
\* clients, of write deadlines or of the shutdown deadline.
Spec ==
  /\ Init
  /\ [][Next]_vars
  /\ WF_vars(CloseRoot) /\ WF_vars(Exit)
  /\ \A s \in Servers : WF_vars(Alive /\ ServerStep(s))
  /\ \A c \in Connections : WF_vars(Alive /\ HandlerStep(c))
  /\ \A w \in Sockets : /\ WF_vars(Alive /\ AfterFunc(w))
                        /\ WF_vars(Alive /\ ReaderStep(w))

-----------------------------------------------------------------------------
(***************************************************************************)
(* Properties                                                              *)
(***************************************************************************)

\* A Shutdown that reports success leaves nothing behind: no goroutine of a
\* handler or of a WebSocket reader, hijacked or not.
SuccessLeavesNothing ==
  \A c \in Connections :
    shut[Home[c]] = "nil" =>
      /\ pc[c] = "none" /\ gen[c] = "none"
      /\ c \in Sockets => reader[c] = "none"

\* The root is closed under a running handler only after the deadline.
RootClosedLast ==
  main = "returning" /\ ~deadline => \A c \in Connections : pc[c] = "none"

\* What Shutdown reports, and what main does after it, is true of every
\* handler: none is left behind by a success, and none loses its root before
\* the deadline.
CleanShutdown == SuccessLeavesNothing /\ RootClosedLast

\* No handler is added to the WaitGroup once somebody may be waiting on it.
NoAddAfterWait ==
  [][\A s \in Servers :
       shut[s] \in {"waiting", "failed"} => count'[s] <= count[s]]_vars

\* The signal alone ends every WebSocket handler, blocked in a read or in a
\* write as it may be, without the client, the write deadline or the shutdown
\* deadline.
SocketsInterrupted ==
  \A w \in Sockets : Cancelled ~> pc[w] = "none" \/ main = "exited"

\* Once the deadline has struck the process ends whatever clients do, blocked
\* downloads included.
ShutdownEnds == main = "signalled" /\ deadline ~> main = "exited"
=============================================================================
