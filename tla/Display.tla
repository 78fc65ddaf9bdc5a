------------------------------ MODULE Display ------------------------------
(***************************************************************************)
(* The byte and colour pages: the page's script, the display workers it    *)
(* starts (one after another: leaving the page stops a worker, coming back *)
(* from the browser's cache starts the next) and their WebSockets.  Page   *)
(* and worker exchange messages in order and are otherwise independent, so *)
(* what one of them does is one task of its event loop.                    *)
(***************************************************************************)
EXTENDS Naturals, Sequences, FiniteSets

CONSTANTS
  Workers,    \* the workers a page may start
  MaxFrames,  \* bound: valid messages a worker receives
  None        \* no worker, no frame

VARIABLES
  worker,     \* the page's worker; None while the page is left
  notice,     \* the notice's state, or "hidden"
  scheduled,  \* animation frames requested and not run: [worker, frame]
  animation,  \* the one the page has a handle of
  shown,      \* the frame on display
  toPage,     \* messages of each worker to the page
  toWorker,   \* and back
  local       \* the variables of each worker

vars == <<worker, notice, scheduled, animation, shown, toPage, toWorker, local>>
page == <<worker, notice, scheduled, animation, shown>>

Failures == {"error", "disconnected"}
Painting == [worker : Workers, frame : 1 .. MaxFrames]
Frame(n) == [type |-> "frame", frame |-> n]
Status(s) == [type |-> "status", state |-> s]
PageMessage ==
  {Frame(n) : n \in 1 .. MaxFrames} \cup {Status(s) : s \in Failures \cup {"waiting"}}

Local == [
  task : {"new", "running", "stopped"},  \* the worker's own event loop
  socket : {"none", "connecting", "open", "closing", "closed"},
  received : 0 .. MaxFrames,
  pending : 0 .. MaxFrames,              \* 0: null
  awaitingPaint : BOOLEAN,
  failed : BOOLEAN]

TypeOK ==
  /\ worker \in Workers \cup {None}
  /\ notice \in Failures \cup {"waiting", "hidden"}
  /\ scheduled \subseteq Painting
  /\ animation \in Painting \cup {None} /\ shown \in Painting \cup {None}
  /\ toPage \in [Workers -> Seq(PageMessage)]
  /\ toWorker \in [Workers -> Seq({"start", "ready", "stop"})]
  /\ local \in [Workers -> Local]

NewWorker == [task |-> "new", socket |-> "none", received |-> 0, pending |-> 0,
              awaitingPaint |-> FALSE, failed |-> FALSE]

\* The script ends with start().
Init ==
  /\ worker \in Workers
  /\ notice = "waiting"
  /\ scheduled = {} /\ animation = None /\ shown = None
  /\ toPage = [w \in Workers |-> <<>>]
  /\ toWorker = [w \in Workers |-> IF w = worker THEN <<"start">> ELSE <<>>]
  /\ local = [w \in Workers |-> NewWorker]

-----------------------------------------------------------------------------
(***************************************************************************)
(* The worker                                                              *)
(***************************************************************************)

\* What a task of w leaves: its variables, and the messages it posted.
Leaves(w, after, posted) ==
  /\ local' = [local EXCEPT ![w] = after]
  /\ toPage' = [toPage EXCEPT ![w] = @ \o posted]
  /\ UNCHANGED page

\* Mutant: frames are posted as they come.
PublishAll(w, l) ==
  IF l.pending = 0 THEN Leaves(w, l, <<>>)
  ELSE Leaves(w, [l EXCEPT !.awaitingPaint = TRUE, !.pending = 0],
              <<Frame(l.pending)>>)

publishLatest(w, l) ==
  IF l.awaitingPaint \/ l.pending = 0 THEN Leaves(w, l, <<>>)
  ELSE Leaves(w, [l EXCEPT !.awaitingPaint = TRUE, !.pending = 0],
              <<Frame(l.pending)>>)

Takes(w, message) ==
  /\ toWorker[w] # <<>> /\ Head(toWorker[w]) = message
  /\ toWorker' = [toWorker EXCEPT ![w] = Tail(@)]

\* The worker's script runs and is told to start, or it does not load.
WorkerStarts(w) ==
  /\ local[w].task = "new"
  /\ \/ /\ Takes(w, "start")
        /\ \/ Leaves(w, [local[w] EXCEPT !.task = "running", !.socket = "connecting"], <<>>)
           \/ Leaves(w, [local[w] EXCEPT !.task = "running"], <<Status("error")>>)
     \/ /\ toWorker[w] # <<>>
        /\ Leaves(w, [local[w] EXCEPT !.task = "stopped"], <<Status("error")>>)
        /\ UNCHANGED toWorker

WorkerIsReady(w) ==
  /\ local[w].task = "running"
  /\ Takes(w, "ready")
  /\ publishLatest(w, [local[w] EXCEPT !.awaitingPaint = FALSE])

\* self.close: no further task of this worker runs.
WorkerStops(w) ==
  /\ local[w].task = "running"
  /\ Takes(w, "stop")
  /\ Leaves(w, [local[w] EXCEPT !.task = "stopped", !.socket = "closed", !.pending = 0], <<>>)

Socket(w, states) ==
  /\ local[w].task = "running" /\ local[w].socket \in states
  /\ UNCHANGED toWorker

SocketOpens(w) ==
  /\ Socket(w, {"connecting"})
  /\ Leaves(w, [local[w] EXCEPT !.socket = "open"], <<Status("waiting")>>)

\* An error event is followed by a close event in the same task; onclose has
\* nothing to say then.
SocketFails(w) ==
  /\ Socket(w, {"connecting", "open", "closing"})
  /\ Leaves(w, [local[w] EXCEPT !.socket = "closed", !.failed = TRUE], <<Status("error")>>)

SocketCloses(w) ==
  /\ Socket(w, {"open", "closing"})
  /\ Leaves(w, [local[w] EXCEPT !.socket = "closed"],
            IF local[w].failed THEN <<>> ELSE <<Status("disconnected")>>)

ValidMessage(w) ==
  /\ Socket(w, {"open"}) /\ local[w].received < MaxFrames
  /\ LET n == local[w].received + 1 IN
       publishLatest(w, [local[w] EXCEPT !.received = n, !.pending = n])

\* The notice, then socket.close(1002, ...): a browser closes the socket, or
\* refuses the code (only 1000 and 3000 to 4999 are a script's to use) with an
\* exception, which reaches the page as an error event of the worker.
InvalidMessage(w) ==
  /\ Socket(w, {"open"})
  /\ LET l == [local[w] EXCEPT !.failed = TRUE] IN
       \/ Leaves(w, [l EXCEPT !.socket = "closing"], <<Status("error")>>)
       \/ /\ ~local[w].failed   \* bound: one refusal is enough
          /\ Leaves(w, l, <<Status("error"), Status("error")>>)

-----------------------------------------------------------------------------
(***************************************************************************)
(* The page                                                                *)
(***************************************************************************)

Shows(c) == /\ notice' = "hidden" /\ shown' = c
            /\ toWorker' = [toWorker EXCEPT ![c.worker] = Append(@, "ready")]

\* active.onmessage (and onerror): a worker that was replaced is not heard.
PageHandles(w) ==
  /\ worker # None /\ toPage[w] # <<>>
  /\ toPage' = [toPage EXCEPT ![w] = Tail(@)]
  /\ LET message == Head(toPage[w])
         c == [worker |-> w, frame |-> message.frame] IN
       \/ w # worker /\ UNCHANGED <<notice, scheduled, animation>>
       \/ /\ w = worker /\ message.type = "status"
          /\ notice' = message.state
          /\ UNCHANGED <<scheduled, animation>>
       \/ /\ w = worker /\ message.type = "frame"
          /\ scheduled' = scheduled \cup {c} /\ animation' = c
          /\ UNCHANGED notice
  /\ UNCHANGED <<worker, shown, toWorker, local>>

\* requestAnimationFrame's callback.
Paint(c) ==
  /\ worker # None /\ c \in scheduled
  /\ scheduled' = scheduled \ {c} /\ animation' = None
  /\ \/ c.worker # worker /\ UNCHANGED <<notice, shown, toWorker>>
     \/ c.worker = worker /\ Shows(c)
  /\ UNCHANGED <<worker, toPage, local>>

PageHide ==
  /\ worker # None
  /\ toWorker' = [toWorker EXCEPT ![worker] = Append(@, "stop")]
  /\ worker' = None
  /\ scheduled' = scheduled \ {animation} /\ animation' = None
  /\ UNCHANGED <<notice, shown, toPage, local>>

\* pageshow of a page that was kept: start().
PageShow(w) ==
  /\ worker = None
  /\ local[w].task = "new" /\ toWorker[w] = <<>>
  /\ worker' = w /\ notice' = "waiting"
  /\ toWorker' = [toWorker EXCEPT ![w] = <<"start">>]
  /\ UNCHANGED <<scheduled, animation, shown, toPage, local>>

-----------------------------------------------------------------------------
WorkerTask(w) == WorkerStarts(w) \/ WorkerIsReady(w) \/ WorkerStops(w)

SocketEvent(w) ==
  SocketOpens(w) \/ SocketFails(w) \/ SocketCloses(w) \/ ValidMessage(w) \/ InvalidMessage(w)

Next ==
  \/ \E w \in Workers :
       WorkerTask(w) \/ SocketEvent(w) \/ PageHandles(w) \/ PageShow(w)
  \/ \E c \in scheduled : Paint(c)
  \/ PageHide

-----------------------------------------------------------------------------
(***************************************************************************)
(* Properties                                                              *)
(***************************************************************************)

CountOf(q, P(_)) == Cardinality({k \in DOMAIN q : P(q[k])})

\* What of the page's worker is between its post and the page's answer.
InFlight(w) ==
  CountOf(toPage[w], LAMBDA m : m.type = "frame")
  + Cardinality({c \in scheduled : c.worker = w})
  + CountOf(toWorker[w], LAMBDA m : m = "ready")

\* Back-pressure: one frame at a time is on its way to the screen and its
\* answer on the way back, and the worker waits exactly while one is.
OneFrameInFlight ==
  worker # None =>
    InFlight(worker) = IF local[worker].awaitingPaint /\ local[worker].task = "running"
                       THEN 1 ELSE 0
=============================================================================
