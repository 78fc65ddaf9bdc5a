----------------------------- MODULE StreamPage ----------------------------
(***************************************************************************)
(* The live stream page: the page's script receives binary frames and      *)
(* gives at most one at a time to an analysis worker, keeping the newest   *)
(* of those that wait; the result is drawn in an animation frame, and so   *)
(* are the page's counters.  Frames are numbered as they are received.     *)
(***************************************************************************)
EXTENDS Naturals

CONSTANT MaxFrames  \* bound: binary frames the server sends

ASSUME StreamPageAssumption == MaxFrames \in Nat

VARIABLES
  ws,              \* "connecting", "open", "closing", "closed"
  task,            \* the worker: "new", "running", "broken", "terminated"
  toWorker,        \* the frame posted to it; 0: none
  answer,          \* the frame it answers, or Failed; 0: none
  busy,            \* a frame was posted and not answered
  queued,          \* the frame that waits for the worker; 0: null
  pending,         \* the analysis that waits to be drawn; 0: null
  redrawScheduled,
  drawn,           \* the newest frame that was drawn; 0: haveSample is false
  receivedFrames, analyzedFrames,
  statsScheduled,
  statistics,      \* the counters on display
  notice,          \* the notice's state, or "hidden"
  fatalError, streamClosed

pipeline == <<task, toWorker, answer, busy, queued>>
drawing == <<pending, redrawScheduled, drawn, analyzedFrames>>
counters == <<receivedFrames, statsScheduled, statistics>>
notices == <<notice, fatalError, streamClosed>>
vars == <<ws, pipeline, drawing, counters, notices>>

Failures == {"error", "disconnected"}
Frames == 0 .. MaxFrames
Failed == MaxFrames + 1

TypeOK ==
  /\ ws \in {"connecting", "open", "closing", "closed"}
  /\ task \in {"new", "running", "broken", "terminated"}
  /\ toWorker \in Frames /\ answer \in Frames \cup {Failed}
  /\ busy \in BOOLEAN /\ queued \in Frames
  /\ pending \in Frames /\ redrawScheduled \in BOOLEAN /\ drawn \in Frames
  /\ redrawScheduled <=> pending # 0
  /\ receivedFrames \in Frames /\ analyzedFrames \in Frames
  /\ statsScheduled \in BOOLEAN
  /\ statistics \in [received : Frames, analyzed : Frames]
  /\ notice \in Failures \cup {"waiting", "hidden"}
  /\ fatalError \in BOOLEAN /\ streamClosed \in BOOLEAN

\* The script has read valid options and made the worker and the socket.
Init ==
  /\ ws = "connecting"
  /\ task = "new" /\ toWorker = 0 /\ answer = 0
  /\ busy = FALSE /\ queued = 0
  /\ pending = 0 /\ redrawScheduled = FALSE /\ drawn = 0
  /\ receivedFrames = 0 /\ analyzedFrames = 0
  /\ statsScheduled = FALSE /\ statistics = [received |-> 0, analyzed |-> 0]
  /\ notice = "waiting" /\ fatalError = FALSE /\ streamClosed = FALSE

-----------------------------------------------------------------------------
(***************************************************************************)
(* Helpers of the handlers                                                 *)
(***************************************************************************)

\* Mutant: the worker is given frames as they come.
PumpAlways(isBusy, next) ==
  IF next = 0 THEN busy' = isBusy /\ queued' = next /\ UNCHANGED toWorker
  ELSE busy' = TRUE /\ toWorker' = next /\ queued' = 0

pump(isBusy, next) ==
  IF isBusy \/ next = 0 THEN busy' = isBusy /\ queued' = next /\ UNCHANGED toWorker
  ELSE busy' = TRUE /\ toWorker' = next /\ queued' = 0

showNotice(state) == notice' = state

Fatal == fatalError' = TRUE /\ showNotice("error") /\ UNCHANGED streamClosed

\* Mutant: a redraw is requested once and its result is drawn later.
ScheduleFirst(n) ==
  /\ redrawScheduled' = TRUE
  /\ pending' = IF redrawScheduled THEN pending ELSE n
  /\ UNCHANGED <<drawn, analyzedFrames>>

scheduleFrame(n) ==
  /\ pending' = n /\ redrawScheduled' = TRUE
  /\ UNCHANGED <<drawn, analyzedFrames>>

-----------------------------------------------------------------------------
(***************************************************************************)
(* The worker                                                              *)
(***************************************************************************)

\* worker.onerror: the script cannot be loaded.
WorkerBreaks ==
  /\ task = "new"
  /\ task' = "broken"
  /\ Fatal
  /\ UNCHANGED <<ws, toWorker, answer, busy, queued, drawing, counters>>

WorkerLoads ==
  /\ task = "new"
  /\ task' = "running"
  /\ UNCHANGED <<ws, toWorker, answer, busy, queued, drawing, counters, notices>>

\* analyze, or the exception it throws.
WorkerAnalyses ==
  /\ task = "running" /\ toWorker # 0
  /\ toWorker' = 0 /\ answer' \in {toWorker, Failed}
  /\ UNCHANGED <<ws, task, busy, queued, drawing, counters, notices>>

\* close(1002, ...): a browser closes the socket, or refuses the code (only
\* 1000 and 3000 to 4999 are a script's to use) with an exception.
CloseSocket == ws' \in (IF ws \in {"connecting", "open"} THEN {ws, "closing"} ELSE {ws})

-----------------------------------------------------------------------------
(***************************************************************************)
(* The page                                                                *)
(***************************************************************************)

\* worker.onmessage with a result.
AnalysisArrives ==
  /\ answer \notin {0, Failed}
  /\ answer' = 0
  /\ scheduleFrame(answer)
  /\ pump(FALSE, queued)
  /\ UNCHANGED <<ws, task, counters, notices>>

\* worker.onmessage with an error.
AnalysisFails ==
  /\ answer = Failed
  /\ answer' = 0 /\ busy' = FALSE
  /\ Fatal
  /\ CloseSocket
  /\ UNCHANGED <<task, toWorker, queued, drawing, counters>>

SocketOpens ==
  /\ ws = "connecting"
  /\ ws' = "open"
  /\ showNotice("waiting")
  /\ UNCHANGED <<pipeline, drawing, counters, fatalError, streamClosed>>

\* onerror, and onclose, which finds fatalError set.
SocketFails ==
  /\ ws # "closed"
  /\ ws' = "closed" /\ streamClosed' = TRUE /\ fatalError' = TRUE
  /\ showNotice("error")
  /\ UNCHANGED <<pipeline, drawing, counters>>

\* onclose.
SocketCloses ==
  /\ ws \in {"open", "closing"}
  /\ ws' = "closed" /\ streamClosed' = TRUE
  /\ IF fatalError THEN UNCHANGED notice ELSE showNotice("disconnected")
  /\ UNCHANGED <<pipeline, drawing, counters, fatalError>>

InvalidFrame ==
  /\ ws = "open"
  /\ Fatal
  /\ CloseSocket
  /\ UNCHANGED <<pipeline, drawing, counters>>

\* A binary frame: counted, then skipped when it comes too soon after another,
\* which it may only once a sample was drawn.
ValidFrame ==
  /\ ws = "open" /\ receivedFrames < MaxFrames
  /\ receivedFrames' = receivedFrames + 1
  /\ statsScheduled' = TRUE
  /\ \/ drawn # 0 /\ UNCHANGED <<toWorker, busy, queued>>
     \/ pump(busy, receivedFrames')
  /\ UNCHANGED <<ws, task, answer, drawing, statistics, notices>>

\* Mutant: a sample hides whatever the notice says.
RenderHidesAll ==
  /\ redrawScheduled
  /\ redrawScheduled' = FALSE /\ pending' = 0
  /\ drawn' = pending /\ analyzedFrames' = analyzedFrames + 1
  /\ notice' = "hidden"
  /\ statsScheduled' = TRUE
  /\ UNCHANGED <<ws, pipeline, receivedFrames, statistics, fatalError, streamClosed>>

\* scheduleFrame's callback: render.
Render ==
  /\ redrawScheduled
  /\ redrawScheduled' = FALSE /\ pending' = 0
  /\ drawn' = pending /\ analyzedFrames' = analyzedFrames + 1
  /\ notice' = IF fatalError \/ streamClosed THEN notice ELSE "hidden"
  /\ statsScheduled' = TRUE
  /\ UNCHANGED <<ws, pipeline, receivedFrames, statistics, fatalError, streamClosed>>

\* scheduleStatistics' callback: updateStatistics.
PaintStatistics ==
  /\ statsScheduled
  /\ statsScheduled' = FALSE
  /\ statistics' = [received |-> receivedFrames, analyzed |-> analyzedFrames]
  /\ UNCHANGED <<ws, pipeline, drawing, receivedFrames, notices>>

\* pagehide, of a page that is kept: terminate discards what the worker does.
PageHide ==
  /\ task # "terminated"
  /\ task' = "terminated" /\ toWorker' = 0 /\ answer' = 0
  /\ ws' = IF ws = "closed" THEN ws ELSE "closing"
  /\ UNCHANGED <<busy, queued, drawing, counters, notices>>

-----------------------------------------------------------------------------
WorkerTask == WorkerBreaks \/ WorkerLoads \/ WorkerAnalyses

Next ==
  \/ WorkerTask
  \/ AnalysisArrives \/ AnalysisFails
  \/ SocketOpens \/ SocketFails \/ SocketCloses
  \/ InvalidFrame \/ ValidFrame
  \/ Render \/ PaintStatistics
  \/ PageHide

\* Event loops run; nothing is assumed of the socket and of the visitor.
Spec ==
  /\ Init
  /\ [][Next]_vars
  /\ WF_vars(WorkerTask) /\ WF_vars(AnalysisArrives \/ AnalysisFails)
  /\ WF_vars(Render) /\ WF_vars(PaintStatistics)

-----------------------------------------------------------------------------
(***************************************************************************)
(* Properties                                                              *)
(***************************************************************************)

\* While the worker lives, the page is busy exactly when one frame is with it:
\* no second one overtakes it and a lost answer cannot stop the analysis.
OneFrameWithWorker ==
  task \in {"new", "running"} =>
    /\ ~(toWorker # 0 /\ answer # 0)
    /\ busy <=> toWorker # 0 \/ answer # 0

\* The frame that is drawn, the one that waits to be, the one with the worker
\* and the one that waits for it were received in this order: an older sample
\* never replaces a newer one.
SamplesInOrder ==
  LET inOrder(a, b) == a # 0 /\ b # 0 => a < b
      answered == IF answer = Failed THEN 0 ELSE answer
  IN /\ \A a \in {drawn} : \A b \in {pending, toWorker, answered, queued} : inOrder(a, b)
     /\ \A b \in {toWorker, answered, queued} : inOrder(pending, b)
     /\ inOrder(toWorker, queued) /\ inOrder(answered, queued)

\* The frame that waits for the worker is analysed and drawn in the end, or a
\* newer one, unless the worker or the analysis fails or the page is left.
QueuedIsDrawn ==
  \A n \in 1 .. MaxFrames :
    queued = n \/ toWorker = n ~> drawn >= n \/ fatalError \/ task = "terminated"

\* Once a stream with a working analysis has ended, the notice says so: no
\* sample that is drawn later hides it.
EndRemainsVisible == streamClosed /\ task = "running" => notice \in Failures

\* docs/api.md: connection failures and disconnects remain visible.
FailuresRemainVisible == streamClosed => notice \in Failures
=============================================================================
