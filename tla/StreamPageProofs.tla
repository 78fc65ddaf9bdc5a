-------------------------- MODULE StreamPageProofs -------------------------
(***************************************************************************)
(* That the live stream page keeps frames in order, has one frame at a     *)
(* time with its worker and keeps the notice of a stream's end, for any    *)
(* number of frames.                                                       *)
(***************************************************************************)
EXTENDS StreamPage, TLAPS

USE StreamPageAssumption DEF StreamPageAssumption

Alive == task \in {"new", "running"}

\* A frame is with the worker, or its answer is, or neither; a worker that
\* was terminated or never loaded answers nothing.
Handover ==
  /\ toWorker = 0 \/ answer = 0
  /\ Alive => (busy <=> toWorker # 0 \/ answer # 0)
  /\ task # "running" => answer = 0
  /\ task = "terminated" => ws \in {"closing", "closed"}

\* Where frames are, they are in the order of their numbers, none is newer
\* than the last received, and at most as many were drawn as the last drawn.
Ordered ==
  /\ toWorker <= receivedFrames /\ queued <= receivedFrames /\ pending <= receivedFrames
  /\ answer # Failed => answer <= receivedFrames
  /\ analyzedFrames <= drawn /\ drawn <= receivedFrames
  /\ statistics.received <= receivedFrames
  /\ pending # 0 => drawn < pending
  /\ toWorker # 0 => drawn < toWorker /\ pending < toWorker
  /\ answer \notin {0, Failed} => drawn < answer /\ pending < answer
  /\ queued # 0 =>
       /\ drawn < queued /\ pending < queued /\ toWorker < queued
       /\ answer # Failed => answer < queued

\* While the worker is well, only the socket and frames can be at fault.
Noticed ==
  /\ streamClosed <=> ws = "closed"
  /\ ws = "connecting" => receivedFrames = 0
  /\ receivedFrames = 0 => answer = 0
  /\ Alive /\ ws = "connecting" => ~fatalError
  /\ Alive /\ fatalError => notice \in Failures
  /\ Alive /\ streamClosed => notice \in Failures

PageInv == TypeOK /\ Handover /\ Ordered /\ Noticed

LEMMA InitPage == Init => PageInv
<1> SUFFICES ASSUME Init PROVE PageInv
  OBVIOUS
<1> USE DEF Init, Frames, Failures, Failed
<1>1. TypeOK
  <2>1. statistics \in [received : Frames, analyzed : Frames]
    OBVIOUS
  <2>2. redrawScheduled <=> pending # 0
    OBVIOUS
  <2> QED
    BY <2>1, <2>2 DEF TypeOK
<1>2. Handover /\ Ordered
  BY DEF Handover, Ordered, Alive
<1>3. Noticed
  BY DEF Noticed, Alive
<1> QED
  BY <1>1, <1>2, <1>3 DEF PageInv

\* Types: the bound of analyzedFrames comes from the order of frames.
LEMMA StepTypeOK == PageInv /\ [Next]_vars => TypeOK'
<1> SUFFICES ASSUME PageInv, [Next]_vars PROVE TypeOK'
  OBVIOUS
<1> USE DEF PageInv, TypeOK, Handover, Ordered, Noticed, Alive, Frames, Failures,
            Failed, pipeline, drawing, counters, notices
<1>1. CASE WorkerBreaks
  BY <1>1 DEF WorkerBreaks, Fatal, showNotice
<1>2. CASE WorkerLoads
  BY <1>2 DEF WorkerLoads
<1>3. CASE WorkerAnalyses
  BY <1>3 DEF WorkerAnalyses
<1>4. CASE AnalysisArrives
  BY <1>4 DEF AnalysisArrives, scheduleFrame, pump
<1>5. CASE AnalysisFails
  BY <1>5 DEF AnalysisFails, Fatal, showNotice, CloseSocket
<1>6. CASE SocketOpens
  BY <1>6 DEF SocketOpens, showNotice
<1>7. CASE SocketFails
  BY <1>7 DEF SocketFails, showNotice
<1>8. CASE SocketCloses
  BY <1>8 DEF SocketCloses, showNotice
<1>9. CASE InvalidFrame
  BY <1>9 DEF InvalidFrame, Fatal, showNotice, CloseSocket
<1>10. CASE ValidFrame
  <2>1. receivedFrames' \in Frames
    BY <1>10 DEF ValidFrame
  <2>2. toWorker' \in Frames /\ queued' \in Frames
    BY <2>1, <1>10 DEF ValidFrame, pump
  <2>3. busy' \in BOOLEAN
    BY <1>10, Zenon DEF ValidFrame, pump
  <2>4. redrawScheduled' <=> pending' # 0
    BY <1>10 DEF ValidFrame
  <2>5. /\ ws' \in {"connecting", "open", "closing", "closed"}
        /\ task' \in {"new", "running", "broken", "terminated"}
        /\ answer' \in Frames \cup {Failed}
        /\ pending' \in Frames /\ redrawScheduled' \in BOOLEAN /\ drawn' \in Frames
    BY <1>10 DEF ValidFrame
  <2>6. /\ analyzedFrames' \in Frames /\ statsScheduled' \in BOOLEAN
        /\ statistics' \in [received : Frames, analyzed : Frames]
        /\ notice' \in Failures \cup {"waiting", "hidden"}
        /\ fatalError' \in BOOLEAN /\ streamClosed' \in BOOLEAN
    BY <1>10 DEF ValidFrame
  <2> HIDE DEF Frames, Failures, Failed, PageInv, Handover, Ordered, Noticed
  <2> QED
    BY <2>1, <2>2, <2>3, <2>4, <2>5, <2>6, Zenon DEF TypeOK
<1>11. CASE Render
  <2>1. pending # 0 /\ analyzedFrames + 1 <= pending /\ analyzedFrames + 1 \in Frames
    BY <1>11 DEF Render
  <2>2. /\ pending' = 0 /\ pending' \in Frames /\ drawn' \in Frames
        /\ redrawScheduled' = FALSE
    BY <1>11 DEF Render
  <2>3. notice' \in Failures \cup {"waiting", "hidden"}
    BY <1>11 DEF Render
  <2>4. redrawScheduled' <=> pending' # 0
    BY <2>2
  <2>5. analyzedFrames' \in Frames /\ statsScheduled' \in BOOLEAN
    BY <2>1, <1>11 DEF Render
  <2>6. /\ ws' \in {"connecting", "open", "closing", "closed"}
        /\ task' \in {"new", "running", "broken", "terminated"}
        /\ toWorker' \in Frames /\ answer' \in Frames \cup {Failed}
        /\ busy' \in BOOLEAN /\ queued' \in Frames
    BY <1>11 DEF Render
  <2>7. /\ receivedFrames' \in Frames
        /\ statistics' \in [received : Frames, analyzed : Frames]
        /\ fatalError' \in BOOLEAN /\ streamClosed' \in BOOLEAN
    BY <1>11 DEF Render
  <2>8. redrawScheduled' \in BOOLEAN
    BY <2>2, Zenon
  <2> HIDE DEF Frames, Failures, Failed, PageInv, Handover, Ordered, Noticed
  <2> QED
    BY <2>2, <2>3, <2>4, <2>5, <2>6, <2>7, <2>8, Zenon DEF TypeOK
<1>12. CASE PaintStatistics
  <2>1. statistics' \in [received : Frames, analyzed : Frames]
    BY <1>12 DEF PaintStatistics
  <2>2. redrawScheduled' <=> pending' # 0
    BY <1>12 DEF PaintStatistics
  <2> QED
    BY <2>1, <2>2, <1>12 DEF PaintStatistics
<1>13. CASE PageHide
  BY <1>13 DEF PageHide
<1>14. CASE UNCHANGED vars
  BY <1>14 DEF vars
<1> QED
  BY <1>1, <1>2, <1>3, <1>4, <1>5, <1>6, <1>7, <1>8, <1>9,
     <1>10, <1>11, <1>12, <1>13, <1>14 DEF Next, WorkerTask

\* The worker's protocol.
LEMMA StepHandover == PageInv /\ [Next]_vars => Handover'
<1> SUFFICES ASSUME PageInv, [Next]_vars PROVE Handover'
  OBVIOUS
<1> USE DEF PageInv, TypeOK, Handover, Ordered, Noticed, Alive, Frames, Failures,
            Failed, pipeline, drawing, counters, notices
<1>1. CASE WorkerBreaks
  BY <1>1 DEF WorkerBreaks, Fatal, showNotice
<1>2. CASE WorkerLoads
  BY <1>2 DEF WorkerLoads
<1>3. CASE WorkerAnalyses
  BY <1>3 DEF WorkerAnalyses
<1>4. CASE AnalysisArrives
  BY <1>4 DEF AnalysisArrives, scheduleFrame, pump
<1>5. CASE AnalysisFails
  BY <1>5 DEF AnalysisFails, Fatal, showNotice, CloseSocket
<1>6. CASE SocketOpens
  BY <1>6 DEF SocketOpens, showNotice
<1>7. CASE SocketFails
  BY <1>7 DEF SocketFails, showNotice
<1>8. CASE SocketCloses
  BY <1>8 DEF SocketCloses, showNotice
<1>9. CASE InvalidFrame
  BY <1>9 DEF InvalidFrame, Fatal, showNotice, CloseSocket
<1>10. CASE ValidFrame
  BY <1>10 DEF ValidFrame, pump
<1>11. CASE Render
  BY <1>11 DEF Render
<1>12. CASE PaintStatistics
  BY <1>12 DEF PaintStatistics
<1>13. CASE PageHide
  BY <1>13 DEF PageHide
<1>14. CASE UNCHANGED vars
  BY <1>14 DEF vars
<1> QED
  BY <1>1, <1>2, <1>3, <1>4, <1>5, <1>6, <1>7, <1>8, <1>9,
     <1>10, <1>11, <1>12, <1>13, <1>14 DEF Next, WorkerTask

\* The order of frames.
LEMMA StepOrdered == PageInv /\ [Next]_vars => Ordered'
<1> SUFFICES ASSUME PageInv, [Next]_vars PROVE Ordered'
  OBVIOUS
<1> USE DEF PageInv, TypeOK, Handover, Ordered, Noticed, Alive, Frames, Failures,
            Failed, pipeline, drawing, counters, notices
<1>1. CASE WorkerBreaks
  BY <1>1 DEF WorkerBreaks, Fatal, showNotice
<1>2. CASE WorkerLoads
  BY <1>2 DEF WorkerLoads
<1>3. CASE WorkerAnalyses
  BY <1>3 DEF WorkerAnalyses
<1>4. CASE AnalysisArrives
  BY <1>4 DEF AnalysisArrives, scheduleFrame, pump
<1>5. CASE AnalysisFails
  BY <1>5 DEF AnalysisFails, Fatal, showNotice, CloseSocket
<1>6. CASE SocketOpens
  BY <1>6 DEF SocketOpens, showNotice
<1>7. CASE SocketFails
  BY <1>7 DEF SocketFails, showNotice
<1>8. CASE SocketCloses
  BY <1>8 DEF SocketCloses, showNotice
<1>9. CASE InvalidFrame
  BY <1>9 DEF InvalidFrame, Fatal, showNotice, CloseSocket
<1>10. CASE ValidFrame
  BY <1>10 DEF ValidFrame, pump
<1>11. CASE Render
  BY <1>11 DEF Render
<1>12. CASE PaintStatistics
  BY <1>12 DEF PaintStatistics
<1>13. CASE PageHide
  BY <1>13 DEF PageHide
<1>14. CASE UNCHANGED vars
  BY <1>14 DEF vars
<1> QED
  BY <1>1, <1>2, <1>3, <1>4, <1>5, <1>6, <1>7, <1>8, <1>9,
     <1>10, <1>11, <1>12, <1>13, <1>14 DEF Next, WorkerTask

\* The notice.
LEMMA StepNoticed == PageInv /\ [Next]_vars => Noticed'
<1> SUFFICES ASSUME PageInv, [Next]_vars PROVE Noticed'
  OBVIOUS
<1> USE DEF PageInv, TypeOK, Handover, Ordered, Noticed, Alive, Frames, Failures,
            Failed, pipeline, drawing, counters, notices
<1>1. CASE WorkerBreaks
  BY <1>1 DEF WorkerBreaks, Fatal, showNotice
<1>2. CASE WorkerLoads
  BY <1>2 DEF WorkerLoads
<1>3. CASE WorkerAnalyses
  BY <1>3 DEF WorkerAnalyses
<1>4. CASE AnalysisArrives
  BY <1>4 DEF AnalysisArrives, scheduleFrame, pump
<1>5. CASE AnalysisFails
  BY <1>5 DEF AnalysisFails, Fatal, showNotice, CloseSocket
<1>6. CASE SocketOpens
  BY <1>6 DEF SocketOpens, showNotice
<1>7. CASE SocketFails
  BY <1>7 DEF SocketFails, showNotice
<1>8. CASE SocketCloses
  BY <1>8 DEF SocketCloses, showNotice
<1>9. CASE InvalidFrame
  BY <1>9 DEF InvalidFrame, Fatal, showNotice, CloseSocket
<1>10. CASE ValidFrame
  BY <1>10 DEF ValidFrame, pump
<1>11. CASE Render
  BY <1>11 DEF Render
<1>12. CASE PaintStatistics
  BY <1>12 DEF PaintStatistics
<1>13. CASE PageHide
  BY <1>13 DEF PageHide
<1>14. CASE UNCHANGED vars
  BY <1>14 DEF vars
<1> QED
  BY <1>1, <1>2, <1>3, <1>4, <1>5, <1>6, <1>7, <1>8, <1>9,
     <1>10, <1>11, <1>12, <1>13, <1>14 DEF Next, WorkerTask

LEMMA StepPage == PageInv /\ [Next]_vars => PageInv'
  BY StepTypeOK, StepHandover, StepOrdered, StepNoticed DEF PageInv

\* The invariant holds throughout.
THEOREM PageInvHolds == Spec => []PageInv
  BY InitPage, StepPage, PTL DEF Spec

\* Type correctness: the counters, the page's and those on display, never pass
\* the number of frames the server sent.
THEOREM TypeOKHolds == Spec => []TypeOK
<1>1. PageInv => TypeOK
  BY DEF PageInv
<1> QED
  BY <1>1, PageInvHolds, PTL

\* One frame at a time is with the worker, and busy says so.
THEOREM OneFrameWithWorkerHolds == Spec => []OneFrameWithWorker
<1>1. PageInv => OneFrameWithWorker
  BY DEF PageInv, TypeOK, Handover, Alive, OneFrameWithWorker
<1> QED
  BY <1>1, PageInvHolds, PTL

\* An older sample never replaces a newer one, whatever the worker's speed.
THEOREM SamplesInOrderHolds == Spec => []SamplesInOrder
<1>1. PageInv => SamplesInOrder
  BY DEF PageInv, TypeOK, Handover, Ordered, Frames, Failed, SamplesInOrder
<1> QED
  BY <1>1, PageInvHolds, PTL

\* While the worker is well, a stream's end stays visible.
THEOREM EndRemainsVisibleHolds == Spec => []EndRemainsVisible
<1>1. PageInv => EndRemainsVisible
  BY DEF PageInv, Noticed, Alive, EndRemainsVisible
<1> QED
  BY <1>1, PageInvHolds, PTL
=============================================================================
