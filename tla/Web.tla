--------------------------------- MODULE Web --------------------------------
(***************************************************************************)
(* The parts of the web interface that have state of their own: a byte or  *)
(* colour page, the status page, the gallery, and the handler of a file    *)
(* upload.  They share nothing, neither variables nor messages, so that a  *)
(* behaviour is one of one part while the others have not begun.           *)
(***************************************************************************)
EXTENDS Naturals, FiniteSets, TLC

CONSTANTS
  Workers, MaxFrames, None,                                      \* Display
  Counters, MaxCount, Window, MaxTime,                           \* StatusPage
  Images, URLs, NoURL,                                           \* Gallery
  maxUploadBytes, analysisLimit, uploadPreviewBytes, BufferSize  \* Upload

ASSUME WebAssumption ==
  /\ IsFiniteSet(Workers) /\ None \notin Workers /\ MaxFrames \in Nat
  /\ MaxCount \in Nat /\ Window \in Nat \ {0} /\ MaxTime \in Nat
  /\ NoURL \notin URLs
  /\ maxUploadBytes \in Nat \ {0} /\ uploadPreviewBytes \in Nat /\ BufferSize \in Nat \ {0}
  /\ analysisLimit \in 1 .. maxUploadBytes   \* config.Validate

VARIABLES
  part,   \* the part that runs: "display", "status", "gallery" or "upload"
  worker, notice, scheduled, animation, shown, toPage, toWorker, local,
  running, step, sample, cycleTimer, timeouts, disposed, cards, history, now, counts,
  hidden, stopped, valid, stalled, timer, busy, deadline, aborted, load, result, urls, live,
  handler, size, cancelled, armed, interrupting, readInterrupted, readDeadline,
  TotalBytes, Analyzed, Preview, cause, status, admitted

Display == INSTANCE Display
StatusPage == INSTANCE StatusPage WITH timer <- cycleTimer
Gallery == INSTANCE Gallery
Upload == INSTANCE Upload WITH deadline <- readDeadline

display == <<worker, notice, scheduled, animation, shown, toPage, toWorker, local>>
statusPage == <<running, step, sample, cycleTimer, timeouts, disposed, cards, history,
                now, counts>>
gallery == <<hidden, stopped, valid, stalled, timer, busy, deadline, aborted, load,
             result, urls, live>>
upload == <<handler, size, cancelled, armed, interrupting, readInterrupted,
            readDeadline, TotalBytes, Analyzed, Preview, cause, status, admitted>>
vars == <<part, display, statusPage, gallery, upload>>

Init ==
  /\ part \in {"display", "status", "gallery", "upload"}
  /\ Display!Init /\ StatusPage!Init /\ Gallery!Init /\ Upload!Init

DisplayRuns ==
  /\ part = "display"
  /\ Display!Next
  /\ UNCHANGED <<part, statusPage, gallery, upload>>

StatusPageRuns ==
  /\ part = "status"
  /\ StatusPage!Next
  /\ UNCHANGED <<part, display, gallery, upload>>

GalleryRuns ==
  /\ part = "gallery"
  /\ Gallery!Next
  /\ UNCHANGED <<part, display, statusPage, upload>>

UploadRuns ==
  /\ part = "upload"
  /\ Upload!Next
  /\ UNCHANGED <<part, display, statusPage, gallery>>

\* Workers differ by name only.
Interchangeable == Permutations(Workers)

Next == DisplayRuns \/ StatusPageRuns \/ GalleryRuns \/ UploadRuns

Spec == Init /\ [][Next]_vars

-----------------------------------------------------------------------------
(***************************************************************************)
(* Properties                                                              *)
(***************************************************************************)

\* One frame of a display page's worker is on its way to the screen, or its
\* answer on the way back, exactly while the worker waits.
OneFrameInFlight == Display!OneFrameInFlight

\* One cycle of the status page at a time, between two of them one timeout the
\* page can cancel, and none when it was left; no rate is computed across a
\* restart that shows, nor is one negative.
StatusPageSound == StatusPage!OneLoop /\ StatusPage!HistoryIsMonotone

\* Every object URL of the gallery is shown, or belongs to an image of the
\* batch, or was revoked; and a visible gallery waits for its timer or for its
\* batch.
GallerySound == Gallery!URLsAccounted /\ Gallery!Polls

\* A file's analysis covers its first analysisLimit bytes, each once, and the
\* preview its first uploadPreviewBytes, however the body was cut.
AnalysesPrefix == Upload!AnalysesPrefix

\* A deadline that was set to interrupt an upload strikes no other request.
DeadlineIsOwn == Upload!DeadlineIsOwn
=============================================================================
