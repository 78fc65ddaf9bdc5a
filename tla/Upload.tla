------------------------------- MODULE Upload ------------------------------
(***************************************************************************)
(* File analysis: the handler of one connection, request after request,    *)
(* reading a body of which a prefix is analysed, and the function that     *)
(* context.AfterFunc runs to interrupt a read that waits for ever.  A file *)
(* is its size: its bytes are their positions, 1 .. size.                  *)
(***************************************************************************)
EXTENDS Naturals, Sequences, FiniteSets

CONSTANTS
  maxUploadBytes,
  analysisLimit,       \* the configured number of bytes to analyse
  uploadPreviewBytes,
  BufferSize           \* the most that one Read returns

VARIABLES
  handler,          \* where the handler is, see HandlerPcs
  size,             \* the body's size; the client may break it off before
  cancelled,        \* the request's context
  armed,            \* the AfterFunc waits for it
  interrupting,     \* it runs
  readInterrupted,  \* the channel it closes is closed
  deadline,         \* the connection's read deadline has passed
  TotalBytes,
  Analyzed,         \* the positions that were counted
  Preview,
  cause,            \* why analyzeUpload returned
  status,           \* of the response; 0: none
  admitted          \* the request holds its share of the budget

HandlerPcs == {"idle", "check", "read", "respond", "stop", "wait", "release"}
request == <<size, cancelled>>
interrupt == <<armed, interrupting, readInterrupted>>
result == <<TotalBytes, Analyzed, Preview>>
vars == <<handler, request, interrupt, deadline, result, cause, status, admitted>>

Sizes == 0 .. maxUploadBytes + 1
Positions == 1 .. maxUploadBytes
Least(a, b) == IF a < b THEN a ELSE b

TypeOK ==
  /\ handler \in HandlerPcs
  /\ size \in Sizes /\ cancelled \in BOOLEAN
  /\ armed \in BOOLEAN /\ interrupting \in BOOLEAN /\ readInterrupted \in BOOLEAN
  /\ deadline \in BOOLEAN
  /\ TotalBytes \in 0 .. maxUploadBytes
  /\ Analyzed \subseteq Positions
  /\ Preview \in Seq(Positions) /\ Len(Preview) <= uploadPreviewBytes
  /\ cause \in {"none", "EOF", "cancelled", "size", "broken", "deadline"}
  /\ status \in {0, 200, 400, 405, 413, 415, 503}
  /\ admitted \in BOOLEAN

Init ==
  /\ handler = "idle"
  /\ size = 0 /\ cancelled = FALSE
  /\ armed = FALSE /\ interrupting = FALSE /\ readInterrupted = FALSE
  /\ deadline = FALSE
  /\ TotalBytes = 0 /\ Analyzed = {} /\ Preview = <<>>
  /\ cause = "none" /\ status = 0 /\ admitted = FALSE

-----------------------------------------------------------------------------
\* net/http: the next request of the connection, with a deadline of its own.
Arrive ==
  /\ handler = "idle"
  /\ handler' = "check"
  /\ size' \in Sizes /\ cancelled' = FALSE
  /\ deadline' = FALSE /\ status' = 0 /\ cause' = "none"
  /\ TotalBytes' = 0 /\ Analyzed' = {} /\ Preview' = <<>>
  /\ readInterrupted' = FALSE
  /\ UNCHANGED <<armed, interrupting, admitted>>

\* The client is gone, or the server stops.
Cancel ==
  /\ handler # "idle" /\ ~cancelled
  /\ cancelled' = TRUE
  /\ UNCHANGED <<handler, size, interrupt, deadline, result, cause, status, admitted>>

\* A wrong method or media type; a Content-Length, or the memory for any
\* upload, above the limit that is configured; a budget that is used up.
Refuse ==
  /\ handler = "check"
  /\ status' \in {405, 413, 415, 503}
  /\ handler' = "idle"
  /\ UNCHANGED <<request, interrupt, deadline, result, cause, admitted>>

\* admit, AfterFunc; a body of unknown length may be too large.
Admit ==
  /\ handler = "check"
  /\ admitted' = TRUE
  /\ armed' = TRUE
  /\ handler' = "read"
  /\ UNCHANGED <<request, interrupting, readInterrupted, deadline, result, cause, status>>

\* context.AfterFunc starts its function.
InterruptStarts ==
  /\ armed /\ cancelled
  /\ armed' = FALSE /\ interrupting' = TRUE
  /\ UNCHANGED <<handler, request, readInterrupted, deadline, result, cause, status, admitted>>

\* SetReadDeadline(now), close(readInterrupted).
InterruptEnds ==
  /\ interrupting
  /\ interrupting' = FALSE /\ readInterrupted' = TRUE /\ deadline' = TRUE
  /\ UNCHANGED <<handler, request, armed, result, cause, status, admitted>>

-----------------------------------------------------------------------------
(***************************************************************************)
(* analyzeUpload                                                           *)
(***************************************************************************)

\* Mutant: every chunk is analysed up to the limit.
TakeEach(n) ==
  LET analyzed == Least(n, analysisLimit)
      preview == Least(analyzed, uploadPreviewBytes - Len(Preview))
  IN /\ TotalBytes' = TotalBytes + n
     /\ Analyzed' = Analyzed \cup (TotalBytes + 1 .. TotalBytes + analyzed)
     /\ Preview' = Preview \o [k \in 1 .. preview |-> TotalBytes + k]

\* The next n bytes.
Take(n) ==
  LET analyzed == Least(n, analysisLimit - Cardinality(Analyzed))
      preview == Least(analyzed, uploadPreviewBytes - Len(Preview))
  IN /\ TotalBytes' = TotalBytes + n
     /\ Analyzed' = Analyzed \cup (TotalBytes + 1 .. TotalBytes + analyzed)
     /\ Preview' = Preview \o [k \in 1 .. preview |-> TotalBytes + k]

Available == Least(size, maxUploadBytes) - TotalBytes

\* The loop ends; MaxBytesReader fails a read that would pass its limit.
Return(why) == handler' = "respond" /\ cause' = why

\* ctx.Err() before a read.
ContextSeen ==
  /\ handler = "read" /\ cancelled
  /\ Return("cancelled")
  /\ UNCHANGED <<request, interrupt, deadline, result, status, admitted>>

\* source.Read: some bytes (a deadline does not take back what was buffered),
\* and possibly the end with the last ones.
Read ==
  /\ handler = "read"
  /\ \E n \in 1 .. Least(BufferSize, Available) :
       /\ Take(n)
       /\ \/ UNCHANGED <<handler, cause>>
          \/ n = Available /\ size <= maxUploadBytes /\ Return("EOF")
          \/ n = Available /\ size > maxUploadBytes /\ Return("size")
  /\ UNCHANGED <<request, interrupt, deadline, status, admitted>>

\* It returns no bytes: the end, the limit, or a connection that broke.
ReadEnds ==
  /\ handler = "read"
  /\ \/ Available = 0 /\ size <= maxUploadBytes /\ Return("EOF")
     \/ Available = 0 /\ size > maxUploadBytes /\ Return("size")
     \/ Return("broken")
  /\ UNCHANGED <<request, interrupt, deadline, result, status, admitted>>

\* A read that waits, or the next one, fails.
ReadInterrupted ==
  /\ handler = "read" /\ deadline
  /\ Return("deadline")
  /\ UNCHANGED <<request, interrupt, deadline, result, status, admitted>>

-----------------------------------------------------------------------------
(***************************************************************************)
(* The handler's response and its deferred calls                           *)
(***************************************************************************)

StatusOf ==
  IF cause = "EOF" /\ TotalBytes > 0 THEN 200
  ELSE IF cancelled THEN 503
  ELSE IF cause = "size" THEN 413
  ELSE 400

Respond ==
  /\ handler = "respond"
  /\ handler' = "stop"
  /\ status' = StatusOf
  /\ UNCHANGED <<request, interrupt, deadline, result, cause, admitted>>

\* Mutant: stopped, but not waited for.
StopOnly ==
  /\ handler = "stop"
  /\ armed' = FALSE /\ handler' = "release"
  /\ UNCHANGED <<request, interrupting, readInterrupted, deadline, result, cause, status, admitted>>

\* stopInterrupt is true when it comes before the function starts.
StopInterrupt ==
  /\ handler = "stop"
  /\ armed' = FALSE
  /\ handler' = IF armed THEN "release" ELSE "wait"
  /\ UNCHANGED <<request, interrupting, readInterrupted, deadline, result, cause, status, admitted>>

\* <-readInterrupted
AwaitInterrupt ==
  /\ handler = "wait" /\ readInterrupted
  /\ handler' = "release"
  /\ UNCHANGED <<request, interrupt, deadline, result, cause, status, admitted>>

\* release, and the handler returns.
Release ==
  /\ handler = "release"
  /\ admitted' = FALSE /\ handler' = "idle"
  /\ UNCHANGED <<request, interrupt, deadline, result, cause, status>>

-----------------------------------------------------------------------------
AfterFunc == InterruptStarts \/ InterruptEnds
Finish == ContextSeen \/ ReadInterrupted
Deferred == Respond \/ StopInterrupt \/ AwaitInterrupt \/ Release

Next ==
  \/ Arrive \/ Cancel \/ Refuse \/ Admit
  \/ AfterFunc
  \/ Read \/ ReadEnds \/ Finish
  \/ Deferred

-----------------------------------------------------------------------------
(***************************************************************************)
(* Properties                                                              *)
(***************************************************************************)

\* The analysis covers the file's first analysisLimit bytes, each once and
\* none after them, and the preview its first uploadPreviewBytes, in order,
\* however the body was cut into reads; only a whole file is answered 200.
AnalysesPrefix ==
  /\ Analyzed = 1 .. Least(TotalBytes, analysisLimit)
  /\ Preview = [k \in 1 .. Least(Cardinality(Analyzed), uploadPreviewBytes) |-> k]
  /\ status = 200 => TotalBytes = size /\ size > 0

\* A deadline that was set to interrupt a request strikes no other one, and
\* none is set when the handler has returned: its connection is reused.
DeadlineIsOwn ==
  /\ deadline /\ handler # "idle" => cancelled
  /\ handler = "idle" => ~armed /\ ~interrupting
=============================================================================
