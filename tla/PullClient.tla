----------------------------- MODULE PullClient ----------------------------
(***************************************************************************)
(* The client in pull mode: main and run (a sample, a diagnostic and two   *)
(* pauses, then the monitor), the goroutine pullFrames that fetches a      *)
(* frame per tick for the monitor, and the signal that cancels both.  A    *)
(* server may be silent for ever: only the time limit of a request and the *)
(* context end one.  What the screen shows is left out.                    *)
(***************************************************************************)
EXTENDS Naturals, Sequences

CONSTANT MaxFetches  \* bound: successful fetches

ASSUME PullClientAssumption == MaxFetches \in Nat

VARIABLES
  signalled,   \* main's context is done
  left,        \* runMonitor's own context was cancelled by its deferred call
  main,        \* where the main goroutine is, see MainPcs
  result,      \* the error it carries; "nil": none
  exitCode,    \* 2 while it runs
  puller,      \* where pullFrames is, see PullerPcs
  tick,        \* its ticker's channel holds a tick
  fetched,     \* frames fetched, the last one's number
  out,         \* the frames channel
  failures,    \* errors in the failures channel
  observed     \* frames the monitor has used; the last one's number

MainPcs == {"sample", "pause", "diagnose", "pauseAgain", "select", "ended",
            "draining", "returned", "exited"}
PullerPcs == {"none", "tick", "fetch", "failed", "deliver", "done"}
vars == <<signalled, left, main, result, exitCode, puller, tick, fetched, out,
          failures, observed>>
pulling == <<puller, tick, fetched>>
channels == <<out, failures>>

TypeOK ==
  /\ signalled \in BOOLEAN /\ left \in BOOLEAN
  /\ main \in MainPcs
  /\ result \in {"nil", "sample", "diagnostic", "cancelled", "fetch", "closed"}
  /\ exitCode \in 0 .. 2
  /\ puller \in PullerPcs /\ tick \in BOOLEAN
  /\ fetched \in 0 .. MaxFetches /\ observed \in 0 .. MaxFetches
  /\ out \in Seq(1 .. MaxFetches) /\ Len(out) <= 1
  /\ failures \in 0 .. 1

Init ==
  /\ signalled = FALSE /\ left = FALSE
  /\ main = "sample" /\ result = "nil" /\ exitCode = 2
  /\ puller = "none" /\ tick = FALSE /\ fetched = 0
  /\ out = <<>> /\ failures = 0 /\ observed = 0

Done == signalled \/ left   \* runMonitor's context

-----------------------------------------------------------------------------
(***************************************************************************)
(* main, run                                                               *)
(***************************************************************************)

RunGoesOn(pc) == main' = pc /\ UNCHANGED result
RunReturns(err) == main' = "returned" /\ result' = err

Run(from) ==
  /\ main = from
  /\ UNCHANGED <<signalled, left, exitCode, puller, tick, fetched, channels, observed>>

\* sampleEntropy, within three seconds or as long as the context lasts.
Sample == Run("sample") /\ (RunGoesOn("pause") \/ RunReturns("sample"))

\* waitContext, the first time.
Pause ==
  /\ Run("pause")
  /\ \/ signalled /\ RunReturns("nil")
     \/ ~signalled /\ RunGoesOn("diagnose")

\* TestEntropyHTTP.  That its time is over is no error, that ctx is done is.
Diagnose ==
  /\ Run("diagnose")
  /\ \/ signalled /\ RunReturns("cancelled")
     \/ ~signalled /\ (RunGoesOn("pauseAgain") \/ RunReturns("diagnostic"))

\* waitContext, the second time.
PauseEnds ==
  /\ Run("pauseAgain") /\ signalled
  /\ RunReturns("nil")

\* It returns true: runMonitor starts pullFrames.
StartMonitor ==
  /\ main = "pauseAgain" /\ ~signalled
  /\ main' = "select" /\ puller' = "tick"
  /\ UNCHANGED <<signalled, left, result, exitCode, tick, fetched, channels, observed>>

Exit ==
  /\ main = "returned"
  /\ main' = "exited"
  /\ exitCode' = IF result # "nil" /\ ~signalled THEN 1 ELSE 0
  /\ UNCHANGED <<signalled, left, result, puller, tick, fetched, channels, observed>>

Signal ==
  /\ ~signalled
  /\ signalled' = TRUE
  /\ UNCHANGED <<left, main, result, exitCode, pulling, channels, observed>>

-----------------------------------------------------------------------------
(***************************************************************************)
(* runMonitor                                                              *)
(***************************************************************************)

MonitorReturns(err) == main' = "draining" /\ result' = err /\ left' = TRUE

\* <-ctx.Done()
MonitorCancelled ==
  /\ main = "select" /\ signalled
  /\ MonitorReturns("nil")
  /\ UNCHANGED <<signalled, exitCode, pulling, channels, observed>>

\* A frame: written, observed and released.
Observe ==
  /\ main = "select" /\ out # <<>>
  /\ observed' = Head(out) /\ out' = Tail(out)
  /\ UNCHANGED <<signalled, left, main, result, exitCode, pulling, failures>>

\* Mutant: the monitor waits for failures as it does for frames.
FailureOvertakes ==
  /\ main = "select"
  /\ \/ /\ out = <<>> /\ puller = "done" /\ failures = 0
        /\ IF signalled THEN MonitorReturns("nil")
           ELSE main' = "ended" /\ UNCHANGED <<result, left>>
        /\ UNCHANGED failures
     \/ /\ failures = 1 /\ failures' = 0
        /\ MonitorReturns("fetch")
  /\ UNCHANGED <<signalled, exitCode, pulling, out, observed>>

\* The channel is closed and empty: nil when the context is done ...
StreamEnded ==
  /\ main = "select" /\ out = <<>> /\ puller = "done"
  /\ IF signalled THEN MonitorReturns("nil")
     ELSE main' = "ended" /\ UNCHANGED <<result, left>>
  /\ UNCHANGED <<signalled, exitCode, pulling, channels, observed>>

\* ... or else the failure, or the message for a stream that gave none.
TakeFailure ==
  /\ main = "ended"
  /\ \/ failures = 1 /\ failures' = 0 /\ MonitorReturns("fetch")
     \/ failures = 0 /\ MonitorReturns("closed") /\ UNCHANGED failures
  /\ UNCHANGED <<signalled, exitCode, pulling, out, observed>>

\* Mutant: the deferred function only cancels.
ReturnUndrained ==
  /\ main = "draining"
  /\ main' = "returned"
  /\ UNCHANGED <<signalled, left, result, exitCode, pulling, channels, observed>>

\* The deferred function: for frame := range frames { frame.Release() }.
Drain ==
  /\ main = "draining"
  /\ \/ out # <<>> /\ out' = Tail(out) /\ UNCHANGED main
     \/ out = <<>> /\ puller = "done" /\ main' = "returned" /\ UNCHANGED out
  /\ UNCHANGED <<signalled, left, result, exitCode, pulling, failures, observed>>

-----------------------------------------------------------------------------
(***************************************************************************)
(* pullFrames                                                              *)
(***************************************************************************)

\* The ticker drops a tick its channel has no room for.
Tick ==
  /\ puller \notin {"none", "done"} /\ ~tick
  /\ tick' = TRUE
  /\ UNCHANGED <<signalled, left, main, result, exitCode, puller, fetched, channels, observed>>

Pull(from, to) ==
  /\ puller = from /\ puller' = to
  /\ UNCHANGED <<signalled, left, main, result, exitCode, observed>>

AwaitTick ==
  \/ Pull("tick", "done") /\ Done /\ UNCHANGED <<tick, fetched, channels>>
  \/ Pull("tick", "fetch") /\ tick /\ tick' = FALSE /\ UNCHANGED <<fetched, channels>>

FetchSucceeds ==
  /\ Pull("fetch", "deliver")
  /\ fetched < MaxFetches /\ fetched' = fetched + 1
  /\ UNCHANGED <<tick, channels>>

\* The server, the three seconds of requestCtx, or ctx.
FetchFails == Pull("fetch", "failed") /\ UNCHANGED <<tick, fetched, channels>>

\* Mutant: the failures channel has no buffer, and nobody receives from it
\* before the frames end.
ReportUnbuffered ==
  /\ Pull("failed", "done") /\ UNCHANGED <<tick, fetched, channels>>
  /\ Done

\* if ctx.Err() == nil { failures <- err }; the deferred close(out).
ReportFailure ==
  /\ Pull("failed", "done")
  /\ failures' = IF Done THEN failures ELSE failures + 1
  /\ UNCHANGED <<tick, fetched, out>>

Deliver ==
  \/ /\ Pull("deliver", "tick") /\ out = <<>>
     /\ out' = <<fetched>>
     /\ UNCHANGED <<tick, fetched, failures>>
  \/ Pull("deliver", "done") /\ Done /\ UNCHANGED <<tick, fetched, channels>>

-----------------------------------------------------------------------------
Main ==
  \/ Sample \/ Pause \/ Diagnose \/ PauseEnds \/ StartMonitor \/ Exit
  \/ MonitorCancelled \/ Observe \/ StreamEnded \/ TakeFailure \/ Drain

Puller == AwaitTick \/ FetchFails \/ ReportFailure \/ Deliver

Next == Main \/ Puller \/ FetchSucceeds \/ Tick \/ Signal

\* Both goroutines run while they can, requests have a time limit and the
\* ticker ticks; that a fetch succeeds is nobody's promise.
Spec ==
  /\ Init
  /\ [][Next]_vars
  /\ WF_vars(Main) /\ WF_vars(Puller) /\ WF_vars(Tick)

-----------------------------------------------------------------------------
(***************************************************************************)
(* Properties                                                              *)
(***************************************************************************)

\* A failed fetch ends the monitor only after every frame fetched before it
\* was used: the failure waits behind the frames although it is in a channel
\* of its own.
FramesBeforeFailure == result = "fetch" => observed = fetched

\* A stream of pulled frames always ends with the reason or by cancellation,
\* never with "entropy stream closed".
ReasonGiven == result # "closed"

\* When run has returned, the goroutine it started has ended, and no later
\* message of it is lost: main can exit.
PullerJoined == main \in {"returned", "exited"} => puller \in {"none", "done"}

\* A client that is told to stop stops, though the server says nothing; and
\* so does one whose fetch has failed.
ClientEnds == signalled \/ puller = "failed" ~> exitCode # 2
=============================================================================
