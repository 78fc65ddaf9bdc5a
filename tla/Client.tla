-------------------------------- MODULE Client ------------------------------
(***************************************************************************)
(* The client program in four parts, of which a behaviour lives in one:    *)
(* what it does when it was started to pull frames (PullClient), the       *)
(* buffers of a WebSocket stream (ClientStream), the counting of received  *)
(* bytes in either mode (Meter), and the diagnostic between the sample and *)
(* the monitor (Statistics).                                               *)
(***************************************************************************)
EXTENDS PullClient, ClientStream, Meter, Statistics

VARIABLE part      \* "pull", "stream", "meter", "statistics"

ClientInit ==
  /\ part \in {"pull", "stream", "meter", "statistics"}
  /\ Init /\ StreamInit /\ MeterInit /\ StatisticsInit
  /\ part # "statistics" => transport = "http"     \* one initial state is enough

Pulls == part = "pull" /\ Next /\ UNCHANGED <<part, stream, meter, statistics>>
Streams == part = "stream" /\ StreamNext /\ UNCHANGED <<part, vars, meter, statistics>>
Counts == part = "meter" /\ MeterNext /\ UNCHANGED <<part, vars, stream, statistics>>
Tests == part = "statistics" /\ StatisticsNext /\ UNCHANGED <<part, vars, stream, meter>>

\* The pulling client and the stream with their own fairness.
ClientSpec ==
  /\ ClientInit
  /\ [][Pulls \/ Streams \/ Counts \/ Tests]_<<part, vars, stream, meter, statistics>>
  /\ WF_vars(part = "pull" /\ Main) /\ WF_vars(part = "pull" /\ Puller)
  /\ WF_vars(part = "pull" /\ Tick)
  /\ WF_stream(part = "stream" /\ (StopWatch \/ Watch \/ DialInterrupted))
  /\ WF_stream(part = "stream" /\ CheckContext)
  /\ WF_stream(part = "stream" /\ ReadInterrupted)
  /\ WF_stream(part = "stream" /\ (QueueFrame \/ DropFrame))
  /\ WF_stream(part = "stream" /\ AfterFunc)
  /\ WF_stream(part = "stream" /\ Consume)
=============================================================================
