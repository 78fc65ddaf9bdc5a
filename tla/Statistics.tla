----------------------------- MODULE Statistics ----------------------------
(***************************************************************************)
(* The client's second diagnostic: a StreamTester that takes an HTTP body  *)
(* chunk by chunk, or a WebSocket stream message by message, and reports   *)
(* as it goes.  Sums of float64 are integers here, exact as they are below *)
(* 2^53; what is made of them (logarithms, erfc) is left out.              *)
(***************************************************************************)
EXTENDS Integers, Sequences

CONSTANTS
  Bytes,       \* byte values a server sends
  ChunkSize,   \* the most bytes of a read of the body: 4096
  Interval,    \* callbackInterval: 1 MiB
  MaxBytes     \* bound: bytes of the stream

ASSUME StatisticsAssumption ==
  /\ Bytes \subseteq 0 .. 255
  /\ ChunkSize \in Nat \ {0} /\ Interval \in Nat /\ Interval >= ChunkSize
  /\ MaxBytes \in Nat

VARIABLES
  transport,      \* "http", "ws"
  tester,         \* StreamTester
  nextCallback,   \* of RunFromReader
  reported,       \* Total of the last report; lastReport of TestEntropyWS
  over,           \* "", "eof", "failed"
  data            \* history: all that was read

statistics == <<transport, tester, nextCallback, reported, over, data>>

NewStreamTester ==
  [hist |-> [v \in Bytes |-> 0], ones |-> 0, total |-> 0, pairs |-> 0,
   sum |-> 0, sumSq |-> 0, sumProd |-> 0, prev |-> 0, havePrev |-> FALSE]

StatisticsInit ==
  /\ transport \in {"http", "ws"}
  /\ tester = NewStreamTester
  /\ nextCallback = Interval
  /\ reported = 0 /\ over = "" /\ data = <<>>

\* bits.OnesCount8
OnesCount[v \in 0 .. 255] == IF v = 0 THEN 0 ELSE (v % 2) + OnesCount[v \div 2]

AddByte(t, v) ==
  [hist |-> [t.hist EXCEPT ![v] = @ + 1], ones |-> t.ones + OnesCount[v],
   sum |-> t.sum + v, sumSq |-> t.sumSq + v * v,
   sumProd |-> IF t.havePrev THEN t.sumProd + t.prev * v ELSE t.sumProd,
   pairs |-> IF t.havePrev THEN t.pairs + 1 ELSE t.pairs,
   prev |-> v, havePrev |-> TRUE, total |-> t.total + 1]

\* Mutant: a pair across two chunks is not counted.
AddChunkAlone(t, chunk) ==
  LET run[k \in 0 .. Len(chunk)] ==
        IF k = 0 THEN [t EXCEPT !.havePrev = FALSE] ELSE AddByte(run[k - 1], chunk[k])
  IN  run[Len(chunk)]

Add(t, chunk) ==
  LET run[k \in 0 .. Len(chunk)] ==
        IF k = 0 THEN t ELSE AddByte(run[k - 1], chunk[k])
  IN  run[Len(chunk)]

\* Mutant: the report is due behind the interval only.
DueBehind(total) ==
  IF transport = "http" THEN total > nextCallback ELSE total - reported > Interval

Due(total) ==
  IF transport = "http" THEN total >= nextCallback ELSE total - reported >= Interval

\* A read, or a message of any size; one that is not binary is skipped.
Chunks ==
  LET room == MaxBytes - Len(data)
      most == IF transport = "http" /\ ChunkSize < room THEN ChunkSize ELSE room
  IN  UNION {[1 .. n -> Bytes] : n \in 1 .. most}

Take ==
  /\ over = ""
  /\ \E chunk \in Chunks :
       LET after == Add(tester, chunk) IN
       /\ tester' = after /\ data' = data \o chunk
       /\ \/ /\ Due(after.total)
             /\ reported' = after.total
             /\ nextCallback' = nextCallback + Interval
          \/ ~Due(after.total) /\ UNCHANGED <<reported, nextCallback>>
  /\ UNCHANGED <<transport, over>>

\* io.EOF of the body: a last report.
EndOfBody ==
  /\ over = "" /\ transport = "http"
  /\ over' = "eof" /\ reported' = tester.total
  /\ UNCHANGED <<transport, tester, nextCallback, data>>

\* The time for the diagnostic is up, a signal, or a failed read: no report.
Fail ==
  /\ over = "" /\ over' = "failed"
  /\ UNCHANGED <<transport, tester, nextCallback, reported, data>>

StatisticsNext == Take \/ EndOfBody \/ Fail

StatisticsSpec == StatisticsInit /\ [][StatisticsNext]_statistics

-----------------------------------------------------------------------------
(***************************************************************************)
(* RunDiagnostics, the monitor's statistics of one frame.  Its mean is the *)
(* fraction Sum / N: numerator and denominator of the serial correlation   *)
(* are taken N * N times.                                                  *)
(***************************************************************************)
SumTo(f, n) ==
  LET sum[k \in 0 .. n] == IF k = 0 THEN 0 ELSE sum[k - 1] + f[k] IN sum[n]

Diagnostics(d) ==
  LET N == Len(d)
      Sum == SumTo(d, N)
  IN  [hist |-> [v \in Bytes |-> SumTo([i \in 1 .. N |-> IF d[i] = v THEN 1 ELSE 0], N)],
       ones |-> SumTo([i \in 1 .. N |-> OnesCount[d[i]]], N),
       num |-> SumTo([i \in 1 .. N - 1 |-> (N * d[i] - Sum) * (N * d[i + 1] - Sum)], N - 1),
       den |-> SumTo([i \in 1 .. N |-> (N * d[i] - Sum) * (N * d[i] - Sum)], N)]

\* computeSerial: its numerator and denominator, N times.
Numerator(t) == t.total * t.sumProd - t.sum * t.sum
Denominator(t) == t.total * t.sumSq - t.sum * t.sum

\* Both diagnostics mean the same numbers: however the stream was cut into
\* chunks, the histogram, the ones and the variance are those of the data as
\* a whole, and the two correlations differ by the ends of the data alone,
\* which the one-pass formula neglects.
LiveAgreesWithDiagnostics ==
  LET N == Len(data)
      all == Diagnostics(data)
  IN  N >= 4 =>
        /\ tester.total = N /\ tester.pairs = N - 1
        /\ tester.hist = all.hist /\ tester.ones = all.ones
        /\ N * Denominator(tester) = all.den
        /\ N * Numerator(tester)
             = all.num - tester.sum * (N * (data[1] + data[N]) - tester.sum)

\* Less than an interval of bytes is ever behind the last report, however
\* reads and reports fall together, and none at the end of a body.
ReportsKeepPace ==
  /\ tester.total - reported < Interval
  /\ over = "eof" => reported = tester.total
=============================================================================
