-------------------------------- MODULE Meter -------------------------------
(***************************************************************************)
(* The client's counting of what it receives: run's sample and, behind it, *)
(* the monitor read a stream each, whose producers report every frame to   *)
(* the one ClientRateMeter before they queue it; runMonitor resets the     *)
(* meter in between and counts what it observes itself.  A frame is a      *)
(* number of bytes.  What becomes of its buffer is in ClientStream.        *)
(***************************************************************************)
EXTENDS Naturals

CONSTANTS
  Sizes,       \* bytes of a frame
  Prefix,      \* -analysis-bytes; 0: whole frames
  MaxFrames    \* bound: frames a stream reads

ASSUME MeterAssumption ==
  Sizes \subseteq Nat \ {0} /\ Prefix \in Nat /\ MaxFrames \in Nat

VARIABLES
  stage,                   \* run: "sampling", "draining", "resetting", "monitoring",
                          \* "ending", "done"
  reading, hand, slot,    \* of each stream: its producer lives; the frame it read and
                          \* counted, the frame in its channel; 0: none
  bytes, total,           \* RateMeter
  windows,                \* history: the bytes of the windows ended since Reset
  frames, received,       \* monitorState.frames, stats.TotalBytes
  samples, analysed,      \* and samples, analysedBytes
  read                    \* history: frames each stream has read

meter == <<stage, reading, hand, slot, bytes, total, windows, frames, received, samples,
           analysed, read>>

Readings == {"sample", "monitor"}

MeterInit ==
  /\ stage = "sampling"
  /\ reading = [s \in Readings |-> s = "sample"]
  /\ hand = [s \in Readings |-> 0] /\ slot = [s \in Readings |-> 0]
  /\ read = [s \in Readings |-> 0]
  /\ bytes = 0 /\ total = 0 /\ windows = 0
  /\ frames = 0 /\ received = 0 /\ samples = 0 /\ analysed = 0

Monitor == <<frames, received, samples, analysed>>
Gauge == <<bytes, total, windows>>

(***************************************************************************)
(* RateMeter, each method under its mutex                                  *)
(***************************************************************************)
Update(n) ==
  /\ total' = total + n
  /\ \/ bytes' = bytes + n /\ UNCHANGED windows              \* within a second
     \/ bytes' = 0 /\ windows' = windows + bytes + n         \* a new rate

Reset == bytes' = 0 /\ total' = 0 /\ windows' = 0

(***************************************************************************)
(* The producers                                                           *)
(***************************************************************************)
\* Cancelled: once run has done with the stream.
Cancelled(s) == IF s = "sample" THEN stage # "sampling" ELSE stage \in {"ending", "done"}

\* The context is looked at before the read, not between the read and Update.
ReadFrame(s) ==
  /\ reading[s] /\ hand[s] = 0 /\ read[s] < MaxFrames
  /\ \E n \in Sizes : hand' = [hand EXCEPT ![s] = n] /\ Update(n)
  /\ read' = [read EXCEPT ![s] = read[s] + 1]
  /\ UNCHANGED <<stage, reading, slot, Monitor>>

Queue(s) ==
  /\ hand[s] # 0 /\ slot[s] = 0
  /\ slot' = [slot EXCEPT ![s] = hand[s]]
  /\ hand' = [hand EXCEPT ![s] = 0]
  /\ UNCHANGED <<stage, reading, Gauge, Monitor, read>>

\* A failed read, which cancellation brings about, or the select of a
\* producer that cannot queue; out is closed.
EndStream(s) ==
  /\ reading[s]
  /\ hand[s] = 0 \/ Cancelled(s)
  /\ reading' = [reading EXCEPT ![s] = FALSE]
  /\ hand' = [hand EXCEPT ![s] = 0]
  /\ UNCHANGED <<stage, slot, Gauge, Monitor, read>>

(***************************************************************************)
(* run: sampleEntropy and runMonitor                                       *)
(***************************************************************************)
\* The sample is taken, or the time for it is up; cancel.
TakeSample ==
  /\ stage = "sampling"
  /\ stage' = "draining"
  /\ slot' = [slot EXCEPT !["sample"] = 0]
  /\ UNCHANGED <<reading, hand, Gauge, Monitor, read>>

DiscardFrame ==
  /\ stage \in {"draining", "ending"}
  /\ \E s \in Readings : slot[s] # 0 /\ slot' = [slot EXCEPT ![s] = 0]
  /\ UNCHANGED <<stage, reading, hand, Gauge, Monitor, read>>

\* Mutant: sampleEntropy does not wait for its stream to end.
ReturnAtOnce == stage' = "resetting"

\* The deferred loop ends with the channel.
Drained ==
  /\ ~reading["sample"] /\ slot["sample"] = 0
  /\ stage' = "resetting"

Return ==
  /\ stage = "draining"
  /\ Drained
  /\ UNCHANGED <<reading, hand, slot, Gauge, Monitor, read>>

BeginMonitor ==
  /\ stage = "resetting" /\ stage' = "monitoring"
  /\ Reset
  /\ reading' = [reading EXCEPT !["monitor"] = TRUE]
  /\ UNCHANGED <<hand, slot, Monitor, read>>

Analysed(n) == IF Prefix > 0 /\ n > Prefix THEN Prefix ELSE n

\* A frame is counted always, and analysed if it is the first or due.
ObserveFrame ==
  /\ stage = "monitoring" /\ slot["monitor"] # 0
  /\ slot' = [slot EXCEPT !["monitor"] = 0]
  /\ frames' = frames + 1
  /\ received' = received + slot["monitor"]
  /\ \/ samples' = samples + 1 /\ analysed' = analysed + Analysed(slot["monitor"])
     \/ samples > 0 /\ UNCHANGED <<samples, analysed>>
  /\ UNCHANGED <<stage, reading, hand, Gauge, read>>

\* A signal, or the end of the stream.
EndMonitor ==
  /\ stage = "monitoring" /\ stage' = "ending"
  /\ UNCHANGED <<reading, hand, slot, Gauge, Monitor, read>>

Finish ==
  /\ stage = "ending" /\ stage' = "done"
  /\ ~reading["monitor"] /\ slot["monitor"] = 0
  /\ UNCHANGED <<reading, hand, slot, Gauge, Monitor, read>>

MeterNext ==
  \/ \E s \in Readings : ReadFrame(s) \/ Queue(s) \/ EndStream(s)
  \/ TakeSample \/ DiscardFrame \/ Return \/ BeginMonitor \/ ObserveFrame \/ EndMonitor \/ Finish

MeterSpec == MeterInit /\ [][MeterNext]_meter

\* What the dashboard shows as received is what the monitor received, but for
\* the frame its producer holds and the one that is queued: nothing of the
\* sample gets into the numbers behind the reset, and no frame is counted
\* twice or missed.
MeterCountsMonitor ==
  /\ stage = "monitoring" =>
       total = received + hand["monitor"] + slot["monitor"]
  /\ total = windows + bytes
  /\ analysed <= received /\ samples <= frames /\ (frames > 0 => samples > 0)
=============================================================================
