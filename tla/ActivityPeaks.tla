--------------------------- MODULE ActivityPeaks ---------------------------
(***************************************************************************)
(* activityPeakMonitor: cumulative counters, which handlers increase at    *)
(* any moment, are read one after the other once a second, and the highest *)
(* average of an interval between two readings is kept as a peak.  Rates   *)
(* are fractions <<increase, elapsed>>; the scale of a rate (per second or *)
(* per minute) is a constant factor and left out.                          *)
(***************************************************************************)
EXTENDS Naturals

CONSTANTS
  Counters,     \* how many: read in the order 1, 2, ...
  MaxCount,     \* bound: events counted of each kind
  MaxTime       \* bound: the clock

ASSUME ActivityPeaksAssumption ==
  Counters \in Nat \ {0} /\ MaxCount \in Nat /\ MaxTime \in Nat

VARIABLES
  counted,      \* the counters: [1 .. Counters -> Nat]
  clock,        \* time.Now()
  next,         \* the counter sample reads next; 0: no reading is under way
  current,      \* what was read
  started,      \* ~last.IsZero()
  last, previous,      \* the reading before
  peak,         \* for each counter the highest average yet
  first,        \* history: time and counters of the first reading
  sampling      \* the context is not done

peaks == <<counted, clock, next, current, started, last, previous, peak, first, sampling>>

Kinds == 1 .. Counters
Zero == [k \in Kinds |-> 0]

\* startActivityPeakMonitor: the first reading is taken before it returns.
PeaksInit ==
  /\ counted = Zero /\ current = Zero /\ previous = Zero
  /\ clock = 0 /\ last = 0 /\ next = 1
  /\ started = FALSE /\ sampling = TRUE
  /\ peak = [k \in Kinds |-> <<0, 1>>]
  /\ first = [at |-> 0, counted |-> Zero]

\* metrics.Add..., and the rejections a budget counts.
Count ==
  /\ \E k \in Kinds :
       counted[k] < MaxCount /\ counted' = [counted EXCEPT ![k] = counted[k] + 1]
  /\ UNCHANGED <<clock, next, current, started, last, previous, peak, first, sampling>>

Advance ==
  /\ clock < MaxTime /\ clock' = clock + 1
  /\ UNCHANGED <<counted, next, current, started, last, previous, peak, first, sampling>>

Tick ==
  /\ sampling /\ next = 0 /\ next' = 1
  /\ UNCHANGED <<counted, clock, current, started, last, previous, peak, first, sampling>>

\* readActivityCounters
Read ==
  /\ next \in Kinds
  /\ current' = [current EXCEPT ![next] = counted[next]]
  /\ next' = next + 1
  /\ UNCHANGED <<counted, clock, started, last, previous, peak, first, sampling>>

Higher(p, q) == p[1] * q[2] > q[1] * p[2]

\* The highest average so far, with the one of an interval of so many seconds.
Raised(k, seconds) ==
  IF current[k] < previous[k] THEN peak[k]
  ELSE LET rate == <<current[k] - previous[k], seconds>>
       IN  IF Higher(rate, peak[k]) THEN rate ELSE peak[k]

\* Mutant: a reading without a lapse of time replaces the one before.
ObserveAlways ==
  /\ next = Counters + 1 /\ next' = 0
  /\ IF ~started
     THEN first' = [at |-> clock, counted |-> current] /\ UNCHANGED peak
     ELSE /\ peak' = IF clock > last THEN [k \in Kinds |-> Raised(k, clock - last)] ELSE peak
          /\ UNCHANGED first
  /\ started' = TRUE /\ last' = clock /\ previous' = current
  /\ UNCHANGED <<counted, clock, current, sampling>>

\* observe, with the time at the end of the reading.
Observe ==
  /\ next = Counters + 1 /\ next' = 0
  /\ \/ /\ ~started
        /\ started' = TRUE /\ last' = clock /\ previous' = current
        /\ first' = [at |-> clock, counted |-> current]
        /\ UNCHANGED peak
     \/ /\ started /\ clock > last
        /\ peak' = [k \in Kinds |-> Raised(k, clock - last)]
        /\ last' = clock /\ previous' = current
        /\ UNCHANGED <<started, first>>
     \/ /\ started /\ clock <= last
        /\ UNCHANGED <<peak, last, previous, started, first>>
  /\ UNCHANGED <<counted, clock, current, sampling>>

\* ctx.Done(): the goroutine ends; the peaks can still be read.
StopSampling ==
  /\ sampling /\ next = 0 /\ sampling' = FALSE
  /\ UNCHANGED <<counted, clock, next, current, started, last, previous, peak, first>>

PeaksNext == Count \/ Advance \/ Tick \/ Read \/ Observe \/ StopSampling

PeaksSpec == PeaksInit /\ [][PeaksNext]_peaks

\* The peaks shown are never below the average of the whole time observed:
\* no event between the first and the last reading is lost to a peak,
\* whichever readings came too close together to be used.
PeakCoversAverage ==
  \A k \in Kinds :
    (previous[k] - first.counted[k]) * peak[k][2] <= peak[k][1] * (last - first.at)
=============================================================================
