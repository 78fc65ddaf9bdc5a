----------------------------- MODULE StatusPage ----------------------------
(***************************************************************************)
(* The status page: a cycle of three requests whenever the timer or the    *)
(* visitor asks for one, and the rates it computes from a history of the   *)
(* server's counters, which a restart of the server sets to zero.          *)
(***************************************************************************)
EXTENDS Naturals, Sequences, FiniteSetsExt

CONSTANTS
  Counters,    \* the counters rates are computed from
  MaxCount,    \* bound of each
  Window,      \* the rates' window (five seconds) in units of time
  MaxTime      \* bound of the clock

VARIABLES
  running,    \* a cycle is
  step,       \* what it waits for: "fetch", the requests, or "text", a body
  sample,     \* the counters in the answer of /metrics-2
  timer,      \* the variable names a timeout that has not fired
  timeouts,   \* how many timeouts have not
  disposed,   \* the page was left
  cards,      \* the state of each card; "error" stands for "degraded", too
  history,    \* samples [at, count], oldest first
  now,        \* the page's clock
  counts      \* the server's counters

cycle == <<running, step, sample>>
timing == <<timer, timeouts, disposed>>
vars == <<cycle, timing, cards, history, now, counts>>

Sample == [Counters -> 0 .. MaxCount]
NoCounts == [c \in Counters |-> 0]

TypeOK ==
  /\ running \in BOOLEAN /\ step \in {"fetch", "text"} /\ sample \in Sample
  /\ timer \in BOOLEAN /\ timeouts \in 0 .. 1 /\ disposed \in BOOLEAN
  /\ cards \in [{"live", "ready", "metrics"} -> {"unknown", "ready", "error"}]
  /\ history \in Seq([at : 0 .. MaxTime, count : Sample])
  /\ now \in 0 .. MaxTime /\ counts \in Sample

\* The script ends with update().
Init ==
  /\ running = TRUE /\ step = "fetch" /\ sample = NoCounts
  /\ timer = FALSE /\ timeouts = 0 /\ disposed = FALSE
  /\ cards = [c \in {"live", "ready", "metrics"} |-> "unknown"]
  /\ history = <<>> /\ now = 0
  /\ counts = NoCounts

-----------------------------------------------------------------------------
(***************************************************************************)
(* The surroundings                                                        *)
(***************************************************************************)

ClockTicks ==
  /\ now < MaxTime
  /\ now' = now + 1
  /\ UNCHANGED <<cycle, timing, cards, history, counts>>

Serve ==
  /\ \/ \E c \in Counters : counts[c] < MaxCount /\ counts' = [counts EXCEPT ![c] = @ + 1]
     \/ counts' = NoCounts   \* a restart
  /\ UNCHANGED <<cycle, timing, cards, history, now>>

-----------------------------------------------------------------------------
(***************************************************************************)
(* Timeouts and what the visitor does                                      *)
(***************************************************************************)

\* The timeouts that remain after clearTimeout(timer).
Others == timeouts - (IF timer THEN 1 ELSE 0)

\* update, up to its first await, when so many timeouts remain.
update(remaining) ==
  /\ timer' = FALSE /\ timeouts' = remaining
  /\ IF running \/ disposed THEN UNCHANGED <<running, step>>
     ELSE running' = TRUE /\ step' = "fetch"
  /\ UNCHANGED <<sample, disposed, cards, history, now, counts>>

TimerFires == timeouts > 0 /\ update(timeouts - 1)

\* The button is disabled while a cycle is running.
Refresh == ~running /\ update(Others)

changeInterval ==
  /\ ~running /\ ~disposed
  /\ timer' = TRUE /\ timeouts' = Others + 1
  /\ UNCHANGED <<cycle, disposed, cards, history, now, counts>>

PageHide ==
  /\ ~disposed
  /\ disposed' = TRUE
  /\ timer' = FALSE /\ timeouts' = Others
  /\ UNCHANGED <<cycle, cards, history, now, counts>>

-----------------------------------------------------------------------------
(***************************************************************************)
(* update, from its first await on, and the KPIs                           *)
(***************************************************************************)

\* Mutant: an early return leaves the cycle without a timer.
EndSilently == running' = FALSE /\ UNCHANGED <<timer, timeouts>>

\* The finally block.
EndCycle ==
  /\ running' = FALSE
  /\ IF disposed THEN UNCHANGED <<timer, timeouts>>
     ELSE timer' = TRUE /\ timeouts' = timeouts + 1

\* Some counter has decreased.
IsReset(old, new) == \E c \in Counters : new[c] < old[c]

\* The history without what is older than the sample before the window.
Trimmed(h) ==
  LET old == {k \in 2 .. Len(h) - 1 : now - h[k].at >= Window}
  IN SubSeq(h, Max(old \cup {1}), Len(h))

\* EntropyStatusKPIs.update.
UpdateKPIs ==
  LET kept == IF history # <<>> /\ IsReset(history[Len(history)].count, sample)
              THEN <<>> ELSE history
  IN history' = Trimmed(Append(kept, [at |-> now, count |-> sample]))

\* EntropyStatusKPIs.unavailable.
unavailable == history' = <<>>

\* Every request has answered, failed or timed out.  The bodies of /live and
\* /ready are JSON as expected or not; that of /metrics-2 is waited for.
RequestsSettle ==
  /\ running /\ step = "fetch"
  /\ \E live \in {"ready", "error"}, ready \in {"ready", "error"} :
       \/ /\ step' = "text" /\ sample' = counts
          /\ cards' = [cards EXCEPT !.live = live, !.ready = ready]
          /\ UNCHANGED <<running, timing, history>>
       \/ /\ cards' = [live |-> live, ready |-> ready, metrics |-> "error"]
          /\ unavailable
          /\ EndCycle
          /\ UNCHANGED <<step, sample, disposed>>
  /\ UNCHANGED <<now, counts>>

\* Its text has arrived with the metrics expected, or not.
\* Bound: two samples are not taken at the same time.
TextArrives ==
  /\ running /\ step = "text"
  /\ \/ /\ history # <<>> => history[Len(history)].at < now
        /\ cards' = [cards EXCEPT !.metrics = "ready"]
        /\ UpdateKPIs
     \/ /\ cards' = [cards EXCEPT !.metrics = "error"]
        /\ unavailable
  /\ EndCycle
  /\ UNCHANGED <<step, sample, disposed, now, counts>>

-----------------------------------------------------------------------------
Next ==
  \/ ClockTicks \/ Serve
  \/ TimerFires \/ Refresh \/ changeInterval \/ PageHide
  \/ RequestsSettle \/ TextArrives

-----------------------------------------------------------------------------
(***************************************************************************)
(* Properties                                                              *)
(***************************************************************************)

\* One cycle at a time, and between two of them one timeout, which the page
\* can cancel: no change of the interval and no click starts a second loop,
\* and none goes on when the page has been left.
OneLoop ==
  /\ timeouts = IF timer THEN 1 ELSE 0
  /\ timeouts = IF running \/ disposed THEN 0 ELSE 1

\* The samples rates are computed from are in order and no counter decreases
\* between any two: no rate is negative, and a restart that shows in some
\* counter leaves no sample taken before it.
HistoryIsMonotone ==
  \A j \in DOMAIN history : \A i \in 1 .. j - 1 :
    /\ history[i].at <= history[j].at
    /\ \A c \in Counters : history[i].count[c] <= history[j].count[c]
=============================================================================
