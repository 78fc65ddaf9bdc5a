---------------------------- MODULE ReseedTiming ---------------------------
(***************************************************************************)
(* reseedLoop on a machine that keeps up, with a source that works: every  *)
(* step but a read takes no time, and a read at most ReadTime.             *)
(***************************************************************************)
EXTENDS Reseeding

CONSTANTS
  Second,    \* a second, in the unit of Interval
  ReadTime   \* the longest read

ASSUME TimingAssumption == Second \in Nat /\ ReadTime \in Nat

\* Mutant: an age limit of two intervals.
TwoIntervals == IF 2 * Interval > Second THEN 2 * Interval ELSE Second

\* What Validate makes of -max-reseed-age=0.
DefaultMaxAge == IF 4 * Interval > Second THEN 4 * Interval ELSE Second

VARIABLE elapsed  \* time spent in the present read

timedVars == <<vars, elapsed>>

TimedInit == Init /\ source = "ok" /\ elapsed = 0

\* Time passes while the loop has nothing to do but wait.
Unhurried ==
  \/ pc = "wait" /\ ~tick
  \/ pc = "read" /\ elapsed < ReadTime
  \/ pc = "exited"

TimedNext ==
  \/ Pass /\ Unhurried /\ elapsed' = IF pc = "read" THEN elapsed + 1 ELSE elapsed
  \/ Work /\ elapsed' = 0
  \/ (Cancel \/ CloseGenerators) /\ UNCHANGED elapsed

TimedSpec == TimedInit /\ [][TimedNext]_timedVars

\* With the default age limit, reads that take up to three intervals, and the
\* ticks dropped meanwhile, never make a working service look stale.
HealthyStaysReady ==
  ~cancelled /\ pc # "exited" => \A g \in Generators : Ready(g)
=============================================================================
