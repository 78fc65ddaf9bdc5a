------------------------------ MODULE Reseeding ----------------------------
(***************************************************************************)
(* reseedLoop and the readiness that /ready reports of a generator: one    *)
(* goroutine that waits for its ticker, reads a seed for every generator   *)
(* in turn from a source that may answer, fail or block, and installs it,  *)
(* while time passes, main cancels and closes, and anyone may probe.       *)
(***************************************************************************)
EXTENDS Naturals

CONSTANTS
  N,         \* reseedLoop's generators are 1..N; main passes one, the root
  Interval,  \* the ticker's period
  MaxAge     \* maxAge, in the same unit of time

ASSUME ReseedingAssumption ==
  /\ N \in Nat \ {0} /\ Interval \in Nat \ {0} /\ MaxAge \in Nat \ {0}

Generators == 1..N

VARIABLES
  pc,         \* where the loop is, see Pcs
  i,          \* the generator whose turn it is
  seed,       \* the buffer: "clear", or "fresh" bytes of one complete read
  epoch,      \* reseedEpoch of each generator, of which the parity is kept
  lastError,  \* lastReseedError is not empty
  age,        \* time since Reseeded, counted up to MaxAge + 1
  timer,      \* what is left of the ticker's period
  tick,       \* the ticker's channel, of capacity one, holds a tick
  source,     \* what a read does now: "ok", "failing" or "blocked"
  cancelled,  \* main's context
  closed,     \* the deferred Close of the generators has run
  served      \* history: the generators reseeded since the last tick taken

Pcs == {"start", "wait", "next", "read", "failed", "got", "install", "exited"}

loop == <<pc, i, seed>>
generator == <<epoch, lastError, served>>
clock == <<timer, tick>>
world == <<source, cancelled, closed>>
vars == <<loop, generator, age, clock, world>>

TypeOK ==
  /\ pc \in Pcs
  /\ i \in 1..(N + 1) /\ (pc \notin {"start", "wait", "next", "exited"} => i <= N)
  /\ seed \in {"clear", "fresh"}
  /\ epoch \in [Generators -> {0, 1}]
  /\ lastError \in [Generators -> BOOLEAN]
  /\ age \in [Generators -> 0..(MaxAge + 1)]
  /\ timer \in 1..Interval
  /\ tick \in BOOLEAN
  /\ source \in {"ok", "failing", "blocked"}
  /\ cancelled \in BOOLEAN /\ closed \in BOOLEAN
  /\ served \in SUBSET Generators

\* The root has just been seeded.
Init ==
  /\ pc = "start" /\ i = 1 /\ seed = "clear"
  /\ epoch = [g \in Generators |-> 0]
  /\ lastError = [g \in Generators |-> FALSE]
  /\ age = [g \in Generators |-> 0]
  /\ timer = Interval /\ tick = FALSE
  /\ source \in {"ok", "failing", "blocked"}
  /\ cancelled = FALSE /\ closed = FALSE
  /\ served = Generators

\* reseedReady: what a probe of /ready sees.
Ready(g) == ~lastError[g] /\ age[g] <= MaxAge

-----------------------------------------------------------------------------
(***************************************************************************)
(* The loop                                                                *)
(***************************************************************************)

\* Mutant: the context is not looked at.
CarryOn(label) == pc' = label

\* if ctx.Err() != nil { return }
UnlessCancelled(label) == pc' = IF cancelled THEN "exited" ELSE label

\* A caller's buffer size is refused, every generator marked; or the ticker starts.
Start ==
  /\ pc = "start"
  /\ \/ /\ pc' = "exited"
        /\ lastError' = [g \in Generators |-> TRUE]
     \/ /\ pc' = "wait"
        /\ UNCHANGED lastError
  /\ UNCHANGED <<i, seed, epoch, served, age, clock, world>>

\* Mutant: a new round starts with a clean slate.
TakeTickForgetsError ==
  /\ pc = "wait" /\ tick
  /\ tick' = FALSE
  /\ pc' = "next" /\ i' = 1
  /\ served' = {}
  /\ lastError' = [g \in Generators |-> FALSE]
  /\ UNCHANGED <<seed, epoch, age, timer, world>>

\* select: when both are ready either branch is taken.
TakeTick ==
  /\ pc = "wait" /\ tick
  /\ tick' = FALSE
  /\ pc' = "next" /\ i' = 1
  /\ served' = {}
  /\ UNCHANGED <<seed, epoch, lastError, age, timer, world>>

TakeDone ==
  /\ pc = "wait" /\ cancelled
  /\ pc' = "exited"
  /\ UNCHANGED <<i, seed, generator, age, clock, world>>

\* The head of the inner loop.
NextGenerator ==
  /\ pc = "next"
  /\ \/ i > N /\ pc' = "wait"
     \/ i <= N /\ UnlessCancelled("read")
  /\ UNCHANGED <<i, seed, generator, age, clock, world>>

\* io.ReadFull returns, unless the source blocks: a short read is an error.
ReadFull ==
  /\ pc = "read"
  /\ \/ source = "ok" /\ pc' = "got" /\ seed' = "fresh"
     \/ source = "failing" /\ pc' = "failed" /\ seed' = "clear"
  /\ UNCHANGED <<i, generator, age, clock, world>>

\* Mutant: the failure is logged, and the loop goes on with what it has.
FailedFallsThrough ==
  /\ pc = "failed"
  /\ UnlessCancelled("install")
  /\ UNCHANGED <<i, seed, generator, age, clock, world>>

\* Mutant: only the generator whose read failed is marked.
FailedMarksOne ==
  /\ pc = "failed"
  /\ UnlessCancelled("wait")
  /\ lastError' = [lastError EXCEPT ![i] = @ \/ ~cancelled]
  /\ UNCHANGED <<i, seed, epoch, served, age, clock, world>>

\* RecordReseedFailure of this generator and of those after it, then break.
Failed ==
  /\ pc = "failed"
  /\ UnlessCancelled("wait")
  /\ lastError' = [g \in Generators |-> lastError[g] \/ (~cancelled /\ g >= i)]
  /\ UNCHANGED <<i, seed, epoch, served, age, clock, world>>

Got ==
  /\ pc = "got"
  /\ UnlessCancelled("install")
  /\ seed' = IF cancelled THEN "clear" ELSE seed  \* the deferred clear
  /\ UNCHANGED <<i, generator, age, clock, world>>

\* Mutant: a success leaves the last error in place.
InstallKeepsError ==
  /\ pc = "install" /\ ~closed
  /\ epoch' = [epoch EXCEPT ![i] = 1 - @]
  /\ age' = [age EXCEPT ![i] = 0]
  /\ served' = served \cup {i}
  /\ pc' = "next" /\ i' = i + 1 /\ seed' = "clear"
  /\ UNCHANGED <<lastError, clock, world>>

\* DRBG.Reseed of an open generator, then clear(seed): cancellation may have
\* come since it was last looked for ...
Install ==
  /\ pc = "install" /\ ~closed
  /\ epoch' = [epoch EXCEPT ![i] = 1 - @]
  /\ lastError' = [lastError EXCEPT ![i] = FALSE]
  /\ age' = [age EXCEPT ![i] = 0]
  /\ served' = served \cup {i}
  /\ pc' = "next" /\ i' = i + 1 /\ seed' = "clear"
  /\ UNCHANGED <<clock, world>>

\* ... and even the Close, which main does not delay for this goroutine: the
\* error is recorded, and the loop continues.
InstallRefused ==
  /\ pc = "install" /\ closed
  /\ lastError' = [lastError EXCEPT ![i] = TRUE]
  /\ pc' = "next" /\ i' = i + 1 /\ seed' = "clear"
  /\ UNCHANGED <<epoch, served, age, clock, world>>

-----------------------------------------------------------------------------
(***************************************************************************)
(* Time, the source and main                                               *)
(***************************************************************************)

Ticking == pc \notin {"start", "exited"}

\* A unit of time.  The ticker drops a tick that finds its channel full.
Pass ==
  /\ age' = [g \in Generators |-> IF age[g] <= MaxAge THEN age[g] + 1 ELSE age[g]]
  /\ \/ Ticking /\ timer = 1 /\ timer' = Interval /\ tick' = TRUE
     \/ Ticking /\ timer > 1 /\ timer' = timer - 1 /\ UNCHANGED tick
     \/ ~Ticking /\ UNCHANGED clock
  /\ UNCHANGED <<loop, generator, world>>

SourceTurns ==
  /\ \E behaviour \in {"ok", "failing", "blocked"} \ {source} : source' = behaviour
  /\ UNCHANGED <<loop, generator, age, clock, cancelled, closed>>

\* The signal; root.Close follows when Shutdown has returned.
Cancel ==
  /\ ~cancelled
  /\ cancelled' = TRUE
  /\ UNCHANGED <<loop, generator, age, clock, source, closed>>

CloseGenerators ==
  /\ cancelled /\ ~closed
  /\ closed' = TRUE
  /\ UNCHANGED <<loop, generator, age, clock, source, cancelled>>

-----------------------------------------------------------------------------
Work ==
  \/ Start \/ TakeTick \/ TakeDone \/ NextGenerator \/ ReadFull
  \/ Failed \/ Got \/ Install \/ InstallRefused

Next == Work \/ Pass \/ SourceTurns \/ Cancel \/ CloseGenerators

\* The goroutine runs while it can, and a source that does not block returns;
\* nothing is assumed of blocked sources, of signals or of clock rates.
Spec == Init /\ [][Next]_vars /\ WF_vars(Work) /\ WF_vars(Pass)

-----------------------------------------------------------------------------
(***************************************************************************)
(* Properties                                                              *)
(***************************************************************************)

\* A key changes only by a complete read that no generator has used before:
\* nothing short, failed, cleared or shared is ever folded in.
OnlyFreshSeeds ==
  [][\A g \in Generators :
       epoch'[g] # epoch[g] => seed = "fresh" /\ seed' = "clear"]_vars

\* A round that ends leaves no generator unaccounted for: it was reseeded, or
\* it shows a failure, although the loop breaks off at the first failed read.
NobodyLeftOut ==
  pc = "wait" => \A g \in Generators : g \in served \/ lastError[g]

\* Degraded stays degraded until the generator's own key has been replaced:
\* neither time, a retry, nor a neighbour's success makes it ready again.
StaysDegraded ==
  [][\A g \in Generators : ~Ready(g) /\ Ready(g)' => epoch'[g] # epoch[g]]_vars

\* Once the source answers for good every failure is eventually forgotten.
Recovers ==
  \A g \in Generators :
    <>[](source = "ok" /\ ~cancelled /\ pc # "exited") => <>[]~lastError[g]

\* Cancellation ends the loop, whatever its select prefers, unless the source
\* blocks.
LoopEnds == <>[](cancelled /\ source # "blocked") => <>(pc = "exited")
=============================================================================
