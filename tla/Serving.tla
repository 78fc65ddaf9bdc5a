------------------------------- MODULE Serving -----------------------------
(***************************************************************************)
(* What an HTTP request meets on its way, in five parts of which a         *)
(* behaviour lives in one: the reading of its parameters and cookie        *)
(* (Preferences), admission (Budget), rendering at a fixed cost            *)
(* (Rendering), the line the log gets of it (RequestLog), and the counters *)
(* it leaves behind (ActivityPeaks).                                       *)
(***************************************************************************)
EXTENDS Budget, RequestLog, Rendering, ActivityPeaks, Preferences

VARIABLE part

Parts == {"budget", "log", "rendering", "peaks", "preferences"}

ServingInit ==
  /\ part \in Parts
  /\ Init /\ LogInit /\ RenderingInit /\ PeaksInit /\ PreferencesInit
  /\ part # "preferences" =>                      \* one initial state is enough
       cookies /\ limits = CHOOSE l \in [{"bytes", "words"} -> Limits] : TRUE

Admits == part = "budget" /\ Next /\ UNCHANGED <<part, log, rendering, peaks, preferences>>
Logs == part = "log" /\ LogNext /\ UNCHANGED <<part, vars, rendering, peaks, preferences>>
Renders ==
  part = "rendering" /\ RenderingNext /\ UNCHANGED <<part, vars, log, peaks, preferences>>
Samples == part = "peaks" /\ PeaksNext /\ UNCHANGED <<part, vars, log, rendering, preferences>>
Reads ==
  part = "preferences" /\ PreferencesNext /\ UNCHANGED <<part, vars, log, rendering, peaks>>

ServingSpec ==
  /\ ServingInit
  /\ [][Admits \/ Logs \/ Renders \/ Samples \/ Reads]_
        <<part, vars, log, rendering, peaks, preferences>>
=============================================================================
