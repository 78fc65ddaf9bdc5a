--------------------------- MODULE InstanceScrape --------------------------
(***************************************************************************)
(* One request for /metrics-2 beside the running constructors: the handler *)
(* takes drbg_instance_count from the metadata snapshot and reads          *)
(* drbg_instances_peak afterwards, without a lock around the two.          *)
(***************************************************************************)
EXTENDS InstanceCount

VARIABLE scrape   \* [pc, active, peak]: the request and the values it exports

Idle == [pc |-> "idle", active |-> 0, peak |-> 0]

ScrapeInit == InstanceInit /\ scrape = Idle

\* meta := d.GetMetadata()
ScrapeActive ==
  /\ scrape.pc # "counted"
  /\ scrape' = [pc |-> "counted", active |-> activeDRBG, peak |-> 0]
  /\ UNCHANGED instances

\* drbg.PeakInstances() in the table of values
ScrapePeak ==
  /\ scrape.pc = "counted"
  /\ scrape' = [scrape EXCEPT !.pc = "done", !.peak = peakDRBG]
  /\ UNCHANGED instances

ScrapeNext ==
  \/ InstanceNext /\ UNCHANGED scrape
  \/ ScrapeActive
  \/ ScrapePeak

ScrapeSpec == ScrapeInit /\ [][ScrapeNext]_<<instances, scrape>>

\* The exported peak covers the exported count of the same scrape, as "exact
\* atomic high-water mark on generator creation" (docs/browser-ui.md) and
\* "Maximum simultaneous DRBG instances since process start" (the help text of
\* drbg_instances_peak) say.
ScrapedPeakCoversActive ==
  scrape.pc = "done" => scrape.active <= scrape.peak
=============================================================================
