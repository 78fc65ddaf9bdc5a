------------------------------- MODULE Gallery ------------------------------
(***************************************************************************)
(* The endpoint gallery: one timer, one batch of requests at a time, whose *)
(* images are kept behind object URLs and shown together when the last     *)
(* request is settled.  The words of a batch hold nothing to release and   *)
(* are left out, as are messages.                                          *)
(***************************************************************************)
CONSTANTS
  Images,  \* the sources that answer an image
  URLs,    \* bound: names of object URLs that live at a time
  NoURL

VARIABLES
  hidden,     \* document.hidden
  stopped,    \* the page was left, and not restored
  valid,      \* what the interval's field holds is valid
  stalled,    \* history: the timer found it invalid and was not set since
  timer,      \* the refresh timer is set
  busy,
  deadline,   \* the batch's timer is set
  aborted,    \* its controller's signal
  load,       \* the batch's promises
  result,     \* the object URL each has created
  urls,       \* the object URL each preview shows
  live        \* object URLs that were created and not revoked

batch == <<busy, deadline, aborted>>
images == <<load, result, urls, live>>
vars == <<hidden, stopped, valid, stalled, timer, batch, images>>

Settled == {"fulfilled", "rejected"}
Named(f) == {f[i] : i \in Images} \ {NoURL}

TypeOK ==
  /\ {hidden, stopped, valid, stalled, timer, busy, deadline, aborted} \subseteq BOOLEAN
  /\ load \in [Images -> Settled \cup {"none", "fetching", "decoding"}]
  /\ result \in [Images -> URLs \cup {NoURL}] /\ urls \in [Images -> URLs \cup {NoURL}]
  /\ live \subseteq URLs
  /\ busy <=> \A i \in Images : load[i] # "none"

\* schedule(0) at the script's end.
Init ==
  /\ hidden = FALSE /\ stopped = FALSE /\ valid = TRUE /\ stalled = FALSE
  /\ timer = TRUE
  /\ busy = FALSE /\ deadline = FALSE /\ aborted = FALSE
  /\ load = [i \in Images |-> "none"]
  /\ result = [i \in Images |-> NoURL] /\ urls = [i \in Images |-> NoURL]
  /\ live = {}

schedule == timer' = (~stopped' /\ ~hidden') /\ stalled' = FALSE

-----------------------------------------------------------------------------
(***************************************************************************)
(* refresh                                                                 *)
(***************************************************************************)

StartBatch ==
  /\ timer' = FALSE /\ busy' = TRUE /\ aborted' = FALSE /\ deadline' = TRUE
  /\ load' = [i \in Images |-> "fetching"]
  /\ stalled' = FALSE /\ UNCHANGED <<result, urls, live>>

MayRefresh == ~busy /\ ~stopped /\ ~hidden /\ valid

TimerFires ==
  /\ timer
  /\ \/ MayRefresh /\ StartBatch
     \/ /\ ~MayRefresh
        /\ timer' = FALSE
        /\ stalled' = ~(busy \/ stopped \/ hidden)
        /\ UNCHANGED <<batch, images>>
  /\ UNCHANGED <<hidden, stopped, valid>>

\* The button is disabled while a batch runs.
Click ==
  /\ MayRefresh /\ StartBatch
  /\ UNCHANGED <<hidden, stopped, valid>>

\* Another handler: the page and the batch stay as they are.
Loading(i, from) ==
  /\ load[i] = from
  /\ UNCHANGED <<hidden, stopped, valid, stalled, timer, batch, urls>>

\* The response of an image, for which an object URL is made.
BlobArrives(i) ==
  /\ Loading(i, "fetching") /\ ~aborted
  /\ \E u \in URLs \ (live \cup Named(urls)) :
       result' = [result EXCEPT ![i] = u] /\ live' = live \cup {u}
  /\ load' = [load EXCEPT ![i] = "decoding"]

\* No usable answer, or none in time.
FetchFails(i) ==
  /\ Loading(i, "fetching")
  /\ load' = [load EXCEPT ![i] = "rejected"]
  /\ UNCHANGED <<result, live>>

\* Mutant: the URL of an image that cannot be decoded is forgotten.
DecodeForgets(i) ==
  /\ Loading(i, "decoding")
  /\ \/ load' = [load EXCEPT ![i] = "fulfilled"] /\ UNCHANGED <<result, live>>
     \/ /\ load' = [load EXCEPT ![i] = "rejected"]
        /\ result' = [result EXCEPT ![i] = NoURL] /\ UNCHANGED live

DecodeEnds(i) ==
  /\ Loading(i, "decoding")
  /\ \/ load' = [load EXCEPT ![i] = "fulfilled"] /\ UNCHANGED <<result, live>>
     \/ /\ load' = [load EXCEPT ![i] = "rejected"]
        /\ result' = [result EXCEPT ![i] = NoURL] /\ live' = live \ {result[i]}

DeadlineStrikes ==
  /\ deadline
  /\ deadline' = FALSE /\ aborted' = TRUE
  /\ UNCHANGED <<hidden, stopped, valid, stalled, timer, busy, images>>

\* A batch that outlived its page releases its images, any other shows them
\* and releases those they replace.
Release == urls' = urls /\ live' = live \ Named(result)

Render ==
  LET fresh == {i \in Images : load[i] = "fulfilled"} IN
  /\ urls' = [i \in Images |-> IF i \in fresh THEN result[i] ELSE urls[i]]
  /\ live' = live \ {urls[i] : i \in fresh}

Finish == busy' = FALSE /\ deadline' = FALSE /\ UNCHANGED aborted

\* What follows await Promise.allSettled.
BatchSettles ==
  /\ busy /\ \A i \in Images : load[i] \in Settled
  /\ IF stopped THEN Release ELSE Render
  /\ load' = [i \in Images |-> "none"] /\ result' = [i \in Images |-> NoURL]
  /\ Finish
  /\ UNCHANGED <<hidden, stopped, valid>>
  /\ schedule

-----------------------------------------------------------------------------
(***************************************************************************)
(* The page                                                                *)
(***************************************************************************)

\* Typing: no event is handled.
Type ==
  /\ valid' = ~valid
  /\ UNCHANGED <<hidden, stopped, stalled, timer, batch, images>>

\* change, when the field is valid and no batch runs.
ChangeInterval ==
  /\ valid /\ ~busy
  /\ UNCHANGED <<hidden, stopped, valid, batch, images>>
  /\ schedule

VisibilityChange ==
  /\ hidden' = ~hidden
  /\ UNCHANGED <<stopped, valid, batch, images>>
  /\ \/ hidden' /\ timer' = FALSE /\ UNCHANGED stalled
     \/ ~hidden' /\ ~busy /\ ~stopped /\ schedule
     \/ ~hidden' /\ (busy \/ stopped) /\ UNCHANGED <<timer, stalled>>

PageHide ==
  /\ ~stopped /\ stopped' = TRUE
  /\ timer' = FALSE /\ aborted' = (aborted \/ busy)
  /\ urls' = [i \in Images |-> NoURL] /\ live' = live \ Named(urls)
  /\ UNCHANGED <<hidden, valid, stalled, busy, deadline, load, result>>

\* With event.persisted.
PageShow ==
  /\ stopped /\ stopped' = FALSE
  /\ UNCHANGED <<hidden, valid, batch, images>>
  /\ schedule

-----------------------------------------------------------------------------
Next ==
  \/ TimerFires \/ Click \/ DeadlineStrikes \/ BatchSettles
  \/ \E i \in Images : BlobArrives(i) \/ FetchFails(i) \/ DecodeEnds(i)
  \/ Type \/ ChangeInterval \/ VisibilityChange \/ PageHide \/ PageShow

-----------------------------------------------------------------------------
(***************************************************************************)
(* Properties                                                              *)
(***************************************************************************)

\* Every object URL that was made is shown, or belongs to an image of the
\* batch, or was revoked; and what is shown is not revoked while the page is.
URLsAccounted == live = Named(urls) \cup Named(result)

\* A visible page waits for its timer or for its batch, in whatever order it
\* was hidden, left, restored and loaded; only a field that was invalid when
\* the timer fired stops it, until something else sets the timer.
Polls == ~hidden /\ ~stopped /\ ~busy => timer \/ stalled
=============================================================================
