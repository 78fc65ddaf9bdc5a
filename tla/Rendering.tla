----------------------------- MODULE Rendering -----------------------------
(***************************************************************************)
(* The routes of fixed cost: pictures (random image, heatmap, QR code),    *)
(* rendered at once, and sounds, of which two are rendered at a time.  The *)
(* request budget that admits both is the module Budget; this one begins   *)
(* behind it.                                                              *)
(***************************************************************************)
EXTENDS Naturals, FiniteSets

CONSTANTS
  Listeners,    \* clients of these routes
  Slots         \* renderings of sound at a time

ASSUME RenderingAssumption ==
  /\ IsFiniteSet(Listeners)
  /\ Slots \in Nat \ {0}

VARIABLES
  doing,     \* a listener's handler
  slots,     \* len(slots)
  gone,      \* listeners whose request context is cancelled
  told       \* the answer to the last request; 0: none

rendering == <<doing, slots, gone, told>>

\* Handlers that hold a slot.
Holding == {c \in Listeners : doing[c] \in {"seeding", "sampling", "encoding", "sending", "leaving"}}

RenderingTypeOK ==
  /\ doing \in [Listeners -> {"nothing", "picturing", "seeding", "sampling", "encoding",
                              "sending", "leaving"}]
  /\ slots \in 0 .. Slots
  /\ gone \subseteq Listeners
  /\ told \in [Listeners -> {0, 200, 400, 405, 500, 503}]

RenderingInit ==
  /\ doing = [c \in Listeners |-> "nothing"]
  /\ slots = 0
  /\ gone = {}
  /\ told = [c \in Listeners |-> 0]

Go(c, place) == doing' = [doing EXCEPT ![c] = place]
Tell(c, code) == told' = [told EXCEPT ![c] = code]

(***************************************************************************)
(* Arrival                                                                 *)
(***************************************************************************)
\* The context of a new request may be done when its handler begins.
Arrive(c) ==
  /\ doing[c] = "nothing"
  /\ \/ gone' = gone \ {c}
     \/ gone' = gone \cup {c}

AskPicture(c) ==
  Arrive(c) /\ Go(c, "picturing") /\ Tell(c, 0) /\ UNCHANGED slots

\* Another method, or a query parseSoundOptions refuses.
RefuseSound(c) ==
  /\ Arrive(c)
  /\ \E code \in {400, 405} : Tell(c, code)
  /\ UNCHANGED <<doing, slots>>

\* HEAD needs no rendering; a request given up before is not answered.
AskLength(c) ==
  /\ Arrive(c)
  /\ Tell(c, IF c \in gone' THEN 0 ELSE 200)
  /\ UNCHANGED <<doing, slots>>

\* GET: the send on slots, or its default.
AskSound(c) ==
  /\ Arrive(c)
  /\ \/ c \in gone' /\ Tell(c, 0) /\ UNCHANGED <<doing, slots>>
     \/ /\ c \notin gone' /\ slots < Slots
        /\ slots' = slots + 1 /\ Go(c, "seeding") /\ Tell(c, 0)
     \/ /\ c \notin gone' /\ slots = Slots
        /\ Tell(c, 503) /\ UNCHANGED <<doing, slots>>

(***************************************************************************)
(* Pictures                                                                *)
(***************************************************************************)
\* Read, encode and write, without a look at the context; the read may fail.
Draw(c) ==
  /\ doing[c] = "picturing" /\ Go(c, "nothing")
  /\ \E code \in {200, 500} : Tell(c, code)
  /\ UNCHANGED <<slots, gone>>

(***************************************************************************)
(* Sounds                                                                  *)
(***************************************************************************)
\* 64 bytes of the root.
Seed(c) ==
  /\ doing[c] = "seeding" /\ UNCHANGED <<slots, gone>>
  /\ \/ Go(c, "leaving") /\ Tell(c, 500)
     \/ Go(c, "sampling") /\ UNCHANGED told

\* One block of 1024 samples in one of the two passes of synthesizeSound,
\* which looks at the context before it and gives up, or does the block; the
\* pass ends behind the last one.  A silent sound has no second pass.
Pass(c, place, next) ==
  /\ doing[c] = place /\ UNCHANGED <<slots, gone, told>>
  /\ \/ c \in gone /\ Go(c, "leaving")
     \/ c \notin gone /\ \E p \in next \cup {place} : Go(c, p)

Sample(c) == Pass(c, "sampling", {"encoding", "sending"})
Encode(c) == Pass(c, "encoding", {"sending"})

\* The write, which may fail: no more is told then than was sent.
Send(c) ==
  /\ doing[c] = "sending" /\ Go(c, "leaving")
  /\ Tell(c, 200)
  /\ UNCHANGED <<slots, gone>>

\* Mutant: the slot is not given back on the way out of a failure.
LeaveAfterSending(c) ==
  /\ doing[c] = "leaving" /\ Go(c, "nothing")
  /\ slots' = IF told[c] = 200 THEN slots - 1 ELSE slots
  /\ UNCHANGED <<gone, told>>

\* The deferred receive, on every way out.
LeaveSound(c) ==
  /\ doing[c] = "leaving" /\ Go(c, "nothing")
  /\ slots' = slots - 1
  /\ UNCHANGED <<gone, told>>

\* A listener gives up, or the server ends.
GiveUp(c) ==
  /\ doing[c] # "nothing" /\ c \notin gone
  /\ gone' = gone \cup {c}
  /\ UNCHANGED <<doing, slots, told>>

RenderingNext ==
  \E c \in Listeners :
    \/ AskPicture(c) \/ RefuseSound(c) \/ AskLength(c) \/ AskSound(c) \/ GiveUp(c)
    \/ Draw(c) \/ Seed(c) \/ Sample(c) \/ Encode(c) \/ Send(c) \/ LeaveSound(c)

RenderingSpec == RenderingInit /\ [][RenderingNext]_rendering

\* A listener is told that the service is busy only while so many other
\* handlers, not yet at their end, are rendering or sending sounds: a render
\* that failed or was given up takes nothing from those who come later.
BusyIsJustified ==
  [][\A c \in Listeners :
       (AskSound(c) /\ told'[c] = 503) => Cardinality(Holding \ {c}) = Slots]_rendering
=============================================================================
