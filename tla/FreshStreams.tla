---------------------------- MODULE FreshStreams ---------------------------
(***************************************************************************)
(* What a WebSocket's private stream promises about root reseeding: a read *)
(* that returns bytes returns them from a stream seeded under a root key   *)
(* installed no earlier than the newest one when the read began, and       *)
(* existing by the time it returned.  A read may fail instead; it then     *)
(* returns nothing.                                                        *)
(***************************************************************************)
EXTENDS Naturals

CONSTANTS
  Readers,   \* the connections
  NoEpoch    \* "no read in progress" and "nothing delivered yet"

VARIABLES
  now,       \* number of root reseeds so far
  since,     \* since[r]: value of now when r's current read began
  out        \* out[r]: the reseed under which the bytes of r's last read were
             \* seeded, NoEpoch while one is in progress and if it failed

fsVars == <<now, since, out>>

Init ==
  /\ now = 0
  /\ since = [r \in Readers |-> NoEpoch]
  /\ out = [r \in Readers |-> NoEpoch]

Advance ==
  /\ now' = now + 1
  /\ UNCHANGED <<since, out>>

Begin(r) ==
  /\ since[r] = NoEpoch
  /\ since' = [since EXCEPT ![r] = now]
  /\ out' = [out EXCEPT ![r] = NoEpoch]
  /\ UNCHANGED now

Deliver(r) ==
  /\ since[r] # NoEpoch
  /\ \E k \in since[r] .. now : out' = [out EXCEPT ![r] = k]
  /\ since' = [since EXCEPT ![r] = NoEpoch]
  /\ UNCHANGED now

Fail(r) ==
  /\ since[r] # NoEpoch
  /\ since' = [since EXCEPT ![r] = NoEpoch]
  /\ UNCHANGED <<now, out>>

\* The connection ends and its place is taken by a new one.
Renew(r) ==
  /\ since[r] = NoEpoch
  /\ out' = [out EXCEPT ![r] = NoEpoch]
  /\ UNCHANGED <<now, since>>

Next ==
  \/ Advance
  \/ \E r \in Readers : Begin(r) \/ Deliver(r) \/ Fail(r) \/ Renew(r)

Spec == Init /\ [][Next]_fsVars
=============================================================================
