-------------------------------- MODULE Drbg --------------------------------
(***************************************************************************)
(* One generator of internal/drbg, as a value: the operations of type DRBG *)
(* that run under its mutex.  The key is abstracted to what it was made    *)
(* from, the cipher to the number of bytes taken from it, so two           *)
(* generators emit the same bytes exactly when keys and positions agree.   *)
(***************************************************************************)
EXTENDS Naturals

CONSTANTS
  MaxBytesPerKey,   \* maxBytesPerKey, 2^38 in the code
  SeedLen           \* the 64 bytes a child's seed takes from its parent

ASSUME DrbgAssumption ==
  /\ MaxBytesPerKey \in Nat
  /\ SeedLen \in Nat
  /\ 0 < SeedLen /\ SeedLen <= MaxBytesPerKey

\* A generator whose key material is in the set Keys.
Generator(Keys) ==
  [key : Keys, generated : 0 .. MaxBytesPerKey, closed : BOOLEAN]

NewDRBG(key) == [key |-> key, generated |-> 0, closed |-> FALSE]

\* readLocked returns bytes: not closed, and the budget of the key suffices.
CanRead(d, n) == ~d.closed /\ n <= MaxBytesPerKey - d.generated

AfterRead(d, n) == [d EXCEPT !.generated = @ + n]

\* Reseed installs the new key with a new budget.
AfterReseed(d, key) == [key |-> key, generated |-> 0, closed |-> d.closed]

AfterClose(d) == [d EXCEPT !.closed = TRUE]
=============================================================================
