------------------------- MODULE ConnectionStreams -------------------------
(***************************************************************************)
(* Everything that takes bytes from the root generator while it is being   *)
(* reseeded: WebSocket handlers through a ConnectionReader, HTTP handlers  *)
(* that make one private child per request, and /random, which serves the  *)
(* root's own output.  Each mutex section is one step; between them other  *)
(* goroutines, the reseed loop and the closing of the root interleave.     *)
(***************************************************************************)
EXTENDS Drbg, FiniteSets

CONSTANTS
  Readers,      \* ConnectionReaders: one per admitted WebSocket
  Requests,     \* HTTP requests with a child of their own
  Raws,         \* HTTP requests served from the root
  Root,         \* the root, as a counted instance
  ReadSizes,    \* lengths a caller asks for
  MaxReseeds,   \* bound: root reseeds explored
  None          \* no child, no draw, no read in progress

Owners == Readers \cup Requests      \* those with a generator of their own
Users == Owners \cup Raws            \* those that draw from the root

\* A stretch of the root's keystream: len bytes from position at, under the
\* key the root had after that many reseeds.
Draw == [root : Nat, at : Nat, len : Nat]

ASSUME StreamsAssumption ==
  /\ Readers \cap Requests = {}
  /\ Raws \cap Owners = {}
  /\ Root \notin Users
  /\ IsFiniteSet(Owners)
  /\ ReadSizes \subseteq Nat \ {0}
  /\ MaxReseeds \in Nat
  /\ None \notin Nat
  /\ None \notin Draw
  /\ None \notin Generator(Draw)

VARIABLES
  root,      \* the root generator; its key is the number of reseeds it saw
  epoch,     \* reseedEpoch, an atomic read without the root's mutex
  pc,        \* "idle", or where the user's current call is; readers may be
             \* "closed"
  want,      \* length of the read in progress
  drawn,     \* the draw a user holds: a seed on its way, or bytes to send
  fetched,   \* local variable epoch of Read: what came with the seed
  label,     \* field c.epoch of a reader
  child,     \* the private generator, None before its construction
  live, pending, peak,   \* instance counters, see HighWaterMark
  since,     \* history: reseeds of the root when the reader's Read began
  out        \* history: the root key behind the output of its last Read

counters == <<live, pending, peak>>
history == <<since, out>>
vars == <<root, epoch, pc, want, drawn, fetched, label, child, counters, history>>

Count == INSTANCE HighWaterMark WITH Members <- Owners \cup {Root}, First <- Root

TypeOK ==
  /\ root \in Generator(Nat)
  /\ epoch \in Nat
  /\ pc \in [Users -> {"idle", "seed", "build", "settle", "rekey",
                      "emit", "closed"}]
  /\ want \in [Readers -> Nat]
  /\ drawn \in [Users -> Draw \cup {None}]
  /\ fetched \in [Readers -> Nat]
  /\ label \in [Readers -> Nat]
  /\ child \in [Owners -> Generator(Draw) \cup {None}]
  /\ live \subseteq Owners \cup {Root}
  /\ pending \in [Owners \cup {Root} -> Nat]
  /\ peak \in Nat
  /\ since \in [Readers -> Nat \cup {None}]
  /\ out \in [Readers -> Nat \cup {None}]

Init ==
  /\ root = NewDRBG(0)
  /\ epoch = 0
  /\ pc = [u \in Users |-> "idle"]
  /\ want = [r \in Readers |-> 0]
  /\ drawn = [u \in Users |-> None]
  /\ fetched = [r \in Readers |-> 0]
  /\ label = [r \in Readers |-> 0]
  /\ child = [o \in Owners |-> None]
  /\ Count!Init
  /\ since = [r \in Readers |-> None]
  /\ out = [r \in Readers |-> None]

-----------------------------------------------------------------------------
(***************************************************************************)
(* The root                                                                *)
(***************************************************************************)

\* The reseed loop calls Reseed with a complete source read: key, budget and
\* epoch change in one critical section.
Reseed ==
  /\ ~root.closed
  /\ root.key < MaxReseeds
  /\ root' = AfterReseed(root, root.key + 1)
  /\ epoch' = epoch + 1
  /\ UNCHANGED <<pc, want, drawn, fetched, label, child, counters, history>>

\* main returns: its deferred root.Close runs, whatever still uses the root.
CloseRoot ==
  /\ ~root.closed
  /\ root' = AfterClose(root)
  /\ Count!Leave(Root)
  /\ UNCHANGED <<epoch, pc, want, drawn, fetched, label, child, history>>

\* Mutant: the draw is made on a copy of the generator.
DrawFromCopy(u, n) ==
  /\ CanRead(root, n)
  /\ UNCHANGED root
  /\ drawn' = [drawn EXCEPT ![u] =
                 [root |-> root.key, at |-> root.generated, len |-> n]]

\* n bytes of the root's keystream pass to user u under the root's mutex.
DrawFromRoot(u, n) ==
  /\ CanRead(root, n)
  /\ root' = AfterRead(root, n)
  /\ drawn' = [drawn EXCEPT ![u] =
                 [root |-> root.key, at |-> root.generated, len |-> n]]

-----------------------------------------------------------------------------
(***************************************************************************)
(* ConnectionReader                                                        *)
(***************************************************************************)

\* Mutants: the epoch, or the budget of the key, is not looked at.
RefreshIgnoresEpoch(r, n) ==
  child[r] = None \/ n > MaxBytesPerKey - child[r].generated

RefreshIgnoresBudget(r, n) == child[r] = None \/ label[r] # epoch

\* The private stream may not serve n bytes as it is.
NeedsRefresh(r, n) ==
  \/ child[r] = None
  \/ label[r] # epoch
  \/ n > MaxBytesPerKey - child[r].generated

\* Read takes c.mu and decides; a closed reader, an empty read and one beyond
\* a whole key's budget return here and change nothing.
BeginRead(r, n) ==
  /\ pc[r] = "idle"
  /\ n <= MaxBytesPerKey
  /\ want' = [want EXCEPT ![r] = n]
  /\ pc' = [pc EXCEPT ![r] = IF NeedsRefresh(r, n) THEN "seed" ELSE "emit"]
  /\ since' = [since EXCEPT ![r] = root.key]
  /\ out' = [out EXCEPT ![r] = None]
  /\ UNCHANGED <<root, epoch, drawn, fetched, label, child, counters>>

\* connectionSeed: the seed and its epoch in one section of the root's mutex.
ConnectionSeed(r) ==
  /\ pc[r] = "seed"
  /\ DrawFromRoot(r, SeedLen)
  /\ fetched' = [fetched EXCEPT ![r] = epoch]
  /\ pc' = [pc EXCEPT ![r] = IF child[r] = None THEN "build" ELSE "rekey"]
  /\ UNCHANGED <<epoch, want, label, child, counters, history>>

\* The root is closed or its key is used up: Read fails, keeping the child.
ConnectionSeedFails(r) ==
  /\ pc[r] = "seed"
  /\ ~CanRead(root, SeedLen)
  /\ pc' = [pc EXCEPT ![r] = "idle"]
  /\ since' = [since EXCEPT ![r] = None]
  /\ UNCHANGED <<root, epoch, want, drawn, fetched, label, child, counters, out>>

\* c.child.Reseed(seed); c.epoch = epoch
Rekey(r) ==
  /\ pc[r] = "rekey"
  /\ child' = [child EXCEPT ![r] = AfterReseed(@, drawn[r])]
  /\ label' = [label EXCEPT ![r] = fetched[r]]
  /\ drawn' = [drawn EXCEPT ![r] = None]
  /\ pc' = [pc EXCEPT ![r] = "emit"]
  /\ UNCHANGED <<root, epoch, want, fetched, counters, history>>

\* return c.child.Read(p)
Emit(r) ==
  /\ pc[r] = "emit"
  /\ IF CanRead(child[r], want[r])
     THEN /\ child' = [child EXCEPT ![r] = AfterRead(@, want[r])]
          /\ out' = [out EXCEPT ![r] = child[r].key.root]
     ELSE UNCHANGED <<child, out>>
  /\ pc' = [pc EXCEPT ![r] = "idle"]
  /\ since' = [since EXCEPT ![r] = None]
  /\ UNCHANGED <<root, epoch, want, drawn, fetched, label, counters>>

\* Mutant: the reader drops its child without closing it.
CloseReaderLeaks(r) ==
  /\ pc[r] = "idle"
  /\ pc' = [pc EXCEPT ![r] = "closed"]
  /\ child' = [child EXCEPT ![r] = None]
  /\ UNCHANGED <<root, epoch, want, drawn, fetched, label, counters, history>>

\* Close: a child is closed and released; a reader without one only closes.
CloseReader(r) ==
  /\ pc[r] = "idle"
  /\ pc' = [pc EXCEPT ![r] = "closed"]
  /\ \/ /\ child[r] # None
        /\ child' = [child EXCEPT ![r] = None]
        /\ Count!Leave(r)
     \/ /\ child[r] = None
        /\ UNCHANGED <<child, counters>>
  /\ UNCHANGED <<root, epoch, want, drawn, fetched, label, history>>

\* The next admitted connection gets a reader of its own.
NewConnectionReader(r) ==
  /\ pc[r] = "closed"
  /\ pc' = [pc EXCEPT ![r] = "idle"]
  /\ want' = [want EXCEPT ![r] = 0]
  /\ label' = [label EXCEPT ![r] = 0]
  /\ fetched' = [fetched EXCEPT ![r] = 0]
  /\ out' = [out EXCEPT ![r] = None]
  /\ UNCHANGED <<root, epoch, drawn, child, counters, since>>

-----------------------------------------------------------------------------
(***************************************************************************)
(* Construction of a generator from a drawn seed, and other users          *)
(***************************************************************************)

\* NewDRBGWithAlgorithm counts the instance ...
Build(o) ==
  /\ pc[o] = "build"
  /\ Count!Enter(o)
  /\ pc' = [pc EXCEPT ![o] = "settle"]
  /\ UNCHANGED <<root, epoch, want, drawn, fetched, label, child, history>>

\* ... raises the peak and returns the generator to its owner.
Settle(o) ==
  /\ pc[o] = "settle"
  /\ Count!Settle(o)
  /\ child' = [child EXCEPT ![o] = NewDRBG(drawn[o])]
  /\ drawn' = [drawn EXCEPT ![o] = None]
  /\ \/ /\ o \in Readers
        /\ label' = [label EXCEPT ![o] = fetched[o]]
        /\ pc' = [pc EXCEPT ![o] = "emit"]
     \/ /\ o \in Requests
        /\ pc' = [pc EXCEPT ![o] = "idle"]
        /\ UNCHANGED label
  /\ UNCHANGED <<root, epoch, want, fetched, history>>

\* NewConnectionDRBG: one seed for the whole request; a failure is a 500.
NewConnectionDRBG(q) ==
  /\ pc[q] = "idle"
  /\ child[q] = None
  /\ DrawFromRoot(q, SeedLen)
  /\ pc' = [pc EXCEPT ![q] = "build"]
  /\ UNCHANGED <<epoch, want, fetched, label, child, counters, history>>

\* A chunk of the response; a child that is used up ends the response.
ReadChild(q, n) ==
  /\ pc[q] = "idle"
  /\ child[q] # None
  /\ CanRead(child[q], n)
  /\ child' = [child EXCEPT ![q] = AfterRead(@, n)]
  /\ UNCHANGED <<root, epoch, pc, want, drawn, fetched, label, counters, history>>

\* The deferred child.Close of the handler.
CloseChild(q) ==
  /\ pc[q] = "idle"
  /\ child[q] # None
  /\ child' = [child EXCEPT ![q] = None]
  /\ Count!Leave(q)
  /\ UNCHANGED <<root, epoch, pc, want, drawn, fetched, label, history>>

\* /random reads a chunk of the root's output into its copy buffer ...
ReadRoot(w, n) ==
  /\ drawn[w] = None
  /\ DrawFromRoot(w, n)
  /\ UNCHANGED <<epoch, pc, want, fetched, label, child, counters, history>>

\* ... and sends it.
SendChunk(w) ==
  /\ drawn[w] # None
  /\ drawn' = [drawn EXCEPT ![w] = None]
  /\ UNCHANGED <<root, epoch, pc, want, fetched, label, child, counters, history>>

Next ==
  \/ Reseed
  \/ CloseRoot
  \/ \E r \in Readers :
       \/ \E n \in ReadSizes : BeginRead(r, n)
       \/ ConnectionSeed(r) \/ ConnectionSeedFails(r) \/ Rekey(r) \/ Emit(r)
       \/ CloseReader(r) \/ NewConnectionReader(r)
  \/ \E o \in Owners : Build(o) \/ Settle(o)
  \/ \E q \in Requests :
       \/ NewConnectionDRBG(q)
       \/ \E n \in ReadSizes : ReadChild(q, n)
       \/ CloseChild(q)
  \/ \E w \in Raws : SendChunk(w) \/ \E n \in ReadSizes : ReadRoot(w, n)

Spec == Init /\ [][Next]_vars

-----------------------------------------------------------------------------
(***************************************************************************)
(* Properties                                                              *)
(***************************************************************************)

\* No byte of the root's keystream serves two purposes: neither two children,
\* nor a child and a seed on its way, nor a seed and bytes sent to a client.
Disjoint(x, y) ==
  x.root = y.root => x.at + x.len <= y.at \/ y.at + y.len <= x.at

KeystreamNeverReused ==
  /\ \A u, v \in Users :
       u # v /\ drawn[u] # None /\ drawn[v] # None => Disjoint(drawn[u], drawn[v])
  /\ \A o, p \in Owners :
       o # p /\ child[o] # None /\ child[p] # None
         => Disjoint(child[o].key, child[p].key)
  /\ \A u \in Users, o \in Owners :
       drawn[u] # None /\ child[o] # None => Disjoint(drawn[u], child[o].key)

\* A reader's epoch names the root key its private stream was seeded under:
\* a reseed between drawing the seed and installing it cannot make an old
\* stream look fresh.
LabelNamesSeedKey ==
  \A r \in Readers : child[r] # None => label[r] = child[r].key.root

\* Once Read has decided to serve, its private stream has budget for the whole
\* read: a connection fails only because the root could not seed it.
OwnBudgetSuffices ==
  \A r \in Readers :
    pc[r] = "emit" => child[r] # None /\ CanRead(child[r], want[r])

\* The counted instances are the root while it is open, every private
\* generator, and those under construction.
EveryGeneratorIsCounted ==
  live = {o \in Owners : child[o] # None \/ pc[o] = "settle"}
           \cup (IF root.closed THEN {} ELSE {Root})

\* A read that succeeds delivers from a stream seeded under a root key no
\* older than the one current when the read began.
Promise == INSTANCE FreshStreams WITH NoEpoch <- None, now <- root.key

ImplementsFreshStreams == Promise!Spec
=============================================================================
