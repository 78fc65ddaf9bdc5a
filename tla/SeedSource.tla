----------------------------- MODULE SeedSource -----------------------------
(***************************************************************************)
(* Where seeds come from: main selects and opens one source, may wrap it   *)
(* in a mixer that adds CPU samples, and reads the root's first seed; the  *)
(* reseed loop then reads one seed per tick into a buffer it keeps.        *)
(* A byte is known by the source byte and the CPU bytes that are in it.    *)
(***************************************************************************)
EXTENDS Naturals, FiniteSets

CONSTANTS
  RootSeedSize,  \* 64 in main
  ReseedSize,
  WordSize,      \* bytes of a CPU sample, 8 in Read
  MaxDrawn       \* bound: bytes the source gives

ASSUME SeedSourceAssumption ==
  /\ RootSeedSize \in Nat \ {0} /\ ReseedSize \in Nat \ {0}
  /\ WordSize \in Nat \ {0} /\ MaxDrawn \in Nat

VARIABLES
  path, require,  \* -device, -require-device
  mode,           \* "none", "cpu" (-cpu-mix), "rdrand" (-rdrand-mix)
  supported,      \* what this CPU and build have of RDSEED and RDRAND
  pc,             \* where main, and after "wait" the reseed loop, is
  tried,          \* the path being opened
  opened,         \* paths of open files
  devices,        \* those that were character devices when they were opened
  origin,         \* the source's name in the metadata
  drawn,          \* bytes the source has given
  sampled,        \* CPU samples taken
  warnings,       \* calls of onFailure
  buffer, filled, \* the seed being read, and ReadFull's count
  offset,         \* Mixer.Read's, from the buffer's start
  failed,         \* the source's last read returned an error
  seed,           \* history: the last seed given to the root
  cancelled       \* main's context

options == <<path, require, mode, supported>>
source == <<tried, opened, devices, origin>>
fill == <<buffer, filled, offset, failed>>
vars == <<options, pc, source, drawn, sampled, warnings, fill, seed, cancelled>>

None == ""
Configured == "/dev/qrandom0"
DefaultCSPRNG == "/dev/urandom"
sourceGoCryptoRand == "crypto/rand"
Paths == {Configured, DefaultCSPRNG}

Starting == {"select", "open", "inspect", "refused", "wrap"}
Reading == {"read", "mix", "full"}
CPUBytes == (1 .. MaxDrawn) \X (0 .. WordSize - 1)
Zero == [source |-> 0, cpu |-> {}]
Cleared(n) == [i \in 1 .. n |-> Zero]
Size == IF seed = Cleared(0) THEN RootSeedSize ELSE ReseedSize

IsSeed(s) ==
  /\ DOMAIN s \in {1 .. n : n \in {0, RootSeedSize, ReseedSize}}
  /\ \A i \in DOMAIN s : s[i].source \in 0 .. MaxDrawn /\ s[i].cpu \subseteq CPUBytes

TypeOK ==
  /\ path \in Paths \cup {None} /\ require \in BOOLEAN
  /\ mode \in {"none", "cpu", "rdrand"} /\ supported \subseteq {"rdseed", "rdrand"}
  /\ pc \in Starting \cup Reading \cup {"wait", "ended", "fatal"}
  /\ tried \in Paths \cup {None} /\ opened \subseteq Paths
  /\ devices \subseteq opened /\ origin \in Paths \cup {None, sourceGoCryptoRand}
  /\ drawn \in 0 .. MaxDrawn /\ sampled \in 0 .. drawn /\ warnings \in 0 .. 1
  /\ IsSeed(buffer) /\ IsSeed(seed)
  /\ filled \in 0 .. Size /\ offset <= filled + WordSize
  /\ failed \in BOOLEAN /\ cancelled \in BOOLEAN

Init ==
  /\ path \in Paths \cup {None} /\ require \in BOOLEAN
  /\ mode \in {"none", "cpu", "rdrand"} /\ supported \in SUBSET {"rdseed", "rdrand"}
  /\ pc = "select"
  /\ tried = None /\ opened = {} /\ devices = {} /\ origin = None
  /\ drawn = 0 /\ sampled = 0 /\ warnings = 0
  /\ buffer = Cleared(RootSeedSize) /\ filled = 0 /\ offset = 0 /\ failed = FALSE
  /\ seed = Cleared(0)
  /\ cancelled = FALSE

-----------------------------------------------------------------------------
(***************************************************************************)
(* Selection                                                               *)
(***************************************************************************)

AtStart(from) ==
  /\ pc = from
  /\ UNCHANGED <<options, drawn, sampled, warnings, fill, seed, cancelled>>

\* An empty path.
Select ==
  /\ AtStart("select")
  /\ IF path = None /\ require
     THEN pc' = "fatal" /\ UNCHANGED tried
     ELSE pc' = "open" /\ tried' = IF path = None THEN DefaultCSPRNG ELSE path
  /\ UNCHANGED <<opened, devices, origin>>

\* os.Open, of whatever is at the path at that moment.
Open ==
  /\ AtStart("open")
  /\ \/ /\ pc' = "inspect" /\ opened' = opened \cup {tried}
        /\ devices' \in {devices, devices \cup {tried}}
     \/ pc' = "refused" /\ UNCHANGED <<opened, devices>>
  /\ UNCHANGED <<tried, origin>>

CloseTried == opened' = opened \ {tried} /\ devices' = devices \ {tried}

\* Mutant: the Stat is of the path, where there may be another file by now.
InspectPath ==
  /\ AtStart("inspect")
  /\ \/ pc' = "wrap" /\ origin' = tried /\ UNCHANGED <<opened, devices>>
     \/ pc' = "refused" /\ CloseTried /\ UNCHANGED origin
  /\ UNCHANGED tried

\* Stat of the opened file, which may fail, and its mode.
Inspect ==
  /\ AtStart("inspect")
  /\ \/ /\ tried \in devices
        /\ pc' = "wrap" /\ origin' = tried /\ UNCHANGED <<opened, devices>>
     \/ pc' = "refused" /\ CloseTried /\ UNCHANGED origin
  /\ UNCHANGED tried

FallBack ==
  /\ AtStart("refused")
  /\ CASE require -> pc' = "fatal" /\ UNCHANGED <<tried, origin>>
       [] ~require /\ tried # DefaultCSPRNG ->
            pc' = "open" /\ tried' = DefaultCSPRNG /\ UNCHANGED origin
       [] ~require /\ tried = DefaultCSPRNG ->
            pc' = "wrap" /\ origin' = sourceGoCryptoRand /\ UNCHANGED tried
  /\ UNCHANGED <<opened, devices>>

\* main: NewCPUMixer always succeeds, NewMixer needs RDRAND.
Wrap ==
  /\ AtStart("wrap")
  /\ pc' = IF mode = "rdrand" /\ "rdrand" \notin supported THEN "fatal" ELSE "read"
  /\ UNCHANGED source

-----------------------------------------------------------------------------
(***************************************************************************)
(* Reading a seed                                                          *)
(***************************************************************************)

InRead(from) == pc = from /\ UNCHANGED <<options, source, seed, cancelled>>

\* The source's Read: some bytes, or an error, or both.  (With neither,
\* ReadFull calls it again.)
SourceRead ==
  /\ InRead("read")
  /\ pc' = "mix"
  /\ \E n \in 0 .. Size - filled, err \in BOOLEAN :
       /\ n > 0 \/ err
       /\ drawn + n <= MaxDrawn
       /\ buffer' = [i \in DOMAIN buffer |->
                       IF i \in filled + 1 .. filled + n
                       THEN [Zero EXCEPT !.source = drawn + i - filled]
                       ELSE buffer[i]]
       /\ drawn' = drawn + n /\ filled' = filled + n /\ failed' = err
  /\ offset' = filled
  /\ UNCHANGED <<sampled, warnings>>

\* cpuUint64, or Uint64: whether retries can help is up to the CPU.
CanSample ==
  \/ mode = "cpu" /\ supported # {}
  \/ mode = "rdrand" /\ "rdrand" \in supported

AddCPUByte(i) == [buffer[i] EXCEPT !.cpu = @ \cup {<<sampled + 1, i - offset - 1>>}]

MixWord ==
  /\ InRead("mix") /\ mode # "none" /\ offset < filled
  /\ CanSample
  /\ sampled' = sampled + 1
  /\ buffer' = [i \in DOMAIN buffer |->
                  IF i \in offset + 1 .. offset + WordSize /\ i <= filled
                  THEN AddCPUByte(i) ELSE buffer[i]]
  /\ offset' = offset + WordSize
  /\ UNCHANGED <<pc, drawn, warnings, filled, failed>>

\* warnOnce, and break.
MixFails ==
  /\ InRead("mix") /\ mode # "none" /\ offset < filled
  /\ warnings' = 1
  /\ offset' = filled
  /\ UNCHANGED <<pc, drawn, sampled, buffer, filled, failed>>

\* ReadFull reads on until the buffer is full or there was an error.
ReadReturns ==
  /\ InRead("mix")
  /\ mode = "none" \/ offset >= filled
  /\ pc' = IF filled = Size \/ failed THEN "full" ELSE "read"
  /\ UNCHANGED <<drawn, sampled, warnings, fill>>

-----------------------------------------------------------------------------
(***************************************************************************)
(* What main and reseedLoop do with it                                     *)
(***************************************************************************)

Refilling == filled' = 0 /\ offset' = 0 /\ failed' = FALSE
Full == filled = Size   \* then ReadFull drops an error
Used == pc = "full" /\ UNCHANGED <<options, source, drawn, sampled, warnings, cancelled>>

\* The first seed makes the root; without one main ends.
MakeRoot ==
  /\ Used /\ seed = Cleared(0)
  /\ IF Full
     THEN /\ pc' = "wait" /\ seed' = buffer
          /\ buffer' = Cleared(ReseedSize) /\ Refilling
     ELSE pc' = "fatal" /\ UNCHANGED <<seed, fill>>

\* The select of the loop: a tick that comes with ctx.Done() changes nothing.
Tick ==
  /\ pc = "wait"
  /\ pc' = IF cancelled THEN "ended" ELSE "read"
  /\ UNCHANGED <<options, source, drawn, sampled, warnings, fill, seed, cancelled>>

\* Mutant: a short read is as good as a full one.
ReseedWithAny ==
  /\ Used /\ seed # Cleared(0)
  /\ IF cancelled THEN pc' = "ended" /\ UNCHANGED seed
     ELSE pc' = "wait" /\ seed' = IF filled > 0 THEN buffer ELSE seed
  /\ buffer' = Cleared(ReseedSize) /\ Refilling

\* reseedLoop after ReadFull: whatever it returned, the buffer is cleared.
Reseed ==
  /\ Used /\ seed # Cleared(0)
  /\ IF cancelled THEN pc' = "ended" /\ UNCHANGED seed
     ELSE pc' = "wait" /\ seed' = IF Full THEN buffer ELSE seed
  /\ buffer' = Cleared(ReseedSize) /\ Refilling

Cancel ==
  /\ ~cancelled /\ cancelled' = TRUE
  /\ UNCHANGED <<options, pc, source, drawn, sampled, warnings, fill, seed>>

Next ==
  \/ Select \/ Open \/ Inspect \/ FallBack \/ Wrap
  \/ SourceRead \/ MixWord \/ MixFails \/ ReadReturns
  \/ MakeRoot \/ Tick \/ Reseed \/ Cancel

Spec == Init /\ [][Next]_vars

-----------------------------------------------------------------------------
(***************************************************************************)
(* Properties                                                              *)
(***************************************************************************)

\* -require-device: no other source than the one that was named is used, nor
\* even tried, whichever way it fails.
StrictMeansStrict == require => {tried, origin} \subseteq {None, path}

\* However often the selection went on to another source, and whatever was put
\* at a path meanwhile: what has given a byte is crypto/rand or the one file
\* still open, a device that goes by its own name.
OnlyCheckedSource ==
  drawn > 0 =>
    \/ origin = sourceGoCryptoRand /\ opened = {}
    \/ opened = {origin} /\ devices = {origin}

\* Every byte of a seed is a byte of the source, read for this seed, in its
\* place: CPU samples replace none, and no seed is short.
BytesInPlace ==
  \A i \in DOMAIN seed : seed[i].source # 0 /\ seed[i].source = seed[1].source + i - 1

\* However a seed was pieced together of short reads, none of its bytes has
\* two CPU bytes, and no two of them have the same one.
EachSampleOnce ==
  \A i, j \in DOMAIN seed :
    /\ Cardinality(seed[i].cpu) <= 1
    /\ i # j => seed[i].cpu \cap seed[j].cpu = {}

\* A seed is what the configuration promises: bytes of a source it permits and
\* that passed its check, each in its place, none mixed with the same CPU sample
\* as another, although opens, checks, reads and samples fail in every
\* combination.
SeedsAreSourceBytes ==
  StrictMeansStrict /\ OnlyCheckedSource /\ BytesInPlace /\ EachSampleOnce
=============================================================================
