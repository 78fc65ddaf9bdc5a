------------------------------ MODULE WebProofs -----------------------------
(***************************************************************************)
(* The pages and the upload handler, for any number of workers, frames,    *)
(* images and counters and for any sizes.  The parts of Web share no       *)
(* variables, so each has an inductive invariant of its own.               *)
(***************************************************************************)
EXTENDS Web, FiniteSetTheorems, SequenceTheorems, WellFoundedInduction, TLAPS

\* An instance has operators of its own for those of FiniteSets.
LEMMA SameCardinality ==
  \A S : Upload!Cardinality(S) = Cardinality(S) /\ Display!Cardinality(S) = Cardinality(S)
BY Zenon DEF Upload!Cardinality, Display!Cardinality, Cardinality

LEMMA SeqOfLength ==
  ASSUME NEW S, NEW n \in Nat, NEW s \in [1 .. n -> S]
  PROVE  s \in Seq(S) /\ Len(s) = n
<1>1. s \in Seq(S)
  BY SeqDef
<1>2. 1 .. Len(s) = 1 .. n /\ Len(s) \in Nat
  BY <1>1, LenProperties
<1> QED
  BY <1>1, <1>2

-----------------------------------------------------------------------------
(***************************************************************************)
(* Upload                                                                  *)
(***************************************************************************)
\* What the handler knows of the body at each place.
Progress ==
  /\ TotalBytes <= Upload!Least(size, maxUploadBytes)
  /\ handler \in {"check", "read"} => cause = "none" /\ status = 0
  /\ cause = "EOF" => TotalBytes = size

\* The function of AfterFunc is armed, runs, or has run, and it has for a
\* handler that returned.
Interrupting ==
  /\ armed => ~interrupting /\ ~readInterrupted
  /\ ~(interrupting /\ readInterrupted)
  /\ interrupting \/ readInterrupted \/ readDeadline => handler = "idle" \/ cancelled
  /\ handler \in {"idle", "check", "release"} => ~armed /\ ~interrupting
  /\ handler = "check" => ~readInterrupted
  /\ handler = "wait" => ~armed

UploadTypeOK ==
  /\ handler \in Upload!HandlerPcs
  /\ size \in Upload!Sizes /\ TotalBytes \in Nat
  /\ cancelled \in BOOLEAN /\ armed \in BOOLEAN /\ interrupting \in BOOLEAN
  /\ readInterrupted \in BOOLEAN /\ readDeadline \in BOOLEAN

UploadInv == UploadTypeOK /\ Progress /\ Interrupting /\ AnalysesPrefix

LEMMA UploadConstants ==
  /\ maxUploadBytes \in Nat \ {0} /\ analysisLimit \in 1 .. maxUploadBytes
  /\ uploadPreviewBytes \in Nat /\ BufferSize \in Nat \ {0}
BY WebAssumption DEF WebAssumption

LEMMA NumbersFrom == \A m \in Nat : Len([k \in 1 .. m |-> k]) = m
<1> SUFFICES ASSUME NEW m \in Nat PROVE Len([k \in 1 .. m |-> k]) = m
  OBVIOUS
<1>1. [k \in 1 .. m |-> k] \in [1 .. m -> Nat]
  OBVIOUS
<1> QED
  BY <1>1, SeqOfLength

\* The first numbers, and the next ones behind them.
LEMMA NumbersGoOn ==
  ASSUME NEW m \in Nat, NEW p \in Nat, NEW t \in Nat, p > 0 => t = m
  PROVE  [k \in 1 .. m |-> k] \o [k \in 1 .. p |-> t + k] = [k \in 1 .. m + p |-> k]
<1> DEFINE old == [k \in 1 .. m |-> k]
           new == [k \in 1 .. p |-> t + k]
           all == [k \in 1 .. m + p |-> k]
<1>1. old \in [1 .. m -> Nat] /\ new \in [1 .. p -> Nat] /\ all \in [1 .. m + p -> Nat]
  OBVIOUS
<1>2. /\ old \in Seq(Nat) /\ new \in Seq(Nat) /\ all \in Seq(Nat)
      /\ Len(old) = m /\ Len(new) = p /\ Len(all) = m + p
  BY <1>1, SeqOfLength
<1>3. \A k \in 1 .. m : old[k] = all[k]
  OBVIOUS
<1>4. \A k \in m + 1 .. m + p : new[k - m] = all[k]
  OBVIOUS
<1> HIDE DEF old, new, all
<1>5. /\ old \o new \in Seq(Nat) /\ Len(old \o new) = m + p
      /\ \A i \in 1 .. m + p : (old \o new)[i] = IF i <= m THEN old[i] ELSE new[i - m]
  BY <1>2, ConcatProperties
<1>6. \A i \in 1 .. m + p : (old \o new)[i] = all[i]
  BY <1>3, <1>4, <1>5
<1>7. old \o new = all
  BY <1>2, <1>5, <1>6, SeqEqual
<1> QED
  BY <1>7 DEF old, new, all

\* Take continues the analysis and the preview where they ended.
LEMMA TakeKeepsPrefix ==
  ASSUME UploadInv, NEW n \in Nat \ {0}, Upload!Take(n)
  PROVE  /\ TotalBytes' = TotalBytes + n
         /\ Analyzed' = 1 .. Upload!Least(TotalBytes', analysisLimit)
         /\ Preview' = [k \in 1 .. Upload!Least(Cardinality(Analyzed'), uploadPreviewBytes) |-> k]
<1> DEFINE l == Upload!Least(TotalBytes, analysisLimit)
           a == Upload!Least(n, analysisLimit - Cardinality(Analyzed))
<1>1. TotalBytes \in Nat /\ l \in Nat /\ l <= analysisLimit /\ analysisLimit \in Nat
  BY UploadConstants DEF UploadInv, UploadTypeOK, Upload!Least
<1>2. Analyzed = 1 .. l
  BY DEF UploadInv, AnalysesPrefix, Upload!AnalysesPrefix
<1>3. Cardinality(Analyzed) = l
  BY <1>1, <1>2, FS_Interval
<1>4. Preview = [k \in 1 .. Upload!Least(l, uploadPreviewBytes) |-> k]
  BY <1>3, SameCardinality DEF UploadInv, AnalysesPrefix, Upload!AnalysesPrefix
<1>5. a \in Nat /\ (a > 0 => TotalBytes = l)
      /\ l + a = Upload!Least(TotalBytes + n, analysisLimit)
  BY <1>1, <1>3 DEF Upload!Least
<1>6. /\ TotalBytes' = TotalBytes + n
      /\ Analyzed' = Analyzed \cup (TotalBytes + 1 .. TotalBytes + a)
      /\ Preview' = Preview \o [k \in 1 .. Upload!Least(a, uploadPreviewBytes - Len(Preview))
                                  |-> TotalBytes + k]
  BY SameCardinality DEF Upload!Take
<1> HIDE DEF l, a
<1>7. Analyzed' = 1 .. l + a
  <2>1. CASE a = 0
    BY <1>1, <1>2, <1>6, <2>1
  <2>2. CASE a > 0
    BY <1>1, <1>2, <1>5, <1>6, <2>2
  <2> QED
    BY <1>5, <2>1, <2>2
<1>8. Cardinality(Analyzed') = l + a
  BY <1>1, <1>5, <1>7, FS_Interval
<1>9. Preview' = [k \in 1 .. Upload!Least(l + a, uploadPreviewBytes) |-> k]
  <2> DEFINE m == Upload!Least(l, uploadPreviewBytes)
             p == Upload!Least(a, uploadPreviewBytes - Len(Preview))
  <2>1. m \in Nat
    BY <1>1, UploadConstants DEF Upload!Least
  <2>2. Len(Preview) = m
    BY <1>4, <2>1, NumbersFrom
  <2>3. p \in Nat /\ (p > 0 => TotalBytes = m) /\ m + p = Upload!Least(l + a, uploadPreviewBytes)
    BY <1>1, <1>5, <2>1, <2>2, UploadConstants DEF Upload!Least
  <2>4. Preview' = [k \in 1 .. m |-> k] \o [k \in 1 .. p |-> TotalBytes + k]
    BY <1>4, <1>6
  <2> HIDE DEF m, p
  <2>5. Preview' = [k \in 1 .. m + p |-> k]
    BY <1>1, <2>1, <2>3, <2>4, NumbersGoOn
  <2> QED
    BY <2>3, <2>5
<1> QED
  BY <1>5, <1>6, <1>7, <1>8, <1>9

LEMMA InitUpload == Upload!Init => UploadInv
<1> SUFFICES ASSUME Upload!Init PROVE UploadInv
  OBVIOUS
<1> USE UploadConstants DEF Upload!Init, Upload!Least
<1>1. UploadTypeOK
  <2>1. size \in Upload!Sizes /\ TotalBytes \in Nat
    BY DEF Upload!Sizes
  <2> QED
    BY <2>1, Zenon DEF UploadTypeOK, Upload!HandlerPcs
<1>4. Progress
  BY DEF Progress
<1>5. Interrupting
  BY DEF Interrupting
<1>2. Analyzed = 1 .. 0 /\ Cardinality(Analyzed) = 0 /\ Preview = [k \in 1 .. 0 |-> k]
  BY FS_EmptySet
<1>3. AnalysesPrefix
  BY <1>2, SameCardinality DEF AnalysesPrefix, Upload!AnalysesPrefix
<1> QED
  BY <1>1, <1>3, <1>4, <1>5 DEF UploadInv

\* Reads in whatever portions, each continuing the last.
LEMMA ReadKeepsInv ==
  ASSUME UploadInv, Upload!Read
  PROVE  UploadInv'
<1> USE UploadConstants
<1>1. PICK n \in 1 .. Upload!Least(BufferSize, Upload!Available) :
        /\ Upload!Take(n)
        /\ \/ UNCHANGED <<handler, cause>>
           \/ n = Upload!Available /\ size <= maxUploadBytes /\ Upload!Return("EOF")
           \/ n = Upload!Available /\ size > maxUploadBytes /\ Upload!Return("size")
  BY DEF Upload!Read
<1>2. TotalBytes \in Nat /\ size \in Nat /\ n \in Nat \ {0} /\ n <= Upload!Available
  BY DEF UploadInv, UploadTypeOK, Progress, Upload!Sizes, Upload!Available, Upload!Least
<1>3. /\ TotalBytes' = TotalBytes + n
      /\ Analyzed' = 1 .. Upload!Least(TotalBytes', analysisLimit)
      /\ Preview' = [k \in 1 .. Upload!Least(Cardinality(Analyzed'), uploadPreviewBytes) |-> k]
  BY <1>1, <1>2, TakeKeepsPrefix
<1>4. /\ handler = "read" /\ handler' \in {"read", "respond"}
      /\ status = 0 /\ cause = "none"
      /\ UNCHANGED <<size, cancelled, armed, interrupting, readInterrupted, readDeadline, status>>
  BY <1>1 DEF Upload!Read, Upload!Return, Upload!request, Upload!interrupt, UploadInv, Progress
<1>5. UploadTypeOK'
  BY <1>2, <1>3, <1>4 DEF UploadInv, UploadTypeOK, Upload!HandlerPcs
<1>6. Progress'
  <2>1. TotalBytes' <= Upload!Least(size, maxUploadBytes)
    BY <1>2, <1>3 DEF Upload!Available, Upload!Least
  <2>2. cause' = "EOF" => handler' = "respond" /\ TotalBytes' = size
    BY <1>1, <1>2, <1>3, <1>4 DEF Upload!Available, Upload!Least, Upload!Return
  <2>3. handler' = "read" => cause' = "none"
    BY <1>1, <1>4 DEF Upload!Return
  <2> QED
    BY <1>4, <2>1, <2>2, <2>3 DEF Progress
<1>7. Interrupting'
  BY <1>4 DEF UploadInv, Interrupting
<1>8. AnalysesPrefix'
  BY <1>3, <1>4, SameCardinality DEF AnalysesPrefix, Upload!AnalysesPrefix
<1> QED
  BY <1>5, <1>6, <1>7, <1>8 DEF UploadInv

\* What analyzeUpload returns, and why, when it reads no more.
LEMMA ReturnKeepsInv ==
  ASSUME UploadInv, Upload!ReadEnds \/ Upload!Finish
  PROVE  UploadInv'
<1> USE UploadConstants DEF Upload!ReadEnds, Upload!Finish, Upload!ContextSeen,
        Upload!ReadInterrupted, Upload!Return, Upload!request, Upload!interrupt, Upload!result
<1>1. /\ handler = "read" /\ handler' = "respond"
      /\ UNCHANGED <<size, cancelled, armed, interrupting, readInterrupted, readDeadline,
                     TotalBytes, Analyzed, Preview, status>>
  OBVIOUS
<1>2. cause' = "EOF" => TotalBytes = size
  <2>1. cause' = "EOF" => Upload!Available = 0 /\ size <= maxUploadBytes
    OBVIOUS
  <2> QED
    BY <2>1 DEF Upload!Available, Upload!Least, UploadInv, UploadTypeOK, Upload!Sizes
<1>3. UploadTypeOK'
  BY <1>1 DEF UploadInv, UploadTypeOK, Upload!HandlerPcs
<1>4. Progress' /\ Interrupting'
  BY <1>1, <1>2 DEF UploadInv, Progress, Interrupting
<1>5. AnalysesPrefix'
  BY <1>1, SameCardinality DEF UploadInv, AnalysesPrefix, Upload!AnalysesPrefix
<1> QED
  BY <1>3, <1>4, <1>5 DEF UploadInv

\* The requests, the interrupting function and the response.
LEMMA RequestKeepsInv ==
  ASSUME UploadInv,
         \/ Upload!Arrive \/ Upload!Cancel \/ Upload!Refuse \/ Upload!Admit
         \/ Upload!AfterFunc \/ Upload!Deferred
  PROVE  UploadInv'
<1> USE UploadConstants DEF Upload!request, Upload!interrupt, Upload!result
<1>1. CASE Upload!Arrive
  <2>1. /\ UploadTypeOK' /\ Interrupting'
        /\ TotalBytes' = 0 /\ Analyzed' = {} /\ Preview' = <<>> /\ status' = 0 /\ cause' = "none"
    BY <1>1 DEF Upload!Arrive, UploadInv, UploadTypeOK, Interrupting, Upload!HandlerPcs
  <2>2. 0 <= Upload!Least(size', maxUploadBytes)
    BY <2>1 DEF UploadTypeOK, Upload!Sizes, Upload!Least
  <2>3. Progress'
    BY <2>1, <2>2 DEF Progress
  <2>4. /\ Upload!Least(0, analysisLimit) = 0 /\ Upload!Least(0, uploadPreviewBytes) = 0
        /\ {} = 1 .. 0 /\ <<>> = [k \in 1 .. 0 |-> k] /\ Cardinality({}) = 0
    BY FS_EmptySet DEF Upload!Least
  <2>5. AnalysesPrefix'
    BY <2>1, <2>4, SameCardinality DEF AnalysesPrefix, Upload!AnalysesPrefix
  <2> QED
    BY <2>1, <2>3, <2>5 DEF UploadInv
<1>2. CASE Upload!Cancel \/ Upload!Refuse \/ Upload!Admit \/ Upload!AfterFunc \/ Upload!Deferred
  <2> USE DEF Upload!Cancel, Upload!Refuse, Upload!Admit, Upload!AfterFunc,
          Upload!InterruptStarts, Upload!InterruptEnds, Upload!Deferred, Upload!Respond,
          Upload!StopInterrupt, Upload!AwaitInterrupt, Upload!Release
  <2>1. UNCHANGED <<size, TotalBytes, Analyzed, Preview, cause>>
    BY <1>2
  <2>2. UploadTypeOK'
    <3> USE DEF UploadInv, UploadTypeOK, Upload!HandlerPcs
    <3>1. CASE Upload!Cancel \/ Upload!Refuse \/ Upload!Admit
      <4>1. CASE Upload!Cancel
        BY <2>1, <4>1
      <4>2. CASE Upload!Refuse
        BY <2>1, <4>2
      <4>3. CASE Upload!Admit
        BY <2>1, <4>3
      <4> HIDE DEF Upload!Cancel, Upload!Refuse, Upload!Admit
      <4> QED
        BY <3>1, <4>1, <4>2, <4>3
    <3>2. CASE Upload!InterruptStarts \/ Upload!InterruptEnds
      BY <2>1, <3>2
    <3>3. CASE Upload!Deferred
      BY <2>1, <3>3
    <3> QED
      BY <1>2, <3>1, <3>2, <3>3
  <2>3. Interrupting'
    <3> USE DEF UploadInv, UploadTypeOK, Interrupting
    <3>1. CASE Upload!Cancel \/ Upload!Refuse \/ Upload!Admit
      BY <3>1
    <3>2. CASE Upload!InterruptStarts \/ Upload!InterruptEnds
      BY <3>2
    <3>3. CASE Upload!Deferred
      BY <3>3
    <3> QED
      BY <1>2, <3>1, <3>2, <3>3
  <2>4. Progress'
    BY <1>2, <2>1 DEF UploadInv, Progress
  <2>5. status' = 200 => status = 200 \/ (cause = "EOF" /\ TotalBytes > 0)
    BY <1>2 DEF Upload!StatusOf
  <2>6. cause = "EOF" => TotalBytes = size
    BY DEF UploadInv, Progress
  <2>7. AnalysesPrefix'
    BY <2>1, <2>5, <2>6, SameCardinality DEF UploadInv, AnalysesPrefix, Upload!AnalysesPrefix
  <2> QED
    BY <2>2, <2>3, <2>4, <2>7 DEF UploadInv
<1> QED
  BY <1>1, <1>2

LEMMA StepUpload == UploadInv /\ (Upload!Next \/ UNCHANGED upload) => UploadInv'
<1> SUFFICES ASSUME UploadInv, Upload!Next \/ UNCHANGED upload PROVE UploadInv'
  OBVIOUS
<1>1. CASE Upload!Next
  BY <1>1, ReadKeepsInv, ReturnKeepsInv, RequestKeepsInv DEF Upload!Next
<1>2. CASE UNCHANGED upload
  BY <1>2, SameCardinality
     DEF upload, UploadInv, UploadTypeOK, Progress, Interrupting, AnalysesPrefix,
         Upload!AnalysesPrefix
<1> QED
  BY <1>1, <1>2

\* The upload handler has analysed a beginning of the file, and knows where
\* the function that interrupts its reads is.
THEOREM UploadInvHolds == Spec => []UploadInv
<1>1. Init => UploadInv
  BY InitUpload DEF Init
<1>2. UploadInv /\ [Next]_vars => UploadInv'
  BY StepUpload DEF Next, vars, DisplayRuns, StatusPageRuns, GalleryRuns, UploadRuns
<1> QED
  BY <1>1, <1>2, PTL DEF Spec

\* The analysis covers a prefix of the file, each byte once, however its body
\* was cut into reads, and only a whole file is answered 200: for any limits.
THEOREM AnalysesPrefixHolds == Spec => []AnalysesPrefix
<1>1. UploadInv => AnalysesPrefix
  BY DEF UploadInv
<1> QED
  BY <1>1, UploadInvHolds, PTL

\* A read deadline interrupts the request it was set for and no other one.
THEOREM DeadlineIsOwnHolds == Spec => []DeadlineIsOwn
<1>1. UploadInv => DeadlineIsOwn
  BY DEF UploadInv, Interrupting, DeadlineIsOwn, Upload!DeadlineIsOwn
<1> QED
  BY <1>1, UploadInvHolds, PTL

-----------------------------------------------------------------------------
(***************************************************************************)
(* Gallery                                                                 *)
(***************************************************************************)
\* An object URL is the result of one image, or shown by one.
Shows(u) == \E k \in Images : urls[k] = u
Made(u) == \E k \in Images : result[k] = u
OneEach(f) == \A j, k \in Images : f[j] = f[k] /\ f[j] # NoURL => j = k

OneHolder ==
  /\ OneEach(urls) /\ OneEach(result)
  /\ \A j, k \in Images : urls[j] = result[k] => urls[j] = NoURL

\* A promise has a URL from its answer to the end of its batch, unless it is
\* rejected.
Promises ==
  /\ \A k \in Images : result[k] # NoURL <=> load[k] \in {"decoding", "fulfilled"}
  /\ ~busy => \A k \in Images : load[k] = "none"

GalleryTypeOK ==
  /\ load \in [Images -> Gallery!Settled \cup {"none", "fetching", "decoding"}]
  /\ result \in [Images -> URLs \cup {NoURL}]
  /\ urls \in [Images -> URLs \cup {NoURL}]
  /\ live \subseteq URLs

GalleryInv == GalleryTypeOK /\ OneHolder /\ Promises /\ Gallery!URLsAccounted

LEMMA NoURLIsNone == NoURL \notin URLs
BY WebAssumption DEF WebAssumption

LEMMA Accounts ==
  Gallery!URLsAccounted <=> \A u : u \in live <=> u # NoURL /\ (Shows(u) \/ Made(u))
BY DEF Gallery!URLsAccounted, Gallery!Named, Shows, Made

LEMMA InitGallery == Gallery!Init => GalleryInv /\ Gallery!Polls
BY DEF Gallery!Init, GalleryInv, GalleryTypeOK, OneHolder, OneEach, Promises,
       Gallery!URLsAccounted, Gallery!Named, Gallery!Polls

\* A batch begins without URLs of its own.
LEMMA StartKeepsInv ==
  ASSUME GalleryInv, Gallery!MayRefresh, Gallery!StartBatch
  PROVE  GalleryInv'
<1> USE DEF GalleryInv, Gallery!MayRefresh, Gallery!StartBatch
<1>1. GalleryTypeOK'
  BY DEF GalleryTypeOK, Gallery!Settled
<1>2. OneHolder' /\ Gallery!URLsAccounted'
  BY DEF OneHolder, OneEach, Gallery!URLsAccounted, Gallery!Named
<1>3. Promises'
  BY DEF Promises, GalleryTypeOK
<1> QED
  BY <1>1, <1>2, <1>3

LEMMA BlobKeepsInv ==
  ASSUME GalleryInv, NEW i \in Images, Gallery!BlobArrives(i)
  PROVE  GalleryInv'
<1>1. PICK u \in URLs \ (live \cup Gallery!Named(urls)) :
        result' = [result EXCEPT ![i] = u] /\ live' = live \cup {u}
  BY DEF Gallery!BlobArrives
<1>2. /\ load[i] = "fetching" /\ load' = [load EXCEPT ![i] = "decoding"]
      /\ UNCHANGED <<busy, urls>> /\ result[i] = NoURL
  BY DEF Gallery!BlobArrives, Gallery!Loading, Gallery!batch, GalleryInv, Promises
<1>3. u \in URLs /\ u # NoURL /\ ~Shows(u) /\ ~Made(u)
  BY <1>1, NoURLIsNone, Accounts DEF GalleryInv, Gallery!Named, Shows
<1>4. GalleryTypeOK'
  BY <1>1, <1>2, <1>3 DEF GalleryInv, GalleryTypeOK, Gallery!Settled
<1>5. result'[i] = u /\ \A k \in Images : k # i => result'[k] = result[k] /\ load'[k] = load[k]
  BY <1>1, <1>2 DEF GalleryInv, GalleryTypeOK
<1>6. OneHolder'
  BY <1>2, <1>3, <1>5 DEF GalleryInv, OneHolder, OneEach, Shows, Made
<1>7. Promises'
  BY <1>2, <1>3, <1>5 DEF GalleryInv, GalleryTypeOK, Promises
<1>8. \A v : v \in live' <=> v # NoURL /\ (Shows(v)' \/ Made(v)')
  BY <1>1, <1>2, <1>3, <1>5, Accounts DEF GalleryInv, Shows, Made
<1> QED
  BY <1>4, <1>6, <1>7, <1>8, Accounts DEF GalleryInv, Gallery!URLsAccounted, Gallery!Named, Shows, Made

\* A failed answer has made no URL; an image that cannot be decoded releases
\* the one it made.
LEMMA AnswerKeepsInv ==
  ASSUME GalleryInv, NEW i \in Images, Gallery!FetchFails(i) \/ Gallery!DecodeEnds(i)
  PROVE  GalleryInv'
<1> USE DEF GalleryInv
<1>1. UNCHANGED <<busy, urls>>
  BY DEF Gallery!FetchFails, Gallery!DecodeEnds, Gallery!Loading, Gallery!batch
<1>2. \/ /\ load[i] = "fetching" /\ load' = [load EXCEPT ![i] = "rejected"]
         /\ UNCHANGED <<result, live>>
      \/ /\ load[i] = "decoding" /\ load' = [load EXCEPT ![i] = "fulfilled"]
         /\ UNCHANGED <<result, live>>
      \/ /\ load[i] = "decoding" /\ load' = [load EXCEPT ![i] = "rejected"]
         /\ result' = [result EXCEPT ![i] = NoURL] /\ live' = live \ {result[i]}
  BY DEF Gallery!FetchFails, Gallery!DecodeEnds, Gallery!Loading
<1>3. GalleryTypeOK'
  BY <1>1, <1>2 DEF GalleryTypeOK, Gallery!Settled
<1>4. /\ \A k \in Images : k # i => result'[k] = result[k] /\ load'[k] = load[k]
      /\ result'[i] \in {result[i], NoURL}
  BY <1>2 DEF GalleryTypeOK
<1>5. OneHolder'
  BY <1>1, <1>4 DEF OneHolder, OneEach
<1>6. Promises'
  BY <1>1, <1>2, <1>4 DEF Promises, GalleryTypeOK
<1>7. \A v : v \in live' <=> v # NoURL /\ (Shows(v)' \/ Made(v)')
  <2>1. CASE UNCHANGED <<result, live>>
    BY <1>1, <2>1, Accounts DEF Shows, Made
  <2>2. CASE /\ load[i] = "decoding"
             /\ result' = [result EXCEPT ![i] = NoURL] /\ live' = live \ {result[i]}
    <3>1. result'[i] = NoURL /\ result[i] # NoURL
      BY <2>2 DEF GalleryTypeOK, Promises
    <3>2. ~Shows(result[i]) /\ \A k \in Images : k # i => result[k] # result[i]
      BY <3>1 DEF OneHolder, OneEach, Shows
    <3> QED
      BY <1>1, <1>4, <2>2, <3>1, <3>2, Accounts DEF Shows, Made
  <2> QED
    BY <1>2, <2>1, <2>2
<1> QED
  BY <1>3, <1>5, <1>6, <1>7, Accounts DEF Gallery!URLsAccounted, Gallery!Named, Shows, Made

\* What the end of a batch makes of the images: those it loaded are shown, and
\* what they replace is released.
LEMMA RenderKeepsInv ==
  ASSUME GalleryInv, \A k \in Images : load[k] \in Gallery!Settled, Gallery!Render,
         result' = [k \in Images |-> NoURL]
  PROVE  /\ GalleryTypeOK => urls' \in [Images -> URLs \cup {NoURL}] /\ live' \subseteq URLs
         /\ OneHolder' /\ Gallery!URLsAccounted'
<1> DEFINE fresh == {k \in Images : load[k] = "fulfilled"}
<1>1. /\ urls' = [k \in Images |-> IF k \in fresh THEN result[k] ELSE urls[k]]
      /\ live' = live \ {urls[k] : k \in fresh}
  BY DEF Gallery!Render
<1>2. \A k \in Images : k \in fresh <=> result[k] # NoURL
  BY DEF GalleryInv, Promises, Gallery!Settled
<1>3. \A k \in Images : urls'[k] = IF result[k] # NoURL THEN result[k] ELSE urls[k]
  BY <1>1, <1>2
<1>4. \A u : u \in live' <=> u \in live /\ ~\E k \in Images : result[k] # NoURL /\ urls[k] = u
  BY <1>1, <1>2
<1> HIDE DEF fresh
<1>5. urls' \in [Images -> URLs \cup {NoURL}] /\ live' \subseteq URLs
  BY <1>1, <1>3, <1>4 DEF GalleryInv, GalleryTypeOK
<1>6. OneHolder'
  BY <1>3 DEF GalleryInv, OneHolder, OneEach
<1>7. \A u : Made(u)' => u = NoURL
  BY DEF Made
<1>8. \A u : u \in live' <=> u # NoURL /\ Shows(u)'
  BY <1>3, <1>4, Accounts DEF GalleryInv, OneHolder, OneEach, Shows, Made
<1>9. Gallery!URLsAccounted'
  BY <1>7, <1>8 DEF Gallery!URLsAccounted, Gallery!Named, Shows, Made
<1> QED
  BY <1>5, <1>6, <1>9

\* A batch that outlived its page releases what it loaded.
LEMMA ReleaseKeepsInv ==
  ASSUME GalleryInv, Gallery!Release, result' = [k \in Images |-> NoURL]
  PROVE  /\ urls' = urls /\ live' \subseteq URLs
         /\ OneHolder' /\ Gallery!URLsAccounted'
<1>1. urls' = urls /\ live' = live \ Gallery!Named(result)
  BY DEF Gallery!Release
<1>2. OneHolder'
  BY <1>1 DEF GalleryInv, OneHolder, OneEach
<1>3. Gallery!URLsAccounted'
  <2>1. live = Gallery!Named(urls) \cup Gallery!Named(result)
    BY DEF GalleryInv, Gallery!URLsAccounted
  <2>2. Gallery!Named(result)' = {}
    BY DEF Gallery!Named
  <2>3. Gallery!Named(urls) \cap Gallery!Named(result) = {}
    BY DEF Gallery!Named, GalleryInv, OneHolder
  <2>4. Gallery!Named(urls)' = Gallery!Named(urls)
    BY <1>1 DEF Gallery!Named
  <2> QED
    BY <1>1, <2>1, <2>2, <2>3, <2>4 DEF Gallery!URLsAccounted
<1> QED
  BY <1>1, <1>2, <1>3 DEF GalleryInv, GalleryTypeOK

LEMMA BatchKeepsInv ==
  ASSUME GalleryInv, Gallery!BatchSettles
  PROVE  GalleryInv'
<1>1. /\ \A k \in Images : load[k] \in Gallery!Settled
      /\ Gallery!Release \/ Gallery!Render
      /\ load' = [k \in Images |-> "none"] /\ result' = [k \in Images |-> NoURL]
      /\ busy' = FALSE
  BY DEF Gallery!BatchSettles, Gallery!Finish
<1>2. /\ urls' \in [Images -> URLs \cup {NoURL}] /\ live' \subseteq URLs
      /\ OneHolder' /\ Gallery!URLsAccounted'
  BY <1>1, RenderKeepsInv, ReleaseKeepsInv DEF GalleryInv, GalleryTypeOK
<1>3. GalleryTypeOK' /\ Promises'
  BY <1>1, <1>2 DEF GalleryTypeOK, Promises
<1> QED
  BY <1>2, <1>3 DEF GalleryInv

\* A page that is left releases what it shows.
LEMMA HideKeepsInv ==
  ASSUME GalleryInv, Gallery!PageHide
  PROVE  GalleryInv'
<1> USE DEF GalleryInv, Gallery!PageHide
<1>1. GalleryTypeOK' /\ OneHolder' /\ Promises'
  BY DEF GalleryTypeOK, OneHolder, OneEach, Promises
<1>2. Gallery!Named(urls) \cap Gallery!Named(result) = {}
  BY DEF Gallery!Named, OneHolder
<1>3. Gallery!Named(urls)' = {} /\ Gallery!Named(result)' = Gallery!Named(result)
  BY DEF Gallery!Named
<1> QED
  BY <1>1, <1>2, <1>3 DEF Gallery!URLsAccounted

\* Every other handler leaves the images alone.
LEMMA SameImages == GalleryInv /\ UNCHANGED <<busy, load, result, urls, live>> => GalleryInv'
BY DEF GalleryInv, GalleryTypeOK, OneHolder, OneEach, Promises, Gallery!URLsAccounted,
       Gallery!Named

LEMMA StepGallery == GalleryInv /\ (Gallery!Next \/ UNCHANGED gallery) => GalleryInv'
<1> SUFFICES ASSUME GalleryInv, Gallery!Next \/ UNCHANGED gallery PROVE GalleryInv'
  OBVIOUS
<1>1. CASE Gallery!TimerFires \/ Gallery!Click
  BY <1>1, StartKeepsInv, SameImages
     DEF Gallery!TimerFires, Gallery!Click, Gallery!batch, Gallery!images
<1>2. CASE Gallery!BatchSettles
  BY <1>2, BatchKeepsInv
<1>3. CASE \E i \in Images :
             Gallery!BlobArrives(i) \/ Gallery!FetchFails(i) \/ Gallery!DecodeEnds(i)
  BY <1>3, BlobKeepsInv, AnswerKeepsInv
<1>4. CASE Gallery!PageHide
  BY <1>4, HideKeepsInv
<1>5. CASE \/ Gallery!DeadlineStrikes \/ Gallery!Type \/ Gallery!ChangeInterval
           \/ Gallery!VisibilityChange \/ Gallery!PageShow \/ UNCHANGED gallery
  BY <1>5, SameImages
     DEF Gallery!DeadlineStrikes, Gallery!Type, Gallery!ChangeInterval,
         Gallery!VisibilityChange, Gallery!PageShow, Gallery!batch, Gallery!images, gallery
<1> QED
  BY <1>1, <1>2, <1>3, <1>4, <1>5 DEF Gallery!Next

\* Whatever leaves a visible page without its timer has begun a batch.
GalleryFlags ==
  /\ hidden \in BOOLEAN /\ stopped \in BOOLEAN /\ timer \in BOOLEAN
  /\ busy \in BOOLEAN /\ valid \in BOOLEAN /\ stalled \in BOOLEAN

LEMMA StepPolls ==
  GalleryFlags /\ Gallery!Polls /\ (Gallery!Next \/ UNCHANGED gallery)
    => GalleryFlags' /\ Gallery!Polls'
<1> SUFFICES ASSUME GalleryFlags, Gallery!Polls, Gallery!Next \/ UNCHANGED gallery
             PROVE  GalleryFlags' /\ Gallery!Polls'
  OBVIOUS
<1> USE DEF GalleryFlags, Gallery!Polls, Gallery!schedule, Gallery!batch, Gallery!images
<1>1. CASE Gallery!TimerFires \/ Gallery!Click
  BY <1>1 DEF Gallery!TimerFires, Gallery!Click, Gallery!StartBatch, Gallery!MayRefresh
<1>2. CASE Gallery!BatchSettles
  BY <1>2 DEF Gallery!BatchSettles, Gallery!Finish
<1>3. CASE \E i \in Images :
             Gallery!BlobArrives(i) \/ Gallery!FetchFails(i) \/ Gallery!DecodeEnds(i)
  BY <1>3 DEF Gallery!BlobArrives, Gallery!FetchFails, Gallery!DecodeEnds, Gallery!Loading
<1>4. CASE Gallery!PageHide
  BY <1>4 DEF Gallery!PageHide
<1>5. CASE \/ Gallery!DeadlineStrikes \/ Gallery!Type \/ Gallery!ChangeInterval
           \/ Gallery!PageShow \/ UNCHANGED gallery
  BY <1>5
     DEF Gallery!DeadlineStrikes, Gallery!Type, Gallery!ChangeInterval,
         Gallery!PageShow, gallery
<1>6. CASE Gallery!VisibilityChange
  BY <1>6 DEF Gallery!VisibilityChange
<1> QED
  BY <1>1, <1>2, <1>3, <1>4, <1>5, <1>6 DEF Gallery!Next

\* The gallery's object URLs are all accounted for, and a visible page polls:
\* for any number of images, in whatever order they load.
THEOREM GallerySoundHolds == Spec => []GallerySound
<1> DEFINE IInv == GalleryInv /\ GalleryFlags /\ Gallery!Polls
<1>1. Init => IInv
  BY InitGallery DEF Init, Gallery!Init, GalleryFlags
<1>2. IInv /\ [Next]_vars => IInv'
  <2>1. [Next]_vars => Gallery!Next \/ UNCHANGED gallery
    BY DEF Next, vars, DisplayRuns, StatusPageRuns, GalleryRuns, UploadRuns
  <2> QED
    BY <2>1, StepGallery, StepPolls
<1>3. IInv => GallerySound
  BY DEF GallerySound, GalleryInv
<1> QED
  BY <1>1, <1>2, <1>3, PTL DEF Spec

-----------------------------------------------------------------------------
(***************************************************************************)
(* The status page                                                         *)
(***************************************************************************)
\* A set of numbers that has a bound has a greatest element: the least of the
\* distances from the bound.
Before == {p \in Nat \X Nat : p[1] < p[2]}

LEMMA HasGreatest ==
  ASSUME NEW m \in Nat, NEW S, S \subseteq 1 .. m, S # {}
  PROVE  \E x \in S : \A y \in S : x >= y
<1> DEFINE T == {m - x : x \in S}
<1>1. IsWellFoundedOn(Before, Nat)
  BY NatLessThanWellFounded DEF OpToRel, Before
<1>2. T \subseteq Nat
  OBVIOUS
<1>3. T # {}
  <2>1. PICK x \in S : TRUE
    OBVIOUS
  <2> QED
    BY <2>1
<1>4. \E t \in T : \A u \in T : ~(<<u, t>> \in Before)
  <2> HIDE DEF T
  <2> QED
    BY <1>1, <1>2, <1>3, WFMin
<1>5. PICK t \in T : \A u \in T : ~(u < t)
  BY <1>2, <1>4 DEF Before
<1>6. PICK x \in S : t = m - x
  OBVIOUS
<1>7. \A y \in S : x >= y
  BY <1>5, <1>6
<1> QED
  BY <1>7

LEMMA MaxIsElement ==
  ASSUME NEW m \in Nat, NEW S, S \subseteq 1 .. m, S # {}
  PROVE  StatusPage!Max(S) \in S
BY HasGreatest DEF StatusPage!Max

Samples == [at : Nat, count : [Counters -> Nat]]

NoLess(old, new) ==
  /\ old.at <= new.at
  /\ \A c \in Counters : old.count[c] <= new.count[c]

Ordered(h) == \A j \in 1 .. Len(h) : \A i \in 1 .. j - 1 : NoLess(h[i], h[j])

LEMMA NoLessIsTransitive ==
  ASSUME NEW a \in Samples, NEW b \in Samples, NEW c \in Samples, NoLess(a, b), NoLess(b, c)
  PROVE  NoLess(a, c)
BY DEF NoLess, Samples

\* A sample that is no less than the last one is none less than any.
LEMMA AppendIsOrdered ==
  ASSUME NEW h \in Seq(Samples), NEW x \in Samples, Ordered(h),
         h # <<>> => NoLess(h[Len(h)], x)
  PROVE  Append(h, x) \in Seq(Samples) /\ Ordered(Append(h, x))
<1>1. /\ Append(h, x) \in Seq(Samples) /\ Len(Append(h, x)) = Len(h) + 1
      /\ \A k \in 1 .. Len(h) : Append(h, x)[k] = h[k]
      /\ Append(h, x)[Len(h) + 1] = x
  OBVIOUS
<1>2. \A i \in 1 .. Len(h) : NoLess(h[i], x)
  <2> SUFFICES ASSUME NEW i \in 1 .. Len(h) PROVE NoLess(h[i], x)
    OBVIOUS
  <2>1. h # <<>> /\ h[i] \in Samples /\ h[Len(h)] \in Samples
    OBVIOUS
  <2>2. CASE i = Len(h)
    BY <2>1, <2>2
  <2>3. CASE i # Len(h)
    <3>1. NoLess(h[i], h[Len(h)])
      BY <2>3 DEF Ordered
    <3> QED
      BY <2>1, <3>1, NoLessIsTransitive
  <2> QED
    BY <2>2, <2>3
<1>3. SUFFICES ASSUME NEW j \in 1 .. Len(h) + 1, NEW i \in 1 .. j - 1
               PROVE  NoLess(Append(h, x)[i], Append(h, x)[j])
  BY <1>1 DEF Ordered
<1> QED
  BY <1>1, <1>2 DEF Ordered

\* What is left of a history when its oldest samples go.
LEMMA SuffixIsOrdered ==
  ASSUME NEW h \in Seq(Samples), NEW m \in 1 .. Len(h), Ordered(h)
  PROVE  /\ SubSeq(h, m, Len(h)) \in Seq(Samples) /\ Ordered(SubSeq(h, m, Len(h)))
         /\ Len(SubSeq(h, m, Len(h))) \in Nat
         /\ \A k \in 1 .. Len(SubSeq(h, m, Len(h))) :
              \E j \in 1 .. Len(h) : SubSeq(h, m, Len(h))[k] = h[j]
<1>1. /\ SubSeq(h, m, Len(h)) \in Seq(Samples) /\ Len(SubSeq(h, m, Len(h))) = Len(h) - m + 1
      /\ \A k \in 1 .. Len(h) - m + 1 : SubSeq(h, m, Len(h))[k] = h[m + k - 1]
  BY SubSeqProperties
<1>2. \A k \in 1 .. Len(h) - m + 1 : m + k - 1 \in 1 .. Len(h)
  OBVIOUS
<1>3. \A j \in 1 .. Len(h) - m + 1 : \A i \in 1 .. j - 1 :
        NoLess(SubSeq(h, m, Len(h))[i], SubSeq(h, m, Len(h))[j])
  <2> SUFFICES ASSUME NEW j \in 1 .. Len(h) - m + 1, NEW i \in 1 .. j - 1
               PROVE  NoLess(SubSeq(h, m, Len(h))[i], SubSeq(h, m, Len(h))[j])
    OBVIOUS
  <2>1. NoLess(h[m + i - 1], h[m + j - 1])
    BY DEF Ordered
  <2> QED
    BY <1>1, <2>1
<1> QED
  BY <1>1, <1>2, <1>3 DEF Ordered

\* The page's numbers, and samples no younger than its clock.
History ==
  /\ now \in Nat /\ counts \in [Counters -> Nat] /\ sample \in [Counters -> Nat]
  /\ history \in Seq(Samples) /\ Ordered(history)
  /\ \A k \in 1 .. Len(history) : history[k].at <= now

LEMMA HistoryTells == History => StatusPage!HistoryIsMonotone
BY DEF History, Ordered, NoLess, StatusPage!HistoryIsMonotone

\* A counter that has decreased empties the history; a sample joins it then,
\* and those no rate needs any more leave.
LEMMA UpdateKeepsHistory ==
  ASSUME History, StatusPage!UpdateKPIs, UNCHANGED <<now, counts, sample>>
  PROVE  History'
<1> DEFINE kept == IF history # <<>> /\ StatusPage!IsReset(history[Len(history)].count, sample)
                   THEN <<>> ELSE history
           x == [at |-> now, count |-> sample]
           h == Append(kept, x)
           old == {k \in 2 .. Len(h) - 1 : now - h[k].at >= Window}
           m == StatusPage!Max(old \cup {1})
<1>1. x \in Samples /\ x.at = now
  BY DEF History, Samples
<1>2. /\ kept \in Seq(Samples) /\ Ordered(kept)
      /\ \A k \in 1 .. Len(kept) : kept[k].at <= now
  BY DEF History, Ordered
<1>3. kept # <<>> => NoLess(kept[Len(kept)], x)
  <2> SUFFICES ASSUME kept # <<>> PROVE NoLess(kept[Len(kept)], x)
    OBVIOUS
  <2>1. kept = history /\ ~StatusPage!IsReset(history[Len(history)].count, sample)
    OBVIOUS
  <2>2. history[Len(history)] \in Samples /\ history[Len(history)].at <= now
    BY <2>1 DEF History
  <2>3. \A c \in Counters : history[Len(history)].count[c] <= sample[c]
    BY <2>1, <2>2 DEF StatusPage!IsReset, Samples, History
  <2> QED
    BY <2>1, <2>2, <2>3 DEF NoLess
<1> HIDE DEF kept, x
<1>4. h \in Seq(Samples) /\ Ordered(h)
  BY <1>1, <1>2, <1>3, AppendIsOrdered
<1>5. Len(h) \in Nat \ {0} /\ \A k \in 1 .. Len(h) : h[k].at <= now
  BY <1>1, <1>2 DEF History
<1> HIDE DEF h
<1>6. m \in 1 .. Len(h)
  <2>1. old \cup {1} \subseteq 1 .. Len(h)
    BY <1>5
  <2> HIDE DEF old
  <2>2. m \in old \cup {1}
    BY <1>5, <2>1, MaxIsElement
  <2> QED
    BY <2>1, <2>2
<1>7. history' = SubSeq(h, m, Len(h))
  BY DEF StatusPage!UpdateKPIs, StatusPage!Trimmed, h, kept, x
<1> HIDE DEF m
<1>8. /\ history' \in Seq(Samples) /\ Ordered(history')
      /\ \A k \in 1 .. Len(history') : history'[k].at <= now
  BY <1>4, <1>5, <1>6, <1>7, SuffixIsOrdered
<1> QED
  BY <1>8 DEF History

LEMMA StepHistory ==
  History /\ (StatusPage!Next \/ UNCHANGED statusPage) => History'
<1> SUFFICES ASSUME History, StatusPage!Next \/ UNCHANGED statusPage PROVE History'
  OBVIOUS
<1>1. CASE StatusPage!ClockTicks
  <2>1. \A k \in 1 .. Len(history) : history[k].at \in Nat
    <3>1. \A k \in 1 .. Len(history) : history[k] \in Samples
      BY DEF History
    <3> QED
      BY <3>1 DEF Samples
  <2>2. now' = now + 1 /\ UNCHANGED <<sample, counts, history>>
    BY <1>1 DEF StatusPage!ClockTicks, StatusPage!cycle
  <2> QED
    BY <2>1, <2>2 DEF History
<1>2. CASE StatusPage!Serve
  BY <1>2 DEF StatusPage!Serve, StatusPage!cycle, StatusPage!NoCounts, History
<1>3. CASE \/ StatusPage!TimerFires \/ StatusPage!Refresh \/ StatusPage!changeInterval
           \/ StatusPage!PageHide \/ UNCHANGED statusPage
  <2>1. UNCHANGED <<now, counts, sample, history>>
    BY <1>3 DEF StatusPage!TimerFires, StatusPage!Refresh, StatusPage!changeInterval,
                StatusPage!PageHide, StatusPage!update, StatusPage!cycle, statusPage
  <2> QED
    BY <2>1 DEF History
<1>4. CASE StatusPage!RequestsSettle
  <2>1. /\ UNCHANGED <<now, counts>> /\ sample' \in {sample, counts}
        /\ history' = history \/ history' = <<>>
    BY <1>4 DEF StatusPage!RequestsSettle, StatusPage!unavailable
  <2>2. CASE history' = history
    BY <2>1, <2>2 DEF History
  <2>3. CASE history' = <<>>
    BY <2>1, <2>3 DEF History, Ordered
  <2> QED
    BY <2>1, <2>2, <2>3
<1>5. CASE StatusPage!TextArrives
  <2>1. UNCHANGED <<now, counts, sample>> /\ (StatusPage!UpdateKPIs \/ history' = <<>>)
    BY <1>5 DEF StatusPage!TextArrives, StatusPage!unavailable
  <2>2. CASE StatusPage!UpdateKPIs
    BY <2>1, <2>2, UpdateKeepsHistory
  <2>3. CASE history' = <<>>
    BY <2>1, <2>3 DEF History, Ordered
  <2> QED
    BY <2>1, <2>2, <2>3
<1> QED
  BY <1>1, <1>2, <1>3, <1>4, <1>5 DEF StatusPage!Next

\* What a cycle or the visitor does to the page's timeouts.
Loop ==
  /\ running \in BOOLEAN /\ cycleTimer \in BOOLEAN /\ disposed \in BOOLEAN
  /\ timeouts = 0 <=> ~cycleTimer
  /\ timeouts = 1 <=> cycleTimer
  /\ cycleTimer <=> ~running /\ ~disposed

LEMMA LoopTells == Loop => StatusPage!OneLoop
BY DEF Loop, StatusPage!OneLoop

LEMMA StepLoop ==
  Loop /\ (StatusPage!Next \/ UNCHANGED statusPage) => Loop'
<1> SUFFICES ASSUME Loop, StatusPage!Next \/ UNCHANGED statusPage PROVE Loop'
  OBVIOUS
<1> USE DEF Loop
<1>1. CASE StatusPage!ClockTicks \/ StatusPage!Serve \/ UNCHANGED statusPage
  BY <1>1 DEF StatusPage!ClockTicks, StatusPage!Serve, StatusPage!cycle, StatusPage!timing,
              statusPage
<1>2. CASE StatusPage!TimerFires
  <2>1. cycleTimer /\ ~running /\ ~disposed
    BY <1>2 DEF StatusPage!TimerFires
  <2>2. timeouts = 1
    BY <2>1
  <2>3. timeouts' = timeouts - 1 /\ cycleTimer' = FALSE /\ running' = TRUE /\ disposed' = disposed
    BY <1>2, <2>1 DEF StatusPage!TimerFires, StatusPage!update
  <2>4. timeouts' = 0
    BY <2>2, <2>3
  <2> QED
    BY <2>1, <2>3, <2>4
<1>3. CASE StatusPage!Refresh
  <2>1. StatusPage!Others = 0
    BY DEF StatusPage!Others
  <2> QED
    BY <1>3, <2>1 DEF StatusPage!Refresh, StatusPage!update
<1>4. CASE StatusPage!changeInterval \/ StatusPage!PageHide
  <2>1. StatusPage!Others = 0
    BY DEF StatusPage!Others
  <2>2. CASE StatusPage!changeInterval
    BY <2>1, <2>2 DEF StatusPage!changeInterval, StatusPage!cycle
  <2>3. CASE StatusPage!PageHide
    BY <2>1, <2>3 DEF StatusPage!PageHide, StatusPage!cycle
  <2> QED
    BY <1>4, <2>2, <2>3
<1>5. CASE StatusPage!RequestsSettle \/ StatusPage!TextArrives
  <2>1. running /\ UNCHANGED disposed
    BY <1>5 DEF StatusPage!RequestsSettle, StatusPage!TextArrives, StatusPage!timing
  <2>2. StatusPage!EndCycle \/ UNCHANGED <<running, cycleTimer, timeouts>>
    BY <1>5 DEF StatusPage!RequestsSettle, StatusPage!TextArrives, StatusPage!timing
  <2>3. CASE StatusPage!EndCycle
    <3>1. timeouts = 0 /\ cycleTimer = FALSE
      BY <2>1
    <3>2. running' = FALSE /\ disposed' = disposed
      BY <2>1, <2>3 DEF StatusPage!EndCycle
    <3>3. CASE disposed
      BY <2>3, <3>1, <3>2, <3>3 DEF StatusPage!EndCycle
    <3>4. CASE ~disposed
      <4>1. cycleTimer' = TRUE /\ timeouts' = timeouts + 1
        BY <2>3, <3>4 DEF StatusPage!EndCycle
      <4>2. timeouts' = 1
        BY <3>1, <4>1
      <4> QED
        BY <3>2, <3>4, <4>1, <4>2
    <3> QED
      BY <3>3, <3>4
  <2>4. CASE UNCHANGED <<running, cycleTimer, timeouts>>
    BY <2>1, <2>4
  <2> QED
    BY <2>2, <2>3, <2>4
<1> QED
  BY <1>1, <1>2, <1>3, <1>4, <1>5 DEF StatusPage!Next

\* One loop runs, whatever the visitor does, and no rate is negative: for any
\* counters, window and times.
THEOREM StatusPageSoundHolds == Spec => []StatusPageSound
<1> DEFINE IInv == History /\ Loop
<1>1. Init => IInv
  <2>1. StatusPage!Init => History
    BY DEF StatusPage!Init, StatusPage!NoCounts, History, Ordered
  <2>2. StatusPage!Init => Loop
    <3>1. StatusPage!Init =>
            running = TRUE /\ cycleTimer = FALSE /\ timeouts = 0 /\ disposed = FALSE
      BY DEF StatusPage!Init
    <3>2. timeouts = 0 => timeouts # 1
      OBVIOUS
    <3> QED
      BY <3>1, <3>2, Zenon DEF Loop
  <2> QED
    BY <2>1, <2>2 DEF Init
<1>2. IInv /\ [Next]_vars => IInv'
  <2>1. [Next]_vars => StatusPage!Next \/ UNCHANGED statusPage
    BY DEF Next, vars, DisplayRuns, StatusPageRuns, GalleryRuns, UploadRuns
  <2> QED
    BY <2>1, StepHistory, StepLoop
<1>3. IInv => StatusPageSound
  BY HistoryTells, LoopTells DEF StatusPageSound
<1> QED
  BY <1>1, <1>2, <1>3, PTL DEF Spec

-----------------------------------------------------------------------------
(***************************************************************************)
(* A display page                                                          *)
(***************************************************************************)
\* Where a queue holds one of some messages.
Places(q, M) == {k \in 1 .. Len(q) : q[k] \in M}
One(S) == \E x : S = {x}

LEMMA PlacesInTail ==
  ASSUME NEW T, NEW q \in Seq(T), NEW M, q # <<>>
  PROVE  /\ Tail(q) \in Seq(T)
         /\ Places(q, M) = {} => Head(q) \notin M /\ Places(Tail(q), M) = {}
         /\ One(Places(q, M)) =>
              IF Head(q) \in M THEN Places(Tail(q), M) = {} ELSE One(Places(Tail(q), M))
<1>1. /\ Len(q) \in Nat \ {0} /\ Head(q) = q[1]
      /\ Tail(q) \in Seq(T) /\ Len(Tail(q)) = Len(q) - 1
      /\ \A k \in 1 .. Len(q) - 1 : Tail(q)[k] = q[k + 1]
  BY HeadTailProperties
<1>2. \A k : k \in Places(Tail(q), M) <=> k \in 1 .. Len(q) - 1 /\ q[k + 1] \in M
  BY <1>1 DEF Places
<1>3. \A k \in Places(Tail(q), M) : k + 1 \in Places(q, M)
  BY <1>1, <1>2 DEF Places
<1>4. Places(q, M) = {} => Head(q) \notin M /\ Places(Tail(q), M) = {}
  BY <1>1, <1>3 DEF Places
<1>5. ASSUME One(Places(q, M)), Head(q) \in M PROVE Places(Tail(q), M) = {}
  <2>1. Places(q, M) = {1}
    BY <1>1, <1>5 DEF One, Places
  <2> QED
    BY <1>2, <1>3, <2>1
<1>6. ASSUME One(Places(q, M)), Head(q) \notin M PROVE One(Places(Tail(q), M))
  <2>1. PICK x : Places(q, M) = {x}
    BY <1>6 DEF One
  <2>2. x \in 2 .. Len(q) /\ q[x] \in M
    BY <1>1, <1>6, <2>1 DEF Places
  <2>3. x - 1 \in Places(Tail(q), M)
    BY <1>1, <1>2, <2>2
  <2>4. \A k \in Places(Tail(q), M) : k = x - 1
    BY <1>1, <1>2, <1>3, <2>1, <2>2
  <2> QED
    BY <2>3, <2>4 DEF One
<1> QED
  BY <1>1, <1>4, <1>5, <1>6

LEMMA PlacesInConcat ==
  ASSUME NEW T, NEW q \in Seq(T), NEW r \in Seq(T), NEW M
  PROVE  /\ q \o r \in Seq(T)
         /\ Places(r, M) = {} => Places(q \o r, M) = Places(q, M)
         /\ Places(q, M) = {} /\ Len(r) = 1 /\ r[1] \in M => One(Places(q \o r, M))
<1>1. /\ Len(q) \in Nat /\ Len(r) \in Nat
      /\ q \o r \in Seq(T) /\ Len(q \o r) = Len(q) + Len(r)
      /\ \A k \in 1 .. Len(q) + Len(r) :
           (q \o r)[k] = IF k <= Len(q) THEN q[k] ELSE r[k - Len(q)]
  BY ConcatProperties
<1>2. \A k : k \in Places(q \o r, M) <=>
             k \in Places(q, M) \/ (k \in Len(q) + 1 .. Len(q) + Len(r) /\ r[k - Len(q)] \in M)
  BY <1>1 DEF Places
<1>3. ASSUME Places(r, M) = {} PROVE Places(q \o r, M) = Places(q, M)
  <2>1. \A k \in Len(q) + 1 .. Len(q) + Len(r) : k - Len(q) \in 1 .. Len(r)
    BY <1>1
  <2> QED
    BY <1>2, <1>3, <2>1 DEF Places
<1>4. ASSUME Places(q, M) = {}, Len(r) = 1, r[1] \in M PROVE Places(q \o r, M) = {Len(q) + 1}
  BY <1>1, <1>2, <1>4
<1> QED
  BY <1>1, <1>3, <1>4 DEF One

LEMMA OtherMessage ==
  ASSUME NEW T, NEW q \in Seq(T), NEW m \in T, NEW M, m \notin M
  PROVE  Places(q \o <<m>>, M) = Places(q, M)
<1> DEFINE r == <<m>>
<1>1. r \in Seq(T) /\ Len(r) = 1 /\ r[1] = m
  OBVIOUS
<1> HIDE DEF r
<1>2. Places(r, M) = {}
  BY <1>1 DEF Places
<1>3. Places(q \o r, M) = Places(q, M)
  BY <1>1, <1>2, PlacesInConcat
<1> QED
  BY <1>3 DEF r

\* What of a worker is under way: its frames posted to the page, those that
\* wait for an animation frame, and the page's answers.
Posts == {m \in Display!PageMessage : m.type = "frame"}
Posted(w) == Places(toPage[w], Posts)
Waits(w) == {c \in scheduled : c.worker = w}
Answers(w) == Places(toWorker[w], {"ready"})
Commands == {"start", "ready", "stop"}

Nothing(p, s, r) == p = {} /\ s = {} /\ r = {}
OneThing(p, s, r) ==
  \/ One(p) /\ s = {} /\ r = {}
  \/ p = {} /\ One(s) /\ r = {}
  \/ p = {} /\ s = {} /\ One(r)

Awaits(l) == l.awaitingPaint /\ l.task = "running"

\* A worker that was not started has nothing under way; one of the page was
\* not told to stop, and has one thing under way while it waits.
Good(w) ==
  /\ local[w].task = "new" =>
       ~local[w].awaitingPaint /\ Nothing(Posted(w), Waits(w), Answers(w))
  /\ w = worker =>
       /\ Places(toWorker[w], {"stop"}) = {}
       /\ IF Awaits(local[w]) THEN OneThing(Posted(w), Waits(w), Answers(w))
          ELSE Nothing(Posted(w), Waits(w), Answers(w))

DisplayTypeOK ==
  /\ worker \in Workers \cup {None}
  /\ toPage \in [Workers -> Seq(Display!PageMessage)]
  /\ toWorker \in [Workers -> Seq(Commands)]
  /\ local \in [Workers -> Display!Local]

DisplayInv == DisplayTypeOK /\ \A w \in Workers : Good(w)

LEMMA Messages ==
  /\ \A n \in 1 .. MaxFrames : Display!Frame(n) \in Posts
  /\ \A s \in {"error", "disconnected", "waiting"} :
       Display!Status(s) \in Display!PageMessage \ Posts
  /\ Posts \subseteq Display!PageMessage
BY DEF Posts, Display!PageMessage, Display!Frame, Display!Status, Display!Failures

\* The notices a task posts carry no frame.
LEMMA NoticesAreQuiet ==
  ASSUME NEW r, \/ r = <<>>
                \/ \E s \in {"error", "disconnected", "waiting"} : r = <<Display!Status(s)>>
                \/ r = <<Display!Status("error"), Display!Status("error")>>
  PROVE  r \in Seq(Display!PageMessage) /\ Places(r, Posts) = {}
<1>1. CASE r = <<>>
  BY <1>1 DEF Places
<1>2. ASSUME NEW s \in {"error", "disconnected", "waiting"}, r = <<Display!Status(s)>>
      PROVE  r \in Seq(Display!PageMessage) /\ Places(r, Posts) = {}
  <2>1. Display!Status(s) \in Display!PageMessage /\ Display!Status(s) \notin Posts
    BY Messages
  <2> QED
    BY <1>2, <2>1 DEF Places
<1>3. CASE r = <<Display!Status("error"), Display!Status("error")>>
  <2>1. Display!Status("error") \in Display!PageMessage /\ Display!Status("error") \notin Posts
    BY Messages
  <2> QED
    BY <1>3, <2>1 DEF Places
<1> QED
  BY <1>1, <1>2, <1>3

\* One of a worker's variables is set.
LEMMA SetOne ==
  ASSUME NEW l \in Display!Local
  PROVE  /\ \A t \in {"new", "running", "stopped"} :
              LET a == [l EXCEPT !.task = t]
              IN  a \in Display!Local /\ a.task = t /\ a.awaitingPaint = l.awaitingPaint
         /\ \A t \in {"none", "connecting", "open", "closing", "closed"} :
              LET a == [l EXCEPT !.socket = t]
              IN  /\ a \in Display!Local /\ a.task = l.task
                  /\ a.awaitingPaint = l.awaitingPaint /\ a.pending = l.pending
         /\ \A t \in BOOLEAN :
              LET a == [l EXCEPT !.awaitingPaint = t]
              IN  a \in Display!Local /\ a.task = l.task /\ a.awaitingPaint = t
         /\ \A t \in BOOLEAN :
              LET a == [l EXCEPT !.failed = t]
              IN  a \in Display!Local /\ a.task = l.task /\ a.awaitingPaint = l.awaitingPaint
         /\ \A t \in 0 .. MaxFrames :
              LET a == [l EXCEPT !.pending = t]
              IN  a \in Display!Local /\ a.task = l.task /\ a.awaitingPaint = l.awaitingPaint
         /\ \A t \in 0 .. MaxFrames :
              LET a == [l EXCEPT !.received = t]
              IN  a \in Display!Local /\ a.task = l.task /\ a.awaitingPaint = l.awaitingPaint
         /\ 0 \in 0 .. MaxFrames
<1>1. 0 \in 0 .. MaxFrames
  BY WebAssumption DEF WebAssumption
<1> QED
  BY <1>1 DEF Display!Local

LEMMA ResetPending ==
  ASSUME NEW l \in Display!Local
  PROVE  /\ [l EXCEPT !.pending = 0] \in Display!Local
         /\ [l EXCEPT !.pending = 0].task = l.task
         /\ [l EXCEPT !.pending = 0].awaitingPaint = l.awaitingPaint
<1>1. 0 \in 0 .. MaxFrames
  BY SetOne
<1> QED
  BY <1>1 DEF Display!Local

\* A task of a worker changes that worker's variables and queues only.
LEMMA LeavesTells ==
  ASSUME DisplayTypeOK, NEW w \in Workers, NEW after \in Display!Local,
         NEW posted \in Seq(Display!PageMessage), Display!Leaves(w, after, posted)
  PROVE  /\ local' \in [Workers -> Display!Local]
         /\ toPage' \in [Workers -> Seq(Display!PageMessage)]
         /\ local'[w] = after /\ toPage'[w] = toPage[w] \o posted
         /\ \A v \in Workers \ {w} : local'[v] = local[v] /\ toPage'[v] = toPage[v]
         /\ worker' = worker /\ scheduled' = scheduled
<1>1. toPage[w] \o posted \in Seq(Display!PageMessage)
  BY PlacesInConcat DEF DisplayTypeOK
<1> QED
  BY <1>1 DEF DisplayTypeOK, Display!Leaves, Display!page

LEMMA TakesTells ==
  ASSUME DisplayTypeOK, NEW w \in Workers, NEW message, Display!Takes(w, message)
  PROVE  /\ toWorker' \in [Workers -> Seq(Commands)]
         /\ toWorker[w] # <<>> /\ Head(toWorker[w]) = message
         /\ toWorker'[w] = Tail(toWorker[w])
         /\ \A v \in Workers \ {w} : toWorker'[v] = toWorker[v]
<1>1. toWorker[w] # <<>> => Tail(toWorker[w]) \in Seq(Commands)
  BY PlacesInTail DEF DisplayTypeOK
<1> QED
  BY <1>1 DEF DisplayTypeOK, Display!Takes

LEMMA OtherWorkers ==
  ASSUME NEW v, Good(v), worker' = worker, scheduled' = scheduled,
         local'[v] = local[v], toPage'[v] = toPage[v], toWorker'[v] = toWorker[v]
  PROVE  Good(v)'
BY DEF Good, Posted, Waits, Answers

LEMMA InitDisplay == Display!Init => DisplayInv
<1> SUFFICES ASSUME Display!Init PROVE DisplayInv
  OBVIOUS
<1>1. DisplayTypeOK
  <2>1. Display!NewWorker \in Display!Local
    BY WebAssumption DEF WebAssumption, Display!NewWorker, Display!Local
  <2>2. <<"start">> \in Seq(Commands) /\ <<>> \in Seq(Commands)
    BY DEF Commands
  <2>3. <<>> \in Seq(Display!PageMessage)
    OBVIOUS
  <2> QED
    BY <2>1, <2>2, <2>3 DEF Display!Init, DisplayTypeOK
<1>2. ASSUME NEW w \in Workers PROVE Good(w)
  <2>1. /\ local[w].task = "new" /\ ~local[w].awaitingPaint
        /\ toPage[w] = <<>> /\ scheduled = {}
        /\ toWorker[w] = <<>> \/ toWorker[w] = <<"start">>
    BY <1>2 DEF Display!Init, Display!NewWorker
  <2>2. Posted(w) = {} /\ Waits(w) = {}
    BY <2>1 DEF Posted, Waits, Places
  <2>3. Answers(w) = {} /\ Places(toWorker[w], {"stop"}) = {}
    BY <2>1 DEF Answers, Places
  <2> QED
    BY <2>1, <2>2, <2>3 DEF Good, Nothing, Awaits
<1> QED
  BY <1>1, <1>2 DEF DisplayInv

\* A task that posts notices only, and of the queue takes no answer, leaves
\* what is under way.
LEMMA QuietTask ==
  ASSUME DisplayInv, NEW w \in Workers, NEW after \in Display!Local,
         NEW posted \in Seq(Display!PageMessage), Places(posted, Posts) = {},
         Display!Leaves(w, after, posted), after.task # "new",
         Awaits(after) <=> Awaits(local[w]),
         \/ UNCHANGED toWorker
         \/ \E message \in {"start", "stop"} : Display!Takes(w, message)
  PROVE  DisplayInv'
<1>1. /\ local' \in [Workers -> Display!Local]
      /\ toPage' \in [Workers -> Seq(Display!PageMessage)]
      /\ local'[w] = after /\ toPage'[w] = toPage[w] \o posted
      /\ \A v \in Workers \ {w} : local'[v] = local[v] /\ toPage'[v] = toPage[v]
      /\ worker' = worker /\ scheduled' = scheduled
  BY LeavesTells DEF DisplayInv
<1>2. /\ toWorker' \in [Workers -> Seq(Commands)]
      /\ \A v \in Workers \ {w} : toWorker'[v] = toWorker[v]
      /\ \/ toWorker'[w] = toWorker[w]
         \/ /\ toWorker[w] # <<>> /\ toWorker'[w] = Tail(toWorker[w])
            /\ Head(toWorker[w]) # "ready"
  BY TakesTells DEF DisplayInv, DisplayTypeOK
<1>3. DisplayTypeOK'
  BY <1>1, <1>2 DEF DisplayInv, DisplayTypeOK
<1>4. Posted(w)' = Posted(w) /\ Waits(w)' = Waits(w)
  BY <1>1, PlacesInConcat DEF Posted, Waits, DisplayInv, DisplayTypeOK
<1>5. /\ Answers(w) = {} => Answers(w)' = {}
      /\ One(Answers(w)) => One(Answers(w)')
      /\ Places(toWorker[w], {"stop"}) = {} => Places(toWorker[w], {"stop"})' = {}
  <2>1. CASE toWorker'[w] = toWorker[w]
    BY <2>1 DEF Answers
  <2>2. CASE /\ toWorker[w] # <<>> /\ toWorker'[w] = Tail(toWorker[w])
             /\ Head(toWorker[w]) # "ready"
    BY <2>2, PlacesInTail DEF Answers, DisplayInv, DisplayTypeOK
  <2> QED
    BY <1>2, <2>1, <2>2
<1>6. Good(w)'
  BY <1>1, <1>4, <1>5 DEF DisplayInv, Good, Nothing, OneThing
<1>7. \A v \in Workers \ {w} : Good(v)'
  BY <1>1, <1>2, OtherWorkers DEF DisplayInv
<1> QED
  BY <1>3, <1>6, <1>7 DEF DisplayInv

\* publishLatest, when what is under way is known but for the answers.
LEMMA PublishKeepsInv ==
  ASSUME DisplayInv, NEW w \in Workers, NEW l \in Display!Local,
         Display!publishLatest(w, l), l.task = "running",
         toWorker' \in [Workers -> Seq(Commands)],
         \A v \in Workers \ {w} : toWorker'[v] = toWorker[v],
         w = worker =>
           /\ Places(toWorker'[w], {"stop"}) = {}
           /\ IF l.awaitingPaint
              THEN OneThing(Posted(w), Waits(w), Places(toWorker'[w], {"ready"}))
              ELSE Nothing(Posted(w), Waits(w), Places(toWorker'[w], {"ready"}))
  PROVE  DisplayInv'
<1>1. CASE l.awaitingPaint \/ l.pending = 0
  <2>1. Display!Leaves(w, l, <<>>)
    BY <1>1 DEF Display!publishLatest
  <2>2. <<>> \in Seq(Display!PageMessage) /\ Places(<<>>, Posts) = {}
    BY NoticesAreQuiet
  <2>3. /\ local' \in [Workers -> Display!Local]
        /\ toPage' \in [Workers -> Seq(Display!PageMessage)]
        /\ local'[w] = l /\ toPage'[w] = toPage[w] \o <<>>
        /\ \A v \in Workers \ {w} : local'[v] = local[v] /\ toPage'[v] = toPage[v]
        /\ worker' = worker /\ scheduled' = scheduled
    BY <2>1, <2>2, LeavesTells DEF DisplayInv
  <2>4. Posted(w)' = Posted(w) /\ Waits(w)' = Waits(w)
    BY <2>2, <2>3, PlacesInConcat DEF Posted, Waits, DisplayInv, DisplayTypeOK
  <2>5. Good(w)'
    BY <2>3, <2>4 DEF Good, Awaits, Answers
  <2>6. \A v \in Workers \ {w} : Good(v)'
    BY <2>3, OtherWorkers DEF DisplayInv
  <2> QED
    BY <2>3, <2>5, <2>6 DEF DisplayInv, DisplayTypeOK
<1>2. CASE ~l.awaitingPaint /\ l.pending # 0
  <2> DEFINE after == [l EXCEPT !.awaitingPaint = TRUE, !.pending = 0]
             m == Display!Frame(l.pending)
  <2>1. Display!Leaves(w, after, <<m>>)
    BY <1>2 DEF Display!publishLatest
  <2>2. after \in Display!Local /\ after.awaitingPaint = TRUE /\ after.task = "running"
    <3>1. /\ [l EXCEPT !.awaitingPaint = TRUE] \in Display!Local
          /\ [l EXCEPT !.awaitingPaint = TRUE].awaitingPaint = TRUE
          /\ [l EXCEPT !.awaitingPaint = TRUE].task = "running"
      BY SetOne
    <3> QED
      BY <3>1, ResetPending, Zenon
  <2>3. l.pending \in 1 .. MaxFrames
    BY <1>2, WebAssumption DEF Display!Local, WebAssumption
  <2>4. m \in Posts /\ m \in Display!PageMessage
    BY <2>3, Messages
  <2> HIDE DEF after, m
  <2>5. <<m>> \in Seq(Display!PageMessage) /\ Len(<<m>>) = 1 /\ <<m>>[1] = m
    BY <2>4
  <2>6. /\ local' \in [Workers -> Display!Local]
        /\ toPage' \in [Workers -> Seq(Display!PageMessage)]
        /\ local'[w] = after /\ toPage'[w] = toPage[w] \o <<m>>
        /\ \A v \in Workers \ {w} : local'[v] = local[v] /\ toPage'[v] = toPage[v]
        /\ worker' = worker /\ scheduled' = scheduled
    BY <2>1, <2>2, <2>5, LeavesTells DEF DisplayInv
  <2>7. /\ Posted(w) = {} => One(Posted(w)')
        /\ Waits(w)' = Waits(w)
    <3>1. toPage[w] \in Seq(Display!PageMessage)
      BY DEF DisplayInv, DisplayTypeOK
    <3>2. Places(toPage[w], Posts) = {} => One(Places(toPage[w] \o <<m>>, Posts))
      BY <2>4, <2>5, <3>1, PlacesInConcat
    <3> QED
      BY <2>6, <3>2 DEF Posted, Waits
  <2>8. Good(w)'
    BY <1>2, <2>2, <2>6, <2>7 DEF Good, Awaits, Answers, Nothing, OneThing
  <2>9. \A v \in Workers \ {w} : Good(v)'
    BY <2>6, OtherWorkers DEF DisplayInv
  <2> QED
    BY <2>6, <2>8, <2>9 DEF DisplayInv, DisplayTypeOK
<1> QED
  BY <1>1, <1>2

LEMMA WorkerTaskKeepsInv ==
  ASSUME DisplayInv, NEW w \in Workers, Display!WorkerTask(w)
  PROVE  DisplayInv'
<1>0. local[w] \in Display!Local
  BY DEF DisplayInv, DisplayTypeOK
<1>1. CASE Display!WorkerStarts(w)
  <2>1. local[w].task = "new" /\ ~local[w].awaitingPaint
    BY <1>1 DEF Display!WorkerStarts, DisplayInv, Good
  <2>2. PICK after \in Display!Local, posted \in {<<>>, <<Display!Status("error")>>} :
          /\ Display!Leaves(w, after, posted) /\ after.task # "new" /\ ~after.awaitingPaint
          /\ UNCHANGED toWorker \/ Display!Takes(w, "start")
    <3>1. PICK task \in {"running", "stopped"}, socket \in {local[w].socket, "connecting"},
               posted \in {<<>>, <<Display!Status("error")>>} :
            /\ \/ Display!Leaves(w, [local[w] EXCEPT !.task = task], posted)
               \/ Display!Leaves(w, [local[w] EXCEPT !.task = task, !.socket = socket], posted)
            /\ UNCHANGED toWorker \/ Display!Takes(w, "start")
      BY <1>1 DEF Display!WorkerStarts
    <3>2. /\ [local[w] EXCEPT !.task = task] \in Display!Local
          /\ [local[w] EXCEPT !.task = task, !.socket = socket] \in Display!Local
          /\ [local[w] EXCEPT !.task = task].task # "new"
          /\ [local[w] EXCEPT !.task = task, !.socket = socket].task # "new"
          /\ ~[local[w] EXCEPT !.task = task].awaitingPaint
          /\ ~[local[w] EXCEPT !.task = task, !.socket = socket].awaitingPaint
      BY <1>0, <2>1, <3>1 DEF Display!Local
    <3> QED
      BY <3>1, <3>2
  <2>3. posted \in Seq(Display!PageMessage) /\ Places(posted, Posts) = {}
    BY <2>2, NoticesAreQuiet
  <2>4. Awaits(after) <=> Awaits(local[w])
    BY <2>1, <2>2 DEF Awaits
  <2> QED
    BY <2>2, <2>3, <2>4, QuietTask
<1>2. CASE Display!WorkerIsReady(w)
  <2> DEFINE l == [local[w] EXCEPT !.awaitingPaint = FALSE]
  <2>1. local[w].task = "running" /\ Display!Takes(w, "ready") /\ Display!publishLatest(w, l)
    BY <1>2 DEF Display!WorkerIsReady
  <2>2. l \in Display!Local /\ l.task = "running" /\ ~l.awaitingPaint
    BY <1>0, <2>1 DEF Display!Local
  <2> HIDE DEF l
  <2>3. /\ toWorker' \in [Workers -> Seq(Commands)]
        /\ toWorker[w] # <<>> /\ Head(toWorker[w]) = "ready"
        /\ toWorker'[w] = Tail(toWorker[w])
        /\ \A v \in Workers \ {w} : toWorker'[v] = toWorker[v]
    BY <2>1, TakesTells DEF DisplayInv
  <2>4. ASSUME w = worker
        PROVE  /\ Places(toWorker'[w], {"stop"}) = {}
               /\ Nothing(Posted(w), Waits(w), Places(toWorker'[w], {"ready"}))
    <3>1. Places(toWorker[w], {"stop"}) = {} => Places(toWorker'[w], {"stop"}) = {}
      BY <2>3, PlacesInTail DEF DisplayInv, DisplayTypeOK
    <3>2. /\ Answers(w) # {}
          /\ One(Answers(w)) => Places(toWorker'[w], {"ready"}) = {}
      BY <2>3, PlacesInTail DEF DisplayInv, DisplayTypeOK, Answers
    <3>3. /\ Places(toWorker[w], {"stop"}) = {}
          /\ \/ Nothing(Posted(w), Waits(w), Answers(w))
             \/ OneThing(Posted(w), Waits(w), Answers(w))
      BY <2>4 DEF DisplayInv, Good
    <3> QED
      BY <3>1, <3>2, <3>3 DEF Nothing, OneThing
  <2> QED
    BY <2>1, <2>2, <2>3, <2>4, PublishKeepsInv
<1>3. CASE Display!WorkerStops(w)
  <2> DEFINE after == [local[w] EXCEPT !.task = "stopped", !.socket = "closed", !.pending = 0]
  <2>1. Display!Takes(w, "stop") /\ Display!Leaves(w, after, <<>>)
    BY <1>3 DEF Display!WorkerStops
  <2>2. after \in Display!Local /\ after.task = "stopped"
    <3>1. /\ [local[w] EXCEPT !.task = "stopped"] \in Display!Local
          /\ [local[w] EXCEPT !.task = "stopped"].task = "stopped"
      BY <1>0, SetOne
    <3>2. /\ [local[w] EXCEPT !.task = "stopped", !.socket = "closed"] \in Display!Local
          /\ [local[w] EXCEPT !.task = "stopped", !.socket = "closed"].task = "stopped"
      BY <3>1, SetOne
    <3> QED
      BY <3>2, ResetPending, Zenon
  <2> HIDE DEF after
  <2>3. <<>> \in Seq(Display!PageMessage)
    OBVIOUS
  <2>4. /\ local' \in [Workers -> Display!Local]
        /\ toPage' \in [Workers -> Seq(Display!PageMessage)]
        /\ local'[w] = after
        /\ \A v \in Workers \ {w} : local'[v] = local[v] /\ toPage'[v] = toPage[v]
        /\ worker' = worker /\ scheduled' = scheduled
    BY <2>1, <2>2, <2>3, LeavesTells DEF DisplayInv
  <2>5. /\ toWorker' \in [Workers -> Seq(Commands)]
        /\ toWorker[w] # <<>> /\ Head(toWorker[w]) = "stop"
        /\ \A v \in Workers \ {w} : toWorker'[v] = toWorker[v]
    BY <2>1, TakesTells DEF DisplayInv
  <2>6. w # worker
    <3>1. toWorker[w] \in Seq(Commands)
      BY DEF DisplayInv, DisplayTypeOK
    <3>2. Places(toWorker[w], {"stop"}) = {} => Head(toWorker[w]) \notin {"stop"}
      BY <2>5, <3>1, PlacesInTail
    <3> QED
      BY <2>5, <3>2 DEF DisplayInv, Good
  <2>7. Good(w)'
    BY <2>2, <2>4, <2>6 DEF Good
  <2>8. \A v \in Workers \ {w} : Good(v)'
    BY <2>4, <2>5, OtherWorkers DEF DisplayInv
  <2> QED
    BY <2>4, <2>5, <2>7, <2>8 DEF DisplayInv, DisplayTypeOK
<1> QED
  BY <1>1, <1>2, <1>3 DEF Display!WorkerTask

LEMMA SocketEventKeepsInv ==
  ASSUME DisplayInv, NEW w \in Workers, Display!SocketEvent(w)
  PROVE  DisplayInv'
<1>1. local[w] \in Display!Local
  BY DEF DisplayInv, DisplayTypeOK
<1>2. local[w].task = "running" /\ UNCHANGED toWorker
  BY DEF Display!SocketEvent, Display!SocketOpens, Display!SocketFails, Display!SocketCloses,
         Display!ValidMessage, Display!InvalidMessage, Display!Socket
\* Any of them but a message with a frame.
<1>3. ASSUME NEW after \in Display!Local, NEW posted, Display!Leaves(w, after, posted),
             after.task = "running", after.awaitingPaint = local[w].awaitingPaint,
             \/ posted = <<>>
             \/ \E s \in {"error", "disconnected", "waiting"} : posted = <<Display!Status(s)>>
             \/ posted = <<Display!Status("error"), Display!Status("error")>>
      PROVE  DisplayInv'
  <2>1. posted \in Seq(Display!PageMessage) /\ Places(posted, Posts) = {}
    BY <1>3, NoticesAreQuiet
  <2>2. Awaits(after) <=> Awaits(local[w])
    BY <1>2, <1>3 DEF Awaits
  <2>3. after.task # "new"
    BY <1>3
  <2> QED
    BY <1>2, <1>3, <2>1, <2>2, <2>3, QuietTask
<1>4. CASE Display!SocketOpens(w)
  <2>1. Display!Leaves(w, [local[w] EXCEPT !.socket = "open"], <<Display!Status("waiting")>>)
    BY <1>4 DEF Display!SocketOpens
  <2>2. /\ [local[w] EXCEPT !.socket = "open"] \in Display!Local
        /\ [local[w] EXCEPT !.socket = "open"].task = "running"
        /\ [local[w] EXCEPT !.socket = "open"].awaitingPaint = local[w].awaitingPaint
    BY <1>1, <1>2 DEF Display!Local
  <2> QED
    BY <1>3, <2>1, <2>2
<1>5. CASE Display!SocketFails(w)
  <2> DEFINE after == [local[w] EXCEPT !.socket = "closed", !.failed = TRUE]
  <2>1. Display!Leaves(w, after, <<Display!Status("error")>>)
    BY <1>5 DEF Display!SocketFails
  <2>2. /\ after \in Display!Local /\ after.task = "running"
        /\ after.awaitingPaint = local[w].awaitingPaint
    BY <1>1, <1>2 DEF Display!Local
  <2> HIDE DEF after
  <2> QED
    BY <1>3, <2>1, <2>2
<1>6. CASE Display!SocketCloses(w)
  <2> DEFINE after == [local[w] EXCEPT !.socket = "closed"]
  <2>1. \/ Display!Leaves(w, after, <<>>)
        \/ Display!Leaves(w, after, <<Display!Status("disconnected")>>)
    BY <1>6 DEF Display!SocketCloses
  <2>2. /\ after \in Display!Local /\ after.task = "running"
        /\ after.awaitingPaint = local[w].awaitingPaint
    BY <1>1, <1>2 DEF Display!Local
  <2> HIDE DEF after
  <2> QED
    BY <1>3, <2>1, <2>2
<1>7. CASE Display!ValidMessage(w)
  <2> DEFINE n == local[w].received + 1
             l == [local[w] EXCEPT !.received = n, !.pending = n]
  <2>1. local[w].received < MaxFrames /\ Display!publishLatest(w, l)
    BY <1>7 DEF Display!ValidMessage
  <2>2. n \in 0 .. MaxFrames
    BY <1>1, <2>1, WebAssumption DEF Display!Local, WebAssumption
  <2> HIDE DEF n
  <2>3. /\ l \in Display!Local /\ l.task = "running"
        /\ l.awaitingPaint = local[w].awaitingPaint
    BY <1>1, <1>2, <2>2 DEF Display!Local
  <2> HIDE DEF l
  <2>4. Awaits(local[w]) <=> l.awaitingPaint
    BY <1>2, <2>3 DEF Awaits
  <2>5. /\ toWorker' \in [Workers -> Seq(Commands)]
        /\ \A v \in Workers \ {w} : toWorker'[v] = toWorker[v]
        /\ toWorker'[w] = toWorker[w]
    BY <1>2 DEF DisplayInv, DisplayTypeOK
  <2>6. w = worker =>
          /\ Places(toWorker'[w], {"stop"}) = {}
          /\ IF l.awaitingPaint
             THEN OneThing(Posted(w), Waits(w), Places(toWorker'[w], {"ready"}))
             ELSE Nothing(Posted(w), Waits(w), Places(toWorker'[w], {"ready"}))
    BY <2>4, <2>5 DEF DisplayInv, Good, Answers
  <2> QED
    BY <2>1, <2>3, <2>5, <2>6, PublishKeepsInv
<1>8. CASE Display!InvalidMessage(w)
  <2> DEFINE after == [local[w] EXCEPT !.failed = TRUE]
             closing == [after EXCEPT !.socket = "closing"]
  <2>1. \/ Display!Leaves(w, closing, <<Display!Status("error")>>)
        \/ Display!Leaves(w, after, <<Display!Status("error"), Display!Status("error")>>)
    BY <1>8 DEF Display!InvalidMessage
  <2>2. /\ after \in Display!Local /\ after.task = "running"
        /\ after.awaitingPaint = local[w].awaitingPaint
    BY <1>1, <1>2 DEF Display!Local
  <2> HIDE DEF after
  <2>3. /\ closing \in Display!Local /\ closing.task = "running"
        /\ closing.awaitingPaint = local[w].awaitingPaint
    BY <2>2 DEF Display!Local
  <2> HIDE DEF closing
  <2> QED
    BY <1>3, <2>1, <2>2, <2>3
<1> QED
  BY <1>4, <1>5, <1>6, <1>7, <1>8 DEF Display!SocketEvent

\* What the page does leaves the variables of its workers.
LEMMA PageHandlesKeepsInv ==
  ASSUME DisplayInv, NEW w \in Workers, Display!PageHandles(w)
  PROVE  DisplayInv'
<1> DEFINE m == Head(toPage[w])
           c == [worker |-> w, frame |-> m.frame]
<1>1. /\ toPage[w] # <<>> /\ toPage' = [toPage EXCEPT ![w] = Tail(@)]
      /\ UNCHANGED <<worker, toWorker, local>>
      /\ \/ UNCHANGED scheduled /\ (w # worker \/ m.type = "status")
         \/ w = worker /\ m.type = "frame" /\ scheduled' = scheduled \cup {c}
  BY DEF Display!PageHandles
<1>2. toPage[w] \in Seq(Display!PageMessage)
  BY DEF DisplayInv, DisplayTypeOK
<1>3. m \in Display!PageMessage /\ Tail(toPage[w]) \in Seq(Display!PageMessage)
  BY <1>1, <1>2, HeadTailProperties
<1>4. m \in Posts <=> m.type = "frame"
  BY <1>3 DEF Posts
<1>5. DisplayTypeOK'
  BY <1>1, <1>3 DEF DisplayInv, DisplayTypeOK
<1>6. /\ toPage'[w] = Tail(toPage[w])
      /\ \A v \in Workers \ {w} : toPage'[v] = toPage[v]
  BY <1>1 DEF DisplayInv, DisplayTypeOK
<1> HIDE DEF m
<1>7. \A v \in Workers \ {w} : Good(v)'
  <2> SUFFICES ASSUME NEW v \in Workers \ {w} PROVE Good(v)'
    OBVIOUS
  <2>1. Posted(v)' = Posted(v) /\ Waits(v)' = Waits(v) /\ Answers(v)' = Answers(v)
    BY <1>1, <1>6 DEF Posted, Waits, Answers
  <2> QED
    BY <1>1, <2>1 DEF DisplayInv, Good
<1>8. /\ Posted(w) = {} => m \notin Posts /\ Posted(w)' = {}
      /\ One(Posted(w)) => IF m \in Posts THEN Posted(w)' = {} ELSE One(Posted(w)')
  BY <1>1, <1>2, <1>6, PlacesInTail DEF Posted, m
<1>9. Answers(w)' = Answers(w) /\ Places(toWorker[w], {"stop"})' = Places(toWorker[w], {"stop"})
  BY <1>1 DEF Answers
<1>10. Good(w)'
  <2>1. CASE w # worker
    <3>1. Waits(w)' = Waits(w)
      BY <1>1, <2>1 DEF Waits
    <3> QED
      BY <1>1, <1>8, <1>9, <2>1, <3>1 DEF DisplayInv, Good, Nothing
  <2>2. CASE w = worker /\ m.type = "status"
    <3>1. m \notin Posts /\ Waits(w)' = Waits(w)
      BY <1>1, <1>4, <2>2 DEF Waits
    <3> QED
      BY <1>1, <1>8, <1>9, <2>2, <3>1 DEF DisplayInv, Good, Nothing, OneThing
  <2>3. CASE w = worker /\ m.type = "frame" /\ scheduled' = scheduled \cup {c}
    <3>1. m \in Posts /\ Posted(w) # {}
      BY <1>4, <1>8, <2>3
    <3>2. /\ Awaits(local[w]) /\ local[w].task # "new"
          /\ One(Posted(w)) /\ Waits(w) = {} /\ Answers(w) = {}
          /\ Places(toWorker[w], {"stop"}) = {}
      BY <2>3, <3>1 DEF DisplayInv, Good, Nothing, OneThing, Awaits
    <3>3. Waits(w)' = {c}
      BY <2>3, <3>2 DEF Waits
    <3> QED
      BY <1>1, <1>8, <1>9, <2>3, <3>1, <3>2, <3>3 DEF Good, OneThing, One
  <2> QED
    BY <1>1, <2>1, <2>2, <2>3
<1> QED
  BY <1>5, <1>7, <1>10 DEF DisplayInv

\* An animation frame was requested for a worker of the page.
Scheduled == \A c \in scheduled : c.worker \in Workers

LEMMA PaintKeepsInv ==
  ASSUME DisplayInv, Scheduled,
         NEW c \in scheduled, Display!Paint(c)
  PROVE  DisplayInv'
<1>1. /\ scheduled' = scheduled \ {c}
      /\ UNCHANGED <<worker, toPage, local>>
      /\ \/ c.worker # worker /\ UNCHANGED toWorker
         \/ /\ c.worker = worker
            /\ toWorker' = [toWorker EXCEPT ![worker] = Append(@, "ready")]
  BY DEF Display!Paint, Display!Shows
<1>2. c.worker \in Workers
  BY DEF Scheduled
<1>3. \A v \in Workers : Posted(v)' = Posted(v)
  BY <1>1 DEF Posted
<1>4. CASE c.worker # worker
  <2>1. DisplayTypeOK'
    BY <1>1, <1>4 DEF DisplayInv, DisplayTypeOK
  <2>2. \A v \in Workers :
          /\ Answers(v)' = Answers(v)
          /\ Places(toWorker[v], {"stop"})' = Places(toWorker[v], {"stop"})
          /\ v = worker => Waits(v)' = Waits(v)
          /\ Waits(v) = {} => Waits(v)' = {}
    BY <1>1, <1>4 DEF Answers, Waits
  <2>3. \A v \in Workers : Good(v)'
    BY <1>1, <1>3, <2>2 DEF DisplayInv, Good, Nothing
  <2> QED
    BY <2>1, <2>3 DEF DisplayInv
<1>5. CASE /\ c.worker = worker
           /\ toWorker' = [toWorker EXCEPT ![worker] = Append(@, "ready")]
  <2>1. toWorker[worker] \in Seq(Commands) /\ "ready" \in Commands
    BY <1>2, <1>5 DEF DisplayInv, DisplayTypeOK, Commands
  <2>2. /\ Append(toWorker[worker], "ready") \in Seq(Commands)
        /\ Append(toWorker[worker], "ready") = toWorker[worker] \o <<"ready">>
        /\ <<"ready">> \in Seq(Commands) /\ Places(<<"ready">>, {"stop"}) = {}
        /\ Len(<<"ready">>) = 1 /\ <<"ready">>[1] \in {"ready"}
    BY <2>1 DEF Places
  <2>3. /\ toWorker' \in [Workers -> Seq(Commands)]
        /\ toWorker'[worker] = Append(toWorker[worker], "ready")
        /\ \A v \in Workers \ {worker} : toWorker'[v] = toWorker[v]
    BY <1>2, <1>5, <2>2 DEF DisplayInv, DisplayTypeOK
  <2>4. DisplayTypeOK'
    BY <1>1, <2>3 DEF DisplayInv, DisplayTypeOK
  <2>5. \A v \in Workers \ {worker} : Good(v)'
    <3>1. \A v \in Workers \ {worker} : Answers(v)' = Answers(v) /\ Waits(v)' = Waits(v)
      BY <1>1, <1>5, <2>3 DEF Answers, Waits
    <3> QED
      BY <1>1, <1>3, <3>1 DEF DisplayInv, Good
  <2>6. /\ Awaits(local[worker]) /\ local[worker].task # "new"
        /\ Posted(worker) = {} /\ One(Waits(worker)) /\ Answers(worker) = {}
        /\ Places(toWorker[worker], {"stop"}) = {}
    <3>1. c \in Waits(worker)
      BY <1>5 DEF Waits
    <3> QED
      BY <1>2, <1>5, <3>1 DEF DisplayInv, Good, Nothing, OneThing, Awaits
  <2>7. Waits(worker)' = {}
    BY <1>1, <1>5, <2>6 DEF Waits, One
  <2>8. One(Places(toWorker'[worker], {"ready"})) /\ Places(toWorker'[worker], {"stop"}) = {}
    <3> DEFINE q == toWorker[worker]
    <3>1. /\ q \in Seq(Commands) /\ Places(q, {"ready"}) = {} /\ Places(q, {"stop"}) = {}
          /\ toWorker'[worker] = q \o <<"ready">>
      BY <2>1, <2>2, <2>3, <2>6 DEF Answers
    <3> HIDE DEF q
    <3>2. One(Places(q \o <<"ready">>, {"ready"}))
      BY <2>2, <3>1, PlacesInConcat
    <3>3. Places(q \o <<"ready">>, {"stop"}) = {}
      <4>1. "ready" \in Commands /\ "ready" \notin {"stop"}
        BY DEF Commands
      <4> QED
        BY <3>1, <4>1, OtherMessage
    <3> QED
      BY <3>1, <3>2, <3>3
  <2>9. Good(worker)'
    BY <1>1, <1>2, <1>3, <1>5, <2>6, <2>7, <2>8 DEF Good, OneThing, Answers
  <2> QED
    BY <1>1, <2>4, <2>5, <2>9 DEF DisplayInv
<1> QED
  BY <1>1, <1>4, <1>5

\* A page that is left has no worker; one that is restored has a new one.
LEMMA PageEventsKeepInv ==
  ASSUME DisplayInv, Display!PageHide \/ \E w \in Workers : Display!PageShow(w)
  PROVE  DisplayInv'
<1>1. CASE Display!PageHide
  <2>1. /\ worker # None /\ worker' = None /\ scheduled' = scheduled \ {animation}
        /\ toWorker' = [toWorker EXCEPT ![worker] = Append(@, "stop")]
        /\ UNCHANGED <<toPage, local>>
    BY <1>1 DEF Display!PageHide
  <2>2. worker \in Workers /\ toWorker[worker] \in Seq(Commands) /\ "stop" \in Commands
    BY <2>1 DEF DisplayInv, DisplayTypeOK, Commands
  <2>3. /\ Append(toWorker[worker], "stop") \in Seq(Commands)
        /\ Append(toWorker[worker], "stop") = toWorker[worker] \o <<"stop">>
        /\ <<"stop">> \in Seq(Commands) /\ Places(<<"stop">>, {"ready"}) = {}
    BY <2>2 DEF Places
  <2>4. /\ toWorker' \in [Workers -> Seq(Commands)]
        /\ toWorker'[worker] = toWorker[worker] \o <<"stop">>
        /\ \A v \in Workers \ {worker} : toWorker'[v] = toWorker[v]
    BY <2>1, <2>2, <2>3 DEF DisplayInv, DisplayTypeOK
  <2>5. DisplayTypeOK'
    BY <2>1, <2>4 DEF DisplayInv, DisplayTypeOK
  <2>6. ASSUME NEW v \in Workers PROVE Good(v)'
    <3>1. Answers(v)' = Answers(v)
      <4>1. CASE v = worker
        <5>1. "stop" \notin {"ready"}
          OBVIOUS
        <5>2. Places(toWorker[worker] \o <<"stop">>, {"ready"})
                = Places(toWorker[worker], {"ready"})
          BY <2>2, <5>1, OtherMessage
        <5> QED
          BY <2>4, <4>1, <5>2 DEF Answers
      <4>2. CASE v # worker
        BY <2>4, <4>2 DEF Answers
      <4> QED
        BY <4>1, <4>2
    <3>2. Posted(v)' = Posted(v) /\ (Waits(v) = {} => Waits(v)' = {})
      BY <2>1 DEF Posted, Waits
    <3>3. v # worker'
      BY <2>1, WebAssumption DEF WebAssumption
    <3> QED
      BY <2>1, <3>1, <3>2, <3>3 DEF DisplayInv, Good, Nothing
  <2> QED
    BY <2>5, <2>6 DEF DisplayInv
<1>2. ASSUME NEW w \in Workers, Display!PageShow(w) PROVE DisplayInv'
  <2>1. /\ worker = None /\ worker' = w
        /\ local[w].task = "new" /\ toWorker[w] = <<>>
        /\ toWorker' = [toWorker EXCEPT ![w] = <<"start">>]
        /\ UNCHANGED <<scheduled, toPage, local>>
    BY <1>2 DEF Display!PageShow
  <2>2. <<"start">> \in Seq(Commands)
    BY DEF Commands
  <2>3. /\ toWorker' \in [Workers -> Seq(Commands)]
        /\ toWorker'[w] = <<"start">>
        /\ \A v \in Workers \ {w} : toWorker'[v] = toWorker[v]
    BY <2>1, <2>2 DEF DisplayInv, DisplayTypeOK
  <2>4. DisplayTypeOK'
    BY <2>1, <2>3 DEF DisplayInv, DisplayTypeOK
  <2>5. \A v \in Workers : Posted(v)' = Posted(v) /\ Waits(v)' = Waits(v)
    BY <2>1 DEF Posted, Waits
  <2>6. \A v \in Workers \ {w} : Good(v)'
    BY <2>1, <2>3, <2>5 DEF DisplayInv, Good, Answers
  <2>7. Good(w)'
    <3>1. Places(toWorker'[w], {"stop"}) = {} /\ Answers(w)' = {}
      BY <2>3 DEF Places, Answers
    <3> QED
      BY <2>1, <2>5, <3>1 DEF DisplayInv, Good, Nothing, Awaits
  <2> QED
    BY <2>4, <2>6, <2>7 DEF DisplayInv
<1> QED
  BY <1>1, <1>2

LEMMA StepDisplay ==
  DisplayInv /\ Scheduled /\ (Display!Next \/ UNCHANGED display) => DisplayInv'
<1> SUFFICES ASSUME DisplayInv, Scheduled, Display!Next \/ UNCHANGED display PROVE DisplayInv'
  OBVIOUS
<1>1. CASE UNCHANGED display
  BY <1>1 DEF display, DisplayInv, DisplayTypeOK, Good, Posted, Waits, Answers
<1>2. CASE Display!Next
  BY <1>2, WorkerTaskKeepsInv, SocketEventKeepsInv, PageHandlesKeepsInv, PaintKeepsInv,
     PageEventsKeepInv DEF Display!Next
<1> QED
  BY <1>1, <1>2

LEMMA StepScheduled ==
  DisplayInv /\ Scheduled /\ (Display!Next \/ UNCHANGED display) => Scheduled'
<1> SUFFICES ASSUME DisplayInv, Scheduled, Display!Next \/ UNCHANGED display PROVE Scheduled'
  OBVIOUS
<1>1. \/ scheduled' \subseteq scheduled
      \/ \E w \in Workers : Display!PageHandles(w)
  BY DEF Display!Next, Display!WorkerTask, Display!WorkerStarts, Display!WorkerIsReady,
         Display!WorkerStops, Display!SocketEvent, Display!SocketOpens, Display!SocketFails,
         Display!SocketCloses, Display!ValidMessage, Display!InvalidMessage,
         Display!publishLatest, Display!Leaves, Display!page, Display!PageShow,
         Display!Paint, Display!PageHide, display
<1>2. ASSUME NEW w \in Workers, Display!PageHandles(w) PROVE Scheduled'
  <2>1. \/ UNCHANGED scheduled
        \/ scheduled' = scheduled \cup {[worker |-> w, frame |-> Head(toPage[w]).frame]}
    BY <1>2 DEF Display!PageHandles
  <2> QED
    BY <2>1 DEF Scheduled
<1>3. CASE scheduled' \subseteq scheduled
  BY <1>3 DEF Scheduled
<1> QED
  BY <1>1, <1>2, <1>3

\* What is under way of the page's worker, counted as the property counts it.
LEMMA CountUnderWay ==
  ASSUME DisplayInv, worker # None
  PROVE  Display!InFlight(worker) =
           Cardinality(Posted(worker)) + Cardinality(Waits(worker))
             + Cardinality(Answers(worker))
<1>1. worker \in Workers
  BY DEF DisplayInv, DisplayTypeOK
<1>2. /\ toPage[worker] \in Seq(Display!PageMessage)
      /\ toWorker[worker] \in Seq(Commands)
  BY <1>1 DEF DisplayInv, DisplayTypeOK
<1>3. {k \in DOMAIN toPage[worker] : toPage[worker][k].type = "frame"} = Posted(worker)
  BY <1>2 DEF Posted, Places, Posts
<1>4. {k \in DOMAIN toWorker[worker] : toWorker[worker][k] = "ready"} = Answers(worker)
  BY <1>2 DEF Answers, Places
<1>5. Display!InFlight(worker) =
        Display!Cardinality({k \in DOMAIN toPage[worker] : toPage[worker][k].type = "frame"})
        + Display!Cardinality({c \in scheduled : c.worker = worker})
        + Display!Cardinality({k \in DOMAIN toWorker[worker] : toWorker[worker][k] = "ready"})
  BY DEF Display!InFlight, Display!CountOf
<1> QED
  BY <1>3, <1>4, <1>5, SameCardinality DEF Waits

LEMMA DisplayTells == DisplayInv => OneFrameInFlight
<1> SUFFICES ASSUME DisplayInv, worker # None
             PROVE  Display!InFlight(worker) = IF Awaits(local[worker]) THEN 1 ELSE 0
  BY DEF OneFrameInFlight, Display!OneFrameInFlight, Awaits
<1>1. worker \in Workers
  BY DEF DisplayInv, DisplayTypeOK
<1>2. Cardinality({}) = 0 /\ \A S : One(S) => Cardinality(S) = 1
  BY FS_EmptySet, FS_Singleton DEF One
<1>3. CASE Awaits(local[worker])
  <2>1. OneThing(Posted(worker), Waits(worker), Answers(worker))
    BY <1>1, <1>3 DEF DisplayInv, Good
  <2> QED
    BY <1>2, <1>3, <2>1, CountUnderWay DEF OneThing
<1>4. CASE ~Awaits(local[worker])
  <2>1. Nothing(Posted(worker), Waits(worker), Answers(worker))
    BY <1>1, <1>4 DEF DisplayInv, Good
  <2> QED
    BY <1>2, <1>4, <2>1, CountUnderWay DEF Nothing
<1> QED
  BY <1>3, <1>4

\* Back-pressure of the display pages: for any number of workers and frames,
\* however the page is left and restored.
THEOREM OneFrameInFlightHolds == Spec => []OneFrameInFlight
<1> DEFINE IInv == DisplayInv /\ Scheduled
<1>1. Init => IInv
  BY InitDisplay DEF Init, Display!Init, Scheduled
<1>2. IInv /\ [Next]_vars => IInv'
  <2>1. [Next]_vars => Display!Next \/ UNCHANGED display
    BY DEF Next, vars, DisplayRuns, StatusPageRuns, GalleryRuns, UploadRuns
  <2> QED
    BY <2>1, StepDisplay, StepScheduled
<1>3. IInv => OneFrameInFlight
  BY DisplayTells
<1> QED
  BY <1>1, <1>2, <1>3, PTL DEF Spec
=============================================================================
