------------------------ MODULE SampleRoundTrip_proofs -------------------------
(***************************************************************************)
(* Proofs about SampleRoundTrip: for any buffer, any times, any failed     *)
(* writes and any moment of the process's death, what the capture sample   *)
(* records and releases; and for any file and any sizes of reads, what the *)
(* reader gets out of the recording.                                       *)
(***************************************************************************)
EXTENDS SampleRoundTrip, SequenceTheorems, WellFoundedInduction, TLAPS

-------------------------------------------------------------------------------
(* Numbers and sequences. *)

LEMMA Sizes ==
  /\ InternalBufSize \in Nat \ {0} /\ MaxFrames \in Nat
  /\ BlockSamples \in Nat /\ BlockSamples <= InternalBufSize
  /\ nBlockAlign = 2
BY DeviceAssumption DEF BlockSamples, nBlockAlign

LEMMA EmptyFacts == << >> \in Seq(Nat) /\ Len(<< >>) = 0
BY EmptySeq

LEMMA MinOfTwo ==
  ASSUME NEW a \in Int, NEW b \in Int
  PROVE  Min({a, b}) = IF a <= b THEN a ELSE b
<1> DEFINE m == IF a <= b THEN a ELSE b
           x == Min({a, b})
<1>1. m \in {a, b} /\ \A y \in {a, b} : m =< y
  OBVIOUS
<1>2. x \in {a, b} /\ \A y \in {a, b} : x =< y
  <2> HIDE DEF m
  <2> QED
    BY <1>1, Zenon DEF Min
<1>3. (x = a \/ x = b) /\ x <= a /\ x <= b
  BY <1>2
<1>4. x = m
  <2> HIDE DEF x
  <2> QED
    BY <1>3
<1> QED
  BY <1>4

LEMMA MinOfNats ==
  ASSUME NEW S, S \subseteq Nat, S # {}
  PROVE  \E x \in S : \A y \in S : x <= y
<1> DEFINE R == OpToRel(<, Nat)
<1>1. \A x, y \in Nat : <<y, x>> \in R <=> y < x
  BY DEF OpToRel
<1>2. IsWellFoundedOn(R, Nat)
  BY NatLessThanWellFounded
<1> HIDE DEF R
<1>3. PICK x \in S : \A y \in S : <<y, x>> \notin R
  BY <1>2, WFMin
<1>4. ASSUME NEW y \in S PROVE x <= y
  <2>1. x \in Nat /\ y \in Nat /\ ~(y < x)
    BY <1>1, <1>3
  <2> QED
    BY <2>1
<1> QED
  BY <1>4

-------------------------------------------------------------------------------
(* What the calls of the device and of stdio do. *)

(* The variables that both programs do arithmetic on. *)
Types ==
  /\ CollectorTypeOK
  /\ iSamplesAvailable \in 0 .. InternalBufSize
  /\ Buffer \in [1 .. BlockSamples -> Nat]
  /\ iDataSize \in Nat /\ samples \in Seq(Nat)
  /\ disk \in [riff : Nat \cup {NoHeader}, data : Nat \cup {NoHeader}, samples : Nat]
  /\ {now, dwStartTime} \subseteq 0 .. DwordRange - 1
  /\ polled \in BOOLEAN
  /\ held \subseteq Resources

LEMMA DeliverFacts ==
  ASSUME CollectorTypeOK, Deliver
  PROVE  /\ produced' = produced + 1 /\ produced < MaxFrames
         /\ device = "capturing" /\ device' = device
         /\ CollectorTypeOK'
         /\ \/ Len(ring') = Len(ring) + 1 /\ \A i \in 1 .. Len(ring) : ring'[i] = ring[i]
            \/ ring' = ring
<1>1. ring \in Seq(Nat) /\ produced + 1 \in Nat /\ lost + 1 \in Nat /\ Len(ring) \in Nat
  BY LenProperties DEF CollectorTypeOK
<1>2. /\ Append(ring, produced + 1) \in Seq(Nat)
      /\ Len(Append(ring, produced + 1)) = Len(ring) + 1
      /\ \A i \in 1 .. Len(ring) : Append(ring, produced + 1)[i] = ring[i]
  BY <1>1, AppendProperties
<1>3. CASE Len(ring) < InternalBufSize /\ ring' = Append(ring, produced + 1) /\ UNCHANGED lost
  BY <1>1, <1>2, <1>3, Sizes DEF Deliver, CollectorTypeOK
<1>4. CASE Len(ring) = InternalBufSize /\ lost' = lost + 1 /\ UNCHANGED ring
  BY <1>1, <1>4 DEF Deliver, CollectorTypeOK
<1> QED
  BY <1>3, <1>4 DEF Deliver

(* A request that the ring and the block buffer cover moves the oldest n    *)
(* frames into the buffer, and the first k of them behind the file's.       *)
TakeOf(n, k) ==
  /\ k \in 0 .. n /\ (k = n \/ WriteMayFail)
  /\ Len(ring') = Len(ring) - n
  /\ \A i \in 1 .. Len(ring) - n : ring'[i] = ring[n + i]
  /\ Len(samples') = Len(samples) + k
  /\ \A i \in 1 .. Len(samples) : samples'[i] = samples[i]
  /\ \A i \in 1 .. k : samples'[Len(samples) + i] = ring[i]
  /\ disk' \in SpilledTo(Len(samples) + k)

LEMMA TakeFacts ==
  ASSUME Types, NEW n \in Nat, n <= Len(ring), n <= BlockSamples, Take(n)
  PROVE  /\ ring' \in Seq(Nat) /\ samples' \in Seq(Nat)
         /\ Buffer' \in [1 .. BlockSamples -> Nat]
         /\ \E k : TakeOf(n, k)
         /\ iDataSize' = iDataSize + n * nBlockAlign
         /\ UNCHANGED <<device, produced, lost, pFile>>
<1> USE Sizes DEF Types, CollectorTypeOK
<1>1. /\ Len(ring) \in Nat /\ \A i \in 1 .. Len(ring) : ring[i] \in Nat
      /\ Len(samples) \in Nat /\ \A i \in 1 .. Len(samples) : samples[i] \in Nat
  BY LenProperties
<1>2. FramesHandedOver(n) = n
  BY DEF FramesHandedOver
<1>3. ring' = SubSeq(ring, n + 1, Len(ring))
  BY <1>2 DEF Take, alcCaptureSamples
<1>4. /\ ring' \in Seq(Nat)
      /\ Len(ring') = Len(ring) - n
      /\ \A i \in 1 .. Len(ring) - n : ring'[i] = ring[n + i]
  <2>1. \A i \in n + 1 .. Len(ring) : ring[i] \in Nat
    BY <1>1
  <2> DEFINE r == SubSeq(ring, n + 1, Len(ring))
  <2>2. /\ r \in Seq(Nat)
        /\ Len(r) = IF n + 1 <= Len(ring) THEN Len(ring) - (n + 1) + 1 ELSE 0
        /\ \A i \in 1 .. Len(ring) - (n + 1) + 1 : r[i] = ring[n + 1 + i - 1]
    BY <1>1, <2>1, SubSeqProperties
  <2> HIDE DEF r
  <2>3. Len(r) = Len(ring) - n
    BY <1>1, <2>2
  <2>4. ASSUME NEW i \in 1 .. Len(ring) - n PROVE r[i] = ring[n + i]
    <3>1. i \in 1 .. Len(ring) - (n + 1) + 1 /\ n + 1 + i - 1 = n + i
      BY <1>1
    <3> QED
      BY <2>2, <3>1
  <2> QED
    BY <1>3, <2>2, <2>3, <2>4 DEF r
<1>5. Buffer' = [i \in 1 .. BlockSamples |-> IF i <= n THEN ring[i] ELSE Buffer[i]]
  BY <1>2 DEF Take, BufferAfter
<1>6. /\ Buffer' \in [1 .. BlockSamples -> Nat]
      /\ \A i \in 1 .. n : Buffer'[i] = ring[i] /\ Buffer'[i] \in Nat
  BY <1>1, <1>5
<1>7. PICK k \in 0 .. n :
        /\ k = n \/ WriteMayFail
        /\ samples' = samples \o SubSeq(Buffer', 1, k)
        /\ disk' \in SpilledTo(Len(samples) + k)
  BY DEF Take
<1>8. /\ SubSeq(Buffer', 1, k) \in Seq(Nat)
      /\ Len(SubSeq(Buffer', 1, k)) = k
      /\ \A i \in 1 .. k : SubSeq(Buffer', 1, k)[i] = ring[i]
  <2>1. \A i \in 1 .. k : Buffer'[i] \in Nat /\ Buffer'[i] = ring[i]
    BY <1>6
  <2>2. /\ SubSeq(Buffer', 1, k) \in Seq(Nat)
        /\ Len(SubSeq(Buffer', 1, k)) = IF 1 <= k THEN k - 1 + 1 ELSE 0
        /\ \A i \in 1 .. k - 1 + 1 : SubSeq(Buffer', 1, k)[i] = Buffer'[1 + i - 1]
    BY <2>1, SubSeqProperties
  <2> QED
    BY <2>1, <2>2
<1> DEFINE b == SubSeq(Buffer', 1, k)
<1> HIDE DEF b
<1>9. /\ samples \o b \in Seq(Nat)
      /\ Len(samples \o b) = Len(samples) + k
      /\ \A i \in 1 .. Len(samples) + k :
           (samples \o b)[i] = IF i <= Len(samples) THEN samples[i] ELSE b[i - Len(samples)]
  <2>1. samples \in Seq(Nat) /\ b \in Seq(Nat) /\ Len(b) = k
    BY <1>8 DEF b
  <2> QED
    BY <2>1, ConcatProperties
<1>10. /\ samples' \in Seq(Nat)
       /\ Len(samples') = Len(samples) + k
       /\ \A i \in 1 .. Len(samples) : samples'[i] = samples[i]
       /\ \A i \in 1 .. k : samples'[Len(samples) + i] = ring[i]
  <2>1. samples' = samples \o b
    BY <1>7 DEF b
  <2>2. \A i \in 1 .. k : b[i] = ring[i]
    BY <1>8 DEF b
  <2>3. \A i \in 1 .. Len(samples) : samples'[i] = samples[i]
    BY <1>1, <1>9, <2>1
  <2>4. ASSUME NEW i \in 1 .. k PROVE samples'[Len(samples) + i] = ring[i]
    <3>1. /\ Len(samples) + i \in 1 .. Len(samples) + k /\ ~(Len(samples) + i <= Len(samples))
          /\ (Len(samples) + i) - Len(samples) = i
      BY <1>1
    <3> QED
      BY <1>9, <2>1, <2>2, <3>1
  <2> QED
    BY <1>9, <2>1, <2>3, <2>4
<1>11. TakeOf(n, k)
  BY <1>4, <1>7, <1>10 DEF TakeOf
<1> QED
  BY <1>4, <1>6, <1>10, <1>11 DEF Take, alcCaptureSamples

-------------------------------------------------------------------------------
(* The sample's invariant. *)

SetUpCalls == {"ALFWInit", "ALFWInitOpenAL", "extension", "open"}
FillInCalls == {"riff", "data", "fclose"}
TakeDownCalls == {"ALFWShutdownOpenAL", "ALFWShutdown", "done"}

(* What is acquired at each call. *)
HeldInv ==
  /\ pc \in Running \cup Ended
  /\ held \subseteq Resources
  /\ pc = "ALFWInit" => held = {}
  /\ pc = "ALFWInitOpenAL" => held \subseteq {"loader"}
  /\ pc \in Running \ {"ALFWShutdown"} => held \subseteq {"loader", "device", "context"}
  /\ pc = "ALFWShutdown" => held \subseteq {"loader", "list"}
  /\ pc = "done" => held \subseteq {"list"}

DeviceInv ==
  /\ pc \in SetUpCalls => device = "null"
  /\ pc \in {"fopen", "start"} => device = "opened"
  /\ pc \in InLoop \cup {"stop"} => device = "capturing"
  /\ pc \in {"drain", "close"} \cup FillInCalls => device = "stopped"
  /\ pc \in TakeDownCalls => device \in {"null", "closed"}

FileInv ==
  /\ pFile \in {"unopened", "open", "closed"}
  /\ pc \in SetUpCalls \cup {"fopen", "crashed"} => pFile = "unopened"
  /\ pc \in {"start", "stop", "drain"} \cup InLoop \cup FillInCalls => pFile = "open"
  /\ pc \in {"close"} \cup TakeDownCalls => pFile # "open"

(* What the program last learnt about the ring still holds, or has been     *)
(* overtaken by more frames; behind the draining the ring is empty.         *)
RingInv ==
  /\ pc \in SetUpCalls \cup {"fopen", "start"} => ring = << >>
  /\ pc = "take" => Len(ring) >= BlockSamples
  /\ pc = "drain" => iSamplesAvailable = Len(ring)
  /\ pc \in FillInCalls \/ pFile = "closed" => ring = << >>

ControlInv == HeldInv /\ DeviceInv /\ FileInv /\ RingInv

(* The lengths for the header: nothing is asked for that was not delivered, *)
(* and no more is stored than was asked for.                                *)
CountInv ==
  /\ produced <= MaxFrames
  /\ iDataSize + nBlockAlign * Len(ring) <= nBlockAlign * produced
  /\ nBlockAlign * Len(samples) <= iDataSize

(* The file as a killed process leaves it. *)
DiskInv ==
  /\ disk.samples <= Len(samples)
  /\ disk.riff = NoHeader => disk.data = NoHeader /\ disk.samples = 0
  /\ disk.riff # NoHeader => /\ disk.riff \in {0, iDataSize + RiffOverhead}
                             /\ disk.data \in {0, iDataSize}
  /\ pc \in SetUpCalls \cup {"fopen", "start", "stop", "drain", "riff"} \cup InLoop =>
       disk.riff = disk.data /\ disk.riff \in {NoHeader, 0}
  /\ pc \in {"data", "fclose"} => disk.riff # NoHeader /\ disk.data = 0

SampleInv == Types /\ ControlInv /\ CountInv /\ DiskInv

LEMMA SampleInitInv == SampleInit => SampleInv
<1> SUFFICES ASSUME SampleInit PROVE SampleInv
  OBVIOUS
<1> USE Sizes, EmptyFacts, SampleAssumption DEF SampleInit, CollectorInit, SessionInit
<1>1. Types
  BY DEF Types, CollectorTypeOK, DeviceStates, NoHeader
<1>2. ControlInv
  BY DEF ControlInv, HeldInv, DeviceInv, FileInv, RingInv, Running, Ended, InLoop, SetUpCalls,
     FillInCalls, TakeDownCalls
<1>3. CountInv
  BY DEF CountInv
<1>4. DiskInv
  BY DEF DiskInv, NoHeader, FillInCalls
<1> QED
  BY <1>1, <1>2, <1>3, <1>4 DEF SampleInv

(* The requests of both loops are covered. *)
LEMMA RequestFacts ==
  ASSUME SampleInv
  PROVE  /\ TakeBlock => BlockSamples <= Len(ring)
         /\ Drain => /\ DrainRequest \in Nat
                     /\ DrainRequest <= Len(ring) /\ DrainRequest <= BlockSamples
                     /\ iSamplesAvailable = Len(ring)
BY Sizes DEF SampleInv, Types, ControlInv, RingInv, TakeBlock, Drain, DrainRequest, goto

LEMMA TypesStep ==
  ASSUME SampleInv, Sample \/ Surroundings
  PROVE  Types'
<1> USE Sizes, SampleAssumption DEF SampleInv, Types, sampleVars, collectorVars, loopVars, fileVars, timeVars, goto
<1>1. CASE SetUp
  <2>1. held' \in {held, held \cup {"loader"}, held \cup {"device", "context"}, held \cup {"list"}}
    BY <1>1 DEF SetUp, ALFWInit, ALFWInitOpenALSucceeds, ALFWInitOpenALFails
  <2>2. held' \subseteq Resources
    BY <2>1 DEF Resources
  <2>3. UNCHANGED <<collectorVars, loopVars, fileVars, timeVars>>
    BY <1>1 DEF SetUp
  <2> QED
    BY <2>2, <2>3 DEF CollectorTypeOK
<1>2. CASE OpenCapture
  <2>1. UNCHANGED <<held, loopVars, fileVars, timeVars>>
    BY <1>2 DEF OpenCapture
  <2>2. \/ UNCHANGED collectorVars
        \/ device' = "opened" /\ ring' = << >> /\ UNCHANGED <<produced, lost>>
    BY <1>2 DEF OpenCapture, alcCaptureOpenDevice
  <2>3. CollectorTypeOK'
    <3>1. CASE UNCHANGED collectorVars
      BY <3>1 DEF CollectorTypeOK
    <3>2. CASE device' = "opened" /\ ring' = << >> /\ UNCHANGED <<produced, lost>>
      <4>1. ring' \in Seq(Nat) /\ Len(ring') = 0
        BY <3>2, EmptyFacts, Zenon
      <4> QED
        BY <3>2, <4>1 DEF CollectorTypeOK, DeviceStates
    <3> QED
      BY <2>2, <3>1, <3>2
  <2> QED
    BY <2>1, <2>3
<1>3. CASE OpenFile
  BY <1>3 DEF OpenFile, SpilledTo, CollectorTypeOK
<1>4. CASE Start
  BY <1>4 DEF Start, alcCaptureStart, CollectorTypeOK, DeviceStates
<1>5. CASE CheckLoop
  BY <1>5 DEF CheckLoop, CollectorTypeOK
<1>6. CASE Query
  BY <1>6, LenProperties DEF Query, CaptureSamplesWaiting, CollectorTypeOK
<1>7. CASE TakeBlock \/ Drain
  <2>1. PICK n \in Nat : /\ Take(n) /\ n <= Len(ring) /\ n <= BlockSamples
                         /\ iSamplesAvailable' \in {iSamplesAvailable, iSamplesAvailable - n}
                         /\ Drain => iSamplesAvailable = Len(ring)
                         /\ TakeBlock => iSamplesAvailable' = iSamplesAvailable
                         /\ UNCHANGED <<held, timeVars>>
    BY <1>7, RequestFacts DEF TakeBlock, Drain
  <2>2. /\ ring' \in Seq(Nat) /\ samples' \in Seq(Nat)
        /\ Buffer' \in [1 .. BlockSamples -> Nat]
        /\ \E k : TakeOf(n, k)
        /\ iDataSize' = iDataSize + n * nBlockAlign
        /\ UNCHANGED <<device, produced, lost, pFile>>
    BY <2>1, TakeFacts
  <2>3. Len(ring) \in Nat /\ Len(samples) \in Nat
    BY LenProperties DEF CollectorTypeOK
  <2>4. CollectorTypeOK'
    BY <2>1, <2>2, <2>3 DEF CollectorTypeOK, TakeOf
  <2>5. iSamplesAvailable' \in 0 .. InternalBufSize
    BY <1>7, <2>1, <2>3
  <2>6. disk' \in [riff : Nat \cup {NoHeader}, data : Nat \cup {NoHeader}, samples : Nat]
    BY <2>2, <2>3 DEF TakeOf, SpilledTo
  <2>7. iDataSize' \in Nat
    BY <2>2
  <2> QED
    BY <2>1, <2>2, <2>4, <2>5, <2>6, <2>7
<1>8. CASE Stop
  BY <1>8, LenProperties DEF Stop, alcCaptureStop, CaptureSamplesWaiting, CollectorTypeOK, DeviceStates
<1>9. CASE DrainEnds
  BY <1>9 DEF DrainEnds, CollectorTypeOK
<1>10. CASE FillIn
  <2>1. disk' \in [riff : Nat \cup {NoHeader}, data : Nat \cup {NoHeader}, samples : Nat]
    <3>1. CASE disk' = [riff |-> 0, data |-> 0, samples |-> Len(samples)]
      BY <3>1, LenProperties
    <3>2. CASE disk' = [disk EXCEPT !.riff = iDataSize + RiffOverhead]
      <4>1. iDataSize + RiffOverhead \in Nat
        BY DEF RiffOverhead
      <4> QED
        BY <3>2, <4>1
    <3>3. CASE disk' = [disk EXCEPT !.data = iDataSize]
      BY <3>3
    <3>4. CASE disk' = disk
      BY <3>4
    <3> QED
      BY <1>10, <3>1, <3>2, <3>3, <3>4 DEF FillIn, Rewritten
  <2> QED
    BY <1>10, <2>1 DEF FillIn, CollectorTypeOK
<1>11. CASE TakeDown
  BY <1>11 DEF TakeDown, alcCaptureCloseDevice, ALFWShutdownOpenAL, ALFWShutdown, CollectorTypeOK, DeviceStates
<1>12. CASE DeliverFrame
  BY <1>12, DeliverFacts DEF DeliverFrame
<1>13. CASE Tick
  <2>1. now' \in 0 .. DwordRange - 1
    BY <1>13 DEF Tick, Dword
  <2> QED
    BY <1>13, <2>1 DEF Tick, CollectorTypeOK
<1>14. CASE Kill
  BY <1>14 DEF Kill, CollectorTypeOK
<1> QED
  BY <1>1, <1>2, <1>3, <1>4, <1>5, <1>6, <1>7, <1>8, <1>9, <1>10, <1>11, <1>12, <1>13, <1>14
  DEF Sample, Surroundings

LEMMA HeldStep ==
  ASSUME SampleInv, Sample \/ Surroundings
  PROVE  HeldInv'
<1> USE DEF SampleInv, ControlInv, HeldInv, goto, Running, Ended, Resources
<1>1. CASE SetUp
  BY <1>1 DEF SetUp, ALFWInit, ALFWInitOpenALSucceeds, ALFWInitOpenALFails
<1>2. CASE held' = held /\ (pc' = pc \/ pc' \in {"killed", "crashed"})
  BY <1>2
<1>3. CASE held' = held /\ pc \in Running \ {"ALFWInit", "ALFWInitOpenAL", "ALFWShutdown"}
           /\ pc' \in Running \ {"ALFWInit", "ALFWInitOpenAL", "ALFWShutdown"}
  BY <1>3
<1>4. CASE TakeDown
  BY <1>4 DEF TakeDown, ALFWShutdownOpenAL, ALFWShutdown
<1> QED
  BY <1>1, <1>2, <1>3, <1>4
  DEF Sample, Surroundings, OpenCapture, OpenFile, Start, CheckLoop, Query, TakeBlock, Stop,
      Drain, DrainEnds, FillIn, DeliverFrame, Tick, Kill

LEMMA DeviceStep ==
  ASSUME SampleInv, Sample \/ Surroundings
  PROVE  DeviceInv'
<1> USE DEF SampleInv, ControlInv, HeldInv, DeviceInv, goto, Running, Ended, InLoop,
            SetUpCalls, FillInCalls, TakeDownCalls, collectorVars
<1>1. CASE SetUp
  BY <1>1 DEF SetUp
<1>2. CASE OpenCapture
  BY <1>2 DEF OpenCapture, alcCaptureOpenDevice
<1>3. CASE OpenFile
  BY <1>3 DEF OpenFile
<1>4. CASE Start
  BY <1>4 DEF Start, alcCaptureStart
<1>5. CASE CheckLoop \/ Query
  BY <1>5 DEF CheckLoop, Query
<1>6. CASE TakeBlock \/ Drain
  BY <1>6 DEF TakeBlock, Drain, Take, alcCaptureSamples
<1>7. CASE Stop
  BY <1>7 DEF Stop, alcCaptureStop
<1>8. CASE DrainEnds \/ FillIn
  BY <1>8 DEF DrainEnds, FillIn
<1>9. CASE TakeDown
  BY <1>9 DEF TakeDown, alcCaptureCloseDevice
<1>10. CASE DeliverFrame \/ Tick \/ Kill
  BY <1>10 DEF DeliverFrame, Deliver, Tick, Kill
<1> QED
  BY <1>1, <1>2, <1>3, <1>4, <1>5, <1>6, <1>7, <1>8, <1>9, <1>10 DEF Sample, Surroundings

LEMMA FileStep ==
  ASSUME SampleInv, Sample \/ Surroundings
  PROVE  FileInv'
<1> USE DEF SampleInv, ControlInv, HeldInv, FileInv, goto, Running, Ended, InLoop,
            SetUpCalls, FillInCalls, TakeDownCalls, fileVars
<1>1. CASE SetUp \/ OpenCapture
  BY <1>1 DEF SetUp, OpenCapture
<1>2. CASE OpenFile
  BY <1>2 DEF OpenFile
<1>3. CASE Start \/ CheckLoop \/ Query
  BY <1>3 DEF Start, CheckLoop, Query
<1>4. CASE TakeBlock \/ Drain
  BY <1>4 DEF TakeBlock, Drain, Take
<1>5. CASE Stop \/ DrainEnds
  BY <1>5 DEF Stop, DrainEnds
<1>6. CASE FillIn
  BY <1>6 DEF FillIn
<1>7. CASE TakeDown
  BY <1>7 DEF TakeDown
<1>8. CASE DeliverFrame \/ Tick \/ Kill
  BY <1>8 DEF DeliverFrame, Tick, Kill
<1> QED
  BY <1>1, <1>2, <1>3, <1>4, <1>5, <1>6, <1>7, <1>8 DEF Sample, Surroundings

LEMMA RingStep ==
  ASSUME SampleInv, Sample \/ Surroundings
  PROVE  RingInv'
<1> USE Sizes DEF SampleInv, ControlInv, HeldInv, FileInv, RingInv, goto, Running, Ended, InLoop,
            SetUpCalls, FillInCalls, TakeDownCalls, collectorVars, fileVars, loopVars
<1>1. CASE SetUp
  BY <1>1 DEF SetUp
<1>2. CASE OpenCapture
  BY <1>2 DEF OpenCapture, alcCaptureOpenDevice
<1>3. CASE OpenFile
  BY <1>3 DEF OpenFile
<1>4. CASE Start
  BY <1>4 DEF Start, alcCaptureStart
<1>5. CASE CheckLoop
  BY <1>5 DEF CheckLoop
<1>6. CASE Query
  <2>1. Len(ring) \in Nat
    BY LenProperties DEF Types, CollectorTypeOK
  <2> QED
    BY <1>6, <2>1 DEF Query, CaptureSamplesWaiting
<1>7. CASE TakeBlock
  BY <1>7 DEF TakeBlock, Take
<1>8. CASE Drain
  <2>1. /\ DrainRequest \in Nat /\ DrainRequest <= Len(ring) /\ DrainRequest <= BlockSamples
        /\ Take(DrainRequest) /\ iSamplesAvailable' = iSamplesAvailable - DrainRequest
        /\ iSamplesAvailable = Len(ring) /\ pc' = "drain"
    BY <1>8, RequestFacts DEF Drain
  <2>2. Len(ring') = Len(ring) - DrainRequest /\ pFile' = pFile
    BY <2>1, TakeFacts DEF TakeOf
  <2> QED
    BY <1>8, <2>1, <2>2 DEF Drain
<1>9. CASE Stop
  BY <1>9 DEF Stop, alcCaptureStop, CaptureSamplesWaiting
<1>10. CASE DrainEnds
  <2>1. Len(ring) = 0 /\ ring \in Seq(Nat)
    BY <1>10 DEF DrainEnds, Types, CollectorTypeOK
  <2>2. ring = << >>
    BY <2>1, EmptySeq
  <2> QED
    BY <1>10, <2>2 DEF DrainEnds
<1>11. CASE FillIn
  BY <1>11 DEF FillIn
<1>12. CASE TakeDown
  BY <1>12 DEF TakeDown, alcCaptureCloseDevice
<1>13. CASE DeliverFrame
  <2>1. pc \in InLoop \cup {"stop"}
    BY <1>13 DEF DeliverFrame, Deliver, DeviceInv
  <2>2. Len(ring') >= Len(ring) /\ Len(ring) \in Nat /\ Len(ring') \in Nat
    BY <1>13, DeliverFacts, LenProperties DEF DeliverFrame, Types, CollectorTypeOK
  <2> QED
    BY <1>13, <2>1, <2>2 DEF DeliverFrame
<1>14. CASE Tick \/ Kill
  BY <1>14 DEF Tick, Kill
<1> QED
  BY <1>1, <1>2, <1>3, <1>4, <1>5, <1>6, <1>7, <1>8, <1>9, <1>10, <1>11, <1>12, <1>13, <1>14
  DEF Sample, Surroundings

LEMMA CountStep ==
  ASSUME SampleInv, Sample \/ Surroundings
  PROVE  CountInv'
<1> USE DEF SampleInv, CountInv, collectorVars, fileVars
<1>1. /\ Len(ring) \in Nat /\ Len(samples) \in Nat /\ produced \in Nat /\ iDataSize \in Nat
      /\ MaxFrames \in Nat
  BY Sizes, LenProperties DEF Types, CollectorTypeOK
<1>2. CASE UNCHANGED <<produced, ring, iDataSize, samples>>
  BY <1>2
<1>3. CASE OpenCapture
  BY <1>1, <1>3, EmptyFacts, Sizes DEF OpenCapture, alcCaptureOpenDevice
<1>4. CASE TakeBlock \/ Drain
  <2>1. PICK n \in Nat : Take(n) /\ n <= Len(ring) /\ n <= BlockSamples
    BY <1>4, RequestFacts, Sizes DEF TakeBlock, Drain
  <2>2. PICK k : TakeOf(n, k)
    BY <2>1, TakeFacts
  <2>3. iDataSize' = iDataSize + n * 2 /\ produced' = produced
    BY <2>1, TakeFacts, Sizes
  <2>4. k \in 0 .. n /\ Len(ring') = Len(ring) - n /\ Len(samples') = Len(samples) + k
    BY <2>2 DEF TakeOf
  <2> QED
    BY <1>1, <2>1, <2>3, <2>4, Sizes
<1>5. CASE DeliverFrame
  <2>1. /\ produced' = produced + 1 /\ produced < MaxFrames
        /\ Len(ring') = Len(ring) + 1 \/ Len(ring') = Len(ring)
        /\ UNCHANGED <<iDataSize, samples>>
    BY <1>5, DeliverFacts DEF DeliverFrame, Types
  <2> QED
    BY <1>1, <2>1, Sizes
<1> QED
  BY <1>2, <1>3, <1>4, <1>5
  DEF Sample, Surroundings, SetUp, OpenFile, Start, alcCaptureStart, CheckLoop, Query, Stop,
      alcCaptureStop, DrainEnds, FillIn, TakeDown, alcCaptureCloseDevice, Tick, Kill

LEMMA DiskStep ==
  ASSUME SampleInv, Sample \/ Surroundings
  PROVE  DiskInv'
<1> USE DEF SampleInv, ControlInv, HeldInv, DiskInv, goto, Running, Ended, InLoop, SetUpCalls, FillInCalls,
            fileVars, NoHeader
<1>1. /\ Len(samples) \in Nat /\ iDataSize \in Nat
      /\ disk \in [riff : Nat \cup {NoHeader}, data : Nat \cup {NoHeader}, samples : Nat]
  BY LenProperties DEF Types
<1>2. CASE /\ UNCHANGED fileVars
           /\ \/ pc' = pc
              \/ pc' = "killed"
              \/ pc' \notin {"data", "fclose"}
                 /\ pc \in SetUpCalls \cup {"fopen", "start", "stop", "drain", "riff"} \cup InLoop
  BY <1>2
<1>3. CASE TakeDown
  BY <1>3 DEF TakeDown
<1>4. CASE OpenFile
  <2>1. disk' \in SpilledTo(0) /\ UNCHANGED <<iDataSize, samples>> /\ pc = "fopen"
        /\ pc' \in {"start", "crashed"}
    BY <1>4 DEF OpenFile, SpilledTo
  <2>2. disk' = disk \/ \E m \in disk.samples .. 0 : disk' = [riff |-> 0, data |-> 0, samples |-> m]
    BY <2>1 DEF SpilledTo
  <2> QED
    BY <1>1, <2>1, <2>2
<1>5. CASE TakeBlock \/ Drain
  <2>1. PICK n \in Nat : Take(n) /\ n <= Len(ring) /\ n <= BlockSamples
    BY <1>5, RequestFacts, Sizes DEF TakeBlock, Drain
  <2>2. PICK k : TakeOf(n, k)
    BY <2>1, TakeFacts
  <2>3. k \in 0 .. n /\ Len(samples') = Len(samples) + k /\ disk' \in SpilledTo(Len(samples) + k)
    BY <2>2 DEF TakeOf
  <2>4. \/ disk' = disk
        \/ \E m \in disk.samples .. Len(samples) + k : disk' = [riff |-> 0, data |-> 0, samples |-> m]
    BY <2>3 DEF SpilledTo
  <2>5. pc \in {"take", "drain"} /\ pc' \in {"check", "drain"}
    BY <1>5 DEF TakeBlock, Drain
  <2> QED
    BY <1>1, <2>3, <2>4, <2>5
<1>6. CASE FillIn
  <2>1. CASE /\ goto("riff", "data")
             /\ disk' = [riff |-> 0, data |-> 0, samples |-> Len(samples)]
    BY <1>1, <1>6, <2>1 DEF FillIn
  <2>2. CASE /\ goto("data", "fclose")
             /\ disk' = [disk EXCEPT !.riff = iDataSize + RiffOverhead]
    <3>1. disk'.riff = iDataSize + RiffOverhead /\ disk'.data = disk.data /\ disk'.samples = disk.samples
      BY <1>1, <2>2
    <3> QED
      BY <1>1, <1>6, <2>2, <3>1 DEF FillIn, RiffOverhead
  <2>3. CASE /\ goto("fclose", "close")
             /\ disk' = [disk EXCEPT !.data = iDataSize]
    <3>1. disk'.data = iDataSize /\ disk'.riff = disk.riff /\ disk'.samples = disk.samples
      BY <1>1, <2>3
    <3> QED
      BY <1>1, <1>6, <2>3, <3>1 DEF FillIn
  <2>4. CASE disk' = disk /\ (goto("data", "fclose") \/ goto("fclose", "close"))
    BY <1>1, <1>6, <2>4 DEF FillIn
  <2> QED
    BY <1>6, <2>1, <2>2, <2>3, <2>4 DEF FillIn, Rewritten
<1> QED
  BY <1>2, <1>3, <1>4, <1>5, <1>6
  DEF Sample, Surroundings, SetUp, OpenCapture, Start, CheckLoop, Query, Stop, DrainEnds, DeliverFrame, Tick, Kill

LEMMA SampleInvStep ==
  ASSUME SampleInv, Sample \/ Surroundings
  PROVE  SampleInv'
BY TypesStep, HeldStep, DeviceStep, FileStep, RingStep, CountStep, DiskStep DEF SampleInv, ControlInv

-------------------------------------------------------------------------------
(* The sample as a recorder. *)

Heard == samples \o ring

(* A sequence g in which the n elements of h behind the c-th are missing. *)
Lacks(g, h, c, n) ==
  /\ c + n <= Len(h)
  /\ Len(g) = Len(h) - n
  /\ \A i \in 1 .. c : g[i] = h[i]
  /\ \A i \in c + 1 .. Len(g) : g[i] = h[i + n]

LEMMA CutOut ==
  ASSUME NEW h \in Seq(Nat), NEW g \in Seq(Nat), NEW c \in Nat, NEW n \in Nat,
         Lacks(g, h, c, n)
  PROVE  /\ SubSeq(g, 1, c) = SubSeq(h, 1, c)
         /\ g = SubSeq(h, 1, c) \o SubSeq(h, c + n + 1, Len(h))
<1> USE DEF Lacks
<1> DEFINE a == SubSeq(h, 1, c)
           b == SubSeq(h, c + n + 1, Len(h))
<1>1. /\ Len(h) \in Nat /\ Len(g) \in Nat /\ c <= Len(g)
      /\ \A i \in 1 .. Len(h) : h[i] \in Nat
      /\ \A i \in 1 .. Len(g) : g[i] \in Nat
  <2>1. \A s \in Seq(Nat) : Len(s) \in Nat /\ \A i \in 1 .. Len(s) : s[i] \in Nat
    BY LenProperties
  <2> QED
    BY <2>1
<1>2. /\ a \in Seq(Nat)
      /\ Len(a) = c
      /\ \A i \in 1 .. c : a[i] = h[i]
  <2>1. \A i \in 1 .. c : h[i] \in Nat
    BY <1>1
  <2> QED
    BY <1>1, <2>1, SubSeqProperties
<1>3. /\ b \in Seq(Nat)
      /\ Len(b) = Len(h) - (c + n)
      /\ \A i \in 1 .. Len(h) - (c + n) : b[i] = h[c + n + i]
  <2>1. \A i \in c + n + 1 .. Len(h) : h[i] \in Nat
    BY <1>1
  <2> QED
    BY <1>1, <2>1, SubSeqProperties
<1>4. /\ SubSeq(g, 1, c) \in Seq(Nat)
      /\ Len(SubSeq(g, 1, c)) = c
      /\ \A i \in 1 .. c : SubSeq(g, 1, c)[i] = g[i]
  <2> DEFINE d == SubSeq(g, 1, c)
  <2>1. \A i \in 1 .. c : g[i] \in Nat
    BY <1>1
  <2>2. /\ d \in Seq(Nat)
        /\ Len(d) = IF 1 <= c THEN c - 1 + 1 ELSE 0
        /\ \A i \in 1 .. c - 1 + 1 : d[i] = g[1 + i - 1]
    BY <2>1, SubSeqProperties
  <2> HIDE DEF d
  <2>3. d \in Seq(Nat) /\ Len(d) = c /\ \A i \in 1 .. c : d[i] = g[i]
    BY <2>2
  <2> QED
    BY <2>3 DEF d
<1> HIDE DEF a, b
<1>5. SubSeq(g, 1, c) = a
  BY <1>1, <1>2, <1>4, SeqEqual
<1>6. g = a \o b
  <2>1. /\ a \o b \in Seq(Nat)
        /\ Len(a \o b) = Len(a) + Len(b)
        /\ \A i \in 1 .. Len(a) + Len(b) :
             (a \o b)[i] = IF i <= Len(a) THEN a[i] ELSE b[i - Len(a)]
    BY <1>2, <1>3, ConcatProperties
  <2>2. Len(a \o b) = Len(g)
    BY <1>1, <1>2, <1>3, <2>1
  <2>3. \A i \in 1 .. Len(g) : (a \o b)[i] = g[i]
    <3> TAKE i \in 1 .. Len(g)
    <3>1. CASE i <= c
      <4>1. i \in 1 .. c /\ i \in 1 .. Len(a) + Len(b)
        BY <1>1, <1>2, <1>3, <2>1, <2>2, <3>1
      <4>2. (a \o b)[i] = a[i] /\ a[i] = h[i]
        BY <1>2, <2>1, <4>1
      <4>3. g[i] = h[i]
        BY <4>1
      <4> QED
        BY <4>2, <4>3
    <3>2. CASE i > c
      <4>9. i \in 1 .. Len(a) + Len(b) /\ ~(i <= Len(a)) /\ Len(a) = c
        BY <1>1, <1>2, <2>1, <2>2, <3>2
      <4>1. (a \o b)[i] = b[i - c] /\ i - c \in 1 .. Len(h) - (c + n)
        <5>1. (a \o b)[i] = b[i - c]
          BY <2>1, <4>9, Zenon
        <5>2. i - c \in 1 .. Len(h) - (c + n)
          BY <1>1, <3>2
        <5> QED
          BY <5>1, <5>2
      <4>2. b[i - c] = h[i + n]
        BY <1>1, <1>3, <4>1
      <4>3. i \in c + 1 .. Len(g)
        BY <1>1, <3>2
      <4>4. g[i] = h[i + n]
        BY <4>3
      <4> QED
        BY <4>1, <4>2, <4>4
    <3>3. i <= c \/ i > c
      BY <1>1
    <3> QED
      BY <3>1, <3>2, <3>3, Zenon
  <2> QED
    BY <2>1, <2>2, <2>3, SeqEqual
<1> QED
  BY <1>5, <1>6 DEF a, b

LEMMA ConcatFacts ==
  ASSUME NEW a \in Seq(Nat), NEW b \in Seq(Nat)
  PROVE  /\ a \o b \in Seq(Nat)
         /\ Len(a) \in Nat /\ Len(b) \in Nat
         /\ Len(a \o b) = Len(a) + Len(b)
         /\ \A i \in 1 .. Len(a) : (a \o b)[i] = a[i]
         /\ \A i \in 1 .. Len(b) : (a \o b)[Len(a) + i] = b[i]
         /\ SubSeq(a \o b, 1, Len(a)) = a
<1> DEFINE c == a \o b
<1>1. Len(a) \in Nat /\ Len(b) \in Nat /\ \A i \in 1 .. Len(a) : a[i] \in Nat
  BY LenProperties
<1>2. /\ c \in Seq(Nat)
      /\ Len(c) = Len(a) + Len(b)
      /\ \A i \in 1 .. Len(a) + Len(b) : c[i] = IF i <= Len(a) THEN a[i] ELSE b[i - Len(a)]
  BY ConcatProperties
<1> HIDE DEF c
<1>3. \A i \in 1 .. Len(a) : c[i] = a[i]
  BY <1>1, <1>2
<1>4. ASSUME NEW i \in 1 .. Len(b) PROVE c[Len(a) + i] = b[i]
  <2>1. Len(a) + i \in 1 .. Len(a) + Len(b) /\ ~(Len(a) + i <= Len(a)) /\ (Len(a) + i) - Len(a) = i
    BY <1>1
  <2> QED
    BY <1>2, <2>1
<1>5. SubSeq(c, 1, Len(a)) = a
  <2>1. \A i \in 1 .. Len(a) : c[i] \in Nat
    BY <1>1, <1>3
  <2>2. /\ SubSeq(c, 1, Len(a)) \in Seq(Nat)
        /\ Len(SubSeq(c, 1, Len(a))) = IF 1 <= Len(a) THEN Len(a) - 1 + 1 ELSE 0
        /\ \A i \in 1 .. Len(a) - 1 + 1 : SubSeq(c, 1, Len(a))[i] = c[1 + i - 1]
    BY <1>1, <2>1, SubSeqProperties
  <2> DEFINE d == SubSeq(c, 1, Len(a))
  <2> HIDE DEF d
  <2>3. d \in Seq(Nat) /\ Len(d) = Len(a) /\ \A i \in 1 .. Len(a) : d[i] = a[i]
    BY <1>1, <1>3, <2>2 DEF d
  <2> QED
    BY <2>3, SeqEqual DEF d
<1> QED
  BY <1>1, <1>2, <1>3, <1>4, <1>5 DEF c

(* Taking a block saves the first k of its n frames; the others are what    *)
(* the medium refused.                                                      *)
LEMMA TakeSaves ==
  ASSUME Types, Types', NEW n \in Nat, n <= Len(ring), NEW k, TakeOf(n, k)
  PROVE  /\ k \in 0 .. Len(Heard) - Len(samples) /\ n - k \in 0 .. Len(Heard) - Len(samples)
         /\ k + (n - k) <= Len(Heard) - Len(samples)
         /\ n - k > 0 => WriteMayFail
         /\ samples' = SubSeq(Heard, 1, Len(samples) + k)
         /\ Heard' = samples' \o SubSeq(Heard, Len(samples) + k + (n - k) + 1, Len(Heard))
<1> DEFINE h == Heard
           g == samples' \o ring'
           c == Len(samples) + k
           r == n - k
<1>1. /\ samples \in Seq(Nat) /\ ring \in Seq(Nat) /\ samples' \in Seq(Nat) /\ ring' \in Seq(Nat)
  BY DEF Types, CollectorTypeOK
<1>2. /\ k \in 0 .. n /\ (k = n \/ WriteMayFail)
      /\ Len(ring') = Len(ring) - n
      /\ \A i \in 1 .. Len(ring) - n : ring'[i] = ring[n + i]
      /\ Len(samples') = Len(samples) + k
      /\ \A i \in 1 .. Len(samples) : samples'[i] = samples[i]
      /\ \A i \in 1 .. k : samples'[Len(samples) + i] = ring[i]
  BY DEF TakeOf
<1>3. /\ h \in Seq(Nat) /\ Len(h) = Len(samples) + Len(ring)
      /\ Len(samples) \in Nat /\ Len(ring) \in Nat
      /\ \A i \in 1 .. Len(samples) : h[i] = samples[i]
      /\ \A i \in 1 .. Len(ring) : h[Len(samples) + i] = ring[i]
  BY <1>1, ConcatFacts DEF Heard
<1>4. /\ g \in Seq(Nat) /\ Len(g) = Len(samples') + Len(ring')
      /\ Len(samples') \in Nat /\ Len(ring') \in Nat
      /\ \A i \in 1 .. Len(samples') : g[i] = samples'[i]
      /\ \A i \in 1 .. Len(ring') : g[Len(samples') + i] = ring'[i]
      /\ SubSeq(g, 1, Len(samples')) = samples'
  BY <1>1, ConcatFacts
<1> HIDE DEF h, g
<1>5. c \in Nat /\ r \in Nat /\ c + r <= Len(h) /\ Len(g) = Len(h) - r /\ c = Len(samples')
  BY <1>2, <1>3, <1>4
<1>6. ASSUME NEW i \in 1 .. c PROVE g[i] = h[i]
  <2>1. g[i] = samples'[i] /\ i \in Nat
    BY <1>4, <1>5
  <2>2. CASE i <= Len(samples)
    BY <1>2, <1>3, <2>1, <2>2
  <2>3. CASE i > Len(samples)
    <3> DEFINE j == i - Len(samples)
    <3>1. j \in 1 .. k /\ j \in 1 .. Len(ring) /\ i = Len(samples) + j
      BY <1>2, <1>3, <2>3
    <3> HIDE DEF j
    <3>2. samples'[Len(samples) + j] = ring[j] /\ h[Len(samples) + j] = ring[j]
      BY <1>2, <1>3, <3>1
    <3> QED
      BY <2>1, <3>1, <3>2
  <2> QED
    BY <1>3, <2>1, <2>2, <2>3
<1>7. ASSUME NEW i \in c + 1 .. Len(g) PROVE g[i] = h[i + r]
  <2> DEFINE j == i - Len(samples')
  <2>1. /\ j \in 1 .. Len(ring') /\ i = Len(samples') + j
        /\ n + j \in 1 .. Len(ring) /\ i + r = Len(samples) + (n + j)
    BY <1>2, <1>3, <1>4, <1>5
  <2> HIDE DEF j
  <2>2. g[Len(samples') + j] = ring'[j]
    BY <1>4, <2>1
  <2>3. ring'[j] = ring[n + j]
    BY <1>2, <2>1
  <2>4. h[Len(samples) + (n + j)] = ring[n + j]
    BY <1>3, <2>1
  <2> QED
    BY <2>1, <2>2, <2>3, <2>4
<1> HIDE DEF c, r
<1>8. /\ SubSeq(g, 1, c) = SubSeq(h, 1, c)
      /\ g = SubSeq(h, 1, c) \o SubSeq(h, c + r + 1, Len(h))
  <2>1. h \in Seq(Nat) /\ g \in Seq(Nat) /\ c \in Nat /\ r \in Nat
    BY <1>3, <1>4, <1>5
  <2>2. Lacks(g, h, c, r)
    BY <1>5, <1>6, <1>7 DEF Lacks
  <2> QED
    BY <2>1, <2>2, CutOut
<1>9. samples' = SubSeq(h, 1, c) /\ g = samples' \o SubSeq(h, c + r + 1, Len(h))
  BY <1>4, <1>5, <1>8
<1>10. /\ k \in 0 .. Len(h) - Len(samples) /\ r \in 0 .. Len(h) - Len(samples)
       /\ k + r <= Len(h) - Len(samples)
       /\ r > 0 => WriteMayFail
  BY <1>2, <1>3 DEF r
<1>11. Heard' = g
  BY DEF Heard, g
<1> QED
  BY <1>9, <1>10, <1>11 DEF h, c, r

(* A frame that arrives is heard. *)
LEMMA DeliverHeard ==
  ASSUME Types, Types', UNCHANGED samples,
         Len(ring') = Len(ring) + 1, \A i \in 1 .. Len(ring) : ring'[i] = ring[i]
  PROVE  Len(Heard') = Len(Heard) + 1 /\ SubSeq(Heard', 1, Len(Heard)) = Heard
<1> DEFINE g == samples \o ring'
           h == samples \o ring
<1>1. samples \in Seq(Nat) /\ ring \in Seq(Nat) /\ ring' \in Seq(Nat)
  BY DEF Types, CollectorTypeOK
<1>2. /\ h \in Seq(Nat) /\ Len(h) = Len(samples) + Len(ring)
      /\ Len(samples) \in Nat /\ Len(ring) \in Nat
      /\ \A i \in 1 .. Len(samples) : h[i] = samples[i]
      /\ \A i \in 1 .. Len(ring) : h[Len(samples) + i] = ring[i]
  BY <1>1, ConcatFacts
<1>3. /\ g \in Seq(Nat) /\ Len(g) = Len(samples) + Len(ring')
      /\ \A i \in 1 .. Len(samples) : g[i] = samples[i]
      /\ \A i \in 1 .. Len(ring') : g[Len(samples) + i] = ring'[i]
  BY <1>1, ConcatFacts
<1>4. Heard = h /\ Heard' = g
  BY DEF Heard
<1> HIDE DEF g, h
<1>5. Len(g) = Len(h) + 1
  BY <1>2, <1>3
<1>6. ASSUME NEW i \in 1 .. Len(h) PROVE g[i] = h[i] /\ g[i] \in Nat
  <2>1. h[i] \in Nat
    BY <1>2, ElementOfSeq
  <2>2. CASE i <= Len(samples)
    BY <1>2, <1>3, <2>1, <2>2
  <2>3. CASE i > Len(samples)
    <3> DEFINE j == i - Len(samples)
    <3>1. j \in 1 .. Len(ring) /\ j \in 1 .. Len(ring') /\ i = Len(samples) + j
      BY <1>2, <2>3
    <3> HIDE DEF j
    <3>2. g[Len(samples) + j] = ring'[j] /\ h[Len(samples) + j] = ring[j] /\ ring'[j] = ring[j]
      BY <1>2, <1>3, <3>1
    <3> QED
      BY <2>1, <3>1, <3>2
  <2> QED
    BY <1>2, <2>2, <2>3
<1>7. SubSeq(g, 1, Len(h)) = h
  <2> DEFINE d == SubSeq(g, 1, Len(h))
  <2>1. /\ d \in Seq(Nat)
        /\ Len(d) = IF 1 <= Len(h) THEN Len(h) - 1 + 1 ELSE 0
        /\ \A i \in 1 .. Len(h) - 1 + 1 : d[i] = g[1 + i - 1]
    BY <1>2, <1>6, SubSeqProperties
  <2> HIDE DEF d
  <2>2. Len(h) \in Nat
    BY <1>2
  <2>3. d \in Seq(Nat) /\ Len(d) = Len(h) /\ \A i \in 1 .. Len(h) : d[i] = h[i]
    BY <1>6, <2>1, <2>2
  <2> QED
    BY <1>2, <2>3, SeqEqual DEF d
<1> QED
  BY <1>4, <1>5, <1>7

(* The sample's part of the state in the steps of the specification. *)
LEMMA SampleInvNext ==
  ASSUME SampleInv, [Next]_vars
  PROVE  SampleInv'
<1>1. CASE Sample \/ Surroundings
  BY <1>1, SampleInvStep
<1>2. CASE UNCHANGED sampleVars
  <2> USE <1>2 DEF SampleInv, sampleVars, collectorVars, loopVars, fileVars, timeVars
  <2>1. Types'
    BY DEF Types, CollectorTypeOK
  <2>2. ControlInv'
    BY DEF ControlInv, HeldInv, DeviceInv, FileInv, RingInv
  <2>3. CountInv' /\ DiskInv'
    BY DEF CountInv, DiskInv
  <2> QED
    BY <2>1, <2>2, <2>3
<1> QED
  BY <1>1, <1>2 DEF Next, vars, SampleStep, ReaderStep, Finished

LEMMA SampleInvariant == Spec => []SampleInv
<1>1. Init => SampleInv
  BY SampleInitInv DEF Init
<1> QED
  BY <1>1, SampleInvNext, PTL DEF Spec

(* Whatever way main takes to its end, it releases what it acquired on it.  *)
THEOREM ReleaseCorrect == Spec => []ReleasedAtEnd
<1>1. SampleInv => ReleasedAtEnd
  BY DEF SampleInv, ControlInv, HeldInv, DeviceInv, FileInv, ReleasedAtEnd, TakeDownCalls
<1> QED
  BY <1>1, SampleInvariant, PTL

LEMMA RecorderStep ==
  ASSUME SampleInv, SampleInv', Sample \/ Surroundings
  PROVE  Recorder!Next \/ UNCHANGED <<Heard, samples, pFile = "closed">>
<1> USE DEF SampleInv, ControlInv, goto
<1>1. CASE UNCHANGED <<samples, ring, pFile>>
  BY <1>1 DEF Heard
<1>2. CASE OpenCapture
  <2>1. ring' = ring /\ UNCHANGED <<samples, pFile>>
    BY <1>2 DEF OpenCapture, alcCaptureOpenDevice, collectorVars, fileVars, RingInv, SetUpCalls
  <2> QED
    BY <2>1 DEF Heard
<1>3. CASE OpenFile
  <2>1. UNCHANGED <<samples, ring>> /\ pFile # "closed" /\ pFile' # "closed"
    BY <1>3 DEF OpenFile, collectorVars, FileInv
  <2> QED
    BY <2>1 DEF Heard
<1>4. CASE TakeBlock \/ Drain
  <2>1. PICK n \in Nat : Take(n) /\ n <= Len(ring) /\ n <= BlockSamples
    BY <1>4, RequestFacts, Sizes DEF TakeBlock, Drain
  <2>2. PICK k : TakeOf(n, k)
    BY <2>1, TakeFacts
  <2>3. pFile # "closed" /\ pFile' = pFile
    BY <1>4, <2>1 DEF TakeBlock, Drain, Take, FileInv, InLoop
  <2> DEFINE r == n - k
  <2>4. /\ k \in 0 .. Len(Heard) - Len(samples) /\ r \in 0 .. Len(Heard) - Len(samples)
        /\ k + r <= Len(Heard) - Len(samples)
        /\ r > 0 => WriteMayFail
        /\ samples' = SubSeq(Heard, 1, Len(samples) + k)
        /\ Heard' = samples' \o SubSeq(Heard, Len(samples) + k + r + 1, Len(Heard))
    BY <2>1, <2>2, TakeSaves
  <2> HIDE DEF r
  <2>5. Recorder!Save
    BY <2>3, <2>4 DEF Recorder!Save, Heard
  <2> QED
    BY <2>5 DEF Recorder!Next
<1>5. CASE DeliverFrame
  <2>1. CASE ring' = ring
    BY <1>5, <2>1 DEF DeliverFrame, fileVars, Heard
  <2>2. CASE Len(ring') = Len(ring) + 1 /\ \A i \in 1 .. Len(ring) : ring'[i] = ring[i]
    <3>1. pFile # "closed" /\ UNCHANGED <<samples, pFile>>
      BY <1>5 DEF DeliverFrame, Deliver, fileVars, FileInv, DeviceInv, Running, InLoop,
         SetUpCalls, FillInCalls, TakeDownCalls
    <3>2. Len(Heard') = Len(Heard) + 1 /\ SubSeq(Heard', 1, Len(Heard)) = Heard
      BY <2>2, <3>1, DeliverHeard
    <3> QED
      BY <3>1, <3>2 DEF Recorder!Next, Recorder!Hear, Heard
  <2> QED
    BY <1>5, <2>1, <2>2, DeliverFacts DEF DeliverFrame, Types
<1>6. CASE FillIn
  <2>1. UNCHANGED <<samples, ring>> /\ ring = << >> /\ samples \in Seq(Nat) /\ pFile = "open"
    BY <1>6 DEF FillIn, collectorVars, RingInv, FillInCalls, FileInv, Types
  <2>2. Heard = samples /\ Heard' = Heard
    BY <2>1, ConcatEmptySeq DEF Heard
  <2>3. CASE pFile' = pFile
    BY <2>1, <2>2, <2>3
  <2>4. CASE pFile' = "closed"
    BY <2>1, <2>2, <2>4 DEF Recorder!Next, Recorder!Seal, Heard
  <2> QED
    BY <1>6, <2>3, <2>4 DEF FillIn
<1> QED
  BY <1>1, <1>2, <1>3, <1>4, <1>5, <1>6
  DEF Sample, Surroundings, SetUp, Start, alcCaptureStart, CheckLoop, Query, Stop, alcCaptureStop,
      DrainEnds, TakeDown, alcCaptureCloseDevice, Tick, Kill, collectorVars, fileVars

(* Every step of the sample is a step of the abstract recorder or invisible *)
(* to it, although the recording is ended by a clock, a key or a kill, the  *)
(* device is drained after it was stopped, and no result is looked at.      *)
THEOREM Implementation == Spec => ImplementsRecording
<1>1. Init => Recorder!Init
  <2> SUFFICES ASSUME Init PROVE Recorder!Init
    OBVIOUS
  <2>1. samples = << >> /\ ring = << >> /\ pFile # "closed"
    BY DEF Init, SampleInit, CollectorInit
  <2>2. samples \o ring = << >>
    BY <2>1, EmptyFacts, ConcatEmptySeq
  <2> QED
    BY <2>1, <2>2 DEF Recorder!Init
<1>2. SampleInv /\ SampleInv' /\ [Next]_vars => [Recorder!Next]_(Recorder!recordingVars)
  <2> SUFFICES ASSUME SampleInv, SampleInv', [Next]_vars
               PROVE  Recorder!Next \/ UNCHANGED <<Heard, samples, pFile = "closed">>
    BY DEF Recorder!recordingVars, Heard
  <2>1. CASE Sample \/ Surroundings
    BY <2>1, RecorderStep
  <2>2. CASE UNCHANGED sampleVars
    BY <2>2 DEF sampleVars, collectorVars, fileVars, Heard
  <2> QED
    BY <2>1, <2>2 DEF Next, vars, SampleStep, ReaderStep, Finished
<1> QED
  BY <1>1, <1>2, SampleInvariant, PTL DEF Spec, ImplementsRecording, Recorder!Spec

-------------------------------------------------------------------------------
(* Files that the reader is given. *)

(* What wav_read_open takes to be left of the RIFF chunk behind its header. *)
RiffRest(f) == Uint((IF RiffStreamed(f.riff) THEN -1 ELSE f.riff) - 4)

(* The chunks up to the i-th, a data chunk, are neither bad nor beyond what *)
(* the RIFF header claims.                                                  *)
Reaches(f, i) ==
  /\ i \in DOMAIN f.chunks /\ f.chunks[i].tag = "data"
  /\ \A j \in 1 .. i : /\ f.chunks[j].at + f.chunks[j].size <= RiffRest(f) + RiffHeader
                       /\ ~TooShort(f.chunks[j])

Readable(f) ==
  /\ f \in WavFile /\ LaidOut(f)
  /\ f.empty => f = EmptyFile
  /\ \A i \in DOMAIN f.chunks :
       /\ f.chunks[i].size < UintRange
       /\ i < Len(f.chunks) => f.chunks[i].stored = f.chunks[i].size
       /\ f.chunks[i].stored > f.chunks[i].size => f.chunks[i].size = 0
  /\ ~f.empty /\ RiffStreamed(f.riff) => \E i \in DOMAIN f.chunks : Reaches(f, i)

LEMMA ChunkFacts ==
  ASSUME NEW f \in WavFile
  PROVE  /\ Len(f.chunks) \in Nat /\ DOMAIN f.chunks = 1 .. Len(f.chunks)
         /\ f.riff \in Nat /\ f.empty \in BOOLEAN
         /\ \A i \in DOMAIN f.chunks :
              /\ f.chunks[i] \in Chunk
              /\ f.chunks[i].tag \in Tags
              /\ f.chunks[i].size \in Nat /\ f.chunks[i].stored \in Nat /\ f.chunks[i].at \in Nat
<1>1. f.chunks \in Seq(Chunk) /\ f.riff \in Nat /\ f.empty \in BOOLEAN
  BY DEF WavFile
<1>2. /\ Len(f.chunks) \in Nat /\ DOMAIN f.chunks = 1 .. Len(f.chunks)
      /\ \A i \in 1 .. Len(f.chunks) : f.chunks[i] \in Chunk
  BY <1>1, LenProperties, ElementOfSeq
<1>3. \A c \in Chunk : /\ c.tag \in Tags
                       /\ c.size \in Nat /\ c.stored \in Nat /\ c.at \in Nat
  BY DEF Chunk
<1> QED
  BY <1>1, <1>2, <1>3

LEMMA UintFacts ==
  /\ UintRange \in Nat \ {0}
  /\ \A x \in Int : Uint(x) \in 0 .. UintRange - 1
  /\ \A x \in 0 .. UintRange - 1 : Uint(x) = x
<1>1. UintRange \in Nat \ {0}
  BY ReaderAssumption
<1>2. ASSUME NEW x \in Int PROVE Uint(x) \in 0 .. UintRange - 1
  BY <1>1 DEF Uint
<1>3. ASSUME NEW x \in 0 .. UintRange - 1 PROVE Uint(x) = x
  BY <1>1 DEF Uint
<1> QED
  BY <1>1, <1>2, <1>3

(* A chunk's content lies within the file, the last one's at its end. *)
LEMMA Layout ==
  ASSUME NEW f, Readable(f), NEW i \in DOMAIN f.chunks
  PROVE  /\ FileSize(f) - f.chunks[i].at \in Nat
         /\ FileSize(f) - f.chunks[i].at >= f.chunks[i].stored
         /\ i = Len(f.chunks) => FileSize(f) - f.chunks[i].at = f.chunks[i].stored
<1> DEFINE n == Len(f.chunks)
           at(j) == f.chunks[j].at
           stored(j) == f.chunks[j].stored
<1>1. f \in WavFile /\ LaidOut(f) /\ (f.empty => f = EmptyFile)
  BY DEF Readable
<1>2. /\ n \in Nat /\ i \in 1 .. n
      /\ \A j \in 1 .. n : at(j) \in Nat /\ stored(j) \in Nat
  BY <1>1, ChunkFacts
<1>3. ASSUME NEW j \in 2 .. n PROVE at(j) = 8 + (at(j - 1) + stored(j - 1))
  <2>1. DOMAIN f.chunks = 1 .. n /\ n \in Nat
    BY <1>1, ChunkFacts
  <2>2. j \in DOMAIN f.chunks /\ j # 1
    BY <2>1
  <2> QED
    BY <1>1, <2>2 DEF LaidOut, ChunkHeader
<1>4. ~f.empty /\ f.chunks # << >>
  <2>1. n # 0
    BY <1>2
  <2>2. Len(EmptyFile.chunks) = 0
    BY EmptySeq DEF EmptyFile
  <2> QED
    BY <1>1, <2>1, <2>2, EmptySeq
<1>5. FileSize(f) = at(n) + stored(n)
  BY <1>4 DEF FileSize
<1> HIDE DEF n, at, stored
<1>6. i < n => at(n) >= at(i) + stored(i)
  <2> SUFFICES ASSUME i < n PROVE at(n) >= at(i) + stored(i)
    OBVIOUS
  <2> DEFINE Bad == {j \in i + 1 .. n : at(j) < at(i) + stored(i)}
  <2>1. Bad = {}
    <3> SUFFICES ASSUME Bad # {} PROVE FALSE
      OBVIOUS
    <3>1. Bad \subseteq Nat
      BY <1>2
    <3>2. PICK j \in Bad : \A y \in Bad : j <= y
      <4> HIDE DEF Bad
      <4> QED
        BY <3>1, MinOfNats
    <3>3. j \in i + 1 .. n /\ at(j) < at(i) + stored(i) /\ j \in 2 .. n /\ j - 1 \in 1 .. n
      BY <1>2
    <3>4. at(j) = 8 + (at(j - 1) + stored(j - 1)) /\ at(j - 1) \in Nat /\ stored(j - 1) \in Nat
          /\ at(i) \in Nat /\ stored(i) \in Nat
      BY <1>2, <1>3, <3>3
    <3>5. CASE j - 1 = i
      <4>1. at(j) = 8 + (at(i) + stored(i))
        BY <3>4, <3>5
      <4> QED
        BY <3>3, <3>4, <4>1
    <3>6. CASE j - 1 # i
      <4>1. j - 1 \in i + 1 .. n /\ j - 1 \notin Bad
        BY <1>2, <3>2, <3>3, <3>6
      <4>2. ~(at(j - 1) < at(i) + stored(i))
        BY <4>1
      <4> QED
        BY <3>3, <3>4, <4>2
    <3> QED
      BY <3>5, <3>6
  <2>2. n \in i + 1 .. n /\ n \in 1 .. n
    BY <1>2
  <2>3. ~(at(n) < at(i) + stored(i))
    BY <2>1, <2>2
  <2> QED
    BY <1>2, <2>2, <2>3
<1>7. n \in 1 .. n
  BY <1>2
<1>8. /\ FileSize(f) - at(i) \in Nat /\ FileSize(f) - at(i) >= stored(i)
      /\ i = n => FileSize(f) - at(i) = stored(i)
  BY <1>2, <1>5, <1>6, <1>7
<1> QED
  BY <1>8 DEF n, at, stored

(* The files of other programs, and what the sample leaves behind. *)
LEMMA ForeignReadable ==
  ASSUME NEW f \in ForeignFiles
  PROVE  Readable(f)
<1>1. /\ f \in WavFile /\ LaidOut(f)
      /\ f.empty => f = EmptyFile
      /\ \A i \in DOMAIN f.chunks :
           LET c == f.chunks[i]
           IN  /\ c.at + c.size < UintRange
               /\ i < Len(f.chunks) => c.stored = c.size
               /\ c.stored > c.size => c.size = 0 /\ c.tag = "data"
      /\ RiffStreamed(f.riff) /\ ~f.empty =>
           \E i \in DOMAIN f.chunks :
             /\ f.chunks[i].tag = "data"
             /\ \A j \in 1 .. i - 1 : ~TooShort(f.chunks[j])
  BY FilesAssumption
<1>2. /\ Len(f.chunks) \in Nat /\ DOMAIN f.chunks = 1 .. Len(f.chunks)
      /\ \A i \in DOMAIN f.chunks : f.chunks[i].size \in Nat /\ f.chunks[i].at \in Nat
  BY <1>1, ChunkFacts
<1>3. ASSUME NEW i \in DOMAIN f.chunks
      PROVE  f.chunks[i].at + f.chunks[i].size < UintRange /\ f.chunks[i].size < UintRange
  <2> DEFINE a == f.chunks[i].at
             s == f.chunks[i].size
  <2>1. a \in Nat /\ s \in Nat /\ a + s < UintRange /\ UintRange \in Nat
    BY <1>1, <1>2, UintFacts
  <2> HIDE DEF a, s
  <2>2. s < UintRange
    BY <2>1
  <2> QED
    BY <2>1, <2>2 DEF a, s
<1>4. ASSUME RiffStreamed(f.riff), ~f.empty PROVE \E i \in DOMAIN f.chunks : Reaches(f, i)
  <2>1. PICK i \in DOMAIN f.chunks :
          /\ f.chunks[i].tag = "data"
          /\ \A j \in 1 .. i - 1 : ~TooShort(f.chunks[j])
    BY <1>1, <1>4
  <2>2. RiffRest(f) + RiffHeader >= UintRange
    <3>1. RiffRest(f) = Uint(-5)
      BY <1>4 DEF RiffRest
    <3>2. Uint(-5) \in 0 .. UintRange - 1 /\ UintRange \in Nat \ {0}
      BY UintFacts
    <3>3. Uint(-5) + 12 >= UintRange
      BY <3>2 DEF Uint
    <3> QED
      BY <3>1, <3>3 DEF RiffHeader
  <2>3. ASSUME NEW j \in 1 .. i
        PROVE  /\ f.chunks[j].at + f.chunks[j].size <= RiffRest(f) + RiffHeader
               /\ ~TooShort(f.chunks[j])
    <3>1. j \in DOMAIN f.chunks /\ (j = i \/ j \in 1 .. i - 1)
      BY <1>2
    <3>2. f.chunks[j].at + f.chunks[j].size <= RiffRest(f) + RiffHeader
      <4> DEFINE a == f.chunks[j].at + f.chunks[j].size
                 b == RiffRest(f) + RiffHeader
      <4>1. a \in Nat /\ a < UintRange
        BY <1>2, <1>3, <3>1
      <4>2. b \in Int /\ b >= UintRange /\ UintRange \in Nat
        <5>1. RiffRest(f) = Uint(-5) /\ Uint(-5) \in Int /\ UintRange \in Nat
          BY <1>4, UintFacts DEF RiffRest
        <5> QED
          BY <2>2, <5>1 DEF RiffHeader
      <4> HIDE DEF a, b
      <4>3. a <= b
        BY <4>1, <4>2
      <4> QED
        BY <4>3 DEF a, b
    <3>3. ~TooShort(f.chunks[j])
      BY <2>1, <3>1 DEF TooShort
    <3> QED
      BY <3>2, <3>3
  <2> QED
    BY <2>1, <2>3 DEF Reaches
<1> QED
  BY <1>1, <1>3, <1>4 DEF Readable

LEMMA EmptyReadable ==
  /\ Readable(EmptyFile) /\ EmptyFile.empty
  /\ EmptyFile.chunks = << >> /\ FileSize(EmptyFile) = 0
<1>1. EmptyFile.chunks = << >> /\ EmptyFile.empty /\ EmptyFile.riff = 0
  BY DEF EmptyFile
<1>2. << >> \in Seq(Chunk) /\ Len(<< >>) = 0 /\ DOMAIN << >> = {}
  BY EmptySeq
<1>3. EmptyFile \in WavFile
  BY <1>2 DEF EmptyFile, WavFile
<1>4. LaidOut(EmptyFile)
  BY <1>1, <1>2 DEF LaidOut
<1> QED
  BY <1>1, <1>2, <1>3, <1>4 DEF Readable, FileSize

(* The sample's file, whenever it stopped: the lengths in the header are    *)
(* those of what was asked for, or zero; the data is what is on the disk.   *)
LEMMA CaptureFacts ==
  ASSUME SampleInv
  PROVE  /\ Readable(CaptureWav)
         /\ disk.riff = NoHeader => CaptureWav = EmptyFile /\ disk.samples = 0
         /\ disk.riff # NoHeader =>
              /\ Len(CaptureWav.chunks) = 2 /\ Reaches(CaptureWav, 2)
              /\ CaptureWav.chunks[1].tag = "fmt"
              /\ CaptureWav.chunks[2].size # 0 =>
                   nBlockAlign * disk.samples <= CaptureWav.chunks[2].size
              /\ FileSize(CaptureWav) - CaptureWav.chunks[2].at = nBlockAlign * disk.samples
<1> DEFINE w == CaptureWav
<1>1. CASE disk.riff = NoHeader
  BY <1>1, EmptyReadable DEF CaptureWav, SampleInv, DiskInv
<1>2. CASE disk.riff # NoHeader
  <2> DEFINE d == iDataSize
             m == 2 * disk.samples
             fmt == [tag |-> "fmt", size |-> 18, stored |-> 18, at |-> 20]
             data == [tag |-> "data", size |-> disk.data, stored |-> m, at |-> 46]
  <2>1. /\ d \in Nat /\ m \in Nat /\ m <= d
        /\ d + 46 < UintRange
        /\ disk.riff \in {0, d + 38} /\ disk.riff \in Nat
        /\ disk.data \in {0, d} /\ disk.data \in Nat
    <3>1. /\ iDataSize \in Nat /\ Len(samples) \in Nat /\ Len(ring) \in Nat /\ produced \in Nat
          /\ disk.samples \in Nat
      BY LenProperties DEF SampleInv, Types, CollectorTypeOK
    <3>2. /\ produced <= MaxFrames /\ iDataSize + 2 * Len(ring) <= 2 * produced
          /\ 2 * Len(samples) <= iDataSize /\ disk.samples <= Len(samples)
      BY DEF SampleInv, CountInv, DiskInv, nBlockAlign
    <3>3. disk.riff \in {0, iDataSize + 38} /\ disk.data \in {0, iDataSize}
      BY <1>2 DEF SampleInv, DiskInv, RiffOverhead
    <3>4. 2 * MaxFrames + 46 < UintRange /\ MaxFrames \in Nat /\ UintRange \in Nat
      BY RecordingAssumption, Sizes, UintFacts DEF nBlockAlign, RiffOverhead, ChunkHeader
    <3>5. d \in Nat /\ m \in Nat /\ m <= d /\ d <= 2 * MaxFrames
      BY <3>1, <3>2, <3>4
    <3> QED
      BY <3>3, <3>4, <3>5
  <2>2. w = [empty |-> FALSE, riff |-> disk.riff, chunks |-> <<fmt, data>>]
    BY <1>2 DEF CaptureWav, RiffHeader, ChunkHeader, FmtSize, nBlockAlign
  <2> HIDE DEF w, d, m
  <2>3. /\ w.empty = FALSE /\ w.riff = disk.riff /\ w.chunks = <<fmt, data>>
    BY <2>2
  <2>4. fmt \in Chunk /\ data \in Chunk
    BY <2>1 DEF Chunk, Tags
  <2>5. /\ w.chunks \in Seq(Chunk) /\ Len(w.chunks) = 2 /\ DOMAIN w.chunks = 1 .. 2
        /\ w.chunks[1] = fmt /\ w.chunks[2] = data
    <3> HIDE DEF fmt, data
    <3> DEFINE c == w.chunks
    <3>1. c = <<fmt, data>>
      BY <2>3
    <3> HIDE DEF c
    <3>2. c[1] = fmt /\ c[2] = data /\ Len(c) = 2
      BY <3>1
    <3>3. c \in Seq(Chunk)
      BY <2>4, <3>1
    <3>4. DOMAIN c = 1 .. 2
      BY <3>1
    <3> QED
      BY <3>2, <3>3, <3>4 DEF c
  <2>6. /\ w.chunks[1].tag = "fmt" /\ w.chunks[1].size = 18 /\ w.chunks[1].stored = 18
        /\ w.chunks[1].at = 20
        /\ w.chunks[2].tag = "data" /\ w.chunks[2].size = disk.data /\ w.chunks[2].stored = m
        /\ w.chunks[2].at = 46
    <3>1. fmt.tag = "fmt" /\ fmt.size = 18 /\ fmt.stored = 18 /\ fmt.at = 20
      OBVIOUS
    <3>2. data.tag = "data" /\ data.size = disk.data /\ data.stored = m /\ data.at = 46
      OBVIOUS
    <3> HIDE DEF fmt, data
    <3> QED
      BY <2>5, <3>1, <3>2
  <2> HIDE DEF fmt, data
  <2>7. w \in WavFile
    BY <2>1, <2>2, <2>3, <2>5 DEF WavFile
  <2>8. LaidOut(w)
    <3>1. \A i \in 1 .. 2 :
            w.chunks[i].at = 8 + (IF i = 1 THEN 12 ELSE w.chunks[i - 1].at + w.chunks[i - 1].stored)
      <4>1. w.chunks[1].at = 8 + 12 /\ w.chunks[2].at = 8 + (w.chunks[1].at + w.chunks[1].stored)
        BY <2>6
      <4>2. ASSUME NEW i \in 1 .. 2 PROVE i = 1 \/ (i = 2 /\ i - 1 = 1 /\ i # 1)
        OBVIOUS
      <4> QED
        BY <4>1, <4>2
    <3> QED
      BY <2>5, <3>1 DEF LaidOut, ChunkHeader, RiffHeader
  <2>9. Reaches(w, 2)
    <3>1. RiffRest(w) \in Nat /\ RiffRest(w) + 12 >= 46 + disk.data
      <4>1. CASE RiffStreamed(w.riff)
        <5>1. RiffRest(w) = Uint(-5)
          BY <4>1 DEF RiffRest
        <5>2. UintRange \in Nat \ {0} /\ Uint(-5) \in Nat /\ Uint(-5) + 12 >= UintRange
          BY UintFacts DEF Uint
        <5> QED
          BY <2>1, <5>1, <5>2
      <4>2. CASE ~RiffStreamed(w.riff)
        <5>1. w.riff = d + 38
          BY <2>1, <2>3, <4>2 DEF RiffStreamed
        <5>2. RiffRest(w) = Uint((d + 38) - 4)
          BY <4>2, <5>1 DEF RiffRest
        <5>3. (d + 38) - 4 = d + 34 /\ d + 34 \in 0 .. UintRange - 1
          BY <2>1, UintFacts
        <5>4. RiffRest(w) = d + 34
          BY <5>2, <5>3, UintFacts
        <5> QED
          BY <2>1, <5>4
      <4> QED
        BY <4>1, <4>2
    <3>2. ASSUME NEW j \in 1 .. 2
          PROVE  /\ w.chunks[j].at + w.chunks[j].size <= RiffRest(w) + RiffHeader
                 /\ ~TooShort(w.chunks[j])
      <4>1. /\ w.chunks[2].at + w.chunks[2].size <= RiffRest(w) + RiffHeader
            /\ ~TooShort(w.chunks[2])
        BY <2>1, <2>6, <3>1 DEF RiffHeader, TooShort
      <4>2. /\ w.chunks[1].at + w.chunks[1].size <= RiffRest(w) + RiffHeader
            /\ ~TooShort(w.chunks[1])
        BY <2>1, <2>6, <3>1 DEF RiffHeader, TooShort, PlainFormat
      <4>3. j = 1 \/ j = 2
        OBVIOUS
      <4> QED
        BY <4>1, <4>2, <4>3
    <3>3. 2 \in DOMAIN w.chunks /\ w.chunks[2].tag = "data"
      BY <2>5, <2>6
    <3> QED
      BY <3>2, <3>3 DEF Reaches
  <2>10. FileSize(w) - w.chunks[2].at = m
    <3>1. w.chunks # << >>
      BY <2>5, EmptySeq
    <3>2. FileSize(w) = w.chunks[2].at + w.chunks[2].stored
      BY <2>3, <2>5, <3>1 DEF FileSize
    <3> QED
      BY <2>1, <2>6, <3>2
  <2>11. Readable(w)
    <3>1. ASSUME NEW i \in DOMAIN w.chunks
          PROVE  /\ w.chunks[i].size < UintRange
                 /\ i < Len(w.chunks) => w.chunks[i].stored = w.chunks[i].size
                 /\ w.chunks[i].stored > w.chunks[i].size => w.chunks[i].size = 0
      <4>1. i = 1 \/ i = 2
        BY <2>5
      <4>2. /\ w.chunks[1].size < UintRange /\ w.chunks[1].stored = w.chunks[1].size
            /\ ~(w.chunks[1].stored > w.chunks[1].size)
        BY <2>1, <2>6, UintFacts
      <4>3. /\ w.chunks[2].size < UintRange
            /\ w.chunks[2].stored > w.chunks[2].size => w.chunks[2].size = 0
        BY <2>1, <2>6, UintFacts
      <4> QED
        BY <2>5, <4>1, <4>2, <4>3
    <3>2. 2 \in DOMAIN w.chunks
      BY <2>5
    <3> QED
      BY <2>3, <2>7, <2>8, <2>9, <3>1, <3>2 DEF Readable
  <2>12. w.chunks[2].size # 0 => m <= w.chunks[2].size
    BY <2>1, <2>6
  <2> QED
    BY <1>2, <2>5, <2>6, <2>9, <2>10, <2>11, <2>12 DEF w, m, nBlockAlign
<1> QED
  BY <1>1, <1>2

-------------------------------------------------------------------------------
(* The reader's invariant. *)

Least(a, b) == IF a <= b THEN a ELSE b

Data == wav.chunks[data_pos]

(* While wav_read_open goes from chunk to chunk, length is what the RIFF    *)
(* header leaves for them, and a streamed file's data is still ahead.       *)
OpenInv ==
  rd = "chunk" =>
    /\ ~wav.empty /\ pos = 0 /\ ~atEnd
    /\ streamed <=> RiffStreamed(wav.riff)
    /\ streamed => data_pos = 0
    /\ chunk <= Len(wav.chunks) =>
         length = RiffRest(wav) + RiffHeader + ChunkHeader - wav.chunks[chunk].at

(* A data chunk that can be reached is found. *)
FoundInv ==
  /\ data_pos # 0 => Data.tag = "data"
  /\ data_pos = 0 => data_length = 0 /\ pos = 0
  /\ data_pos = 0 /\ streamed => rd = "chunk"
  /\ \A i \in DOMAIN wav.chunks :
       Reaches(wav, i) => data_pos # 0 \/ (rd = "chunk" /\ chunk <= i)

(* How far the reader is in the data. *)
PosInv ==
  /\ streamed /\ data_pos # 0 => pos <= StoredBehind
  /\ ~streamed /\ data_pos # 0 =>
       /\ Data.size # 0 /\ data_length <= Data.size
       /\ pos = Least(Data.size - data_length, StoredBehind)
  /\ atEnd => pos = DataBytes

ReaderInv ==
  /\ ReaderTypeOK /\ Readable(wav)
  /\ rd = "unopened" => ReaderInit
  /\ OpenInv /\ FoundInv /\ PosInv

(* Which file is read. *)
SourceInv ==
  pc \in Ended /\ rd # "unopened" => wav = CaptureWav \/ (rd = "closed" /\ ~atEnd)

(* What the file holds from the data on, and what of it is the data. *)
LEMMA BehindFacts ==
  ASSUME Readable(wav), data_pos \in 0 .. Len(wav.chunks)
  PROVE  /\ StoredBehind \in Nat
         /\ data_pos # 0 =>
              /\ data_pos \in DOMAIN wav.chunks /\ Data.size \in Nat
              /\ StoredBehind = FileSize(wav) - Data.at
              /\ Min({Data.size, Data.stored}) = Least(Data.size, StoredBehind)
<1>1. wav \in WavFile
  BY DEF Readable
<1>2. /\ Len(wav.chunks) \in Nat /\ DOMAIN wav.chunks = 1 .. Len(wav.chunks)
      /\ \A i \in DOMAIN wav.chunks :
           wav.chunks[i].size \in Nat /\ wav.chunks[i].stored \in Nat /\ wav.chunks[i].at \in Nat
  BY <1>1, ChunkFacts
<1>3. CASE data_pos = 0
  <2>1. StoredBehind = FileSize(wav) - 0
    BY <1>3 DEF StoredBehind, DataStart
  <2>2. FileSize(wav) \in Nat
    <3>1. CASE wav.empty \/ wav.chunks = << >>
      BY <3>1 DEF FileSize, RiffHeader
    <3>2. CASE ~wav.empty /\ wav.chunks # << >>
      <4>1. FileSize(wav) = wav.chunks[Len(wav.chunks)].at + wav.chunks[Len(wav.chunks)].stored
        BY <3>2 DEF FileSize
      <4>2. Len(wav.chunks) # 0
        <5>1. wav.chunks \in Seq(Chunk)
          BY <1>1 DEF WavFile
        <5> QED
          BY <3>2, <5>1, EmptySeq
      <4>3. Len(wav.chunks) \in DOMAIN wav.chunks
        BY <1>2, <4>2
      <4> DEFINE a == wav.chunks[Len(wav.chunks)].at
                 s == wav.chunks[Len(wav.chunks)].stored
      <4>4. a \in Nat /\ s \in Nat /\ FileSize(wav) = a + s
        BY <1>2, <4>1, <4>3
      <4> HIDE DEF a, s
      <4> QED
        BY <4>4
    <3> QED
      BY <3>1, <3>2
  <2> QED
    BY <1>3, <2>1, <2>2
<1>4. CASE data_pos # 0
  <2>1. data_pos \in DOMAIN wav.chunks
    BY <1>2, <1>4
  <2>2. StoredBehind = FileSize(wav) - Data.at
    BY <1>4 DEF StoredBehind, DataStart, Data
  <2>3. /\ StoredBehind \in Nat /\ StoredBehind >= Data.stored
        /\ data_pos = Len(wav.chunks) => StoredBehind = Data.stored
    BY <2>1, <2>2, Layout DEF Data
  <2>4. /\ Data.size \in Nat /\ Data.stored \in Nat
        /\ data_pos < Len(wav.chunks) => Data.stored = Data.size
        /\ Data.stored > Data.size => Data.size = 0
    BY <1>2, <2>1 DEF Readable, Data
  <2>5. Min({Data.size, Data.stored}) = Least(Data.size, Data.stored)
    BY <2>4, MinOfTwo DEF Least
  <2>6. Least(Data.size, Data.stored) = Least(Data.size, StoredBehind)
    <3> DEFINE s == Data.size
               t == Data.stored
               b == StoredBehind
               n == Len(wav.chunks)
    <3>1. /\ s \in Nat /\ t \in Nat /\ b \in Nat /\ b >= t /\ n \in Nat /\ data_pos \in 1 .. n
          /\ data_pos = n => b = t
          /\ data_pos < n => t = s
      BY <1>2, <2>1, <2>3, <2>4
    <3> HIDE DEF s, t, b, n
    <3>2. Least(s, t) = Least(s, b)
      BY <3>1 DEF Least
    <3> QED
      BY <3>2 DEF s, t, b
  <2> QED
    BY <1>4, <2>1, <2>2, <2>3, <2>4, <2>5, <2>6
<1> QED
  BY <1>3, <1>4

(* What the chunk loop has before it and behind it. *)
LEMMA CurrentFacts ==
  ASSUME ReaderInv, rd = "chunk", chunk <= Len(wav.chunks)
  PROVE  /\ chunk \in DOMAIN wav.chunks /\ chunk \in Nat
         /\ Current.tag \in Tags
         /\ Current.size \in Nat /\ Current.at \in Nat
         /\ RiffRest(wav) \in Nat /\ length \in Nat
         /\ length = RiffRest(wav) + 20 - Current.at
<1>1. wav \in WavFile /\ chunk \in 1 .. Len(wav.chunks) + 1 /\ length \in 0 .. UintRange - 1
  BY DEF ReaderInv, Readable, ReaderTypeOK
<1>2. /\ Len(wav.chunks) \in Nat /\ DOMAIN wav.chunks = 1 .. Len(wav.chunks)
      /\ wav.riff \in Nat
      /\ \A i \in DOMAIN wav.chunks :
           /\ wav.chunks[i].tag \in Tags
           /\ wav.chunks[i].size \in Nat /\ wav.chunks[i].at \in Nat
  BY <1>1, ChunkFacts
<1>3. chunk \in DOMAIN wav.chunks /\ chunk \in Nat
  BY <1>1, <1>2
<1>4. RiffRest(wav) \in Nat
  <2>1. (IF RiffStreamed(wav.riff) THEN -1 ELSE wav.riff) - 4 \in Int
    BY <1>2
  <2> QED
    BY <2>1, UintFacts DEF RiffRest
<1>5. length \in Nat
  BY <1>1, UintFacts
<1>6. Current.size \in Nat /\ Current.at \in Nat /\ Current.tag \in Tags
  BY <1>2, <1>3 DEF Current
<1>7. length = RiffRest(wav) + 20 - Current.at
  <2>1. OpenInv
    BY DEF ReaderInv
  <2>2. length = RiffRest(wav) + RiffHeader + ChunkHeader - wav.chunks[chunk].at
    BY <2>1, Zenon DEF OpenInv
  <2>3. length = RiffRest(wav) + RiffHeader + ChunkHeader - Current.at
    BY <2>2, Zenon DEF Current
  <2> DEFINE r == RiffRest(wav)
             a == Current.at
  <2>4. length = r + RiffHeader + ChunkHeader - a /\ r \in Nat /\ a \in Nat
    BY <1>4, <1>6, <2>3
  <2> HIDE DEF r, a
  <2>5. length = r + 20 - a
    BY <2>4 DEF RiffHeader, ChunkHeader
  <2> QED
    BY <2>5 DEF r, a
<1> QED
  BY <1>3, <1>4, <1>5, <1>6, <1>7

(* As long as a data chunk can be reached the loop goes on. *)
LEMMA GoesOn ==
  ASSUME ReaderInv, rd = "chunk", NEW i \in DOMAIN wav.chunks, Reaches(wav, i), chunk <= i
  PROVE  AnotherChunk /\ ~BadChunk
<1>1. Len(wav.chunks) \in Nat /\ i \in 1 .. Len(wav.chunks) /\ chunk \in 1 .. Len(wav.chunks) + 1
  BY ChunkFacts DEF ReaderInv, Readable, ReaderTypeOK
<1>2. chunk \in 1 .. i /\ chunk <= Len(wav.chunks)
  BY <1>1
<1>3. /\ Current.size \in Nat /\ Current.at \in Nat /\ RiffRest(wav) \in Nat /\ length \in Nat
      /\ length = RiffRest(wav) + 20 - Current.at
  BY <1>2, CurrentFacts
<1>4. /\ Current.at + Current.size <= RiffRest(wav) + 12
      /\ ~TooShort(Current)
  BY <1>2 DEF Reaches, Current, RiffHeader
<1>5. length - 8 >= Current.size /\ length >= 8
  BY <1>3, <1>4
<1>6. ~(length - 8 < Current.size)
  BY <1>3, <1>5
<1> QED
  BY <1>2, <1>4, <1>5, <1>6 DEF AnotherChunk, BadChunk

LEMMA OpenRiffInv ==
  ASSUME ReaderInv, NEW f, Readable(f), OpenRiff(f)
  PROVE  ReaderInv'
<1>1. /\ rd = "unopened" /\ wav' = f /\ rd' \in {"opened", "chunk"}
      /\ chunk' = 1 /\ data_length' = 0 /\ format' = FALSE /\ data_pos' = 0
      /\ pos' = 0 /\ atEnd' = FALSE
  BY DEF OpenRiff, ReaderInv, ReaderInit
<1>2. /\ f.empty => rd' = "opened" /\ length' = 0 /\ streamed' = FALSE
      /\ ~f.empty => rd' = "chunk" /\ streamed' = RiffStreamed(f.riff) /\ length' = RiffRest(f)
  BY DEF OpenRiff, ReaderInv, ReaderInit, RiffRest
<1>3. /\ f \in WavFile /\ LaidOut(f) /\ (f.empty => f = EmptyFile) /\ f.empty \in BOOLEAN
      /\ Len(f.chunks) \in Nat /\ DOMAIN f.chunks = 1 .. Len(f.chunks)
      /\ f.riff \in Nat
  BY ChunkFacts DEF Readable
<1>4. RiffRest(f) \in 0 .. UintRange - 1 /\ UintRange \in Nat \ {0}
  <2>1. (IF RiffStreamed(f.riff) THEN -1 ELSE f.riff) - 4 \in Int
    BY <1>3
  <2> QED
    BY <2>1, UintFacts DEF RiffRest
<1>5. ReaderTypeOK'
  <2>1. {length, data_length}' \subseteq 0 .. UintRange - 1
    BY <1>1, <1>2, <1>3, <1>4
  <2>2. {streamed, format, atEnd}' \subseteq BOOLEAN
    <3>1. streamed' \in BOOLEAN
      BY <1>2, <1>3, Zenon DEF RiffStreamed
    <3> QED
      BY <1>1, <3>1, Zenon
  <2>3. chunk' \in 1 .. Len(f.chunks) + 1 /\ data_pos' \in 0 .. Len(f.chunks) /\ pos' \in Nat
    BY <1>1, <1>3
  <2> QED
    BY <1>1, <1>3, <2>1, <2>2, <2>3 DEF ReaderTypeOK
<1>6. OpenInv'
  <2> SUFFICES ASSUME rd' = "chunk"
               PROVE  /\ ~f.empty /\ pos' = 0 /\ ~atEnd'
                      /\ streamed' <=> RiffStreamed(f.riff)
                      /\ streamed' => data_pos' = 0
                      /\ 1 <= Len(f.chunks) =>
                           length' = RiffRest(f) + RiffHeader + ChunkHeader - f.chunks[1].at
    BY <1>1, Zenon DEF OpenInv
  <2>1. ~f.empty /\ length' = RiffRest(f) /\ (streamed' <=> RiffStreamed(f.riff))
    BY <1>2, Zenon
  <2>2. ASSUME 1 <= Len(f.chunks)
        PROVE  RiffRest(f) = RiffRest(f) + RiffHeader + ChunkHeader - f.chunks[1].at
    <3>1. 1 \in DOMAIN f.chunks
      BY <1>3, <2>2
    <3>2. f.chunks[1].at = 8 + 12
      BY <1>3, <3>1 DEF LaidOut, ChunkHeader, RiffHeader
    <3> QED
      BY <1>4, <3>2 DEF ChunkHeader, RiffHeader
  <2> QED
    BY <1>1, <2>1, <2>2, Zenon
<1>7. FoundInv'
  <2>1. data_pos' = 0 /\ streamed' => rd' = "chunk"
    BY <1>2, <1>3, Zenon
  <2>2. ASSUME NEW i \in DOMAIN f.chunks PROVE rd' = "chunk" /\ chunk' <= i
    <3>1. ~f.empty
      <4>1. ASSUME f.empty PROVE FALSE
        <5>1. f.chunks = << >>
          BY <1>3, <4>1, EmptyReadable
        <5> QED
          BY <1>3, <5>1, EmptySeq
      <4> QED
        BY <4>1
    <3>2. 1 <= i
      BY <1>3
    <3> QED
      BY <1>1, <1>2, <3>1, <3>2
  <2> QED
    BY <1>1, <2>1, <2>2 DEF FoundInv, Reaches
<1>8. PosInv'
  BY <1>1 DEF PosInv
<1> QED
  BY <1>1, <1>5, <1>6, <1>7, <1>8 DEF ReaderInv, Readable, LaidOut, Reaches, RiffRest

LEMMA OpenFailsInv ==
  ASSUME ReaderInv, OpenFails
  PROVE  ReaderInv'
<1>1. /\ rd = "unopened" /\ rd' = "closed" /\ ReaderInit
      /\ UNCHANGED <<wav, length, chunk, streamed, data_length, format, data_pos, pos, atEnd>>
  BY DEF OpenFails, ReaderInv, fields
<1>2. ReaderTypeOK'
  BY <1>1 DEF ReaderInv, ReaderTypeOK
<1>3. Readable(wav)'
  BY <1>1 DEF ReaderInv, Readable, LaidOut, Reaches, RiffRest
<1>4. OpenInv'
  BY <1>1 DEF OpenInv
<1>5. DOMAIN wav.chunks = {} /\ streamed = FALSE /\ atEnd = FALSE /\ data_pos = 0
  BY <1>1, EmptyReadable, EmptySeq DEF ReaderInit
<1>6. FoundInv'
  BY <1>1, <1>5 DEF FoundInv, ReaderInit
<1>7. PosInv'
  BY <1>1, <1>5 DEF PosInv
<1> QED
  BY <1>1, <1>2, <1>3, <1>4, <1>6, <1>7 DEF ReaderInv

(* What holds of the file holds as long as it is the same file. *)
LEMMA SameFile ==
  ASSUME wav' = wav
  PROVE  /\ Readable(wav) => Readable(wav)'
         /\ RiffRest(wav)' = RiffRest(wav) /\ FileSize(wav)' = FileSize(wav)
         /\ \A i \in DOMAIN wav.chunks : Reaches(wav, i)' <=> Reaches(wav, i)
         /\ data_pos' = data_pos => StoredBehind' = StoredBehind /\ Data' = Data
BY DEF Readable, LaidOut, Reaches, RiffRest, RiffStreamed, FileSize, StoredBehind, DataStart, Data

LEMMA ReadChunkInv ==
  ASSUME ReaderInv, ReadChunk
  PROVE  ReaderInv'
<1>1. /\ rd = "chunk" /\ AnotherChunk /\ ~BadChunk /\ chunk <= Len(wav.chunks)
      /\ wav' = wav /\ pos' = pos /\ atEnd' = atEnd
  BY DEF ReadChunk, AnotherChunk
<1>2. /\ chunk \in DOMAIN wav.chunks /\ chunk \in Nat
      /\ Current.size \in Nat /\ Current.at \in Nat
      /\ RiffRest(wav) \in Nat /\ length \in Nat
      /\ length = RiffRest(wav) + 20 - Current.at
  BY <1>1, CurrentFacts
<1>3. /\ length - 8 >= Current.size
      /\ length < UintRange /\ UintRange \in Nat \ {0}
  <2>1. ~(length - 8 < Current.size)
    BY <1>1 DEF BadChunk
  <2>2. length \in 0 .. UintRange - 1
    BY DEF ReaderInv, ReaderTypeOK
  <2> QED
    BY <1>2, <2>1, <2>2, UintFacts
<1>4. /\ ~wav.empty /\ pos = 0 /\ ~atEnd
      /\ streamed <=> RiffStreamed(wav.riff)
      /\ streamed => data_pos = 0
  BY <1>1, Zenon DEF ReaderInv, OpenInv
<1>5. /\ wav \in WavFile /\ Len(wav.chunks) \in Nat /\ DOMAIN wav.chunks = 1 .. Len(wav.chunks)
      /\ chunk \in 1 .. Len(wav.chunks)
  BY <1>2, ChunkFacts DEF ReaderInv, Readable
<1>6. Readable(wav)'
  BY <1>1, SameFile DEF ReaderInv
<1>7. /\ format' \in BOOLEAN /\ atEnd \in BOOLEAN /\ streamed \in BOOLEAN
      /\ OpenEnded \in BOOLEAN
  <2>1. {streamed, format, atEnd} \subseteq BOOLEAN
    BY DEF ReaderInv, ReaderTypeOK
  <2>2. streamed \in BOOLEAN /\ format \in BOOLEAN /\ atEnd \in BOOLEAN
    BY <2>1, Zenon
  <2>3. format' \in BOOLEAN
    BY <2>2, Zenon DEF ReadChunk, ReadFormat, FindData, SkipOther, fields
  <2> QED
    BY <2>2, <2>3, Zenon DEF OpenEnded
(* The next chunk follows this one. *)
<1>8. ASSUME GoOn
      PROVE  /\ rd' = "chunk" /\ chunk' = chunk + 1 /\ chunk' \in 1 .. Len(wav.chunks) + 1
             /\ length' \in 0 .. UintRange - 1
             /\ chunk' <= Len(wav.chunks) =>
                  length' = RiffRest(wav) + RiffHeader + ChunkHeader - wav.chunks[chunk'].at
  <2>1. rd' = "chunk" /\ chunk' = chunk + 1 /\ length' = length - 8 - Current.size
    BY <1>1, <1>8 DEF GoOn
  <2>2. length' \in 0 .. UintRange - 1
    BY <1>2, <1>3, <2>1
  <2>3. ASSUME chunk' <= Len(wav.chunks)
        PROVE  length' = RiffRest(wav) + RiffHeader + ChunkHeader - wav.chunks[chunk'].at
    <3>1. chunk' \in DOMAIN wav.chunks /\ chunk' # 1 /\ chunk' - 1 = chunk /\ chunk < Len(wav.chunks)
      <4> DEFINE n == Len(wav.chunks)
      <4>1. n \in Nat /\ chunk \in 1 .. n /\ chunk' = chunk + 1 /\ chunk' <= n
        BY <1>5, <2>1, <2>3
      <4> HIDE DEF n
      <4>2. chunk' \in 1 .. n /\ chunk' # 1 /\ chunk' - 1 = chunk /\ chunk < n
        BY <4>1
      <4> QED
        BY <1>5, <4>2 DEF n
    <3>2. wav.chunks[chunk'].at = 8 + (Current.at + Current.stored)
      BY <3>1 DEF ReaderInv, Readable, LaidOut, ChunkHeader, Current
    <3>3. Current.stored = Current.size
      BY <1>2, <3>1 DEF ReaderInv, Readable, Current
    <3> DEFINE r == RiffRest(wav)
               a == Current.at
               s == Current.size
               b == wav.chunks[chunk'].at
    <3>4. /\ r \in Nat /\ a \in Nat /\ s \in Nat /\ b = 8 + (a + s)
          /\ length = r + 20 - a /\ length' = length - 8 - s
      BY <1>2, <2>1, <3>2, <3>3
    <3> HIDE DEF r, a, s, b
    <3>5. length' = r + RiffHeader + ChunkHeader - b
      BY <3>4 DEF RiffHeader, ChunkHeader
    <3> QED
      BY <3>5 DEF r, b
  <2>4. chunk' \in 1 .. Len(wav.chunks) + 1
    BY <1>5, <2>1
  <2> QED
    BY <2>1, <2>2, <2>3, <2>4
<1>9. CASE ReadFormat \/ SkipOther
  <2>1. GoOn /\ UNCHANGED <<streamed, data_length, data_pos>> /\ Current.tag # "data"
    BY <1>9 DEF ReadFormat, SkipOther, fields
  <2>2. /\ rd' = "chunk" /\ chunk' = chunk + 1 /\ chunk' \in 1 .. Len(wav.chunks) + 1
        /\ length' \in 0 .. UintRange - 1
        /\ chunk' <= Len(wav.chunks) =>
             length' = RiffRest(wav) + RiffHeader + ChunkHeader - wav.chunks[chunk'].at
    BY <1>8, <2>1
  <2>3. ReaderTypeOK'
    <3>1. {length, data_length}' \subseteq 0 .. UintRange - 1
      BY <2>1, <2>2 DEF ReaderInv, ReaderTypeOK
    <3>2. {streamed, format, atEnd}' \subseteq BOOLEAN
      BY <1>1, <1>7, <2>1, Zenon
    <3>3. data_pos' \in 0 .. Len(wav.chunks) /\ pos' \in Nat
      BY <1>1, <2>1 DEF ReaderInv, ReaderTypeOK
    <3> QED
      BY <1>1, <1>5, <2>2, <3>1, <3>2, <3>3 DEF ReaderTypeOK
  <2>4. OpenInv'
    <3>1. streamed' <=> RiffStreamed(wav'.riff)
      BY <1>1, <1>4, <2>1, Zenon
    <3> QED
      BY <1>1, <1>4, <2>1, <2>2, <3>1, SameFile DEF OpenInv
  <2>5. FoundInv'
    <3>1. ASSUME NEW i \in DOMAIN wav.chunks, Reaches(wav, i)
          PROVE  data_pos # 0 \/ chunk + 1 <= i
      <4>1. data_pos # 0 \/ chunk <= i
        BY <1>1, <3>1 DEF ReaderInv, FoundInv
      <4>2. chunk # i
        BY <2>1, <3>1 DEF Reaches, Current
      <4>3. i \in Nat
        BY <1>5
      <4> QED
        BY <1>2, <4>1, <4>2, <4>3
    <3>2. /\ data_pos # 0 => Data.tag = "data"
          /\ data_pos = 0 => data_length = 0 /\ pos = 0
      BY DEF ReaderInv, FoundInv
    <3>3. Data' = Data /\ \A i \in DOMAIN wav.chunks : Reaches(wav, i)' <=> Reaches(wav, i)
      BY <1>1, <2>1, SameFile
    <3> QED
      BY <1>1, <2>1, <2>2, <3>1, <3>2, <3>3 DEF FoundInv
  <2>6. PosInv'
    <3>1. StoredBehind' = StoredBehind /\ Data' = Data
      BY <1>1, <2>1, SameFile
    <3> QED
      BY <1>1, <1>4, <2>1, <3>1 DEF ReaderInv, PosInv, Least
  <2> QED
    BY <1>1, <1>6, <2>2, <2>3, <2>4, <2>5, <2>6 DEF ReaderInv
<1>10. CASE FindData
  <2>1. /\ Current.tag = "data" /\ data_pos' = chunk /\ data_length' = Current.size
        /\ streamed' = OpenEnded /\ data_pos' # 0
    BY <1>5, <1>10 DEF FindData
  <2>2. \/ OpenEnded /\ rd' = "opened" /\ UNCHANGED <<length, chunk>>
        \/ ~OpenEnded /\ GoOn
    BY <1>10 DEF FindData
  <2>3. /\ rd' \in {"opened", "chunk"} /\ chunk' \in 1 .. Len(wav.chunks) + 1
        /\ length' \in 0 .. UintRange - 1
    <3>1. CASE GoOn
      BY <1>8, <3>1
    <3>2. CASE rd' = "opened" /\ UNCHANGED <<length, chunk>>
      BY <3>2 DEF ReaderInv, ReaderTypeOK
    <3> QED
      BY <2>2, <3>1, <3>2
  <2>4. ReaderTypeOK'
    <3>1. {length, data_length}' \subseteq 0 .. UintRange - 1
      <4>1. data_length' \in 0 .. UintRange - 1
        BY <1>2, <1>3, <2>1
      <4> QED
        BY <2>3, <4>1
    <3>2. {streamed, format, atEnd}' \subseteq BOOLEAN
      BY <1>1, <1>7, <2>1, Zenon
    <3>3. data_pos' \in 0 .. Len(wav.chunks) /\ pos' \in Nat
      BY <1>1, <1>4, <1>5, <2>1
    <3> QED
      BY <1>1, <1>5, <2>3, <3>1, <3>2, <3>3 DEF ReaderTypeOK
  <2>5. OpenInv'
    <3>1. CASE rd' = "opened"
      BY <3>1 DEF OpenInv
    <3>2. CASE ~OpenEnded /\ GoOn
      <4>1. ~streamed' /\ (streamed' <=> RiffStreamed(wav'.riff))
        BY <1>1, <1>4, <2>1, <3>2, Zenon DEF OpenEnded
      <4>2. /\ chunk' <= Len(wav.chunks) =>
                 length' = RiffRest(wav) + RiffHeader + ChunkHeader - wav.chunks[chunk'].at
        BY <1>8, <3>2
      <4> QED
        BY <1>1, <1>4, <4>1, <4>2, SameFile DEF OpenInv
    <3> QED
      BY <2>2, <3>1, <3>2
  <2>6. FoundInv'
    BY <1>1, <2>1 DEF FoundInv, Data, Current
  <2>7. StoredBehind' \in Nat /\ Data' = Current
    <3>1. Data' = Current
      BY <1>1, <2>1 DEF Data, Current
    <3>2. StoredBehind' = FileSize(wav) - Current.at
      <4>1. FileSize(wav)' = FileSize(wav)
        BY <1>1, SameFile
      <4>2. DataStart' = Current.at
        BY <1>1, <2>1 DEF DataStart, Current
      <4>3. StoredBehind' = FileSize(wav)' - DataStart'
        BY DEF StoredBehind
      <4> QED
        BY <4>1, <4>2, <4>3
    <3>3. FileSize(wav) - Current.at \in Nat
      BY <1>2, Layout DEF ReaderInv, Current
    <3> QED
      BY <3>1, <3>2, <3>3
  <2>8. PosInv'
    <3>1. streamed' /\ data_pos' # 0 => pos' <= StoredBehind'
      BY <1>1, <1>4, <2>7
    <3>2. ASSUME ~streamed'
          PROVE  /\ Data'.size # 0 /\ data_length' <= Data'.size
                 /\ pos' = Least(Data'.size - data_length', StoredBehind')
      <4>1. Current.size # 0
        BY <2>1, <3>2, Zenon DEF OpenEnded
      <4>2. data_length' = Data'.size /\ Data'.size \in Nat
        BY <1>2, <2>1, <2>7
      <4>3. Data'.size - data_length' = 0
        BY <4>2
      <4>4. Least(0, StoredBehind') = 0
        BY <2>7 DEF Least
      <4> QED
        BY <1>1, <1>4, <2>7, <4>1, <4>2, <4>3, <4>4
    <3>3. ~atEnd'
      BY <1>1, <1>4
    <3> QED
      BY <3>1, <3>2, <3>3 DEF PosInv, Least
  <2> QED
    BY <1>6, <2>3, <2>4, <2>5, <2>6, <2>8 DEF ReaderInv
<1> QED
  BY <1>9, <1>10 DEF ReadChunk

LEMMA ChunksEndInv ==
  ASSUME ReaderInv, ChunksEnd
  PROVE  ReaderInv'
<1>1. /\ rd = "chunk" /\ rd' = "opened" /\ (AnotherChunk => BadChunk)
      /\ UNCHANGED <<wav, length, chunk, streamed, data_length, data_pos, pos, atEnd>>
      /\ format' = (format \/ PlainPartRead)
  BY DEF ChunksEnd
<1>2. ReaderTypeOK'
  <2>1. {streamed, format, atEnd}' \subseteq BOOLEAN
    <3>1. {streamed, format, atEnd} \subseteq BOOLEAN
      BY DEF ReaderInv, ReaderTypeOK
    <3> QED
      BY <1>1, <3>1, Zenon
  <2> QED
    BY <1>1, <2>1 DEF ReaderInv, ReaderTypeOK
<1>3. Readable(wav)'
  BY <1>1, SameFile DEF ReaderInv
<1>4. OpenInv'
  BY <1>1 DEF OpenInv
<1>5. ASSUME NEW i \in DOMAIN wav.chunks, Reaches(wav, i) PROVE data_pos # 0
  <2>1. ~(chunk <= i)
    BY <1>1, <1>5, GoesOn
  <2> QED
    BY <1>5, <2>1 DEF ReaderInv, FoundInv
<1>6. ~(streamed /\ data_pos = 0)
  <2> SUFFICES ASSUME streamed, data_pos = 0 PROVE FALSE
    OBVIOUS
  <2>1. ~wav.empty /\ RiffStreamed(wav.riff)
    BY <1>1, Zenon DEF ReaderInv, OpenInv
  <2>2. PICK i \in DOMAIN wav.chunks : Reaches(wav, i)
    BY <2>1 DEF ReaderInv, Readable
  <2> QED
    BY <1>5, <2>2
<1>7. FoundInv'
  <2>1. /\ data_pos # 0 => Data.tag = "data"
        /\ data_pos = 0 => data_length = 0 /\ pos = 0
    BY DEF ReaderInv, FoundInv
  <2>2. Data' = Data /\ \A i \in DOMAIN wav.chunks : Reaches(wav, i)' <=> Reaches(wav, i)
    BY <1>1, SameFile
  <2>3. ~(data_pos' = 0 /\ streamed')
    BY <1>1, <1>6, Zenon
  <2> QED
    BY <1>1, <1>5, <2>1, <2>2, <2>3 DEF FoundInv
<1>8. PosInv'
  <2>1. StoredBehind' = StoredBehind /\ Data' = Data /\ ~atEnd
    BY <1>1, SameFile DEF ReaderInv, OpenInv
  <2> QED
    BY <1>1, <2>1 DEF ReaderInv, PosInv, Least
<1> QED
  BY <1>1, <1>2, <1>3, <1>4, <1>7, <1>8 DEF ReaderInv

LEMMA CloseInv ==
  ASSUME ReaderInv, wav_read_close
  PROVE  ReaderInv'
<1>1. /\ rd = "opened" /\ rd' = "closed"
      /\ UNCHANGED <<wav, length, chunk, streamed, data_length, format, data_pos, pos, atEnd>>
  BY DEF wav_read_close, fields
<1>2. ReaderTypeOK'
  BY <1>1 DEF ReaderInv, ReaderTypeOK
<1>3. Readable(wav)'
  BY <1>1, SameFile DEF ReaderInv
<1>4. OpenInv'
  BY <1>1 DEF OpenInv
<1>5. /\ StoredBehind' = StoredBehind /\ Data' = Data
      /\ \A i \in DOMAIN wav.chunks : Reaches(wav, i)' <=> Reaches(wav, i)
  BY <1>1, SameFile
<1>6. FoundInv'
  BY <1>1, <1>5 DEF ReaderInv, FoundInv
<1>7. DataBytes' = DataBytes
  BY <1>1, <1>5 DEF DataBytes
<1>8. PosInv'
  BY <1>1, <1>5, <1>7 DEF ReaderInv, PosInv, Least
<1> QED
  BY <1>1, <1>2, <1>3, <1>4, <1>6, <1>8 DEF ReaderInv

(* What is asked for is cut to what the data chunk claims, and what is read *)
(* to what the file has; nothing is read at the end of both only.           *)
LEMMA ReadDataInv ==
  ASSUME ReaderInv, NEW n \in ReadSizes, wav_read_data(n)
  PROVE  ReaderInv'
<1> DEFINE c == Cut(n)
           b == StoredBehind
           got == Least(c, b - pos)
<1>1. /\ rd = "opened" /\ ~atEnd
      /\ UNCHANGED <<rd, wav, length, chunk, streamed, format, data_pos>>
      /\ data_length' = Uint(data_length - c)
      /\ pos' = pos + Min({c, b - pos}) /\ atEnd' = (Min({c, b - pos}) = 0)
  BY DEF wav_read_data
<1>2. /\ n \in Nat \ {0} /\ UintRange \in Nat \ {0}
      /\ data_length \in 0 .. UintRange - 1 /\ pos \in Nat
      /\ data_pos \in 0 .. Len(wav.chunks)
  BY ReaderAssumption, UintFacts DEF ReaderInv, ReaderTypeOK
<1>3. /\ b \in Nat
      /\ data_pos # 0 =>
           /\ Data.size \in Nat
           /\ Min({Data.size, Data.stored}) = Least(Data.size, b)
  BY <1>2, BehindFacts DEF ReaderInv
<1>4. /\ streamed => c = n
      /\ ~streamed => c = Least(n, data_length)
      /\ c \in Nat
  BY <1>2 DEF Cut, Least
<1>5. /\ streamed /\ data_pos # 0 => pos <= b
      /\ ~streamed /\ data_pos # 0 =>
           /\ Data.size # 0 /\ data_length <= Data.size
           /\ pos = Least(Data.size - data_length, b)
      /\ data_pos # 0 => Data.tag = "data"
      /\ data_pos = 0 => data_length = 0 /\ pos = 0 /\ ~streamed
  BY <1>1 DEF ReaderInv, PosInv, FoundInv
<1>6. /\ StoredBehind' = b /\ Data' = Data
      /\ \A i \in DOMAIN wav.chunks : Reaches(wav, i)' <=> Reaches(wav, i)
  BY <1>1, SameFile
<1>7. DataBytes = IF data_pos = 0 THEN 0 ELSE IF streamed THEN b ELSE Least(Data.size, b)
  BY <1>3 DEF DataBytes, Data
<1>8. DataBytes' = DataBytes
  BY <1>1, <1>6 DEF DataBytes
<1> HIDE DEF c, b
<1>9. pos <= b /\ b - pos \in Nat
  <2>1. CASE data_pos = 0
    BY <1>2, <1>3, <1>5, <2>1
  <2>2. CASE data_pos # 0 /\ streamed
    BY <1>2, <1>3, <1>5, <2>2
  <2>3. CASE data_pos # 0 /\ ~streamed
    <3>1. pos = Least(Data.size - data_length, b)
      BY <1>5, <2>3
    <3>2. Data.size - data_length \in Int
      BY <1>2, <1>3, <2>3
    <3>3. pos <= b
      BY <1>3, <3>1, <3>2 DEF Least
    <3> QED
      BY <1>2, <1>3, <3>3
  <2> QED
    BY <2>1, <2>2, <2>3
<1>10. Min({c, b - pos}) = got /\ got \in Nat
  <2>1. Min({c, b - pos}) = got
    BY <1>4, <1>9, MinOfTwo DEF Least
  <2> QED
    BY <1>4, <1>9, <2>1 DEF Least
<1>11. pos' = pos + got /\ atEnd' = (got = 0)
  BY <1>1, <1>10
<1>12. ReaderTypeOK'
  <2>1. data_length' \in 0 .. UintRange - 1
    <3>1. data_length - c \in Int
      BY <1>2, <1>4
    <3> QED
      BY <1>1, <3>1, UintFacts
  <2>2. pos' \in Nat /\ atEnd' \in BOOLEAN
    <3> HIDE DEF got
    <3> QED
      BY <1>2, <1>10, <1>11
  <2>3. {streamed, format, atEnd}' \subseteq BOOLEAN
    <3>1. {streamed, format, atEnd} \subseteq BOOLEAN
      BY DEF ReaderInv, ReaderTypeOK
    <3> QED
      BY <1>1, <2>2, <3>1, Zenon
  <2>4. {length, data_length}' \subseteq 0 .. UintRange - 1
    BY <1>1, <2>1 DEF ReaderInv, ReaderTypeOK
  <2> QED
    BY <1>1, <2>2, <2>3, <2>4 DEF ReaderInv, ReaderTypeOK
<1>13. OpenInv'
  BY <1>1 DEF OpenInv
<1>14. PosInv'
  <2>1. CASE data_pos = 0
    <3>1. c = 0 /\ got = 0 /\ pos' = 0
      BY <1>2, <1>4, <1>5, <1>9, <1>11, <2>1 DEF Least
    <3> QED
      BY <1>1, <1>7, <1>8, <2>1, <3>1 DEF PosInv
  <2>2. CASE data_pos # 0 /\ streamed
    <3>1. pos' <= b
      BY <1>2, <1>3, <1>4, <1>9, <1>11 DEF Least
    <3>2. atEnd' => pos' = b
      <4> SUFFICES ASSUME got = 0 PROVE pos' = b
        BY <1>11
      <4>1. c = n
        BY <1>4, <2>2
      <4> QED
        BY <1>2, <1>3, <1>9, <1>11, <4>1 DEF Least
    <3> QED
      BY <1>1, <1>6, <1>7, <1>8, <2>2, <3>1, <3>2 DEF PosInv
  <2>3. CASE data_pos # 0 /\ ~streamed
    <3> DEFINE s == Data.size
               d == data_length
    <3>1. /\ s \in Nat /\ s # 0 /\ d \in Nat /\ d <= s /\ d < UintRange
          /\ c = Least(n, d) /\ pos = Least(s - d, b)
      BY <1>2, <1>3, <1>4, <1>5, <2>3
    <3>2. data_length' = d - c /\ d - c <= s
      <4>1. d - c \in 0 .. UintRange - 1 /\ d - c <= s
        BY <1>2, <3>1 DEF Least
      <4> QED
        BY <1>1, <4>1, UintFacts
    <3> HIDE DEF s, d
    <3>3. pos' = Least(s - (d - c), b)
      BY <1>2, <1>3, <1>4, <1>11, <3>1 DEF Least
    <3>4. atEnd' => pos' = Least(s, b)
      <4> SUFFICES ASSUME got = 0 PROVE pos' = Least(s, b)
        BY <1>11
      <4>1. pos' = pos
        BY <1>2, <1>11
      <4>2. d = 0 \/ pos = b
        BY <1>2, <1>3, <1>4, <3>1 DEF Least
      <4> QED
        BY <1>2, <1>3, <3>1, <4>1, <4>2 DEF Least
    <3>5. /\ Data'.size # 0 /\ data_length' <= Data'.size
          /\ pos' = Least(Data'.size - data_length', StoredBehind')
      BY <1>6, <3>1, <3>2, <3>3 DEF s
    <3>6. atEnd' => pos' = DataBytes'
      BY <1>7, <1>8, <2>3, <3>4 DEF s
    <3> QED
      BY <1>1, <2>3, <3>5, <3>6 DEF PosInv, Least
  <2> QED
    BY <2>1, <2>2, <2>3
<1>15. FoundInv'
  <2>1. data_pos = 0 => data_length' = 0 /\ pos' = 0
    <3> SUFFICES ASSUME data_pos = 0 PROVE data_length' = 0 /\ pos' = 0
      OBVIOUS
    <3>1. c = 0 /\ got = 0
      BY <1>2, <1>4, <1>5, <1>9 DEF Least
    <3>2. data_length - c = 0 /\ 0 \in 0 .. UintRange - 1
      BY <1>2, <1>5, <3>1
    <3> QED
      BY <1>1, <1>5, <1>11, <3>1, <3>2, UintFacts
  <2> QED
    BY <1>1, <1>5, <1>6, <2>1 DEF ReaderInv, FoundInv
<1> QED
  BY <1>1, <1>12, <1>13, <1>14, <1>15, SameFile DEF ReaderInv

-------------------------------------------------------------------------------
(* The program and the reader together. *)

Inv == SampleInv /\ ReaderInv /\ SourceInv

LEMMA InitInv == Init => Inv
<1> SUFFICES ASSUME Init PROVE Inv
  OBVIOUS
<1>1. SampleInv
  BY SampleInitInv DEF Init
<1>2. ReaderInit
  BY DEF Init
<1>3. /\ wav = EmptyFile /\ Readable(wav) /\ wav.chunks = << >> /\ Len(wav.chunks) = 0
      /\ DOMAIN wav.chunks = {} /\ wav \in WavFile
  BY <1>2, EmptyReadable, EmptySeq DEF ReaderInit, Readable
<1>4. ReaderTypeOK
  <2>1. {length, data_length} \subseteq 0 .. UintRange - 1
    BY <1>2, UintFacts DEF ReaderInit
  <2>2. {streamed, format, atEnd} \subseteq BOOLEAN
    BY <1>2 DEF ReaderInit
  <2>3. chunk \in 1 .. Len(wav.chunks) + 1 /\ data_pos \in 0 .. Len(wav.chunks) /\ pos \in Nat
    BY <1>2, <1>3 DEF ReaderInit
  <2>4. rd = "unopened"
    BY <1>2 DEF ReaderInit
  <2> QED
    BY <1>3, <2>1, <2>2, <2>3, <2>4 DEF ReaderTypeOK
<1>5. OpenInv /\ FoundInv /\ PosInv /\ SourceInv
  BY <1>2, <1>3 DEF ReaderInit, OpenInv, FoundInv, PosInv, SourceInv
<1> QED
  BY <1>1, <1>2, <1>3, <1>4, <1>5 DEF Inv, ReaderInv

LEMMA ReaderUnchanged ==
  ASSUME ReaderInv, UNCHANGED readerVars
  PROVE  ReaderInv'
<1>1. UNCHANGED <<rd, wav, length, chunk, streamed, data_length, format, data_pos, pos, atEnd>>
  BY DEF readerVars, fields
<1>2. ReaderTypeOK' /\ (rd' = "unopened" => ReaderInit')
  BY <1>1 DEF ReaderInv, ReaderTypeOK, ReaderInit
<1>3. /\ StoredBehind' = StoredBehind /\ Data' = Data /\ Readable(wav)'
      /\ RiffRest(wav)' = RiffRest(wav)
      /\ \A i \in DOMAIN wav.chunks : Reaches(wav, i)' <=> Reaches(wav, i)
  BY <1>1, SameFile DEF ReaderInv
<1>4. DataBytes' = DataBytes
  BY <1>1, <1>3 DEF DataBytes
<1>5. OpenInv'
  BY <1>1, <1>3 DEF ReaderInv, OpenInv
<1>6. FoundInv'
  BY <1>1, <1>3 DEF ReaderInv, FoundInv
<1>7. PosInv'
  BY <1>1, <1>3, <1>4 DEF ReaderInv, PosInv, Least
<1> QED
  BY <1>2, <1>3, <1>5, <1>6, <1>7 DEF ReaderInv

LEMMA NextInv ==
  ASSUME Inv, [Next]_vars
  PROVE  Inv'
<1>1. SampleInv'
  BY SampleInvNext DEF Inv
<1>2. CASE SampleStep
  <2>1. ReaderInv'
    BY <1>2, ReaderUnchanged DEF Inv, SampleStep
  <2>2. SourceInv'
    BY <1>2 DEF SampleStep, readerVars, SourceInv
  <2> QED
    BY <1>1, <2>1, <2>2 DEF Inv
<1>3. CASE ReaderStep
  <2>1. UNCHANGED <<pc, disk>> /\ CaptureWav' = CaptureWav
    BY <1>3 DEF ReaderStep, sampleVars, fileVars, CaptureWav
  <2>2. CASE pc \in Ended /\ OpenRiff(CaptureWav)
    <3>1. ReaderInv'
      <4>1. Readable(CaptureWav)
        BY CaptureFacts DEF Inv
      <4> DEFINE w == CaptureWav
      <4> HIDE DEF w
      <4>2. OpenRiff(w) /\ Readable(w)
        BY <2>2, <4>1 DEF w
      <4> QED
        BY <4>2, OpenRiffInv DEF Inv
    <3>2. SourceInv'
      BY <2>1, <2>2 DEF OpenRiff, SourceInv
    <3> QED
      BY <1>1, <3>1, <3>2 DEF Inv
  <2>3. CASE pc = "ALFWInit" /\ \E f \in ForeignFiles : OpenRiff(f)
    <3>1. PICK f \in ForeignFiles : OpenRiff(f)
      BY <2>3
    <3>2. ReaderInv'
      BY <3>1, ForeignReadable, OpenRiffInv DEF Inv
    <3>3. SourceInv'
      BY <2>1, <2>3 DEF SourceInv, Ended
    <3> QED
      BY <1>1, <3>2, <3>3 DEF Inv
  <2>4. CASE Reader
    <3>1. ReaderInv'
      BY <2>4, OpenFailsInv, ReadChunkInv, ChunksEndInv, ReadDataInv, CloseInv DEF Inv, Reader
    <3>2. wav' = wav
      BY <2>4 DEF Reader, OpenFails, ReadChunk, ChunksEnd, wav_read_data, wav_read_close
    <3>3. \/ rd = "unopened" /\ rd' = "closed" /\ ~atEnd'
          \/ rd \in {"chunk", "opened"}
      BY <2>4 DEF Reader, OpenFails, ReadChunk, ChunksEnd, wav_read_data, wav_read_close,
         Inv, ReaderInv, ReaderInit
    <3>4. SourceInv'
      BY <2>1, <3>2, <3>3 DEF Inv, SourceInv
    <3> QED
      BY <1>1, <3>1, <3>4 DEF Inv
  <2> QED
    BY <1>3, <2>2, <2>3, <2>4 DEF ReaderStep, OpenToRead
<1>4. CASE UNCHANGED vars
  <2>1. UNCHANGED readerVars /\ UNCHANGED <<pc, disk, rd, wav, atEnd>>
    BY <1>4 DEF vars, sampleVars, fileVars, readerVars
  <2>2. ReaderInv'
    BY <2>1, ReaderUnchanged DEF Inv
  <2>3. SourceInv'
    BY <2>1 DEF Inv, SourceInv, CaptureWav
  <2> QED
    BY <1>1, <2>2, <2>3 DEF Inv
<1> QED
  BY <1>2, <1>3, <1>4 DEF Next, Finished

LEMMA Invariant == Spec => []Inv
BY InitInv, NextInv, PTL DEF Spec

(* Every variable of the program and of the reader keeps its type: the      *)
(* lengths stay in a uint32_t, no request is larger than what is there.     *)
THEOREM TypeCorrect == Spec => []TypeOK
<1>1. Inv => TypeOK
  BY DEF Inv, SampleInv, Types, ControlInv, HeldInv, FileInv, ReaderInv, TypeOK
<1> QED
  BY <1>1, Invariant, PTL

(* However the recording ended, and whatever the sizes of the reads, the    *)
(* reader gets all of the data and nothing but the data.                    *)
THEOREM RoundTripCorrect == Spec => []RoundTrip
<1>1. ASSUME Inv PROVE RoundTrip
  <2>1. /\ Readable(wav) /\ data_pos \in 0 .. Len(wav.chunks) /\ pos \in Nat
        /\ {streamed, format, atEnd} \subseteq BOOLEAN /\ data_length \in Nat
        /\ rd \in {"unopened", "chunk", "opened", "closed"}
    BY <1>1, UintFacts DEF Inv, ReaderInv, ReaderTypeOK
  <2>2. /\ StoredBehind \in Nat
        /\ data_pos # 0 =>
             /\ data_pos \in DOMAIN wav.chunks /\ Data.size \in Nat
             /\ StoredBehind = FileSize(wav) - Data.at
             /\ Min({Data.size, Data.stored}) = Least(Data.size, StoredBehind)
    BY <2>1, BehindFacts
  <2>3. DataBytes = IF data_pos = 0 THEN 0
                    ELSE IF streamed THEN StoredBehind ELSE Least(Data.size, StoredBehind)
    BY <2>2 DEF DataBytes, Data
  <2>4. /\ data_pos = 0 => pos = 0
        /\ data_pos # 0 => Data.tag = "data"
        /\ streamed /\ data_pos # 0 => pos <= StoredBehind
        /\ ~streamed /\ data_pos # 0 =>
             /\ Data.size # 0 /\ data_length <= Data.size
             /\ pos = Least(Data.size - data_length, StoredBehind)
    BY <1>1 DEF Inv, ReaderInv, FoundInv, PosInv
  <2>5. pos <= DataBytes
    <3>1. CASE data_pos = 0
      BY <2>3, <2>4, <3>1
    <3>2. CASE data_pos # 0 /\ streamed
      BY <2>3, <2>4, <3>2
    <3>3. CASE data_pos # 0 /\ ~streamed
      <4> DEFINE s == Data.size
                 b == StoredBehind
      <4>1. /\ s \in Nat /\ b \in Nat /\ data_length \in Nat
            /\ pos = Least(s - data_length, b) /\ DataBytes = Least(s, b)
        BY <2>1, <2>2, <2>3, <2>4, <3>3
      <4> HIDE DEF s, b
      <4> QED
        BY <4>1 DEF Least
    <3> QED
      BY <3>1, <3>2, <3>3
  <2>6. atEnd => pos = DataBytes
    BY <1>1 DEF Inv, ReaderInv, PosInv
  <2>7. ASSUME atEnd, pc \in Ended PROVE DataBytes = nBlockAlign * disk.samples
    <3>1. wav = CaptureWav /\ rd # "chunk"
      BY <1>1, <2>7 DEF Inv, ReaderInv, ReaderInit, OpenInv, SourceInv
    <3>2. CASE disk.riff = NoHeader
      <4>1. wav = EmptyFile /\ disk.samples = 0
        BY <1>1, <3>1, <3>2, CaptureFacts DEF Inv
      <4>2. Len(wav.chunks) = 0
        BY <4>1, EmptyReadable, EmptySeq
      <4>3. data_pos = 0
        BY <2>1, <4>2
      <4> QED
        BY <2>3, <4>1, <4>3 DEF nBlockAlign
    <3>3. CASE disk.riff # NoHeader
      <4>1. /\ Len(wav.chunks) = 2 /\ Reaches(wav, 2) /\ wav.chunks[1].tag = "fmt"
            /\ wav.chunks[2].size # 0 => nBlockAlign * disk.samples <= wav.chunks[2].size
            /\ FileSize(wav) - wav.chunks[2].at = nBlockAlign * disk.samples
        BY <1>1, <3>1, <3>3, CaptureFacts DEF Inv
      <4>2. data_pos # 0
        BY <1>1, <3>1, <4>1 DEF Inv, ReaderInv, FoundInv, Reaches
      <4>3. data_pos = 2
        <5>1. data_pos \in 0 .. 2
          BY <2>1, <4>1
        <5>2. data_pos # 1
          BY <2>4, <4>1, <4>2 DEF Data
        <5> QED
          BY <4>2, <5>1, <5>2
      <4> DEFINE m == nBlockAlign * disk.samples
                 s == Data.size
      <4>4. StoredBehind = m /\ s \in Nat /\ (s # 0 => m <= s) /\ m \in Nat
        BY <2>2, <4>1, <4>3 DEF Data
      <4>5. ~streamed => s # 0
        BY <2>4, <4>2
      <4>6. DataBytes = IF streamed THEN StoredBehind ELSE Least(s, StoredBehind)
        BY <2>3, <4>2
      <4> HIDE DEF m, s
      <4>7. CASE streamed
        BY <4>4, <4>6, <4>7 DEF m
      <4>8. CASE ~streamed
        <5>1. Least(s, m) = m
          BY <4>4, <4>5, <4>8 DEF Least
        <5> QED
          BY <4>4, <4>6, <4>8, <5>1 DEF m
      <4> QED
        BY <4>7, <4>8
    <3> QED
      BY <3>2, <3>3
  <2> QED
    BY <2>5, <2>6, <2>7 DEF RoundTrip
<1> QED
  BY <1>1, Invariant, PTL
================================================================================
