-------------------------- MODULE CaptureToWav_proofs -------------------------
(***************************************************************************)
(* Proofs about CaptureToWav, for every buffer size, number of frames,     *)
(* clock granularity and for both kinds of file system.                    *)
(***************************************************************************)
EXTENDS CaptureToWav, SequenceTheorems, TLAPS

(* The program's format: frames and samples are two bytes, and two blocks   *)
(* fit in the device's buffer.                                              *)
LEMMA Sizes ==
  /\ blockAlign = 2
  /\ SampleBytes = 2
  /\ InternalBufSize \in Nat \ {0}
  /\ BlockSamples \in Nat
  /\ BlockSamples = InternalBufSize \div 2
  /\ 2 * BlockSamples <= InternalBufSize
BY DeviceAssumption, CollectorAssumption, WriterAssumption, ProgramAssumption
   DEF blockAlign, BlockSamples, BUFFERSIZE

(* The samples of the block buffer that wait for wav_write_data. *)
Pending == dataOut \div 2

LEMMA PendingIs ==
  /\ \A n \in Nat : dataOut = 2 * n => Pending = n
  /\ \A n \in Nat : dataOut' = 2 * n => Pending' = n
  /\ dataOut = 0 => Pending = 0
  /\ dataOut' = 0 => Pending' = 0
<1>1. \A x, n \in Nat : x = 2 * n => x \div 2 = n
  OBVIOUS
<1>2. 0 \div 2 = 0
  OBVIOUS
<1> QED
  BY <1>1, <1>2 DEF Pending

-------------------------------------------------------------------------------
(* What the three operations that move frames do to the lengths and types.  *)

LEMMA CaptureFacts ==
  ASSUME TypeOK, NEW n \in Nat, CaptureInto(n)
  PROVE  /\ n <= BlockSamples
         /\ FramesHandedOver(n) \in 0 .. n
         /\ FramesHandedOver(n) <= Len(ring)
         /\ ring' \in Seq(Nat)
         /\ Len(ring') = Len(ring) - FramesHandedOver(n)
         /\ \A i \in 1 .. Len(ring') : ring'[i] = ring[FramesHandedOver(n) + i]
         /\ Buffer' \in [1 .. BlockSamples -> Nat]
         /\ dataOut' = 2 * n
         /\ dataOut' \in 0 .. BUFFERSIZE
         /\ UNCHANGED <<device, produced, lost>>
<1> DEFINE h == FramesHandedOver(n)
<1>1. /\ ring \in Seq(Nat) /\ Len(ring) \in Nat
      /\ \A i \in 1 .. Len(ring) : ring[i] \in Nat
  BY LenProperties DEF TypeOK, CollectorTypeOK
<1>2. h \in 0 .. n /\ h <= Len(ring)
  BY <1>1 DEF FramesHandedOver
<1>3. ring' = SubSeq(ring, h + 1, Len(ring))
  BY DEF CaptureInto, captureSamples, alcCaptureSamples
<1>4. /\ ring' \in Seq(Nat)
      /\ Len(ring') = Len(ring) - h
      /\ \A i \in 1 .. Len(ring') : ring'[i] = ring[h + i]
  <2>1. \A i \in (h + 1) .. Len(ring) : ring[i] \in Nat
    BY <1>1, <1>2
  <2> HIDE DEF h
  <2> QED
    BY <1>1, <1>2, <1>3, <2>1, SubSeqProperties
<1>5. n <= BlockSamples /\ dataOut' = 2 * n /\ dataOut' \in 0 .. BUFFERSIZE
  BY Sizes DEF CaptureInto, CaptureFits, ReportedBytes, BUFFERSIZE
<1>6. Buffer' \in [1 .. BlockSamples -> Nat]
  BY <1>1, <1>2, Sizes DEF CaptureInto, BufferAfter, TypeOK
<1>7. UNCHANGED <<device, produced, lost>>
  BY DEF CaptureInto, captureSamples, alcCaptureSamples
<1> QED
  BY <1>2, <1>4, <1>5, <1>6, <1>7

LEMMA InFlightFacts ==
  ASSUME TypeOK
  PROVE  /\ InFlight \in Seq(Nat)
         /\ Pending \in 0 .. BlockSamples
         /\ Len(InFlight) = Pending
         /\ \A i \in 1 .. Pending : InFlight[i] = Buffer[i]
<1> DEFINE m == Pending
<1>1. m \in 0 .. BlockSamples
  BY Sizes DEF TypeOK, BUFFERSIZE, Pending
<1>2. \A i \in 1 .. m : Buffer[i] \in Nat
  BY <1>1, Sizes DEF TypeOK
<1>3. InFlight = SubSeq(Buffer, 1, m)
  BY Sizes DEF InFlight, Pending
<1> HIDE DEF m
<1>4. /\ InFlight \in Seq(Nat)
      /\ Len(InFlight) = m
      /\ \A i \in 1 .. m : InFlight[i] = Buffer[i]
  BY <1>1, <1>2, <1>3, Sizes, SubSeqProperties
<1> QED
  BY <1>1, <1>4 DEF m

(* k samples of the block reach the file, the rest is lost to the failure.  *)
LEMMA WriteFacts ==
  ASSUME TypeOK, WriteBuffer
  PROVE  \E k \in 0 .. Pending :
           /\ k = Pending \/ WriteMayFail
           /\ data' \in Seq(Nat)
           /\ Len(data') = Len(data) + k
           /\ \A i \in 1 .. Len(data) : data'[i] = data[i]
           /\ \A i \in 1 .. k : data'[Len(data) + i] = Buffer[i]
           /\ unstored' = unstored + (Pending - k)
           /\ disk' \in SpilledTo(Len(data) + k)
           /\ data_length' = data_length + dataOut
           /\ dataOut' = 0
           /\ ww' = ww
<1> DEFINE m == Pending
<1>1. /\ InFlight \in Seq(Nat) /\ m \in Nat /\ Len(InFlight) = m
      /\ \A i \in 1 .. m : InFlight[i] = Buffer[i]
  BY InFlightFacts, Sizes
<1>2. data \in Seq(Nat) /\ Len(data) \in Nat
  BY LenProperties DEF TypeOK, WriterTypeOK
<1>3. data_length' = data_length + dataOut /\ dataOut' = 0 /\ ww' = ww
  BY DEF WriteBuffer, wav_write_data
<1>4. PICK k \in 0 .. m : /\ k = m \/ WriteMayFail
                          /\ data' = data \o SubSeq(InFlight, 1, k)
                          /\ unstored' = unstored + (m - k)
                          /\ disk' \in SpilledTo(Len(data) + k)
  BY <1>1 DEF WriteBuffer, wav_write_data
<1> HIDE DEF m
<1>5. /\ SubSeq(InFlight, 1, k) \in Seq(Nat)
      /\ Len(SubSeq(InFlight, 1, k)) = k
      /\ \A i \in 1 .. k : SubSeq(InFlight, 1, k)[i] = Buffer[i]
  <2>1. \A i \in 1 .. k : InFlight[i] \in Nat
    BY <1>1, ElementOfSeq
  <2> QED
    BY <1>1, <2>1, SubSeqProperties
<1>6. /\ data' \in Seq(Nat)
      /\ Len(data') = Len(data) + k
      /\ \A i \in 1 .. Len(data) : data'[i] = data[i]
      /\ \A i \in 1 .. k : data'[Len(data) + i] = Buffer[i]
  <2> DEFINE b == SubSeq(InFlight, 1, k)
  <2>1. /\ data \o b \in Seq(Nat)
        /\ Len(data \o b) = Len(data) + Len(b)
        /\ \A i \in 1 .. Len(data) + Len(b) :
             (data \o b)[i] = IF i <= Len(data) THEN data[i] ELSE b[i - Len(data)]
    BY <1>2, <1>5, ConcatProperties
  <2>2. data' = data \o b /\ Len(b) = k /\ \A i \in 1 .. k : b[i] = Buffer[i]
    BY <1>4, <1>5
  <2> HIDE DEF b
  <2> QED
    BY <1>2, <2>1, <2>2
<1> QED
  BY <1>3, <1>4, <1>6 DEF m

LEMMA DeliverFacts ==
  ASSUME TypeOK, Deliver
  PROVE  /\ produced' = produced + 1
         /\ UNCHANGED device
         /\ device = "capturing"
         /\ ring' \in Seq(Nat)
         /\ \/ /\ Len(ring) < InternalBufSize
               /\ Len(ring') = Len(ring) + 1
               /\ \A i \in 1 .. Len(ring) : ring'[i] = ring[i]
               /\ ring'[Len(ring) + 1] = produced'
               /\ lost' = lost
            \/ /\ Len(ring) = InternalBufSize
               /\ ring' = ring
               /\ lost' = lost + 1
<1>1. ring \in Seq(Nat) /\ produced + 1 \in Nat
  BY DEF TypeOK, CollectorTypeOK
<1>2. /\ Append(ring, produced + 1) \in Seq(Nat)
      /\ Len(Append(ring, produced + 1)) = Len(ring) + 1
      /\ \A i \in 1 .. Len(ring) : Append(ring, produced + 1)[i] = ring[i]
      /\ Append(ring, produced + 1)[Len(ring) + 1] = produced + 1
  BY <1>1, AppendProperties
<1> QED
  BY <1>1, <1>2 DEF Deliver

-------------------------------------------------------------------------------
(* The type invariant. *)

LEMMA EmptyFacts == << >> \in Seq(Nat) /\ Len(<< >>) = 0
BY EmptySeq

(* wav_write_data leaves a well-formed file behind, spilled or not. *)
LEMMA WriteTypeOK ==
  ASSUME TypeOK, WriteBuffer
  PROVE  WriterTypeOK' /\ dataOut' \in 0 .. BUFFERSIZE
<1>1. PICK k \in 0 .. Pending :
        /\ data' \in Seq(Nat)
        /\ unstored' = unstored + (Pending - k)
        /\ disk' \in SpilledTo(Len(data) + k)
        /\ data_length' = data_length + dataOut
        /\ dataOut' = 0
        /\ ww' = ww
  BY WriteFacts
<1>2. Pending \in Nat /\ dataOut \in Nat /\ 0 \in 0 .. BUFFERSIZE
  BY Sizes, InFlightFacts DEF TypeOK, BUFFERSIZE
<1>3. disk' \in [header : Nat \cup {NoHeader}, samples : Nat]
  <2>1. data \in Seq(Nat) /\ Len(data) + k \in Nat
    BY <1>2, LenProperties DEF TypeOK, WriterTypeOK
  <2> QED
    BY <1>1, <2>1 DEF TypeOK, WriterTypeOK, SpilledTo
<1> QED
  BY <1>1, <1>2, <1>3 DEF TypeOK, WriterTypeOK

LEMMA TypeCorrectInit == Init => TypeOK
<1> SUFFICES ASSUME Init PROVE TypeOK
  OBVIOUS
<1>1. CollectorTypeOK
  BY EmptyFacts, Sizes DEF Init, CollectorInit, CollectorTypeOK, DeviceStates
<1>2. WriterTypeOK
  BY EmptyFacts DEF Init, WriterInit, WriterTypeOK
<1> QED
  <2>1. 0 \in 0 .. BUFFERSIZE
    BY Sizes DEF BUFFERSIZE
  <2>2. Buffer \in [1 .. BlockSamples -> Nat]
    BY Sizes DEF Init
  <2>3. pc \in Running /\ iSamplesAvailable \in Nat /\ dataOut = 0
    BY DEF Init, Running
  <2>4. clock \in Int /\ clockSteps \in Nat /\ fresh \in Nat
    BY DEF Init
  <2>5. late \in BOOLEAN
    BY Zenon DEF Init
  <2> QED
    BY <1>1, <1>2, <2>1, <2>2, <2>3, <2>4, <2>5 DEF TypeOK

(* Every variable keeps its type, whatever the device, the clock and the    *)
(* file system do.                                                          *)
THEOREM TypeCorrect == Spec => []TypeOK
<1>1. Init => TypeOK
  BY TypeCorrectInit
<1>2. TypeOK /\ [Next]_vars => TypeOK'
  <2> SUFFICES ASSUME TypeOK, [Next]_vars PROVE TypeOK'
    OBVIOUS
  <2> USE Sizes
  <2> DEFINE Unmoved == UNCHANGED <<collectorVars, writerVars>>
  <2>1. Unmoved => CollectorTypeOK' /\ WriterTypeOK'
    BY DEF TypeOK, CollectorTypeOK, WriterTypeOK, collectorVars, writerVars
  <2>2. UNCHANGED writerVars => WriterTypeOK'
    BY DEF TypeOK, WriterTypeOK, writerVars
  <2>3. UNCHANGED collectorVars => CollectorTypeOK'
    BY DEF TypeOK, CollectorTypeOK, collectorVars
  <2>4. availableSamples \in Nat
    BY LenProperties DEF TypeOK, CollectorTypeOK, availableSamples, CaptureSamplesWaiting
  <2>5. CASE Construct
    BY <2>1, <2>5 DEF Construct, goto, TypeOK, Running, Ended, clockVars, historyVars
  <2>6. CASE Open
    <3>1. CollectorTypeOK'
      <4>1. CASE open
        <5>1. ring' \in Seq(Nat) /\ Len(ring') = 0
          BY <4>1, EmptyFacts DEF open, alcCaptureOpenDevice
        <5> QED
          BY <4>1, <5>1 DEF open, alcCaptureOpenDevice, TypeOK, CollectorTypeOK, DeviceStates
      <4> QED
        BY <2>3, <2>6, <4>1 DEF Open
    <3> QED
      BY <2>2, <2>6, <3>1 DEF Open, goto, TypeOK, Running, Ended, clockVars, historyVars
  <2>7. CASE Start
    <3>1. CollectorTypeOK'
      BY <2>7 DEF Start, start, alcCaptureStart, TypeOK, CollectorTypeOK, DeviceStates
    <3> QED
      BY <2>2, <2>7, <3>1 DEF Start, goto, TypeOK, Running, clockVars, historyVars
  <2>8. CASE OpenWriter
    <3>1. WriterTypeOK'
      <4>1. CASE wav_write_open
        <5>1. data' \in Seq(Nat)
          BY <4>1, EmptyFacts DEF wav_write_open
        <5>2. disk' \in [header : Nat \cup {NoHeader}, samples : Nat]
          BY <4>1 DEF wav_write_open
        <5> QED
          BY <4>1, <5>1, <5>2 DEF wav_write_open, WriterTypeOK
      <4>2. CASE WriteOpenFails
        BY <4>2 DEF WriteOpenFails, TypeOK, WriterTypeOK
      <4> QED
        BY <2>8, <4>1, <4>2 DEF OpenWriter
    <3> QED
      BY <2>3, <2>8, <3>1 DEF OpenWriter, goto, TypeOK, Running, clockVars, historyVars
  <2>9. CASE StartTime
    BY <2>1, <2>9 DEF StartTime, goto, TypeOK, Running, historyVars
  <2>10. CASE CheckTime
    BY <2>1, <2>10 DEF CheckTime, goto, TypeOK, Running, clockVars, historyVars
  <2>11. CASE Query
    BY <2>1, <2>4, <2>11 DEF Query, QueryAgainst, goto, TypeOK, Running, clockVars, historyVars
  <2>12. CASE Capture
    <3>1. CaptureInto(BlockSamples)
      BY <2>12 DEF Capture
    <3>2. /\ ring' \in Seq(Nat)
          /\ Len(ring') = Len(ring) - FramesHandedOver(BlockSamples)
          /\ FramesHandedOver(BlockSamples) \in 0 .. BlockSamples
          /\ Buffer' \in [1 .. BlockSamples -> Nat]
          /\ dataOut' \in 0 .. BUFFERSIZE
          /\ UNCHANGED <<device, produced, lost>>
      BY <3>1, CaptureFacts
    <3>3. CollectorTypeOK'
      BY <3>2, LenProperties DEF TypeOK, CollectorTypeOK
    <3> QED
      BY <2>2, <2>12, <3>2, <3>3 DEF Capture, goto, TypeOK, Running, clockVars
  <2>13. CASE Write
    <3>1. WriterTypeOK' /\ dataOut' \in 0 .. BUFFERSIZE
      BY <2>13, WriteTypeOK DEF Write
    <3> QED
      BY <2>3, <2>13, <3>1 DEF Write, goto, TypeOK, Running, clockVars, historyVars
  <2>14. CASE Stop
    <3>1. CollectorTypeOK'
      BY <2>14 DEF Stop, stop, alcCaptureStop, TypeOK, CollectorTypeOK, DeviceStates
    <3> QED
      BY <2>2, <2>14, <3>1 DEF Stop, goto, TypeOK, Running, clockVars, historyVars
  <2>15. CASE DrainQuery
    BY <2>1, <2>4, <2>15 DEF DrainQuery, goto, TypeOK, Running, clockVars, historyVars
  <2>16. CASE DrainCapture
    <3> DEFINE n == DrainRequest
    <3>1. n \in Nat
      BY DEF DrainRequest, TypeOK
    <3>2. CaptureInto(n)
      BY <2>16 DEF DrainCapture
    <3> HIDE DEF n
    <3>3. /\ ring' \in Seq(Nat)
          /\ Len(ring') = Len(ring) - FramesHandedOver(n)
          /\ FramesHandedOver(n) \in 0 .. n
          /\ Buffer' \in [1 .. BlockSamples -> Nat]
          /\ dataOut' \in 0 .. BUFFERSIZE
          /\ UNCHANGED <<device, produced, lost>>
      BY <3>1, <3>2, CaptureFacts
    <3>4. CollectorTypeOK'
      BY <3>1, <3>3, LenProperties DEF TypeOK, CollectorTypeOK
    <3> QED
      BY <2>2, <2>16, <3>3, <3>4 DEF DrainCapture, goto, TypeOK, Running, clockVars, historyVars
  <2>17. CASE DrainWrite
    <3>1. WriterTypeOK' /\ dataOut' \in 0 .. BUFFERSIZE
      BY <2>17, WriteTypeOK DEF DrainWrite
    <3>2. iSamplesAvailable' \in Nat
      BY <2>17 DEF DrainWrite, DrainRequest, TypeOK
    <3> QED
      BY <2>3, <2>17, <3>1, <3>2 DEF DrainWrite, goto, TypeOK, Running, clockVars, historyVars
  <2>18. CASE DrainEnds
    BY <2>1, <2>18 DEF DrainEnds, goto, TypeOK, Running, clockVars, historyVars
  <2>19. CASE CloseWriter
    <3>1. WriterTypeOK'
      BY <2>19, LenProperties DEF CloseWriter, CloseSeek, CloseHeader, TypeOK, WriterTypeOK
    <3> QED
      BY <2>3, <2>19, <3>1 DEF CloseWriter, goto, TypeOK, Running, clockVars, historyVars
  <2>20. CASE CloseDevice
    <3>1. CollectorTypeOK'
      BY <2>20 DEF CloseDevice, close, alcCaptureCloseDevice, TypeOK, CollectorTypeOK, DeviceStates
    <3> QED
      BY <2>2, <2>20, <3>1 DEF CloseDevice, goto, TypeOK, Ended, clockVars, historyVars
  <2>21. CASE NullWriter
    BY <2>1, <2>21 DEF NullWriter, goto, TypeOK, Ended, clockVars, historyVars
  <2>22. CASE DeliverFrame
    <3>1. Deliver
      BY <2>22 DEF DeliverFrame
    <3>2. /\ produced' = produced + 1
          /\ device' = device
          /\ ring' \in Seq(Nat)
          /\ Len(ring') <= InternalBufSize
          /\ lost' = lost \/ lost' = lost + 1
      <4>1. InternalBufSize \in Nat /\ Len(ring) \in Nat /\ Len(ring) <= InternalBufSize
        BY LenProperties DEF TypeOK, CollectorTypeOK
      <4> QED
        BY <3>1, <4>1, DeliverFacts
    <3>3. CollectorTypeOK'
      BY <3>2 DEF TypeOK, CollectorTypeOK
    <3>4. late' \in BOOLEAN /\ fresh' \in Nat
      BY <2>22 DEF DeliverFrame, TypeOK
    <3> QED
      BY <2>2, <2>22, <3>3, <3>4 DEF DeliverFrame, TypeOK, programVars, clockVars
  <2>23. CASE Tick \/ ClockSetBack
    BY <2>1, <2>23, ProgramAssumption
    DEF Tick, ClockSetBack, TypeOK, programVars, historyVars
  <2>24. CASE Kill
    BY <2>1, <2>24 DEF Kill, TypeOK, Ended, clockVars, historyVars
  <2>25. CASE UNCHANGED vars
    BY <2>1, <2>25 DEF vars, TypeOK, programVars, clockVars, historyVars
  <2> QED
    BY <2>5, <2>6, <2>7, <2>8, <2>9, <2>10, <2>11, <2>12, <2>13, <2>14, <2>15,
       <2>16, <2>17, <2>18, <2>19, <2>20, <2>21, <2>22, <2>23, <2>24, <2>25
    DEF Next, Program, Finished
<1> QED
  BY <1>1, <1>2, PTL DEF Spec

-------------------------------------------------------------------------------
(* Where the program is determines what is in the device, in the block      *)
(* buffer and in the file; everything below rests on it.                    *)

Draining == {"drain_query", "drain", "drain_write",
             "close_seek", "close_header", "close_device"}

SetUp ==
  /\ pc \in {"construct", "open", "start"} => ring = << >> /\ device # "capturing"
  /\ pc \in {"construct", "open", "start", "wav_write_open"} =>
       data = << >> /\ unstored = 0 /\ data_length = 0

BlockWaits == pc = "capture" => BlockSamples < Len(ring)

BufferInUse ==
  /\ pc = "write" => dataOut = 2 * BlockSamples
  /\ pc = "drain_write" => dataOut = 2 * DrainRequest
  /\ pc \in Running \ {"write", "drain_write"} => dataOut = 0

DrainInv ==
  /\ pc \in Draining => device = "stopped"
  /\ pc = "drain" => iSamplesAvailable = Len(ring)
  /\ pc = "drain_write" => iSamplesAvailable - DrainRequest = Len(ring)
  /\ pc \in {"close_seek", "close_header", "close_device", "done"} =>
       Len(ring) = 0 /\ dataOut = 0

Place == SetUp /\ BlockWaits /\ BufferInUse /\ DrainInv

LEMMA PlaceInit == Init => Place
BY EmptyFacts DEF Init, CollectorInit, WriterInit, Place, SetUp, BlockWaits,
   BufferInUse, DrainInv, Draining

LEMMA RequestFacts ==
  ASSUME TypeOK
  PROVE  /\ DrainRequest \in Nat
         /\ DrainRequest <= iSamplesAvailable
         /\ DrainRequest <= BlockSamples
BY Sizes DEF TypeOK, DrainRequest

LEMMA PlaceStep == TypeOK /\ Place /\ [Next]_vars => Place'
<1> SUFFICES ASSUME TypeOK, Place, [Next]_vars PROVE Place'
  OBVIOUS
<1> USE DEF Place
<1>0. Len(ring) \in Nat
  BY LenProperties DEF TypeOK, CollectorTypeOK
<1>1. CASE Construct
  BY <1>1 DEF Construct, goto, SetUp, BlockWaits, BufferInUse, DrainInv, Draining,
     Running, collectorVars, writerVars
<1>2. CASE Open
  BY <1>2 DEF Open, open, alcCaptureOpenDevice, goto, SetUp, BlockWaits, BufferInUse, DrainInv, Draining,
     Running, collectorVars, writerVars
<1>3. CASE Start
  BY <1>3 DEF Start, start, alcCaptureStart, goto, SetUp, BlockWaits, BufferInUse, DrainInv, Draining,
     Running, writerVars
<1>4. CASE OpenWriter
  BY <1>4 DEF OpenWriter, goto, SetUp, BlockWaits, BufferInUse, DrainInv, Draining,
     Running, collectorVars
<1>5. CASE StartTime \/ CheckTime
  BY <1>5 DEF StartTime, CheckTime, goto, SetUp, BlockWaits, BufferInUse, DrainInv,
     Draining, Running, collectorVars, writerVars
<1>6. CASE Query
  <2>1. pc' = "capture" => BlockSamples < Len(ring')
    BY <1>6 DEF Query, QueryAgainst, goto, availableSamples, CaptureSamplesWaiting, collectorVars
  <2> QED
    BY <1>6, <2>1 DEF Query, QueryAgainst, goto, SetUp, BlockWaits, BufferInUse, DrainInv,
       Draining, Running, collectorVars, writerVars
<1>7. CASE Capture
  <2>1. dataOut' = 2 * BlockSamples
    BY <1>7, Sizes, CaptureFacts DEF Capture
  <2> QED
    BY <1>7, <2>1 DEF Capture, goto, SetUp, BlockWaits, BufferInUse, DrainInv,
       Draining, Running, writerVars
<1>8. CASE Write
  BY <1>8 DEF Write, WriteBuffer, goto, SetUp, BlockWaits, BufferInUse, DrainInv,
     Draining, Running, collectorVars
<1>9. CASE Stop
  BY <1>9 DEF Stop, stop, alcCaptureStop, goto, SetUp, BlockWaits, BufferInUse, DrainInv,
     Draining, Running, writerVars
<1>10. CASE DrainQuery
  BY <1>10 DEF DrainQuery, availableSamples, CaptureSamplesWaiting, goto, SetUp, BlockWaits, BufferInUse,
     DrainInv, Draining, Running, collectorVars, writerVars
<1>11. CASE DrainCapture
  <2>1. /\ dataOut' = 2 * DrainRequest
        /\ Len(ring') = Len(ring) - FramesHandedOver(DrainRequest)
        /\ device' = device
    BY <1>11, RequestFacts, CaptureFacts DEF DrainCapture
  <2>2. DrainRequest <= Len(ring)
    BY <1>11, RequestFacts DEF DrainCapture, goto, DrainInv
  <2>3. DrainRequest' = DrainRequest
    BY <1>11 DEF DrainCapture, DrainRequest
  <2>4. Len(ring') = iSamplesAvailable - DrainRequest
    BY <1>11, <2>1, <2>2 DEF FramesHandedOver, DrainCapture, goto, DrainInv
  <2> HIDE DEF DrainRequest
  <2> QED
    BY <1>11, <2>1, <2>3, <2>4 DEF DrainCapture, goto, SetUp, BlockWaits, BufferInUse,
       DrainInv, Draining, Running, writerVars
<1>12. CASE DrainWrite
  BY <1>12 DEF DrainWrite, WriteBuffer, goto, SetUp, BlockWaits, BufferInUse, DrainInv,
     Draining, Running, collectorVars
<1>13. CASE DrainEnds
  BY <1>13 DEF DrainEnds, goto, SetUp, BlockWaits, BufferInUse, DrainInv,
     Draining, Running, collectorVars, writerVars
<1>14. CASE CloseWriter
  BY <1>14 DEF CloseWriter, goto, SetUp, BlockWaits, BufferInUse, DrainInv,
     Draining, Running, collectorVars
<1>15. CASE CloseDevice
  BY <1>15 DEF CloseDevice, close, alcCaptureCloseDevice, goto, SetUp, BlockWaits, BufferInUse, DrainInv,
     Draining, Running, writerVars
<1>16. CASE NullWriter \/ Kill
  BY <1>16 DEF NullWriter, Kill, goto, SetUp, BlockWaits, BufferInUse, DrainInv,
     Draining, Running, collectorVars, writerVars
<1>17. CASE DeliverFrame
  <2>1. /\ device = "capturing" /\ device' = device
        /\ Len(ring) <= Len(ring')
        /\ UNCHANGED <<pc, iSamplesAvailable, dataOut, data, unstored, data_length>>
    <3>1. Deliver
      BY <1>17 DEF DeliverFrame
    <3>2. device = "capturing" /\ device' = device /\ Len(ring) <= Len(ring')
      BY <1>0, <3>1, DeliverFacts
    <3> QED
      BY <1>17, <3>2 DEF DeliverFrame, writerVars, programVars
  <2>2. Len(ring') \in Nat
    BY <1>17, DeliverFacts, LenProperties DEF DeliverFrame
  <2>3. pc \notin {"construct", "open", "start"} /\ pc \notin Draining /\ pc # "done"
    BY <1>17, <2>1 DEF SetUp, DrainInv, DeliverFrame, Running
  <2> QED
    BY <1>0, <2>1, <2>2, <2>3, Sizes DEF SetUp, BlockWaits, BufferInUse, DrainInv,
       Draining, Running
<1>18. CASE Tick \/ ClockSetBack
  BY <1>18 DEF Tick, ClockSetBack, SetUp, BlockWaits, BufferInUse, DrainInv, DrainRequest,
     collectorVars, writerVars, programVars
<1>19. CASE UNCHANGED vars
  BY <1>19 DEF vars, SetUp, BlockWaits, BufferInUse, DrainInv, DrainRequest,
     collectorVars, writerVars, programVars
<1> QED
  BY <1>1, <1>2, <1>3, <1>4, <1>5, <1>6, <1>7, <1>8, <1>9, <1>10, <1>11, <1>12, <1>13,
     <1>14, <1>15, <1>16, <1>17, <1>18, <1>19
  DEF Next, Program, Finished

LEMMA PlaceInvariant == Spec => []Place
BY TypeCorrect, PlaceInit, PlaceStep, PTL DEF Spec

(* captureSamples is never asked for more than the device holds or the      *)
(* block buffer can take, in the recording loop and in the drain loop.      *)
THEOREM RequestIsBackedCorrect == Spec => []RequestIsBacked
<1>1. TypeOK /\ Place => RequestIsBacked
  <2> SUFFICES ASSUME TypeOK, Place PROVE RequestIsBacked
    OBVIOUS
  <2>1. Len(ring) \in Nat
    BY LenProperties DEF TypeOK, CollectorTypeOK
  <2>2. \A n \in Nat : n <= BlockSamples => CaptureFits(BUFFERSIZE, n)
    BY Sizes DEF CaptureFits, BUFFERSIZE
  <2>3. pc = "capture" => Backed(BlockSamples)
    BY <2>1, <2>2, Sizes DEF Place, BlockWaits, Backed
  <2>4. pc = "drain" => Backed(DrainRequest)
    BY <2>1, <2>2, RequestFacts DEF Place, DrainInv, Backed
  <2> QED
    BY <2>3, <2>4 DEF RequestIsBacked
<1> QED
  BY <1>1, TypeCorrect, PlaceInvariant, PTL

-------------------------------------------------------------------------------
(* Every step leaves the frames alone, takes some from the device, writes   *)
(* the block buffer, or lets the device deliver one.                        *)

Still ==
  /\ UNCHANGED <<data, unstored, Buffer, dataOut, ring, lost, produced>>
  /\ UNCHANGED late
  /\ fresh' = fresh \/ (fresh' = 0 /\ Len(ring) <= BlockSamples)

Taken ==
  \E n \in Nat :
    /\ CaptureInto(n)
    /\ n <= Len(ring)
    /\ dataOut = 0
    /\ UNCHANGED <<data, unstored, late>>
    /\ fresh' = fresh \/ (fresh' = 0 /\ n = BlockSamples)

Stored ==
  /\ WriteBuffer
  /\ UNCHANGED <<Buffer, ring, lost, produced, fresh, late>>

Delivered ==
  /\ pc \in Running
  /\ Deliver
  /\ fresh' = fresh + 1
  /\ late' = (late \/ fresh + 1 > BlockSamples)
  /\ UNCHANGED <<data, unstored, Buffer, dataOut>>

LEMMA Moves ==
  TypeOK /\ Place /\ [Next]_vars => Still \/ Taken \/ Stored \/ Delivered
<1> SUFFICES ASSUME TypeOK, Place, [Next]_vars
             PROVE  Still \/ Taken \/ Stored \/ Delivered
  OBVIOUS
<1>1. CASE Construct \/ CheckTime \/ DrainQuery \/ DrainEnds \/ NullWriter \/ Kill
  BY <1>1 DEF Construct, CheckTime, DrainQuery, DrainEnds, NullWriter, Kill, Still,
     collectorVars, writerVars, historyVars
<1>2. CASE Open \/ Start \/ Stop \/ CloseDevice
  BY <1>2 DEF Open, open, alcCaptureOpenDevice, Start, start, alcCaptureStart, Stop, stop, alcCaptureStop, CloseDevice, close, alcCaptureCloseDevice, goto, Place, SetUp,
     Still, collectorVars, writerVars, historyVars
<1>3. CASE OpenWriter
  BY <1>3 DEF OpenWriter, wav_write_open, WriteOpenFails, goto, Place, SetUp,
     Still, collectorVars, historyVars
<1>4. CASE StartTime \/ Tick \/ ClockSetBack \/ UNCHANGED vars
  BY <1>4 DEF StartTime, Tick, ClockSetBack, vars, Still,
     collectorVars, writerVars, programVars, historyVars
<1>5. CASE Query
  BY <1>5 DEF Query, QueryAgainst, availableSamples, CaptureSamplesWaiting, Still,
     collectorVars, writerVars, historyVars
<1>6. CASE Capture
  <2>1. BlockSamples \in Nat /\ BlockSamples <= Len(ring)
    BY <1>6, Sizes, LenProperties
    DEF Capture, goto, Place, BlockWaits, TypeOK, CollectorTypeOK
  <2>2. dataOut = 0
    BY <1>6 DEF Capture, goto, Place, BufferInUse, Running
  <2> QED
    BY <1>6, <2>1, <2>2 DEF Capture, Taken, writerVars
<1>7. CASE Write \/ DrainWrite
  BY <1>7 DEF Write, DrainWrite, Stored, collectorVars, historyVars
<1>8. CASE DrainCapture
  <2>1. DrainRequest \in Nat /\ DrainRequest <= Len(ring)
    BY <1>8, RequestFacts DEF DrainCapture, goto, Place, DrainInv
  <2>2. dataOut = 0
    BY <1>8 DEF DrainCapture, goto, Place, BufferInUse, Running
  <2> QED
    BY <1>8, <2>1, <2>2 DEF DrainCapture, Taken, writerVars, historyVars
<1>9. CASE CloseWriter
  BY <1>9 DEF CloseWriter, CloseSeek, CloseHeader, Still, collectorVars, historyVars
<1>10. CASE DeliverFrame
  BY <1>10 DEF DeliverFrame, Delivered, writerVars, programVars
<1> QED
  BY <1>1, <1>2, <1>3, <1>4, <1>5, <1>6, <1>7, <1>8, <1>9, <1>10
  DEF Next, Program, Finished

-------------------------------------------------------------------------------
(* Overruns.  As long as the loop was never late, the device has room for   *)
(* what may still arrive before the loop takes its next block.              *)

Headroom ==
  ~late => /\ lost = 0
           /\ fresh <= BlockSamples
           /\ Len(ring) <= InternalBufSize - BlockSamples + fresh

LEMMA HeadroomInvariant == Spec => []Headroom
<1>1. Init => Headroom
  BY Sizes, EmptyFacts DEF Init, CollectorInit, Headroom
<1>2. TypeOK /\ Place /\ Headroom /\ [Next]_vars => Headroom'
  <2> SUFFICES ASSUME TypeOK, Place, Headroom, [Next]_vars PROVE Headroom'
    OBVIOUS
  <2>1. Len(ring) \in Nat /\ fresh \in Nat /\ lost \in Nat
    BY LenProperties DEF TypeOK, CollectorTypeOK
  <2>2. CASE Still
    BY <2>1, <2>2, Sizes DEF Still, Headroom
  <2>3. CASE Taken
    <3>1. PICK n \in Nat : /\ CaptureInto(n)
                           /\ n <= Len(ring)
                           /\ UNCHANGED late
                           /\ fresh' = fresh \/ (fresh' = 0 /\ n = BlockSamples)
      BY <2>3 DEF Taken
    <3>2. Len(ring') = Len(ring) - n /\ lost' = lost
      BY <3>1, CaptureFacts DEF FramesHandedOver
    <3> QED
      BY <2>1, <3>1, <3>2, Sizes DEF Headroom
  <2>4. CASE Stored
    BY <2>4 DEF Stored, Headroom
  <2>5. CASE Delivered
    <3>1. \/ Len(ring') = Len(ring) + 1 /\ lost' = lost
          \/ Len(ring) = InternalBufSize /\ ring' = ring /\ lost' = lost + 1
      BY <2>5, DeliverFacts DEF Delivered
    <3>2. ~late' => ~late /\ fresh + 1 <= BlockSamples
      <4>1. ~late' => ~late /\ ~(fresh + 1 > BlockSamples)
        BY <2>5, Zenon DEF Delivered
      <4> QED
        BY <2>1, <4>1, Sizes
    <3>3. fresh' = fresh + 1
      BY <2>5 DEF Delivered
    <3> QED
      BY <2>1, <3>1, <3>2, <3>3, Sizes DEF Headroom
  <2> QED
    BY <2>2, <2>3, <2>4, <2>5, Moves
<1> QED
  BY <1>1, <1>2, TypeCorrect, PlaceInvariant, PTL DEF Spec

(* The device drops a frame only when the recording loop was late.          *)
THEOREM LossOnlyWhenLateCorrect == Spec => []LossOnlyWhenLate
<1>1. TypeOK /\ Headroom => LossOnlyWhenLate
  BY DEF Headroom, LossOnlyWhenLate, TypeOK, CollectorTypeOK
<1> QED
  BY <1>1, TypeCorrect, HeadroomInvariant, PTL

-------------------------------------------------------------------------------
(* The frames under way, taken together: what a step does to Heard.         *)

Joined(d, b, m, r) == d \o SubSeq(b, 1, m) \o r

LEMMA Parts ==
  ASSUME NEW d \in Seq(Nat), NEW r \in Seq(Nat), NEW b, NEW m \in Nat,
         \A i \in 1 .. m : b[i] \in Nat
  PROVE  /\ Joined(d, b, m, r) \in Seq(Nat)
         /\ Len(Joined(d, b, m, r)) = Len(d) + m + Len(r)
         /\ \A i \in 1 .. Len(Joined(d, b, m, r)) :
              Joined(d, b, m, r)[i] =
                     IF i <= Len(d) THEN d[i]
                     ELSE IF i <= Len(d) + m THEN b[i - Len(d)]
                     ELSE r[i - Len(d) - m]
<1> DEFINE s == SubSeq(b, 1, m)
           ds == d \o s
           h == Joined(d, b, m, r)
<1>1. /\ s \in Seq(Nat)
      /\ Len(s) = m
      /\ \A i \in 1 .. m : s[i] = b[i]
  BY SubSeqProperties
<1> HIDE DEF s
<1>2. /\ ds \in Seq(Nat)
      /\ Len(ds) = Len(d) + m
      /\ \A i \in 1 .. Len(d) + m : ds[i] = IF i <= Len(d) THEN d[i] ELSE s[i - Len(d)]
  BY <1>1, ConcatProperties
<1>3. h = ds \o r
  BY DEF s, Joined
<1> HIDE DEF ds, h
<1>4. /\ h \in Seq(Nat)
      /\ Len(h) = Len(ds) + Len(r)
      /\ \A i \in 1 .. Len(ds) + Len(r) :
           h[i] = IF i <= Len(ds) THEN ds[i] ELSE r[i - Len(ds)]
  <2>1. /\ ds \o r \in Seq(Nat)
        /\ Len(ds \o r) = Len(ds) + Len(r)
        /\ \A i \in 1 .. Len(ds) + Len(r) :
             (ds \o r)[i] = IF i <= Len(ds) THEN ds[i] ELSE r[i - Len(ds)]
    BY <1>2, ConcatProperties
  <2> QED
    BY <1>3, <2>1
<1>5. Len(d) \in Nat /\ Len(r) \in Nat
  BY LenProperties
<1>6. Len(h) = Len(d) + m + Len(r)
  BY <1>2, <1>4, <1>5
<1>7. ASSUME NEW i \in 1 .. Len(h)
      PROVE  h[i] = IF i <= Len(d) THEN d[i]
                    ELSE IF i <= Len(d) + m THEN b[i - Len(d)]
                    ELSE r[i - Len(d) - m]
  <2>1. CASE i <= Len(d) + m
    <3>1. h[i] = ds[i]
      BY <1>2, <1>4, <1>5, <1>6, <2>1
    <3>2. ds[i] = IF i <= Len(d) THEN d[i] ELSE s[i - Len(d)]
      BY <1>2, <1>5, <1>6, <2>1
    <3>3. i > Len(d) => s[i - Len(d)] = b[i - Len(d)]
      BY <1>1, <1>5, <1>6, <2>1
    <3> QED
      BY <1>5, <1>6, <2>1, <3>1, <3>2, <3>3
  <2>2. CASE i > Len(d) + m
    <3>1. h[i] = r[i - Len(ds)] /\ Len(ds) = Len(d) + m
      BY <1>2, <1>4, <1>5, <1>6, <2>2
    <3>2. i - (Len(d) + m) = i - Len(d) - m /\ ~(i <= Len(d)) /\ ~(i <= Len(d) + m)
      BY <1>5, <1>6, <2>2
    <3> QED
      BY <3>1, <3>2
  <2> QED
    BY <1>5, <1>6, <2>1, <2>2
<1> QED
  BY <1>4, <1>6, <1>7 DEF h

HeardParts ==
  /\ Heard \in Seq(Nat)
  /\ Len(Heard) = Len(data) + Pending + Len(ring)
  /\ DOMAIN Heard = 1 .. Len(Heard)
  /\ \A i \in 1 .. Len(Heard) :
       Heard[i] = IF i <= Len(data) THEN data[i]
                  ELSE IF i <= Len(data) + Pending THEN Buffer[i - Len(data)]
                  ELSE ring[i - Len(data) - Pending]

LEMMA HeardFacts == ASSUME TypeOK PROVE HeardParts
<1>1. data \in Seq(Nat) /\ ring \in Seq(Nat)
  BY DEF TypeOK, WriterTypeOK, CollectorTypeOK
<1>2. Pending \in Nat /\ \A i \in 1 .. Pending : Buffer[i] \in Nat
  BY InFlightFacts, Sizes DEF TypeOK
<1>3. Heard = Joined(data, Buffer, Pending, ring)
  BY Sizes DEF Heard, InFlight, Pending, Joined
<1>4. /\ Heard \in Seq(Nat)
      /\ Len(Heard) = Len(data) + Pending + Len(ring)
      /\ \A i \in 1 .. Len(Heard) :
           Heard[i] = IF i <= Len(data) THEN data[i]
                      ELSE IF i <= Len(data) + Pending THEN Buffer[i - Len(data)]
                      ELSE ring[i - Len(data) - Pending]
  BY <1>1, <1>2, <1>3, Parts
<1>5. DOMAIN Heard = 1 .. Len(Heard)
  BY <1>4, LenProperties
<1> QED
  BY <1>4, <1>5 DEF HeardParts

LEMMA HeardFactsPrime == ASSUME TypeOK' PROVE HeardParts'
<1>1. data' \in Seq(Nat) /\ ring' \in Seq(Nat)
  BY DEF TypeOK, WriterTypeOK, CollectorTypeOK
<1>2. Pending' \in Nat /\ \A i \in 1 .. Pending' : Buffer'[i] \in Nat
  <2>1. dataOut' \in 0 .. InternalBufSize /\ Buffer' \in [1 .. BlockSamples -> Nat]
    BY DEF TypeOK, BUFFERSIZE, BlockSamples, blockAlign
  <2> DEFINE q == dataOut'
  <2>2. q \in 0 .. InternalBufSize
    BY <2>1
  <2> HIDE DEF q
  <2>3. q \div 2 \in 0 .. BlockSamples
    BY <2>2, Sizes
  <2>4. \A i \in 1 .. q \div 2 : Buffer'[i] \in Nat
    BY <2>1, <2>3, Sizes
  <2> QED
    BY <2>3, <2>4, Sizes DEF q, Pending
<1>3. Heard' = Joined(data', Buffer', Pending', ring')
  BY Sizes DEF Heard, InFlight, Pending, Joined
<1> DEFINE d == data'
           b == Buffer'
           m == Pending'
           r == ring'
           h == Heard'
<1>4. /\ h \in Seq(Nat)
      /\ Len(h) = Len(d) + m + Len(r)
      /\ \A i \in 1 .. Len(h) :
           h[i] = IF i <= Len(d) THEN d[i]
                  ELSE IF i <= Len(d) + m THEN b[i - Len(d)]
                  ELSE r[i - Len(d) - m]
  <2>1. /\ d \in Seq(Nat) /\ r \in Seq(Nat) /\ m \in Nat
        /\ \A i \in 1 .. m : b[i] \in Nat
        /\ h = Joined(d, b, m, r)
    BY <1>1, <1>2, <1>3
  <2> HIDE DEF d, b, m, r, h
  <2> QED
    BY <2>1, Parts
<1>5. DOMAIN Heard' = 1 .. Len(Heard')
  BY <1>4, LenProperties
<1> QED
  BY <1>4, <1>5 DEF HeardParts

LEMMA HeardInit ==
  Init => Heard \in Seq(Nat) /\ Len(Heard) = 0 /\ DOMAIN Heard = 1 .. Len(Heard)
<1> SUFFICES ASSUME Init PROVE HeardParts /\ Len(Heard) = 0
  BY DEF HeardParts
<1>1. HeardParts
  BY TypeCorrectInit, HeardFacts
<1>2. Len(data) = 0 /\ Len(ring) = 0
  BY EmptyFacts DEF Init, WriterInit, CollectorInit
<1>3. Pending = 0
  BY PendingIs DEF Init
<1> QED
  BY <1>1, <1>2, <1>3 DEF HeardParts

LEMMA Lengths ==
  ASSUME TypeOK
  PROVE  /\ Len(data) \in Nat /\ Len(ring) \in Nat /\ Len(Heard) \in Nat
         /\ dataOut \in Nat /\ Pending \in Nat
         /\ produced \in Nat /\ lost \in Nat /\ unstored \in Nat /\ data_length \in Nat
<1>1. Len(data) \in Nat /\ Len(ring) \in Nat /\ Len(Heard) \in Nat
  BY HeardFacts, LenProperties DEF TypeOK, CollectorTypeOK, WriterTypeOK, HeardParts
<1> QED
  BY <1>1, InFlightFacts, Sizes DEF TypeOK, CollectorTypeOK, WriterTypeOK, BUFFERSIZE

(* Taking frames from the device moves them without changing their order.   *)
LEMMA TakenKeepsHeard == ASSUME TypeOK, TypeOK', Taken PROVE Heard' = Heard
<1>1. PICK n \in Nat : /\ CaptureInto(n)
                       /\ n <= Len(ring)
                       /\ dataOut = 0
                       /\ data' = data
  BY DEF Taken
<1>2. /\ dataOut' = 2 * n
      /\ Len(ring') = Len(ring) - n
      /\ \A i \in 1 .. Len(ring') : ring'[i] = ring[n + i]
      /\ n <= BlockSamples
  BY <1>1, CaptureFacts DEF FramesHandedOver
<1>3. \A i \in 1 .. n : Buffer'[i] = ring[i]
  BY <1>1, <1>2, Sizes DEF CaptureInto, BufferAfter, FramesHandedOver, TypeOK
<1>4. Pending = 0 /\ Pending' = n
  BY <1>1, <1>2, PendingIs
<1>5. HeardParts /\ HeardParts'
  BY HeardFacts, HeardFactsPrime
<1>6. Len(Heard') = Len(Heard)
  BY <1>1, <1>2, <1>4, <1>5, Lengths DEF HeardParts
<1>7. ASSUME NEW i \in 1 .. Len(Heard)
      PROVE  Heard'[i] = Heard[i]
  <2>1. /\ Heard[i] = IF i <= Len(data) THEN data[i] ELSE ring[i - Len(data)]
        /\ Len(Heard) = Len(data) + Len(ring)
    <3>1. Len(Heard) = Len(data) + Len(ring)
      BY <1>4, <1>5, Lengths DEF HeardParts
    <3>2. Heard[i] = IF i <= Len(data) THEN data[i]
                     ELSE IF i <= Len(data) + Pending THEN Buffer[i - Len(data)]
                     ELSE ring[i - Len(data) - Pending]
      BY <1>5 DEF HeardParts
    <3>3. Len(data) + Pending = Len(data)
      BY <1>4, Lengths
    <3>4. i - Len(data) - Pending = i - Len(data)
      BY <1>4, Lengths
    <3> QED
      BY <3>1, <3>2, <3>3, <3>4
  <2>2. Heard'[i] = IF i <= Len(data) THEN data[i]
                    ELSE IF i <= Len(data) + n THEN Buffer'[i - Len(data)]
                    ELSE ring'[i - Len(data) - n]
    BY <1>1, <1>4, <1>5, <1>6 DEF HeardParts
  <2>3. Len(data) < i /\ i <= Len(data) + n => Buffer'[i - Len(data)] = ring[i - Len(data)]
    BY <1>3, Lengths
  <2>4. Len(data) + n < i => ring'[i - Len(data) - n] = ring[i - Len(data)]
    <3> SUFFICES ASSUME Len(data) + n < i
                 PROVE  ring'[i - Len(data) - n] = ring[i - Len(data)]
      OBVIOUS
    <3>1. i - Len(data) - n \in 1 .. Len(ring')
      BY <1>2, <2>1, Lengths
    <3>2. n + (i - Len(data) - n) = i - Len(data)
      BY Lengths
    <3> QED
      BY <1>2, <3>1, <3>2
  <2> QED
    BY <2>1, <2>2, <2>3, <2>4, Lengths
<1> QED
  BY <1>5, <1>6, <1>7, SeqEqual DEF HeardParts

(* A write that stores k of m samples takes the other m - k out of Heard.   *)
LEMMA StoredCutsHeard ==
  ASSUME TypeOK, TypeOK', Stored
  PROVE  \E k \in 0 .. Pending :
           /\ k = Pending \/ WriteMayFail
           /\ unstored' = unstored + (Pending - k)
           /\ Len(data') = Len(data) + k
           /\ Len(Heard') = Len(Heard) - (Pending - k)
           /\ \A i \in 1 .. Len(Heard') :
                Heard'[i] = Heard[IF i <= Len(data) + k THEN i ELSE i + (Pending - k)]
<1> DEFINE m == Pending
<1>1. PICK k \in 0 .. m : /\ k = m \/ WriteMayFail
                          /\ Len(data') = Len(data) + k
                          /\ \A i \in 1 .. Len(data) : data'[i] = data[i]
                          /\ \A i \in 1 .. k : data'[Len(data) + i] = Buffer[i]
                          /\ unstored' = unstored + (m - k)
                          /\ dataOut' = 0
  BY WriteFacts DEF Stored
<1>2. ring' = ring /\ Pending' = 0 /\ m \in Nat /\ k \in Nat /\ k <= m
  BY <1>1, Lengths, PendingIs DEF Stored
<1>3. HeardParts /\ HeardParts'
  BY HeardFacts, HeardFactsPrime
<1>4. Len(Heard) = Len(data) + m + Len(ring)
  BY <1>3 DEF HeardParts
<1>5. \A i \in 1 .. Len(Heard) : Heard[i] = IF i <= Len(data) THEN data[i]
                                           ELSE IF i <= Len(data) + m THEN Buffer[i - Len(data)]
                                           ELSE ring[i - Len(data) - m]
  BY <1>3 DEF HeardParts
<1>6. Len(Heard') = Len(data) + k + Len(ring)
  BY <1>1, <1>2, <1>3, Lengths DEF HeardParts
<1>7. \A i \in 1 .. Len(Heard') : Heard'[i] = IF i <= Len(data) + k THEN data'[i]
                                             ELSE ring[i - Len(data) - k]
  BY <1>1, <1>2, <1>3, Lengths DEF HeardParts
<1> HIDE DEF m
<1>8. \A i \in 1 .. Len(Heard') :
        Heard'[i] = Heard[IF i <= Len(data) + k THEN i ELSE i + (m - k)]
  <2> SUFFICES ASSUME NEW i \in 1 .. Len(Heard')
               PROVE  Heard'[i] = Heard[IF i <= Len(data) + k THEN i ELSE i + (m - k)]
    OBVIOUS
  <2>0. /\ Len(data) \in Nat /\ Len(ring) \in Nat /\ m \in Nat /\ k \in Nat
        /\ k <= m /\ i \in Nat /\ 1 <= i /\ i <= Len(data) + k + Len(ring)
    BY <1>2, <1>6, Lengths
  <2>1. CASE i <= Len(data)
    BY <1>1, <1>4, <1>5, <1>7, <2>0, <2>1
  <2>2. CASE Len(data) < i /\ i <= Len(data) + k
    <3>1. i - Len(data) \in 1 .. k /\ data'[Len(data) + (i - Len(data))] = Buffer[i - Len(data)]
      BY <1>1, <2>0, <2>2
    <3>2. data'[i] = Buffer[i - Len(data)]
      BY <2>0, <3>1
    <3> QED
      BY <1>4, <1>5, <1>7, <2>0, <2>2, <3>2
  <2>3. CASE Len(data) + k < i
    <3>1. i + (m - k) \in 1 .. Len(Heard) /\ ~(i + (m - k) <= Len(data) + m)
          /\ ~(i + (m - k) <= Len(data))
      BY <1>4, <2>0, <2>3
    <3>2. Heard[i + (m - k)] = ring[(i + (m - k)) - Len(data) - m]
      BY <1>5, <3>1, Zenon
    <3>3. (i + (m - k)) - Len(data) - m = i - Len(data) - k
      BY <2>0
    <3> QED
      BY <1>7, <2>0, <2>3, <3>2, <3>3
  <2> QED
    BY <2>0, <2>1, <2>2, <2>3
<1>9. Len(Heard') = Len(Heard) - (m - k)
  BY <1>2, <1>4, <1>6, Lengths
<1> QED
  BY <1>1, <1>8, <1>9 DEF m

LEMMA DeliveredExtendsHeard ==
  ASSUME TypeOK, TypeOK', Delivered
  PROVE  /\ produced' = produced + 1
         /\ \/ Heard' = Heard /\ lost' = lost + 1
            \/ /\ lost' = lost
               /\ Len(Heard') = Len(Heard) + 1
               /\ \A i \in 1 .. Len(Heard) : Heard'[i] = Heard[i]
               /\ Heard'[Len(Heard')] = produced'
<1>1. UNCHANGED <<data, Buffer, dataOut>> /\ produced' = produced + 1
  BY DeliverFacts DEF Delivered
<1>2. CASE ring' = ring /\ lost' = lost + 1
  BY <1>1, <1>2 DEF Heard, InFlight
<1>3. CASE /\ lost' = lost
           /\ Len(ring') = Len(ring) + 1
           /\ \A i \in 1 .. Len(ring) : ring'[i] = ring[i]
           /\ ring'[Len(ring) + 1] = produced'
  <2> DEFINE m == Pending
             l == Len(data) + m + Len(ring)
  <2>0. data' = data /\ Buffer' = Buffer /\ Pending' = Pending
    BY <1>1 DEF Pending
  <2>1. HeardParts /\ HeardParts'
    BY HeardFacts, HeardFactsPrime
  <2>2. Len(Heard) = l /\ Len(Heard') = l + 1 /\ m \in Nat
    BY <1>3, <2>0, <2>1, Lengths DEF HeardParts
  <2>3. \A i \in 1 .. l : Heard[i] = IF i <= Len(data) THEN data[i]
                                    ELSE IF i <= Len(data) + m THEN Buffer[i - Len(data)]
                                    ELSE ring[i - Len(data) - m]
    BY <2>1, <2>2 DEF HeardParts
  <2>4. \A i \in 1 .. l + 1 : Heard'[i] = IF i <= Len(data) THEN data[i]
                                         ELSE IF i <= Len(data) + m THEN Buffer[i - Len(data)]
                                         ELSE ring'[i - Len(data) - m]
    BY <2>0, <2>1, <2>2 DEF HeardParts
  <2> HIDE DEF m
  <2>5. ASSUME NEW i \in 1 .. l
        PROVE  Heard'[i] = Heard[i]
    <3>1. i \in 1 .. l + 1 /\ l \in Nat
      BY <2>2, Lengths
    <3>2. i > Len(data) + m => i - Len(data) - m \in 1 .. Len(ring)
      BY <2>2, Lengths
    <3>3. i > Len(data) + m => ring'[i - Len(data) - m] = ring[i - Len(data) - m]
      BY <1>3, <3>2
    <3>4. /\ Heard[i] = IF i <= Len(data) THEN data[i]
                        ELSE IF i <= Len(data) + m THEN Buffer[i - Len(data)]
                        ELSE ring[i - Len(data) - m]
          /\ Heard'[i] = IF i <= Len(data) THEN data[i]
                         ELSE IF i <= Len(data) + m THEN Buffer[i - Len(data)]
                         ELSE ring'[i - Len(data) - m]
      BY <2>3, <2>4, <3>1
    <3>5. i > Len(data) + m \/ i <= Len(data) + m
      BY <2>2, Lengths
    <3>6. CASE i > Len(data) + m
      BY <2>2, <3>3, <3>4, <3>6, Lengths
    <3>7. CASE i <= Len(data) + m
      BY <3>4, <3>7
    <3> QED
      BY <3>5, <3>6, <3>7
  <2>6. Heard'[l + 1] = produced'
    BY <1>3, <2>2, <2>4, Lengths
  <2> QED
    BY <1>1, <1>3, <2>2, <2>5, <2>6
<1> QED
  BY <1>1, <1>2, <1>3, DeliverFacts DEF Delivered

-------------------------------------------------------------------------------
(* Every delivered frame is accounted for: under way, in the file, dropped  *)
(* by the full device or refused by a failed write.                         *)
THEOREM ConservationCorrect == Spec => []Conservation
<1>1. Init => Conservation
  <2> SUFFICES ASSUME Init PROVE Conservation
    OBVIOUS
  <2>2. Len(Heard) = 0
    BY HeardInit
  <2> QED
    BY <2>2 DEF Conservation, Init, WriterInit, CollectorInit
<1>2. TypeOK /\ TypeOK' /\ Place /\ Conservation /\ [Next]_vars => Conservation'
  <2> SUFFICES ASSUME TypeOK, TypeOK', Place, Conservation, [Next]_vars
               PROVE  Conservation'
    OBVIOUS
  <2>1. CASE Still
    BY <2>1 DEF Still, Conservation, Heard, InFlight
  <2>2. CASE Taken
    <3>1. Heard' = Heard
      BY <2>2, TakenKeepsHeard
    <3>2. UNCHANGED <<produced, lost, unstored>>
      BY <2>2, CaptureFacts DEF Taken
    <3> QED
      BY <3>1, <3>2 DEF Conservation
  <2>3. CASE Stored
    <3>1. UNCHANGED <<produced, lost>>
      BY <2>3 DEF Stored
    <3>2. PICK k \in 0 .. Pending :
            /\ unstored' = unstored + (Pending - k)
            /\ Len(Heard') = Len(Heard) - (Pending - k)
      BY <2>3, StoredCutsHeard
    <3> DEFINE gap == Pending - k
    <3>3. gap \in Nat /\ unstored' = unstored + gap /\ Len(Heard') = Len(Heard) - gap
      BY <3>2, Lengths
    <3> HIDE DEF gap
    <3> QED
      BY <3>1, <3>3, Lengths DEF Conservation
  <2>4. CASE Delivered
    <3>1. unstored' = unstored
      BY <2>4 DEF Delivered
    <3> QED
      <4>1. /\ produced' = produced + 1
            /\ \/ Heard' = Heard /\ lost' = lost + 1
               \/ lost' = lost /\ Len(Heard') = Len(Heard) + 1
        BY <2>4, DeliveredExtendsHeard
      <4> QED
        BY <3>1, <4>1, Lengths DEF Conservation
  <2> QED
    BY <2>1, <2>2, <2>3, <2>4, Moves
<1> QED
  BY <1>1, <1>2, TypeCorrect, PlaceInvariant, PTL DEF Spec

(* The samples under way and in the file are delivered frames in the order  *)
(* of their delivery, none twice, whatever was dropped or refused.          *)
THEOREM HeardInOrderCorrect == Spec => []HeardInOrder
<1>1. Init => HeardInOrder
  <2> SUFFICES ASSUME Init PROVE HeardInOrder
    OBVIOUS
  <2>2. Len(Heard) = 0 /\ DOMAIN Heard = 1 .. Len(Heard)
    BY HeardInit
  <2> QED
    BY <2>2 DEF HeardInOrder
<1>2. TypeOK /\ TypeOK' /\ Place /\ HeardInOrder /\ [Next]_vars => HeardInOrder'
  <2> SUFFICES ASSUME TypeOK, TypeOK', Place, HeardInOrder, [Next]_vars
               PROVE  HeardInOrder'
    OBVIOUS
  <2>0. /\ DOMAIN Heard = 1 .. Len(Heard) /\ DOMAIN Heard' = 1 .. Len(Heard')
        /\ \A i \in 1 .. Len(Heard) : Heard[i] \in 1 .. produced
        /\ \A i, j \in 1 .. Len(Heard) : i < j => Heard[i] < Heard[j]
    BY HeardFacts, HeardFactsPrime DEF HeardParts, HeardInOrder
  <2>1. CASE Still
    BY <2>1 DEF Still, HeardInOrder, Heard, InFlight
  <2>2. CASE Taken
    <3>1. Heard' = Heard
      BY <2>2, TakenKeepsHeard
    <3>2. produced' = produced
      BY <2>2, CaptureFacts DEF Taken
    <3> QED
      BY <3>1, <3>2 DEF HeardInOrder
  <2>3. CASE Stored
    <3>1. produced' = produced
      BY <2>3 DEF Stored
    <3>2. PICK k \in 0 .. Pending :
            /\ Len(Heard') = Len(Heard) - (Pending - k)
            /\ \A i \in 1 .. Len(Heard') :
                 Heard'[i] = Heard[IF i <= Len(data) + k THEN i ELSE i + (Pending - k)]
      BY <2>3, StoredCutsHeard
    <3> DEFINE gap == Pending - k
               at(i) == IF i <= Len(data) + k THEN i ELSE i + gap
    <3>3. gap \in Nat /\ Len(Heard) = Len(Heard') + gap /\ Len(Heard') \in Nat
      <4>1. Len(Heard') \in Nat
        BY HeardFactsPrime, LenProperties DEF HeardParts
      <4>2. gap \in Nat
        BY <3>2, Lengths
      <4>3. Len(Heard') = Len(Heard) - gap
        BY <3>2
      <4> HIDE DEF gap
      <4> QED
        BY <4>1, <4>2, <4>3, Lengths
    <3> HIDE DEF gap
    <3>4. \A i \in 1 .. Len(Heard') : at(i) \in 1 .. Len(Heard)
      BY <3>3, Lengths
    <3>5. \A i, j \in 1 .. Len(Heard') : i < j => at(i) < at(j)
      BY <3>3, Lengths
    <3>6. \A i \in 1 .. Len(Heard') : Heard'[i] = Heard[at(i)]
      BY <3>2 DEF gap
    <3> HIDE DEF at
    <3> QED
      BY <2>0, <3>1, <3>4, <3>5, <3>6 DEF HeardInOrder
  <2>4. CASE Delivered
    <3>1. produced' = produced + 1 /\ produced \in Nat
      BY <2>4, DeliveredExtendsHeard, Lengths
    <3>2. CASE Heard' = Heard
      BY <2>0, <3>1, <3>2 DEF HeardInOrder
    <3>3. CASE /\ Len(Heard') = Len(Heard) + 1
               /\ \A i \in 1 .. Len(Heard) : Heard'[i] = Heard[i]
               /\ Heard'[Len(Heard')] = produced'
      <4>1. \A i \in 1 .. Len(Heard) : Heard'[i] \in 1 .. produced
        BY <2>0, <3>3
      <4>2. \A i \in 1 .. Len(Heard') : i \in 1 .. Len(Heard) \/ i = Len(Heard')
        BY <3>3, Lengths
      <4>3. \A i \in 1 .. Len(Heard') : Heard'[i] \in 1 .. produced'
        BY <3>1, <3>3, <4>1, <4>2
      <4>4. ASSUME NEW i \in 1 .. Len(Heard'), NEW j \in 1 .. Len(Heard'), i < j
            PROVE  Heard'[i] < Heard'[j]
        <5>1. i \in 1 .. Len(Heard)
          BY <3>3, <4>4, Lengths
        <5>2. CASE j \in 1 .. Len(Heard)
          BY <2>0, <3>3, <4>4, <5>1, <5>2
        <5>3. CASE j = Len(Heard')
          BY <3>1, <3>3, <4>1, <5>1, <5>3
        <5> QED
          BY <4>2, <5>2, <5>3
      <4> QED
        BY <2>0, <4>3, <4>4 DEF HeardInOrder
    <3> QED
      BY <2>4, <3>2, <3>3, DeliveredExtendsHeard
  <2> QED
    BY <2>1, <2>2, <2>3, <2>4, Moves
<1> QED
  BY <1>1, <1>2, TypeCorrect, PlaceInvariant, PTL DEF Spec

-------------------------------------------------------------------------------
(* The header on disk.  data_length counts what was given to fwrite, and    *)
(* the final header is written behind samples that are already on disk.     *)

DiskInv ==
  /\ data_length = 2 * (Len(data) + unstored)
  /\ disk.samples <= Len(data)
  /\ disk.header <= 2 * (disk.samples + unstored)
  /\ pc = "close_header" => disk = [header |-> 0, samples |-> Len(data)]
  /\ pc \in {"close_device", "done"} =>
       disk = [header |-> data_length, samples |-> Len(data)]

LEMMA DiskInit == Init => DiskInv
BY EmptyFacts DEF Init, WriterInit, DiskInv, NoHeader

LEMMA DiskStep == TypeOK /\ Place /\ DiskInv /\ [Next]_vars => DiskInv'
<1> SUFFICES ASSUME TypeOK, Place, DiskInv, [Next]_vars PROVE DiskInv'
  OBVIOUS
<1>0. /\ Len(data) \in Nat /\ unstored \in Nat /\ dataOut \in Nat
      /\ Pending \in Nat
      /\ disk \in [header : Nat \cup {-1}, samples : Nat]
  BY Lengths DEF TypeOK, WriterTypeOK, NoHeader
<1> DEFINE Settled == {"close_header", "close_device", "done"}
<1>1. CASE /\ UNCHANGED writerVars
           /\ pc' = pc \/ pc' \notin Settled \/ (pc = "close_device" /\ pc' = "done")
  BY <1>1 DEF writerVars, DiskInv
<1>2. CASE OpenWriter
  <2>1. CASE wav_write_open
    <3>1. data' = << >> /\ unstored' = 0 /\ data_length' = 0 /\ Len(<< >>) = 0
      BY <2>1, EmptyFacts DEF wav_write_open
    <3>2. disk'.samples = 0 /\ disk'.header = -1
      BY <2>1 DEF wav_write_open, NoHeader
    <3>3. pc' = "start_time"
      BY <1>2 DEF OpenWriter, goto
    <3> QED
      BY <3>1, <3>2, <3>3 DEF DiskInv
  <2>2. CASE WriteOpenFails
    BY <1>2, <2>2 DEF OpenWriter, goto, WriteOpenFails, DiskInv
  <2> QED
    BY <1>2, <2>1, <2>2 DEF OpenWriter
<1>3. CASE Write \/ DrainWrite
  <2>1. WriteBuffer /\ pc' \notin Settled
    BY <1>3 DEF Write, DrainWrite, goto
  <2>2. PICK k \in 0 .. Pending :
          /\ Len(data') = Len(data) + k
          /\ unstored' = unstored + (Pending - k)
          /\ disk' \in SpilledTo(Len(data) + k)
          /\ data_length' = data_length + dataOut
    BY <2>1, WriteFacts
  <2>3. dataOut = 2 * Pending
    <3>1. \E n \in Nat : dataOut = 2 * n
      BY <1>3, Sizes, RequestFacts DEF Write, DrainWrite, goto, Place, BufferInUse
    <3> QED
      BY <3>1, PendingIs
  <2> DEFINE m == Pending
  <2>4. m \in Nat /\ k \in Nat /\ k <= m /\ dataOut = 2 * m
    BY <1>0, <2>2, <2>3
  <2>5. /\ Len(data') = Len(data) + k
        /\ unstored' = unstored + (m - k)
        /\ data_length' = data_length + dataOut
    BY <2>2
  <2> HIDE DEF m
  <2>6. data_length' = 2 * (Len(data') + unstored')
    BY <1>0, <2>4, <2>5 DEF DiskInv
  <2>7. CASE disk' = disk
    BY <1>0, <2>1, <2>4, <2>5, <2>6, <2>7 DEF DiskInv
  <2>8. CASE \E s \in disk.samples .. Len(data) + k : disk' = [header |-> 0, samples |-> s]
    <3>1. PICK s \in disk.samples .. Len(data) + k : disk' = [header |-> 0, samples |-> s]
      BY <2>8
    <3>2. disk'.header = 0 /\ disk'.samples = s /\ s \in Nat /\ s <= Len(data) + k
      BY <1>0, <2>4, <3>1
    <3> QED
      BY <1>0, <2>1, <2>4, <2>5, <2>6, <3>2 DEF DiskInv
  <2> QED
    BY <2>2, <2>7, <2>8 DEF SpilledTo
<1>4. CASE CloseWriter
  <2>1. CASE goto("close_seek", "close_header") /\ CloseSeek
    <3>1. /\ UNCHANGED <<data, data_length, unstored>>
          /\ disk' = [header |-> 0, samples |-> Len(data)]
          /\ disk'.header = 0 /\ disk'.samples = Len(data)
          /\ pc' = "close_header"
      BY <2>1 DEF CloseSeek, goto
    <3> QED
      BY <1>0, <3>1 DEF DiskInv
  <2>2. CASE goto("close_header", "close_device") /\ CloseHeader
    <3>1. /\ UNCHANGED <<data, data_length, unstored>>
          /\ disk' = [header |-> data_length, samples |-> Len(data)]
          /\ disk'.header = data_length /\ disk'.samples = Len(data)
          /\ pc' = "close_device"
      BY <2>2 DEF CloseHeader, goto, DiskInv
    <3> QED
      BY <1>0, <3>1 DEF DiskInv
  <2> QED
    BY <1>4, <2>1, <2>2 DEF CloseWriter
<1>5. CASE Construct \/ Open \/ Start \/ StartTime \/ CheckTime \/ Query \/ Capture
  BY <1>1, <1>5 DEF Construct, Open, Start, StartTime, CheckTime, Query, QueryAgainst,
     Capture, goto
<1>6. CASE Stop \/ DrainQuery \/ DrainCapture \/ DrainEnds \/ CloseDevice \/ NullWriter
  BY <1>1, <1>6 DEF Stop, DrainQuery, DrainCapture, DrainEnds, CloseDevice, NullWriter, goto
<1>7. CASE DeliverFrame \/ Tick \/ ClockSetBack \/ Kill \/ UNCHANGED vars
  BY <1>1, <1>7 DEF DeliverFrame, Tick, ClockSetBack, Kill, vars, programVars
<1> QED
  BY <1>2, <1>3, <1>4, <1>5, <1>6, <1>7 DEF Next, Program, Finished

LEMMA DiskInvariant == Spec => []DiskInv
BY TypeCorrect, PlaceInvariant, DiskInit, DiskStep, PTL DEF Spec

(* Whenever the process dies, the length in the header that it leaves on    *)
(* disk is covered by the samples behind it, failed writes apart.           *)
THEOREM HeaderNeverOverclaimsCorrect == Spec => []HeaderNeverOverclaims
<1>1. DiskInv => HeaderNeverOverclaims
  BY Sizes DEF DiskInv, HeaderNeverOverclaims
<1> QED
  BY <1>1, DiskInvariant, PTL

-------------------------------------------------------------------------------
(* As long as nothing was dropped and no write failed, the k-th frame under *)
(* way is the k-th frame delivered.                                         *)

Exact == lost = 0 /\ unstored = 0 => \A i \in 1 .. Len(Heard) : Heard[i] = i

LEMMA ExactInvariant == Spec => []Exact
<1>1. Init => Exact
  <2> SUFFICES ASSUME Init PROVE Exact
    OBVIOUS
  <2>1. Len(Heard) = 0
    BY HeardInit
  <2> QED
    BY <2>1 DEF Exact
<1>2. TypeOK /\ TypeOK' /\ Place /\ Conservation /\ Exact /\ [Next]_vars => Exact'
  <2> SUFFICES ASSUME TypeOK, TypeOK', Place, Conservation, Exact, [Next]_vars,
                      lost' = 0, unstored' = 0
               PROVE  \A i \in 1 .. Len(Heard') : Heard'[i] = i
    BY DEF Exact
  <2>1. CASE Still
    BY <2>1 DEF Still, Exact, Heard, InFlight
  <2>2. CASE Taken
    <3>1. Heard' = Heard
      BY <2>2, TakenKeepsHeard
    <3>2. UNCHANGED <<lost, unstored>>
      BY <2>2, CaptureFacts DEF Taken
    <3> QED
      BY <3>1, <3>2 DEF Exact
  <2>3. CASE Stored
    <3>1. lost' = lost
      BY <2>3 DEF Stored
    <3>2. PICK k \in 0 .. Pending :
            /\ unstored' = unstored + (Pending - k)
            /\ Len(Heard') = Len(Heard) - (Pending - k)
            /\ \A i \in 1 .. Len(Heard') :
                 Heard'[i] = Heard[IF i <= Len(data) + k THEN i ELSE i + (Pending - k)]
      BY <2>3, StoredCutsHeard
    <3> DEFINE gap == Pending - k
    <3>3. gap \in Nat /\ unstored' = unstored + gap /\ Len(Heard') = Len(Heard) - gap
      <4>1. unstored' = unstored + gap /\ Len(Heard') = Len(Heard) - gap
        BY <3>2
      <4>2. k \in 0 .. Pending
        BY <3>2
      <4>3. gap \in Nat
        BY <4>2, Lengths
      <4> QED
        BY <4>1, <4>3
    <3>4. \A i \in 1 .. Len(Heard') : Heard'[i] = Heard[IF i <= Len(data) + k THEN i ELSE i + gap]
      BY <3>2
    <3> HIDE DEF gap
    <3>5. gap = 0 /\ unstored = 0
      BY <3>3, Lengths
    <3>6. Len(Heard') = Len(Heard) /\ Len(Heard) \in Nat
      BY <3>3, <3>5, Lengths
    <3>7. \A i \in 1 .. Len(Heard) : Heard'[i] = Heard[i]
      BY <3>4, <3>5, <3>6
    <3> QED
      BY <3>1, <3>5, <3>6, <3>7 DEF Exact
  <2>4. CASE Delivered
    <3>1. unstored' = unstored
      BY <2>4 DEF Delivered
    <3>2. /\ produced' = produced + 1
          /\ \/ Heard' = Heard /\ lost' = lost + 1
             \/ /\ lost' = lost
                /\ Len(Heard') = Len(Heard) + 1
                /\ \A i \in 1 .. Len(Heard) : Heard'[i] = Heard[i]
                /\ Heard'[Len(Heard')] = produced'
      BY <2>4, DeliveredExtendsHeard
    <3>3. /\ lost = 0 /\ unstored = 0
          /\ Len(Heard') = Len(Heard) + 1
          /\ \A i \in 1 .. Len(Heard) : Heard'[i] = Heard[i]
          /\ Heard'[Len(Heard) + 1] = produced + 1
      BY <3>1, <3>2, Lengths
    <3>4. produced = Len(Heard) /\ Len(Heard) \in Nat
      BY <3>3, Lengths DEF Conservation
    <3>5. \A i \in 1 .. Len(Heard) : Heard'[i] = i
      BY <3>3 DEF Exact
    <3>6. \A i \in 1 .. Len(Heard') : i \in 1 .. Len(Heard) \/ i = Len(Heard) + 1
      BY <3>3, <3>4
    <3> QED
      BY <3>3, <3>4, <3>5, <3>6
  <2> QED
    BY <2>1, <2>2, <2>3, <2>4, Moves
<1> QED
  BY <1>1, <1>2, TypeCorrect, PlaceInvariant, ConservationCorrect, PTL DEF Spec

(* A recording that ended normally is whole: the device is empty, the       *)
(* header has the final length, and unless the loop was late or a write     *)
(* failed the file holds every frame that was delivered.                    *)
THEOREM CompleteWhenDoneCorrect == Spec => []CompleteWhenDone
<1>1. TypeOK /\ Place /\ Headroom /\ Conservation /\ DiskInv /\ Exact => CompleteWhenDone
  <2> SUFFICES ASSUME TypeOK, Place, Headroom, Conservation, DiskInv, Exact, pc = "done"
               PROVE  /\ ring = << >>
                      /\ disk = [header |-> data_length, samples |-> Len(data)]
                      /\ ~late /\ unstored = 0 => data = [i \in 1 .. produced |-> i]
    BY DEF CompleteWhenDone
  <2>1. Len(ring) = 0 /\ dataOut = 0
    BY DEF Place, DrainInv
  <2>2. ring = << >>
    BY <2>1, EmptySeq DEF TypeOK, CollectorTypeOK
  <2>3. disk = [header |-> data_length, samples |-> Len(data)]
    BY DEF DiskInv
  <2>4. ASSUME ~late, unstored = 0
        PROVE  data = [i \in 1 .. produced |-> i]
    <3>1. lost = 0
      BY <2>4, Zenon DEF Headroom
    <3>2. \A i \in 1 .. Len(Heard) : Heard[i] = i
      BY <2>4, <3>1 DEF Exact
    <3>3. Pending = 0
      BY <2>1, PendingIs
    <3>4. Len(Heard) = Len(data) /\ \A i \in 1 .. Len(data) : Heard[i] = data[i]
      <4>1. Len(Heard) = Len(data)
        BY <2>1, <3>3, HeardFacts, Lengths DEF HeardParts
      <4>2. \A i \in 1 .. Len(data) : Heard[i] = data[i]
        BY <4>1, HeardFacts, Lengths DEF HeardParts
      <4> QED
        BY <4>1, <4>2
    <3>5. produced = Len(data)
      BY <2>4, <3>1, <3>4, Lengths DEF Conservation
    <3>6. data \in [1 .. produced -> Nat]
      BY <3>5, LenProperties DEF TypeOK, WriterTypeOK
    <3>7. \A i \in 1 .. produced : data[i] = i
      BY <3>2, <3>4, <3>5
    <3> QED
      BY <3>6, <3>7
  <2> QED
    BY <2>2, <2>3, <2>4
<1> QED
  BY <1>1, TypeCorrect, PlaceInvariant, HeadroomInvariant, ConservationCorrect,
     DiskInvariant, ExactInvariant, PTL

-------------------------------------------------------------------------------
(* The implementation of the abstract recorder, on a file system that       *)
(* stores what it is given.                                                 *)

SealInv ==
  /\ ww = "freed" => pc \in {"close_device", "done", "killed"}
  /\ pc = "close_header" => ww = "open"

LEMMA SealInvariant == Spec => []SealInv
<1>1. Init => SealInv
  BY DEF Init, WriterInit, SealInv
<1>2. SealInv /\ [Next]_vars => SealInv'
  <2> SUFFICES ASSUME SealInv, [Next]_vars PROVE SealInv'
    OBVIOUS
  <2>1. CASE Construct \/ Open \/ Start \/ StartTime \/ CheckTime \/ Query \/ Capture
    BY <2>1 DEF Construct, Open, Start, StartTime, CheckTime, Query, QueryAgainst, Capture,
       goto, SealInv, writerVars
  <2>2. CASE OpenWriter
    BY <2>2 DEF OpenWriter, wav_write_open, WriteOpenFails, goto, SealInv
  <2>3. CASE Write \/ DrainWrite
    BY <2>3 DEF Write, DrainWrite, WriteBuffer, wav_write_data, goto, SealInv
  <2>4. CASE Stop \/ DrainQuery \/ DrainCapture \/ DrainEnds \/ CloseDevice \/ NullWriter
    BY <2>4 DEF Stop, DrainQuery, DrainCapture, DrainEnds, CloseDevice, NullWriter,
       goto, SealInv, writerVars
  <2>5. CASE CloseWriter
    BY <2>5 DEF CloseWriter, CloseSeek, CloseHeader, goto, SealInv
  <2>6. CASE DeliverFrame \/ Tick \/ ClockSetBack \/ Kill \/ UNCHANGED vars
    BY <2>6 DEF DeliverFrame, Tick, ClockSetBack, Kill, vars, SealInv, Running,
       writerVars, programVars
  <2> QED
    BY <2>1, <2>2, <2>3, <2>4, <2>5, <2>6 DEF Next, Program, Finished
<1> QED
  BY <1>1, <1>2, PTL DEF Spec

(* A step either leaves the writer's being freed alone, or frees it, behind *)
(* a file that holds all that was heard.                                    *)
LEMMA SealStep ==
  ASSUME TypeOK, Place, SealInv, [Next]_vars
  PROVE  \/ (ww' = "freed") = (ww = "freed")
         \/ /\ ww # "freed" /\ ww' = "freed"
            /\ Len(ring) = 0 /\ dataOut = 0
            /\ UNCHANGED <<data, Buffer, dataOut, ring>>
<1>1. CASE Construct \/ Open \/ Start \/ StartTime \/ CheckTime \/ Query \/ Capture
  BY <1>1 DEF Construct, Open, Start, StartTime, CheckTime, Query, QueryAgainst, Capture,
     writerVars
<1>2. CASE OpenWriter
  BY <1>2 DEF OpenWriter, wav_write_open, WriteOpenFails, goto, SealInv
<1>3. CASE Write \/ DrainWrite
  BY <1>3 DEF Write, DrainWrite, WriteBuffer, wav_write_data
<1>4. CASE Stop \/ DrainQuery \/ DrainCapture \/ DrainEnds \/ CloseDevice \/ NullWriter
  BY <1>4 DEF Stop, DrainQuery, DrainCapture, DrainEnds, CloseDevice, NullWriter, writerVars
<1>5. CASE CloseWriter
  BY <1>5 DEF CloseWriter, CloseSeek, CloseHeader, goto, SealInv, Place, DrainInv,
     collectorVars
<1>6. CASE DeliverFrame \/ Tick \/ ClockSetBack \/ Kill \/ UNCHANGED vars
  BY <1>6 DEF DeliverFrame, Tick, ClockSetBack, Kill, vars, writerVars
<1> QED
  BY <1>1, <1>2, <1>3, <1>4, <1>5, <1>6 DEF Next, Program, Finished

(* The frames in the file are a prefix of the frames heard.                 *)
LEMMA DataIsPrefix ==
  ASSUME TypeOK
  PROVE  Len(data) <= Len(Heard) /\ data = SubSeq(Heard, 1, Len(data))
<1>1. /\ Len(data) <= Len(Heard) /\ Len(data) \in Nat
      /\ \A i \in 1 .. Len(data) : Heard[i] = data[i]
  BY HeardFacts, Lengths DEF HeardParts
<1>2. \A i \in 1 .. Len(data) : Heard[i] \in Nat
  BY <1>1, ElementOfSeq DEF TypeOK, WriterTypeOK
<1>3. /\ SubSeq(Heard, 1, Len(data)) \in Seq(Nat)
      /\ Len(SubSeq(Heard, 1, Len(data))) = Len(data)
      /\ \A i \in 1 .. Len(data) : SubSeq(Heard, 1, Len(data))[i] = Heard[i]
  BY <1>1, <1>2, SubSeqProperties
<1> QED
  BY <1>1, <1>3, SeqEqual DEF TypeOK, WriterTypeOK

LEMMA DataIsPrefixPrime ==
  ASSUME TypeOK'
  PROVE  Len(data') <= Len(Heard') /\ data' = SubSeq(Heard', 1, Len(data'))
<1>1. /\ Len(data') <= Len(Heard') /\ Len(data') \in Nat
      /\ \A i \in 1 .. Len(data') : Heard'[i] = data'[i]
  <2>1. Len(data') \in Nat /\ Len(ring') \in Nat
    BY LenProperties DEF TypeOK, WriterTypeOK, CollectorTypeOK
  <2> DEFINE m == Pending'
  <2>2. m \in Nat
    <3> DEFINE q == dataOut'
    <3>1. q \in 0 .. InternalBufSize
      BY DEF TypeOK, BUFFERSIZE
    <3> HIDE DEF q
    <3>2. q \div 2 \in Nat
      BY <3>1, Sizes
    <3> QED
      BY <3>2 DEF q, Pending
  <2>3. /\ Len(Heard') = Len(data') + m + Len(ring')
        /\ \A i \in 1 .. Len(Heard') :
             Heard'[i] = IF i <= Len(data') THEN data'[i]
                         ELSE IF i <= Len(data') + m THEN Buffer'[i - Len(data')]
                         ELSE ring'[i - Len(data') - m]
    BY HeardFactsPrime DEF HeardParts
  <2> HIDE DEF m
  <2> QED
    BY <2>1, <2>2, <2>3
<1>2. \A i \in 1 .. Len(data') : Heard'[i] \in Nat
  BY <1>1, ElementOfSeq DEF TypeOK, WriterTypeOK
<1>3. /\ SubSeq(Heard', 1, Len(data')) \in Seq(Nat)
      /\ Len(SubSeq(Heard', 1, Len(data'))) = Len(data')
      /\ \A i \in 1 .. Len(data') : SubSeq(Heard', 1, Len(data'))[i] = Heard'[i]
  BY <1>1, <1>2, SubSeqProperties
<1> QED
  BY <1>1, <1>3, SeqEqual DEF TypeOK, WriterTypeOK

(* While the device captures, the file is not closed yet.                   *)
LEMMA DeviceOnMeansOpen ==
  ASSUME Place, SealInv, Delivered
  PROVE  ww # "freed"
BY DEF Delivered, Deliver, Place, DrainInv, Draining, SealInv, Running

(* A sequence g from which the n elements of h behind the c-th are missing. *)
LEMMA CutOut ==
  ASSUME NEW h \in Seq(Nat), NEW g \in Seq(Nat), NEW c \in Nat, NEW n \in Nat,
         c + n <= Len(h),
         Len(g) = Len(h) - n,
         \A i \in 1 .. c : g[i] = h[i],
         \A i \in c + 1 .. Len(g) : g[i] = h[i + n]
  PROVE  /\ SubSeq(g, 1, c) = SubSeq(h, 1, c)
         /\ g = SubSeq(h, 1, c) \o SubSeq(h, c + n + 1, Len(h))
<1> DEFINE a == SubSeq(h, 1, c)
           b == SubSeq(h, c + n + 1, Len(h))
<1>1. /\ Len(h) \in Nat /\ Len(g) \in Nat /\ c <= Len(g)
      /\ \A i \in 1 .. Len(h) : h[i] \in Nat
      /\ \A i \in 1 .. Len(g) : g[i] \in Nat
  BY LenProperties
<1>2. /\ a \in Seq(Nat)
      /\ Len(a) = c
      /\ \A i \in 1 .. c : a[i] = h[i]
  <2>1. \A i \in 1 .. c : h[i] \in Nat
    BY <1>1
  <2> QED
    BY <1>1, <2>1, SubSeqProperties
<1>3. /\ b \in Seq(Nat)
      /\ Len(b) = Len(h) - (c + n)
      /\ \A i \in 1 .. Len(h) - (c + n) : b[i] = h[c + n + i]
  <2>1. \A i \in c + n + 1 .. Len(h) : h[i] \in Nat
    BY <1>1
  <2> QED
    BY <1>1, <2>1, SubSeqProperties
<1>4. /\ SubSeq(g, 1, c) \in Seq(Nat)
      /\ Len(SubSeq(g, 1, c)) = c
      /\ \A i \in 1 .. c : SubSeq(g, 1, c)[i] = g[i]
  <2>1. \A i \in 1 .. c : g[i] \in Nat
    BY <1>1
  <2> QED
    BY <1>1, <2>1, SubSeqProperties
<1> HIDE DEF a, b
<1>5. SubSeq(g, 1, c) = a
  BY <1>1, <1>2, <1>4, SeqEqual
<1>6. g = a \o b
  <2>1. /\ a \o b \in Seq(Nat)
        /\ Len(a \o b) = Len(a) + Len(b)
        /\ \A i \in 1 .. Len(a) + Len(b) :
             (a \o b)[i] = IF i <= Len(a) THEN a[i] ELSE b[i - Len(a)]
    BY <1>2, <1>3, ConcatProperties
  <2>2. Len(a \o b) = Len(g)
    BY <1>1, <1>2, <1>3, <2>1
  <2>3. \A i \in 1 .. Len(g) : (a \o b)[i] = g[i]
    <3> TAKE i \in 1 .. Len(g)
    <3>1. CASE i <= c
      <4>1. i \in 1 .. c /\ i \in 1 .. Len(a) + Len(b)
        BY <1>1, <1>2, <1>3, <2>1, <2>2, <3>1
      <4>2. (a \o b)[i] = a[i] /\ a[i] = h[i]
        BY <1>2, <2>1, <4>1
      <4>3. g[i] = h[i]
        BY <4>1
      <4> QED
        BY <4>2, <4>3
    <3>2. CASE i > c
      <4>9. i \in 1 .. Len(a) + Len(b) /\ ~(i <= Len(a)) /\ Len(a) = c
        BY <1>1, <1>2, <2>1, <2>2, <3>2
      <4>1. (a \o b)[i] = b[i - c] /\ i - c \in 1 .. Len(h) - (c + n)
        <5>1. (a \o b)[i] = b[i - c]
          BY <2>1, <4>9, Zenon
        <5>2. i - c \in 1 .. Len(h) - (c + n)
          BY <1>1, <3>2
        <5> QED
          BY <5>1, <5>2
      <4>2. b[i - c] = h[i + n]
        BY <1>1, <1>3, <4>1
      <4>3. i \in c + 1 .. Len(g)
        BY <1>1, <3>2
      <4>4. g[i] = h[i + n]
        BY <4>3
      <4> QED
        BY <4>1, <4>2, <4>4
    <3>3. i <= c \/ i > c
      BY <1>1
    <3> QED
      BY <3>1, <3>2, <3>3, Zenon
  <2> QED
    BY <2>1, <2>2, <2>3, SeqEqual
<1> QED
  BY <1>5, <1>6 DEF a, b

(* Every step of the recording is a step of the abstract recorder or        *)
(* invisible to it, whether or not fwrite stores all that it is given: what *)
(* it refuses is what it was given last, and nothing else is missing.       *)
THEOREM Implementation == Spec => ImplementsRecording
<1>1. Init => Recorder!Init
  <2> SUFFICES ASSUME Init PROVE Recorder!Init
    OBVIOUS
  <2>1. Heard \in Seq(Nat) /\ Len(Heard) = 0
    BY HeardInit
  <2>2. Heard = << >>
    BY <2>1, EmptySeq
  <2>3. data = << >> /\ ww # "freed"
    BY DEF Init, WriterInit
  <2> QED
    BY <2>2, <2>3 DEF Recorder!Init
<1>2. TypeOK /\ TypeOK' /\ Place /\ SealInv /\ [Next]_vars
        => [Recorder!Next]_(Recorder!recordingVars)
  <2> SUFFICES ASSUME TypeOK, TypeOK', Place, SealInv, [Next]_vars
               PROVE  Recorder!Next \/ UNCHANGED <<Heard, data, ww = "freed">>
    BY DEF Recorder!recordingVars
  <2>1. CASE /\ ww # "freed" /\ ww' = "freed"
             /\ Len(ring) = 0 /\ dataOut = 0
             /\ UNCHANGED <<data, Buffer, dataOut, ring>>
    <3>1. Heard' = Heard
      BY <2>1 DEF Heard, InFlight
    <3>2. Pending = 0
      BY <2>1, PendingIs
    <3>3. Len(Heard) = Len(data) /\ Heard \in Seq(Nat)
      BY <2>1, <3>2, HeardFacts, Lengths DEF HeardParts
    <3>4. data = Heard
      BY <3>3, DataIsPrefix, SubSeqFull
    <3> QED
      BY <2>1, <3>1, <3>4 DEF Recorder!Next, Recorder!Seal
  <2>2. CASE (ww' = "freed") = (ww = "freed")
    <3>1. CASE Still \/ Taken
      <4>1. Heard' = Heard /\ data' = data
        BY <3>1, TakenKeepsHeard DEF Still, Taken, Heard, InFlight
      <4> QED
        BY <2>2, <4>1
    <3>2. CASE Stored
      <4>1. ww # "freed"
        BY <3>2 DEF Stored, WriteBuffer
      <4>2. PICK k \in 0 .. Pending :
              /\ k = Pending \/ WriteMayFail
              /\ Len(data') = Len(data) + k
              /\ Len(Heard') = Len(Heard) - (Pending - k)
              /\ \A i \in 1 .. Len(Heard') :
                   Heard'[i] = Heard[IF i <= Len(data) + k THEN i
                                     ELSE i + (Pending - k)]
        BY <3>2, StoredCutsHeard
      <4> DEFINE n == Pending - k
                 c == Len(data) + k
      <4>3. /\ k \in Nat /\ n \in Nat /\ c \in Nat
            /\ Len(data) \in Nat /\ Len(Heard) \in Nat
            /\ Len(data) + k + n <= Len(Heard)
            /\ n > 0 => WriteMayFail
        BY <4>2, Lengths, HeardFacts DEF HeardParts
      <4>4. /\ Heard \in Seq(Nat) /\ Heard' \in Seq(Nat)
            /\ Len(Heard') = Len(Heard) - n
            /\ \A i \in 1 .. Len(Heard') : Heard'[i] = Heard[IF i <= c THEN i ELSE i + n]
        BY <4>2, HeardFacts, HeardFactsPrime DEF HeardParts
      <4>5. data' = SubSeq(Heard', 1, c)
        BY <4>2, DataIsPrefixPrime
      <4> HIDE DEF n
      <4>6. c + n <= Len(Heard)
        BY <4>3
      <4>7. /\ data' = SubSeq(Heard, 1, c)
            /\ Heard' = SubSeq(Heard, 1, c) \o SubSeq(Heard, c + n + 1, Len(Heard))
        <5> DEFINE h == Heard
                   g == Heard'
        <5> HIDE DEF c
        <5>1. h \in Seq(Nat) /\ g \in Seq(Nat) /\ Len(g) = Len(h) - n /\ c + n <= Len(h)
          BY <4>4, <4>6
        <5>2. Len(h) \in Nat /\ c \in Nat /\ n \in Nat
          BY <4>3
        <5>3. \A i \in 1 .. Len(g) : g[i] = h[IF i <= c THEN i ELSE i + n]
          BY <4>4
        <5> HIDE DEF h, g
        <5>4. \A i \in 1 .. c : g[i] = h[i]
          <6> TAKE i \in 1 .. c
          <6>1. i \in 1 .. Len(g) /\ i <= c
            BY <5>1, <5>2
          <6> QED
            BY <5>3, <6>1, Zenon
        <5>5. \A i \in c + 1 .. Len(g) : g[i] = h[i + n]
          <6> TAKE i \in c + 1 .. Len(g)
          <6>1. i \in 1 .. Len(g) /\ ~(i <= c)
            BY <5>1, <5>2
          <6> QED
            BY <5>3, <6>1, Zenon
        <5>6. SubSeq(g, 1, c) = SubSeq(h, 1, c)
              /\ g = SubSeq(h, 1, c) \o SubSeq(h, c + n + 1, Len(h))
          BY <5>1, <5>2, <5>4, <5>5, CutOut
        <5> QED
          BY <4>5, <5>6 DEF g, h
      <4>8. k \in 0 .. Len(Heard) - Len(data) /\ n \in 0 .. Len(Heard) - Len(data)
            /\ k + n <= Len(Heard) - Len(data)
        BY <4>3
      <4>9. /\ data' = SubSeq(Heard, 1, Len(data) + k)
            /\ Heard' = data' \o SubSeq(Heard, Len(data) + k + n + 1, Len(Heard))
        BY <4>7
      <4> QED
        BY <2>2, <4>1, <4>3, <4>8, <4>9 DEF Recorder!Next, Recorder!Save
    <3>3. CASE Delivered
      <4>1. CASE Heard' = Heard
        BY <2>2, <3>3, <4>1 DEF Delivered
      <4>2. CASE /\ Len(Heard') = Len(Heard) + 1
                 /\ \A i \in 1 .. Len(Heard) : Heard'[i] = Heard[i]
        <5>1. ww # "freed"
          BY <3>3, DeviceOnMeansOpen
        <5>2. SubSeq(Heard', 1, Len(Heard)) = Heard
          <6>1. Heard \in Seq(Nat) /\ Len(Heard) \in Nat
                /\ \A i \in 1 .. Len(Heard) : Heard'[i] \in Nat
            BY <4>2, HeardFacts, Lengths, ElementOfSeq DEF HeardParts
          <6>2. /\ SubSeq(Heard', 1, Len(Heard)) \in Seq(Nat)
                /\ Len(SubSeq(Heard', 1, Len(Heard))) = Len(Heard)
                /\ \A i \in 1 .. Len(Heard) : SubSeq(Heard', 1, Len(Heard))[i] = Heard'[i]
            BY <6>1, SubSeqProperties
          <6> QED
            BY <4>2, <6>1, <6>2, SeqEqual
        <5> QED
          BY <2>2, <3>3, <4>2, <5>1, <5>2 DEF Delivered, Recorder!Next, Recorder!Hear
      <4> QED
        BY <3>3, <4>1, <4>2, DeliveredExtendsHeard
    <3> QED
      BY <3>1, <3>2, <3>3, Moves
  <2> QED
    BY <2>1, <2>2, SealStep
<1> QED
  BY <1>1, <1>2, TypeCorrect, PlaceInvariant, SealInvariant, PTL
  DEF Spec, ImplementsRecording, Recorder!Spec
===============================================================================
