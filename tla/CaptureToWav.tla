----------------------------- MODULE CaptureToWav -----------------------------
(***************************************************************************)
(* capture_to_wav2 (capture_audio/src/capture_audio_to_wav2.cpp), the      *)
(* function that the capture_audio program runs: it opens a capture        *)
(* device, records for RecordMillis into a WAV file one block at a time,   *)
(* stops the device, drains it and closes both.                            *)
(*                                                                         *)
(* The program is one thread; around it run the driver's thread, which     *)
(* delivers frames whenever it likes (AudioCollector!Deliver), the wall    *)
(* clock, which the user may set back, and whoever kills the process.      *)
(* pc names the call that the program makes next.                          *)
(***************************************************************************)
EXTENDS AudioCollector, WavWriter

CONSTANTS
  TickMillis,     (* granularity of the clock: milliseconds per Tick        *)
  MaxClockSteps   (* bound: how often the system clock may be set back      *)

(* The program's own constants, and the clock's bounds. *)
ASSUME ProgramAssumption ==
  /\ Channels = 1
  /\ BitsPerSample = 16
  /\ SampleBytes = (BitsPerSample \div 8) * Channels
  /\ TickMillis \in Nat \ {0}
  /\ MaxClockSteps \in Nat

VARIABLES
  pc,                (* the program's next call, or how the process ended   *)
  iSamplesAvailable, (* what the last availableSamples returned, as the     *)
                     (* drain loop counts it down                           *)
  Buffer,            (* the local block buffer, in samples; 0 is garbage    *)
  dataOut,           (* bytes between captureSamples and wav_write_data     *)
  clock,             (* Time::currentTime() - dwStartTime                   *)
  clockSteps,        (* how often the clock was set back                    *)
  fresh,             (* history: frames delivered since the loop last found *)
                     (* at most a block waiting, or took one                *)
  late               (* history: fresh has been more than a block           *)

programVars == <<pc, iSamplesAvailable, Buffer, dataOut>>
clockVars == <<clock, clockSteps>>
historyVars == <<fresh, late>>
vars == <<collectorVars, writerVars, programVars, clockVars, historyVars>>

BUFFERSIZE == InternalBufSize
BlockSamples == BUFFERSIZE \div blockAlign
RecordMillis == 8000

Running == {"construct", "open", "start", "wav_write_open", "start_time",
            "check", "query", "capture", "write",
            "stop", "drain_query", "drain", "drain_write",
            "close_seek", "close_header", "close_device"}
Ended == {"done", "terminated", "crashed", "killed"}
InLoop == {"check", "query", "capture", "write"}

goto(from, to) == pc = from /\ pc' = to

Init ==
  /\ CollectorInit
  /\ WriterInit
  /\ pc = "construct"
  /\ iSamplesAvailable = 0
  /\ Buffer = [i \in 1 .. BlockSamples |-> 0]
  /\ dataOut = 0
  /\ clock = 0
  /\ clockSteps = 0
  /\ fresh = 0
  /\ late = FALSE

-------------------------------------------------------------------------------
(* The set-up.  An exception that leaves the function leaves main too.      *)

(* The constructor throws on a format it does not know, and when the        *)
(* library has no capture extension.                                        *)
Construct ==
  /\ \/ FormatAccepted /\ goto("construct", "open")
     \/ goto("construct", "terminated")
  /\ UNCHANGED <<iSamplesAvailable, Buffer, dataOut,
                 collectorVars, writerVars, clockVars, historyVars>>

Open ==
  /\ \/ goto("open", "start") /\ open
     \/ goto("open", "terminated") /\ UNCHANGED collectorVars
  /\ UNCHANGED <<iSamplesAvailable, Buffer, dataOut,
                 writerVars, clockVars, historyVars>>

Start ==
  /\ goto("start", "wav_write_open")
  /\ start
  /\ UNCHANGED <<iSamplesAvailable, Buffer, dataOut,
                 writerVars, clockVars, historyVars>>

(* Capture is already on while the file is opened; the returned pointer is  *)
(* not checked.                                                             *)
OpenWriter ==
  /\ goto("wav_write_open", "start_time")
  /\ wav_write_open \/ WriteOpenFails
  /\ UNCHANGED <<iSamplesAvailable, Buffer, dataOut,
                 collectorVars, clockVars, historyVars>>

StartTime ==
  /\ goto("start_time", "check")
  /\ clock' = 0
  /\ UNCHANGED <<iSamplesAvailable, Buffer, dataOut, clockSteps,
                 collectorVars, writerVars, historyVars>>

-------------------------------------------------------------------------------
(* The recording loop. *)

(* Mutant: the loop ends only when it hits the limit exactly. *)
CheckTimeExactly ==
  /\ \/ clock # RecordMillis /\ goto("check", "query")
     \/ clock = RecordMillis /\ goto("check", "stop")
  /\ UNCHANGED <<iSamplesAvailable, Buffer, dataOut,
                 collectorVars, writerVars, clockVars, historyVars>>

CheckTime ==
  /\ \/ clock <= RecordMillis /\ goto("check", "query")
     \/ clock > RecordMillis /\ goto("check", "stop")
  /\ UNCHANGED <<iSamplesAvailable, Buffer, dataOut,
                 collectorVars, writerVars, clockVars, historyVars>>

QueryAgainst(threshold) ==
  /\ iSamplesAvailable' = availableSamples
  /\ \/ /\ availableSamples > threshold
        /\ goto("query", "capture")
        /\ UNCHANGED historyVars
     \/ /\ availableSamples <= threshold
        /\ goto("query", "check")
        /\ fresh' = 0
        /\ UNCHANGED late
  /\ UNCHANGED <<Buffer, dataOut, collectorVars, writerVars, clockVars>>

(* Mutants: bytes taken for frames; any frame at all taken for a block. *)
QueryBytes == QueryAgainst(BUFFERSIZE)
QueryAny == QueryAgainst(0)

(* A block is taken only when more than a block is waiting. *)
Query == QueryAgainst(BlockSamples)

(* captureSamples into Buffer; it throws when Buffer is too small. *)
CaptureInto(n) ==
  /\ CaptureFits(BUFFERSIZE, n)
  /\ captureSamples(n)
  /\ Buffer' = BufferAfter(Buffer, n)
  /\ dataOut' = ReportedBytes(n)

Capture ==
  /\ goto("capture", "write")
  /\ CaptureInto(BlockSamples)
  /\ fresh' = 0
  /\ UNCHANGED <<iSamplesAvailable, late, writerVars, clockVars>>

(* The samples of Buffer that wav_write_data is given; dataOut goes out of  *)
(* scope behind the call.                                                   *)
InFlight == SubSeq(Buffer, 1, dataOut \div SampleBytes)

(* Mutant: wav_write_data is given a number of samples for its bytes. *)
WriteBufferSamples ==
  /\ ww = "open"
  /\ wav_write_data(SubSeq(InFlight, 1, Len(InFlight) \div SampleBytes), Len(InFlight))
  /\ dataOut' = 0

WriteBuffer ==
  /\ ww = "open"
  /\ wav_write_data(InFlight, dataOut)
  /\ dataOut' = 0

Write ==
  /\ goto("write", "check")
  /\ WriteBuffer
  /\ UNCHANGED <<iSamplesAvailable, Buffer,
                 collectorVars, clockVars, historyVars>>

-------------------------------------------------------------------------------
(* After the loop: stop, drain what is left, close the file, the device.    *)

Stop ==
  /\ goto("stop", "drain_query")
  /\ stop
  /\ UNCHANGED <<iSamplesAvailable, Buffer, dataOut,
                 writerVars, clockVars, historyVars>>

(* Mutant: the drain loop trusts what the recording loop read last. *)
DrainQueryStale ==
  /\ goto("drain_query", "drain")
  /\ UNCHANGED <<iSamplesAvailable, Buffer, dataOut,
                 collectorVars, writerVars, clockVars, historyVars>>

DrainQuery ==
  /\ goto("drain_query", "drain")
  /\ iSamplesAvailable' = availableSamples
  /\ UNCHANGED <<Buffer, dataOut,
                 collectorVars, writerVars, clockVars, historyVars>>

(* Mutant: the drain loop always asks for a whole block. *)
DrainRequestBlock == BlockSamples

(* The next block, or what is left of it. *)
DrainRequest ==
  IF iSamplesAvailable > BlockSamples THEN BlockSamples ELSE iSamplesAvailable

DrainCapture ==
  /\ iSamplesAvailable > 0
  /\ goto("drain", "drain_write")
  /\ CaptureInto(DrainRequest)
  /\ UNCHANGED <<iSamplesAvailable, writerVars, clockVars, historyVars>>

(* Mutant: a block is subtracted on the last, shorter pass as well. *)
DrainWriteBlock ==
  /\ goto("drain_write", "drain")
  /\ WriteBuffer
  /\ iSamplesAvailable' = iSamplesAvailable - BlockSamples
  /\ UNCHANGED <<Buffer, collectorVars, clockVars, historyVars>>

DrainWrite ==
  /\ goto("drain_write", "drain")
  /\ WriteBuffer
  /\ iSamplesAvailable' = iSamplesAvailable - DrainRequest
  /\ UNCHANGED <<Buffer, collectorVars, clockVars, historyVars>>

(* Mutant: the drain loop leaves out the last, partial block. *)
DrainEndsEarly ==
  /\ iSamplesAvailable < BlockSamples
  /\ goto("drain", "close_seek")
  /\ UNCHANGED <<iSamplesAvailable, Buffer, dataOut,
                 collectorVars, writerVars, clockVars, historyVars>>

DrainEnds ==
  /\ iSamplesAvailable = 0
  /\ goto("drain", "close_seek")
  /\ UNCHANGED <<iSamplesAvailable, Buffer, dataOut,
                 collectorVars, writerVars, clockVars, historyVars>>

(* wav_write_close, in the two steps in which the file on disk changes. *)
CloseWriter ==
  /\ \/ ww = "open" /\ goto("close_seek", "close_header") /\ CloseSeek
     \/ goto("close_header", "close_device") /\ CloseHeader
  /\ UNCHANGED <<iSamplesAvailable, Buffer, dataOut,
                 collectorVars, clockVars, historyVars>>

CloseDevice ==
  /\ goto("close_device", "done")
  /\ close
  /\ UNCHANGED <<iSamplesAvailable, Buffer, dataOut,
                 writerVars, clockVars, historyVars>>

(* Both wav_write_data and wav_write_close dereference the pointer that     *)
(* wav_write_open returned.                                                 *)
NullWriter ==
  /\ ww = "null"
  /\ \E call \in {"write", "drain_write", "close_seek"} : goto(call, "crashed")
  /\ UNCHANGED <<iSamplesAvailable, Buffer, dataOut,
                 collectorVars, writerVars, clockVars, historyVars>>

-------------------------------------------------------------------------------
(* The program's surroundings. *)

DeliverFrame ==
  /\ pc \in Running
  /\ Deliver
  /\ fresh' = fresh + 1
  /\ late' = (late \/ fresh + 1 > BlockSamples)
  /\ UNCHANGED <<writerVars, programVars, clockVars>>

(* Time matters to the loop only, and not beyond its limit (a bound). *)
Tick ==
  /\ pc \in InLoop
  /\ clock <= RecordMillis
  /\ clock' = clock + TickMillis
  /\ UNCHANGED <<clockSteps, collectorVars, writerVars, programVars, historyVars>>

(* system_clock is not monotonic. *)
ClockSetBack ==
  /\ pc \in InLoop
  /\ clockSteps < MaxClockSteps
  /\ clockSteps' = clockSteps + 1
  /\ clock' = clock - TickMillis
  /\ UNCHANGED <<collectorVars, writerVars, programVars, historyVars>>

Kill ==
  /\ pc \in Running
  /\ pc' = "killed"
  /\ UNCHANGED <<iSamplesAvailable, Buffer, dataOut,
                 collectorVars, writerVars, clockVars, historyVars>>

Finished ==
  /\ pc \in Ended
  /\ UNCHANGED vars

Program ==
  \/ Construct \/ Open \/ Start \/ OpenWriter \/ StartTime
  \/ CheckTime \/ Query \/ Capture \/ Write
  \/ Stop \/ DrainQuery \/ DrainCapture \/ DrainWrite \/ DrainEnds
  \/ CloseWriter \/ CloseDevice \/ NullWriter

Next ==
  \/ Program
  \/ DeliverFrame \/ Tick \/ ClockSetBack \/ Kill
  \/ Finished

Spec == Init /\ [][Next]_vars

(* The program is scheduled and time passes; nothing obliges the microphone *)
(* to deliver, the user to touch the clock or anyone to kill the process.   *)
FairSpec == Spec /\ WF_vars(Program) /\ WF_vars(Tick)

-------------------------------------------------------------------------------
(* Properties. *)

(* Every variable keeps its type; the counters never become negative and    *)
(* what captureSamples says it placed in Buffer is no larger than Buffer.   *)
TypeOK ==
  /\ CollectorTypeOK
  /\ WriterTypeOK
  /\ pc \in Running \cup Ended
  /\ iSamplesAvailable \in Nat
  /\ Buffer \in [1 .. BlockSamples -> Nat]
  /\ dataOut \in 0 .. BUFFERSIZE
  /\ clock \in Int
  /\ clockSteps \in Nat
  /\ fresh \in Nat
  /\ late \in BOOLEAN

(* What the device accepted and no failed write threw away, wherever it is: *)
(* in the file, in the block buffer or still in the device.                 *)
Heard == data \o InFlight \o ring

(* Frames are neither reordered, repeated nor invented on their way through *)
(* the block buffer: a stale or uninitialised sample never reaches the      *)
(* file, although captureSamples reports success whatever the device did    *)
(* and Buffer is never cleared.                                             *)
HeardInOrder ==
  /\ \A i \in DOMAIN Heard : Heard[i] \in 1 .. produced
  /\ \A i, j \in DOMAIN Heard : i < j => Heard[i] < Heard[j]

(* Every frame the microphone delivered is accounted for at every instant:  *)
(* on its way or in the file, dropped by the full device, or refused by a   *)
(* failed fwrite.  No step of the two loops swallows one.                   *)
Conservation == Len(Heard) + lost + unstored = produced

(* The hand-off of half a device buffer per pass is enough: the device      *)
(* overruns only if more than one block arrives between two moments at      *)
(* which the loop finds at most a block waiting, or takes one.              *)
LossOnlyWhenLate == lost > 0 => late

Backed(n) == n <= Len(ring) /\ CaptureFits(BUFFERSIZE, n)

(* captureSamples never asks for more than the device holds nor for more    *)
(* than Buffer holds, although the count it uses was read one call, and in  *)
(* the drain loop several calls, earlier.                                   *)
RequestIsBacked ==
  /\ pc = "capture" => Backed(BlockSamples)
  /\ pc = "drain" => Backed(DrainRequest)

(* A recording that ended normally is whole: nothing was left in the        *)
(* device, the header that is on disk gives the length that was written,    *)
(* and when the loop was never late and no write failed the file holds      *)
(* every frame that the microphone delivered.                               *)
CompleteWhenDone ==
  pc = "done" =>
    /\ ring = << >>
    /\ disk = [header |-> data_length, samples |-> Len(data)]
    /\ ~late /\ unstored = 0 => data = [i \in 1 .. produced |-> i]

(* Whenever the process dies, the header it leaves on disk does not claim   *)
(* more samples than the file behind it has, failed writes apart: the       *)
(* samples are flushed before the final length is written.                  *)
HeaderNeverOverclaims == disk.header <= SampleBytes * (disk.samples + unstored)

(* The recording implements the abstract recorder, on a file system that    *)
(* may refuse to store what it is given and on one that does not.           *)
Recorder == INSTANCE Recording WITH
  MayRefuse <- WriteMayFail,
  heard <- Heard, saved <- data, sealed <- (ww = "freed")

ImplementsRecording == Recorder!Spec

(* The program ends: the loop's time runs out even when the clock was set   *)
(* back, and the drain loop comes to an end.                                *)
Termination == <>(pc \in Ended)

(* What the comment above the loop says: "Record for 5 seconds".  The loop  *)
(* begins no pass later than that.                                          *)
RecordsFiveSeconds == [][pc = "check" /\ pc' = "query" => clock <= 5000]_vars
===============================================================================
