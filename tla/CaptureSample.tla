---------------------------- MODULE CaptureSample ----------------------------
(***************************************************************************)
(* The OpenAL capture sample (examples/openal/Capture.cpp): it sets the    *)
(* framework up, records the default capture device for two seconds or     *)
(* until a key is pressed, block by block, into a WAV file whose header it *)
(* fills in at the end with two separate writes, and takes everything down.*)
(*                                                                         *)
(* One thread, and around it the driver that delivers frames, the wrapping *)
(* millisecond counter, the user, and whoever kills the process.  pc names *)
(* the call that comes next.  stdio writes its buffer out when it likes,   *)
(* on fseek and on fclose.                                                 *)
(***************************************************************************)
EXTENDS CaptureDevice, OpenALSession, Integers

CONSTANTS
  DwordRange,    (* number of values of timeGetTime(), in units that are    *)
                 (* longer than a pass of the recording loop                *)
  RecordTime,    (* the 2000 ms, in these units                             *)
  WriteMayFail   (* TRUE when fwrite may store less than it was given       *)

ASSUME SampleAssumption ==
  /\ DwordRange \in Nat \ {0}
  /\ RecordTime \in 0 .. DwordRange - 1
  /\ WriteMayFail \in BOOLEAN

VARIABLES
  pc,                (* the next call, or how the process ended             *)
  iSamplesAvailable, (* what ALC_CAPTURE_SAMPLES gave, counted down         *)
  Buffer,            (* the block buffer, in samples; 0 is garbage          *)
  iDataSize,         (* bytes that fwrite was asked to store                *)
  pFile,             (* the stream                                          *)
  samples,           (* what the stream holds behind the header             *)
  disk,              (* the file as a killed process leaves it: the two     *)
                     (* lengths in its header and the samples behind it     *)
  now,               (* timeGetTime()                                       *)
  dwStartTime,       (* its value when the recording began                  *)
  polled             (* history: the loop has looked since now changed      *)

fileVars == <<iDataSize, pFile, samples, disk>>
timeVars == <<now, dwStartTime, polled>>
loopVars == <<iSamplesAvailable, Buffer>>
sampleVars == <<pc, collectorVars, held, loopVars, fileVars, timeVars>>

nBlockAlign == 2
BlockSamples == InternalBufSize \div nBlockAlign
RiffOverhead == 38     (* sizeof(WAVEHEADER) - 8 *)

Running == {"ALFWInit", "ALFWInitOpenAL", "extension", "open", "fopen", "start",
            "check", "query", "take", "stop", "drain", "riff", "data", "fclose",
            "close", "ALFWShutdownOpenAL", "ALFWShutdown"}
Ended == {"done", "crashed", "killed"}
InLoop == {"check", "query", "take"}

goto(from, to) == pc = from /\ pc' = to

NoHeader == -1

SampleInit ==
  /\ pc = "ALFWInit"
  /\ CollectorInit /\ SessionInit
  /\ iSamplesAvailable = 0
  /\ Buffer = [i \in 1 .. BlockSamples |-> 0]
  /\ iDataSize = 0 /\ pFile = "unopened" /\ samples = << >>
  /\ disk = [riff |-> NoHeader, data |-> NoHeader, samples |-> 0]
  /\ now \in 0 .. DwordRange - 1
  /\ dwStartTime = 0 /\ polled = TRUE

-------------------------------------------------------------------------------
(* Set-up. *)

(* Mutant: without the extension the program leaves OpenAL as it is. *)
SetUpForgets ==
  /\ \/ goto("ALFWInit", "ALFWInitOpenAL") /\ ALFWInit
     \/ goto("ALFWInitOpenAL", "extension") /\ ALFWInitOpenALSucceeds
     \/ goto("ALFWInitOpenAL", "ALFWShutdown") /\ ALFWInitOpenALFails
     \/ goto("extension", "open") /\ UNCHANGED held
     \/ goto("extension", "ALFWShutdown") /\ UNCHANGED held
  /\ UNCHANGED <<collectorVars, loopVars, fileVars, timeVars>>

SetUp ==
  /\ \/ goto("ALFWInit", "ALFWInitOpenAL") /\ ALFWInit
     \/ goto("ALFWInitOpenAL", "extension") /\ ALFWInitOpenALSucceeds
     \/ goto("ALFWInitOpenAL", "ALFWShutdown") /\ ALFWInitOpenALFails
     \/ goto("extension", "open") /\ UNCHANGED held
     \/ goto("extension", "ALFWShutdownOpenAL") /\ UNCHANGED held
  /\ UNCHANGED <<collectorVars, loopVars, fileVars, timeVars>>

(* Without a capture device there is nothing to record. *)
OpenCapture ==
  /\ \/ goto("open", "fopen") /\ alcCaptureOpenDevice
     \/ goto("open", "ALFWShutdownOpenAL") /\ UNCHANGED collectorVars
  /\ UNCHANGED <<held, loopVars, fileVars, timeVars>>

(* What stdio may have written out once the stream holds n samples. *)
SpilledTo(n) ==
  {disk} \cup {[riff |-> 0, data |-> 0, samples |-> m] : m \in disk.samples .. n}

(* The stream is not checked before the header is written to it. *)
OpenFile ==
  /\ \/ goto("fopen", "start") /\ pFile' = "open" /\ disk' \in SpilledTo(0)
     \/ goto("fopen", "crashed") /\ UNCHANGED <<pFile, disk>>
  /\ UNCHANGED <<collectorVars, held, loopVars, iDataSize, samples, timeVars>>

Start ==
  /\ goto("start", "check")
  /\ alcCaptureStart
  /\ dwStartTime' = now /\ polled' = TRUE
  /\ UNCHANGED <<held, loopVars, fileVars, now>>

-------------------------------------------------------------------------------
(* The recording loop. *)

Dword(t) == t % DwordRange

(* Mutant: the sum is wider than a DWORD. *)
TimeLimitWide == dwStartTime + RecordTime

TimeLimit == Dword(dwStartTime + RecordTime)

(* The time is up, or a key was pressed. *)
CheckLoop ==
  /\ \/ now <= TimeLimit /\ goto("check", "query")
     \/ goto("check", "stop")
  /\ polled' = TRUE
  /\ UNCHANGED <<collectorVars, held, loopVars, fileVars, now, dwStartTime>>

Query ==
  /\ iSamplesAvailable' = CaptureSamplesWaiting
  /\ \/ CaptureSamplesWaiting > BlockSamples /\ goto("query", "take")
     \/ CaptureSamplesWaiting <= BlockSamples /\ goto("query", "check")
  /\ UNCHANGED <<collectorVars, held, Buffer, fileVars, timeVars>>

(* alcCaptureSamples and fwrite: the first k of n samples are stored.  No   *)
(* result is looked at.                                                     *)
Take(n) ==
  /\ alcCaptureSamples(n)
  /\ Buffer' = BufferAfter(Buffer, n)
  /\ \E k \in 0 .. n :
       /\ k = n \/ WriteMayFail
       /\ samples' = samples \o SubSeq(Buffer', 1, k)
       /\ disk' \in SpilledTo(Len(samples) + k)
  /\ iDataSize' = iDataSize + n * nBlockAlign
  /\ UNCHANGED pFile

TakeBlock ==
  /\ goto("take", "check")
  /\ Take(BlockSamples)
  /\ UNCHANGED <<held, iSamplesAvailable, timeVars>>

-------------------------------------------------------------------------------
(* Behind the loop. *)

Stop ==
  /\ goto("stop", "drain")
  /\ alcCaptureStop
  /\ iSamplesAvailable' = CaptureSamplesWaiting
  /\ UNCHANGED <<held, Buffer, fileVars, timeVars>>

(* Mutant: a block is asked for on the last, shorter pass as well. *)
DrainRequestBlock == BlockSamples

DrainRequest ==
  IF iSamplesAvailable > BlockSamples THEN BlockSamples ELSE iSamplesAvailable

Drain ==
  /\ iSamplesAvailable > 0
  /\ goto("drain", "drain")
  /\ Take(DrainRequest)
  /\ iSamplesAvailable' = iSamplesAvailable - DrainRequest
  /\ UNCHANGED <<held, timeVars>>

(* Mutant: what is less than a block is left in the device. *)
DrainEndsEarly ==
  /\ iSamplesAvailable <= BlockSamples
  /\ goto("drain", "riff")
  /\ UNCHANGED <<collectorVars, held, loopVars, fileVars, timeVars>>

DrainEnds ==
  /\ iSamplesAvailable = 0
  /\ goto("drain", "riff")
  /\ UNCHANGED <<collectorVars, held, loopVars, fileVars, timeVars>>

(* The file with a length written into its header, or not, if fwrite fails. *)
Rewritten(d) == {d} \cup (IF WriteMayFail THEN {disk} ELSE {})

(* fseek writes out what is before it; each length reaches the disk with    *)
(* the call after its own, the last one with fclose.                        *)
FillIn ==
  /\ \/ /\ goto("riff", "data")
        /\ disk' = [riff |-> 0, data |-> 0, samples |-> Len(samples)]
        /\ UNCHANGED pFile
     \/ /\ goto("data", "fclose")
        /\ disk' \in Rewritten([disk EXCEPT !.riff = iDataSize + RiffOverhead])
        /\ UNCHANGED pFile
     \/ /\ goto("fclose", "close")
        /\ disk' \in Rewritten([disk EXCEPT !.data = iDataSize])
        /\ pFile' = "closed"
  /\ UNCHANGED <<collectorVars, held, loopVars, iDataSize, samples, timeVars>>

(* ALFWShutdown ends with waiting for a key: the program is done then.      *)
TakeDown ==
  /\ \/ goto("close", "ALFWShutdownOpenAL") /\ alcCaptureCloseDevice /\ UNCHANGED held
     \/ goto("ALFWShutdownOpenAL", "ALFWShutdown") /\ ALFWShutdownOpenAL
          /\ UNCHANGED collectorVars
     \/ goto("ALFWShutdown", "done") /\ ALFWShutdown /\ UNCHANGED collectorVars
  /\ UNCHANGED <<loopVars, fileVars, timeVars>>

-------------------------------------------------------------------------------
(* The surroundings. *)

DeliverFrame ==
  /\ pc \in Running /\ Deliver
  /\ UNCHANGED <<pc, held, loopVars, fileVars, timeVars>>

(* Time matters in the loop only, and a pass takes less than a unit. *)
Tick ==
  /\ pc \in InLoop /\ polled
  /\ now' = Dword(now + 1) /\ polled' = FALSE
  /\ UNCHANGED <<pc, collectorVars, held, loopVars, fileVars, dwStartTime>>

Kill ==
  /\ pc \in Running /\ pc' = "killed"
  /\ UNCHANGED <<collectorVars, held, loopVars, fileVars, timeVars>>

Sample ==
  \/ SetUp \/ OpenCapture \/ OpenFile \/ Start
  \/ CheckLoop \/ Query \/ TakeBlock
  \/ Stop \/ Drain \/ DrainEnds \/ FillIn \/ TakeDown

Surroundings == DeliverFrame \/ Tick \/ Kill
==============================================================================
