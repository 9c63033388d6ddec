---------------------------- MODULE SampleRoundTrip ----------------------------
(***************************************************************************)
(* The capture sample, and the WAV reader on the file that it leaves       *)
(* behind however it ended, or on a file of another program.               *)
(***************************************************************************)
EXTENDS CaptureSample, WavReader

CONSTANT ForeignFiles  (* files of other programs, the repository's WAV     *)
                       (* writer among them                                 *)

(* Behind a chunk that is cut short there is nothing.  In a recording whose *)
(* header was not written yet a data chunk, if the reader gets to it, holds *)
(* more than its header says; otherwise nothing lies behind what the RIFF   *)
(* header claims, where the reader would look for another RIFF chunk.  Left *)
(* out are RIFF lengths of 1 to 3, at which it looks for one at once;       *)
(* chunks of odd size, whose padding it does not skip; and streamed files   *)
(* of 4 GB, or in which it finds no data, because there is none or because  *)
(* a format before the data is too short for its chunk.  There it calls     *)
(* fseek with a uint32_t, which does what the width of a long makes of it,  *)
(* and if that is wide enough goes on to read at byte 0, so it gives out    *)
(* the file's header as if it were data.                                    *)
ASSUME FilesAssumption ==
  \A f \in ForeignFiles :
    /\ f \in WavFile /\ LaidOut(f)
    /\ f.empty => f = EmptyFile
    /\ f.riff = 0 \/ f.riff \in 4 .. UintRange - 1
    /\ \A i \in DOMAIN f.chunks :
         LET c == f.chunks[i]
         IN  /\ c.size < StreamLimit /\ c.size % 2 = 0 /\ c.at + c.size < UintRange
             /\ i < Len(f.chunks) => c.stored = c.size
             /\ c.stored > c.size => c.size = 0 /\ c.tag = "data"
             /\ \/ c.at + c.stored <= 8 + f.riff
                \/ /\ c.size = 0 /\ c.at <= 8 + f.riff
                   /\ \A j \in 1 .. i - 1 : ~TooShort(f.chunks[j])
                \/ RiffStreamed(f.riff)
    /\ RiffStreamed(f.riff) /\ ~f.empty =>
         \E i \in DOMAIN f.chunks :
           /\ f.chunks[i].tag = "data"
           /\ \A j \in 1 .. i - 1 : ~TooShort(f.chunks[j])

(* The lengths of the sample's recording, of two seconds, fit the header. *)
ASSUME RecordingAssumption ==
  nBlockAlign * MaxFrames + RiffOverhead + ChunkHeader < UintRange

vars == <<sampleVars, readerVars>>

Init == SampleInit /\ ReaderInit

FmtSize == 18   (* sizeof(WAVEFORMATEX) *)

(* Capture.wav as a reader finds it. *)
CaptureWav ==
  IF disk.riff = NoHeader THEN EmptyFile
  ELSE [empty |-> FALSE,
        riff |-> disk.riff,
        chunks |-> <<[tag |-> "fmt", size |-> FmtSize, stored |-> FmtSize,
                      at |-> RiffHeader + ChunkHeader],
                     [tag |-> "data", size |-> disk.data,
                      stored |-> nBlockAlign * disk.samples,
                      at |-> RiffHeader + ChunkHeader + FmtSize + ChunkHeader]>>]

(* Two programs on two files do not meet: a foreign file is read before the *)
(* sample starts, and then the sample does not start (a bound).             *)
OpenToRead ==
  \/ pc \in Ended /\ OpenRiff(CaptureWav)
  \/ pc = "ALFWInit" /\ \E f \in ForeignFiles : OpenRiff(f)

SampleStep == rd = "unopened" /\ (Sample \/ Surroundings) /\ UNCHANGED readerVars
ReaderStep ==
  /\ rd = "unopened" => pc \in Ended \cup {"ALFWInit"}
  /\ OpenToRead \/ Reader
  /\ UNCHANGED sampleVars
Finished == rd = "closed" /\ UNCHANGED vars

Next == SampleStep \/ ReaderStep \/ Finished

(* The sample is scheduled and time passes.  Nobody has to press a key or   *)
(* to kill the process, and the microphone need not deliver.                *)
Spec ==
  /\ Init /\ [][Next]_vars
  /\ WF_vars(rd = "unopened" /\ Sample /\ UNCHANGED readerVars)
  /\ WF_vars(rd = "unopened" /\ Tick /\ UNCHANGED readerVars)

-------------------------------------------------------------------------------
(* Every variable keeps its type; no counter becomes negative. *)
TypeOK ==
  /\ CollectorTypeOK /\ ReaderTypeOK
  /\ pc \in Running \cup Ended
  /\ held \subseteq Resources
  /\ iSamplesAvailable \in 0 .. InternalBufSize
  /\ Buffer \in [1 .. BlockSamples -> Nat]
  /\ pFile \in {"unopened", "open", "closed"}
  /\ iDataSize \in Nat /\ samples \in Seq(Nat)
  /\ disk \in [riff : Nat \cup {NoHeader}, data : Nat \cup {NoHeader}, samples : Nat]
  /\ {now, dwStartTime} \subseteq 0 .. DwordRange - 1
  /\ polled \in BOOLEAN

(* The sample's recording implements the abstract recorder, as that of      *)
(* capture_to_wav2 does, although it is stopped by time, by a key or by a   *)
(* kill, drains the device after stopping it and checks no result.          *)
Recorder == INSTANCE Recording WITH
  MayRefuse <- WriteMayFail,
  heard <- samples \o ring, saved <- samples, sealed <- (pFile = "closed")

ImplementsRecording == Recorder!Spec

(* The bytes of a file's data: what its chunk claims and the file has, and  *)
(* in a streamed file, or a recording that was not closed, all that follows.*)
DataBytes ==
  IF data_pos = 0 THEN 0
  ELSE IF streamed THEN StoredBehind
  ELSE Min({wav.chunks[data_pos].size, wav.chunks[data_pos].stored})

(* Whenever the sample stopped or was killed, also between its two writes   *)
(* to the header, a reader that reads to the end gets every sample that is  *)
(* on the disk and nothing else; of a file of another program, as far as    *)
(* FilesAssumption goes, it never gets bytes that are not data, in whatever *)
(* steps it reads.                                                          *)
RoundTrip ==
  /\ atEnd /\ pc \in Ended => pos = nBlockAlign * disk.samples
  /\ pos <= DataBytes
  /\ atEnd => pos = DataBytes

(* Every way out of main that is not a crash gives back what was acquired:  *)
(* the capture device, the file, the context, the playback device and the   *)
(* loader; only an empty device list stays behind.                          *)
ReleasedAtEnd ==
  pc = "done" =>
    /\ held \subseteq {"list"}
    /\ device \in {"null", "closed"}
    /\ pFile # "open"

(* The recording ends though no key is pressed, also when the counter wraps *)
(* within the two seconds, unless the limit is the counter's largest value, *)
(* which no time exceeds.                                                   *)
EndsInTime ==
  (pc = "check" /\ TimeLimit # DwordRange - 1) ~> (pc \notin InLoop)
===============================================================================
