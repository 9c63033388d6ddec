--------------------------------- MODULE Waves ---------------------------------
(***************************************************************************)
(* The CWaves class (alFramework/src/CWaves.cpp): a table of wave files.   *)
(* LoadWaveFile reads a file into memory and keeps no handle; OpenWaveFile *)
(* keeps the handle so that the caller can stream the samples with         *)
(* SetWaveDataOffset and ReadWaveData.                                     *)
(*                                                                         *)
(* A process may have several tables: the framework has one, a program may *)
(* create others.  They share the process's open files.                    *)
(*                                                                         *)
(* Positions are counted in bytes from the start of the file's audio data  *)
(* (ulDataOffset, which the code adds and subtracts again).                *)
(***************************************************************************)
EXTENDS Integers, FiniteSets, FiniteSetsExt

CONSTANTS
  WaveFiles,        (* the files on disk: see FileType                      *)
  MAX_NUM_WAVEID,   (* slots of the table                                   *)
  FOPEN_MAX,        (* files that the process can have open at a time       *)
  UlongRange,       (* number of values of an unsigned long                 *)
  ReadSizes,        (* bound: the sizes that ReadWaveData is asked for      *)
  Offsets           (* bound: the offsets that SetWaveDataOffset is given   *)

(* form is what ParseFile finds: no file, one that is not RIFF/WAVE, one    *)
(* without usable fmt and data chunks, a wave file.  data is the size that  *)
(* the data chunk claims, stored the bytes that follow its header in the    *)
(* file: fewer in a truncated file, more when other chunks follow.          *)
(* supported says whether OpenAL has a buffer format for the samples.       *)
FileType ==
  [name : STRING, form : {"missing", "other", "bad", "wave"},
   data : Nat, stored : Nat, supported : BOOLEAN]

ASSUME WavesAssumption ==
  /\ WaveFiles \subseteq FileType
  /\ MAX_NUM_WAVEID \in Nat \ {0}
  /\ FOPEN_MAX \in Nat
  /\ UlongRange \in Nat \ {0}
  /\ ReadSizes \subseteq 1 .. UlongRange - 1
  /\ Offsets \subseteq Nat
  /\ \A f \in WaveFiles, o \in Offsets \cup {0} : f.data + f.stored + o < UlongRange

VARIABLES
  m_WaveIDs,  (* the table: NoWave, or what a WAVEFILEINFO says             *)
  handles,    (* FILEs that the process has open                            *)
  owned,      (* history: the ids that callers hold, each with the file     *)
              (* that it was given out for                                  *)
  leaky,      (* history: a call was made after which nobody refers to an   *)
              (* open FILE any more                                         *)
  misused,    (* history: an offset beyond the audio data was set, or a     *)
              (* read was asked for whose end no unsigned long can say      *)
  strayed     (* history: a read gave out bytes that are not audio data, or *)
              (* more than it was asked for                                 *)

tableVars == <<m_WaveIDs, handles>>
readVars == <<misused, strayed>>
wavesVars == <<tableVars, owned, leaky, readVars>>

WaveIDs == 0 .. MAX_NUM_WAVEID - 1
NoWave == [file |-> "none"]
WaveInfo == [file : WaveFiles, pFile : BOOLEAN, pos : Nat]

IsWaveID(id) == id \in WaveIDs /\ m_WaveIDs[id] # NoWave
Taken == {id \in WaveIDs : IsWaveID(id)}
Streams == {id \in Taken : m_WaveIDs[id].pFile}
TableFull == Taken = WaveIDs

EmptyTable == [id \in WaveIDs |-> NoWave]

WavesInit ==
  /\ m_WaveIDs = EmptyTable
  /\ handles = 0
  /\ owned = {}
  /\ leaky = FALSE
  /\ misused = FALSE
  /\ strayed = FALSE

-------------------------------------------------------------------------------
(* ParseFile.  fopen fails on a missing file and when the process has too   *)
(* many files open.                                                         *)
Opens(f) == f.form # "missing" /\ handles < FOPEN_MAX
Parses(f) == Opens(f) /\ f.form = "wave"

(* What ParseFile forgets when it fails: a file that is not RIFF/WAVE stays *)
(* open, one with bad chunks is closed.                                     *)
LeftOpenByParse(f) == IF Opens(f) /\ f.form = "other" THEN 1 ELSE 0

(* The chunk loop ends at the end of the file, or beyond it when the last   *)
(* chunk claims more than the file has.                                     *)
PosAfterParse(f) == Max({f.stored, f.data + (f.data % 2)})

(* LoadWaveFile reads the samples as well. *)
ReadsWhole(f) == Parses(f) /\ f.stored >= f.data

(* Mutant: the search does not look whether a slot is free. *)
FreeIdUnchecked == MAX_NUM_WAVEID - 1

(* The first free slot. *)
FreeId == Min(WaveIDs \ Taken)

Insert(f, streamed) ==
  m_WaveIDs' = [m_WaveIDs EXCEPT ![FreeId] =
                  [file |-> f, pFile |-> streamed,
                   pos |-> IF streamed THEN PosAfterParse(f) ELSE 0]]

GiveOut(f) == owned' = owned \cup {[id |-> FreeId, file |-> f]}

(* A call that fails in ParseFile or before it takes a slot. *)
ParseFails(f) ==
  /\ handles' = handles + LeftOpenByParse(f)
  /\ leaky' = (leaky \/ LeftOpenByParse(f) > 0)
  /\ UNCHANGED <<m_WaveIDs, owned, readVars>>

(* Mutant: LoadWaveFile forgets to close the file. *)
LoadedStaysOpen(f) ==
  /\ ReadsWhole(f) /\ ~TableFull
  /\ Insert(f, FALSE)
  /\ handles' = handles + 1
  /\ UNCHANGED <<leaky, readVars>>

(* The part of LoadWaveFile that takes a slot; the file is closed again. *)
Loaded(f) ==
  /\ ReadsWhole(f) /\ ~TableFull
  /\ Insert(f, FALSE)
  /\ UNCHANGED <<handles, leaky, readVars>>

(* Whatever fails behind ParseFile releases all that was acquired. *)
LoadFails(f) ==
  \/ ~Parses(f) /\ ParseFails(f)
  \/ /\ Parses(f)
     /\ TableFull \/ ~ReadsWhole(f)
     /\ UNCHANGED <<m_WaveIDs, handles, owned, leaky, readVars>>

LoadWaveFile(f) ==
  \/ Loaded(f) /\ GiveOut(f)
  \/ LoadFails(f)

(* A full table makes OpenWaveFile forget the open file. *)
OpenWaveFile(f) ==
  \/ ~Parses(f) /\ ParseFails(f)
  \/ /\ Parses(f) /\ ~TableFull
     /\ Insert(f, TRUE)
     /\ GiveOut(f)
     /\ handles' = handles + 1
     /\ UNCHANGED <<leaky, readVars>>
  \/ /\ Parses(f) /\ TableFull
     /\ handles' = handles + 1
     /\ leaky' = TRUE
     /\ UNCHANGED <<m_WaveIDs, owned, readVars>>

-------------------------------------------------------------------------------
(* Streaming. *)

(* The arithmetic is that of unsigned long. *)
Ulong(x) == x % UlongRange

(* Mutant: the request is not cut at the end of the data. *)
CutUnchecked(data, pos, n) == n

(* The request, cut at the end of the data. *)
Cut(data, pos, n) == IF Ulong(pos + n) > data THEN Ulong(data - pos) ELSE n

(* fread stops at the end of the file. *)
BytesRead(w, n) == Min({Cut(w.file.data, w.pos, n), Max({0, w.file.stored - w.pos})})

ReadWaveData(id, n) ==
  /\ id \in Streams
  /\ LET w == m_WaveIDs[id]
         got == BytesRead(w, n)
     IN  /\ m_WaveIDs' = [m_WaveIDs EXCEPT ![id].pos = w.pos + got]
         /\ strayed' = (strayed \/ got > n \/ (got > 0 /\ w.pos + got > w.file.data))
         /\ misused' = (misused \/ w.pos + n >= UlongRange)
  /\ UNCHANGED <<handles, owned, leaky>>

(* No offset is refused. *)
SetWaveDataOffset(id, offset) ==
  /\ id \in Streams
  /\ m_WaveIDs' = [m_WaveIDs EXCEPT ![id].pos = offset]
  /\ misused' = (misused \/ offset > m_WaveIDs[id].file.data)
  /\ UNCHANGED <<handles, owned, leaky, strayed>>

-------------------------------------------------------------------------------
(* Releasing. *)

(* Mutant: the file is closed without asking whether there is one. *)
ClosedByDeleteAlways(id) == 1

ClosedByDelete(id) == IF m_WaveIDs[id].pFile THEN 1 ELSE 0

DeleteWaveFile(id) ==
  /\ IsWaveID(id)
  /\ m_WaveIDs' = [m_WaveIDs EXCEPT ![id] = NoWave]
  /\ handles' = handles - ClosedByDelete(id)
  /\ owned' = {o \in owned : o.id # id}
  /\ UNCHANGED <<leaky, readVars>>

Destroy ==
  /\ m_WaveIDs' = EmptyTable
  /\ handles' = handles - Cardinality(Streams)
  /\ owned' = {}
  /\ UNCHANGED <<leaky, readVars>>

-------------------------------------------------------------------------------
WavesTypeOK ==
  /\ m_WaveIDs \in [WaveIDs -> WaveInfo \cup {NoWave}]
  /\ handles \in 0 .. FOPEN_MAX
  /\ owned \subseteq [id : WaveIDs, file : WaveFiles]
  /\ {leaky, misused, strayed} \subseteq BOOLEAN

(* An id that a caller holds stays its own: it refers to the file it was    *)
(* given out for until the caller deletes it, whatever is loaded, opened,   *)
(* refused or deleted in between.                                           *)
OwnersKeepTheirFiles ==
  \A o \in owned : IsWaveID(o.id) /\ m_WaveIDs[o.id].file = o.file

(* Reading gives out audio data only, and no more than was asked for, as    *)
(* long as the offsets that were set lie within the data and the position   *)
(* and the size asked for have a sum that does not wrap: also before the    *)
(* first SetWaveDataOffset, when OpenWaveFile has left the file at its end  *)
(* and the clamp's unsigned subtraction wraps.  Of a sum that wraps the     *)
(* clamp makes a small one, and the read may go on behind the data.         *)
ReadsStayInData == strayed => misused
===============================================================================
