------------------------------- MODULE WavReader -------------------------------
(***************************************************************************)
(* The WAV reader (capture_audio/include/wav_reader.hpp): wav_read_open    *)
(* looks for the data chunk of a file, wav_read_data reads from it.        *)
(*                                                                         *)
(* A file is one RIFF/WAVE chunk with chunks in it, the last of which may  *)
(* be cut short, or is empty: the outer loop of wav_read_open, which skips *)
(* what is not RIFF, not WAVE or of a length of 1 to 3 and looks behind it *)
(* for another RIFF chunk, only finds the end of the file here.  Sizes are *)
(* in bytes; pos counts from where wav_read_open leaves the file.  Lengths *)
(* are uint32_t.                                                           *)
(***************************************************************************)
EXTENDS Integers, Sequences, FiniteSetsExt

CONSTANTS
  UintRange,   (* number of values of a uint32_t                            *)
  StreamLimit, (* the RIFF length from which a file counts as streamed      *)
  ReadSizes    (* bound: lengths that wav_read_data is called with          *)

ASSUME ReaderAssumption ==
  /\ UintRange \in Nat /\ StreamLimit \in 1 .. UintRange
  /\ ReadSizes \subseteq 1 .. UintRange - 1

(* A format chunk is "extensible" if its format is 0xfffe, and "fmt" if it  *)
(* is another.  size is what the chunk's header claims, stored what the     *)
(* file has of it, at where in the file its content starts; riff is the     *)
(* length in the RIFF header.                                               *)
Tags == {"fmt", "extensible", "data", "other"}
Chunk == [tag : Tags, size : Nat, stored : Nat, at : Nat]
WavFile == [empty : BOOLEAN, riff : Nat, chunks : Seq(Chunk)]

EmptyFile == [empty |-> TRUE, riff |-> 0, chunks |-> << >>]

RiffHeader == 12   (* "RIFF", the length, "WAVE" *)
ChunkHeader == 8   (* a tag and a length         *)

(* Each chunk follows the one before it. *)
LaidOut(f) ==
  \A i \in DOMAIN f.chunks :
    f.chunks[i].at =
      ChunkHeader + (IF i = 1 THEN RiffHeader ELSE f.chunks[i - 1].at + f.chunks[i - 1].stored)

FileSize(f) ==
  IF f.empty THEN 0
  ELSE IF f.chunks = << >> THEN RiffHeader
  ELSE f.chunks[Len(f.chunks)].at + f.chunks[Len(f.chunks)].stored

VARIABLES
  rd,           (* the step of the reader                                   *)
  wav,          (* the file                                                 *)
  length,       (* what wav_read_open thinks is left of the RIFF chunk      *)
  chunk,        (* the chunk it reads next                                  *)
  streamed, data_length,           (* of the wav_reader                     *)
  format,       (* whether it has read a format                             *)
  data_pos,     (* the data chunk it found last, 0 if none                  *)
  pos,          (* position behind DataStart                                *)
  atEnd         (* history: a call gave nothing                             *)

fields == <<streamed, data_length, format, data_pos>>
readerVars == <<rd, wav, length, chunk, fields, pos, atEnd>>

Uint(x) == x % UintRange

ReaderInit ==
  /\ rd = "unopened" /\ wav = EmptyFile
  /\ length = 0 /\ chunk = 1
  /\ streamed = FALSE /\ data_length = 0 /\ format = FALSE /\ data_pos = 0
  /\ pos = 0 /\ atEnd = FALSE

-------------------------------------------------------------------------------
(* wav_read_open *)

OpenFails ==
  /\ rd = "unopened"
  /\ rd' = "closed"
  /\ UNCHANGED <<wav, length, chunk, fields, pos, atEnd>>

RiffStreamed(riff) == riff = 0 \/ riff >= StreamLimit

(* The file f is opened and its RIFF header read, if there is one. *)
OpenRiff(f) ==
  /\ rd = "unopened"
  /\ wav' = f
  /\ \/ f.empty /\ rd' = "opened" /\ UNCHANGED <<length, streamed>>
     \/ /\ ~f.empty
        /\ rd' = "chunk"
        /\ streamed' = RiffStreamed(f.riff)
        /\ length' = Uint((IF RiffStreamed(f.riff) THEN -1 ELSE f.riff) - 4)
  /\ UNCHANGED <<chunk, data_length, format, data_pos, pos, atEnd>>

Current == wav.chunks[chunk]
AnotherChunk == length >= 8 /\ chunk <= Len(wav.chunks)

PlainFormat == 16   (* the bytes of any format             *)
Extension == 28     (* those of an extensible one, with it *)

(* A format that does not fit its chunk. *)
TooShort(c) ==
  \/ c.tag = "fmt" /\ c.size < PlainFormat
  \/ c.tag = "extensible" /\ c.size < Extension

(* The chunk claims more than is left, or is too short for a format. *)
BadChunk == length - 8 < Current.size \/ TooShort(Current)

(* An extensible format is found too short when its plain part is read. *)
PlainPartRead ==
  /\ AnotherChunk /\ length - 8 >= Current.size
  /\ Current.tag = "extensible" /\ Current.size >= PlainFormat

GoOn ==
  /\ length' = length - 8 - Current.size
  /\ chunk' = chunk + 1
  /\ UNCHANGED rd

(* Mutant: only a streamed RIFF chunk makes a streamed file. *)
StreamedByRiffOnly == streamed

(* A data chunk of a streamed file, or of a recording that was not closed. *)
OpenEnded == streamed \/ Current.size = 0

ReadFormat ==
  /\ Current.tag \in {"fmt", "extensible"}
  /\ format' = TRUE
  /\ GoOn
  /\ UNCHANGED <<streamed, data_length, data_pos>>

FindData ==
  /\ Current.tag = "data"
  /\ data_pos' = chunk
  /\ data_length' = Current.size
  /\ streamed' = OpenEnded
  /\ \/ OpenEnded /\ rd' = "opened" /\ UNCHANGED <<length, chunk>>
     \/ ~OpenEnded /\ GoOn
  /\ UNCHANGED format

SkipOther ==
  /\ Current.tag = "other"
  /\ GoOn
  /\ UNCHANGED fields

ReadChunk ==
  /\ rd = "chunk" /\ AnotherChunk /\ ~BadChunk
  /\ ReadFormat \/ FindData \/ SkipOther
  /\ UNCHANGED <<wav, pos, atEnd>>

(* Behind the chunks, or the first bad one, there is nothing more; the file *)
(* is set to the data.                                                      *)
ChunksEnd ==
  /\ rd = "chunk"
  /\ AnotherChunk => BadChunk
  /\ rd' = "opened"
  /\ format' = (format \/ PlainPartRead)
  /\ UNCHANGED <<wav, length, chunk, streamed, data_length, data_pos, pos, atEnd>>

-------------------------------------------------------------------------------
(* wav_read_data, wav_read_close *)

(* Where wav_read_open leaves the file: at the data that it found last, or  *)
(* at the file's start.                                                     *)
DataStart == IF data_pos = 0 THEN 0 ELSE wav.chunks[data_pos].at

(* The bytes from there to the end of the file. *)
StoredBehind == FileSize(wav) - DataStart

Cut(n) == IF n > data_length /\ ~streamed THEN data_length ELSE n

(* data_length goes down by what was asked for, not by what was read. *)
wav_read_data(n) ==
  /\ rd = "opened" /\ ~atEnd
  /\ LET got == Min({Cut(n), StoredBehind - pos})
     IN  pos' = pos + got /\ atEnd' = (got = 0)
  /\ data_length' = Uint(data_length - Cut(n))
  /\ UNCHANGED <<rd, wav, length, chunk, streamed, format, data_pos>>

wav_read_close ==
  /\ rd = "opened"
  /\ rd' = "closed"
  /\ UNCHANGED <<wav, length, chunk, fields, pos, atEnd>>

Reader ==
  \/ OpenFails \/ ReadChunk \/ ChunksEnd
  \/ \E n \in ReadSizes : wav_read_data(n)
  \/ wav_read_close

ReaderTypeOK ==
  /\ rd \in {"unopened", "chunk", "opened", "closed"}
  /\ wav \in WavFile
  /\ {length, data_length} \subseteq 0 .. UintRange - 1
  /\ chunk \in 1 .. Len(wav.chunks) + 1
  /\ {streamed, format, atEnd} \subseteq BOOLEAN
  /\ data_pos \in 0 .. Len(wav.chunks)
  /\ pos \in Nat
===============================================================================
