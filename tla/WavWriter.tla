------------------------------ MODULE WavWriter -------------------------------
(***************************************************************************)
(* The WAV writer (capture_audio/include/wav_writer.hpp): wav_write_open,  *)
(* wav_write_data and wav_write_close over a stdio stream.                 *)
(*                                                                         *)
(* The file is kept twice: as the program sees it through stdio (data) and *)
(* as a process that dies leaves it behind (disk).  stdio writes its       *)
(* buffer out when it fills, on fseek and on fclose; how much of the tail  *)
(* is still in the buffer is left open.                                    *)
(***************************************************************************)
EXTENDS Integers, Sequences

CONSTANTS
  SampleBytes,  (* bytes of one sample: bits_per_sample / 8 * channels      *)
  WriteMayFail  (* TRUE when fwrite may store less than it was given        *)

ASSUME WriterAssumption ==
  /\ SampleBytes \in Nat \ {0}
  /\ WriteMayFail \in BOOLEAN

VARIABLES
  ww,          (* the writer: not opened yet, in use, freed, or NULL        *)
  data,        (* the samples stored behind the 44-byte header              *)
  data_length, (* ww->data_length: the bytes wav_write_data was asked to    *)
               (* store, whether fwrite stored them or not                  *)
  unstored,    (* number of samples fwrite was given and did not store      *)
  disk         (* the file behind stdio: the length field of the data chunk *)
               (* (NoHeader: the file is empty) and the samples after it    *)

writerVars == <<ww, data, data_length, unstored, disk>>

NoHeader == -1

WriterInit ==
  /\ ww = "unopened"
  /\ data = << >>
  /\ data_length = 0
  /\ unstored = 0
  /\ disk = [header |-> NoHeader, samples |-> 0]

-------------------------------------------------------------------------------
(* fopen fails: wav_write_open returns NULL. *)
WriteOpenFails ==
  /\ ww' = "null"
  /\ UNCHANGED <<data, data_length, unstored, disk>>

(* fopen truncates the file; the header, with length 0, is left in the      *)
(* stdio buffer.                                                            *)
wav_write_open ==
  /\ ww' = "open"
  /\ data' = << >>
  /\ data_length' = 0
  /\ unstored' = 0
  /\ disk' = [header |-> NoHeader, samples |-> 0]

(* What stdio may have written out once the stream holds n samples: nothing *)
(* more than before, or the header as it was first written and some prefix. *)
SpilledTo(n) ==
  {disk} \cup {[header |-> 0, samples |-> m] : m \in disk.samples .. n}

(* Mutant: a failed write is tried again from the start of the block. *)
wav_write_data_retry(block, length) ==
  /\ \E k \in 0 .. Len(block) :
       /\ k = Len(block) \/ WriteMayFail
       /\ data' = data \o SubSeq(block, 1, k) \o (IF k < Len(block) THEN block ELSE << >>)
       /\ unstored' = unstored
       /\ disk' \in SpilledTo(Len(data'))
  /\ data_length' = data_length + length
  /\ UNCHANGED ww

(* wav_write_data(ww, block, length): block is the samples that the length  *)
(* bytes hold.  The result of fwrite is not looked at.                      *)
wav_write_data(block, length) ==
  /\ \E k \in 0 .. Len(block) :
       /\ k = Len(block) \/ WriteMayFail
       /\ data' = data \o SubSeq(block, 1, k)
       /\ unstored' = unstored + (Len(block) - k)
       /\ disk' \in SpilledTo(Len(data) + k)
  /\ data_length' = data_length + length
  /\ UNCHANGED ww

(* Mutant: the stream is not flushed before the header is written again. *)
CloseSeekUnflushed ==
  /\ disk' \in SpilledTo(Len(data))
  /\ UNCHANGED <<ww, data, data_length, unstored>>

(* wav_write_close, first half: fseek to the start flushes the stream. *)
CloseSeek ==
  /\ disk' = [header |-> 0, samples |-> Len(data)]
  /\ UNCHANGED <<ww, data, data_length, unstored>>

(* wav_write_close, second half: the header is written again with the final *)
(* length, fclose flushes it, and the writer is freed.  That this write may *)
(* fail as well, and then leaves the length 0, is left out.                 *)
CloseHeader ==
  /\ disk' = [disk EXCEPT !.header = data_length]
  /\ ww' = "freed"
  /\ UNCHANGED <<data, data_length, unstored>>

WriterTypeOK ==
  /\ ww \in {"unopened", "open", "null", "freed"}
  /\ data \in Seq(Nat)
  /\ data_length \in Nat
  /\ unstored \in Nat
  /\ disk \in [header : Nat \cup {NoHeader}, samples : Nat]
===============================================================================
