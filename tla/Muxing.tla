-------------------------------- MODULE Muxing ---------------------------------
(***************************************************************************)
(* The muxing program (muxing/muxing.cpp): it generates a video and an     *)
(* audio signal of STREAM_DURATION seconds, sends each through an encoder, *)
(* and writes the packets into one file, always advancing the stream that  *)
(* is behind.  When a stream has enough frames its encoder is flushed.     *)
(*                                                                         *)
(* FFmpeg is modelled from how the program uses it: an encoder may hold    *)
(* back up to Delay frames, gives out at most one packet per call, and not *)
(* always that of the oldest frame (add_stream turns B-frames on); the     *)
(* muxer appends packets to the file; every call may fail.                 *)
(***************************************************************************)
EXTENDS Integers, FiniteSets

CONSTANTS
  Streams,          (* the streams of the output format                     *)
  Rate,             (* time base units of each stream per second            *)
  FrameUnits,       (* time base units of one frame of each stream          *)
  Delay,            (* frames that the encoder of each stream holds back    *)
  STREAM_DURATION   (* seconds of signal to generate                        *)

ASSUME MuxingAssumption ==
  /\ Streams \subseteq {"video", "audio"}
  /\ Rate \in [Streams -> Nat \ {0}]
  /\ FrameUnits \in [Streams -> Nat \ {0}]
  /\ Delay \in [Streams -> Nat]
  /\ STREAM_DURATION \in Nat

VARIABLES
  pc,          (* the program's next call, or how it ended                  *)
  encode,      (* encode_video, encode_audio                                *)
  codec,       (* the codec context of each stream                          *)
  next_pts,    (* next_pts of each OutputStream                             *)
  samples_count, (* samples that the audio stream sent to its encoder       *)
  encoder,     (* the time stamps of the frames that each encoder holds     *)
  file,        (* the time stamps of the packets of each stream in the file *)
  packets,     (* how many packets each stream has in the file              *)
  trailer      (* whether av_write_trailer was called                       *)

countVars == <<next_pts, samples_count>>
signalVars == <<encode, countVars, encoder>>
fileVars == <<file, packets, trailer>>
vars == <<pc, codec, signalVars, fileVars>>

Init ==
  /\ pc = "start"
  /\ codec = [s \in Streams |-> "none"]
  /\ encode = [s \in Streams |-> FALSE]
  /\ next_pts = [s \in Streams |-> 0]
  /\ samples_count = 0
  /\ encoder = [s \in Streams |-> {}]
  /\ file = [s \in Streams |-> {}]
  /\ packets = [s \in Streams |-> 0]
  /\ trailer = FALSE

-------------------------------------------------------------------------------
(* The set-up.  Both streams are treated alike, video first.                *)

With(state) == {s \in Streams : codec[s] = state}

(* The stream's turn: it is the first whose codec is in this state. *)
First(s, state) == s \in With(state) /\ (s = "audio" => "video" \notin With(state))

Codec(s, from, to) == First(s, from) /\ codec' = [codec EXCEPT ![s] = to]

AllocContext ==
  /\ pc = "start"
  /\ pc' = "set_up"
  /\ UNCHANGED <<codec, signalVars, fileVars>>

AddStream(s) ==
  /\ pc = "set_up"
  /\ Codec(s, "none", "added")
  /\ encode' = [encode EXCEPT ![s] = TRUE]
  /\ UNCHANGED <<pc, countVars, encoder, fileVars>>

(* open_video, open_audio *)
OpenCodec(s) ==
  /\ pc = "set_up"
  /\ With("none") = {}
  /\ Codec(s, "added", "open")
  /\ UNCHANGED <<pc, signalVars, fileVars>>

WriteHeader ==
  /\ pc = "set_up"
  /\ With("open") = Streams
  /\ pc' = "encode"
  /\ UNCHANGED <<codec, signalVars, fileVars>>

(* Every step of the set-up may fail and end the program. *)
SetUpFails ==
  /\ pc \in {"start", "set_up"}
  /\ pc' = "failed"
  /\ UNCHANGED <<codec, signalVars, fileVars>>

-------------------------------------------------------------------------------
(* The encoding loop. *)

(* av_compare_ts(next_pts of s, its time base, ...) <= 0 *)
NotAhead(s, t) == next_pts[s] * Rate[t] <= next_pts[t] * Rate[s]

(* Mutant: the stream that is ahead is selected. *)
SelectedAhead(s) ==
  /\ encode[s]
  /\ \A t \in Streams \ {s} :
       encode[t] => IF s = "video" THEN NotAhead(t, s) ELSE ~NotAhead(s, t)

(* The stream that the loop selects: the one behind, video on a tie, or the *)
(* one that is left.                                                        *)
Selected(s) ==
  /\ encode[s]
  /\ \A t \in Streams \ {s} :
       encode[t] => IF s = "video" THEN NotAhead(s, t) ELSE ~NotAhead(t, s)

(* Mutant: one frame too many is generated. *)
MoreFramesInclusive(s) == next_pts[s] <= STREAM_DURATION * Rate[s]

(* get_video_frame and get_audio_frame give a frame before the duration is  *)
(* reached, NULL from then on.                                              *)
MoreFrames(s) == next_pts[s] < STREAM_DURATION * Rate[s]

(* A frame that was given moves next_pts on, by one picture or by the       *)
(* samples of a frame; sound is counted a second time when it has been      *)
(* converted.                                                               *)
Advance(s) ==
  /\ next_pts' = [next_pts EXCEPT ![s] = @ + FrameUnits[s]]
  /\ samples_count' =
       IF s = "audio" THEN samples_count + FrameUnits[s] ELSE samples_count

(* The time stamp that the encoder gets with the frame. *)
TimeStamp(s) == IF s = "audio" THEN samples_count ELSE next_pts[s]

(* What a call of the encoder gives: the packet of a frame, or none.        *)
NoPacket == -1
Calls(s) == encoder[s] \cup {TimeStamp(s), NoPacket}

(* The encoder takes a frame, and gives a packet as soon as it has to. *)
EncodeFrame(s, out) ==
  LET held == encoder[s] \cup {TimeStamp(s)}
  IN  /\ out \in held \cup {NoPacket}
      /\ Cardinality(held) > Delay[s] => out # NoPacket
      /\ encoder' = [encoder EXCEPT ![s] = held \ {out}]

(* With NULL it gives out what it holds. *)
EncodeNull(s, out) ==
  /\ out \in encoder[s] \/ (out = NoPacket /\ encoder[s] = {})
  /\ encoder' = [encoder EXCEPT ![s] = @ \ {out}]

(* write_frame writes the encoder's packet, if it gave one.  Its time stamp *)
(* stays in the codec's time base: av_packet_rescale_ts, which changes the  *)
(* unit to the muxer's, is left out.                                        *)
PacketWritten(s, out) ==
  /\ file' = [file EXCEPT ![s] = @ \cup {out}]
  /\ packets' = [packets EXCEPT ![s] = @ + 1]

(* Mutant: the packets of the flush are thrown away. *)
WritePacketUnlessFlushing(s, out) ==
  IF out # NoPacket /\ MoreFrames(s)
    THEN PacketWritten(s, out) ELSE UNCHANGED <<file, packets>>

WritePacket(s, out) ==
  IF out # NoPacket THEN PacketWritten(s, out) ELSE UNCHANGED <<file, packets>>

(* Mutants: a call without a packet ends the stream; nothing but an error   *)
(* does.                                                                    *)
StreamGoesOnWithPacket(frame, got) == got
StreamGoesOnAlways(frame, got) == TRUE

(* What write_video_frame and write_audio_frame return, inverted. *)
StreamGoesOn(frame, got) == frame \/ got

(* write_video_frame, write_audio_frame *)
WriteFrame(s) ==
  /\ pc = "encode"
  /\ Selected(s)
  /\ \E out \in Calls(s) :
       /\ \/ MoreFrames(s) /\ EncodeFrame(s, out) /\ Advance(s)
          \/ ~MoreFrames(s) /\ EncodeNull(s, out) /\ UNCHANGED countVars
       /\ WritePacket(s, out)
       /\ encode' = [encode EXCEPT
                       ![s] = StreamGoesOn(MoreFrames(s), out # NoPacket)]
  /\ UNCHANGED <<pc, codec, trailer>>

(* A conversion, an encoder or the muxer fails: exit(1), with no trailer. *)
WriteFrameFails ==
  /\ pc = "encode"
  /\ \E s \in Streams : encode[s]
  /\ pc' = "failed"
  /\ UNCHANGED <<codec, signalVars, fileVars>>

EncodeEnds ==
  /\ pc = "encode"
  /\ \A s \in Streams : ~encode[s]
  /\ pc' = "trailer"
  /\ UNCHANGED <<codec, signalVars, fileVars>>

-------------------------------------------------------------------------------
(* The end. *)

WriteTrailer ==
  /\ pc = "trailer"
  /\ pc' = "close"
  /\ trailer' = TRUE
  /\ UNCHANGED <<codec, signalVars, file, packets>>

CloseStream(s) ==
  /\ pc = "close"
  /\ Codec(s, "open", "freed")
  /\ UNCHANGED <<pc, signalVars, fileVars>>

(* The output file and the format context. *)
Finish ==
  /\ pc = "close"
  /\ With("freed") = Streams
  /\ pc' = "done"
  /\ UNCHANGED <<codec, signalVars, fileVars>>

Ended ==
  /\ pc \in {"done", "failed"}
  /\ UNCHANGED vars

Main ==
  \/ AllocContext
  \/ \E s \in Streams : AddStream(s) \/ OpenCodec(s)
  \/ WriteHeader
  \/ \E s \in Streams : WriteFrame(s)
  \/ EncodeEnds \/ WriteTrailer
  \/ \E s \in Streams : CloseStream(s)
  \/ Finish

Next == Main \/ SetUpFails \/ WriteFrameFails \/ Ended

Spec == Init /\ [][Next]_vars

(* The program's one thread is scheduled; nothing obliges a call to fail.   *)
FairSpec == Spec /\ WF_vars(Main)

-------------------------------------------------------------------------------
(* Every variable keeps its type; a signal exceeds its duration by less     *)
(* than a frame, and no encoder holds more than it may.                     *)
TypeOK ==
  /\ pc \in {"start", "set_up", "encode", "trailer", "close", "done", "failed"}
  /\ codec \in [Streams -> {"none", "added", "open", "freed"}]
  /\ encode \in [Streams -> BOOLEAN]
  /\ \A s \in Streams :
       next_pts[s] \in 0 .. (STREAM_DURATION * Rate[s]) + FrameUnits[s] - 1
  /\ \A s \in Streams : encoder[s] \subseteq Nat /\ Cardinality(encoder[s]) <= Delay[s]
  /\ samples_count \in Nat
  /\ file \in [Streams -> SUBSET Nat]
  /\ packets \in [Streams -> Nat]
  /\ trailer \in BOOLEAN

(* How many frames of the stream were generated. *)
Generated(s) == next_pts[s] \div FrameUnits[s]

(* No frame is lost or repeated between the generator and the file: the     *)
(* packets of a stream, each at a time of its own, and the frames that its  *)
(* encoder still holds are the frames generated so far, each at its time.   *)
EveryFrameOnce ==
  \A s \in Streams :
    /\ file[s] \cap encoder[s] = {}
    /\ file[s] \cup encoder[s] =
         {(i - 1) * FrameUnits[s] : i \in 1 .. Generated(s)}
    /\ packets[s] + Cardinality(encoder[s]) = Generated(s)

(* The file is finished and the codecs are freed only when every encoder is *)
(* empty and every signal long enough: the frames that an encoder held back *)
(* are in the file before the trailer, and the trailer is written, as the   *)
(* comment above av_write_trailer demands, before a codec is freed.         *)
FlushedBeforeTrailer ==
  /\ With("freed") # {} => trailer
  /\ trailer => \A s \in Streams : encoder[s] = {} /\ ~MoreFrames(s)

(* Neither stream runs ahead of the other by more than one of its frames    *)
(* while both are being generated; between their packets the delays of the  *)
(* encoders come on top of that.                                            *)
StreamsStayTogether ==
  \A s, t \in Streams :
    MoreFrames(t) /\ encode[t] =>
      next_pts[s] * Rate[t] <= (next_pts[t] * Rate[s]) + (FrameUnits[s] * Rate[t])

(* The program ends, whatever the encoders hold back. *)
Termination == <>(pc \in {"done", "failed"})
===============================================================================
