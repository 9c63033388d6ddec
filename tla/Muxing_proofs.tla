----------------------------- MODULE Muxing_proofs -----------------------------
(***************************************************************************)
(* Proofs about Muxing, for every rate, frame size, encoder delay and      *)
(* duration, and for any of the two streams being there.                   *)
(***************************************************************************)
EXTENDS Muxing, FiniteSetTheorems, TLAPS

-------------------------------------------------------------------------------
(* Arithmetic of frames: a stream's time is a multiple of its frame. *)

LEMMA TimesMonotone ==
  ASSUME NEW a \in Nat, NEW b \in Nat, NEW f \in Nat \ {0}, a < b
  PROVE  a * f + f <= b * f
<1>1. PICK d \in Nat : b = a + 1 + d
  <2>1. b - a - 1 \in Nat /\ b = a + 1 + (b - a - 1)
    OBVIOUS
  <2> QED
    BY <2>1
<1>2. b * f = a * f + f + d * f /\ d * f \in Nat
  BY <1>1
<1> QED
  BY <1>2

LEMMA TimesInjective ==
  ASSUME NEW a \in Nat, NEW b \in Nat, NEW f \in Nat \ {0}, a * f = b * f
  PROVE  a = b
<1>1. ~(a < b) /\ ~(b < a)
  BY TimesMonotone
<1> QED
  BY <1>1

LEMMA DivTimes ==
  ASSUME NEW g \in Nat, NEW f \in Nat \ {0}
  PROVE  (g * f) \div f = g
<1> DEFINE x == g * f
           q == x \div f
<1>1. x \in Nat
  OBVIOUS
<1>2. q \in Nat /\ q * f <= x /\ x < q * f + f
  BY <1>1
<1>3. ~(q < g) /\ ~(g < q)
  <2>1. q < g => q * f + f <= g * f
    BY <1>2, TimesMonotone
  <2>2. g < q => g * f + f <= q * f
    BY <1>2, TimesMonotone
  <2> QED
    BY <1>2, <2>1, <2>2
<1> QED
  BY <1>2, <1>3

-------------------------------------------------------------------------------
(* The inductive invariant. *)

(* Where the program is with the set-up, the trailer and the codecs. *)
ControlInv ==
  /\ pc \in {"start", "set_up", "encode", "trailer", "close", "done", "failed"}
  /\ codec \in [Streams -> {"none", "added", "open", "freed"}]
  /\ encode \in [Streams -> BOOLEAN]
  /\ trailer \in BOOLEAN
  /\ pc \in {"encode", "trailer", "close", "done"} => \A s \in Streams : codec[s] # "none"
  /\ pc \in {"trailer", "close", "done"} => \A s \in Streams : ~encode[s]
  /\ trailer <=> pc \in {"close", "done"}
  /\ \A s \in Streams : codec[s] = "freed" => trailer

(* The clocks count whole frames, sound is counted twice, and the signal    *)
(* starts with the encoding.                                                *)
CountInv ==
  /\ next_pts \in [Streams -> Nat]
  /\ samples_count \in Nat
  /\ "audio" \in Streams => samples_count = next_pts["audio"]
  /\ \A s \in Streams :
       /\ next_pts[s] < STREAM_DURATION * Rate[s] + FrameUnits[s]
       /\ Generated(s) \in Nat
       /\ next_pts[s] = Generated(s) * FrameUnits[s]
       /\ pc \in {"start", "set_up"} => next_pts[s] = 0

(* What is in the encoders and in the file. *)
PacketInv ==
  /\ encoder \in [Streams -> SUBSET Nat]
  /\ file \in [Streams -> SUBSET Nat]
  /\ packets \in [Streams -> Nat]
  /\ \A s \in Streams : IsFiniteSet(encoder[s]) /\ Cardinality(encoder[s]) <= Delay[s]
  /\ EveryFrameOnce

(* A stream that the loop is done with has given out everything. *)
FlushInv ==
  \A s \in Streams :
    codec[s] # "none" /\ ~encode[s] => encoder[s] = {} /\ ~MoreFrames(s)

Inv == ControlInv /\ CountInv /\ PacketInv /\ FlushInv /\ StreamsStayTogether

LEMMA Sizes ==
  /\ \A s \in Streams : /\ Rate[s] \in Nat \ {0} /\ FrameUnits[s] \in Nat \ {0}
                        /\ Delay[s] \in Nat /\ s \in {"video", "audio"}
                        /\ STREAM_DURATION * Rate[s] \in Nat
  /\ STREAM_DURATION \in Nat
BY MuxingAssumption

LEMMA InvImplies ==
  ASSUME Inv
  PROVE  TypeOK /\ EveryFrameOnce /\ FlushedBeforeTrailer /\ StreamsStayTogether
<1>1. TypeOK
  <2>1. \A s \in Streams :
          next_pts[s] \in 0 .. (STREAM_DURATION * Rate[s]) + FrameUnits[s] - 1
    BY Sizes DEF Inv, CountInv
  <2> QED
    BY <2>1 DEF Inv, TypeOK, ControlInv, CountInv, PacketInv
<1>2. FlushedBeforeTrailer
  <2>1. With("freed") # {} => trailer
    BY DEF Inv, ControlInv, With
  <2>2. trailer => \A s \in Streams : encoder[s] = {} /\ ~MoreFrames(s)
    BY DEF Inv, ControlInv, FlushInv
  <2> QED
    BY <2>1, <2>2 DEF FlushedBeforeTrailer
<1> QED
  BY <1>1, <1>2 DEF Inv, PacketInv

LEMMA InitInv == Init => Inv
<1> SUFFICES ASSUME Init PROVE Inv
  OBVIOUS
<1>1. ControlInv /\ FlushInv
  BY DEF Init, ControlInv, FlushInv
<1>2. \A s \in Streams : next_pts[s] = 0 /\ Generated(s) = 0
  BY Sizes DEF Init, Generated
<1>3. CountInv
  BY <1>2, Sizes DEF Init, CountInv
<1>4. PacketInv
  <2>1. \A s \in Streams : {(i - 1) * FrameUnits[s] : i \in 1 .. Generated(s)} = {}
    BY <1>2
  <2>2. EveryFrameOnce
    BY <1>2, <2>1, FS_EmptySet DEF Init, EveryFrameOnce
  <2> QED
    BY <2>2, Sizes, FS_EmptySet DEF Init, PacketInv
<1>5. StreamsStayTogether
  BY DEF Init, StreamsStayTogether
<1> QED
  BY <1>1, <1>3, <1>4, <1>5 DEF Inv

-------------------------------------------------------------------------------
(* The steps that move no frame. *)

LEMMA SameSignal ==
  ASSUME Inv, UNCHANGED <<countVars, encoder, file, packets>>,
         pc' \in {"start", "set_up"} => pc \in {"start", "set_up"}
  PROVE  CountInv' /\ PacketInv' /\ (UNCHANGED encode => StreamsStayTogether')
<1>1. \A s \in Streams : Generated(s)' = Generated(s) /\ MoreFrames(s)' = MoreFrames(s)
  BY DEF Generated, MoreFrames, countVars
<1>2. CountInv'
  BY <1>1 DEF Inv, CountInv, countVars
<1>3. PacketInv'
  BY <1>1 DEF Inv, PacketInv, EveryFrameOnce
<1>4. UNCHANGED encode => StreamsStayTogether'
  BY <1>1 DEF Inv, StreamsStayTogether, countVars
<1> QED
  BY <1>2, <1>3, <1>4

LEMMA AddStreamKeeps ==
  ASSUME Inv, NEW s \in Streams, AddStream(s)
  PROVE  Inv'
<1>1. /\ pc = "set_up" /\ pc' = pc /\ trailer' = trailer
      /\ codec[s] = "none" /\ codec' = [codec EXCEPT ![s] = "added"]
      /\ encode' = [encode EXCEPT ![s] = TRUE]
      /\ UNCHANGED <<countVars, encoder, file, packets>>
  BY DEF AddStream, Codec, First, With, fileVars
<1>2. CountInv' /\ PacketInv'
  BY <1>1, SameSignal
<1>3. ControlInv'
  BY <1>1 DEF Inv, ControlInv
<1>4. FlushInv'
  BY <1>1 DEF Inv, ControlInv, FlushInv, MoreFrames, countVars
<1>5. StreamsStayTogether'
  <2>1. \A t \in Streams : next_pts'[t] = 0
    BY <1>1 DEF Inv, CountInv, countVars
  <2> QED
    BY <2>1, Sizes DEF StreamsStayTogether
<1> QED
  BY <1>2, <1>3, <1>4, <1>5 DEF Inv

LEMMA CodecKeeps ==
  ASSUME Inv, NEW s \in Streams, OpenCodec(s) \/ CloseStream(s)
  PROVE  Inv'
<1>1. /\ pc' = pc /\ trailer' = trailer /\ encode' = encode
      /\ codec[s] # "none"
      /\ \/ codec' = [codec EXCEPT ![s] = "open"]
         \/ codec' = [codec EXCEPT ![s] = "freed"] /\ pc = "close"
      /\ UNCHANGED <<countVars, encoder, file, packets>>
  BY DEF OpenCodec, CloseStream, Codec, First, With, fileVars, signalVars
<1>2. CountInv' /\ PacketInv' /\ StreamsStayTogether'
  BY <1>1, SameSignal
<1>3. ControlInv'
  BY <1>1 DEF Inv, ControlInv
<1>4. FlushInv'
  BY <1>1 DEF Inv, ControlInv, FlushInv, MoreFrames, countVars
<1> QED
  BY <1>2, <1>3, <1>4 DEF Inv

(* The steps of pc alone, and those that end the program. *)
LEMMA ControlKeeps ==
  ASSUME Inv,
         \/ AllocContext \/ WriteHeader \/ EncodeEnds \/ WriteTrailer \/ Finish
         \/ SetUpFails \/ WriteFrameFails \/ Ended \/ UNCHANGED vars
  PROVE  Inv'
<1>1. UNCHANGED <<codec, encode, countVars, encoder, file, packets>>
  BY DEF AllocContext, WriteHeader, EncodeEnds, WriteTrailer, Finish, SetUpFails,
         WriteFrameFails, Ended, vars, signalVars, fileVars
<1>2. pc' \in {"start", "set_up"} => pc \in {"start", "set_up"}
  BY DEF AllocContext, WriteHeader, EncodeEnds, WriteTrailer, Finish, SetUpFails,
         WriteFrameFails, Ended, vars
<1>3. CountInv' /\ PacketInv' /\ StreamsStayTogether'
  BY <1>1, <1>2, SameSignal
<1>4. FlushInv'
  BY <1>1 DEF Inv, FlushInv, MoreFrames, countVars
<1>5. ControlInv'
  <2>1. CASE WriteHeader
    <3>1. /\ \A s \in Streams : codec[s] = "open"
          /\ pc = "set_up" /\ pc' = "encode" /\ trailer' = trailer
      BY <2>1 DEF WriteHeader, With, fileVars
    <3> QED
      BY <1>1, <3>1 DEF Inv, ControlInv
  <2>2. CASE EncodeEnds \/ Finish
    BY <1>1, <2>2 DEF Inv, ControlInv, EncodeEnds, Finish, fileVars
  <2>3. CASE WriteTrailer
    BY <1>1, <2>3 DEF Inv, ControlInv, WriteTrailer
  <2>4. CASE AllocContext \/ SetUpFails \/ WriteFrameFails \/ Ended \/ UNCHANGED vars
    BY <1>1, <2>4
       DEF Inv, ControlInv, AllocContext, SetUpFails, WriteFrameFails, Ended, vars, fileVars
  <2> QED
    BY <2>1, <2>2, <2>3, <2>4
<1> QED
  BY <1>3, <1>4, <1>5 DEF Inv

-------------------------------------------------------------------------------
(* WriteFrame. *)

(* The time stamp of a new frame is that of no frame before it. *)
LEMMA NewTimeStamp ==
  ASSUME Inv, NEW s \in Streams
  PROVE  /\ TimeStamp(s) = next_pts[s]
         /\ TimeStamp(s) = Generated(s) * FrameUnits[s]
         /\ TimeStamp(s) \in Nat
         /\ TimeStamp(s) \notin file[s] \cup encoder[s]
<1>1. TimeStamp(s) = next_pts[s] /\ next_pts[s] = Generated(s) * FrameUnits[s]
      /\ next_pts[s] \in Nat /\ Generated(s) \in Nat
  BY Sizes DEF Inv, CountInv, TimeStamp
<1>2. ASSUME NEW i \in 1 .. Generated(s)
      PROVE  (i - 1) * FrameUnits[s] # Generated(s) * FrameUnits[s]
  <2>1. i - 1 \in Nat /\ i - 1 # Generated(s)
    BY <1>1
  <2> QED
    BY <1>1, <2>1, Sizes, TimesInjective
<1>3. file[s] \cup encoder[s] = {(i - 1) * FrameUnits[s] : i \in 1 .. Generated(s)}
  BY DEF Inv, PacketInv, EveryFrameOnce
<1> QED
  BY <1>1, <1>2, <1>3

(* What Advance does to the clocks. *)
LEMMA AdvanceCounts ==
  ASSUME Inv, NEW s \in Streams, MoreFrames(s), Advance(s)
  PROVE  /\ next_pts' \in [Streams -> Nat]
         /\ next_pts'[s] = next_pts[s] + FrameUnits[s]
         /\ next_pts'[s] < STREAM_DURATION * Rate[s] + FrameUnits[s]
         /\ \A t \in Streams \ {s} : next_pts'[t] = next_pts[t]
         /\ Generated(s)' = Generated(s) + 1
         /\ next_pts'[s] = Generated(s)' * FrameUnits[s]
         /\ samples_count' \in Nat
         /\ "audio" \in Streams => samples_count' = next_pts'["audio"]
<1>1. /\ next_pts \in [Streams -> Nat] /\ FrameUnits[s] \in Nat \ {0}
      /\ next_pts' = [next_pts EXCEPT ![s] = @ + FrameUnits[s]]
  BY Sizes DEF Inv, CountInv, Advance
<1>2. /\ next_pts' \in [Streams -> Nat]
      /\ next_pts'[s] = next_pts[s] + FrameUnits[s]
      /\ \A t \in Streams \ {s} : next_pts'[t] = next_pts[t]
  BY <1>1
<1>3. next_pts'[s] < STREAM_DURATION * Rate[s] + FrameUnits[s]
  BY <1>1, <1>2, Sizes DEF MoreFrames
<1>4. samples_count' \in Nat /\ ("audio" \in Streams => samples_count' = next_pts'["audio"])
  BY <1>1, <1>2 DEF Inv, CountInv, Advance
<1>5. next_pts'[s] = (Generated(s) + 1) * FrameUnits[s] /\ Generated(s) + 1 \in Nat
  <2>1. next_pts[s] = Generated(s) * FrameUnits[s] /\ Generated(s) \in Nat
    BY DEF Inv, CountInv
  <2>2. (Generated(s) + 1) * FrameUnits[s] = Generated(s) * FrameUnits[s] + FrameUnits[s]
    BY <1>1, <2>1
  <2> QED
    BY <1>2, <2>1, <2>2
<1>6. Generated(s)' = Generated(s) + 1
  BY <1>1, <1>5, DivTimes DEF Generated
<1> QED
  BY <1>2, <1>3, <1>4, <1>5, <1>6

(* What happens to the encoder and the file of one stream when it holds     *)
(* held before it gives out a packet or none.                               *)
LEMMA PacketMoves ==
  ASSUME Inv, NEW s \in Streams, NEW held \in SUBSET Nat, IsFiniteSet(held),
         NEW out \in held \cup {NoPacket},
         encoder' = [encoder EXCEPT ![s] = held \ {out}],
         WritePacket(s, out),
         file[s] \cap held = {}
  PROVE  /\ encoder' \in [Streams -> SUBSET Nat]
         /\ file' \in [Streams -> SUBSET Nat]
         /\ packets' \in [Streams -> Nat]
         /\ \A t \in Streams \ {s} :
              encoder'[t] = encoder[t] /\ file'[t] = file[t] /\ packets'[t] = packets[t]
         /\ IsFiniteSet(encoder'[s])
         /\ file'[s] \cap encoder'[s] = {}
         /\ file'[s] \cup encoder'[s] = file[s] \cup held
         /\ packets'[s] + Cardinality(encoder'[s]) = packets[s] + Cardinality(held)
         /\ Cardinality(encoder'[s]) <= Cardinality(held)
         /\ out # NoPacket => Cardinality(encoder'[s]) = Cardinality(held) - 1
         /\ out = NoPacket => encoder'[s] = held
<1>1. /\ encoder \in [Streams -> SUBSET Nat] /\ file \in [Streams -> SUBSET Nat]
      /\ packets \in [Streams -> Nat] /\ NoPacket \notin Nat
  BY DEF Inv, PacketInv, NoPacket
<1>2. /\ IsFiniteSet(held \ {out})
      /\ Cardinality(held) \in Nat
      /\ Cardinality(held \ {out}) \in Nat
      /\ Cardinality(held \ {out}) =
           IF out \in held THEN Cardinality(held) - 1 ELSE Cardinality(held)
  BY FS_RemoveElement, FS_CardinalityType
<1>3. CASE out = NoPacket
  <2>1. held \ {out} = held /\ UNCHANGED <<file, packets>>
    BY <1>1, <1>3 DEF WritePacket
  <2>2. encoder'[s] = held /\ \A t \in Streams \ {s} : encoder'[t] = encoder[t]
    BY <1>1, <2>1
  <2> QED
    BY <1>1, <1>2, <1>3, <2>1, <2>2
<1>4. CASE out # NoPacket
  <2>1. /\ out \in held /\ out \in Nat
        /\ file' = [file EXCEPT ![s] = @ \cup {out}]
        /\ packets' = [packets EXCEPT ![s] = @ + 1]
    BY <1>4 DEF WritePacket, PacketWritten
  <2>2. /\ encoder'[s] = held \ {out} /\ file'[s] = file[s] \cup {out}
        /\ packets'[s] = packets[s] + 1
        /\ \A t \in Streams \ {s} :
             encoder'[t] = encoder[t] /\ file'[t] = file[t] /\ packets'[t] = packets[t]
    BY <1>1, <2>1
  <2>3. file'[s] \cap encoder'[s] = {} /\ file'[s] \cup encoder'[s] = file[s] \cup held
    BY <2>1, <2>2
  <2>4. packets[s] \in Nat
    BY <1>1
  <2> QED
    BY <1>1, <1>2, <1>4, <2>1, <2>2, <2>3, <2>4
<1> QED
  BY <1>3, <1>4

LEMMA WriteFrameKeepsPackets ==
  ASSUME Inv, NEW s \in Streams, WriteFrame(s)
  PROVE  /\ CountInv' /\ PacketInv' /\ StreamsStayTogether'
         /\ \A t \in Streams \ {s} : encoder'[t] = encoder[t] /\ next_pts'[t] = next_pts[t]
         /\ ~encode'[s] => encoder'[s] = {} /\ ~MoreFrames(s)'
         /\ encode' \in [Streams -> BOOLEAN]
         /\ \A t \in Streams \ {s} : encode'[t] = encode[t]
<1>0. PICK out \in Calls(s) :
        /\ \/ MoreFrames(s) /\ EncodeFrame(s, out) /\ Advance(s)
           \/ ~MoreFrames(s) /\ EncodeNull(s, out) /\ UNCHANGED countVars
        /\ WritePacket(s, out)
        /\ encode' = [encode EXCEPT ![s] = StreamGoesOn(MoreFrames(s), out # NoPacket)]
  BY DEF WriteFrame
<1>1. /\ pc = "encode" /\ pc' = pc /\ Selected(s)
      /\ Delay[s] \in Nat /\ FrameUnits[s] \in Nat \ {0}
      /\ Generated(s) \in Nat
      /\ encoder[s] \in SUBSET Nat /\ IsFiniteSet(encoder[s])
      /\ Cardinality(encoder[s]) \in Nat /\ Cardinality(encoder[s]) <= Delay[s]
      /\ file[s] \cap encoder[s] = {}
      /\ packets[s] + Cardinality(encoder[s]) = Generated(s)
      /\ packets[s] \in Nat
  BY Sizes, FS_CardinalityType
     DEF WriteFrame, Inv, CountInv, PacketInv, EveryFrameOnce
<1>2. /\ encode' \in [Streams -> BOOLEAN]
      /\ \A t \in Streams \ {s} : encode'[t] = encode[t]
      /\ encode'[s] = (MoreFrames(s) \/ out # NoPacket)
  <2>1. encode \in [Streams -> BOOLEAN]
    BY DEF Inv, ControlInv
  <2> QED
    BY <1>0, <2>1 DEF StreamGoesOn
<1>3. \A t \in Streams \ {s} :
        encoder'[t] = encoder[t] /\ file'[t] = file[t] /\ packets'[t] = packets[t]
          /\ next_pts'[t] = next_pts[t]
        => Generated(t)' = Generated(t) /\ MoreFrames(t)' = MoreFrames(t)
  BY DEF Generated, MoreFrames
(* A frame goes in. *)
<1>4. CASE MoreFrames(s) /\ EncodeFrame(s, out) /\ Advance(s)
  <2> DEFINE held == encoder[s] \cup {TimeStamp(s)}
  <2>1. /\ out \in held \cup {NoPacket}
        /\ Cardinality(held) > Delay[s] => out # NoPacket
        /\ encoder' = [encoder EXCEPT ![s] = held \ {out}]
    BY <1>4 DEF EncodeFrame
  <2>2. /\ held \in SUBSET Nat /\ IsFiniteSet(held)
        /\ Cardinality(held) = Cardinality(encoder[s]) + 1
        /\ file[s] \cap held = {}
    <3>1. TimeStamp(s) \in Nat /\ TimeStamp(s) \notin file[s] \cup encoder[s]
      BY NewTimeStamp
    <3>2. IsFiniteSet(held) /\ Cardinality(held) = Cardinality(encoder[s]) + 1
      BY <1>1, <3>1, FS_AddElement
    <3> QED
      BY <1>1, <3>1, <3>2
  <2> HIDE DEF held
  <2>3. /\ encoder' \in [Streams -> SUBSET Nat]
        /\ file' \in [Streams -> SUBSET Nat]
        /\ packets' \in [Streams -> Nat]
        /\ \A t \in Streams \ {s} :
             encoder'[t] = encoder[t] /\ file'[t] = file[t] /\ packets'[t] = packets[t]
        /\ IsFiniteSet(encoder'[s])
        /\ file'[s] \cap encoder'[s] = {}
        /\ file'[s] \cup encoder'[s] = file[s] \cup held
        /\ packets'[s] + Cardinality(encoder'[s]) = packets[s] + Cardinality(held)
        /\ out # NoPacket => Cardinality(encoder'[s]) = Cardinality(held) - 1
        /\ out = NoPacket => encoder'[s] = held
    BY <1>0, <2>1, <2>2, PacketMoves
  <2>4. Cardinality(encoder'[s]) <= Delay[s]
    <3> DEFINE c == Cardinality(encoder[s])
               d == Cardinality(encoder'[s])
    <3>1. /\ c \in Nat /\ Delay[s] \in Nat /\ c <= Delay[s]
          /\ Cardinality(held) = c + 1
          /\ out # NoPacket => d = Cardinality(held) - 1
          /\ out = NoPacket => d = Cardinality(held)
          /\ Cardinality(held) > Delay[s] => out # NoPacket
      BY <1>1, <2>1, <2>2, <2>3
    <3> HIDE DEF c, d
    <3>2. d <= Delay[s]
      BY <3>1
    <3> QED
      BY <3>2 DEF d
  <2>5. /\ next_pts' \in [Streams -> Nat]
        /\ next_pts'[s] = next_pts[s] + FrameUnits[s]
        /\ next_pts'[s] < STREAM_DURATION * Rate[s] + FrameUnits[s]
        /\ \A t \in Streams \ {s} : next_pts'[t] = next_pts[t]
        /\ Generated(s)' = Generated(s) + 1
        /\ next_pts'[s] = Generated(s)' * FrameUnits[s]
        /\ samples_count' \in Nat
        /\ "audio" \in Streams => samples_count' = next_pts'["audio"]
    BY <1>4, AdvanceCounts
  <2>6. CountInv'
    BY <1>1, <1>3, <2>3, <2>5 DEF Inv, CountInv
  <2>7. file'[s] \cup encoder'[s] =
          {(i - 1) * FrameUnits[s] : i \in 1 .. Generated(s) + 1}
    <3>1. 1 .. Generated(s) + 1 = (1 .. Generated(s)) \cup {Generated(s) + 1}
      BY <1>1
    <3>2. TimeStamp(s) = ((Generated(s) + 1) - 1) * FrameUnits[s]
      BY <1>1, NewTimeStamp
    <3>3. file[s] \cup encoder[s] = {(i - 1) * FrameUnits[s] : i \in 1 .. Generated(s)}
      BY DEF Inv, PacketInv, EveryFrameOnce
    <3>4. file'[s] \cup encoder'[s] = file[s] \cup encoder[s] \cup {TimeStamp(s)}
      BY <2>3 DEF held
    <3> QED
      BY <3>1, <3>2, <3>3, <3>4
  <2>8. EveryFrameOnce'
    <3>1. packets'[s] + Cardinality(encoder'[s]) = Generated(s) + 1
      BY <1>1, <2>2, <2>3
    <3> QED
      BY <1>3, <2>3, <2>5, <2>7, <3>1 DEF Inv, PacketInv, EveryFrameOnce
  <2>9. PacketInv'
    BY <2>3, <2>4, <2>8 DEF Inv, PacketInv
  <2>10. StreamsStayTogether'
    <3> SUFFICES ASSUME NEW u \in Streams, NEW t \in Streams,
                        MoreFrames(t)', encode'[t]
                 PROVE  next_pts'[u] * Rate[t]
                          <= (next_pts'[t] * Rate[u]) + (FrameUnits[u] * Rate[t])
      BY DEF StreamsStayTogether
    <3>1. /\ Rate[t] \in Nat \ {0} /\ Rate[u] \in Nat \ {0} /\ FrameUnits[u] \in Nat \ {0}
          /\ next_pts[t] \in Nat /\ next_pts[u] \in Nat
          /\ next_pts'[t] \in Nat /\ next_pts'[u] \in Nat
      BY <2>5, Sizes DEF Inv, CountInv
    <3>2. CASE u = t
      BY <3>1, <3>2
    <3>3. CASE u = s /\ t # s
      <4>1. encode[t] /\ next_pts'[t] = next_pts[t]
        BY <1>2, <2>5, <3>3
      <4>2. next_pts[s] * Rate[t] <= next_pts[t] * Rate[s]
        BY <1>1, <3>1, <3>3, <4>1 DEF Selected, NotAhead
      <4>3. next_pts'[s] * Rate[t] = next_pts[s] * Rate[t] + FrameUnits[s] * Rate[t]
        BY <2>5, <3>1, <3>3
      <4> QED
        BY <3>1, <3>3, <4>1, <4>2, <4>3
    <3>4. CASE u # s
      <4>1. next_pts'[u] = next_pts[u] /\ next_pts[t] <= next_pts'[t]
        BY <1>1, <2>5, <3>1, <3>4
      <4>2. encode[t] /\ MoreFrames(t)
        BY <1>1, <1>2, <1>3, <1>4, <2>3, <2>5 DEF Selected
      <4>3. next_pts[u] * Rate[t] <= (next_pts[t] * Rate[u]) + (FrameUnits[u] * Rate[t])
        BY <4>2 DEF Inv, StreamsStayTogether
      <4>4. next_pts[t] * Rate[u] <= next_pts'[t] * Rate[u]
        BY <3>1, <4>1
      <4> QED
        BY <3>1, <4>1, <4>3, <4>4
    <3> QED
      BY <3>2, <3>3, <3>4
  <2> QED
    BY <1>2, <1>4, <2>3, <2>5, <2>6, <2>9, <2>10
(* The encoder is being flushed. *)
<1>5. CASE ~MoreFrames(s) /\ EncodeNull(s, out) /\ UNCHANGED countVars
  <2>1. /\ out \in encoder[s] \/ (out = NoPacket /\ encoder[s] = {})
        /\ encoder' = [encoder EXCEPT ![s] = encoder[s] \ {out}]
        /\ UNCHANGED <<next_pts, samples_count>>
    BY <1>5 DEF EncodeNull, countVars
  <2>2. /\ encoder' \in [Streams -> SUBSET Nat]
        /\ file' \in [Streams -> SUBSET Nat]
        /\ packets' \in [Streams -> Nat]
        /\ \A t \in Streams \ {s} :
             encoder'[t] = encoder[t] /\ file'[t] = file[t] /\ packets'[t] = packets[t]
        /\ IsFiniteSet(encoder'[s])
        /\ file'[s] \cap encoder'[s] = {}
        /\ file'[s] \cup encoder'[s] = file[s] \cup encoder[s]
        /\ packets'[s] + Cardinality(encoder'[s]) = packets[s] + Cardinality(encoder[s])
        /\ Cardinality(encoder'[s]) <= Cardinality(encoder[s])
        /\ out = NoPacket => encoder'[s] = encoder[s]
    BY <1>0, <1>1, <2>1, PacketMoves
  <2>3. \A t \in Streams : Generated(t)' = Generated(t) /\ MoreFrames(t)' = MoreFrames(t)
    BY <2>1 DEF Generated, MoreFrames
  <2>4. CountInv'
    BY <1>1, <2>1, <2>3 DEF Inv, CountInv
  <2>5. EveryFrameOnce'
    BY <2>2, <2>3 DEF Inv, PacketInv, EveryFrameOnce
  <2>6. Cardinality(encoder'[s]) <= Delay[s]
    <3>1. Cardinality(encoder'[s]) \in Nat
      BY <2>2, FS_CardinalityType
    <3> QED
      BY <1>1, <2>2, <3>1
  <2>7. PacketInv'
    BY <2>2, <2>5, <2>6 DEF Inv, PacketInv
  <2>8. StreamsStayTogether'
    BY <1>2, <1>5, <2>1, <2>3 DEF Inv, StreamsStayTogether
  <2>9. ~encode'[s] => encoder'[s] = {} /\ ~MoreFrames(s)'
    BY <1>2, <1>5, <2>1, <2>2, <2>3
  <2> QED
    BY <1>2, <2>1, <2>2, <2>4, <2>7, <2>8, <2>9
<1> QED
  BY <1>0, <1>4, <1>5

LEMMA WriteFrameKeeps ==
  ASSUME Inv, NEW s \in Streams, WriteFrame(s)
  PROVE  Inv'
<1>1. pc = "encode" /\ pc' = pc /\ codec' = codec /\ trailer' = trailer
  BY DEF WriteFrame
<1>2. /\ CountInv' /\ PacketInv' /\ StreamsStayTogether'
      /\ encode' \in [Streams -> BOOLEAN]
  BY WriteFrameKeepsPackets
<1>3. ControlInv'
  BY <1>1, <1>2 DEF Inv, ControlInv
<1>4. FlushInv'
  <2> SUFFICES ASSUME NEW t \in Streams, codec[t] # "none", ~encode'[t]
               PROVE  encoder'[t] = {} /\ ~MoreFrames(t)'
    BY <1>1 DEF FlushInv
  <2>1. CASE t = s
    BY <2>1, WriteFrameKeepsPackets
  <2>2. CASE t # s
    <3>1. encode'[t] = encode[t] /\ encoder'[t] = encoder[t] /\ next_pts'[t] = next_pts[t]
      BY <2>2, WriteFrameKeepsPackets
    <3> QED
      BY <3>1 DEF Inv, FlushInv, MoreFrames
  <2> QED
    BY <2>1, <2>2
<1> QED
  BY <1>2, <1>3, <1>4 DEF Inv

-------------------------------------------------------------------------------
LEMMA NextInv == Inv /\ [Next]_vars => Inv'
<1> SUFFICES ASSUME Inv, [Next]_vars PROVE Inv'
  OBVIOUS
<1> QED
  BY AddStreamKeeps, CodecKeeps, ControlKeeps, WriteFrameKeeps DEF Next, Main

LEMMA SpecInv == Spec => []Inv
BY InitInv, NextInv, PTL DEF Spec

(* Every variable keeps its type; each signal ends less than a frame behind *)
(* its duration, and no encoder ever holds more than it may.                *)
THEOREM TypeCorrect == Spec => []TypeOK
<1>1. Inv => TypeOK
  BY InvImplies
<1> QED
  BY <1>1, SpecInv, PTL

(* The packets in the file and the frames in the encoder are the generated  *)
(* frames, each once and at its time, whatever order the encoder gives them *)
(* out in.                                                                  *)
THEOREM FramesCorrect == Spec => []EveryFrameOnce
<1>1. Inv => EveryFrameOnce
  BY InvImplies
<1> QED
  BY <1>1, SpecInv, PTL

(* The trailer is behind the last packet of every encoder, and before the   *)
(* first codec is freed.                                                    *)
THEOREM FlushCorrect == Spec => []FlushedBeforeTrailer
<1>1. Inv => FlushedBeforeTrailer
  BY InvImplies
<1> QED
  BY <1>1, SpecInv, PTL

(* Always advancing the stream that is behind keeps each within one frame   *)
(* of the other.                                                            *)
THEOREM TogetherCorrect == Spec => []StreamsStayTogether
<1>1. Inv => StreamsStayTogether
  BY InvImplies
<1> QED
  BY <1>1, SpecInv, PTL
===============================================================================
