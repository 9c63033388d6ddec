----------------------------- MODULE CaptureDevice -----------------------------
(***************************************************************************)
(* The OpenAL capture device, which belongs to a library: it is modelled   *)
(* from how the recording programs use it, as a bounded FIFO of sample     *)
(* frames that a driver thread fills while capture is on and that a        *)
(* program empties with alcCaptureSamples.                                 *)
(*                                                                         *)
(* A sample frame is represented by its number: the k-th frame that the    *)
(* microphone delivered since the program started is k.                    *)
(*                                                                         *)
(* The module holds the device's operations only; the modules that use it  *)
(* (AudioCollector, CaptureSample) decide who calls them and when.         *)
(***************************************************************************)
EXTENDS Naturals, Sequences

CONSTANTS
  InternalBufSize, (* the capacity, in frames, that the program asks for    *)
  MaxFrames        (* bound: frames the microphone delivers in a behaviour  *)

ASSUME DeviceAssumption ==
  /\ InternalBufSize \in Nat \ {0}
  /\ MaxFrames \in Nat

VARIABLES
  device,   (* what pCaptureDevice refers to                                *)
  ring,     (* frames captured by the device and not yet consumed           *)
  produced, (* number of frames delivered by the microphone so far          *)
  lost      (* number of those the device dropped because ring was full     *)

collectorVars == <<device, ring, produced, lost>>

DeviceStates == {"null", "opened", "capturing", "stopped", "closed"}

CollectorInit ==
  /\ device = "null"
  /\ ring = << >>
  /\ produced = 0
  /\ lost = 0

alcCaptureOpenDevice ==
  /\ device' = "opened"
  /\ ring' = << >>
  /\ UNCHANGED <<produced, lost>>

alcCaptureStart ==
  /\ device' = "capturing"
  /\ UNCHANGED <<ring, produced, lost>>

alcCaptureStop ==
  /\ device' = "stopped"
  /\ UNCHANGED <<ring, produced, lost>>

alcCaptureCloseDevice ==
  /\ device' = "closed"
  /\ UNCHANGED <<ring, produced, lost>>

(* alcGetIntegerv(ALC_CAPTURE_SAMPLES) *)
CaptureSamplesWaiting == Len(ring)

(* alcCaptureSamples hands over the n oldest frames, or, when it has fewer, *)
(* reports an error that nobody looks at and hands over none.               *)
FramesHandedOver(n) == IF n <= Len(ring) THEN n ELSE 0

alcCaptureSamples(n) ==
  /\ ring' = SubSeq(ring, FramesHandedOver(n) + 1, Len(ring))
  /\ UNCHANGED <<device, produced, lost>>

(* The caller's buffer after the call: only what the device handed over is  *)
(* overwritten, the rest keeps what it held before.                         *)
BufferAfter(buf, n) ==
  [i \in DOMAIN buf |-> IF i <= FramesHandedOver(n) THEN ring[i] ELSE buf[i]]

(* The driver's thread: one more frame arrives while capture is on; a full  *)
(* ring drops it.                                                           *)
Deliver ==
  /\ device = "capturing"
  /\ produced < MaxFrames
  /\ produced' = produced + 1
  /\ \/ /\ Len(ring) < InternalBufSize
        /\ ring' = Append(ring, produced + 1)
        /\ UNCHANGED lost
     \/ /\ Len(ring) = InternalBufSize
        /\ lost' = lost + 1
        /\ UNCHANGED ring
  /\ UNCHANGED device

CollectorTypeOK ==
  /\ device \in DeviceStates
  /\ ring \in Seq(Nat)
  /\ Len(ring) <= InternalBufSize
  /\ produced \in Nat
  /\ lost \in Nat
===============================================================================
