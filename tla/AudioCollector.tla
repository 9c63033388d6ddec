---------------------------- MODULE AudioCollector ----------------------------
(***************************************************************************)
(* The AudioCollector class (capture_audio/include/AudioCollector.h) over  *)
(* the capture device that it opens.                                       *)
(*                                                                         *)
(* The module holds the class's operations only; the modules that use the  *)
(* class (CaptureToWav, CollectorFormats) decide who calls them and when.  *)
(***************************************************************************)
EXTENDS CaptureDevice

CONSTANTS
  Channels,        (* constructor argument channels_                        *)
  BitsPerSample    (* constructor argument bitsPerSample_; the argument     *)
                   (* bufSize_ is CaptureDevice's InternalBufSize           *)

ASSUME CollectorAssumption ==
  /\ Channels \in Nat
  /\ BitsPerSample \in Nat

(* The bytes that the class counts for one frame. *)
blockAlign == (Channels * BitsPerSample) \div 8

(* The bytes that one frame occupies in the device: open() passes           *)
(* AL_FORMAT_MONO16 whatever the constructor was given.                     *)
DeviceFrameBytes == 2

(* The constructor throws on any other format. *)
FormatAccepted == BitsPerSample \in {8, 16} /\ Channels \in {1, 2}

(* open(): the device is there, or the call throws and nothing changes. *)
open == alcCaptureOpenDevice

start == alcCaptureStart

stop == alcCaptureStop

availableSamples == CaptureSamplesWaiting

close == alcCaptureCloseDevice

(* captureSamples(buf, bufSize, n) throws when the caller's buffer cannot   *)
(* hold n frames of the class's own size.                                   *)
CaptureFits(bufSize, n) == n * blockAlign <= bufSize

(* What captureSamples returns: the bytes it says it placed in buf. *)
ReportedBytes(n) == n * blockAlign

(* The call does not look at what the device did. *)
captureSamples(n) == alcCaptureSamples(n)
===============================================================================
