--------------------------- MODULE CollectorFormats ----------------------------
(***************************************************************************)
(* AudioCollector as any program may use it: constructed for one of the    *)
(* formats that its constructor accepts, opened, started, asked for frames *)
(* that availableSamples reported, stopped and closed.  CaptureToWav uses  *)
(* it for 16 bit mono only; this module asks what the class does for the   *)
(* other formats.                                                          *)
(***************************************************************************)
EXTENDS AudioCollector

VARIABLES
  claimed,  (* bytes that captureSamples has reported so far                *)
  placed    (* bytes that the device has put into the caller's buffers      *)

vars == <<collectorVars, claimed, placed>>

(* The constructor has let the format pass. *)
Init ==
  /\ FormatAccepted
  /\ CollectorInit
  /\ claimed = 0
  /\ placed = 0

Open == device = "null" /\ open /\ UNCHANGED <<claimed, placed>>
Start == device \in {"opened", "stopped"} /\ start /\ UNCHANGED <<claimed, placed>>
Stop == device = "capturing" /\ stop /\ UNCHANGED <<claimed, placed>>
Close == device \in {"opened", "stopped"} /\ close /\ UNCHANGED <<claimed, placed>>

Capture ==
  /\ device \in {"capturing", "stopped"}
  /\ \E n \in 1 .. availableSamples :
       /\ captureSamples(n)
       /\ claimed' = claimed + ReportedBytes(n)
       /\ placed' = placed + (FramesHandedOver(n) * DeviceFrameBytes)

DeliverFrame == Deliver /\ UNCHANGED <<claimed, placed>>

Next == Open \/ Start \/ Stop \/ Close \/ Capture \/ DeliverFrame

Spec == Init /\ [][Next]_vars

-------------------------------------------------------------------------------
(* What the constructor's messages say of 8 and 16 bit, 1 and 2 channels:   *)
(* they are supported.  The bytes that captureSamples reports are then the  *)
(* bytes it placed, in every format that the constructor accepts.           *)
ReportsWhatItPlaced == claimed = placed
===============================================================================
