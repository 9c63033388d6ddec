---------------------------- MODULE OpenALSession ----------------------------
(***************************************************************************)
(* The other half of the OpenAL framework (alFramework/src/Framework.cpp): *)
(* ALFWInitOpenAL opens the playback device that the user picks and makes  *)
(* a context current, ALFWShutdownOpenAL releases both, and the loader     *)
(* lives between ALFWInit and ALFWShutdown.                                *)
(*                                                                         *)
(* The operations only; CaptureSample calls them.                          *)
(***************************************************************************)
VARIABLE held   (* what the process has acquired and not released: of the   *)
                (* loader, the playback device, its context, and the device *)
                (* list that ALFWInitOpenAL makes                           *)

Resources == {"loader", "device", "context", "list"}

SessionInit == held = {}

ALFWInit == held' = held \cup {"loader"}

ALFWInitOpenALSucceeds == held' = held \cup {"device", "context"}

(* An empty device list is not deleted.  With a list, the device cannot be  *)
(* opened, or its context cannot be created and the device is closed again. *)
ALFWInitOpenALFails ==
  \/ held' = held \cup {"list"}
  \/ UNCHANGED held

ALFWShutdownOpenAL == held' = held \ {"device", "context"}

ALFWShutdown == held' = held \ {"loader"}
==============================================================================
