------------------------------- MODULE Recording ------------------------------
(***************************************************************************)
(* What a recorder promises, without buffers, blocks, clocks or files: the *)
(* frames it has heard form a sequence; the saved frames are always a      *)
(* prefix of it, in which nothing is reordered, duplicated or invented; if *)
(* the medium may refuse frames, it refuses them one after the other while *)
(* they are being saved and no others; and the recording is sealed only    *)
(* when all that was heard and not refused is saved, after which nothing   *)
(* changes.  A recorder may stop at any moment.                            *)
(***************************************************************************)
EXTENDS Naturals, Sequences

CONSTANT MayRefuse   (* TRUE when the medium may refuse frames              *)

VARIABLES
  heard,   (* the frames accepted from the microphone and not refused       *)
  saved,   (* the frames that are in the recording                          *)
  sealed   (* the recording is complete                                     *)

recordingVars == <<heard, saved, sealed>>

Init ==
  /\ heard = << >>
  /\ saved = << >>
  /\ sealed = FALSE

Hear ==
  /\ ~sealed
  /\ Len(heard') = Len(heard) + 1
  /\ SubSeq(heard', 1, Len(heard)) = heard
  /\ UNCHANGED <<saved, sealed>>

(* Of the frames that come next, k are saved and the n behind them refused. *)
Save ==
  /\ ~sealed
  /\ \E k, n \in 0 .. Len(heard) - Len(saved) :
       /\ k + n <= Len(heard) - Len(saved)
       /\ n > 0 => MayRefuse
       /\ saved' = SubSeq(heard, 1, Len(saved) + k)
       /\ heard' = saved' \o SubSeq(heard, Len(saved) + k + n + 1, Len(heard))
  /\ UNCHANGED sealed

Seal ==
  /\ ~sealed
  /\ saved = heard
  /\ sealed' = TRUE
  /\ UNCHANGED <<heard, saved>>

Next == Hear \/ Save \/ Seal

Spec == Init /\ [][Next]_recordingVars
===============================================================================
