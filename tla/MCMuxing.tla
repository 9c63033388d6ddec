------------------------------- MODULE MCMuxing --------------------------------
(* A model-checking instance of Muxing: a video stream of whole frames and   *)
(* an audio stream whose frames do not divide the duration.                  *)
EXTENDS Muxing

MCRate == [video |-> 5, audio |-> 8]
MCFrameUnits == [video |-> 1, audio |-> 3]
MCDelay == [video |-> 2, audio |-> 1]
===============================================================================
