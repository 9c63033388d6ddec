----------------------------- MODULE MCCaptureToWav ---------------------------
(* Model-checking instances of CaptureToWav: see the MCCaptureToWav_*.cfg.   *)
EXTENDS CaptureToWav, TLC
===============================================================================
