----------------------------- MODULE MCAsyncLogger ----------------------------
(* A model-checking instance of AsyncLogger. *)
EXTENDS AsyncLogger

MCThreads == {"main", "other"}
MCItems == LogItems
===============================================================================
