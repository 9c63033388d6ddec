------------------------------ MODULE MCFramework ------------------------------
(* A model-checking instance of Framework: one file of each kind.            *)
EXTENDS Framework

File(name, form, data, stored, supported) ==
  [name |-> name, form |-> form, data |-> data, stored |-> stored,
   supported |-> supported]

MCWaveFiles == {
  File("absent",    "missing", 0, 0, FALSE),
  File("text",      "other",   0, 0, FALSE),
  File("no_data",   "bad",     0, 0, FALSE),
  File("plain",     "wave",    3, 3, TRUE),   (* odd size, no pad byte       *)
  File("with_tail", "wave",    2, 5, FALSE),  (* chunks behind the data      *)
  File("truncated", "wave",    4, 1, TRUE)}
===============================================================================
