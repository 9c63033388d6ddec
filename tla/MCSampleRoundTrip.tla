--------------------------- MODULE MCSampleRoundTrip ---------------------------
(* A model-checking instance of SampleRoundTrip: files of other programs.    *)
EXTENDS SampleRoundTrip

C(tag, size, stored, at) == [tag |-> tag, size |-> size, stored |-> stored, at |-> at]
Wav(riff, chunks) == [empty |-> FALSE, riff |-> riff, chunks |-> chunks]
Fmt == C("fmt", 16, 16, 20)

MCForeignFiles == {
  (* of wav_writer.hpp: closed; killed; a write failed                       *)
  Wav(44, <<Fmt, C("data", 8, 8, 44)>>),
  Wav(36, <<Fmt, C("data", 0, 6, 44)>>),
  Wav(44, <<Fmt, C("data", 8, 6, 44)>>),
  (* of others: chunks around the data; cut short; with a length that is too *)
  (* small; written to a pipe, the last with an extensible format; without   *)
  (* data; with a format that is too short, also an extensible one before    *)
  (* and behind the data                                                     *)
  Wav(70, <<C("other", 10, 10, 20), C("fmt", 16, 16, 38), C("data", 4, 4, 62),
            C("other", 4, 4, 74)>>),
  Wav(44, <<Fmt, C("data", 8, 3, 44)>>),
  Wav(40, <<Fmt, C("data", 8, 3, 44)>>),
  Wav(65535, <<Fmt, C("data", 0, 6, 44)>>),
  Wav(65535, <<Fmt, C("data", 6, 6, 44), C("other", 4, 4, 58)>>),
  Wav(65535, <<C("extensible", 40, 40, 20), C("data", 6, 6, 68)>>),
  Wav(28, <<Fmt>>),
  Wav(36, <<C("fmt", 12, 12, 20), C("data", 4, 4, 40)>>),
  Wav(42, <<C("extensible", 18, 18, 20), C("data", 4, 4, 46)>>),
  Wav(66, <<Fmt, C("data", 4, 4, 44), C("extensible", 18, 18, 56)>>)}
================================================================================
