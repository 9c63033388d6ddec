------------------------------- MODULE Framework -------------------------------
(***************************************************************************)
(* The wave loading half of the OpenAL framework                           *)
(* (alFramework/src/Framework.cpp) beside a program that streams wave      *)
(* files through a CWaves of its own.  The framework's CWaves, Loader      *)
(* here, is reached through a pointer that only Framework.cpp sees:        *)
(* ALFWInit creates it, ALFWLoadWaveToBuffer uses it, ALFWShutdown deletes *)
(* it.  The two tables share the files that the process can have open.     *)
(***************************************************************************)
EXTENDS Waves

CONSTANT MaxRefused  (* bound: refused buffer loads in a behaviour          *)

ASSUME FrameworkAssumption == MaxRefused \in Nat

VARIABLES
  g_pWaveLoader,  (* whether the global pointer is set                      *)
  loaderIDs,      (* the m_WaveIDs of the loader                            *)
  refused         (* history: loads into this loader whose sample format    *)
                  (* OpenAL has no buffer format for                        *)

loaderVars == <<g_pWaveLoader, loaderIDs, refused>>
programVars == <<m_WaveIDs, owned>>
vars == <<loaderVars, wavesVars>>

(* The framework does not give out ids of its table. *)
Loader == INSTANCE Waves WITH
  m_WaveIDs <- loaderIDs, owned <- {}

Init ==
  /\ g_pWaveLoader = FALSE
  /\ loaderIDs = EmptyTable
  /\ refused = 0
  /\ WavesInit

(* ALFWInit overwrites the pointer whatever it was. *)
ALFWInit ==
  /\ g_pWaveLoader' = TRUE
  /\ loaderIDs' = EmptyTable
  /\ refused' = 0
  /\ UNCHANGED wavesVars

ALFWShutdown ==
  /\ g_pWaveLoader
  /\ g_pWaveLoader' = FALSE
  /\ refused' = 0
  /\ Loader!Destroy
  /\ UNCHANGED programVars

(* Mutant: the loaded samples are kept after they were copied. *)
BufferFilledKeeps(f) == Loader!Loaded(f) /\ UNCHANGED refused

(* OpenAL copies the samples and the slot is released: nothing changes. *)
BufferFilled(f) ==
  /\ Loader!ReadsWhole(f) /\ ~Loader!TableFull
  /\ UNCHANGED <<loaderIDs, refused, handles, leaky, readVars>>

(* Without a buffer format the slot is not released. *)
BufferRefused(f) == Loader!Loaded(f) /\ refused' = refused + 1

ALFWLoadWaveToBuffer(f) ==
  /\ g_pWaveLoader
  /\ \/ f.supported /\ BufferFilled(f)
     \/ ~f.supported /\ refused < MaxRefused /\ BufferRefused(f)
     \/ Loader!LoadFails(f) /\ UNCHANGED refused
  /\ UNCHANGED <<g_pWaveLoader, programVars>>

(* The program's own calls.  It uses the ids that it was given. *)
WaveCall ==
  /\ \/ \E f \in WaveFiles : LoadWaveFile(f) \/ OpenWaveFile(f)
     \/ \E o \in owned :
          \/ \E n \in ReadSizes : ReadWaveData(o.id, n)
          \/ \E offset \in Offsets : SetWaveDataOffset(o.id, offset)
          \/ DeleteWaveFile(o.id)
     \/ Destroy
  /\ UNCHANGED loaderVars

Next ==
  \/ ALFWInit
  \/ ALFWShutdown
  \/ \E f \in WaveFiles : ALFWLoadWaveToBuffer(f)
  \/ WaveCall

Spec == Init /\ [][Next]_vars

-------------------------------------------------------------------------------
(* Every variable keeps its type; no file is closed twice. *)
TypeOK ==
  /\ WavesTypeOK
  /\ Loader!WavesTypeOK
  /\ g_pWaveLoader \in BOOLEAN
  /\ refused \in Nat

(* Each FILE that a table refers to is open, and none is open that no table *)
(* refers to, except after the calls that forget one: ParseFile on a file   *)
(* that is not RIFF/WAVE and OpenWaveFile on a full table.                  *)
HandlesBalanced ==
  LET inUse == Cardinality(Streams) + Cardinality(Loader!Streams)
  IN  handles >= inUse /\ (~leaky => handles = inUse)

(* Slots do not get lost: the program's table holds the ids that it was     *)
(* given, and the framework's one slot for every buffer load that was       *)
(* refused for its format, which is where ALFWLoadWaveToBuffer leaves its   *)
(* slot behind, and none else.                                              *)
SlotsAccountedFor ==
  /\ Taken = {o.id : o \in owned}
  /\ Cardinality(Loader!Taken) = refused
===============================================================================
