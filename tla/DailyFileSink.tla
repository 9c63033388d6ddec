----------------------------- MODULE DailyFileSink -----------------------------
(***************************************************************************)
(* The file sink of seeker::Logger: spdlog's daily_file_sink               *)
(* (spdlog/sinks/daily_file_sink.h) over its file_helper, as threads with  *)
(* a synchronous logger use it.                                            *)
(*                                                                         *)
(* A log call stamps its message with the time, and only then locks the    *)
(* sink: the messages of two threads may reach it in the other order.      *)
(* Under the mutex a message that is not older than rotation_tp_ closes    *)
(* the file and opens the one of its date, which may fail; what is thrown  *)
(* then ends the call, and the sink goes on.                               *)
(*                                                                         *)
(* Times are minutes, of which DayLength make a day.                       *)
(***************************************************************************)
EXTENDS Naturals

CONSTANTS
  Threads,
  DayLength, Rotation,   (* the minute of the day at which the sink rotates:*)
                         (* seeker asks for the last one, 23:59             *)
  LastMinute             (* bound: of the clock                             *)

VARIABLES
  now,            (* the clock                                              *)
  filename_,      (* the date in the file's name                            *)
  fd_,            (* "open", "null", or "none" before there is a sink       *)
  rotation_tp_,   (* the time of the next rotation                          *)
  stamp,          (* each thread's message: its time, or Idle               *)
  fwritten        (* what the last fwrite was given as its file             *)

vars == <<now, filename_, fd_, rotation_tp_, stamp, fwritten>>

Idle == LastMinute + 1

Date(time) == time \div DayLength

Init ==
  /\ now \in 0 .. DayLength - 1
  /\ filename_ = 0 /\ fd_ = "none" /\ rotation_tp_ = 0
  /\ stamp = [t \in Threads |-> Idle]
  /\ fwritten = "open"

next_rotation_tp_ ==
  LET rotation_time == Date(now) * DayLength + Rotation
  IN IF rotation_time > now THEN rotation_time ELSE rotation_time + DayLength

(* file_helper::open closes the old file before it tries the new one five   *)
(* times.                                                                   *)
open(date, success) ==
  /\ filename_' = date
  /\ fd_' = IF success THEN "open" ELSE "null"

(* The constructor.  When it throws there is no sink, and init gives up.    *)
Construct ==
  /\ fd_ = "none"
  /\ open(Date(now), TRUE)
  /\ rotation_tp_' = next_rotation_tp_
  /\ UNCHANGED <<now, stamp, fwritten>>

Log(t) ==
  /\ fd_ # "none" /\ stamp[t] = Idle
  /\ stamp' = [stamp EXCEPT ![t] = now]
  /\ UNCHANGED <<now, filename_, fd_, rotation_tp_, fwritten>>

write == fwritten' = fd_'

(* sink_it_, with the mutex held, and the logger's catch around it. *)
sink_it_(t) ==
  /\ stamp[t] # Idle
  /\ LET should_rotate == stamp[t] >= rotation_tp_
     IN \/ /\ should_rotate
           /\ open(Date(stamp[t]), TRUE)
           /\ rotation_tp_' = next_rotation_tp_
           /\ write
        \/ /\ should_rotate
           /\ open(Date(stamp[t]), FALSE)
           /\ UNCHANGED <<rotation_tp_, fwritten>>
        \/ /\ ~should_rotate
           /\ UNCHANGED <<filename_, fd_, rotation_tp_>>
           /\ write
  /\ stamp' = [stamp EXCEPT ![t] = Idle]
  /\ UNCHANGED now

Tick ==
  /\ now < LastMinute /\ now' = now + 1
  /\ UNCHANGED <<filename_, fd_, rotation_tp_, stamp, fwritten>>

Next == Construct \/ Tick \/ \E t \in Threads : Log(t) \/ sink_it_(t)

Spec == Init /\ [][Next]_vars

-------------------------------------------------------------------------------
(* file_helper throws when something goes wrong with the file, and the      *)
(* logger catches it: no message is ever written to a file that could not   *)
(* be opened.  A message that was stamped before the rotation and comes to  *)
(* the sink after a rotation that failed does not rotate, and is.           *)
ErrorsThrow == fwritten # "null"
===============================================================================
