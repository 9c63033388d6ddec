------------------------------ MODULE AsyncLogger ------------------------------
(***************************************************************************)
(* seeker::Logger (include/seeker/logger.h) and the parts of spdlog that   *)
(* it sets up: a logger with a file sink, which is the default logger of   *)
(* spdlog's registry; in asynchronous mode a pool of one thread that       *)
(* writes what the callers put into a queue; and a thread that flushes the *)
(* logger every two seconds.                                               *)
(*                                                                         *)
(* The threads: Threads, which log and of which Main constructs the Logger *)
(* and destroys it at exit, after the others have ended; the pool's        *)
(* worker; the flusher.  Somebody may kill the process.                    *)
(*                                                                         *)
(* The logger lives as long as somebody refers to it: the registry, an     *)
(* item in the queue, or the item that the worker has in hand.  Who drops  *)
(* the last reference closes the sinks and thereby the file.               *)
(***************************************************************************)
EXTENDS LogQueue, FiniteSets

CONSTANTS
  Threads, Main,   (* the threads of the program, and the main one          *)
  MaxLogs          (* bound: log calls of each thread                       *)

VARIABLES
  main,        (* where Main is with the Logger's life                      *)
  mode,        (* what the constructor made: an asynchronous or a           *)
               (* synchronous logger with a file, or spdlog's own           *)
  registered,  (* the registry refers to the logger                         *)
  flush_level, (* the logger's level of flush_on: "off" or "warn"           *)
  step, item,  (* where each thread is in a call, and what it posts         *)
  worker, hand,(* where the worker is, and the item it has in hand          *)
  flusher,     (* where the flusher is                                      *)
  active_,     (* of the flusher's periodic_worker                          *)
  logs,        (* log calls of each thread so far                           *)
  written,     (* messages that fwrite was given                            *)
  disk,        (* how many of them are certainly on the disk                *)
  accepted     (* history: the messages that the logger has accepted, by    *)
               (* putting them into the queue or writing them itself        *)

mainVars == <<main, mode, registered, flush_level, logs>>
callVars == <<step, item>>
poolVars == <<worker, hand>>
flusherVars == <<flusher, active_>>
fileVars == <<written, disk, accepted>>
vars == <<queueVars, mainVars, callVars, poolVars, flusherVars, fileVars>>

Producers == Threads \cup {"flusher"}
Messages == [kind : {"log"}, by : Threads, n : 0 .. MaxLogs, level : {"info", "warn"}]
FlushItem == [kind |-> "flush"]
TerminateItem == [kind |-> "terminate"]
LogItems == Messages \cup {FlushItem, TerminateItem}
Nothing == Moved

ASSUME LoggerAssumption ==
  /\ Main \in Threads /\ MaxLogs \in Nat
  /\ {"flusher", "worker"} \cap Threads = {}
  /\ Items = LogItems

Init ==
  /\ QueueInit
  /\ main = "construct" /\ mode = "none" /\ registered = FALSE /\ flush_level = "off"
  /\ step = [p \in Producers |-> "idle"] /\ item = [p \in Producers |-> Nothing]
  /\ worker = "none" /\ hand = Nothing
  /\ flusher = "none" /\ active_ = FALSE
  /\ logs = [t \in Threads |-> 0]
  /\ written = << >> /\ disk = 0 /\ accepted = << >>

IsMessage(i) == i.kind = "log"
HoldsLogger(i) == i.kind \in {"log", "flush"}

(* An item on its way to the worker refers to the logger. *)
ReferredOnTheWay ==
  \/ \E i \in DOMAIN Queued : HoldsLogger(Queued[i])
  \/ \E p \in Producers : HoldsLogger(item[p])

-------------------------------------------------------------------------------
(* The constructor.  When the file cannot be opened it stops half way and   *)
(* spdlog's default logger, which writes to the console, stays.             *)

(* Mutant: flush_on is called before the logger is the default logger. *)
ConstructFlushOnEarly ==
  /\ main = "construct" /\ main' = "run"
  /\ mode' \in {"async", "sync"}
  /\ registered' = TRUE
  /\ worker' = IF mode' = "async" THEN "dequeue" ELSE "none"
  /\ flusher' = "waiting" /\ active_' = TRUE
  /\ UNCHANGED <<queueVars, callVars, hand, fileVars, logs, flush_level>>

(* Mutant: the logger is not flushed periodically. *)
ConstructNoFlushEvery ==
  /\ main = "construct" /\ main' = "run"
  /\ mode' \in {"async", "sync"}
  /\ registered' = TRUE /\ flush_level' = "warn"
  /\ worker' = IF mode' = "async" THEN "dequeue" ELSE "none"
  /\ UNCHANGED <<queueVars, callVars, hand, fileVars, logs, flusherVars>>

Construct ==
  /\ main = "construct" /\ main' = "run"
  /\ \/ /\ mode' \in {"async", "sync"}
        /\ registered' = TRUE /\ flush_level' = "warn"
        /\ worker' = IF mode' = "async" THEN "dequeue" ELSE "none"
        /\ flusher' = "waiting" /\ active_' = TRUE
     \/ /\ mode' = "console"
        /\ UNCHANGED <<registered, flush_level, worker, flusherVars>>
  /\ UNCHANGED <<queueVars, callVars, hand, fileVars, logs>>

-------------------------------------------------------------------------------
(* Log calls, flush requests and the terminate message. *)

Post(p, i) ==
  /\ step' = [step EXCEPT ![p] = "post"]
  /\ item' = [item EXCEPT ![p] = i]

Return(p) ==
  /\ step' = [step EXCEPT ![p] = "idle"]
  /\ item' = [item EXCEPT ![p] = Nothing]

Message(t, level) == [kind |-> "log", by |-> t, n |-> logs[t], level |-> level]

Log(t) ==
  /\ main = "run" /\ mode # "console"
  /\ step[t] = "idle" /\ logs[t] < MaxLogs
  /\ \E level \in {"info", "warn"} : Post(t, Message(t, level))
  /\ logs' = [logs EXCEPT ![t] = @ + 1]
  /\ UNCHANGED <<queueVars, main, mode, registered, flush_level,
                 poolVars, flusherVars, fileVars>>

Accept(m) == accepted' = Append(accepted, m)

(* The asynchronous logger posts to the pool; the policy is to block. *)
post_async_msg(p) ==
  /\ mode = "async"
  /\ \/ /\ step[p] = "post" /\ p \notin pop_cv_
        /\ \/ /\ enqueue(p, item[p])
              /\ step' = [step EXCEPT ![p] = "notify"]
              /\ item' = [item EXCEPT ![p] = Nothing]
              /\ IF IsMessage(item[p]) THEN Accept(item[p]) ELSE UNCHANGED accepted
           \/ WaitForRoom(p) /\ UNCHANGED <<callVars, accepted>>
     \/ step[p] = "notify" /\ NotifyPush /\ Return(p) /\ UNCHANGED accepted
  /\ UNCHANGED <<mainVars, poolVars, flusherVars, written, disk>>

(* fwrite. *)
Write(m) == written' = Append(written, m) /\ UNCHANGED disk

Flush == disk' = Len(written) /\ UNCHANGED <<written, accepted>>

should_flush(m) == m.level = "warn" /\ flush_level = "warn"

(* The synchronous logger uses the sink in the caller's thread. *)
sink_it(t) ==
  /\ mode = "sync"
  /\ \/ /\ step[t] = "post"
        /\ Write(item[t]) /\ Accept(item[t])
        /\ IF should_flush(item[t])
           THEN step' = [step EXCEPT ![t] = "flush"] /\ UNCHANGED item
           ELSE Return(t)
     \/ step[t] = "flush" /\ Flush /\ Return(t)
  /\ UNCHANGED <<queueVars, mainVars, poolVars, flusherVars>>

-------------------------------------------------------------------------------
(* The worker: process_next_msg. *)

Dequeue ==
  /\ worker = "dequeue" /\ "worker" \notin push_cv_
  /\ \/ dequeue_for("worker", hand') /\ worker' = "notify"
     \/ WaitForItem("worker") /\ UNCHANGED poolVars
  /\ UNCHANGED <<mainVars, callVars, flusherVars, fileVars>>

Dequeued ==
  /\ worker = "notify" /\ worker' = hand.kind
  /\ NotifyPop
  /\ UNCHANGED <<hand, mainVars, callVars, flusherVars, fileVars>>

backend_sink_it ==
  /\ worker = "log"
  /\ Write(hand) /\ UNCHANGED accepted
  /\ worker' = IF should_flush(hand) THEN "flush" ELSE "release"
  /\ UNCHANGED <<queueVars, hand, mainVars, callVars, flusherVars>>

backend_flush ==
  /\ worker = "flush" /\ worker' = "release"
  /\ Flush
  /\ UNCHANGED <<queueVars, hand, mainVars, callVars, flusherVars>>

(* The item goes out of scope, and with it perhaps the logger. *)
Release ==
  /\ worker = "release" /\ worker' = "dequeue"
  /\ hand' = Nothing
  /\ IF registered \/ ReferredOnTheWay THEN UNCHANGED fileVars ELSE Flush
  /\ UNCHANGED <<queueVars, mainVars, callVars, flusherVars>>

(* Nothing behind the terminate message is looked at. *)
Terminate ==
  /\ worker = "terminate" /\ worker' = "ended"
  /\ hand' = Nothing
  /\ UNCHANGED <<queueVars, mainVars, callVars, flusherVars, fileVars>>

Worker ==
  \/ Dequeue \/ Dequeued \/ backend_sink_it \/ backend_flush \/ Release \/ Terminate

-------------------------------------------------------------------------------
(* The flusher.  While flush_all runs it holds its own mutex and that of    *)
(* the registry's map, also when it has to wait for room in the queue.      *)

FlushAllRuns == flusher = "flush_all"

(* Bound: two seconds are enough for the worker to get to the last request. *)
TwoSecondsPass ==
  /\ hand.kind # "flush"
  /\ \A i \in DOMAIN Queued : Queued[i].kind # "flush"

(* The wait ends by the time, or at once when the destructor ends it. *)
FlusherWaits ==
  /\ flusher = "waiting"
  /\ active_ => TwoSecondsPass
  /\ flusher' = IF active_ THEN "flush_all" ELSE "ended"
  /\ IF active_ /\ registered /\ mode = "async"
     THEN Post("flusher", FlushItem)
     ELSE UNCHANGED callVars
  /\ UNCHANGED <<queueVars, mainVars, poolVars, active_, fileVars>>

FlushAllEnds ==
  /\ FlushAllRuns /\ step["flusher"] = "idle"
  /\ flusher' = "waiting"
  /\ IF registered /\ mode = "sync" THEN Flush ELSE UNCHANGED fileVars
  /\ UNCHANGED <<queueVars, mainVars, callVars, poolVars, active_>>

-------------------------------------------------------------------------------
(* The destructor, at exit. *)

Goes(from, to) == main = from /\ main' = to

(* The other threads have ended.  The destructor logs. *)
Exit ==
  /\ Goes("run", "drop_all")
  /\ \A t \in Threads : step[t] = "idle"
  /\ IF mode = "console" THEN UNCHANGED callVars ELSE Post(Main, Message(Main, "info"))
  /\ UNCHANGED <<queueVars, mode, registered, flush_level, logs,
                 poolVars, flusherVars, fileVars>>

drop_all ==
  /\ Goes("drop_all", "stop_flusher") /\ step[Main] = "idle"
  /\ ~FlushAllRuns
  /\ registered' = FALSE
  /\ IF HoldsLogger(hand) \/ ReferredOnTheWay THEN UNCHANGED fileVars ELSE Flush
  /\ UNCHANGED <<queueVars, mode, flush_level, logs, callVars, poolVars, flusherVars>>

(* ~periodic_worker: it sets the flag under the flusher's mutex and joins;  *)
(* then drop_all once more, which finds nothing.                            *)
StopFlusher ==
  /\ \/ Goes("stop_flusher", "join_flusher") /\ ~FlushAllRuns /\ active_' = FALSE
     \/ Goes("join_flusher", "reset_pool") /\ flusher \in {"none", "ended"}
          /\ UNCHANGED active_
  /\ UNCHANGED <<queueVars, mode, registered, flush_level, logs,
                 callVars, poolVars, flusher, fileVars>>

(* Mutant: the pool's thread is not waited for. *)
ResetPoolDetached ==
  /\ Goes("reset_pool", "done")
  /\ UNCHANGED <<queueVars, mode, registered, flush_level, logs,
                 callVars, poolVars, flusherVars, fileVars>>

(* ~thread_pool posts a terminate message and joins. *)
ResetPool ==
  /\ \/ Goes("reset_pool", "join") /\ mode = "async" /\ Post(Main, TerminateItem)
     \/ Goes("reset_pool", "done") /\ mode # "async" /\ UNCHANGED callVars
     \/ Goes("join", "done") /\ worker = "ended" /\ UNCHANGED callVars
  /\ UNCHANGED <<queueVars, mode, registered, flush_level, logs,
                 poolVars, flusherVars, fileVars>>

Destructor == drop_all \/ StopFlusher \/ ResetPool

-------------------------------------------------------------------------------
Alive == main \notin {"done", "killed"}

Kill ==
  /\ main' = "killed"
  /\ UNCHANGED <<queueVars, mode, registered, flush_level, logs,
                 callVars, poolVars, flusherVars, fileVars>>

(* stdio writes out some of what it has when its buffer is full. *)
Spill ==
  /\ disk < Len(written) /\ disk' = disk + 1
  /\ UNCHANGED <<queueVars, mainVars, callVars, poolVars, flusherVars, written, accepted>>

SleeperWakesUp == WakeUp /\ UNCHANGED <<mainVars, callVars, poolVars, flusherVars, fileVars>>

Caller(p) == post_async_msg(p) \/ sink_it(p)
Flusher == FlusherWaits \/ FlushAllEnds

Next ==
  \/ Alive /\ \/ Construct
              \/ \E t \in Threads : Log(t)
              \/ \E p \in Producers : Caller(p)
              \/ Worker \/ Flusher
              \/ Exit \/ Destructor
              \/ Spill \/ SleeperWakesUp \/ Kill
  \/ ~Alive /\ UNCHANGED vars

(* Each thread is scheduled, and the flusher's two seconds pass; who keeps  *)
(* finding a mutex free or room in the queue in between gets it in the end. *)
(* No thread has to log, Main need not exit, and no sleeper wakes up but by *)
(* a notify.                                                                *)
Spec ==
  /\ Init /\ [][Next]_vars
  /\ \A p \in Producers : /\ WF_vars(Alive /\ Caller(p))
                          /\ SF_vars(Alive /\ Caller(p) /\ step'[p] # step[p])
  /\ WF_vars(Alive /\ Worker)
  /\ WF_vars(Alive /\ Flusher)
  /\ SF_vars(Alive /\ Destructor)

-------------------------------------------------------------------------------
(* Every variable keeps its type; the queue never overruns, and only items  *)
(* lie between its two indices.                                             *)
TypeOK ==
  /\ QueueTypeOK
  /\ main \in {"construct", "run", "drop_all", "stop_flusher", "join_flusher",
               "reset_pool", "join", "done", "killed"}
  /\ mode \in {"none", "async", "sync", "console"}
  /\ registered \in BOOLEAN /\ flush_level \in {"off", "warn"}
  /\ step \in [Producers -> {"idle", "post", "notify", "flush"}]
  /\ item \in [Producers -> LogItems \cup {Nothing}]
  /\ worker \in {"none", "dequeue", "notify", "log", "flush", "terminate", "release", "ended"}
  /\ hand \in LogItems \cup {Nothing}
  /\ flusher \in {"none", "waiting", "flush_all", "ended"}
  /\ active_ \in BOOLEAN
  /\ logs \in [Threads -> 0 .. MaxLogs]
  /\ written \in Seq(Messages) /\ disk \in 0 .. Len(written)
  /\ accepted \in Seq(Messages)

(* The log file implements the abstract recorder: no message that was       *)
(* accepted is lost, reordered or repeated between the queue's two indices, *)
(* the worker and the file, and when the destructor is done all of them are *)
(* on the disk, the destructor's own message included, whoever closed the   *)
(* file.  A killed process leaves a prefix.                                 *)
LogFile == INSTANCE Recording WITH
  MayRefuse <- FALSE,
  heard <- accepted, saved <- SubSeq(written, 1, disk), sealed <- (main = "done")

ImplementsRecording == LogFile!Spec

(* A warning that was written is on the disk, with all that was written     *)
(* before it, unless the thread that wrote it is about to flush: flush_on   *)
(* reaches the logger that init made, in both modes.                        *)
WarningsReachDisk ==
  \A i \in DOMAIN written :
    written[i].level = "warn" =>
      \/ i <= disk
      \/ worker = "flush" /\ hand = written[i]
      \/ \E t \in Threads : step[t] = "flush" /\ item[t] = written[i]

(* What was written gets to the disk though nothing else is logged and      *)
(* nobody exits: the flusher's request gets through the queue, also when it *)
(* was full.                                                                *)
WrittenReachesDisk ==
  \A n \in 1 .. MaxLogs * Cardinality(Threads) + 1 :
    (Len(written) >= n) ~> (disk >= n \/ main = "killed")

(* The destructor comes to its end: Main waits for the map that the flusher *)
(* holds, for the flusher and for the worker, while the flusher and Main    *)
(* itself may wait for room in the queue and nobody sleeps for ever.        *)
ShutdownEnds == (main = "drop_all") ~> (main \in {"done", "killed"})
===============================================================================
