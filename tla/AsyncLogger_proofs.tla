--------------------------- MODULE AsyncLogger_proofs --------------------------
(***************************************************************************)
(* Proofs about AsyncLogger, for every set of threads, every number of log *)
(* calls and every size of the queue.                                      *)
(***************************************************************************)
EXTENDS AsyncLogger, SequenceTheorems, TLAPS

(* What the kinds of the items say. *)
LEMMA Kinds ==
  /\ \A i \in LogItems : i.kind \in {"log", "flush", "terminate"}
  /\ \A i \in LogItems : i.kind = "log" => i \in Messages
  /\ \A i \in Messages : i.kind = "log"
  /\ Nothing \notin LogItems
  /\ FlushItem \in LogItems /\ TerminateItem \in LogItems
  /\ FlushItem.kind = "flush" /\ TerminateItem.kind = "terminate"
BY DEF LogItems, Messages, FlushItem, TerminateItem, Nothing, Moved

LEMMA NewMessage ==
  ASSUME logs \in [Threads -> 0 .. MaxLogs], NEW t \in Threads,
         NEW level \in {"info", "warn"}
  PROVE  Message(t, level) \in Messages
BY DEF Message, Messages

-------------------------------------------------------------------------------
(* The circular array: the slots between its two indices hold items. *)

Slots == 0 .. QueueSize

(* Slot i is between the front and the end. *)
Between(i) ==
  IF head_ <= tail_ THEN head_ <= i /\ i < tail_ ELSE head_ <= i \/ i < tail_

QueueInv ==
  /\ v_ \in [Slots -> LogItems \cup {Nothing}]
  /\ head_ \in Slots /\ tail_ \in Slots
  /\ overrun_counter_ = 0
  /\ \A i \in Slots : Between(i) => v_[i] \in LogItems

LEMMA AfterIs ==
  \A i \in Slots : After(i) = (IF i = QueueSize THEN 0 ELSE i + 1)
BY QueueAssumption DEF After, max_items_, Slots

(* The items from front to back are the slots between the indices. *)
LEMMA QueuedAreBetween ==
  ASSUME QueueInv, NEW i \in DOMAIN Queued
  PROVE  /\ i \in 1 .. size
         /\ (head_ + i - 1) % max_items_ \in Slots
         /\ Between((head_ + i - 1) % max_items_)
         /\ Queued[i] = v_[(head_ + i - 1) % max_items_]
<1> DEFINE a == head_ + i - 1
<1>1. i \in 1 .. size /\ Queued[i] = v_[a % max_items_]
  BY DEF Queued
<1>2. /\ a \in Nat /\ max_items_ = QueueSize + 1
      /\ head_ <= a
      /\ head_ <= tail_ => a < tail_
      /\ tail_ < head_ => a < tail_ + max_items_
  BY <1>1, QueueAssumption DEF QueueInv, Slots, size, max_items_
<1>3. a % max_items_ = (IF a < max_items_ THEN a ELSE a - max_items_)
  <2>1. a < 2 * max_items_
    BY <1>2, QueueAssumption DEF QueueInv, Slots
  <2> HIDE DEF a
  <2> QED
    BY <1>2, <2>1, QueueAssumption
<1>4. a % max_items_ \in Slots /\ Between(a % max_items_)
  <2> HIDE DEF a
  <2> QED
    BY <1>2, <1>3, QueueAssumption DEF QueueInv, Slots, Between
<1> QED
  BY <1>1, <1>4

LEMMA QueuedItems ==
  ASSUME QueueInv
  PROVE  \A i \in DOMAIN Queued : Queued[i] \in LogItems
BY QueuedAreBetween DEF QueueInv

LEMMA FrontIsItem ==
  ASSUME QueueInv, ~empty
  PROVE  front \in LogItems
BY DEF QueueInv, empty, front, Between, Slots

LEMMA EnqueueKeeps ==
  ASSUME QueueInv, NEW p, NEW i \in LogItems, enqueue(p, i)
  PROVE  QueueInv'
<1>1. /\ tail_' = After(tail_) /\ After(tail_) # head_
      /\ v_' = [v_ EXCEPT ![tail_] = i]
      /\ head_' = head_ /\ overrun_counter_' = overrun_counter_
  BY DEF enqueue, push_back, full
<1>2. tail_' \in Slots
  BY <1>1, AfterIs, QueueAssumption DEF QueueInv, Slots
<1>3. \A j \in Slots : Between(j)' => j = tail_ \/ Between(j)
  BY <1>1, AfterIs, QueueAssumption DEF QueueInv, Slots, Between
<1> QED
  BY <1>1, <1>2, <1>3 DEF QueueInv

LEMMA DequeueKeeps ==
  ASSUME QueueInv, NEW p, NEW i, dequeue_for(p, i)
  PROVE  QueueInv' /\ i \in LogItems
<1>1. /\ head_' = After(head_) /\ tail_' = tail_ /\ tail_ # head_
      /\ v_' = [v_ EXCEPT ![head_] = Nothing]
      /\ overrun_counter_' = overrun_counter_
      /\ i = front
  BY DEF dequeue_for, pop_front, empty, Nothing
<1>2. head_' \in Slots
  BY <1>1, AfterIs, QueueAssumption DEF QueueInv, Slots
<1>3. \A j \in Slots : Between(j)' => j # head_ /\ Between(j)
  BY <1>1, AfterIs, QueueAssumption DEF QueueInv, Slots, Between
<1> QED
  BY <1>1, <1>2, <1>3, FrontIsItem DEF QueueInv, dequeue_for

LEMMA SameQueueKeeps ==
  ASSUME QueueInv, UNCHANGED <<v_, head_, tail_, overrun_counter_>>
  PROVE  QueueInv'
BY DEF QueueInv, Between

-------------------------------------------------------------------------------
(* The inductive invariant.  TypeOK alone is not preserved: what a thread   *)
(* posts and what the worker has in hand must be items, and messages where  *)
(* they get into the file.                                                  *)

ControlInv ==
  /\ main \in {"construct", "run", "drop_all", "stop_flusher", "join_flusher",
               "reset_pool", "join", "done", "killed"}
  /\ mode \in {"none", "async", "sync", "console"}
  /\ registered \in BOOLEAN /\ flush_level \in {"off", "warn"}
  /\ flusher \in {"none", "waiting", "flush_all", "ended"}
  /\ active_ \in BOOLEAN
  /\ logs \in [Threads -> 0 .. MaxLogs]
  /\ main = "construct" => mode = "none"
  /\ mode = "none" => main \in {"construct", "killed"}
  /\ mode \in {"async", "sync"} => flush_level = "warn"

CallInv ==
  /\ step \in [Producers -> {"idle", "post", "notify", "flush"}]
  /\ item \in [Producers -> LogItems \cup {Nothing}]
  /\ mode = "none" => \A p \in Producers : step[p] = "idle"
  /\ mode # "async" => step["flusher"] = "idle"
  /\ \A p \in Producers :
       /\ step[p] = "post" => item[p] \in LogItems
       /\ mode = "sync" /\ step[p] = "post" => item[p] \in Messages
       /\ step[p] = "flush" => mode = "sync"

PoolInv ==
  /\ worker \in {"none", "dequeue", "notify", "log", "flush", "terminate", "release", "ended"}
  /\ hand \in LogItems \cup {Nothing}
  /\ worker = "notify" => hand \in LogItems
  /\ worker = "log" => hand \in Messages
  /\ mode # "async" => worker = "none"

FileInv ==
  /\ written \in Seq(Messages)
  /\ disk \in Nat /\ disk <= Len(written)

AcceptedInv == accepted \in Seq(Messages)

TypeInv == QueueInv /\ ControlInv /\ CallInv /\ PoolInv /\ FileInv /\ AcceptedInv

LEMMA TypeInvImplies ==
  ASSUME TypeInv
  PROVE  TypeOK
<1>1. QueueTypeOK
  BY QueuedItems, LoggerAssumption
     DEF TypeInv, QueueInv, QueueTypeOK, Slots, Nothing
<1> QED
  BY <1>1, LenProperties DEF TypeInv, TypeOK, ControlInv, CallInv, PoolInv, FileInv, AcceptedInv

LEMMA InitTypeInv == Init => TypeInv
<1> SUFFICES ASSUME Init PROVE TypeInv
  OBVIOUS
<1>1. QueueInv
  BY QueueAssumption DEF Init, QueueInit, QueueInv, Slots, Between, Nothing
<1>2. ControlInv
  <2>1. 0 \in 0 .. MaxLogs
    BY LoggerAssumption
  <2>2. logs \in [Threads -> 0 .. MaxLogs]
    BY <2>1 DEF Init
  <2> QED
    BY <2>2 DEF Init, ControlInv
<1>3. CallInv
  BY DEF Init, CallInv, Producers
<1>4. PoolInv
  BY DEF Init, PoolInv
<1>5. FileInv /\ AcceptedInv
  <2>1. written \in Seq(Messages) /\ Len(written) = 0 /\ disk = 0 /\ accepted \in Seq(Messages)
    BY EmptySeq DEF Init
  <2> QED
    BY <2>1 DEF FileInv, AcceptedInv
<1> QED
  BY <1>1, <1>2, <1>3, <1>4, <1>5 DEF TypeInv

-------------------------------------------------------------------------------
(* Steps that leave a part of the state alone, and the file's operations. *)

LEMMA WriteKeeps ==
  ASSUME FileInv, NEW m \in Messages, Write(m)
  PROVE  /\ FileInv'
         /\ disk' = disk
         /\ Len(written') = Len(written) + 1
         /\ \A i \in 1 .. Len(written) : written'[i] = written[i]
         /\ written'[Len(written) + 1] = m
BY AppendProperties, LenProperties DEF FileInv, Write

LEMMA FlushKeeps ==
  ASSUME FileInv, Flush
  PROVE  FileInv' /\ written' = written /\ disk' = Len(written')
BY LenProperties DEF FileInv, Flush

LEMMA PostKeeps ==
  ASSUME CallInv, NEW p \in Producers, NEW i \in LogItems, Post(p, i),
         mode' = mode, mode # "none",
         mode = "sync" => i \in Messages,
         p = "flusher" => mode = "async"
  PROVE  CallInv'
BY DEF CallInv, Post

LEMMA ReturnKeeps ==
  ASSUME CallInv, NEW p \in Producers, Return(p), mode' = mode
  PROVE  CallInv'
BY DEF CallInv, Return

LEMMA Same ==
  ASSUME TypeInv
  PROVE  /\ UNCHANGED queueVars => QueueInv'
         /\ UNCHANGED <<mainVars, flusherVars>> => ControlInv'
         /\ UNCHANGED <<callVars, mode>> => CallInv'
         /\ UNCHANGED <<poolVars, mode>> => PoolInv'
         /\ UNCHANGED fileVars => FileInv' /\ AcceptedInv'
         /\ UNCHANGED accepted => AcceptedInv'
         /\ Flush => AcceptedInv'
<1>1. UNCHANGED queueVars => QueueInv'
  BY SameQueueKeeps DEF TypeInv, queueVars
<1>2. UNCHANGED <<mainVars, flusherVars>> => ControlInv'
  BY DEF TypeInv, ControlInv, mainVars, flusherVars
<1>3. UNCHANGED <<callVars, mode>> => CallInv'
  BY DEF TypeInv, CallInv, callVars
<1>4. UNCHANGED <<poolVars, mode>> => PoolInv'
  BY DEF TypeInv, PoolInv, poolVars
<1>5. UNCHANGED fileVars => FileInv' /\ UNCHANGED accepted
  BY DEF TypeInv, FileInv, fileVars
<1>6. UNCHANGED accepted => AcceptedInv'
  BY DEF TypeInv, AcceptedInv
<1> QED
  BY <1>1, <1>2, <1>3, <1>4, <1>5, <1>6 DEF Flush

-------------------------------------------------------------------------------
(* Every action preserves the invariant. *)

LEMMA ConstructKeeps == TypeInv /\ Construct => TypeInv'
<1> SUFFICES ASSUME TypeInv, Construct PROVE TypeInv'
  OBVIOUS
<1>1. QueueInv' /\ FileInv' /\ AcceptedInv'
  BY Same DEF Construct
<1>2. ControlInv'
  BY DEF Construct, TypeInv, ControlInv, flusherVars
<1>3. mode = "none" /\ worker = "none" /\ \A p \in Producers : step[p] = "idle"
  BY DEF Construct, TypeInv, ControlInv, CallInv, PoolInv
<1>4. "flusher" \in Producers /\ step' = step /\ item' = item /\ hand' = hand /\ mode' # "none"
  BY DEF Construct, Producers, callVars
<1>5. CallInv'
  BY <1>3, <1>4 DEF TypeInv, CallInv
<1>6. PoolInv'
  BY <1>3, <1>4 DEF Construct, TypeInv, PoolInv
<1> QED
  BY <1>1, <1>2, <1>5, <1>6 DEF TypeInv

LEMMA AcceptKeeps ==
  ASSUME AcceptedInv, NEW m \in Messages, Accept(m)
  PROVE  AcceptedInv'
BY AppendProperties DEF AcceptedInv, Accept

LEMMA LogKeeps ==
  ASSUME TypeInv, NEW t \in Threads, Log(t)
  PROVE  TypeInv'
<1>1. QueueInv' /\ PoolInv' /\ FileInv' /\ AcceptedInv'
  BY Same DEF Log
<1>2. ControlInv'
  BY LoggerAssumption DEF Log, TypeInv, ControlInv, flusherVars
<1>3. PICK level \in {"info", "warn"} : Post(t, Message(t, level))
  BY DEF Log
<1>4. /\ Message(t, level) \in Messages /\ Messages \subseteq LogItems
      /\ t \in Producers /\ t # "flusher"
  BY NewMessage, LoggerAssumption DEF TypeInv, ControlInv, Producers, LogItems
<1>5. mode' = mode /\ mode # "none" /\ CallInv
  BY DEF Log, TypeInv, ControlInv
<1>6. CallInv'
  BY <1>3, <1>4, <1>5, PostKeeps
<1> QED
  BY <1>1, <1>2, <1>6 DEF TypeInv

LEMMA PostAsyncKeeps ==
  ASSUME TypeInv, NEW p \in Producers, post_async_msg(p)
  PROVE  TypeInv'
<1>1. /\ ControlInv' /\ PoolInv' /\ mode' = mode /\ CallInv /\ QueueInv
      /\ FileInv /\ AcceptedInv
  BY Same DEF post_async_msg, mainVars, TypeInv
<1>2. FileInv'
  BY <1>1 DEF post_async_msg, FileInv
<1>3. CASE /\ step[p] = "post" /\ enqueue(p, item[p])
           /\ step' = [step EXCEPT ![p] = "notify"]
           /\ item' = [item EXCEPT ![p] = Nothing]
           /\ IF IsMessage(item[p]) THEN Accept(item[p]) ELSE UNCHANGED accepted
  <2>1. item[p] \in LogItems /\ mode = "async"
    BY <1>1, <1>3 DEF CallInv, post_async_msg
  <2>2. QueueInv'
    BY <1>1, <1>3, <2>1, EnqueueKeeps
  <2>3. CallInv'
    BY <1>1, <1>3, <2>1 DEF CallInv
  <2>4. AcceptedInv'
    BY <1>1, <1>3, <2>1, Same, Kinds, AcceptKeeps DEF IsMessage
  <2> QED
    BY <1>1, <1>2, <2>2, <2>3, <2>4 DEF TypeInv
<1>4. CASE WaitForRoom(p) /\ UNCHANGED <<callVars, accepted>>
  BY <1>1, <1>2, <1>4, Same, SameQueueKeeps DEF WaitForRoom, TypeInv
<1>5. CASE NotifyPush /\ Return(p) /\ UNCHANGED accepted
  BY <1>1, <1>2, <1>5, Same, ReturnKeeps, SameQueueKeeps DEF NotifyPush, TypeInv
<1> QED
  BY <1>3, <1>4, <1>5 DEF post_async_msg

LEMMA SinkItKeeps ==
  ASSUME TypeInv, NEW p \in Producers, sink_it(p)
  PROVE  TypeInv'
<1>1. /\ QueueInv' /\ ControlInv' /\ PoolInv' /\ mode' = mode /\ mode = "sync"
      /\ CallInv /\ FileInv /\ AcceptedInv
  BY Same DEF sink_it, mainVars, TypeInv
<1>2. CASE step[p] = "post" /\ Write(item[p]) /\ Accept(item[p])
  <2>1. FileInv' /\ AcceptedInv'
    BY <1>1, <1>2, WriteKeeps, AcceptKeeps DEF CallInv
  <2>2. ASSUME step' = [step EXCEPT ![p] = "flush"], UNCHANGED item PROVE CallInv'
    BY <1>1, <1>2, <2>2 DEF CallInv
  <2>3. (step' = [step EXCEPT ![p] = "flush"] /\ UNCHANGED item) \/ Return(p)
    BY <1>2 DEF sink_it
  <2> QED
    BY <1>1, <2>1, <2>2, <2>3, ReturnKeeps DEF TypeInv
<1>3. CASE Flush /\ Return(p)
  BY <1>1, <1>3, Same, FlushKeeps, ReturnKeeps DEF TypeInv
<1> QED
  BY <1>2, <1>3 DEF sink_it

LEMMA WorkerKeeps == TypeInv /\ Worker => TypeInv'
<1> SUFFICES ASSUME TypeInv, Worker PROVE TypeInv'
  OBVIOUS
<1>1. /\ ControlInv' /\ CallInv' /\ mode' = mode /\ QueueInv /\ PoolInv /\ FileInv
      /\ AcceptedInv'
  BY Same DEF Worker, Dequeue, Dequeued, backend_sink_it, backend_flush, Release, Terminate,
              mainVars, TypeInv
<1>2. CASE Dequeue
  <2>1. FileInv'
    BY <1>2, Same DEF Dequeue
  <2>2. CASE dequeue_for("worker", hand') /\ worker' = "notify"
    <3>1. QueueInv' /\ hand' \in LogItems
      BY <1>1, <2>2, DequeueKeeps
    <3>2. mode = "async"
      BY <1>1, <1>2 DEF Dequeue, PoolInv
    <3>3. PoolInv'
      BY <1>1, <2>2, <3>1, <3>2 DEF PoolInv
    <3> QED
      BY <1>1, <2>1, <3>1, <3>3 DEF TypeInv
  <2>3. CASE WaitForItem("worker") /\ UNCHANGED poolVars
    BY <1>1, <2>1, <2>3, Same, SameQueueKeeps DEF WaitForItem, TypeInv
  <2> QED
    BY <1>2, <2>2, <2>3 DEF Dequeue
<1>3. CASE Dequeued
  <2>1. QueueInv' /\ FileInv'
    BY <1>1, <1>3, Same, SameQueueKeeps DEF Dequeued, NotifyPop
  <2>2. hand' = hand /\ hand \in LogItems /\ worker' = hand.kind /\ mode = "async"
    BY <1>1, <1>3 DEF Dequeued, PoolInv
  <2>3. PoolInv'
    BY <1>1, <2>2, Kinds DEF PoolInv
  <2> QED
    BY <1>1, <2>1, <2>3 DEF TypeInv
<1>4. CASE backend_sink_it
  <2>1. QueueInv' /\ hand' = hand /\ mode = "async" /\ hand \in Messages
    BY <1>1, <1>4, Same DEF backend_sink_it, PoolInv
  <2>2. FileInv'
    BY <1>1, <1>4, <2>1, WriteKeeps DEF backend_sink_it
  <2>3. PoolInv'
    BY <1>1, <1>4, <2>1 DEF backend_sink_it, PoolInv
  <2> QED
    BY <1>1, <2>1, <2>2, <2>3 DEF TypeInv
<1>5. CASE backend_flush \/ Release \/ Terminate
  <2>1. QueueInv'
    BY <1>5, Same DEF backend_flush, Release, Terminate
  <2>2. FileInv'
    BY <1>1, <1>5, Same, FlushKeeps DEF backend_flush, Release, Terminate
  <2>3. PoolInv'
    BY <1>1, <1>5 DEF backend_flush, Release, Terminate, PoolInv
  <2> QED
    BY <1>1, <2>1, <2>2, <2>3 DEF TypeInv
<1> QED
  BY <1>2, <1>3, <1>4, <1>5 DEF Worker

LEMMA FlusherKeeps == TypeInv /\ Flusher => TypeInv'
<1> SUFFICES ASSUME TypeInv, Flusher PROVE TypeInv'
  OBVIOUS
<1>1. QueueInv' /\ PoolInv' /\ mode' = mode /\ CallInv /\ FileInv /\ AcceptedInv'
  BY Same DEF Flusher, FlusherWaits, FlushAllEnds, mainVars, TypeInv
<1>2. ControlInv'
  BY DEF Flusher, FlusherWaits, FlushAllEnds, mainVars, TypeInv, ControlInv
<1>3. CallInv'
  <2>1. CASE Post("flusher", FlushItem) /\ mode = "async"
    BY <1>1, <2>1, PostKeeps, Kinds DEF Producers
  <2>2. CASE UNCHANGED callVars
    BY <1>1, <2>2, Same
  <2> QED
    BY <2>1, <2>2 DEF Flusher, FlusherWaits, FlushAllEnds
<1>4. FileInv'
  BY <1>1, Same, FlushKeeps DEF Flusher, FlusherWaits, FlushAllEnds
<1> QED
  BY <1>1, <1>2, <1>3, <1>4 DEF TypeInv

LEMMA ExitKeeps == TypeInv /\ Exit => TypeInv'
<1> SUFFICES ASSUME TypeInv, Exit PROVE TypeInv'
  OBVIOUS
<1>1. /\ QueueInv' /\ PoolInv' /\ FileInv' /\ AcceptedInv'
      /\ mode' = mode /\ CallInv /\ mode # "none"
  BY Same DEF Exit, Goes, TypeInv, ControlInv
<1>2. ControlInv'
  BY DEF Exit, Goes, flusherVars, TypeInv, ControlInv
<1>3. CASE Post(Main, Message(Main, "info"))
  <2>1. /\ Message(Main, "info") \in Messages /\ Messages \subseteq LogItems
        /\ Main \in Producers /\ Main # "flusher"
    BY NewMessage, LoggerAssumption DEF TypeInv, ControlInv, Producers, LogItems
  <2> QED
    BY <1>1, <1>2, <1>3, <2>1, PostKeeps DEF TypeInv
<1>4. CASE UNCHANGED callVars
  BY <1>1, <1>2, <1>4, Same DEF TypeInv
<1> QED
  BY <1>3, <1>4 DEF Exit

LEMMA DestructorKeeps == TypeInv /\ Destructor => TypeInv'
<1> SUFFICES ASSUME TypeInv, Destructor PROVE TypeInv'
  OBVIOUS
<1>1. /\ QueueInv' /\ PoolInv' /\ mode' = mode /\ CallInv /\ FileInv /\ mode # "none"
      /\ AcceptedInv'
  BY Same DEF Destructor, drop_all, StopFlusher, ResetPool, Goes, TypeInv, ControlInv
<1>2. ControlInv'
  BY DEF Destructor, drop_all, StopFlusher, ResetPool, Goes, flusherVars, TypeInv, ControlInv
<1>3. FileInv'
  BY <1>1, Same, FlushKeeps DEF Destructor, drop_all, StopFlusher, ResetPool
<1>4. CallInv'
  <2>1. CASE Post(Main, TerminateItem) /\ mode = "async"
    <3>1. Main \in Producers /\ Main # "flusher"
      BY LoggerAssumption DEF Producers
    <3> QED
      BY <1>1, <2>1, <3>1, PostKeeps, Kinds
  <2>2. CASE UNCHANGED callVars
    BY <1>1, <2>2, Same
  <2> QED
    BY <2>1, <2>2 DEF Destructor, drop_all, StopFlusher, ResetPool, callVars
<1> QED
  BY <1>1, <1>2, <1>3, <1>4 DEF TypeInv

LEMMA EnvironmentKeeps == TypeInv /\ (Spill \/ SleeperWakesUp \/ Kill) => TypeInv'
<1> SUFFICES ASSUME TypeInv, Spill \/ SleeperWakesUp \/ Kill PROVE TypeInv'
  OBVIOUS
<1>1. CASE Spill
  <2>1. FileInv'
    BY <1>1, LenProperties DEF Spill, TypeInv, FileInv
  <2> QED
    BY <1>1, <2>1, Same DEF Spill, mainVars, TypeInv
<1>2. CASE SleeperWakesUp
  <2>1. QueueInv'
    BY <1>2, SameQueueKeeps DEF SleeperWakesUp, WakeUp, TypeInv
  <2> QED
    BY <1>2, <2>1, Same DEF SleeperWakesUp, mainVars, TypeInv
<1>3. CASE Kill
  <2>1. ControlInv'
    BY <1>3 DEF Kill, flusherVars, TypeInv, ControlInv
  <2> QED
    BY <1>3, <2>1, Same DEF Kill, TypeInv
<1> QED
  BY <1>1, <1>2, <1>3

LEMMA NextKeepsTypeInv == TypeInv /\ [Next]_vars => TypeInv'
<1> SUFFICES ASSUME TypeInv, [Next]_vars PROVE TypeInv'
  OBVIOUS
<1>1. CASE UNCHANGED vars
  BY <1>1, Same DEF vars, mainVars, TypeInv
<1>2. CASE \E p \in Producers : Caller(p)
  BY <1>2, PostAsyncKeeps, SinkItKeeps DEF Caller
<1> QED
  BY <1>1, <1>2, ConstructKeeps, LogKeeps, WorkerKeeps, FlusherKeeps, ExitKeeps,
     DestructorKeeps, EnvironmentKeeps
     DEF Next

(* Every variable keeps its type: the blocking queue never overruns, only   *)
(* items lie between its two indices, only messages get into the file, and  *)
(* no more of it is on the disk than was written.                           *)
THEOREM TypeCorrect == Spec => []TypeOK
<1>1. Spec => []TypeInv
  BY InitTypeInv, NextKeepsTypeInv, PTL DEF Spec
<1>2. TypeInv => TypeOK
  BY TypeInvImplies
<1> QED
  BY <1>1, <1>2, PTL

-------------------------------------------------------------------------------
(* The warnings.  Of the steps only the two writes and the two flushes that *)
(* follow them touch what WarningsReachDisk speaks of.                      *)

LEMMA UndisturbedWarnings ==
  ASSUME FileInv, FileInv', WarningsReachDisk,
         written' = written, disk <= disk',
         worker = "flush" => worker' = "flush" /\ hand' = hand,
         \A t \in Threads :
           step[t] = "flush" => step'[t] = "flush" /\ item'[t] = item[t]
  PROVE  WarningsReachDisk'
<1> SUFFICES ASSUME NEW i \in DOMAIN written, written[i].level = "warn"
             PROVE  \/ i <= disk'
                    \/ worker' = "flush" /\ hand' = written[i]
                    \/ \E t \in Threads : step'[t] = "flush" /\ item'[t] = written[i]
  BY DEF WarningsReachDisk
<1>1. i \in Nat /\ disk \in Nat /\ disk' \in Nat
  BY LenProperties DEF FileInv
<1>2. CASE i <= disk
  BY <1>1, <1>2
<1>3. CASE worker = "flush" /\ hand = written[i]
  BY <1>3
<1>4. CASE \E t \in Threads : step[t] = "flush" /\ item[t] = written[i]
  BY <1>4
<1> QED
  BY <1>2, <1>3, <1>4 DEF WarningsReachDisk

LEMMA FlushedWarnings ==
  ASSUME FileInv, Flush
  PROVE  WarningsReachDisk'
<1>1. written' = written /\ disk' = Len(written) /\ DOMAIN written = 1 .. Len(written)
  BY LenProperties DEF FileInv, Flush
<1> QED
  BY <1>1 DEF WarningsReachDisk

(* Whoever writes a warning is about to flush it. *)
LEMMA WrittenWarnings ==
  ASSUME FileInv, WarningsReachDisk, NEW m \in Messages, Write(m),
         worker # "flush",
         \A t \in Threads :
           step[t] = "flush" => step'[t] = "flush" /\ item'[t] = item[t],
         m.level = "warn" =>
           \/ worker' = "flush" /\ hand' = m
           \/ \E t \in Threads : step'[t] = "flush" /\ item'[t] = m
  PROVE  WarningsReachDisk'
<1> SUFFICES ASSUME NEW i \in DOMAIN written', written'[i].level = "warn"
             PROVE  \/ i <= disk'
                    \/ worker' = "flush" /\ hand' = written'[i]
                    \/ \E t \in Threads : step'[t] = "flush" /\ item'[t] = written'[i]
  BY DEF WarningsReachDisk
<1>1. /\ DOMAIN written = 1 .. Len(written) /\ Len(written) \in Nat
      /\ DOMAIN written' = 1 .. Len(written) + 1
  BY WriteKeeps, LenProperties DEF FileInv
<1>2. CASE i = Len(written) + 1
  BY <1>2, WriteKeeps
<1>3. CASE i \in DOMAIN written
  <2>1. written'[i] = written[i] /\ disk' = disk
    BY <1>1, <1>3, WriteKeeps
  <2> QED
    BY <1>3, <2>1 DEF WarningsReachDisk
<1> QED
  BY <1>1, <1>2, <1>3

LEMMA CallerKeepsWarnings ==
  ASSUME TypeInv, TypeInv', WarningsReachDisk, NEW p \in Producers, Caller(p)
  PROVE  WarningsReachDisk'
<1>1. FileInv /\ FileInv' /\ disk \in Nat
  BY DEF TypeInv, FileInv
<1>2. CASE post_async_msg(p)
  <2>1. \A t \in Threads : step[t] # "flush"
    BY <1>2 DEF post_async_msg, TypeInv, CallInv, Producers
  <2>2. UNCHANGED <<written, disk, worker, hand>>
    BY <1>2 DEF post_async_msg, poolVars, fileVars
  <2> QED
    BY <1>1, <2>1, <2>2, UndisturbedWarnings
<1>3. CASE sink_it(p) /\ step[p] = "post" /\ Write(item[p])
  <2>1. /\ mode = "sync" /\ worker' = worker /\ worker = "none" /\ flush_level = "warn"
        /\ item[p] \in Messages /\ p \in Threads
    BY <1>3 DEF sink_it, poolVars, TypeInv, ControlInv, CallInv, PoolInv, Producers
  <2>2. step \in [Producers -> {"idle", "post", "notify", "flush"}]
        /\ item \in [Producers -> LogItems \cup {Nothing}] /\ Threads \subseteq Producers
    BY DEF TypeInv, CallInv, Producers
  <2>3. CASE step' = [step EXCEPT ![p] = "flush"] /\ item' = item
    <3>1. \A t \in Threads : step[t] = "flush" => step'[t] = "flush" /\ item'[t] = item[t]
      BY <1>3, <2>2, <2>3
    <3>2. step'[p] = "flush" /\ item'[p] = item[p]
      BY <2>1, <2>2, <2>3
    <3> QED
      BY <1>1, <1>3, <2>1, <3>1, <3>2, WrittenWarnings
  <2>4. CASE Return(p) /\ ~should_flush(item[p])
    <3>1. \A t \in Threads : step[t] = "flush" => step'[t] = "flush" /\ item'[t] = item[t]
      BY <1>3, <2>2, <2>4 DEF Return
    <3>2. item[p].level # "warn"
      BY <2>1, <2>4 DEF should_flush
    <3> QED
      BY <1>1, <1>3, <2>1, <3>1, <3>2, WrittenWarnings
  <2> QED
    BY <1>3, <2>3, <2>4 DEF sink_it
<1>4. CASE Flush
  BY <1>1, <1>4, FlushedWarnings
<1> QED
  BY <1>2, <1>3, <1>4 DEF Caller, sink_it

LEMMA WorkerKeepsWarnings ==
  ASSUME TypeInv, TypeInv', WarningsReachDisk, Worker
  PROVE  WarningsReachDisk'
<1>1. /\ FileInv /\ FileInv' /\ disk \in Nat
      /\ step' = step /\ item' = item
  BY DEF TypeInv, FileInv, Worker, Dequeue, Dequeued, backend_sink_it, backend_flush,
         Release, Terminate, callVars
<1>2. CASE backend_sink_it
  <2>1. /\ mode = "async" /\ flush_level = "warn" /\ hand \in Messages /\ hand' = hand
        /\ Write(hand) /\ worker = "log"
        /\ worker' = (IF should_flush(hand) THEN "flush" ELSE "release")
    BY <1>2 DEF backend_sink_it, TypeInv, ControlInv, PoolInv
  <2>2. hand.level = "warn" => worker' = "flush" /\ hand' = hand
    BY <2>1 DEF should_flush
  <2> QED
    BY <1>1, <2>1, <2>2, WrittenWarnings
<1>3. CASE Flush
  BY <1>1, <1>3, FlushedWarnings
<1>4. CASE worker # "flush" /\ UNCHANGED fileVars
  BY <1>1, <1>4, UndisturbedWarnings DEF fileVars
<1> QED
  BY <1>2, <1>3, <1>4
     DEF Worker, Dequeue, Dequeued, backend_flush, Release, Terminate

LEMMA OthersKeepWarnings ==
  ASSUME TypeInv, TypeInv', WarningsReachDisk,
         \/ Construct \/ (\E t \in Threads : Log(t)) \/ Flusher \/ Exit \/ Destructor
         \/ Spill \/ SleeperWakesUp \/ Kill \/ UNCHANGED vars
  PROVE  WarningsReachDisk'
<1>1. FileInv /\ FileInv' /\ disk \in Nat /\ "flusher" \notin Threads
      /\ Threads \subseteq Producers /\ Main \in Threads
      /\ step \in [Producers -> {"idle", "post", "notify", "flush"}]
      /\ item \in [Producers -> LogItems \cup {Nothing}]
  BY LoggerAssumption DEF TypeInv, FileInv, CallInv, Producers
<1>2. CASE Flush
  BY <1>1, <1>2, FlushedWarnings
<1>3. CASE UNCHANGED fileVars \/ Spill
  <2>1. written' = written /\ disk <= disk'
    BY <1>1, <1>3 DEF fileVars, Spill
  <2>2. worker = "flush" => worker' = "flush" /\ hand' = hand
    BY DEF Construct, Log, Flusher, FlusherWaits, FlushAllEnds, Exit, Destructor, drop_all,
           StopFlusher, ResetPool, Spill, SleeperWakesUp, Kill, vars, poolVars,
           TypeInv, ControlInv, PoolInv
  <2>3. \A t \in Threads : step[t] = "flush" => step'[t] = "flush" /\ item'[t] = item[t]
    <3>1. CASE UNCHANGED callVars
      BY <3>1 DEF callVars
    <3>2. CASE \E t \in Threads : Log(t)
      BY <1>1, <3>2 DEF Log, Post
    <3>3. CASE Flusher /\ Post("flusher", FlushItem)
      BY <1>1, <3>3 DEF Post
    <3>4. CASE Exit
      BY <1>1, <3>4 DEF Exit, Post, callVars
    <3>5. CASE Post(Main, TerminateItem) /\ mode = "async"
      BY <1>1, <3>5 DEF TypeInv, CallInv
    <3> QED
      BY <3>1, <3>2, <3>3, <3>4, <3>5
         DEF Construct, Flusher, FlusherWaits, FlushAllEnds, Destructor, drop_all,
             StopFlusher, ResetPool, Spill, SleeperWakesUp, Kill, vars
  <2> QED
    BY <1>1, <2>1, <2>2, <2>3, UndisturbedWarnings
<1> QED
  BY <1>2, <1>3
     DEF Construct, Log, Flusher, FlusherWaits, FlushAllEnds, Exit, Destructor, drop_all,
         StopFlusher, ResetPool, SleeperWakesUp, Kill, vars

(* A warning that was written is on the disk unless the thread that wrote   *)
(* it is about to flush, in both modes and whoever else logs, posts, flushes*)
(* or shuts the logger down in between.                                     *)
THEOREM WarningsCorrect == Spec => []WarningsReachDisk
<1>1. Init => WarningsReachDisk
  BY EmptySeq DEF Init, WarningsReachDisk
<1>2. TypeInv /\ TypeInv' /\ WarningsReachDisk /\ [Next]_vars => WarningsReachDisk'
  <2> SUFFICES ASSUME TypeInv, TypeInv', WarningsReachDisk, [Next]_vars
               PROVE  WarningsReachDisk'
    OBVIOUS
  <2> QED
    BY CallerKeepsWarnings, WorkerKeepsWarnings, OthersKeepWarnings DEF Next
<1>3. Spec => []TypeInv
  BY InitTypeInv, NextKeepsTypeInv, PTL DEF Spec
<1> QED
  BY <1>1, <1>2, <1>3, PTL DEF Spec
-------------------------------------------------------------------------------
(* The queue as a sequence: what enqueue and dequeue_for make of it.         *)

LEMMA SlotOf ==
  ASSUME NEW h \in Slots, NEW j \in 1 .. QueueSize + 1
  PROVE  /\ h + j <= QueueSize + 1 => (h + j - 1) % max_items_ = h + j - 1
         /\ h + j > QueueSize + 1 => (h + j - 1) % max_items_ = h + j - 1 - (QueueSize + 1)
<1> DEFINE a == h + j - 1
           m == max_items_
           r == a % m
<1>1. /\ a \in Nat /\ m \in Nat /\ m > 0 /\ a < 2 * m /\ m = QueueSize + 1
      /\ h + j <= QueueSize + 1 <=> a < m
      /\ h + j > QueueSize + 1 <=> ~(a < m)
  BY QueueAssumption DEF Slots, max_items_
<1> HIDE DEF a, m, r
<1>2. r = (IF a < m THEN a ELSE a - m)
  BY <1>1 DEF r
<1>3. a = h + j - 1
  BY DEF a
<1>4. /\ h + j <= QueueSize + 1 => r = h + j - 1
      /\ h + j > QueueSize + 1 => r = h + j - 1 - (QueueSize + 1)
  BY <1>1, <1>2, <1>3, QueueAssumption DEF Slots
<1> QED
  BY <1>4, Zenon DEF a, m, r

LEMMA SizeFacts ==
  ASSUME QueueInv
  PROVE  /\ size \in 0 .. QueueSize
         /\ DOMAIN Queued = 1 .. size
         /\ empty <=> size = 0
         /\ front = Queued[1] \/ size = 0
<1>1. size \in 0 .. QueueSize /\ (empty <=> size = 0)
  BY QueueAssumption DEF QueueInv, Slots, size, empty, max_items_
<1>2. DOMAIN Queued = 1 .. size
  BY DEF Queued
<1>3. ASSUME size # 0 PROVE front = Queued[1]
  <2>1. 1 \in 1 .. size /\ 1 \in 1 .. QueueSize + 1 /\ head_ \in Slots
    BY <1>1, <1>3, QueueAssumption DEF QueueInv
  <2>2. (head_ + 1 - 1) % max_items_ = head_
    BY <2>1, SlotOf, QueueAssumption DEF Slots
  <2> QED
    BY <2>1, <2>2 DEF Queued, front
<1> QED
  BY <1>1, <1>2, <1>3

LEMMA EnqueueQueued ==
  ASSUME QueueInv, QueueInv', NEW p, NEW i, enqueue(p, i)
  PROVE  /\ size' = size + 1
         /\ \A j \in 1 .. size : Queued'[j] = Queued[j]
         /\ Queued'[size + 1] = i
<1>1. /\ tail_' = After(tail_) /\ After(tail_) # head_
      /\ v_' = [v_ EXCEPT ![tail_] = i]
      /\ head_' = head_ /\ head_ \in Slots /\ tail_ \in Slots
      /\ DOMAIN v_ = Slots /\ QueueSize \in Nat
  BY QueueAssumption DEF enqueue, push_back, full, QueueInv
<1>2. /\ size' = size + 1 /\ size + 1 \in 1 .. QueueSize
      /\ size = (IF tail_ >= head_ THEN tail_ - head_ ELSE QueueSize + 1 - (head_ - tail_))
  BY <1>1, AfterIs DEF Slots, size, max_items_
<1>3. ASSUME NEW j \in 1 .. size PROVE Queued'[j] = Queued[j]
  <2>1. j \in 1 .. QueueSize + 1 /\ j \in 1 .. size'
    BY <1>1, <1>2
  <2> DEFINE s == (head_ + j - 1) % max_items_
  <2>2. /\ head_ + j <= QueueSize + 1 => s = head_ + j - 1
        /\ head_ + j > QueueSize + 1 => s = head_ + j - 1 - (QueueSize + 1)
    BY <1>1, <2>1, SlotOf, Zenon
  <2>3. Queued'[j] = v_'[s] /\ Queued[j] = v_[s]
    BY <1>1, <2>1 DEF Queued, max_items_
  <2> HIDE DEF s
  <2>4. s \in Slots /\ s # tail_
    BY <1>1, <1>2, <2>1, <2>2 DEF Slots
  <2> QED
    BY <1>1, <2>3, <2>4
<1>4. Queued'[size + 1] = i
  <2> DEFINE n == size + 1
  <2>1. n \in 1 .. QueueSize + 1 /\ n \in 1 .. size' /\ n = size + 1
    BY <1>1, <1>2
  <2> HIDE DEF n
  <2> DEFINE s == (head_ + n - 1) % max_items_
  <2>2. /\ head_ + n <= QueueSize + 1 => s = head_ + n - 1
        /\ head_ + n > QueueSize + 1 => s = head_ + n - 1 - (QueueSize + 1)
    BY <1>1, <2>1, SlotOf, Zenon
  <2>3. Queued'[n] = v_'[s]
    BY <1>1, <2>1 DEF Queued, max_items_
  <2> HIDE DEF s
  <2>4. s = tail_
    BY <1>1, <1>2, <2>1, <2>2 DEF Slots
  <2> QED
    BY <1>1, <2>3, <2>4 DEF n
<1> QED
  BY <1>2, <1>3, <1>4

LEMMA DequeueQueued ==
  ASSUME QueueInv, QueueInv', NEW p, NEW i, dequeue_for(p, i)
  PROVE  /\ size \in Nat \ {0}
         /\ size' = size - 1
         /\ i = Queued[1]
         /\ \A j \in 1 .. size - 1 : Queued'[j] = Queued[j + 1]
<1>1. /\ head_' = After(head_) /\ tail_' = tail_ /\ tail_ # head_
      /\ v_' = [v_ EXCEPT ![head_] = Nothing]
      /\ i = front /\ head_ \in Slots /\ tail_ \in Slots
      /\ DOMAIN v_ = Slots /\ QueueSize \in Nat
  BY QueueAssumption DEF dequeue_for, pop_front, empty, Nothing, QueueInv
<1>2. /\ size' = size - 1 /\ size \in 1 .. QueueSize
      /\ size = (IF tail_ >= head_ THEN tail_ - head_ ELSE QueueSize + 1 - (head_ - tail_))
  BY <1>1, AfterIs DEF Slots, size, max_items_
<1>3. ASSUME NEW j \in 1 .. size - 1 PROVE Queued'[j] = Queued[j + 1]
  <2> DEFINE h == After(head_)
             n == j + 1
  <2>1. /\ j \in 1 .. QueueSize + 1 /\ j \in 1 .. size' /\ n = j + 1
        /\ n \in 1 .. QueueSize + 1 /\ n \in 1 .. size
    BY <1>1, <1>2
  <2>2. h \in Slots /\ h = (IF head_ = QueueSize THEN 0 ELSE head_ + 1)
    BY <1>1, AfterIs DEF Slots
  <2> HIDE DEF h, n
  <2> DEFINE s == (head_ + n - 1) % max_items_
             r == (h + j - 1) % max_items_
  <2>3. /\ head_ + n <= QueueSize + 1 => s = head_ + n - 1
        /\ head_ + n > QueueSize + 1 => s = head_ + n - 1 - (QueueSize + 1)
    BY <1>1, <2>1, SlotOf, Zenon
  <2>4. /\ h + j <= QueueSize + 1 => r = h + j - 1
        /\ h + j > QueueSize + 1 => r = h + j - 1 - (QueueSize + 1)
    BY <2>1, <2>2, SlotOf, Zenon
  <2>5. Queued[n] = v_[s]
    BY <2>1 DEF Queued
  <2>6. Queued'[j] = v_'[r]
    BY <1>1, <2>1 DEF Queued, max_items_, h
  <2> HIDE DEF s, r
  <2>7. r = s /\ s \in Slots /\ s # head_
    BY <1>1, <1>2, <2>1, <2>2, <2>3, <2>4 DEF Slots
  <2> QED
    BY <1>1, <2>5, <2>6, <2>7 DEF n
<1> QED
  BY <1>1, <1>2, <1>3, SizeFacts

LEMMA SameQueued ==
  ASSUME UNCHANGED <<v_, head_, tail_>>
  PROVE  size' = size /\ Queued' = Queued
BY DEF size, Queued, max_items_

-------------------------------------------------------------------------------
(* The shutdown: what the invariant below says of main's way to the end.     *)

(* Who does nothing has nothing. *)
RestInv ==
  /\ \A p \in Producers : step[p] \in {"idle", "notify"} => item[p] = Nothing
  /\ flusher # "flush_all" => step["flusher"] = "idle"
  /\ worker \in {"none", "dequeue", "ended"} => hand = Nothing
  /\ worker = "terminate" => hand.kind = "terminate"
  /\ mode # "async" => size = 0

Dropped == main \in {"stop_flusher", "join_flusher", "reset_pool", "join"}

EndingInv ==
  /\ main = "drop_all" \/ Dropped => \A t \in Threads \ {Main} : step[t] = "idle"
  /\ Dropped => ~registered /\ step["flusher"] = "idle"
  /\ Dropped /\ main # "join" => step[Main] = "idle"
  /\ main = "join" => mode = "async"
  /\ main = "join" /\ step[Main] = "post" => item[Main] = TerminateItem

TerminateInv ==
  /\ main \notin {"join", "done", "killed"} =>
       /\ \A i \in 1 .. size : Queued[i].kind # "terminate"
       /\ \A p \in Producers : item[p].kind # "terminate"
       /\ hand.kind # "terminate" /\ worker # "ended"
  /\ main = "join" =>
       /\ \A i \in 1 .. size :
            Queued[i].kind = "terminate" => i = size /\ step[Main] # "post"
       /\ hand.kind = "terminate" \/ worker = "ended" => size = 0 /\ step[Main] # "post"

ClosedInv ==
  Dropped => \/ HoldsLogger(hand)
             \/ \E i \in 1 .. size : HoldsLogger(Queued[i])
             \/ disk = Len(written)

ShutdownInv == RestInv /\ EndingInv /\ TerminateInv /\ ClosedInv

LEMMA WhatItemsAre ==
  /\ Nothing.kind = "moved" /\ ~HoldsLogger(Nothing) /\ ~IsMessage(Nothing)
  /\ FlushItem.kind # "terminate" /\ TerminateItem.kind = "terminate"
  /\ ~HoldsLogger(TerminateItem) /\ ~IsMessage(FlushItem) /\ ~IsMessage(TerminateItem)
  /\ \A m \in Messages : m.kind # "terminate" /\ HoldsLogger(m) /\ IsMessage(m)
  /\ \A i \in LogItems : i.kind # "terminate" => HoldsLogger(i)
BY DEF Nothing, Moved, HoldsLogger, IsMessage, FlushItem, TerminateItem, Messages, LogItems

LEMMA InitShutdown == Init => ShutdownInv
<1> SUFFICES ASSUME Init PROVE ShutdownInv
  OBVIOUS
<1>1. size = 0
  BY DEF Init, QueueInit, size
<1>2. RestInv
  BY <1>1, WhatItemsAre DEF Init, RestInv, Producers
<1>3. EndingInv /\ ClosedInv
  BY DEF Init, EndingInv, ClosedInv, Dropped
<1>4. TerminateInv
  BY <1>1, WhatItemsAre DEF Init, TerminateInv, Producers
<1> QED
  BY <1>2, <1>3, <1>4 DEF ShutdownInv

(* Steps that leave the queue alone. *)
LEMMA SameShutdownQueue ==
  ASSUME UNCHANGED queueVars
  PROVE  size' = size /\ Queued' = Queued
BY SameQueued DEF queueVars

LEMMA ConstructShutdown ==
  ASSUME TypeInv, ShutdownInv, Construct
  PROVE  ShutdownInv'
<1>1. size' = size /\ Queued' = Queued /\ step' = step /\ item' = item /\ hand' = hand
  BY SameShutdownQueue DEF Construct, callVars
<1>2. main = "construct" /\ main' = "run" /\ mode = "none" /\ worker = "none"
      /\ step["flusher"] = "idle" /\ size = 0 /\ hand = Nothing
  BY DEF Construct, TypeInv, ControlInv, CallInv, PoolInv, Producers, ShutdownInv, RestInv
<1>3. worker' \in {"none", "dequeue"}
  BY <1>2 DEF Construct
<1>4. RestInv'
  BY <1>1, <1>2, <1>3 DEF ShutdownInv, RestInv
<1>5. EndingInv' /\ ClosedInv'
  BY <1>2 DEF EndingInv, ClosedInv, Dropped
<1>6. TerminateInv'
  BY <1>1, <1>2, <1>3 DEF ShutdownInv, TerminateInv
<1> QED
  BY <1>4, <1>5, <1>6 DEF ShutdownInv

LEMMA LogShutdown ==
  ASSUME TypeInv, ShutdownInv, NEW t \in Threads, Log(t)
  PROVE  ShutdownInv'
<1>1. /\ size' = size /\ Queued' = Queued /\ hand' = hand /\ worker' = worker
      /\ flusher' = flusher /\ mode' = mode
      /\ main = "run" /\ main' = "run"
  BY SameShutdownQueue DEF Log, poolVars, flusherVars
<1>2. PICK level \in {"info", "warn"} : Post(t, Message(t, level))
  BY DEF Log
<1>3. /\ Message(t, level) \in Messages
      /\ t \in Producers /\ t # "flusher"
      /\ step \in [Producers -> {"idle", "post", "notify", "flush"}]
      /\ item \in [Producers -> LogItems \cup {Nothing}]
  BY NewMessage, LoggerAssumption DEF TypeInv, ControlInv, CallInv, Producers
<1> DEFINE m == Message(t, level)
<1>4. /\ step' = [step EXCEPT ![t] = "post"] /\ item' = [item EXCEPT ![t] = m]
      /\ m.kind # "terminate"
  BY <1>2, <1>3, WhatItemsAre DEF Post
<1> HIDE DEF m
<1>5. RestInv'
  BY <1>1, <1>3, <1>4 DEF ShutdownInv, RestInv
<1>6. EndingInv' /\ ClosedInv'
  BY <1>1 DEF EndingInv, ClosedInv, Dropped
<1>7. TerminateInv'
  BY <1>1, <1>3, <1>4 DEF ShutdownInv, TerminateInv
<1> QED
  BY <1>5, <1>6, <1>7 DEF ShutdownInv

(* Only Main posts once the logger is dropped, and only the terminate       *)
(* message.                                                                 *)
LEMMA EnqueueShutdown ==
  ASSUME TypeInv, TypeInv', ShutdownInv, NEW p \in Producers, mode = "async",
         step[p] = "post", enqueue(p, item[p]),
         step' = [step EXCEPT ![p] = "notify"],
         item' = [item EXCEPT ![p] = Nothing],
         UNCHANGED <<mainVars, poolVars, flusherVars, written, disk>>
  PROVE  ShutdownInv'
<1> DEFINE i == item[p]
<1>1. /\ size' = size + 1 /\ size \in Nat
      /\ \A j \in 1 .. size : Queued'[j] = Queued[j]
      /\ Queued'[size + 1] = i
  BY EnqueueQueued, SizeFacts DEF TypeInv
<1>2. /\ step \in [Producers -> {"idle", "post", "notify", "flush"}]
      /\ item \in [Producers -> LogItems \cup {Nothing}]
      /\ i \in LogItems
      /\ Main \in Producers /\ Main \in Threads /\ Main # "flusher"
      /\ p = "flusher" \/ p \in Threads
  BY LoggerAssumption DEF TypeInv, CallInv, Producers
<1>3. /\ main' = main /\ mode' = mode /\ registered' = registered
      /\ flusher' = flusher /\ worker' = worker /\ hand' = hand
      /\ written' = written /\ disk' = disk
  BY DEF mainVars, poolVars, flusherVars
<1>4. RestInv'
  BY <1>2, <1>3 DEF ShutdownInv, RestInv
<1>5. EndingInv'
  BY <1>2, <1>3 DEF ShutdownInv, EndingInv, Dropped
<1>6. Dropped => main = "join" /\ p = Main /\ i = TerminateItem
  BY <1>2 DEF ShutdownInv, EndingInv, Dropped
<1>7. TerminateInv'
  <2>1. CASE main \notin {"join", "done", "killed"}
    <3>1. i.kind # "terminate"
      BY <2>1 DEF ShutdownInv, TerminateInv
    <3>2. \A j \in 1 .. size + 1 : Queued'[j].kind # "terminate"
      BY <1>1, <2>1, <3>1 DEF ShutdownInv, TerminateInv
    <3>3. \A q \in Producers : item'[q].kind # "terminate"
      BY <1>2, <2>1, WhatItemsAre DEF ShutdownInv, TerminateInv
    <3> QED
      BY <1>1, <1>3, <2>1, <3>2, <3>3 DEF ShutdownInv, TerminateInv
  <2>2. CASE main = "join"
    <3>1. p = Main /\ step'[Main] = "notify"
      BY <1>2, <1>6, <2>2 DEF Dropped
    <3>2. \A j \in 1 .. size + 1 : Queued'[j].kind = "terminate" => j = size + 1
      <4>1. \A j \in 1 .. size : Queued[j].kind # "terminate"
        BY <2>2, <3>1 DEF ShutdownInv, TerminateInv
      <4> QED
        BY <1>1, <4>1
    <3>3. hand.kind # "terminate" /\ worker # "ended"
      BY <2>2, <3>1 DEF ShutdownInv, TerminateInv
    <3> QED
      BY <1>1, <1>3, <2>2, <3>1, <3>2, <3>3 DEF TerminateInv
  <2>3. CASE main \in {"done", "killed"}
    BY <1>3, <2>3 DEF TerminateInv
  <2> QED
    BY <2>1, <2>2, <2>3
<1>8. ClosedInv'
  <2> SUFFICES ASSUME Dropped
               PROVE  \/ HoldsLogger(hand)
                      \/ \E j \in 1 .. size + 1 : HoldsLogger(Queued'[j])
                      \/ disk = Len(written)
    BY <1>1, <1>3 DEF ClosedInv, Dropped, HoldsLogger
  <2>1. CASE \E j \in 1 .. size : HoldsLogger(Queued[j])
    BY <1>1, <2>1 DEF HoldsLogger
  <2> QED
    BY <2>1 DEF ShutdownInv, ClosedInv
<1> QED
  BY <1>4, <1>5, <1>7, <1>8 DEF ShutdownInv

(* A producer goes on in its call and the queue keeps its items. *)
LEMMA CallShutdown ==
  ASSUME TypeInv, ShutdownInv, NEW p \in Producers,
         UNCHANGED <<v_, head_, tail_>>,
         UNCHANGED <<mainVars, poolVars, flusherVars>>,
         \/ UNCHANGED callVars
         \/ Return(p) /\ step[p] # "idle"
         \/ step[p] # "idle" /\ step' = [step EXCEPT ![p] = "flush"] /\ UNCHANGED item,
         disk' = Len(written') \/ UNCHANGED <<written, disk>> \/ ~Dropped
  PROVE  ShutdownInv'
<1>1. size' = size /\ Queued' = Queued
  BY SameQueued
<1>2. /\ step \in [Producers -> {"idle", "post", "notify", "flush"}]
      /\ item \in [Producers -> LogItems \cup {Nothing}]
      /\ Main \in Producers /\ Threads \subseteq Producers /\ "flusher" \in Producers
  BY LoggerAssumption DEF TypeInv, CallInv, Producers
<1>3. /\ main' = main /\ mode' = mode /\ registered' = registered
      /\ flusher' = flusher /\ worker' = worker /\ hand' = hand
  BY DEF mainVars, poolVars, flusherVars
<1>4. \A q \in Producers : /\ step'[q] \in {"idle", "notify"} => item'[q] = Nothing
                           /\ step[q] = "idle" => step'[q] = "idle"
                           /\ step'[q] = "post" => step[q] = "post" /\ item'[q] = item[q]
                           /\ item'[q] = item[q] \/ item'[q] = Nothing
  BY <1>2 DEF ShutdownInv, RestInv, Return, callVars
<1>5. RestInv'
  BY <1>1, <1>2, <1>3, <1>4 DEF ShutdownInv, RestInv
<1>6. EndingInv'
  BY <1>2, <1>3, <1>4 DEF ShutdownInv, EndingInv, Dropped
<1>7. TerminateInv'
  BY <1>1, <1>2, <1>3, <1>4, WhatItemsAre DEF ShutdownInv, TerminateInv
<1>8. ClosedInv'
  BY <1>1, <1>3 DEF ShutdownInv, ClosedInv, Dropped, HoldsLogger
<1> QED
  BY <1>5, <1>6, <1>7, <1>8 DEF ShutdownInv

LEMMA CallerShutdown ==
  ASSUME TypeInv, TypeInv', ShutdownInv, NEW p \in Producers, Caller(p)
  PROVE  ShutdownInv'
<1>1. CASE post_async_msg(p)
  <2>1. CASE step[p] = "post" /\ enqueue(p, item[p])
             /\ step' = [step EXCEPT ![p] = "notify"] /\ item' = [item EXCEPT ![p] = Nothing]
    BY <1>1, <2>1, EnqueueShutdown DEF post_async_msg
  <2>2. CASE WaitForRoom(p) /\ UNCHANGED callVars
    BY <1>1, <2>2, CallShutdown DEF post_async_msg, WaitForRoom
  <2>3. CASE step[p] = "notify" /\ NotifyPush /\ Return(p)
    BY <1>1, <2>3, CallShutdown DEF post_async_msg, NotifyPush
  <2> QED
    BY <1>1, <2>1, <2>2, <2>3 DEF post_async_msg
<1>2. CASE sink_it(p)
  <2>1. UNCHANGED <<v_, head_, tail_>> /\ UNCHANGED <<mainVars, poolVars, flusherVars>>
        /\ mode = "sync" /\ step[p] # "idle"
    BY <1>2 DEF sink_it, queueVars
  <2>2. ~Dropped
    BY <2>1, LoggerAssumption
       DEF ShutdownInv, EndingInv, Dropped, TypeInv, CallInv, Producers
  <2>3. \/ Return(p)
        \/ step' = [step EXCEPT ![p] = "flush"] /\ UNCHANGED item
    BY <1>2 DEF sink_it
  <2> QED
    BY <2>1, <2>2, <2>3, CallShutdown
<1> QED
  BY <1>1, <1>2 DEF Caller


(* The worker takes out what refers to the logger and keeps it in hand.     *)
LEMMA DequeueShutdown ==
  ASSUME TypeInv, TypeInv', ShutdownInv, worker = "dequeue", worker' = "notify",
         dequeue_for("worker", hand'),
         UNCHANGED <<mainVars, callVars, flusherVars, fileVars>>
  PROVE  ShutdownInv'
<1>1. /\ size \in Nat \ {0} /\ size' = size - 1
      /\ hand' = Queued[1]
      /\ \A j \in 1 .. size - 1 : Queued'[j] = Queued[j + 1]
      /\ mode = "async" /\ hand = Nothing
  BY DequeueQueued DEF TypeInv, PoolInv, ShutdownInv, RestInv
<1>2. /\ main' = main /\ mode' = mode /\ registered' = registered
      /\ flusher' = flusher /\ step' = step /\ item' = item
      /\ written' = written /\ disk' = disk
  BY DEF mainVars, callVars, flusherVars, fileVars
<1>3. RestInv' /\ EndingInv'
  BY <1>1, <1>2 DEF ShutdownInv, RestInv, EndingInv, Dropped
<1>4. \A j \in 1 .. size - 1 : j + 1 \in 1 .. size
  BY <1>1
<1>5. TerminateInv'
  <2>1. CASE main \notin {"join", "done", "killed"}
    <3>1. hand'.kind # "terminate" /\ \A j \in 1 .. size - 1 : Queued'[j].kind # "terminate"
      BY <1>1, <1>4, <2>1 DEF ShutdownInv, TerminateInv
    <3> QED
      BY <1>1, <1>2, <2>1, <3>1 DEF ShutdownInv, TerminateInv
  <2>2. CASE main = "join"
    <3>1. ASSUME NEW j \in 1 .. size - 1, Queued'[j].kind = "terminate"
          PROVE  j = size - 1 /\ step[Main] # "post"
      <4>1. j + 1 = size /\ step[Main] # "post"
        BY <1>1, <1>4, <2>2, <3>1 DEF ShutdownInv, TerminateInv
      <4> QED
        BY <1>1, <4>1
    <3>2. hand'.kind = "terminate" => size - 1 = 0 /\ step[Main] # "post"
      BY <1>1, <2>2 DEF ShutdownInv, TerminateInv
    <3> QED
      BY <1>1, <1>2, <2>2, <3>1, <3>2 DEF TerminateInv
  <2>3. CASE main \in {"done", "killed"}
    BY <1>2, <2>3 DEF TerminateInv
  <2> QED
    BY <2>1, <2>2, <2>3
<1>6. ClosedInv'
  <2> SUFFICES ASSUME Dropped
               PROVE  \/ HoldsLogger(Queued[1])
                      \/ \E j \in 1 .. size - 1 : HoldsLogger(Queued'[j])
                      \/ disk = Len(written)
    BY <1>1, <1>2 DEF ClosedInv, Dropped, HoldsLogger
  <2>1. CASE \E j \in 1 .. size : HoldsLogger(Queued[j])
    <3>1. PICK j \in 1 .. size : HoldsLogger(Queued[j])
      BY <2>1
    <3>2. CASE j = 1
      BY <3>1, <3>2
    <3>3. CASE j # 1
      <4>1. j - 1 \in 1 .. size - 1 /\ (j - 1) + 1 = j
        BY <1>1, <3>3
      <4>2. Queued'[j - 1] = Queued[j]
        BY <1>1, <4>1
      <4> QED
        BY <3>1, <4>1, <4>2 DEF HoldsLogger
    <3> QED
      BY <3>2, <3>3
  <2> QED
    BY <1>1, <2>1, WhatItemsAre DEF ShutdownInv, ClosedInv
<1> QED
  BY <1>3, <1>5, <1>6 DEF ShutdownInv

(* Nobody but the queue and the worker refers to a dropped logger. *)
LEMMA ReferredIs ==
  ASSUME TypeInv, ShutdownInv, Dropped \/ (main = "drop_all" /\ step[Main] = "idle"
                                           /\ flusher # "flush_all")
  PROVE  ReferredOnTheWay <=> \E i \in 1 .. size : HoldsLogger(Queued[i])
<1>1. DOMAIN Queued = 1 .. size
  BY SizeFacts DEF TypeInv
<1>2. ASSUME NEW p \in Producers PROVE ~HoldsLogger(item[p])
  <2>1. step[p] \in {"idle", "notify", "post", "flush"} /\ Main \in Producers
        /\ (p = "flusher" \/ p \in Threads)
    BY LoggerAssumption DEF TypeInv, CallInv, Producers
  <2>2. CASE step[p] \in {"idle", "notify"}
    BY <2>2, WhatItemsAre DEF ShutdownInv, RestInv
  <2>3. CASE step[p] \in {"post", "flush"}
    <3>1. p = Main /\ main = "join"
      BY <2>1, <2>3 DEF ShutdownInv, RestInv, EndingInv, Dropped
    <3>2. step[p] = "post"
      BY <2>3, <3>1 DEF ShutdownInv, EndingInv, TypeInv, CallInv
    <3> QED
      BY <3>1, <3>2, WhatItemsAre DEF ShutdownInv, EndingInv
  <2> QED
    BY <2>1, <2>2, <2>3
<1> QED
  BY <1>1, <1>2 DEF ReferredOnTheWay

LEMMA WorkerShutdown ==
  ASSUME TypeInv, TypeInv', ShutdownInv, Worker
  PROVE  ShutdownInv'
<1>1. /\ main' = main /\ mode' = mode /\ registered' = registered
      /\ flusher' = flusher /\ step' = step /\ item' = item
      /\ mode = "async" \/ worker = "none"
  BY DEF Worker, Dequeue, Dequeued, backend_sink_it, backend_flush, Release, Terminate,
         mainVars, callVars, flusherVars, TypeInv, PoolInv
<1>2. CASE Dequeue /\ dequeue_for("worker", hand') /\ worker' = "notify"
  BY <1>2, DequeueShutdown DEF Dequeue
<1>3. ASSUME size' = size, Queued' = Queued,
             worker' \in {"none", "dequeue", "ended"} => hand' = Nothing,
             worker' = "terminate" => hand'.kind = "terminate",
             worker' = "ended" => hand.kind = "terminate" \/ worker = "ended",
             hand' = hand \/ hand' = Nothing
      PROVE  RestInv' /\ EndingInv' /\ TerminateInv'
  <2>1. RestInv' /\ EndingInv'
    BY <1>1, <1>3 DEF ShutdownInv, RestInv, EndingInv, Dropped
  <2>2. TerminateInv'
    BY <1>1, <1>3, WhatItemsAre DEF ShutdownInv, TerminateInv
  <2> QED
    BY <2>1, <2>2
<1>4. CASE (Dequeue /\ WaitForItem("worker") /\ UNCHANGED poolVars) \/ Dequeued
  <2>1. size' = size /\ Queued' = Queued /\ hand' = hand /\ UNCHANGED fileVars
    BY <1>4, SameQueued DEF Dequeue, WaitForItem, Dequeued, NotifyPop, poolVars
  <2>2. \/ worker' = worker
        \/ worker' = hand.kind /\ hand.kind \in {"log", "flush", "terminate"}
    BY <1>4, Kinds DEF Dequeue, Dequeued, poolVars, TypeInv, PoolInv
  <2>3. RestInv' /\ EndingInv' /\ TerminateInv'
    <3>1. /\ worker' \in {"none", "dequeue", "ended"} => hand' = Nothing
          /\ worker' = "terminate" => hand'.kind = "terminate"
          /\ worker' = "ended" => hand.kind = "terminate" \/ worker = "ended"
      BY <2>1, <2>2 DEF ShutdownInv, RestInv
    <3> QED
      BY <1>3, <2>1, <3>1
  <2>4. ClosedInv'
    BY <1>1, <2>1 DEF ShutdownInv, ClosedInv, Dropped, HoldsLogger, fileVars
  <2> QED
    BY <2>3, <2>4 DEF ShutdownInv
<1>5. CASE backend_sink_it \/ backend_flush
  <2>1. size' = size /\ Queued' = Queued /\ hand' = hand /\ worker' \in {"flush", "release"}
    BY <1>5, SameShutdownQueue DEF backend_sink_it, backend_flush
  <2>2. RestInv' /\ EndingInv' /\ TerminateInv'
    BY <1>3, <2>1
  <2>3. ClosedInv'
    <3>1. CASE backend_sink_it
      <4>1. HoldsLogger(hand)
        BY <3>1, WhatItemsAre DEF backend_sink_it, TypeInv, PoolInv
      <4> QED
        BY <2>1, <4>1 DEF ClosedInv, HoldsLogger
    <3>2. CASE backend_flush
      BY <3>2 DEF backend_flush, Flush, ClosedInv
    <3> QED
      BY <1>5, <3>1, <3>2
  <2> QED
    BY <2>2, <2>3 DEF ShutdownInv
<1>6. CASE Release
  <2>1. size' = size /\ Queued' = Queued /\ hand' = Nothing /\ worker' = "dequeue"
    BY <1>6, SameShutdownQueue DEF Release
  <2>2. RestInv' /\ EndingInv' /\ TerminateInv'
    BY <1>3, <2>1
  <2>3. ClosedInv'
    <3> SUFFICES ASSUME Dropped
                 PROVE  \/ \E i \in 1 .. size : HoldsLogger(Queued[i])
                        \/ disk' = Len(written')
      BY <1>1, <2>1 DEF ClosedInv, Dropped, HoldsLogger
    <3>1. ~registered
      BY DEF ShutdownInv, EndingInv
    <3> QED
      BY <1>6, <3>1, ReferredIs DEF Release, Flush
  <2> QED
    BY <2>2, <2>3 DEF ShutdownInv
<1>7. CASE Terminate
  <2>1. /\ size' = size /\ Queued' = Queued /\ hand' = Nothing /\ worker' = "ended"
        /\ hand.kind = "terminate" /\ UNCHANGED fileVars
    BY <1>7, SameShutdownQueue DEF Terminate, ShutdownInv, RestInv
  <2>2. RestInv' /\ EndingInv' /\ TerminateInv'
    BY <1>3, <2>1
  <2>3. ~HoldsLogger(hand)
    BY <2>1 DEF HoldsLogger
  <2>4. ClosedInv'
    BY <1>1, <2>1, <2>3 DEF ShutdownInv, ClosedInv, Dropped, HoldsLogger, fileVars
  <2> QED
    BY <2>2, <2>4 DEF ShutdownInv
<1> QED
  BY <1>2, <1>4, <1>5, <1>6, <1>7 DEF Worker, Dequeue


LEMMA FlusherShutdown ==
  ASSUME TypeInv, ShutdownInv, Flusher
  PROVE  ShutdownInv'
<1>1. /\ size' = size /\ Queued' = Queued /\ hand' = hand /\ worker' = worker
      /\ main' = main /\ mode' = mode /\ registered' = registered
  BY SameShutdownQueue DEF Flusher, FlusherWaits, FlushAllEnds, mainVars, poolVars
<1>2. /\ step \in [Producers -> {"idle", "post", "notify", "flush"}]
      /\ item \in [Producers -> LogItems \cup {Nothing}]
      /\ "flusher" \in Producers /\ Main \in Threads /\ "flusher" \notin Threads
      /\ Threads \subseteq Producers
  BY LoggerAssumption DEF TypeInv, CallInv, Producers
<1>3. \/ UNCHANGED <<step, item>> /\ (flusher' = "flush_all" \/ step["flusher"] = "idle")
      \/ /\ step' = [step EXCEPT !["flusher"] = "post"]
         /\ item' = [item EXCEPT !["flusher"] = FlushItem]
         /\ flusher' = "flush_all" /\ registered
  <2>1. CASE FlusherWaits
    BY <2>1 DEF FlusherWaits, Post, callVars, ShutdownInv, RestInv
  <2>2. CASE FlushAllEnds
    BY <2>2 DEF FlushAllEnds, callVars
  <2> QED
    BY <2>1, <2>2 DEF Flusher
<1>4. RestInv'
  BY <1>1, <1>2, <1>3 DEF ShutdownInv, RestInv
<1>5. EndingInv'
  BY <1>1, <1>2, <1>3 DEF ShutdownInv, EndingInv, Dropped
<1>6. TerminateInv'
  <2>1. step'[Main] = step[Main]
    BY <1>2, <1>3
  <2>2. \A p \in Producers : item'[p] = item[p] \/ item'[p] = FlushItem
    BY <1>2, <1>3
  <2> QED
    BY <1>1, <2>1, <2>2, WhatItemsAre DEF ShutdownInv, TerminateInv
<1>7. ClosedInv'
  <2>1. UNCHANGED fileVars \/ Flush
    BY DEF Flusher, FlusherWaits, FlushAllEnds
  <2> QED
    BY <1>1, <2>1 DEF ShutdownInv, ClosedInv, Dropped, HoldsLogger, fileVars, Flush
<1> QED
  BY <1>4, <1>5, <1>6, <1>7 DEF ShutdownInv

LEMMA ExitShutdown ==
  ASSUME TypeInv, ShutdownInv, Exit
  PROVE  ShutdownInv'
<1>1. /\ size' = size /\ Queued' = Queued /\ hand' = hand /\ worker' = worker
      /\ mode' = mode /\ flusher' = flusher
      /\ main = "run" /\ main' = "drop_all"
  BY SameShutdownQueue DEF Exit, Goes, poolVars, flusherVars
<1>2. /\ step \in [Producers -> {"idle", "post", "notify", "flush"}]
      /\ item \in [Producers -> LogItems \cup {Nothing}]
      /\ Main \in Threads /\ "flusher" \notin Threads
      /\ Threads \subseteq Producers /\ "flusher" \in Producers
      /\ Message(Main, "info") \in Messages
      /\ \A t \in Threads : step[t] = "idle"
  BY NewMessage, LoggerAssumption DEF TypeInv, ControlInv, CallInv, Producers, Exit
<1> DEFINE m == Message(Main, "info")
<1>3. /\ m.kind # "terminate"
      /\ \/ UNCHANGED <<step, item>>
         \/ /\ step' = [step EXCEPT ![Main] = "post"]
            /\ item' = [item EXCEPT ![Main] = m]
  BY <1>2, WhatItemsAre DEF Exit, Post, callVars
<1> HIDE DEF m
<1>4. RestInv'
  BY <1>1, <1>2, <1>3 DEF ShutdownInv, RestInv
<1>5. EndingInv' /\ ClosedInv'
  BY <1>1, <1>2, <1>3 DEF EndingInv, ClosedInv, Dropped
<1>6. TerminateInv'
  BY <1>1, <1>2, <1>3 DEF ShutdownInv, TerminateInv
<1> QED
  BY <1>4, <1>5, <1>6 DEF ShutdownInv

LEMMA DestructorShutdown ==
  ASSUME TypeInv, ShutdownInv, Destructor
  PROVE  ShutdownInv'
<1>1. /\ size' = size /\ Queued' = Queued /\ hand' = hand /\ worker' = worker
      /\ mode' = mode /\ flusher' = flusher
  BY SameShutdownQueue
     DEF Destructor, drop_all, StopFlusher, ResetPool, poolVars, flusherVars
<1>2. /\ step \in [Producers -> {"idle", "post", "notify", "flush"}]
      /\ item \in [Producers -> LogItems \cup {Nothing}]
      /\ Main \in Threads /\ "flusher" \notin Threads
      /\ Threads \subseteq Producers /\ "flusher" \in Producers
  BY LoggerAssumption DEF TypeInv, CallInv, Producers
<1>3. CASE drop_all
  <2>1. /\ main = "drop_all" /\ main' = "stop_flusher" /\ step[Main] = "idle"
        /\ flusher # "flush_all" /\ registered' = FALSE
        /\ step' = step /\ item' = item
    BY <1>3 DEF drop_all, Goes, FlushAllRuns, callVars
  <2>2. RestInv' /\ EndingInv' /\ TerminateInv'
    BY <1>1, <2>1 DEF ShutdownInv, RestInv, EndingInv, TerminateInv, Dropped
  <2>3. ClosedInv'
    BY <1>1, <1>3, <2>1, ReferredIs DEF drop_all, ClosedInv, HoldsLogger, Flush, fileVars
  <2> QED
    BY <2>2, <2>3 DEF ShutdownInv
<1>4. CASE StopFlusher
  <2>1. /\ main \in {"stop_flusher", "join_flusher"}
        /\ main' \in {"join_flusher", "reset_pool"}
        /\ registered' = registered /\ step' = step /\ item' = item
        /\ written' = written /\ disk' = disk
    BY <1>4 DEF StopFlusher, Goes, callVars, fileVars
  <2>2. RestInv' /\ EndingInv' /\ TerminateInv' /\ ClosedInv'
    BY <1>1, <2>1
       DEF ShutdownInv, RestInv, EndingInv, TerminateInv, ClosedInv, Dropped, HoldsLogger
  <2> QED
    BY <2>2 DEF ShutdownInv
<1>5. CASE ResetPool /\ main' = "done"
  <2>1. step' = step /\ item' = item
    BY <1>5 DEF ResetPool, Goes, callVars
  <2>2. RestInv' /\ EndingInv' /\ TerminateInv' /\ ClosedInv'
    BY <1>1, <1>5, <2>1
       DEF ShutdownInv, RestInv, EndingInv, TerminateInv, ClosedInv, Dropped
  <2> QED
    BY <2>2 DEF ShutdownInv
<1>6. CASE ResetPool /\ main' = "join"
  <2>1. /\ main = "reset_pool" /\ mode = "async"
        /\ step' = [step EXCEPT ![Main] = "post"]
        /\ item' = [item EXCEPT ![Main] = TerminateItem]
        /\ registered' = registered /\ written' = written /\ disk' = disk
    BY <1>6 DEF ResetPool, Goes, Post, fileVars
  <2>2. RestInv'
    BY <1>1, <1>2, <2>1 DEF ShutdownInv, RestInv
  <2>3. EndingInv' /\ ClosedInv'
    BY <1>1, <1>2, <1>6, <2>1 DEF ShutdownInv, EndingInv, ClosedInv, Dropped, HoldsLogger
  <2>4. TerminateInv'
    BY <1>1, <1>6, <2>1 DEF ShutdownInv, TerminateInv
  <2> QED
    BY <2>2, <2>3, <2>4 DEF ShutdownInv
<1> QED
  BY <1>3, <1>4, <1>5, <1>6 DEF Destructor, ResetPool, Goes

LEMMA EnvironmentShutdown ==
  ASSUME TypeInv, ShutdownInv, Spill \/ SleeperWakesUp \/ Kill \/ UNCHANGED vars
  PROVE  ShutdownInv'
<1>1. /\ size' = size /\ Queued' = Queued /\ hand' = hand /\ worker' = worker
      /\ mode' = mode /\ flusher' = flusher /\ registered' = registered
      /\ step' = step /\ item' = item
      /\ main' = main \/ main' = "killed"
  BY SameQueued
     DEF Spill, SleeperWakesUp, WakeUp, Kill, vars, queueVars, mainVars, callVars,
         poolVars, flusherVars
<1>2. RestInv' /\ EndingInv' /\ TerminateInv'
  BY <1>1 DEF ShutdownInv, RestInv, EndingInv, TerminateInv, Dropped
<1>3. written' = written /\ (disk' = disk \/ Spill)
  BY DEF Spill, SleeperWakesUp, Kill, vars, fileVars
<1>4. ClosedInv'
  <2>1. CASE Spill
    <3>1. Dropped => HoldsLogger(hand) \/ \E i \in 1 .. size : HoldsLogger(Queued[i])
      BY <2>1 DEF Spill, ShutdownInv, ClosedInv, TypeInv, FileInv
    <3> QED
      BY <1>1, <2>1, <3>1 DEF Spill, mainVars, ClosedInv, Dropped, HoldsLogger
  <2>2. CASE disk' = disk
    BY <1>1, <1>3, <2>2 DEF ShutdownInv, ClosedInv, Dropped, HoldsLogger
  <2> QED
    BY <1>3, <2>1, <2>2
<1> QED
  BY <1>2, <1>4 DEF ShutdownInv

LEMMA NextKeepsShutdown ==
  ASSUME TypeInv, TypeInv', ShutdownInv, [Next]_vars
  PROVE  ShutdownInv'
BY ConstructShutdown, LogShutdown, CallerShutdown, WorkerShutdown, FlusherShutdown,
   ExitShutdown, DestructorShutdown, EnvironmentShutdown DEF Next


-------------------------------------------------------------------------------
(* The order: the file, the worker's hand and the queue hold the accepted   *)
(* messages one behind the other.                                           *)

(* The message that the worker took out of the queue and has not written.   *)
InHand == IF worker \in {"notify", "log"} /\ IsMessage(hand) THEN 1 ELSE 0

(* f counts the accepted messages up to each place in the queue, of which   *)
(* the first lie in the file and in the worker's hand.                      *)
Counts(f) ==
  /\ f[0] = Len(written) + InHand
  /\ f[size] = Len(accepted)
  /\ \A i \in 1 .. size :
       IF IsMessage(Queued[i])
       THEN f[i] = f[i - 1] + 1 /\ Queued[i] = accepted[f[i]]
       ELSE f[i] = f[i - 1]

OrderInv ==
  /\ Len(written) + InHand <= Len(accepted)
  /\ \A i \in 1 .. Len(written) : written[i] = accepted[i]
  /\ InHand = 1 => hand = accepted[Len(written) + 1]
  /\ \E f \in [0 .. size -> 0 .. Len(accepted)] : Counts(f)

LEMMA InHandIs ==
  /\ InHand \in {0, 1}
  /\ worker \notin {"notify", "log"} => InHand = 0
  /\ worker \in {"notify", "log"} => (InHand = 1 <=> IsMessage(hand))
BY DEF InHand

LEMMA InitOrder == Init => OrderInv
<1> SUFFICES ASSUME Init PROVE OrderInv
  OBVIOUS
<1>1. size = 0 /\ InHand = 0
  BY DEF Init, QueueInit, size, InHand
<1>2. Len(written) = 0 /\ Len(accepted) = 0
  BY EmptySeq DEF Init
<1> DEFINE f == [i \in 0 .. size |-> 0]
<1>3. f \in [0 .. size -> 0 .. Len(accepted)] /\ Counts(f)
  BY <1>1, <1>2 DEF Counts
<1> HIDE DEF f
<1> QED
  BY <1>1, <1>2, <1>3 DEF OrderInv

LEMMA SameOrder ==
  ASSUME OrderInv, size' = size, Queued' = Queued,
         written' = written, accepted' = accepted,
         InHand' = InHand, InHand = 1 => hand' = hand
  PROVE  OrderInv'
BY DEF OrderInv, Counts

LEMMA EnqueueOrder ==
  ASSUME TypeInv, TypeInv', OrderInv, NEW p, NEW i \in LogItems, enqueue(p, i),
         written' = written, UNCHANGED poolVars,
         IF IsMessage(i) THEN Accept(i) ELSE UNCHANGED accepted
  PROVE  OrderInv'
<1>1. /\ size' = size + 1 /\ size \in Nat
      /\ \A j \in 1 .. size : Queued'[j] = Queued[j]
      /\ Queued'[size + 1] = i
  BY EnqueueQueued, SizeFacts DEF TypeInv
<1>2. /\ InHand' = InHand /\ hand' = hand /\ InHand \in Nat
      /\ Len(written) \in Nat /\ Len(accepted) \in Nat /\ Len(accepted') \in Nat
  BY LenProperties DEF InHand, poolVars, TypeInv, FileInv, AcceptedInv
<1>3. /\ \A j \in 1 .. Len(accepted) : accepted'[j] = accepted[j]
      /\ IsMessage(i) => Len(accepted') = Len(accepted) + 1 /\ accepted'[Len(accepted')] = i
      /\ ~IsMessage(i) => Len(accepted') = Len(accepted)
  <2>1. CASE IsMessage(i)
    <3>1. i \in Messages /\ accepted' = Append(accepted, i) /\ accepted \in Seq(Messages)
      BY <2>1, Kinds DEF IsMessage, Accept, TypeInv, AcceptedInv
    <3> QED
      BY <2>1, <3>1, AppendProperties, LenProperties
  <2>2. CASE ~IsMessage(i)
    BY <2>2
  <2> QED
    BY <2>1, <2>2
<1>4. PICK f \in [0 .. size -> 0 .. Len(accepted)] : Counts(f)
  BY DEF OrderInv
<1> DEFINE w == Len(written)
           a == Len(accepted)
           b == Len(accepted')
           n == size
           g == [j \in 0 .. n + 1 |-> IF j <= n THEN f[j] ELSE b]
<1>5. /\ f[0] = w + InHand /\ f[n] = a
      /\ \A j \in 1 .. n :
           IF IsMessage(Queued[j]) THEN f[j] = f[j - 1] + 1 /\ Queued[j] = accepted[f[j]]
                                   ELSE f[j] = f[j - 1]
      /\ \A j \in 0 .. n : f[j] \in 0 .. a
  BY <1>4 DEF Counts
<1>6. /\ w + InHand <= a
      /\ \A j \in 1 .. w : written[j] = accepted[j]
      /\ InHand = 1 => hand = accepted[w + 1]
  BY DEF OrderInv
<1>7. a \in Nat /\ b \in Nat /\ n \in Nat /\ w \in Nat /\ (b = a \/ b = a + 1)
  BY <1>1, <1>2, <1>3
<1> HIDE DEF w, a, b, n
<1>8. /\ g \in [0 .. n + 1 -> 0 .. b]
      /\ g[0] = w + InHand /\ g[n + 1] = b
      /\ \A j \in 0 .. n : g[j] = f[j]
  BY <1>5, <1>7
<1> HIDE DEF g
<1>9. ASSUME NEW j \in 1 .. n + 1
      PROVE  IF IsMessage(Queued'[j])
             THEN g[j] = g[j - 1] + 1 /\ Queued'[j] = accepted'[g[j]]
             ELSE g[j] = g[j - 1]
  <2>1. CASE j = n + 1
    <3>1. Queued'[j] = i /\ g[j] = b /\ g[j - 1] = a
      <4>1. j - 1 = n /\ n \in 0 .. n
        BY <1>7, <2>1
      <4>2. Queued'[j] = i
        BY <1>1, <2>1 DEF n
      <4>3. g[j] = b /\ g[n] = f[n] /\ f[n] = a
        BY <1>5, <1>8, <2>1, <4>1, Zenon
      <4> QED
        BY <4>1, <4>2, <4>3
    <3>2. IsMessage(i) => b = a + 1 /\ accepted'[b] = i
      BY <1>3, Zenon DEF a, b
    <3>3. ~IsMessage(i) => b = a
      BY <1>3, Zenon DEF a, b
    <3> QED
      BY <3>1, <3>2, <3>3
  <2>2. CASE j # n + 1
    <3>1. j \in 1 .. n /\ j \in 0 .. n /\ j - 1 \in 0 .. n
      BY <1>7, <2>2
    <3>2. Queued'[j] = Queued[j] /\ g[j] = f[j] /\ g[j - 1] = f[j - 1]
      BY <1>1, <1>8, <3>1 DEF n
    <3>3. CASE IsMessage(Queued[j])
      <4>1. f[j] = f[j - 1] + 1 /\ Queued[j] = accepted[f[j]]
        BY <1>5, <3>1, <3>3
      <4>2. f[j] \in 1 .. a
        BY <1>5, <1>7, <3>1, <4>1
      <4>3. accepted'[f[j]] = accepted[f[j]]
        BY <1>3, <4>2 DEF a
      <4> QED
        BY <3>2, <3>3, <4>1, <4>3
    <3>4. CASE ~IsMessage(Queued[j])
      BY <1>5, <3>1, <3>2, <3>4
    <3> QED
      BY <3>3, <3>4
  <2> QED
    BY <2>1, <2>2
<1>10. \E h \in [0 .. size' -> 0 .. Len(accepted')] :
         /\ h[0] = Len(written') + InHand'
         /\ h[size'] = Len(accepted')
         /\ \A j \in 1 .. size' :
              IF IsMessage(Queued'[j])
              THEN h[j] = h[j - 1] + 1 /\ Queued'[j] = accepted'[h[j]]
              ELSE h[j] = h[j - 1]
  <2>1. size' = n + 1 /\ Len(accepted') = b /\ Len(written') = w
    BY <1>1 DEF n, b, w
  <2> QED
    BY <1>2, <1>8, <1>9, <2>1
<1>11. /\ w + InHand <= b
       /\ \A j \in 1 .. w : written[j] = accepted'[j]
       /\ InHand = 1 => hand = accepted'[w + 1]
  <2>1. \A j \in 1 .. w : j \in 1 .. a
    BY <1>2, <1>6, <1>7
  <2>2. InHand = 1 => w + 1 \in 1 .. a
    BY <1>2, <1>6, <1>7
  <2> QED
    BY <1>2, <1>3, <1>6, <1>7, <2>1, <2>2 DEF a
<1> QED
  BY <1>2, <1>10, <1>11 DEF OrderInv, Counts, IsMessage, w, b


LEMMA DequeueOrder ==
  ASSUME TypeInv, TypeInv', OrderInv, dequeue_for("worker", hand'),
         worker = "dequeue", worker' = "notify", UNCHANGED fileVars
  PROVE  OrderInv'
<1>1. /\ size \in Nat \ {0} /\ size' = size - 1
      /\ hand' = Queued[1]
      /\ \A j \in 1 .. size - 1 : Queued'[j] = Queued[j + 1]
  BY DequeueQueued DEF TypeInv
<1>2. /\ written' = written /\ accepted' = accepted
      /\ Len(written) \in Nat /\ Len(accepted) \in Nat
      /\ InHand = 0
      /\ InHand' = (IF IsMessage(Queued[1]) THEN 1 ELSE 0)
  BY <1>1, LenProperties DEF InHand, IsMessage, fileVars, TypeInv, FileInv, AcceptedInv
<1>3. PICK f \in [0 .. size -> 0 .. Len(accepted)] : Counts(f)
  BY DEF OrderInv
<1> DEFINE w == Len(written)
           a == Len(accepted)
           n == size
           g == [j \in 0 .. n - 1 |-> f[j + 1]]
<1>4. /\ f[0] = w /\ f[n] = a
      /\ \A j \in 1 .. n :
           IF IsMessage(Queued[j]) THEN f[j] = f[j - 1] + 1 /\ Queued[j] = accepted[f[j]]
                                   ELSE f[j] = f[j - 1]
      /\ \A j \in 0 .. n : f[j] \in 0 .. a
      /\ \A j \in 1 .. w : written[j] = accepted[j]
  BY <1>2, <1>3 DEF Counts, OrderInv
<1>5. w \in Nat /\ a \in Nat /\ n \in Nat \ {0} /\ size' = n - 1
  BY <1>1, <1>2
<1> HIDE DEF w, a, n
<1>6. /\ g \in [0 .. n - 1 -> 0 .. a]
      /\ \A j \in 0 .. n - 1 : g[j] = f[j + 1]
  BY <1>4, <1>5
<1> HIDE DEF g
<1>7. /\ f[1] = w + InHand' /\ 1 \in 1 .. n
      /\ InHand' = 1 => hand' = accepted[w + 1]
  <2>1. 1 \in 1 .. n /\ 1 - 1 = 0
    BY <1>5
  <2>2. IF IsMessage(Queued[1]) THEN f[1] = f[0] + 1 /\ Queued[1] = accepted[f[1]]
                                ELSE f[1] = f[0]
    BY <1>4, <2>1
  <2> QED
    BY <1>1, <1>2, <1>4, <1>5, <2>1, <2>2
<1>8. g[0] = w + InHand' /\ g[n - 1] = a
  <2>1. 0 \in 0 .. n - 1 /\ n - 1 \in 0 .. n - 1 /\ (n - 1) + 1 = n /\ 0 + 1 = 1
    BY <1>5
  <2> QED
    BY <1>4, <1>6, <1>7, <2>1
<1>9. ASSUME NEW j \in 1 .. n - 1
      PROVE  IF IsMessage(Queued'[j])
             THEN g[j] = g[j - 1] + 1 /\ Queued'[j] = accepted[g[j]]
             ELSE g[j] = g[j - 1]
  <2>1. /\ j + 1 \in 1 .. n /\ j \in 0 .. n - 1 /\ j - 1 \in 0 .. n - 1
        /\ (j + 1) - 1 = j /\ (j - 1) + 1 = j
    BY <1>5
  <2>2. g[j] = f[j + 1] /\ g[j - 1] = f[j] /\ Queued'[j] = Queued[j + 1]
    BY <1>1, <1>6, <2>1 DEF n
  <2>3. IF IsMessage(Queued[j + 1])
        THEN f[j + 1] = f[j] + 1 /\ Queued[j + 1] = accepted[f[j + 1]]
        ELSE f[j + 1] = f[j]
    BY <1>4, <2>1
  <2> QED
    BY <2>2, <2>3
<1>10. \E h \in [0 .. size' -> 0 .. Len(accepted')] :
         /\ h[0] = Len(written') + InHand'
         /\ h[size'] = Len(accepted')
         /\ \A j \in 1 .. size' :
              IF IsMessage(Queued'[j])
              THEN h[j] = h[j - 1] + 1 /\ Queued'[j] = accepted'[h[j]]
              ELSE h[j] = h[j - 1]
  BY <1>2, <1>5, <1>6, <1>8, <1>9 DEF w, a
<1>11. w + InHand' <= a
  BY <1>4, <1>7
<1> QED
  BY <1>2, <1>4, <1>7, <1>10, <1>11 DEF OrderInv, Counts, IsMessage, w, a

LEMMA WorkerOrder ==
  ASSUME TypeInv, TypeInv', OrderInv, Worker
  PROVE  OrderInv'
<1>1. CASE Dequeue /\ dequeue_for("worker", hand') /\ worker' = "notify"
  BY <1>1, DequeueOrder DEF Dequeue
<1>2. CASE (Dequeue /\ WaitForItem("worker") /\ UNCHANGED poolVars) \/ Dequeued
  <2>1. size' = size /\ Queued' = Queued /\ hand' = hand /\ UNCHANGED fileVars
    BY <1>2, SameQueued DEF Dequeue, WaitForItem, Dequeued, NotifyPop, poolVars
  <2>2. InHand' = InHand
    <3>1. CASE worker' = worker
      BY <2>1, <3>1 DEF InHand
    <3>2. CASE worker = "notify" /\ worker' = hand.kind /\ hand \in LogItems
      BY <2>1, <3>2, Kinds DEF InHand, IsMessage
    <3> QED
      BY <1>2, <3>1, <3>2 DEF Dequeue, Dequeued, poolVars, TypeInv, PoolInv
  <2> QED
    BY <2>1, <2>2, SameOrder DEF fileVars
<1>3. CASE backend_sink_it
  <2>1. /\ size' = size /\ Queued' = Queued /\ accepted' = accepted
        /\ hand \in Messages /\ Write(hand)
        /\ InHand = 1 /\ InHand' = 0
    BY <1>3, SameShutdownQueue, WhatItemsAre
       DEF backend_sink_it, InHand, TypeInv, PoolInv
  <2>2. /\ Len(written') = Len(written) + 1
        /\ \A i \in 1 .. Len(written) : written'[i] = written[i]
        /\ written'[Len(written) + 1] = hand
        /\ Len(written) \in Nat
    BY <2>1, WriteKeeps, LenProperties DEF TypeInv, FileInv
  <2> DEFINE w == Len(written)
             v == Len(written')
  <2>3. \A i \in 1 .. v : written'[i] = accepted[i]
    <3> TAKE i \in 1 .. v
    <3>1. CASE i = w + 1
      BY <2>1, <2>2, <3>1 DEF OrderInv
    <3>2. CASE i # w + 1
      <4>1. i \in 1 .. w
        BY <2>2, <3>2
      <4> QED
        BY <2>2, <4>1 DEF OrderInv
    <3> QED
      BY <3>1, <3>2
  <2>4. v + InHand' = w + InHand
    BY <2>1, <2>2
  <2> HIDE DEF w, v
  <2>5. /\ w + InHand <= Len(accepted)
        /\ \E f \in [0 .. size -> 0 .. Len(accepted)] : Counts(f)
    BY DEF OrderInv, w
  <2>6. \A f : Counts(f) =>
          /\ f[0] = v + InHand'
          /\ f[size'] = Len(accepted')
          /\ \A j \in 1 .. size' :
               IF IsMessage(Queued'[j])
               THEN f[j] = f[j - 1] + 1 /\ Queued'[j] = accepted'[f[j]]
               ELSE f[j] = f[j - 1]
    BY <2>1, <2>4 DEF Counts, w
  <2>7. \E f \in [0 .. size' -> 0 .. Len(accepted')] :
          /\ f[0] = v + InHand'
          /\ f[size'] = Len(accepted')
          /\ \A j \in 1 .. size' :
               IF IsMessage(Queued'[j])
               THEN f[j] = f[j - 1] + 1 /\ Queued'[j] = accepted'[f[j]]
               ELSE f[j] = f[j - 1]
    BY <2>1, <2>5, <2>6
  <2>8. v + InHand' <= Len(accepted')
    BY <2>1, <2>4, <2>5
  <2>9. InHand' # 1 /\ \A i \in 1 .. v : written'[i] = accepted'[i]
    BY <2>1, <2>3
  <2> QED
    BY <2>7, <2>8, <2>9 DEF OrderInv, Counts, IsMessage, v
<1>4. CASE backend_flush \/ Release \/ Terminate
  <2>1. size' = size /\ Queued' = Queued /\ InHand' = InHand /\ InHand = 0
    BY <1>4, SameShutdownQueue DEF backend_flush, Release, Terminate, InHand
  <2>2. written' = written /\ accepted' = accepted
    BY <1>4 DEF backend_flush, Release, Terminate, Flush, fileVars
  <2> QED
    BY <2>1, <2>2, SameOrder
<1> QED
  BY <1>1, <1>2, <1>3, <1>4 DEF Worker, Dequeue

LEMMA SinkItOrder ==
  ASSUME TypeInv, TypeInv', RestInv, OrderInv, NEW p \in Producers, sink_it(p)
  PROVE  OrderInv'
<1>1. /\ size' = size /\ Queued' = Queued /\ size = 0
      /\ InHand = 0 /\ InHand' = 0
  BY SameShutdownQueue DEF sink_it, poolVars, InHand, TypeInv, PoolInv, RestInv
<1>2. CASE step[p] = "post" /\ Write(item[p]) /\ Accept(item[p])
  <2> DEFINE m == item[p]
             w == Len(written)
             a == Len(accepted)
  <2>1. m \in Messages
    BY <1>2 DEF sink_it, TypeInv, CallInv
  <2>2. /\ Len(written') = w + 1 /\ w \in Nat
        /\ \A i \in 1 .. w : written'[i] = written[i]
        /\ written'[w + 1] = m
    BY <1>2, <2>1, WriteKeeps, LenProperties DEF TypeInv, FileInv
  <2>3. /\ Len(accepted') = a + 1 /\ a \in Nat
        /\ \A i \in 1 .. a : accepted'[i] = accepted[i]
        /\ accepted'[a + 1] = m
    BY <1>2, <2>1, AppendProperties, LenProperties DEF Accept, TypeInv, AcceptedInv
  <2>4. a = w /\ \A i \in 1 .. w : written[i] = accepted[i]
    BY <1>1, <2>2 DEF OrderInv, Counts
  <2> HIDE DEF m, w, a
  <2>5. \A i \in 1 .. w + 1 : written'[i] = accepted'[i]
    <3> TAKE i \in 1 .. w + 1
    <3>1. CASE i = w + 1
      BY <2>2, <2>3, <2>4, <3>1
    <3>2. CASE i # w + 1
      <4>1. i \in 1 .. w
        BY <2>2, <3>2
      <4> QED
        BY <2>2, <2>3, <2>4, <4>1
    <3> QED
      BY <3>1, <3>2
  <2> DEFINE g == [i \in 0 .. 0 |-> w + 1]
  <2>6. g \in [0 .. 0 -> 0 .. w + 1] /\ g[0] = w + 1
    BY <2>2
  <2> HIDE DEF g
  <2> QED
    BY <1>1, <2>2, <2>3, <2>4, <2>5, <2>6 DEF OrderInv, Counts
<1>3. CASE Flush
  BY <1>1, <1>3, SameOrder DEF Flush
<1> QED
  BY <1>2, <1>3 DEF sink_it

LEMMA PostAsyncOrder ==
  ASSUME TypeInv, TypeInv', OrderInv, NEW p \in Producers, post_async_msg(p)
  PROVE  OrderInv'
<1>1. UNCHANGED poolVars /\ written' = written
  BY DEF post_async_msg
<1>2. CASE /\ step[p] = "post" /\ enqueue(p, item[p])
           /\ IF IsMessage(item[p]) THEN Accept(item[p]) ELSE UNCHANGED accepted
  <2>1. item[p] \in LogItems
    BY <1>2 DEF TypeInv, CallInv
  <2> QED
    BY <1>1, <1>2, <2>1, EnqueueOrder
<1>3. CASE (WaitForRoom(p) \/ NotifyPush) /\ UNCHANGED accepted
  <2>1. size' = size /\ Queued' = Queued /\ InHand' = InHand /\ hand' = hand
    BY <1>1, <1>3, SameQueued DEF WaitForRoom, NotifyPush, poolVars, InHand
  <2> QED
    BY <1>1, <1>3, <2>1, SameOrder
<1> QED
  BY <1>2, <1>3 DEF post_async_msg

LEMMA OthersOrder ==
  ASSUME TypeInv, OrderInv,
         \/ Construct \/ (\E t \in Threads : Log(t)) \/ Flusher \/ Exit \/ Destructor
         \/ Spill \/ SleeperWakesUp \/ Kill \/ UNCHANGED vars
  PROVE  OrderInv'
<1>1. size' = size /\ Queued' = Queued
  <2>1. UNCHANGED <<v_, head_, tail_>>
    BY DEF Construct, Log, Flusher, FlusherWaits, FlushAllEnds, Exit, Destructor, drop_all,
           StopFlusher, ResetPool, Spill, SleeperWakesUp, WakeUp, Kill, vars, queueVars
  <2> QED
    BY <2>1, SameQueued
<1>2. hand' = hand /\ InHand' = InHand
  <2>1. CASE Construct
    BY <2>1 DEF Construct, InHand, TypeInv, ControlInv, PoolInv
  <2>2. CASE UNCHANGED poolVars
    BY <2>2 DEF poolVars, InHand
  <2> QED
    BY <2>1, <2>2
       DEF Log, Flusher, FlusherWaits, FlushAllEnds, Exit, Destructor, drop_all,
           StopFlusher, ResetPool, Spill, SleeperWakesUp, Kill, vars
<1>3. written' = written /\ accepted' = accepted
  <2>1. UNCHANGED fileVars \/ Flush \/ Spill
    BY DEF Construct, Log, Flusher, FlusherWaits, FlushAllEnds, Exit, Destructor, drop_all,
           StopFlusher, ResetPool, SleeperWakesUp, Kill, vars
  <2> QED
    BY <2>1 DEF fileVars, Flush, Spill
<1> QED
  BY <1>1, <1>2, <1>3, SameOrder

LEMMA NextKeepsOrder ==
  ASSUME TypeInv, TypeInv', RestInv, OrderInv, [Next]_vars
  PROVE  OrderInv'
BY PostAsyncOrder, SinkItOrder, WorkerOrder, OthersOrder DEF Next, Caller


-------------------------------------------------------------------------------
(* The file as a recording of what was accepted.                            *)

LEMMA Prefix ==
  ASSUME NEW s \in Seq(Messages), NEW n \in Nat, n <= Len(s)
  PROVE  /\ SubSeq(s, 1, n) \in Seq(Messages)
         /\ Len(SubSeq(s, 1, n)) = n
         /\ \A i \in 1 .. n : SubSeq(s, 1, n)[i] = s[i]
<1> DEFINE a == SubSeq(s, 1, n)
<1>1. Len(s) \in Nat /\ \A i \in 1 .. Len(s) : s[i] \in Messages
  BY LenProperties, ElementOfSeq
<1>2. \A i \in 1 .. n : s[i] \in Messages
  BY <1>1
<1>3. /\ a \in Seq(Messages)
      /\ Len(a) = IF 1 <= n THEN n - 1 + 1 ELSE 0
      /\ \A i \in 1 .. n - 1 + 1 : a[i] = s[1 + i - 1]
  BY <1>2, SubSeqProperties
<1> HIDE DEF a
<1>4. Len(a) = n /\ \A i \in 1 .. n : a[i] = s[i]
  BY <1>3
<1> QED
  BY <1>3, <1>4 DEF a

LEMMA SamePrefix ==
  ASSUME NEW s \in Seq(Messages), NEW t \in Seq(Messages), NEW n \in Nat,
         n <= Len(s), n <= Len(t), \A i \in 1 .. n : s[i] = t[i]
  PROVE  SubSeq(s, 1, n) = SubSeq(t, 1, n)
<1> DEFINE a == SubSeq(s, 1, n)
           b == SubSeq(t, 1, n)
<1>1. /\ a \in Seq(Messages) /\ b \in Seq(Messages) /\ Len(a) = n /\ Len(b) = n
      /\ \A i \in 1 .. n : a[i] = s[i] /\ b[i] = t[i]
  BY Prefix
<1> HIDE DEF a, b
<1>2. a = b
  BY <1>1, SeqEqual
<1> QED
  BY <1>2 DEF a, b

(* A sequence is what comes up to a place and what comes behind it. *)
LEMMA Rejoined ==
  ASSUME NEW s \in Seq(Messages), NEW n \in Nat, n <= Len(s)
  PROVE  s = SubSeq(s, 1, n) \o SubSeq(s, n + 1, Len(s))
<1> DEFINE a == SubSeq(s, 1, n)
           b == SubSeq(s, n + 1, Len(s))
           l == Len(s)
<1>1. l \in Nat /\ \A i \in 1 .. l : s[i] \in Messages
  BY LenProperties, ElementOfSeq
<1>2. a \in Seq(Messages) /\ Len(a) = n /\ \A i \in 1 .. n : a[i] = s[i]
  BY Prefix
<1>3. \A i \in n + 1 .. l : s[i] \in Messages
  BY <1>1
<1>4. /\ b \in Seq(Messages)
      /\ Len(b) = IF n + 1 <= l THEN l - (n + 1) + 1 ELSE 0
      /\ \A i \in 1 .. l - (n + 1) + 1 : b[i] = s[n + 1 + i - 1]
  BY <1>1, <1>3, SubSeqProperties
<1> HIDE DEF a, b
<1>5. /\ a \o b \in Seq(Messages)
      /\ Len(a \o b) = Len(a) + Len(b)
      /\ \A i \in 1 .. Len(a) + Len(b) :
           (a \o b)[i] = IF i <= Len(a) THEN a[i] ELSE b[i - Len(a)]
  BY <1>2, <1>4, ConcatProperties
<1>6. Len(a) + Len(b) = l
  BY <1>1, <1>2, <1>4
<1>7. ASSUME NEW i \in 1 .. l PROVE s[i] = (a \o b)[i]
  <2>1. CASE i <= n
    BY <1>2, <1>5, <1>6, <2>1
  <2>2. CASE ~(i <= n)
    <3> DEFINE j == i - n
    <3>1. j \in 1 .. l - (n + 1) + 1 /\ n + 1 + j - 1 = i
      BY <1>1, <2>2
    <3>2. (a \o b)[i] = b[j]
      BY <1>2, <1>5, <1>6, <2>2
    <3> HIDE DEF j
    <3> QED
      BY <1>4, <3>1, <3>2
  <2> QED
    BY <2>1, <2>2, Zenon
<1>8. s = a \o b
  BY <1>5, <1>6, <1>7, SeqEqual
<1> QED
  BY <1>8 DEF a, b

Saved == SubSeq(written, 1, disk)

(* What is on the disk does not change while something is written. *)
LEMMA WriteKeepsSaved ==
  ASSUME FileInv, NEW m \in Messages, Write(m)
  PROVE  Saved' = Saved
<1>1. /\ written \in Seq(Messages) /\ written' \in Seq(Messages)
      /\ disk \in Nat /\ disk' = disk /\ disk <= Len(written) /\ disk <= Len(written')
      /\ \A i \in 1 .. disk : written'[i] = written[i]
  BY WriteKeeps, LenProperties DEF FileInv
<1> QED
  BY <1>1, SamePrefix DEF Saved

(* To accept a message is to hear it, and what gets to the disk is saved.   *)
LEMMA AcceptHears ==
  ASSUME AcceptedInv, NEW m \in Messages, Accept(m), Saved' = Saved,
         main' = main, main # "done"
  PROVE  LogFile!Hear
<1> DEFINE a == Len(accepted)
<1>1. /\ accepted \in Seq(Messages) /\ accepted' \in Seq(Messages) /\ a \in Nat
      /\ Len(accepted') = a + 1
      /\ \A i \in 1 .. a : accepted'[i] = accepted[i]
  BY AppendProperties, LenProperties DEF AcceptedInv, Accept
<1>2. SubSeq(accepted', 1, a) = SubSeq(accepted, 1, a)
  BY <1>1, SamePrefix
<1>3. SubSeq(accepted, 1, a) = accepted
  BY <1>1, SubSeqFull
<1> QED
  BY <1>1, <1>2, <1>3 DEF LogFile!Hear, Saved

LEMMA DiskSaves ==
  ASSUME FileInv, FileInv', AcceptedInv, OrderInv,
         written' = written, accepted' = accepted, disk <= disk',
         main # "done", main' # "done"
  PROVE  LogFile!Save
<1> DEFINE h == accepted
           d == disk
           e == disk'
           l == Len(accepted)
<1>1. /\ h \in Seq(Messages) /\ written \in Seq(Messages)
      /\ l \in Nat /\ d \in Nat /\ e \in Nat
      /\ d <= e /\ e <= l /\ e <= Len(written)
      /\ \A i \in 1 .. e : written[i] = h[i]
  <2>1. /\ Len(written) \in Nat /\ l \in Nat /\ d \in Nat /\ e \in Nat
        /\ e <= Len(written) /\ InHand \in Nat /\ Len(written) + InHand <= l
    BY LenProperties, InHandIs DEF OrderInv, FileInv, AcceptedInv
  <2>2. \A i \in 1 .. e : i \in 1 .. Len(written)
    BY <2>1
  <2>3. \A i \in 1 .. e : written[i] = h[i]
    BY <2>2 DEF OrderInv
  <2>4. e <= l
    BY <2>1
  <2> QED
    BY <2>1, <2>3, <2>4 DEF FileInv, AcceptedInv
<1>2. SubSeq(written, 1, e) = SubSeq(h, 1, e)
  BY <1>1, SamePrefix
<1>3. Len(SubSeq(written, 1, d)) = d
  <2>1. d <= Len(written)
    BY DEF FileInv
  <2> QED
    BY <1>1, <2>1, Prefix
<1>4. h = SubSeq(h, 1, e) \o SubSeq(h, e + 1, l)
  BY <1>1, Rejoined
<1> HIDE DEF h, d, e, l
<1> DEFINE k == e - d
<1>5. /\ k \in 0 .. l - d /\ 0 \in 0 .. l - d /\ k + 0 <= l - d
      /\ d + k = e /\ d + k + 0 + 1 = e + 1
  BY <1>1
<1> HIDE DEF k
<1>6. /\ SubSeq(written, 1, e) = SubSeq(h, 1, d + k)
      /\ h = SubSeq(written, 1, e) \o SubSeq(h, d + k + 0 + 1, l)
  BY <1>2, <1>4, <1>5
<1>7. \E i, n \in 0 .. l - d :
        /\ i + n <= l - d
        /\ n > 0 => FALSE
        /\ SubSeq(written, 1, e) = SubSeq(h, 1, d + i)
        /\ h = SubSeq(written, 1, e) \o SubSeq(h, d + i + n + 1, l)
  <2>1. ~(0 > 0)
    OBVIOUS
  <2> QED
    BY <1>5, <1>6, <2>1, Zenon
<1> QED
  BY <1>3, <1>7 DEF LogFile!Save, h, l, d, e

(* Every step but the last one of the destructor. *)
LEMMA StepRecords ==
  ASSUME TypeInv, TypeInv', OrderInv, [Next]_vars, main' # "done" \/ main = "done"
  PROVE  [LogFile!Next]_(LogFile!recordingVars)
<1>0. /\ FileInv /\ FileInv' /\ AcceptedInv
      /\ disk \in Nat /\ disk <= Len(written) /\ Len(written) \in Nat
  BY LenProperties DEF TypeInv, FileInv
<1>1. CASE UNCHANGED fileVars /\ (main = "done" <=> main' = "done")
  <2>1. Saved' = Saved /\ accepted' = accepted
    BY <1>1 DEF fileVars, Saved
  <2> QED
    BY <1>1, <2>1 DEF LogFile!recordingVars, Saved
<1>2. CASE (Flush \/ Spill) /\ main # "done" /\ main' # "done"
  <2>1. written' = written /\ accepted' = accepted /\ disk <= disk'
    BY <1>0, <1>2 DEF Flush, Spill
  <2> QED
    BY <1>0, <1>2, <2>1, DiskSaves DEF LogFile!Next
<1>3. CASE (\E p \in Producers : Caller(p)) /\ main # "done"
  <2> PICK p \in Producers : Caller(p)
    BY <1>3
  <2>1. main' = main
    BY DEF Caller, post_async_msg, sink_it, mainVars
  <2>2. CASE /\ Accept(item[p]) /\ IsMessage(item[p]) /\ item[p] \in LogItems
             /\ UNCHANGED <<written, disk>> \/ Write(item[p])
    <3>1. item[p] \in Messages
      BY <2>2, Kinds DEF IsMessage
    <3>2. Saved' = Saved
      BY <1>0, <2>2, <3>1, WriteKeepsSaved DEF Saved
    <3> QED
      BY <1>0, <1>3, <2>1, <2>2, <3>1, <3>2, AcceptHears DEF LogFile!Next
  <2>3. \/ UNCHANGED fileVars
        \/ Flush
        \/ /\ Accept(item[p]) /\ IsMessage(item[p]) /\ item[p] \in LogItems
           /\ UNCHANGED <<written, disk>> \/ Write(item[p])
    <3>1. step[p] = "post" => item[p] \in LogItems
      BY DEF TypeInv, CallInv
    <3>2. step[p] = "post" /\ mode = "sync" => IsMessage(item[p])
      BY WhatItemsAre DEF TypeInv, CallInv
    <3> QED
      BY <3>1, <3>2 DEF Caller, post_async_msg, sink_it, fileVars
  <2> QED
    BY <1>1, <1>2, <1>3, <2>1, <2>2, <2>3
<1>4. CASE Worker /\ main # "done"
  <2>1. main' = main
    BY <1>4 DEF Worker, Dequeue, Dequeued, backend_sink_it, backend_flush, Release,
                Terminate, mainVars
  <2>2. CASE backend_sink_it
    <3>1. hand \in Messages /\ Write(hand) /\ accepted' = accepted
      BY <2>2 DEF backend_sink_it, TypeInv, PoolInv
    <3>2. Saved' = Saved
      BY <1>0, <3>1, WriteKeepsSaved
    <3> QED
      BY <2>1, <3>1, <3>2 DEF LogFile!recordingVars, Saved
  <2> QED
    BY <1>1, <1>2, <1>4, <2>1, <2>2
       DEF Worker, Dequeue, Dequeued, backend_flush, Release, Terminate
<1>5. CASE /\ main # "done" /\ main' # "done"
           /\ \/ Construct \/ (\E t \in Threads : Log(t)) \/ Flusher \/ Exit \/ Destructor
              \/ SleeperWakesUp \/ Kill
  <2>1. UNCHANGED fileVars \/ Flush
    BY <1>5 DEF Construct, Log, Flusher, FlusherWaits, FlushAllEnds, Exit, Destructor,
                drop_all, StopFlusher, ResetPool, SleeperWakesUp, Kill
  <2> QED
    BY <1>1, <1>2, <1>5, <2>1
<1>6. CASE UNCHANGED vars
  BY <1>1, <1>6 DEF vars, mainVars
<1> QED
  BY <1>2, <1>3, <1>4, <1>5, <1>6 DEF Next, Alive

(* When the destructor is done, the queue is empty, the worker has nothing  *)
(* in hand and who released the logger has closed the file.                 *)
LEMMA DoneSeals ==
  ASSUME TypeInv, ShutdownInv, OrderInv, [Next]_vars, main # "done", main' = "done"
  PROVE  LogFile!Seal
<1>1. ResetPool
  BY DEF Next, Construct, Log, Caller, post_async_msg, sink_it, Worker, Dequeue, Dequeued,
         backend_sink_it, backend_flush, Release, Terminate, Flusher, FlusherWaits,
         FlushAllEnds, Exit, Destructor, drop_all, StopFlusher, Goes, Spill,
         SleeperWakesUp, Kill, vars, mainVars
<1>2. /\ Dropped
      /\ written' = written /\ disk' = disk /\ accepted' = accepted
      /\ mode # "async" \/ (main = "join" /\ worker = "ended")
  BY <1>1 DEF ResetPool, Goes, Dropped, fileVars
<1>3. size = 0 /\ hand = Nothing /\ worker \in {"none", "ended"}
  BY <1>2 DEF ShutdownInv, RestInv, TerminateInv, TypeInv, PoolInv
<1>4. disk = Len(written)
  <2>1. ~ \E i \in 1 .. size : HoldsLogger(Queued[i])
    BY <1>3
  <2> QED
    BY <1>2, <1>3, <2>1, WhatItemsAre DEF ShutdownInv, ClosedInv
<1>5. /\ Len(accepted) = Len(written)
      /\ \A i \in 1 .. Len(written) : written[i] = accepted[i]
  <2>1. InHand = 0 /\ Len(written) \in Nat
    BY <1>3, InHandIs, LenProperties DEF TypeInv, FileInv
  <2> QED
    BY <1>3, <2>1 DEF OrderInv, Counts
<1>6. written = accepted
  BY <1>5, SeqEqual DEF TypeInv, FileInv, AcceptedInv
<1>7. SubSeq(written, 1, disk) = written
  BY <1>4, SubSeqFull DEF TypeInv, FileInv
<1> QED
  BY <1>2, <1>6, <1>7 DEF LogFile!Seal

(* The log file implements the abstract recorder: no message that was       *)
(* accepted is lost, reordered or repeated on its way, whichever thread     *)
(* waits, flushes, drops the logger or is killed, and when the destructor   *)
(* is done all of them are on the disk.                                     *)
THEOREM Implementation == Spec => ImplementsRecording
<1> DEFINE Inv == TypeInv /\ ShutdownInv /\ OrderInv
<1>1. Init => Inv
  BY InitTypeInv, InitShutdown, InitOrder
<1>2. Inv /\ [Next]_vars => Inv'
  BY NextKeepsTypeInv, NextKeepsShutdown, NextKeepsOrder DEF ShutdownInv
<1>3. Init => LogFile!Init
  <2> SUFFICES ASSUME Init PROVE LogFile!Init
    OBVIOUS
  <2>1. SubSeq(<< >>, 1, 0) = << >>
    BY SubSeqEmpty
  <2> QED
    BY <2>1 DEF Init, LogFile!Init
<1>4. Inv /\ Inv' /\ [Next]_vars => [LogFile!Next]_(LogFile!recordingVars)
  <2> SUFFICES ASSUME Inv, Inv', [Next]_vars
               PROVE  [LogFile!Next]_(LogFile!recordingVars)
    OBVIOUS
  <2>1. CASE main # "done" /\ main' = "done"
    BY <2>1, DoneSeals DEF LogFile!Next
  <2> QED
    BY <2>1, StepRecords
<1> HIDE DEF Inv
<1> QED
  BY <1>1, <1>2, <1>3, <1>4, PTL DEF Spec, ImplementsRecording, LogFile!Spec

===============================================================================
