-------------------------------- MODULE LogQueue --------------------------------
(***************************************************************************)
(* spdlog's blocking queue (spdlog/details/mpmc_blocking_q.h) over its     *)
(* circular array (spdlog/details/circular_q.h).                           *)
(*                                                                         *)
(* A call locks the mutex, looks, and either sleeps on a condition variable*)
(* or does its work, unlocks, and only then notifies one sleeper of the    *)
(* other side: what is done under the mutex is one step, the notification  *)
(* another.  The module has the steps' effects on the array and on the     *)
(* sleepers; AsyncLogger says which thread takes which step when.          *)
(***************************************************************************)
EXTENDS Naturals, Sequences

CONSTANTS
  QueueSize,   (* the constructor's max_items                               *)
  Items        (* what can be in the queue                                  *)

ASSUME QueueAssumption == QueueSize \in Nat \ {0}

VARIABLES v_, head_, tail_, overrun_counter_, pop_cv_, push_cv_

queueVars == <<v_, head_, tail_, overrun_counter_, pop_cv_, push_cv_>>

max_items_ == QueueSize + 1   (* one slot is kept free *)

Moved == [kind |-> "moved"]   (* what is left of an item that was moved out *)

QueueInit ==
  /\ v_ = [i \in 0 .. QueueSize |-> Moved]
  /\ head_ = 0 /\ tail_ = 0 /\ overrun_counter_ = 0
  /\ pop_cv_ = {} /\ push_cv_ = {}

-------------------------------------------------------------------------------
(* circular_q *)

After(i) == (i + 1) % max_items_

empty == tail_ = head_

full == After(tail_) = head_

size == IF tail_ >= head_ THEN tail_ - head_ ELSE max_items_ - (head_ - tail_)

front == v_[head_]

(* The items from front to back. *)
Queued == [i \in 1 .. size |-> v_[(head_ + i - 1) % max_items_]]

push_back(item) ==
  /\ v_' = [v_ EXCEPT ![tail_] = item]
  /\ tail_' = After(tail_)
  /\ IF tail_' = head_
     THEN head_' = After(head_) /\ overrun_counter_' = overrun_counter_ + 1
     ELSE UNCHANGED <<head_, overrun_counter_>>

(* The front item was moved out before. *)
pop_front ==
  /\ v_' = [v_ EXCEPT ![head_] = Moved]
  /\ head_' = After(head_)
  /\ UNCHANGED <<tail_, overrun_counter_>>

-------------------------------------------------------------------------------
(* mpmc_blocking_queue, for a thread t. *)

(* Mutant: enqueue_nowait, which overruns the oldest item. *)
enqueue_nowait(t, item) ==
  /\ push_back(item)
  /\ UNCHANGED <<pop_cv_, push_cv_>>

(* enqueue: not while the queue is full. *)
enqueue(t, item) ==
  /\ ~full
  /\ push_back(item)
  /\ UNCHANGED <<pop_cv_, push_cv_>>

WaitForRoom(t) ==
  /\ full
  /\ pop_cv_' = pop_cv_ \cup {t}
  /\ UNCHANGED <<v_, head_, tail_, overrun_counter_, push_cv_>>

(* dequeue_for: item is the oldest one. *)
dequeue_for(t, item) ==
  /\ ~empty
  /\ item = front
  /\ pop_front
  /\ UNCHANGED <<pop_cv_, push_cv_>>

WaitForItem(t) ==
  /\ empty
  /\ push_cv_' = push_cv_ \cup {t}
  /\ UNCHANGED <<v_, head_, tail_, overrun_counter_, pop_cv_>>

(* notify_one wakes a sleeper if there is one. *)
NotifyOne(cv, cvAfter) ==
  \/ cv = {} /\ cvAfter = {}
  \/ \E t \in cv : cvAfter = cv \ {t}

NotifyPush ==
  /\ NotifyOne(push_cv_, push_cv_')
  /\ UNCHANGED <<v_, head_, tail_, overrun_counter_, pop_cv_>>

(* Mutant: nobody is told that there is room. *)
NotifyNobody == UNCHANGED queueVars

NotifyPop ==
  /\ NotifyOne(pop_cv_, pop_cv_')
  /\ UNCHANGED <<v_, head_, tail_, overrun_counter_, push_cv_>>

(* A sleeper wakes up on its own: dequeue_for after its timeout, or anyone  *)
(* spuriously.                                                              *)
WakeUp ==
  /\ \E t \in pop_cv_ \cup push_cv_ :
       pop_cv_' = pop_cv_ \ {t} /\ push_cv_' = push_cv_ \ {t}
  /\ UNCHANGED <<v_, head_, tail_, overrun_counter_>>

QueueTypeOK ==
  /\ v_ \in [0 .. QueueSize -> Items \cup {Moved}]
  /\ {head_, tail_} \subseteq 0 .. QueueSize
  /\ \A i \in DOMAIN Queued : Queued[i] \in Items
  /\ overrun_counter_ = 0
===============================================================================
