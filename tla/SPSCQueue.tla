----------------------------- MODULE SPSCQueue ------------------------------
(***************************************************************************)
(* pipeline/spsc_queue.h: the bounded blocking queue between two threads   *)
(* of the pipeline, with its ring of slots, its mutex and its two          *)
(* condition variables.                                                    *)
(*                                                                         *)
(* A critical section of mutex_ is one action.  What the code does after   *)
(* it has dropped the mutex, the notification, is an action of its own,    *)
(* so that any other thread may run in between.  wait(lock, predicate) is  *)
(* a thread that stands at "push" or "pop": while it is a member of the    *)
(* condition variable's wait set it sleeps, otherwise it evaluates the     *)
(* predicate again.  A waiting thread may also wake up spuriously.         *)
(*                                                                         *)
(* The values are numbered in the order in which push() is called with     *)
(* them, so that order, loss and duplication can be told from the numbers. *)
(***************************************************************************)
EXTENDS Integers

CONSTANTS Capacity,      \* the constructor's argument
          MaxPushes,     \* bound: how often the producer calls push()
          MaxStops,      \* bound: how many close() and fail() calls are made
          producer,      \* the one data producer
          consumer,      \* the one data consumer
          Controllers,   \* other threads, which only call close() and fail()
          Failures,      \* the exceptions fail() is called with
          NoFailure,     \* a null exception_ptr
          Empty          \* std::nullopt in a slot

Threads == {producer, consumer} \cup Controllers
Items == 1 .. MaxPushes
Slots == 0 .. Capacity - 1

ASSUME CapacityAssumption == Capacity \in Nat \ {0}
ASSUME BoundAssumption == MaxPushes \in Nat /\ MaxStops \in Nat
ASSUME ThreadAssumption ==
  producer # consumer /\ producer \notin Controllers /\ consumer \notin Controllers
ASSUME FailureAssumption == NoFailure \notin Failures
ASSUME EmptyAssumption == Empty \notin Int

VARIABLES
  slots, head, tail, size,   \* the ring
  state, failure,            \* state_, failure_
  depth, highWatermark,      \* the Gauge depth_metric_ points to
  notEmptyWaiters,           \* the threads asleep on not_empty_cv_
  notFullWaiters,            \* the threads asleep on not_full_cv_
  pc,                        \* where each thread stands in its call
  alive,                     \* FALSE once the destructor has run
  pushes,                    \* history: push() calls so far, so the number
                             \* of the value the last call was made with
  delivered,                 \* history: values pop() has returned
  destroyed,                 \* history: values destroyed undelivered
  stops                      \* history: close() and fail() calls so far

ring == <<slots, head, tail, size, depth, highWatermark>>
status == <<state, failure>>
waiters == <<notEmptyWaiters, notFullWaiters>>
history == <<pushes, delivered, destroyed, stops>>
vars == <<ring, status, waiters, pc, alive, history>>

Locations ==
  {"idle", "push", "pop",          \* outside a call; in the wait of push, pop
   "push_notify", "pop_notify",    \* mutex dropped, notify_one still to come
   "notify_empty", "notify_full"}  \* close/fail: notify_all still to come

-----------------------------------------------------------------------------
(* next_index(index) *)
next_index(i) == (i + 1) % Capacity

(* Gauge::increment, decrement and set as the queue uses them; the mutex   *)
(* makes the update of the value and of the high watermark one step.       *)
SetDepth(d) ==
  /\ depth' = d
  /\ highWatermark' = IF d > highWatermark THEN d ELSE highWatermark

Goto(t, l) == pc' = [pc EXCEPT ![t] = l]

(* The threads that can run a critical section: not asleep. *)
Awake(t) == t \notin notEmptyWaiters /\ t \notin notFullWaiters

(* The predicates of the two waits. *)
CanPush == state # "open" \/ size < Capacity
CanPop == state # "open" \/ size > 0

(* The values that sit in the ring. *)
Queued == {slots[i] : i \in Slots} \ {Empty}

Init ==
  /\ slots = [i \in Slots |-> Empty]
  /\ head = 0 /\ tail = 0 /\ size = 0
  /\ state = "open" /\ failure = NoFailure
  /\ depth = 0 /\ highWatermark = 0
  /\ notEmptyWaiters = {} /\ notFullWaiters = {}
  /\ pc = [t \in Threads |-> "idle"]
  /\ alive = TRUE
  /\ pushes = 0 /\ delivered = 0 /\ destroyed = {} /\ stops = 0

-----------------------------------------------------------------------------
(* The producer calls push() with its next value. *)
PushCall ==
  /\ alive
  /\ pc[producer] = "idle"
  /\ pushes < MaxPushes
  /\ pushes' = pushes + 1
  /\ Goto(producer, "push")
  /\ UNCHANGED <<ring, status, waiters, alive, delivered, destroyed, stops>>

(* The predicate is false: the mutex is released and the thread sleeps. *)
PushWait ==
  /\ pc[producer] = "push" /\ Awake(producer)
  /\ ~CanPush
  /\ notFullWaiters' = notFullWaiters \cup {producer}
  /\ UNCHANGED <<ring, status, notEmptyWaiters, pc, alive, history>>

(* push() returns false (closed) or rethrows the stored failure (failed):  *)
(* the parameter that owned the value is destroyed.                        *)
PushReject ==
  /\ pc[producer] = "push" /\ Awake(producer)
  /\ state # "open"
  /\ destroyed' = destroyed \cup {pushes}
  /\ Goto(producer, "idle")
  /\ UNCHANGED <<ring, status, waiters, alive, pushes, delivered, stops>>

(* Mutant: only a failed queue refuses the value, a closed one takes it. *)
PushEnqueueClosed ==
  /\ pc[producer] = "push" /\ Awake(producer)
  /\ state # "failed" /\ size < Capacity
  /\ slots' = [slots EXCEPT ![tail] = pushes]
  /\ tail' = next_index(tail)
  /\ size' = size + 1
  /\ SetDepth(depth + 1)
  /\ Goto(producer, "push_notify")
  /\ UNCHANGED <<head, status, waiters, alive, history>>

(* The value moves into the slot at the tail. *)
PushEnqueue ==
  /\ pc[producer] = "push" /\ Awake(producer)
  /\ state = "open" /\ size < Capacity
  /\ slots' = [slots EXCEPT ![tail] = pushes]
  /\ tail' = next_index(tail)
  /\ size' = size + 1
  /\ SetDepth(depth + 1)
  /\ Goto(producer, "push_notify")
  /\ UNCHANGED <<head, status, waiters, alive, history>>

(* Mutant: push() does not notify. *)
PushNotifyNobody ==
  /\ pc[producer] = "push_notify"
  /\ Goto(producer, "idle")
  /\ UNCHANGED <<ring, status, waiters, alive, history>>

(* notify_one() after the unlock. *)
PushNotify ==
  /\ pc[producer] = "push_notify"
  /\ \/ /\ notEmptyWaiters = {}
        /\ UNCHANGED notEmptyWaiters
     \/ \E t \in notEmptyWaiters : notEmptyWaiters' = notEmptyWaiters \ {t}
  /\ Goto(producer, "idle")
  /\ UNCHANGED <<ring, status, notFullWaiters, alive, history>>

-----------------------------------------------------------------------------
(* The consumer calls pop(). *)
PopCall ==
  /\ alive
  /\ pc[consumer] = "idle"
  /\ Goto(consumer, "pop")
  /\ UNCHANGED <<ring, status, waiters, alive, history>>

PopWait ==
  /\ pc[consumer] = "pop" /\ Awake(consumer)
  /\ ~CanPop
  /\ notEmptyWaiters' = notEmptyWaiters \cup {consumer}
  /\ UNCHANGED <<ring, status, notFullWaiters, pc, alive, history>>

(* pop() rethrows the failure, or returns nullopt when closed and drained. *)
PopEnd ==
  /\ pc[consumer] = "pop" /\ Awake(consumer)
  /\ state = "failed" \/ (state = "closed" /\ size = 0)
  /\ Goto(consumer, "idle")
  /\ UNCHANGED <<ring, status, waiters, alive, history>>

(* Mutant: the slot is not reset when its value is taken. *)
PopDequeueKeepsSlot ==
  /\ pc[consumer] = "pop" /\ Awake(consumer)
  /\ state # "failed" /\ size > 0
  /\ head' = next_index(head)
  /\ size' = size - 1
  /\ SetDepth(depth - 1)
  /\ delivered' = delivered + 1
  /\ Goto(consumer, "pop_notify")
  /\ UNCHANGED <<slots, tail, status, waiters, alive, pushes, destroyed, stops>>

(* The value at the head moves to the consumer, closed or not. *)
PopDequeue ==
  /\ pc[consumer] = "pop" /\ Awake(consumer)
  /\ state # "failed" /\ size > 0
  /\ slots' = [slots EXCEPT ![head] = Empty]
  /\ head' = next_index(head)
  /\ size' = size - 1
  /\ SetDepth(depth - 1)
  /\ delivered' = delivered + 1
  /\ Goto(consumer, "pop_notify")
  /\ UNCHANGED <<tail, status, waiters, alive, pushes, destroyed, stops>>

(* notify_one() after the unlock. *)
PopNotify ==
  /\ pc[consumer] = "pop_notify"
  /\ \/ /\ notFullWaiters = {}
        /\ UNCHANGED notFullWaiters
     \/ \E t \in notFullWaiters : notFullWaiters' = notFullWaiters \ {t}
  /\ Goto(consumer, "idle")
  /\ UNCHANGED <<ring, status, notEmptyWaiters, alive, history>>

-----------------------------------------------------------------------------
(* Mutant: the gauge is not reset. *)
discard_without_gauge ==
  /\ slots' = [i \in Slots |-> Empty]
  /\ head' = 0 /\ tail' = 0 /\ size' = 0
  /\ UNCHANGED <<depth, highWatermark>>
  /\ destroyed' = destroyed \cup Queued

(* discard_queued_values_locked() *)
discard_queued_values_locked ==
  /\ slots' = [i \in Slots |-> Empty]
  /\ head' = 0 /\ tail' = 0 /\ size' = 0
  /\ SetDepth(0)
  /\ destroyed' = destroyed \cup Queued

(* Mutant: close() only notifies the producer. *)
CloseHalfNotified(t) ==
  /\ alive
  /\ pc[t] = "idle"
  /\ stops < MaxStops
  /\ stops' = stops + 1
  /\ state' = IF state = "open" THEN "closed" ELSE state
  /\ Goto(t, "notify_full")
  /\ UNCHANGED <<ring, failure, waiters, alive, pushes, delivered, destroyed>>

(* Mutant: close() discards what is queued. *)
CloseDiscards(t) ==
  /\ alive
  /\ pc[t] = "idle"
  /\ stops < MaxStops
  /\ stops' = stops + 1
  /\ state' = IF state = "open" THEN "closed" ELSE state
  /\ discard_queued_values_locked
  /\ Goto(t, "notify_empty")
  /\ UNCHANGED <<failure, waiters, alive, pushes, delivered>>

(* close() by any thread that is not inside another call. *)
Close(t) ==
  /\ alive
  /\ pc[t] = "idle"
  /\ stops < MaxStops
  /\ stops' = stops + 1
  /\ state' = IF state = "open" THEN "closed" ELSE state
  /\ Goto(t, "notify_empty")
  /\ UNCHANGED <<ring, failure, waiters, alive, pushes, delivered, destroyed>>

(* Mutant: fail() only notifies the producer. *)
FailFirstHalfNotified(t, e) ==
  /\ alive
  /\ pc[t] = "idle"
  /\ stops < MaxStops
  /\ stops' = stops + 1
  /\ state # "failed"
  /\ state' = "failed"
  /\ failure' = e
  /\ discard_queued_values_locked
  /\ Goto(t, "notify_full")
  /\ UNCHANGED <<waiters, alive, pushes, delivered>>

(* fail(e) on a queue that has not failed yet. *)
FailFirst(t, e) ==
  /\ alive
  /\ pc[t] = "idle"
  /\ stops < MaxStops
  /\ stops' = stops + 1
  /\ state # "failed"
  /\ state' = "failed"
  /\ failure' = e
  /\ discard_queued_values_locked
  /\ Goto(t, "notify_empty")
  /\ UNCHANGED <<waiters, alive, pushes, delivered>>

(* fail(e) on a failed queue returns early, without a notification. *)
FailAgain(t) ==
  /\ alive
  /\ pc[t] = "idle"
  /\ stops < MaxStops
  /\ stops' = stops + 1
  /\ state = "failed"
  /\ UNCHANGED <<ring, status, waiters, pc, alive, pushes, delivered, destroyed>>

(* not_empty_cv_.notify_all(), then not_full_cv_.notify_all(). *)
NotifyAllEmpty(t) ==
  /\ pc[t] = "notify_empty"
  /\ notEmptyWaiters' = {}
  /\ Goto(t, "notify_full")
  /\ UNCHANGED <<ring, status, notFullWaiters, alive, history>>

NotifyAllFull(t) ==
  /\ pc[t] = "notify_full"
  /\ notFullWaiters' = {}
  /\ Goto(t, "idle")
  /\ UNCHANGED <<ring, status, notEmptyWaiters, alive, history>>

(* A condition variable may wake a thread without a notification. *)
SpuriousWake(t) ==
  /\ ~Awake(t)
  /\ notEmptyWaiters' = notEmptyWaiters \ {t}
  /\ notFullWaiters' = notFullWaiters \ {t}
  /\ UNCHANGED <<ring, status, pc, alive, history>>

(* ~SPSCQueue, once every thread has stopped using the queue: the slots    *)
(* destroy what they hold and the gauge is reset.                          *)
Destroy ==
  /\ alive
  /\ \A t \in Threads : pc[t] = "idle"
  /\ alive' = FALSE
  /\ discard_queued_values_locked
  /\ UNCHANGED <<status, waiters, pc, pushes, delivered, stops>>

(* Nothing is left to do. *)
Destroyed == ~alive /\ UNCHANGED vars

-----------------------------------------------------------------------------
ProducerStep == PushWait \/ PushReject \/ PushEnqueue \/ PushNotify
ConsumerStep == PopWait \/ PopEnd \/ PopDequeue \/ PopNotify
StopStep(t) == NotifyAllEmpty(t) \/ NotifyAllFull(t)

Next ==
  \/ PushCall \/ ProducerStep
  \/ PopCall \/ ConsumerStep
  \/ \E t \in Threads :
       \/ Close(t) \/ StopStep(t) \/ SpuriousWake(t)
       \/ FailAgain(t)
       \/ \E e \in Failures : FailFirst(t, e)
  \/ Destroy
  \/ Destroyed

Spec == Init /\ [][Next]_vars

(* A thread inside a call keeps running, and the consumer's loop always    *)
(* comes back to pop().  Nobody has to call push, close or fail, and no    *)
(* spurious wake-up may be relied on.                                      *)
Fairness ==
  /\ WF_vars(ProducerStep)
  /\ WF_vars(ConsumerStep)
  /\ WF_vars(PopCall)
  /\ \A t \in Threads : WF_vars(StopStep(t))

FairSpec == Spec /\ Fairness

-----------------------------------------------------------------------------
TypeOK ==
  /\ slots \in [Slots -> Items \cup {Empty}]
  /\ head \in Slots /\ tail \in Slots /\ size \in 0 .. Capacity
  /\ state \in {"open", "closed", "failed"}
  /\ failure \in Failures \cup {NoFailure}
  /\ depth \in Int /\ highWatermark \in Nat
  /\ notEmptyWaiters \subseteq Threads /\ notFullWaiters \subseteq Threads
  /\ pc \in [Threads -> Locations]
  /\ alive \in BOOLEAN
  /\ pushes \in 0 .. MaxPushes /\ delivered \in 0 .. MaxPushes
  /\ destroyed \subseteq Items
  /\ stops \in 0 .. MaxStops

(* Only the producer is inside push(), only the consumer inside pop(), and *)
(* only a thread inside the wait sleeps, and nobody uses a destroyed queue. *)
ThreadsInPlace ==
  /\ \A t \in Threads :
       /\ pc[t] \in {"push", "push_notify"} => t = producer
       /\ pc[t] \in {"pop", "pop_notify"} => t = consumer
  /\ \A t \in notEmptyWaiters : t = consumer /\ pc[t] = "pop"
  /\ \A t \in notFullWaiters : t = producer /\ pc[t] = "push"
  /\ ~alive => \A t \in Threads : pc[t] = "idle"
  /\ state = "failed" <=> failure # NoFailure

(* The slot k places after the head. *)
Offset(k) == (head + k) % Capacity

(* The ring holds exactly the values that follow the last delivered one,   *)
(* in order from head_, and every other slot is empty.  The two asserts of *)
(* the code (push finds slots_[tail_] empty, pop finds slots_[head_] full) *)
(* follow, and so does FIFO delivery without loss or duplication.          *)
RingInOrder ==
  /\ tail = Offset(size)
  /\ \A k \in Slots :
       slots[Offset(k)] = IF k < size THEN delivered + 1 + k ELSE Empty

(* The value a push() in progress still owns. *)
InHand == IF pc[producer] = "push" THEN {pushes} ELSE {}

(* Every value push() was called with is in exactly one place: delivered   *)
(* (the first numbers), queued (the next ones), in the hand of a push() in *)
(* progress, or destroyed.  Nothing is destroyed while the queue is open.  *)
(* A BlockWorkItem that were in no place would be a leaked buffer lease,   *)
(* one in two places a lease released twice.                               *)
ValuesAccounted ==
  /\ delivered + size <= pushes
  /\ InHand # {} => delivered + size < pushes
  /\ destroyed = (delivered + size + 1 .. pushes) \ InHand
  /\ alive /\ state = "open" => destroyed = {}

(* After every critical section the depth gauge shows the occupancy, and   *)
(* its high watermark never exceeds the capacity: discarding resets it and *)
(* no path updates one without the other.                                  *)
GaugeExact ==
  /\ depth = size
  /\ size <= highWatermark /\ highWatermark <= Capacity

(* The notifications of a condition variable that have still to be sent. *)
EmptyNotifyPending ==
  pc[producer] = "push_notify" \/ \E t \in Threads : pc[t] = "notify_empty"
FullNotifyPending ==
  \/ pc[consumer] = "pop_notify"
  \/ \E t \in Threads : pc[t] \in {"notify_empty", "notify_full"}

(* A thread never sleeps on a predicate that is true unless somebody is    *)
(* about to notify it, although every notification is sent after the mutex *)
(* is dropped and the second fail() sends none.                            *)
NoLostWakeup ==
  /\ notEmptyWaiters # {} /\ CanPop => EmptyNotifyPending
  /\ notFullWaiters # {} /\ CanPush => FullNotifyPending

(* The ring as the sequence of queued values. *)
Buffered == [k \in 1 .. size |-> slots[Offset(k - 1)]]

Channel == INSTANCE BoundedChannel
  WITH buffer <- Buffered,
       state <- IF alive THEN state ELSE "destroyed"

(* The queue with its locks, wake-ups and indices implements the abstract  *)
(* channel: its critical sections are the channel's atomic operations.     *)
ImplementsChannel == Channel!Spec

(* Blocked calls return: close() and fail() release a blocked pop(), and   *)
(* they or a consumer that keeps popping release a blocked push().         *)
BlockedCallsReturn ==
  /\ pc[producer] = "push" ~> pc[producer] # "push"
  /\ pc[consumer] = "pop" /\ state # "open" ~> pc[consumer] # "pop"

(* Every accepted value is eventually delivered or destroyed. *)
EveryValueLeaves ==
  \A i \in Items : i \in Queued ~> i \notin Queued
=============================================================================
