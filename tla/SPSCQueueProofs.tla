-------------------------- MODULE SPSCQueueProofs ---------------------------
(***************************************************************************)
(* Invariants of SPSCQueue for every capacity, every number of controller  *)
(* threads and every number of calls.                                      *)
(***************************************************************************)
EXTENDS SPSCQueue, SequenceTheorems, TLAPS

(* The inductive invariant: each part needs the others.  RingInOrder needs *)
(* the accounting to know which number a push stores, the accounting needs *)
(* the ring to know which values a discard destroys, and no wake-up is     *)
(* lost because only one thread can sleep on each condition variable.      *)
IInv ==
  /\ TypeOK
  /\ ThreadsInPlace
  /\ RingInOrder
  /\ ValuesAccounted
  /\ GaugeExact
  /\ NoLostWakeup

(* Ring arithmetic: an index less than twice the capacity wraps at most    *)
(* once.                                                                   *)
LEMMA Wrap ==
  ASSUME NEW a \in 0 .. 2 * Capacity - 1
  PROVE  a % Capacity = IF a < Capacity THEN a ELSE a - Capacity
<1>1. CASE a < Capacity
  BY <1>1, CapacityAssumption
<1>2. CASE a >= Capacity
  BY <1>2, CapacityAssumption
<1> QED
  BY <1>1, <1>2, CapacityAssumption

(* The slot k places after h, without the modulus. *)
LEMMA OffsetValue ==
  ASSUME NEW h \in Slots, NEW k \in 0 .. Capacity
  PROVE  /\ (h + k) % Capacity \in Slots
         /\ (h + k) % Capacity = IF h + k < Capacity THEN h + k ELSE h + k - Capacity
BY Wrap, CapacityAssumption DEF Slots

(* One step around the ring, taken before or after walking k places. *)
LEMMA NextOffset ==
  ASSUME NEW h \in Slots, NEW k \in Slots
  PROVE  /\ (((h + k) % Capacity) + 1) % Capacity = (h + (k + 1)) % Capacity
         /\ (((h + 1) % Capacity) + k) % Capacity = (h + (k + 1)) % Capacity
<1> DEFINE a == (h + k) % Capacity
           b == (h + 1) % Capacity
<1>1. h \in 0 .. Capacity - 1 /\ k \in 0 .. Capacity - 1 /\ Capacity \in Nat \ {0}
  BY CapacityAssumption DEF Slots
<1>2. a \in Slots /\ a = IF h + k < Capacity THEN h + k ELSE h + k - Capacity
  BY <1>1, OffsetValue
<1>3. b \in Slots /\ b = IF h + 1 < Capacity THEN h + 1 ELSE h + 1 - Capacity
  BY <1>1, OffsetValue
<1>4. (h + (k + 1)) % Capacity =
        IF h + (k + 1) < Capacity THEN h + (k + 1) ELSE h + (k + 1) - Capacity
  <2>1. k + 1 \in 0 .. Capacity
    BY <1>1
  <2> QED
    BY <2>1, OffsetValue
<1> HIDE DEF a, b
<1>5. (a + 1) % Capacity = IF a + 1 < Capacity THEN a + 1 ELSE a + 1 - Capacity
  BY <1>1, <1>2, OffsetValue
<1>6. (b + k) % Capacity = IF b + k < Capacity THEN b + k ELSE b + k - Capacity
  <2>1. k \in 0 .. Capacity
    BY <1>1
  <2> QED
    BY <1>3, <2>1, OffsetValue
<1>7. (a + 1) % Capacity = (h + (k + 1)) % Capacity
  BY <1>1, <1>2, <1>4, <1>5 DEF Slots
<1>8. (b + k) % Capacity = (h + (k + 1)) % Capacity
  BY <1>1, <1>3, <1>4, <1>6 DEF Slots
<1> QED
  BY <1>7, <1>8 DEF a, b

(* Walking no place or all places leads back, and different distances      *)
(* lead to different slots, which are all the slots there are.             *)
LEMMA OffsetInjective ==
  ASSUME NEW h \in Slots
  PROVE  /\ (h + 0) % Capacity = h
         /\ (h + Capacity) % Capacity = h
         /\ \A j, k \in Slots : (h + j) % Capacity = (h + k) % Capacity => j = k
         /\ \A i \in Slots : \E k \in Slots : (h + k) % Capacity = i
<1>1. h \in 0 .. Capacity - 1 /\ Capacity \in Nat \ {0}
  BY CapacityAssumption DEF Slots
<1>2. (h + 0) % Capacity = h
  BY <1>1, Wrap
<1>3. (h + Capacity) % Capacity = h
  BY <1>1, Wrap
<1>4. ASSUME NEW j \in Slots, NEW k \in Slots,
             (h + j) % Capacity = (h + k) % Capacity
      PROVE  j = k
  <2>1. j \in 0 .. Capacity - 1 /\ k \in 0 .. Capacity - 1
    BY DEF Slots
  <2>2. (h + j) % Capacity = IF h + j < Capacity THEN h + j ELSE h + j - Capacity
    BY <1>1, <2>1, OffsetValue
  <2>3. (h + k) % Capacity = IF h + k < Capacity THEN h + k ELSE h + k - Capacity
    BY <1>1, <2>1, OffsetValue
  <2> QED
    BY <1>1, <1>4, <2>1, <2>2, <2>3
<1>5. ASSUME NEW i \in Slots PROVE \E k \in Slots : (h + k) % Capacity = i
  <2> DEFINE k == IF i >= h THEN i - h ELSE i - h + Capacity
  <2>1. i \in 0 .. Capacity - 1
    BY DEF Slots
  <2>2. k \in 0 .. Capacity - 1
    BY <1>1, <2>1
  <2>3. h + k = i \/ h + k = i + Capacity
    BY <1>1, <2>1
  <2> HIDE DEF k
  <2>4. (h + k) % Capacity = i
    BY <1>1, <2>1, <2>2, <2>3, OffsetValue
  <2> QED
    BY <2>2, <2>4 DEF Slots
<1> QED
  BY <1>2, <1>3, <1>4, <1>5

(* The constructor establishes the invariant. *)
LEMMA InitIInv == Init => IInv
<1> SUFFICES ASSUME Init PROVE IInv
  OBVIOUS
<1> USE CapacityAssumption, BoundAssumption, ThreadAssumption DEF Init
<1>1. TypeOK
  BY DEF TypeOK, Slots, Locations, Threads, Items
<1>2. ThreadsInPlace
  BY DEF ThreadsInPlace
<1>3. RingInOrder
  BY OffsetValue DEF RingInOrder, Offset, Slots
<1>4. ValuesAccounted
  BY DEF ValuesAccounted, InHand, Threads
<1>5. GaugeExact
  BY DEF GaugeExact
<1>6. NoLostWakeup
  BY DEF NoLostWakeup
<1> QED
  BY <1>1, <1>2, <1>3, <1>4, <1>5, <1>6 DEF IInv

(* Every step keeps the variables in their types. *)
LEMMA TypeStep == IInv /\ [Next]_vars => TypeOK'
<1> SUFFICES ASSUME IInv, [Next]_vars PROVE TypeOK'
  OBVIOUS
<1> USE CapacityAssumption, BoundAssumption, ThreadAssumption
    DEF IInv, TypeOK, ring, status, waiters, history, Goto, Locations, Threads
<1>0. \A i \in Slots : next_index(i) \in Slots
  BY OffsetValue DEF next_index, Slots
<1>1. CASE PushCall
  BY <1>1 DEF PushCall
<1>2. CASE PushWait
  BY <1>2 DEF PushWait
<1>3. CASE PushReject
  <2>1. pushes \in Items
    BY <1>3 DEF PushReject, ValuesAccounted, InHand, Items, Slots
  <2> QED
    BY <1>3, <2>1 DEF PushReject
<1>4. CASE PushEnqueue
  <2>1. pushes \in Items
    BY <1>4 DEF PushEnqueue, ValuesAccounted, InHand, Items, Slots
  <2>2. slots' \in [Slots -> Items \cup {Empty}]
    BY <1>4, <2>1 DEF PushEnqueue
  <2>3. tail' \in Slots
    BY <1>4, <1>0 DEF PushEnqueue
  <2>4. /\ size' \in 0 .. Capacity
        /\ depth' \in Int /\ highWatermark' \in Nat
    BY <1>4 DEF PushEnqueue, SetDepth, GaugeExact
  <2> QED
    BY <1>4, <2>2, <2>3, <2>4 DEF PushEnqueue
<1>5. CASE PushNotify
  BY <1>5 DEF PushNotify
<1>6. CASE PopCall
  BY <1>6 DEF PopCall
<1>7. CASE PopWait
  BY <1>7 DEF PopWait
<1>8. CASE PopEnd
  BY <1>8 DEF PopEnd
<1>9. CASE PopDequeue
  <2>1. slots' \in [Slots -> Items \cup {Empty}]
    BY <1>9 DEF PopDequeue
  <2>2. head' \in Slots
    BY <1>9, <1>0 DEF PopDequeue
  <2>3. /\ size' \in 0 .. Capacity
        /\ depth' \in Int /\ highWatermark' \in Nat
        /\ delivered' \in 0 .. MaxPushes
    BY <1>9 DEF PopDequeue, SetDepth, GaugeExact, ValuesAccounted
  <2> QED
    BY <1>9, <2>1, <2>2, <2>3 DEF PopDequeue
<1>10. CASE PopNotify
  BY <1>10 DEF PopNotify
<1>11. ASSUME NEW t \in Threads, Close(t) PROVE TypeOK'
  BY <1>11 DEF Close
<1>12. ASSUME discard_queued_values_locked
       PROVE  /\ slots' \in [Slots -> Items \cup {Empty}]
              /\ head' \in Slots /\ tail' \in Slots /\ size' \in 0 .. Capacity
              /\ depth' \in Int /\ highWatermark' \in Nat
              /\ destroyed' \subseteq Items
  <2>1. Queued \subseteq Items
    BY DEF Queued
  <2> QED
    BY <1>12, <2>1 DEF discard_queued_values_locked, SetDepth, Slots
<1>13. ASSUME NEW t \in Threads, NEW e \in Failures, FailFirst(t, e) PROVE TypeOK'
  BY <1>12, <1>13 DEF FailFirst
<1>14. ASSUME NEW t \in Threads, FailAgain(t) PROVE TypeOK'
  BY <1>14 DEF FailAgain
<1>15. ASSUME NEW t \in Threads, NotifyAllEmpty(t) PROVE TypeOK'
  BY <1>15 DEF NotifyAllEmpty
<1>16. ASSUME NEW t \in Threads, NotifyAllFull(t) PROVE TypeOK'
  BY <1>16 DEF NotifyAllFull
<1>17. ASSUME NEW t \in Threads, SpuriousWake(t) PROVE TypeOK'
  BY <1>17 DEF SpuriousWake
<1>18. CASE Destroy
  BY <1>12, <1>18 DEF Destroy
<1>19. CASE UNCHANGED vars
  BY <1>19 DEF vars
<1> QED
  BY <1>1, <1>2, <1>3, <1>4, <1>5, <1>6, <1>7, <1>8, <1>9, <1>10, <1>11,
     <1>13, <1>14, <1>15, <1>16, <1>17, <1>18, <1>19
     DEF Next, ProducerStep, ConsumerStep, StopStep, Destroyed

(* Every step keeps the threads in their places. *)
LEMMA PlaceStep == IInv /\ [Next]_vars => ThreadsInPlace'
<1> SUFFICES ASSUME IInv, [Next]_vars PROVE ThreadsInPlace'
  OBVIOUS
<1> USE ThreadAssumption, FailureAssumption
    DEF IInv, TypeOK, ThreadsInPlace, ring, status, waiters, history, Goto, Awake
<1>1. CASE PushCall \/ PushWait \/ PushReject \/ PushEnqueue \/ PushNotify
  BY <1>1 DEF PushCall, PushWait, PushReject, PushEnqueue, PushNotify, Threads
<1>2. CASE PopCall \/ PopWait \/ PopEnd \/ PopDequeue \/ PopNotify
  BY <1>2 DEF PopCall, PopWait, PopEnd, PopDequeue, PopNotify, Threads
<1>3. ASSUME NEW t \in Threads, Close(t) PROVE ThreadsInPlace'
  BY <1>3 DEF Close
<1>4. ASSUME NEW t \in Threads, NEW e \in Failures, FailFirst(t, e)
      PROVE  ThreadsInPlace'
  BY <1>4 DEF FailFirst
<1>5. ASSUME NEW t \in Threads,
             FailAgain(t) \/ NotifyAllEmpty(t) \/ NotifyAllFull(t) \/ SpuriousWake(t)
      PROVE  ThreadsInPlace'
  BY <1>5 DEF FailAgain, NotifyAllEmpty, NotifyAllFull, SpuriousWake
<1>6. CASE Destroy \/ UNCHANGED vars
  BY <1>6 DEF Destroy, vars
<1> QED
  BY <1>1, <1>2, <1>3, <1>4, <1>5, <1>6
     DEF Next, ProducerStep, ConsumerStep, StopStep, Destroyed

(* Every step keeps the values in the ring in order. *)
LEMMA RingStep == IInv /\ [Next]_vars => RingInOrder'
<1> SUFFICES ASSUME IInv, [Next]_vars PROVE RingInOrder'
  OBVIOUS
<1> USE CapacityAssumption DEF IInv
<1>1. CASE UNCHANGED <<slots, head, tail, size, delivered>>
  BY <1>1 DEF RingInOrder, Offset
<1>2. CASE PushEnqueue
  <2>0. /\ head \in Slots /\ tail \in Slots /\ size \in Slots
        /\ pushes \in Nat /\ delivered \in Nat
        /\ slots \in [Slots -> Items \cup {Empty}]
    BY <1>2 DEF PushEnqueue, TypeOK, Slots
  <2>1. pushes = delivered + size + 1
    <3>1. destroyed = {} /\ pushes > delivered + size
      <4>1. alive
        BY <1>2 DEF PushEnqueue, ThreadsInPlace, Threads
      <4> QED
        BY <1>2, <2>0, <4>1 DEF PushEnqueue, ValuesAccounted, InHand, Slots
    <3>2. destroyed = (delivered + size + 1 .. pushes) \ {pushes}
      BY <1>2 DEF PushEnqueue, ValuesAccounted, InHand
    <3>3. delivered + size + 1 \in Int
      BY <2>0 DEF Slots
    <3> QED
      BY <2>0, <3>1, <3>2, <3>3 DEF Slots
  <2>2. tail' = (head + (size + 1)) % Capacity
    BY <1>2, <2>0, NextOffset DEF PushEnqueue, next_index, RingInOrder, Offset
  <2>3. ASSUME NEW k \in Slots
        PROVE  slots'[Offset(k)] = IF k < size + 1 THEN delivered + 1 + k ELSE Empty
    <3>1. Offset(k) \in Slots
      BY <2>0, OffsetValue DEF Offset, Slots
    <3>2. Offset(k) = tail <=> k = size
      <4>1. tail = (head + size) % Capacity
        BY DEF RingInOrder, Offset
      <4>2. \A i, j \in Slots : (head + i) % Capacity = (head + j) % Capacity => i = j
        BY <2>0, OffsetInjective
      <4> QED
        BY <2>0, <4>1, <4>2 DEF Offset
    <3>3. slots'[Offset(k)] = IF k = size THEN pushes ELSE slots[Offset(k)]
      BY <1>2, <2>0, <3>1, <3>2 DEF PushEnqueue
    <3>4. slots[Offset(k)] = IF k < size THEN delivered + 1 + k ELSE Empty
      BY DEF RingInOrder
    <3>5. CASE k = size
      <4>1. k < size + 1 /\ pushes = delivered + 1 + k
        BY <2>0, <2>1, <3>5 DEF Slots
      <4> QED
        BY <3>3, <3>5, <4>1
    <3>6. CASE k # size
      <4>1. k < size + 1 <=> k < size
        BY <2>0, <3>6 DEF Slots
      <4> QED
        BY <3>3, <3>4, <3>6, <4>1
    <3> QED
      BY <3>5, <3>6
  <2>4. head' = head /\ size' = size + 1 /\ delivered' = delivered
    BY <1>2 DEF PushEnqueue, history
  <2> QED
    BY <2>2, <2>3, <2>4 DEF RingInOrder, Offset
<1>3. CASE PopDequeue
  <2>1. /\ head' = (head + 1) % Capacity /\ tail' = tail
        /\ size' = size - 1 /\ delivered' = delivered + 1
        /\ slots' = [slots EXCEPT ![head] = Empty]
    BY <1>3 DEF PopDequeue, next_index
  <2>0. /\ head \in Slots /\ size \in 1 .. Capacity /\ size - 1 \in Slots
        /\ delivered \in Nat
        /\ slots \in [Slots -> Items \cup {Empty}]
    BY <1>3 DEF PopDequeue, TypeOK, Slots
  <2>2. ASSUME NEW k \in Slots
        PROVE  (head' + k) % Capacity = (head + (k + 1)) % Capacity
    BY <2>0, <2>1, NextOffset
  <2>3. tail' = (head' + (size - 1)) % Capacity
    <3>1. (head' + (size - 1)) % Capacity = (head + ((size - 1) + 1)) % Capacity
      BY <2>0, <2>2
    <3>2. (size - 1) + 1 = size
      BY <2>0
    <3> QED
      BY <2>1, <3>1, <3>2 DEF RingInOrder, Offset
  <2>4. ASSUME NEW k \in Slots
        PROVE  slots'[(head' + k) % Capacity] =
                 IF k < size - 1 THEN (delivered + 1) + 1 + k ELSE Empty
    <3>1. CASE k + 1 \in Slots
      <4>1. Offset(k + 1) \in Slots
        BY <2>0, <3>1, OffsetValue DEF Offset, Slots
      <4>2. Offset(k + 1) # head
        <5>1. 0 \in Slots /\ k + 1 # 0
          BY DEF Slots
        <5> QED
          BY <2>0, <3>1, <5>1, OffsetInjective DEF Offset
      <4>3. slots'[(head' + k) % Capacity] = slots[Offset(k + 1)]
        BY <2>0, <2>1, <2>2, <4>1, <4>2 DEF Offset
      <4>4. slots[Offset(k + 1)] = IF k + 1 < size THEN delivered + 1 + (k + 1) ELSE Empty
        BY <3>1 DEF RingInOrder
      <4> QED
        BY <2>0, <4>3, <4>4 DEF Slots
    <3>2. CASE k = Capacity - 1
      <4>1. (head' + k) % Capacity = (head + (k + 1)) % Capacity /\ k + 1 = Capacity
        BY <2>2, <3>2
      <4>2. (head' + k) % Capacity = head
        BY <2>0, <4>1, OffsetInjective
      <4>3. ~(k < size - 1)
        BY <2>0, <3>2
      <4> QED
        BY <2>0, <2>1, <4>2, <4>3
    <3> QED
      BY <3>1, <3>2 DEF Slots
  <2> QED
    BY <2>1, <2>3, <2>4 DEF RingInOrder, Offset
<1>4. CASE discard_queued_values_locked
  <2>1. /\ slots' = [i \in Slots |-> Empty]
        /\ head' = 0 /\ tail' = 0 /\ size' = 0
    BY <1>4 DEF discard_queued_values_locked
  <2> QED
    BY <2>1, OffsetValue DEF RingInOrder, Offset, Slots
<1> QED
  BY <1>1, <1>2, <1>3, <1>4
     DEF Next, ProducerStep, ConsumerStep, StopStep, Destroyed, vars, ring, history,
         PushCall, PushWait, PushReject, PushNotify, PopCall, PopWait, PopEnd,
         PopNotify, Close, FailFirst, FailAgain, NotifyAllEmpty, NotifyAllFull,
         SpuriousWake, Destroy

(* The values in the ring are the ones that follow the delivered ones. *)
LEMMA QueuedValues ==
  ASSUME IInv
  PROVE  Queued = delivered + 1 .. delivered + size
<1>0. /\ head \in Slots /\ size \in 0 .. Capacity /\ delivered \in Nat
      /\ Empty \notin Int
  BY EmptyAssumption DEF IInv, TypeOK
<1>1. ASSUME NEW v \in Queued PROVE v \in delivered + 1 .. delivered + size
  <2>1. PICK i \in Slots : v = slots[i] /\ v # Empty
    BY DEF Queued
  <2>2. PICK k \in Slots : (head + k) % Capacity = i
    BY <1>0, OffsetInjective
  <2>3. v = IF k < size THEN delivered + 1 + k ELSE Empty
    BY <2>1, <2>2 DEF IInv, RingInOrder, Offset
  <2>4. k < size /\ v = delivered + 1 + k
    BY <2>1, <2>3
  <2> QED
    BY <1>0, <2>4 DEF Slots
<1>2. ASSUME NEW v \in delivered + 1 .. delivered + size PROVE v \in Queued
  <2> DEFINE k == v - delivered - 1
  <2>1. k \in Slots /\ k < size /\ delivered + 1 + k = v
    BY <1>0, CapacityAssumption DEF Slots
  <2> HIDE DEF k
  <2>2. slots[Offset(k)] = v
    BY <2>1 DEF IInv, RingInOrder
  <2>3. Offset(k) \in Slots
    BY <1>0, <2>1, OffsetValue, CapacityAssumption DEF Offset, Slots
  <2>4. v # Empty
    BY <1>0
  <2> QED
    BY <2>2, <2>3, <2>4 DEF Queued
<1> QED
  BY <1>1, <1>2

(* Every step keeps each value in exactly one place. *)
LEMMA AccountStep == IInv /\ [Next]_vars => ValuesAccounted'
<1> SUFFICES ASSUME IInv, [Next]_vars PROVE ValuesAccounted'
  OBVIOUS
<1> USE DEF ValuesAccounted, InHand
<1>0. /\ size \in 0 .. Capacity /\ delivered \in Nat /\ pushes \in Nat
      /\ destroyed \subseteq Items
      /\ ValuesAccounted
  BY BoundAssumption, CapacityAssumption DEF IInv, TypeOK
<1>1. CASE /\ UNCHANGED <<size, delivered, pushes, destroyed, alive>>
           /\ pc'[producer] = "push" <=> pc[producer] = "push"
           /\ alive' /\ state' = "open" => state = "open"
  BY <1>0, <1>1
<1>2. CASE PushCall
  <2>1. /\ pc[producer] = "idle" /\ pc'[producer] = "push"
        /\ pushes' = pushes + 1
        /\ UNCHANGED <<size, delivered, destroyed, alive, state>>
    BY <1>2 DEF PushCall, Goto, ring, status, IInv, TypeOK, Threads
  <2> QED
    BY <1>0, <2>1
<1>3. CASE PushReject
  <2>1. /\ pc[producer] = "push" /\ pc'[producer] = "idle" /\ state # "open"
        /\ destroyed' = destroyed \cup {pushes}
        /\ UNCHANGED <<size, delivered, pushes, alive, state>>
    BY <1>3 DEF PushReject, Goto, ring, status, IInv, TypeOK, Threads
  <2> QED
    BY <1>0, <2>1
<1>4. CASE PushEnqueue
  <2>1. /\ pc[producer] = "push" /\ pc'[producer] = "push_notify" /\ state = "open"
        /\ size' = size + 1
        /\ UNCHANGED <<delivered, destroyed, pushes, alive, state>>
    BY <1>4 DEF PushEnqueue, Goto, history, status, IInv, TypeOK, Threads
  <2>2. alive
    BY <2>1 DEF IInv, ThreadsInPlace, Threads
  <2>3. destroyed = {} /\ destroyed = (delivered + size + 1 .. pushes) \ {pushes}
    BY <1>0, <2>1, <2>2
  <2>4. pushes = delivered + size + 1
    <3>1. pushes > delivered + size /\ delivered + size + 1 \in Int
      BY <1>0, <2>1
    <3> QED
      BY <1>0, <2>3, <3>1
  <2> QED
    BY <1>0, <2>1, <2>3, <2>4
<1>5. CASE PopDequeue
  <2>1. /\ size > 0 /\ size' = size - 1 /\ delivered' = delivered + 1
        /\ pc'[producer] = pc[producer]
        /\ UNCHANGED <<destroyed, pushes, alive, state>>
    BY <1>5, ThreadAssumption DEF PopDequeue, Goto, status, IInv, TypeOK, Threads
  <2>2. delivered' + size' = delivered + size
    BY <1>0, <2>1
  <2> QED
    BY <1>0, <2>1, <2>2
<1>6. CASE /\ discard_queued_values_locked
           /\ UNCHANGED <<delivered, pushes>>
           /\ pc'[producer] = "push" <=> pc[producer] = "push"
           /\ state' # "open" \/ ~alive'
  <2>1. size' = 0 /\ destroyed' = destroyed \cup (delivered + 1 .. delivered + size)
    BY <1>6, QueuedValues DEF discard_queued_values_locked
  <2> QED
    BY <1>0, <1>6, <2>1
<1>7. ASSUME NEW t \in Threads, NEW e \in Failures, FailFirst(t, e)
      PROVE  ValuesAccounted'
  BY <1>6, <1>7 DEF FailFirst, Goto, IInv, TypeOK, Threads
<1>8. CASE Destroy
  BY <1>6, <1>8 DEF Destroy
<1> QED
  BY <1>1, <1>2, <1>3, <1>4, <1>5, <1>7, <1>8, ThreadAssumption
     DEF Next, ProducerStep, ConsumerStep, StopStep, Destroyed, vars, ring, history,
         status, Goto, PushWait, PushNotify, PopCall, PopWait, PopEnd,
         PopNotify, Close, FailAgain, NotifyAllEmpty, NotifyAllFull,
         SpuriousWake, IInv, TypeOK, Threads

(* Every step keeps the gauge equal to the occupancy. *)
LEMMA GaugeStep == IInv /\ [Next]_vars => GaugeExact'
<1> SUFFICES ASSUME IInv, [Next]_vars PROVE GaugeExact'
  OBVIOUS
<1>0. /\ size \in 0 .. Capacity /\ depth \in Int /\ highWatermark \in Nat
      /\ GaugeExact
  BY DEF IInv, TypeOK
<1> USE CapacityAssumption DEF GaugeExact
<1>1. CASE UNCHANGED ring
  BY <1>0, <1>1 DEF ring
<1>2. CASE PushEnqueue \/ PopDequeue
  BY <1>0, <1>2 DEF PushEnqueue, PopDequeue, SetDepth
<1>3. CASE discard_queued_values_locked
  BY <1>0, <1>3 DEF discard_queued_values_locked, SetDepth
<1> QED
  BY <1>1, <1>2, <1>3
     DEF Next, ProducerStep, ConsumerStep, StopStep, Destroyed, vars,
         PushCall, PushWait, PushReject, PushNotify, PopCall, PopWait, PopEnd,
         PopNotify, Close, FailFirst, FailAgain, NotifyAllEmpty, NotifyAllFull,
         SpuriousWake, Destroy

(* Every step keeps a notification pending for a thread that sleeps on a   *)
(* true predicate.                                                         *)
LEMMA WakeStep == IInv /\ [Next]_vars => NoLostWakeup'
<1> SUFFICES ASSUME IInv, [Next]_vars PROVE NoLostWakeup'
  OBVIOUS
<1>0. /\ size \in 0 .. Capacity
      /\ pc \in [Threads -> Locations]
      /\ notEmptyWaiters \subseteq {consumer} /\ notFullWaiters \subseteq {producer}
      /\ notEmptyWaiters # {} => pc[consumer] = "pop"
      /\ notFullWaiters # {} => pc[producer] = "push"
      /\ producer \in Threads /\ consumer \in Threads /\ producer # consumer
  BY ThreadAssumption DEF IInv, TypeOK, ThreadsInPlace, Threads
<1>1. NoLostWakeup
  BY DEF IInv
<1> USE CapacityAssumption
    DEF NoLostWakeup, CanPush, CanPop, EmptyNotifyPending, FullNotifyPending,
        ring, status, waiters, history, Goto
<1>2. CASE PushCall \/ PushReject \/ PopCall \/ PopEnd
  BY <1>0, <1>1, <1>2 DEF PushCall, PushReject, PopCall, PopEnd, Awake
<1>3. CASE PushWait \/ PopWait
  BY <1>0, <1>1, <1>3 DEF PushWait, PopWait
<1>4. CASE PushEnqueue
  BY <1>0, <1>1, <1>4 DEF PushEnqueue, Awake
<1>5. CASE PushNotify
  BY <1>0, <1>1, <1>5 DEF PushNotify
<1>6. CASE PopDequeue
  BY <1>0, <1>1, <1>6 DEF PopDequeue, Awake
<1>7. CASE PopNotify
  BY <1>0, <1>1, <1>7 DEF PopNotify
<1>8. ASSUME NEW t \in Threads, NEW e \in Failures, FailFirst(t, e)
      PROVE  NoLostWakeup'
  <2>1. pc'[t] = "notify_empty"
    BY <1>0, <1>8 DEF FailFirst
  <2> QED
    BY <2>1
<1>9. ASSUME NEW t \in Threads, NotifyAllEmpty(t) PROVE NoLostWakeup'
  <2>1. pc'[t] = "notify_full" /\ notEmptyWaiters' = {}
    BY <1>0, <1>9 DEF NotifyAllEmpty
  <2> QED
    BY <2>1
<1>10. ASSUME NEW t \in Threads, NotifyAllFull(t) PROVE NoLostWakeup'
  BY <1>0, <1>1, <1>10 DEF NotifyAllFull
<1>11. ASSUME NEW t \in Threads, SpuriousWake(t) \/ FailAgain(t) PROVE NoLostWakeup'
  BY <1>0, <1>1, <1>11 DEF SpuriousWake, FailAgain
<1>12. CASE Destroy
  <2>1. notEmptyWaiters = {} /\ notFullWaiters = {}
    BY <1>0, <1>12 DEF Destroy
  <2> QED
    BY <1>12, <2>1 DEF Destroy
<1>13. CASE UNCHANGED vars
  BY <1>1, <1>13 DEF vars
<1>14. ASSUME NEW t \in Threads, Close(t) PROVE NoLostWakeup'
  <2>1. pc'[t] = "notify_empty"
    BY <1>0, <1>14 DEF Close
  <2> QED
    BY <2>1
<1> QED
  BY <1>2, <1>3, <1>4, <1>5, <1>6, <1>7, <1>8, <1>9, <1>10, <1>11, <1>12, <1>13, <1>14
     DEF Next, ProducerStep, ConsumerStep, StopStep, Destroyed

(* IInv is an invariant of the queue. *)
THEOREM InductiveInvariant == Spec => []IInv
<1>1. IInv /\ [Next]_vars => IInv'
  BY TypeStep, PlaceStep, RingStep, AccountStep, GaugeStep, WakeStep DEF IInv
<1> QED
  BY InitIInv, <1>1, PTL DEF Spec

(* Every variable of the queue keeps its type, whatever the capacity, the  *)
(* number of controlling threads and the calls they make.                  *)
THEOREM TypeCorrect == Spec => []TypeOK
<1>1. IInv => TypeOK
  BY DEF IInv
<1> QED
  BY InductiveInvariant, <1>1, PTL

(* For every capacity the ring delivers in order, without loss and without *)
(* duplication, and the asserts in push() and pop() hold.                  *)
THEOREM RingIsFifo == Spec => []RingInOrder
<1>1. IInv => RingInOrder
  BY DEF IInv
<1> QED
  BY InductiveInvariant, <1>1, PTL

(* Every value, and the buffer lease it owns, is always in exactly one     *)
(* place: delivered, queued, held by a push in progress, or destroyed.     *)
THEOREM NothingLeaks == Spec => []ValuesAccounted
<1>1. IInv => ValuesAccounted
  BY DEF IInv
<1> QED
  BY InductiveInvariant, <1>1, PTL

(* The occupancy gauge agrees with the ring and never exceeds the capacity. *)
THEOREM GaugeAgrees == Spec => []GaugeExact
<1>1. IInv => GaugeExact
  BY DEF IInv
<1> QED
  BY InductiveInvariant, <1>1, PTL

(* No interleaving of pushes, pops, closes and failures loses a wake-up,   *)
(* although every notification is sent outside the mutex.                  *)
THEOREM WakeupsAreNeverLost == Spec => []NoLostWakeup
<1>1. IInv => NoLostWakeup
  BY DEF IInv
<1> QED
  BY InductiveInvariant, <1>1, PTL

-----------------------------------------------------------------------------
(* The abstraction of the ring is the sequence of the numbers that follow  *)
(* the delivered ones.                                                     *)
LEMMA BufferedValues ==
  ASSUME IInv
  PROVE  /\ Buffered = [k \in 1 .. size |-> delivered + k]
         /\ Buffered \in Seq(Int) /\ Len(Buffered) = size
<1>0. size \in 0 .. Capacity /\ delivered \in Nat /\ Capacity \in Nat
  BY CapacityAssumption DEF IInv, TypeOK
<1>1. ASSUME NEW k \in 1 .. size PROVE slots[Offset(k - 1)] = delivered + k
  <2>1. k - 1 \in Slots /\ k - 1 < size /\ delivered + 1 + (k - 1) = delivered + k
    BY <1>0 DEF Slots
  <2> QED
    BY <2>1 DEF IInv, RingInOrder
<1>2. Buffered = [k \in 1 .. size |-> delivered + k]
  BY <1>1 DEF Buffered
<1>3. [k \in 1 .. size |-> delivered + k] \in Seq(Int)
  BY <1>0
<1>4. Len([k \in 1 .. size |-> delivered + k]) = size
  BY <1>0
<1> QED
  BY <1>2, <1>3, <1>4

(* Appending to and taking from a run of consecutive numbers. *)
LEMMA RunAppend ==
  ASSUME NEW d \in Nat, NEW n \in Nat
  PROVE  Append([k \in 1 .. n |-> d + k], d + n + 1) = [k \in 1 .. n + 1 |-> d + k]
OBVIOUS

LEMMA RunTail ==
  ASSUME NEW d \in Nat, NEW n \in Nat \ {0}
  PROVE  /\ [k \in 1 .. n |-> d + k] # <<>>
         /\ Head([k \in 1 .. n |-> d + k]) = d + 1
         /\ Tail([k \in 1 .. n |-> d + k]) = [k \in 1 .. n - 1 |-> d + 1 + k]
<1> DEFINE s == [k \in 1 .. n |-> d + k]
<1>1. s \in Seq(Int) /\ Len(s) = n /\ \A k \in 1 .. n : s[k] = d + k
  OBVIOUS
<1> HIDE DEF s
<1>2. s # <<>> /\ Head(s) = d + 1
  BY <1>1
<1>3. /\ Tail(s) \in Seq(Int) /\ Len(Tail(s)) = n - 1
      /\ \A k \in 1 .. n - 1 : Tail(s)[k] = d + 1 + k
  BY <1>1, <1>2
<1>4. Tail(s) = [k \in 1 .. n - 1 |-> d + 1 + k]
  <2> DEFINE t == [k \in 1 .. n - 1 |-> d + 1 + k]
  <2>1. t \in Seq(Int) /\ Len(t) = n - 1 /\ \A k \in 1 .. n - 1 : t[k] = d + 1 + k
    OBVIOUS
  <2> HIDE DEF t
  <2>2. Tail(s) = t
    BY <1>3, <2>1, SeqEqual
  <2> QED
    BY <2>2 DEF t
<1> QED
  BY <1>2, <1>4 DEF s

(* A new queue is a new channel. *)
LEMMA ChannelInit == Init => Channel!Init
<1> SUFFICES ASSUME Init PROVE Channel!Init
  OBVIOUS
<1>1. IInv
  BY InitIInv
<1>2. Buffered = <<>>
  BY <1>1, BufferedValues DEF Init
<1> QED
  BY <1>2 DEF Init, Channel!Init

(* The critical sections of the queue are the operations of the channel,   *)
(* and every other step is invisible.                                      *)
LEMMA ChannelStep ==
  IInv /\ IInv' /\ [Next]_vars => [Channel!Next]_(Channel!chanVars)
<1> SUFFICES ASSUME IInv, IInv', [Next]_vars
             PROVE  Channel!Next \/ UNCHANGED Channel!chanVars
  OBVIOUS
<1>0. /\ size \in 0 .. Capacity /\ delivered \in Nat /\ pushes \in 0 .. MaxPushes
      /\ Capacity \in Nat /\ MaxPushes \in Nat
      /\ delivered + size <= pushes
  BY CapacityAssumption, BoundAssumption DEF IInv, TypeOK, ValuesAccounted
<1>1. Buffered = [k \in 1 .. size |-> delivered + k] /\ Len(Buffered) = size
  BY BufferedValues
<1>2. Buffered' = [k \in 1 .. size' |-> delivered' + k]
  <2>1. Buffered' = [k \in 1 .. size' |-> slots'[Offset(k - 1)']]
    BY DEF Buffered
  <2>2. ASSUME NEW k \in 1 .. size' PROVE slots'[Offset(k - 1)'] = delivered' + k
    <3>1. size' \in 0 .. Capacity /\ delivered' \in Nat
      BY DEF IInv, TypeOK
    <3>2. k - 1 \in Slots /\ k - 1 < size' /\ delivered' + 1 + (k - 1) = delivered' + k
      BY <1>0, <3>1 DEF Slots
    <3> QED
      BY <3>2 DEF IInv, RingInOrder
  <2> QED
    BY <2>1, <2>2
<1>3. CASE UNCHANGED <<size, delivered, state, failure, alive>>
  BY <1>1, <1>2, <1>3 DEF Channel!chanVars
<1>4. CASE PushEnqueue
  <2>1. /\ pc[producer] = "push" /\ state = "open" /\ size < Capacity
        /\ size' = size + 1
        /\ UNCHANGED <<delivered, pushes, destroyed, state, failure, alive>>
    BY <1>4 DEF PushEnqueue, history, status
  <2>2. alive
    BY <2>1 DEF IInv, ThreadsInPlace, Threads
  <2>3. pushes = delivered + size + 1
    <3>1. delivered' + size' <= pushes'
      BY DEF IInv, ValuesAccounted
    <3>2. destroyed = {} /\ destroyed = (delivered + size + 1 .. pushes) \ {pushes}
      BY <2>1, <2>2 DEF IInv, ValuesAccounted, InHand
    <3>3. delivered + size + 1 \in Int
      BY <1>0
    <3> QED
      BY <1>0, <2>1, <3>1, <3>2, <3>3
  <2>4. pushes \in Items
    BY <1>0, <2>3 DEF Items
  <2>5. Buffered' = Append(Buffered, pushes)
    BY <1>0, <1>1, <1>2, <2>1, <2>3, RunAppend
  <2>6. Channel!Push(pushes)
    BY <1>1, <2>1, <2>2, <2>5 DEF Channel!Push
  <2> QED
    BY <2>4, <2>6 DEF Channel!Next
<1>5. CASE PopDequeue
  <2>1. /\ pc[consumer] = "pop" /\ state # "failed" /\ size > 0
        /\ size' = size - 1 /\ delivered' = delivered + 1
        /\ UNCHANGED <<state, failure, alive>>
    BY <1>5 DEF PopDequeue, status
  <2>2. alive /\ state \in {"open", "closed"}
    BY <2>1 DEF IInv, ThreadsInPlace, Threads, TypeOK
  <2>3. delivered + 1 \in Items
    BY <1>0, <2>1 DEF Items
  <2>4. /\ Buffered # <<>> /\ Head(Buffered) = delivered + 1
        /\ Buffered' = Tail(Buffered)
    <3>1. size \in Nat \ {0}
      BY <1>0, <2>1
    <3>2. Buffered' = [k \in 1 .. size - 1 |-> delivered + 1 + k]
      BY <1>2, <2>1
    <3> QED
      BY <1>0, <1>1, <3>1, <3>2, RunTail
  <2>5. Channel!Pop(delivered + 1)
    BY <2>1, <2>2, <2>4 DEF Channel!Pop
  <2> QED
    BY <2>3, <2>5 DEF Channel!Next
<1>6. ASSUME NEW t \in Threads, Close(t) PROVE Channel!Next
  <2>1. /\ alive /\ alive'
        /\ state' = IF state = "open" THEN "closed" ELSE state
        /\ UNCHANGED <<size, delivered, failure>>
    BY <1>6 DEF Close, ring
  <2>2. Buffered' = Buffered
    BY <1>1, <1>2, <2>1
  <2> QED
    BY <2>1, <2>2 DEF Channel!Next, Channel!Close
<1>7. ASSUME size' = 0 PROVE Buffered' = <<>>
  BY <1>2, <1>7
<1>8. ASSUME NEW t \in Threads, NEW e \in Failures, FailFirst(t, e)
      PROVE  Channel!Next
  <2>1. /\ alive /\ alive' /\ state # "failed" /\ state' = "failed"
        /\ failure' = e /\ size' = 0 /\ state # "destroyed"
    BY <1>8 DEF FailFirst, discard_queued_values_locked, IInv, TypeOK
  <2>2. Channel!Fail(e)
    BY <1>7, <2>1 DEF Channel!Fail
  <2> QED
    BY <2>2 DEF Channel!Next
<1>9. CASE Destroy
  <2>1. /\ alive /\ ~alive' /\ failure' = failure /\ size' = 0
        /\ state # "destroyed"
    BY <1>9 DEF Destroy, discard_queued_values_locked, status, IInv, TypeOK
  <2>2. Channel!Destroy
    BY <1>7, <2>1 DEF Channel!Destroy
  <2> QED
    BY <2>2 DEF Channel!Next
<1> QED
  BY <1>3, <1>4, <1>5, <1>6, <1>8, <1>9
     DEF Next, ProducerStep, ConsumerStep, StopStep, Destroyed, vars, ring, history,
         status, PushCall, PushWait, PushReject, PushNotify, PopCall, PopWait, PopEnd,
         PopNotify, FailAgain, NotifyAllEmpty, NotifyAllFull, SpuriousWake

(* For every capacity the queue, with its ring, its mutex and its late     *)
(* notifications, implements the bounded channel the executor relies on.   *)
THEOREM QueueRefinesChannel == Spec => ImplementsChannel
<1>1. Init => Channel!Init
  BY ChannelInit
<1>2. IInv /\ IInv' /\ [Next]_vars => [Channel!Next]_(Channel!chanVars)
  BY ChannelStep
<1> QED
  BY <1>1, <1>2, InductiveInvariant, PTL DEF Spec, ImplementsChannel, Channel!Spec
=============================================================================
