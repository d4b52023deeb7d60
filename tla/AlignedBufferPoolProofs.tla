----------------------- MODULE AlignedBufferPoolProofs ----------------------
(***************************************************************************)
(* The leases and the wake-ups of AlignedBufferPool for every number of    *)
(* buffers and of threads.                                                 *)
(***************************************************************************)
EXTENDS AlignedBufferPool, FiniteSetTheorems, SequenceTheorems, TLAPS

(* Only a thread inside acquire() sleeps on available_cv_. *)
SleepersAcquire == \A t \in waiters : pc[t] = "acquire"

(* The inductive invariant.  NoLostWakeup needs SleepersAcquire: a         *)
(* notification moves a thread from the sleepers to those that will look.  *)
IInv == TypeOK /\ LeasedOnce /\ SleepersAcquire /\ NoLostWakeup

(* The threads that acquire or notify are finitely many; one more or one   *)
(* fewer of them changes their number by one.                              *)
LEMMA CountOne ==
  ASSUME NEW S \in SUBSET Threads, NEW t \in Threads
  PROVE  /\ Cardinality(S) \in Nat
         /\ t \notin S => Cardinality(S \cup {t}) = Cardinality(S) + 1
         /\ t \in S => Cardinality(S \ {t}) = Cardinality(S) - 1
<1>1. IsFiniteSet(S)
  BY ThreadsAssumption, FS_Subset
<1> QED
  BY <1>1, FS_CardinalityType, FS_AddElement, FS_RemoveElement

(* The constructor puts every buffer on the stack once. *)
LEMMA InitIInv == Init => IInv
<1> SUFFICES ASSUME Init PROVE IInv
  OBVIOUS
<1> USE NumBuffersAssumption DEF Init, Buffers
<1>1. /\ available_indices \in Seq(Buffers)
      /\ Len(available_indices) = NumBuffers
      /\ DOMAIN available_indices = 1 .. NumBuffers
  OBVIOUS
<1>2. TypeOK
  BY <1>1 DEF TypeOK
<1>3. ASSUME NEW b \in Buffers PROVE OnStack(b)
  <2>1. NumBuffers - b \in 1 .. NumBuffers
    OBVIOUS
  <2>2. available_indices[NumBuffers - b] = b
    BY <2>1
  <2> QED
    BY <1>1, <2>1, <2>2 DEF OnStack
<1>4. LeasedOnce
  BY <1>1, <1>3 DEF LeasedOnce
<1> QED
  BY <1>2, <1>4 DEF IInv, SleepersAcquire, NoLostWakeup

(* take_available_locked() on a stack that is not empty: the back, which   *)
(* no handle owns, leaves the stack for one handle.                        *)
LEMMA Take ==
  ASSUME TypeOK, LeasedOnce, NEW t \in Threads,
         available_indices # <<>>, take_available_locked(t)
  PROVE  /\ available_indices' \in Seq(Buffers)
         /\ Len(available_indices') = Len(available_indices) - 1
         /\ in_use' \in [Buffers -> {0, 1}]
         /\ inflight' \in Int
         /\ handles' \in [Threads -> SUBSET Buffers]
         /\ LeasedOnce'
<1> DEFINE last == Len(available_indices)
           index == available_indices[last]
<1>1. last \in Nat \ {0} /\ index \in Buffers /\ last \in DOMAIN available_indices
  BY DEF TypeOK
<1>2. /\ available_indices' = SubSeq(available_indices, 1, last - 1)
      /\ in_use' = [in_use EXCEPT ![index] = 1]
      /\ inflight' = inflight + 1
      /\ handles' = [handles EXCEPT ![t] = @ \cup {index}]
  BY DEF take_available_locked
<1> HIDE DEF index
<1>3. /\ available_indices' \in Seq(Buffers)
      /\ Len(available_indices') = last - 1
      /\ DOMAIN available_indices' = 1 .. last - 1
      /\ \A i \in 1 .. last - 1 : available_indices'[i] = available_indices[i]
  <2>1. last - 1 \in Nat /\ \A i \in 1 .. last - 1 : available_indices[i] \in Buffers
    BY <1>1 DEF TypeOK
  <2> DEFINE n == last - 1
             rest == SubSeq(available_indices, 1, n)
  <2>2. /\ rest \in Seq(Buffers)
        /\ Len(rest) = IF 1 <= n THEN n - 1 + 1 ELSE 0
        /\ \A i \in 1 .. n - 1 + 1 : rest[i] = available_indices[1 + i - 1]
    <3> HIDE DEF n
    <3>1. n \in Int /\ 1 \in Int /\ \A i \in 1 .. n : available_indices[i] \in Buffers
      BY <2>1 DEF n
    <3> QED
      BY <3>1, SubSeqProperties
  <2> HIDE DEF rest
  <2>3. Len(rest) = n /\ \A i \in 1 .. n : rest[i] = available_indices[i]
    <3>1. n \in Nat
      BY <2>1
    <3> HIDE DEF n
    <3>2. Len(rest) = n
      BY <2>2, <3>1
    <3>3. ASSUME NEW i \in 1 .. n PROVE rest[i] = available_indices[i]
      <4>1. i \in 1 .. n - 1 + 1 /\ 1 + i - 1 = i
        BY <3>1
      <4> QED
        BY <2>2, <4>1
    <3> QED
      BY <3>2, <3>3
  <2>4. rest \in Seq(Buffers) /\ DOMAIN rest = 1 .. n
    BY <2>2, <2>3
  <2> QED
    BY <1>2, <2>3, <2>4 DEF rest
<1>4. /\ in_use' \in [Buffers -> {0, 1}] /\ inflight' \in Int
      /\ handles' \in [Threads -> SUBSET Buffers]
  BY <1>1, <1>2 DEF TypeOK
<1>5. DOMAIN available_indices = 1 .. last
  BY DEF TypeOK
<1>6. ASSUME NEW b \in Buffers PROVE OnStack(b)' <=> OnStack(b) /\ b # index
  <2>1. available_indices[last] = index
    BY DEF index
  <2>2. \A i \in 1 .. last : available_indices[i] = index => i = last
    BY <1>1, <1>5, <2>1 DEF LeasedOnce
  <2>3. OnStack(b) <=> \E i \in 1 .. last : available_indices[i] = b
    BY <1>5 DEF OnStack
  <2>4. OnStack(b)' <=> \E i \in 1 .. last - 1 : available_indices[i] = b
    BY <1>3 DEF OnStack
  <2>5. \A i \in 1 .. last : i \in 1 .. last - 1 <=> i # last
    BY <1>1
  <2>6. 1 .. last - 1 \subseteq 1 .. last
    BY <1>1
  <2> QED
    BY <2>1, <2>2, <2>3, <2>4, <2>5, <2>6
<1>7. in_use[index] = 0 /\ \A u \in Threads : index \notin handles[u]
  <2>1. OnStack(index)
    BY <1>1 DEF OnStack, index
  <2> QED
    BY <1>1, <2>1, NumBuffersAssumption DEF LeasedOnce
<1>8. inflight' = NumBuffers - Len(available_indices')
  <2>1. inflight = NumBuffers - last
    BY DEF LeasedOnce
  <2> HIDE DEF last
  <2> QED
    BY <1>1, <1>2, <1>3, <2>1, NumBuffersAssumption
<1>9. \A i, j \in DOMAIN available_indices' :
        available_indices'[i] = available_indices'[j] => i = j
  BY <1>1, <1>3, <1>5 DEF LeasedOnce
<1>10. ASSUME NEW b \in Buffers
       PROVE  /\ OnStack(b)' <=> in_use'[b] = 0
              /\ in_use'[b] = 1 <=> \E u \in Threads : b \in handles'[u]
              /\ \A u, v \in Threads : b \in handles'[u] /\ b \in handles'[v] => u = v
  <2>1. /\ in_use'[b] = IF b = index THEN 1 ELSE in_use[b]
        /\ \A u \in Threads : b \in handles'[u] <=>
                              b \in handles[u] \/ (u = t /\ b = index)
    BY <1>1, <1>2 DEF TypeOK
  <2>2. /\ OnStack(b) <=> in_use[b] = 0
        /\ in_use[b] = 1 <=> \E u \in Threads : b \in handles[u]
        /\ \A u, v \in Threads : b \in handles[u] /\ b \in handles[v] => u = v
    BY DEF LeasedOnce
  <2>3. CASE b = index
    BY <1>6, <1>7, <2>1, <2>3
  <2>4. CASE b # index
    BY <1>6, <2>1, <2>2, <2>4
  <2> QED
    BY <2>3, <2>4
<1> QED
  BY <1>3, <1>4, <1>8, <1>9, <1>10 DEF LeasedOnce

(* release(): the buffer goes from its one handle back on the stack. *)
LEMMA GiveBack ==
  ASSUME TypeOK, LeasedOnce, NEW t \in Threads, NEW index \in Buffers, Release(t, index)
  PROVE  /\ available_indices' \in Seq(Buffers)
         /\ Len(available_indices') = Len(available_indices) + 1
         /\ TypeOK'
         /\ LeasedOnce'
<1> DEFINE last == Len(available_indices)
<1>1. last \in Nat /\ DOMAIN available_indices = 1 .. last
  BY DEF TypeOK
<1>2. /\ available_indices' = Append(available_indices, index)
      /\ in_use' = [in_use EXCEPT ![index] = 0]
      /\ inflight' = inflight - 1
      /\ handles' = [handles EXCEPT ![t] = @ \ {index}]
      /\ index \in handles[t]
  BY DEF Release
<1>3. /\ available_indices' \in Seq(Buffers)
      /\ Len(available_indices') = last + 1
      /\ DOMAIN available_indices' = 1 .. last + 1
      /\ available_indices'[last + 1] = index
      /\ \A i \in 1 .. last : available_indices'[i] = available_indices[i]
  BY <1>1, <1>2 DEF TypeOK
<1>4. TypeOK'
  BY <1>3 DEF TypeOK, Release, Goto
<1>5. in_use[index] = 1 /\ ~OnStack(index)
  BY <1>2, NumBuffersAssumption DEF LeasedOnce
<1>6. ASSUME NEW b \in Buffers PROVE OnStack(b)' <=> OnStack(b) \/ b = index
  BY <1>1, <1>3 DEF OnStack
<1>7. inflight' = NumBuffers - Len(available_indices')
  BY <1>1, <1>2, <1>3, NumBuffersAssumption DEF LeasedOnce, TypeOK
<1>8. \A i, j \in DOMAIN available_indices' :
        available_indices'[i] = available_indices'[j] => i = j
  BY <1>1, <1>3, <1>5 DEF LeasedOnce, OnStack
<1>9. ASSUME NEW b \in Buffers
      PROVE  /\ OnStack(b)' <=> in_use'[b] = 0
             /\ in_use'[b] = 1 <=> \E u \in Threads : b \in handles'[u]
             /\ \A u, v \in Threads : b \in handles'[u] /\ b \in handles'[v] => u = v
  BY <1>2, <1>5, <1>6 DEF TypeOK, LeasedOnce
<1> QED
  BY <1>3, <1>4, <1>7, <1>8, <1>9 DEF LeasedOnce

(* Every step keeps the types, the leases and the sleepers in order. *)
LEMMA LeaseStep == IInv /\ [Next]_vars => TypeOK' /\ LeasedOnce' /\ SleepersAcquire'
<1> SUFFICES ASSUME IInv, [Next]_vars PROVE TypeOK' /\ LeasedOnce' /\ SleepersAcquire'
  OBVIOUS
<1>0. TypeOK /\ LeasedOnce /\ SleepersAcquire
  BY DEF IInv
<1>1. ASSUME NEW t \in Threads, AcquireCall(t) \/ AcquireWait(t) \/ SpuriousWake(t)
      PROVE  TypeOK' /\ LeasedOnce' /\ SleepersAcquire'
  BY <1>0, <1>1
  DEF TypeOK, LeasedOnce, OnStack, SleepersAcquire, AcquireCall, AcquireWait, SpuriousWake, Goto
<1>2. ASSUME NEW t \in Threads, AcquireTake(t)
      PROVE  TypeOK' /\ LeasedOnce' /\ SleepersAcquire'
  <2>1. available_indices # <<>> /\ take_available_locked(t)
    BY <1>2 DEF AcquireTake
  <2> QED
    BY <1>0, <1>2, <2>1, Take DEF TypeOK, SleepersAcquire, AcquireTake, Goto
<1>3. ASSUME NEW t \in Threads, TryAcquire(t)
      PROVE  TypeOK' /\ LeasedOnce' /\ SleepersAcquire'
  <2>1. available_indices # <<>> /\ take_available_locked(t)
    BY <1>3 DEF TryAcquire
  <2> QED
    BY <1>0, <1>3, <2>1, Take DEF TypeOK, SleepersAcquire, TryAcquire
<1>4. ASSUME NEW t \in Threads, NEW b \in Buffers, Release(t, b)
      PROVE  TypeOK' /\ LeasedOnce' /\ SleepersAcquire'
  BY <1>0, <1>4, GiveBack DEF TypeOK, SleepersAcquire, Release, Goto
<1>5. ASSUME NEW t \in Threads, ReleaseNotify(t)
      PROVE  TypeOK' /\ LeasedOnce' /\ SleepersAcquire'
  BY <1>0, <1>5
  DEF TypeOK, LeasedOnce, OnStack, SleepersAcquire, ReleaseNotify, Goto
<1>6. ASSUME NEW t \in Threads, NEW u \in Threads, NEW b \in Buffers, MoveHandle(t, u, b)
      PROVE  TypeOK' /\ LeasedOnce' /\ SleepersAcquire'
  <2>1. \A v \in Threads : handles'[v] = IF v = u THEN handles[u] \cup {b}
                                         ELSE IF v = t THEN handles[t] \ {b}
                                         ELSE handles[v]
    BY <1>0, <1>6 DEF TypeOK, MoveHandle
  <2>2. TypeOK' /\ SleepersAcquire'
    BY <1>0, <1>6 DEF TypeOK, SleepersAcquire, MoveHandle
  <2>3. ASSUME NEW c \in Buffers
        PROVE  /\ in_use[c] = 1 <=> \E v \in Threads : c \in handles'[v]
               /\ \A v, w \in Threads : c \in handles'[v] /\ c \in handles'[w] => v = w
    <3>1. /\ in_use[c] = 1 <=> \E v \in Threads : c \in handles[v]
          /\ \A v, w \in Threads : c \in handles[v] /\ c \in handles[w] => v = w
      BY <1>0 DEF LeasedOnce
    <3>2. CASE c = b
      <4>1. b \in handles[t] /\ t # u
        BY <1>6 DEF MoveHandle
      <4>2. \A v \in Threads : b \in handles'[v] <=> v = u
        BY <2>1, <3>1, <3>2, <4>1
      <4> QED
        BY <3>1, <3>2, <4>1, <4>2
    <3>3. CASE c # b
      <4>1. \A v \in Threads : c \in handles'[v] <=> c \in handles[v]
        BY <2>1, <3>3
      <4> QED
        BY <3>1, <4>1
    <3> QED
      BY <3>2, <3>3
  <2> QED
    BY <1>0, <1>6, <2>2, <2>3 DEF LeasedOnce, OnStack, MoveHandle
<1>7. CASE UNCHANGED vars
  BY <1>0, <1>7 DEF vars, TypeOK, LeasedOnce, OnStack, SleepersAcquire
<1> QED
  BY <1>1, <1>2, <1>3, <1>4, <1>5, <1>6, <1>7 DEF Next, CallStep

(* No step leaves a free buffer that nobody will be told of. *)
LEMMA WakeStep == IInv /\ [Next]_vars => NoLostWakeup'
<1> SUFFICES ASSUME IInv, [Next]_vars PROVE NoLostWakeup'
  OBVIOUS
<1>0. TypeOK /\ LeasedOnce /\ SleepersAcquire /\ NoLostWakeup
  BY DEF IInv
<1>a. Acquiring \in SUBSET Threads /\ Notifying \in SUBSET Threads
  BY DEF Acquiring, Notifying
<1>b. Acquiring' \in SUBSET Threads /\ Notifying' \in SUBSET Threads
  BY DEF Acquiring, Notifying
<1>c. /\ Len(available_indices) \in Nat
      /\ Cardinality(Acquiring) \in Nat /\ Cardinality(Notifying) \in Nat
      /\ Cardinality(Acquiring') \in Nat /\ Cardinality(Notifying') \in Nat
  <2>1. \A S \in SUBSET Threads : Cardinality(S) \in Nat
    BY ThreadsAssumption, FS_Subset, FS_CardinalityType
  <2> QED
    BY <1>0, <1>a, <1>b, <2>1 DEF TypeOK
<1>1. ASSUME NEW t \in Threads, AcquireCall(t) PROVE NoLostWakeup'
  <2>1. t \notin Acquiring /\ Notifying' = Notifying
    BY <1>0, <1>1 DEF TypeOK, AcquireCall, Goto, Acquiring, Notifying
  <2>2. t \notin waiters
    BY <1>0, <1>1 DEF SleepersAcquire, AcquireCall
  <2>3. Acquiring' = Acquiring \cup {t}
    BY <1>0, <1>1, <2>2 DEF TypeOK, AcquireCall, Goto, Acquiring
  <2>4. Cardinality(Acquiring') = Cardinality(Acquiring) + 1
    BY <1>a, <2>1, <2>3, CountOne
  <2> QED
    BY <1>0, <1>1, <1>c, <2>1, <2>4 DEF NoLostWakeup, AcquireCall
<1>2. ASSUME NEW t \in Threads, AcquireWait(t) PROVE NoLostWakeup'
  BY <1>2, <1>c DEF NoLostWakeup, AcquireWait
<1>3. ASSUME NEW t \in Threads, AcquireTake(t) PROVE NoLostWakeup'
  <2>1. t \in Acquiring /\ Notifying' = Notifying /\ Acquiring' = Acquiring \ {t}
    BY <1>0, <1>3 DEF TypeOK, AcquireTake, Goto, Acquiring, Notifying
  <2>2. Cardinality(Acquiring') = Cardinality(Acquiring) - 1
    BY <1>a, <2>1, CountOne
  <2>3. Len(available_indices') = Len(available_indices) - 1 /\ waiters' = waiters
    BY <1>0, <1>3, Take DEF AcquireTake
  <2> QED
    BY <1>0, <1>c, <2>1, <2>2, <2>3 DEF NoLostWakeup
<1>4. ASSUME NEW t \in Threads, TryAcquire(t) PROVE NoLostWakeup'
  <2>1. Notifying' = Notifying /\ Acquiring' = Acquiring
    BY <1>4 DEF TryAcquire, Acquiring, Notifying
  <2>2. Len(available_indices') = Len(available_indices) - 1 /\ waiters' = waiters
    BY <1>0, <1>4, Take DEF TryAcquire
  <2> QED
    BY <1>0, <1>c, <2>1, <2>2 DEF NoLostWakeup
<1>5. ASSUME NEW t \in Threads, NEW b \in Buffers, Release(t, b) PROVE NoLostWakeup'
  <2>1. /\ t \notin Notifying
        /\ Notifying' = Notifying \cup {t} /\ Acquiring' = Acquiring
    BY <1>0, <1>5 DEF TypeOK, Release, Goto, Acquiring, Notifying
  <2>2. Cardinality(Notifying') = Cardinality(Notifying) + 1
    BY <1>a, <2>1, CountOne
  <2>3. Len(available_indices') = Len(available_indices) + 1 /\ waiters' = waiters
    BY <1>0, <1>5, GiveBack DEF Release
  <2> QED
    BY <1>0, <1>c, <2>1, <2>2, <2>3 DEF NoLostWakeup
<1>6. ASSUME NEW t \in Threads, ReleaseNotify(t) PROVE NoLostWakeup'
  <2>1. CASE waiters = {} /\ UNCHANGED waiters
    BY <2>1 DEF NoLostWakeup
  <2>2. ASSUME NEW u \in waiters, waiters' = waiters \ {u} PROVE NoLostWakeup'
    <3>1. u \in Threads /\ pc[u] = "acquire" /\ u # t
      BY <1>0, <1>6 DEF TypeOK, SleepersAcquire, ReleaseNotify
    <3>2. /\ t \in Notifying /\ Notifying' = Notifying \ {t}
          /\ u \notin Acquiring /\ Acquiring' = Acquiring \cup {u}
      BY <1>0, <1>6, <2>2, <3>1 DEF TypeOK, ReleaseNotify, Goto, Acquiring, Notifying
    <3>3. /\ Cardinality(Notifying') = Cardinality(Notifying) - 1
          /\ Cardinality(Acquiring') = Cardinality(Acquiring) + 1
      BY <1>a, <3>1, <3>2, CountOne
    <3> QED
      BY <1>0, <1>6, <1>c, <3>3 DEF NoLostWakeup, ReleaseNotify
  <2> QED
    BY <1>6, <2>1, <2>2 DEF ReleaseNotify
<1>7. ASSUME NEW t \in Threads, SpuriousWake(t) PROVE NoLostWakeup'
  <2>1. /\ t \notin Acquiring /\ Acquiring' = Acquiring \cup {t}
        /\ Notifying' = Notifying
    BY <1>0, <1>7 DEF TypeOK, SleepersAcquire, SpuriousWake, Acquiring, Notifying
  <2>2. Cardinality(Acquiring') = Cardinality(Acquiring) + 1
    BY <1>a, <2>1, CountOne
  <2> QED
    BY <1>0, <1>7, <1>c, <2>1, <2>2 DEF NoLostWakeup, SpuriousWake
<1>8. ASSUME NEW t \in Threads, NEW u \in Threads, NEW b \in Buffers, MoveHandle(t, u, b)
      PROVE  NoLostWakeup'
  BY <1>0, <1>8 DEF NoLostWakeup, Acquiring, Notifying, MoveHandle
<1>9. CASE UNCHANGED vars
  BY <1>0, <1>9 DEF NoLostWakeup, Acquiring, Notifying, vars
<1> QED
  BY <1>1, <1>2, <1>3, <1>4, <1>5, <1>6, <1>7, <1>8, <1>9 DEF Next, CallStep

(* The invariant holds of every reachable state. *)
THEOREM Invariance == Spec => []IInv
<1>1. IInv /\ [Next]_vars => IInv'
  BY LeaseStep, WakeStep DEF IInv
<1> QED
  BY InitIInv, <1>1, PTL DEF Spec

(* AlignedBufferPool: every variable keeps its type. *)
THEOREM TypeCorrect == Spec => []TypeOK
<1>1. IInv => TypeOK
  BY DEF IInv
<1> QED
  BY Invariance, <1>1, PTL

(* A buffer is free once or leased through one handle, and the gauge says  *)
(* how many are leased: release() and take_available_locked() keep the     *)
(* stack and the flags in step.                                            *)
THEOREM LeaseExclusive == Spec => []LeasedOnce
<1>1. IInv => LeasedOnce
  BY DEF IInv
<1> QED
  BY Invariance, <1>1, PTL

(* The one notify_one() of each release() is enough for every acquire()    *)
(* that sleeps.                                                            *)
THEOREM WakeupKept == Spec => []NoLostWakeup
<1>1. IInv => NoLostWakeup
  BY DEF IInv
<1> QED
  BY Invariance, <1>1, PTL
=============================================================================
