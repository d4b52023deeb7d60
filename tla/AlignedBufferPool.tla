------------------------- MODULE AlignedBufferPool --------------------------
(***************************************************************************)
(* buffer/aligned_buffer_pool.cpp and buffer_handle.cpp: a fixed set of    *)
(* buffers, leased through move-only BufferHandles.  Any number of threads *)
(* acquire (blocking or not), hand their handles on and release them.  A   *)
(* critical section of mutex_ is one action; the notify_one() of release() *)
(* comes after it, as an action of its own.                                *)
(***************************************************************************)
EXTENDS Integers, Sequences, FiniteSets

CONSTANTS NumBuffers,     \* config.max_inflight_buffers
          Threads

ASSUME NumBuffersAssumption == NumBuffers \in Nat \ {0}
ASSUME ThreadsAssumption == IsFiniteSet(Threads)

Buffers == 0 .. NumBuffers - 1

VARIABLES
  available_indices,      \* the stack of free buffers; its back is the end
  in_use,                 \* the in_use_ flags
  inflight,               \* the Gauge inflight_metric_ points to
  waiters,                \* the threads asleep on available_cv_
  handles,                \* the indices of the valid handles a thread owns
  pc                      \* where each thread stands in its call

vars == <<available_indices, in_use, inflight, waiters, handles, pc>>

Goto(t, l) == pc' = [pc EXCEPT ![t] = l]

(* The constructor pushes the indices from the last to the first. *)
Init ==
  /\ available_indices = [i \in 1 .. NumBuffers |-> NumBuffers - i]
  /\ in_use = [b \in Buffers |-> 0]
  /\ inflight = 0
  /\ waiters = {}
  /\ handles = [t \in Threads |-> {}]
  /\ pc = [t \in Threads |-> "idle"]

-----------------------------------------------------------------------------
(* take_available_locked(): the most recently returned buffer is leased. *)
take_available_locked(t) ==
  LET last == Len(available_indices)
      index == available_indices[last] IN
  /\ available_indices' = SubSeq(available_indices, 1, last - 1)
  /\ in_use' = [in_use EXCEPT ![index] = 1]
  /\ inflight' = inflight + 1
  /\ handles' = [handles EXCEPT ![t] = @ \cup {index}]

(* acquire() is called; its wait evaluates the predicate. *)
AcquireCall(t) ==
  /\ pc[t] = "idle"
  /\ Goto(t, "acquire")
  /\ UNCHANGED <<available_indices, in_use, inflight, waiters, handles>>

AcquireWait(t) ==
  /\ pc[t] = "acquire" /\ t \notin waiters
  /\ available_indices = <<>>
  /\ waiters' = waiters \cup {t}
  /\ UNCHANGED <<available_indices, in_use, inflight, handles, pc>>

AcquireTake(t) ==
  /\ pc[t] = "acquire" /\ t \notin waiters
  /\ available_indices # <<>>
  /\ take_available_locked(t)
  /\ Goto(t, "idle")
  /\ UNCHANGED waiters

(* try_acquire() that finds a buffer (one that finds none changes nothing). *)
TryAcquire(t) ==
  /\ pc[t] = "idle"
  /\ available_indices # <<>>
  /\ take_available_locked(t)
  /\ UNCHANGED <<waiters, pc>>

(* BufferHandle::release() and AlignedBufferPool::release(index): the      *)
(* handle gives up its index, then the index goes back on the stack.       *)
Release(t, index) ==
  /\ pc[t] = "idle"
  /\ index \in handles[t]
  /\ handles' = [handles EXCEPT ![t] = @ \ {index}]
  /\ in_use' = [in_use EXCEPT ![index] = 0]
  /\ available_indices' = Append(available_indices, index)
  /\ inflight' = inflight - 1
  /\ Goto(t, "notify")
  /\ UNCHANGED waiters

(* Mutant: a notification is sent only when the pool had run empty. *)
ReleaseNotifyWhenEmpty(t) ==
  /\ pc[t] = "notify"
  /\ IF Len(available_indices) = 1
     THEN \/ waiters = {} /\ UNCHANGED waiters
          \/ \E u \in waiters : waiters' = waiters \ {u}
     ELSE UNCHANGED waiters
  /\ Goto(t, "idle")
  /\ UNCHANGED <<available_indices, in_use, inflight, handles>>

(* available_cv_.notify_one() *)
ReleaseNotify(t) ==
  /\ pc[t] = "notify"
  /\ \/ waiters = {} /\ UNCHANGED waiters
     \/ \E u \in waiters : waiters' = waiters \ {u}
  /\ Goto(t, "idle")
  /\ UNCHANGED <<available_indices, in_use, inflight, handles>>

(* Mutant: a copy, the source handle stays valid. *)
CopyHandle(t, u, index) ==
  /\ pc[t] = "idle" /\ pc[u] = "idle"
  /\ index \in handles[t]
  /\ handles' = [handles EXCEPT ![u] = @ \cup {index}]
  /\ UNCHANGED <<available_indices, in_use, inflight, waiters, pc>>

(* A handle is moved to another thread: the source is left invalid. *)
MoveHandle(t, u, index) ==
  /\ pc[t] = "idle" /\ pc[u] = "idle" /\ t # u
  /\ index \in handles[t]
  /\ handles' = [handles EXCEPT ![t] = @ \ {index}, ![u] = @ \cup {index}]
  /\ UNCHANGED <<available_indices, in_use, inflight, waiters, pc>>

SpuriousWake(t) ==
  /\ t \in waiters
  /\ waiters' = waiters \ {t}
  /\ UNCHANGED <<available_indices, in_use, inflight, handles, pc>>

-----------------------------------------------------------------------------
(* What a thread inside a call does next. *)
CallStep(t) == AcquireWait(t) \/ AcquireTake(t) \/ ReleaseNotify(t)

Next ==
  \E t \in Threads :
    \/ AcquireCall(t) \/ TryAcquire(t) \/ CallStep(t) \/ SpuriousWake(t)
    \/ \E b \in Buffers :
         \/ Release(t, b)
         \/ \E u \in Threads : MoveHandle(t, u, b)

Spec == Init /\ [][Next]_vars

-----------------------------------------------------------------------------
TypeOK ==
  /\ available_indices \in Seq(Buffers)
  /\ in_use \in [Buffers -> {0, 1}]
  /\ inflight \in Int
  /\ waiters \subseteq Threads
  /\ handles \in [Threads -> SUBSET Buffers]
  /\ pc \in [Threads -> {"idle", "acquire", "notify"}]

(* A buffer is on the stack, once, with its flag down and without a        *)
(* handle, or its flag is up and exactly one handle in one thread owns it. *)
(* The asserts of take_available_locked and release, that of the           *)
(* destructor once all handles are gone, and the exclusive use of a buffer *)
(* by the holder of its lease all follow.  The inflight gauge counts the   *)
(* leases.                                                                 *)
OnStack(b) == \E i \in DOMAIN available_indices : available_indices[i] = b
LeasedOnce ==
  /\ inflight = NumBuffers - Len(available_indices)
  /\ \A i, j \in DOMAIN available_indices :
       available_indices[i] = available_indices[j] => i = j
  /\ \A b \in Buffers :
       /\ OnStack(b) <=> in_use[b] = 0
       /\ in_use[b] = 1 <=> \E t \in Threads : b \in handles[t]
       /\ \A t, u \in Threads : b \in handles[t] /\ b \in handles[u] => t = u

Acquiring == {t \in Threads : pc[t] = "acquire" /\ t \notin waiters}
Notifying == {t \in Threads : pc[t] = "notify"}

(* While threads sleep, every free buffer is spoken for: a notification    *)
(* for it is still to come, or a thread that is awake will look for it.    *)
(* notify_one() suffices although try_acquire() may take the buffer first. *)
NoLostWakeup ==
  waiters # {} =>
    Len(available_indices) <= Cardinality(Notifying) + Cardinality(Acquiring)

=============================================================================
