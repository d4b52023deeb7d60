--------------------------- MODULE BoundedChannel ---------------------------
(***************************************************************************)
(* What an SPSCQueue promises to the threads that use it: a bounded FIFO   *)
(* channel that can be closed (what is buffered is still delivered) or     *)
(* failed (what is buffered is destroyed, every later call rethrows the    *)
(* first failure).  There are no locks, no condition variables and no ring *)
(* here: a call that would block is an action that is not enabled.         *)
(*                                                                         *)
(* SPSCQueue implements this specification; PipelineExecutor uses two      *)
(* instances of its actions as its work queues.                            *)
(***************************************************************************)
EXTENDS Naturals, Sequences

CONSTANTS Capacity,     \* slots_.size()
          Items,        \* the values that can be sent
          Failures,     \* the exceptions a queue can be failed with
          NoFailure     \* a null exception_ptr

VARIABLES buffer,       \* the values accepted and not yet delivered
          state,        \* open, closed, failed, or destroyed by its owner
          failure       \* the exception of a failed channel

chanVars == <<buffer, state, failure>>

Init ==
  /\ buffer = <<>>
  /\ state = "open"
  /\ failure = NoFailure

(* A push that is accepted. *)
Push(v) ==
  /\ state = "open"
  /\ Len(buffer) < Capacity
  /\ buffer' = Append(buffer, v)
  /\ UNCHANGED <<state, failure>>

(* A pop that delivers v: closing does not stop delivery, failing does. *)
Pop(v) ==
  /\ state \in {"open", "closed"}
  /\ buffer # <<>>
  /\ v = Head(buffer)
  /\ buffer' = Tail(buffer)
  /\ UNCHANGED <<state, failure>>

(* A push returns false (closed) or rethrows (failed). *)
PushEnds == state # "open"

(* A pop returns nullopt (closed and drained) or rethrows (failed). *)
PopEnds == state = "failed" \/ (state = "closed" /\ buffer = <<>>)

(* close(): has an effect on an open channel only. *)
Close ==
  /\ state' = IF state = "open" THEN "closed" ELSE state
  /\ UNCHANGED <<buffer, failure>>

(* fail(e): the first failure wins, and nothing buffered survives it. *)
Fail(e) ==
  /\ state # "destroyed"
  /\ state' = "failed"
  /\ failure' = IF state = "failed" THEN failure ELSE e
  /\ buffer' = <<>>

(* The owner destroys the channel with whatever it still holds. *)
Destroy ==
  /\ state # "destroyed"
  /\ state' = "destroyed"
  /\ buffer' = <<>>
  /\ UNCHANGED failure

Next ==
  \/ \E v \in Items : Push(v) \/ Pop(v)
  \/ Close
  \/ \E e \in Failures : Fail(e)
  \/ Destroy

Spec == Init /\ [][Next]_chanVars
=============================================================================
