---------------------------- MODULE UringBackend ----------------------------
(***************************************************************************)
(* backend/uring_backend.cpp and coroutine/uring_read_awaiter.cpp, with    *)
(* coroutine/task.h and coroutine/completion_request.h: one read per Task, *)
(* submitted to io_uring by await_suspend and completed by wait_one, both  *)
(* on the calling thread.  The caller behaves as complete_read does: it    *)
(* calls wait_one() while a Task of its own is suspended and destroys its  *)
(* Task, and gives up the buffer, when that returns or throws.             *)
(*                                                                         *)
(* What the kernel is given to find the Task again is the address of the   *)
(* request_ in its coroutine frame.  The frame of a destroyed Task is free *)
(* and a later Task may get it, with the same address.                     *)
(*                                                                         *)
(* External, modelled from its use: liburing and the kernel.  A prepared   *)
(* SQE sits in the submission queue until an io_uring_submit() succeeds,   *)
(* which takes every entry of the queue and returns how many it took; one  *)
(* that fails takes none and leaves the queue as it is.  Reads complete in *)
(* any order.                                                              *)
(***************************************************************************)
EXTENDS Integers, Sequences, FiniteSets, Functions

CONSTANTS Requests,           \* bound: the reads that are made
          QueueDepth,         \* entries of the submission queue
          MaxSubmitFailures,  \* bound: how often io_uring_submit fails
          MaxWaitFailures,    \* bound: how often io_uring_wait_cqe fails
          Frames,             \* bound: where the allocator puts coroutine frames
          NoRequest, NoFrame

ASSUME DepthAssumption == QueueDepth \in Nat \ {0}
ASSUME BoundAssumption == MaxSubmitFailures \in Nat /\ MaxWaitFailures \in Nat
ASSUME RequestAssumption == NoRequest \notin Requests /\ NoFrame \notin Frames

VARIABLES
  task,                       \* the Task of each read
  result,                     \* what Task::result() returns or throws
  frame,                      \* its coroutine frame; user_data is &request_ in it
  armed,                      \* CompletionRequest::continuation_ is set
  sq,                         \* prepared and not yet taken by the kernel
  kernel,                     \* reads the kernel is carrying out
  cq,                         \* completions: [req, res]
  done,                       \* history: what the kernel did for a read
  pc, request,                \* where the caller stands; its await_suspend
  reused,                     \* history: it read on after abandoning a read
  submitFailures, waitFailures

rings == <<sq, kernel, cq, done>>
failures == <<submitFailures, waitFailures>>
vars == <<task, result, frame, armed, rings, pc, request, reused, failures>>

Reads == {"bytes", "errno"}   \* cqe->res: a count, or a negative errno
Nothing == "nothing"
Abandoned == {"EIO", "submit_error", "wait_error", "logic_error"}
Results == Reads \cup Abandoned \cup {"EAGAIN", "invalid_argument"}

Init ==
  /\ task = [r \in Requests |-> "fresh"]
  /\ result = [r \in Requests |-> Nothing]
  /\ frame = [r \in Requests |-> NoFrame]
  /\ armed = [r \in Requests |-> FALSE]
  /\ sq = <<>> /\ kernel = {} /\ cq = <<>>
  /\ done = [r \in Requests |-> Nothing]
  /\ pc = "idle" /\ request = NoRequest /\ reused = FALSE
  /\ submitFailures = 0 /\ waitFailures = 0

(* A Task that ended without the completion of its read. *)
AbandonedBefore == \E r \in Requests : result[r] \in Abandoned

Living(r) == task[r] \in {"started", "suspended", "done"}

(* read_at(): the coroutine frame is allocated, where no Task lives. *)
Allocate(r, f) ==
  /\ pc = "idle" /\ task[r] = "fresh"
  /\ \A q \in Requests : Living(q) => frame[q] # f
  /\ frame' = [frame EXCEPT ![r] = f]
  /\ reused' = (reused \/ AbandonedBefore)

-----------------------------------------------------------------------------
(* await_suspend: io_uring_get_sqe, and the read is prepared. *)
Prepare(r, f) ==
  /\ Allocate(r, f)
  /\ Len(sq) < QueueDepth
  /\ sq' = Append(sq, r)
  /\ task' = [task EXCEPT ![r] = "started"]
  /\ request' = r /\ pc' = "submit"
  /\ UNCHANGED <<result, armed, kernel, cq, done, failures>>

(* The awaiter's constructor rejects its arguments, or the submission      *)
(* queue is full: the read fails at once.                                  *)
PrepareFails(r, f) ==
  /\ Allocate(r, f)
  /\ task' = [task EXCEPT ![r] = "done"]
  /\ \/ result' = [result EXCEPT ![r] = "invalid_argument"]
     \/ /\ Len(sq) = QueueDepth
        /\ result' = [result EXCEPT ![r] = "EAGAIN"]
  /\ UNCHANGED <<armed, rings, pc, request, failures>>

(* Mutant: the expected count is zero, as after a system call. *)
SubmitMiscounted ==
  /\ pc = "submit"
  /\ kernel' = kernel \cup Range(sq) /\ sq' = <<>>
  /\ IF Len(sq) = 0
     THEN pc' = "arm" /\ UNCHANGED <<task, result, request>>
     ELSE /\ task' = [task EXCEPT ![request] = "done"]
          /\ result' = [result EXCEPT ![request] = "EIO"]
          /\ pc' = "idle" /\ request' = NoRequest
  /\ UNCHANGED <<frame, armed, cq, done, failures, reused>>

(* io_uring_submit takes what is in the queue: one entry is the caller's   *)
(* own, and the request can be armed; any other number is an error.        *)
Submit ==
  /\ pc = "submit"
  /\ kernel' = kernel \cup Range(sq) /\ sq' = <<>>
  /\ IF Len(sq) = 1
     THEN pc' = "arm" /\ UNCHANGED <<task, result, request>>
     ELSE /\ task' = [task EXCEPT ![request] = "done"]
          /\ result' = [result EXCEPT ![request] = "EIO"]
          /\ pc' = "idle" /\ request' = NoRequest
  /\ UNCHANGED <<frame, armed, cq, done, failures, reused>>

(* Mutant: the error goes unnoticed. *)
SubmitFailsUnnoticed ==
  /\ pc = "submit"
  /\ submitFailures < MaxSubmitFailures
  /\ submitFailures' = submitFailures + 1
  /\ pc' = "arm"
  /\ UNCHANGED <<task, result, frame, request, armed, rings, waitFailures, reused>>

(* io_uring_submit fails: the read fails at once. *)
SubmitFails ==
  /\ pc = "submit"
  /\ submitFailures < MaxSubmitFailures
  /\ submitFailures' = submitFailures + 1
  /\ task' = [task EXCEPT ![request] = "done"]
  /\ result' = [result EXCEPT ![request] = "submit_error"]
  /\ pc' = "idle" /\ request' = NoRequest
  /\ UNCHANGED <<frame, armed, rings, waitFailures, reused>>

(* request_.set_continuation; the coroutine is suspended and start()       *)
(* returns.  The completion may have arrived already.                      *)
Arm ==
  /\ pc = "arm"
  /\ armed' = [armed EXCEPT ![request] = TRUE]
  /\ task' = [task EXCEPT ![request] = "suspended"]
  /\ pc' = "idle" /\ request' = NoRequest
  /\ UNCHANGED <<result, frame, rings, failures, reused>>

(* Mutant: the result is that of the newest completion. *)
WaitOneNewest(r) ==
  /\ pc = "idle" /\ cq # <<>>
  /\ armed[r] /\ frame[r] = frame[Head(cq).req]
  /\ task' = [task EXCEPT ![r] = "done"]
  /\ result' = [result EXCEPT ![r] = cq[Len(cq)].res]
  /\ armed' = [armed EXCEPT ![r] = FALSE]
  /\ cq' = Tail(cq)
  /\ UNCHANGED <<frame, sq, kernel, done, pc, request, failures, reused>>

(* wait_one() takes the oldest completion and resumes the coroutine whose  *)
(* request is at the address it carries, which returns or throws.          *)
WaitOne(r) ==
  /\ pc = "idle" /\ cq # <<>>
  /\ armed[r] /\ frame[r] = frame[Head(cq).req]
  /\ task' = [task EXCEPT ![r] = "done"]
  /\ result' = [result EXCEPT ![r] = Head(cq).res]
  /\ armed' = [armed EXCEPT ![r] = FALSE]
  /\ cq' = Tail(cq)
  /\ UNCHANGED <<frame, sq, kernel, done, pc, request, failures, reused>>

(* No request that waits is at the address of the oldest completion. *)
Stray ==
  /\ pc = "idle" /\ cq # <<>>
  /\ \A q \in Requests : armed[q] => frame[q] # frame[Head(cq).req]

(* There is no continuation there: complete() throws out of wait_one() and *)
(* of the complete_read that waits for r.  The completion is used up.      *)
WaitOneThrows(r) ==
  /\ Stray /\ task[r] = "suspended"
  /\ cq' = Tail(cq)
  /\ task' = [task EXCEPT ![r] = "destroyed"]
  /\ result' = [result EXCEPT ![r] = "logic_error"]
  /\ armed' = [armed EXCEPT ![r] = FALSE]
  /\ UNCHANGED <<frame, sq, kernel, done, pc, request, failures, reused>>

(* If no Task lives there, complete() works on freed memory: besides       *)
(* throwing, it may do anything, and nothing is said of the rest.          *)
WaitOneUndefined ==
  /\ Stray
  /\ \E r \in Requests : task[r] = "suspended"
  /\ \A q \in Requests : Living(q) => frame[q] # frame[Head(cq).req]
  /\ cq' = Tail(cq) /\ pc' = "undefined"
  /\ UNCHANGED <<task, result, frame, armed, sq, kernel, done, request, failures, reused>>

(* io_uring_wait_cqe fails with something else than EINTR: wait_one()      *)
(* throws out of complete_read, whose Task is destroyed.                   *)
WaitOneFails(r) ==
  /\ pc = "idle" /\ task[r] = "suspended"
  /\ waitFailures < MaxWaitFailures
  /\ waitFailures' = waitFailures + 1
  /\ task' = [task EXCEPT ![r] = "destroyed"]
  /\ result' = [result EXCEPT ![r] = "wait_error"]
  /\ armed' = [armed EXCEPT ![r] = FALSE]
  /\ UNCHANGED <<frame, rings, pc, request, submitFailures, reused>>

(* The caller has the result, which the Task hands out or rethrows. *)
DestroyTask(r) ==
  /\ pc = "idle" /\ task[r] = "done"
  /\ task' = [task EXCEPT ![r] = "destroyed"]
  /\ UNCHANGED <<result, frame, armed, rings, pc, request, failures, reused>>

-----------------------------------------------------------------------------
(* The kernel finishes a read. *)
Complete(r, o) ==
  /\ r \in kernel
  /\ kernel' = kernel \ {r}
  /\ done' = [done EXCEPT ![r] = o]
  /\ cq' = Append(cq, [req |-> r, res |-> o])
  /\ UNCHANGED <<task, result, frame, armed, sq, pc, request, failures, reused>>

(* The caller has made all the reads it makes. *)
Ended ==
  /\ \/ pc = "undefined"
     \/ pc = "idle" /\ \A r \in Requests : task[r] = "destroyed"
  /\ UNCHANGED vars

CallerStep == Submit \/ SubmitFails \/ Arm \/ WaitOneUndefined
KernelStep == \E r \in Requests, o \in Reads : Complete(r, o)

Next ==
  \/ \E r \in Requests, f \in Frames : Prepare(r, f) \/ PrepareFails(r, f)
  \/ \E r \in Requests :
       WaitOne(r) \/ WaitOneThrows(r) \/ WaitOneFails(r) \/ DestroyTask(r)
  \/ CallerStep \/ KernelStep \/ Ended

Spec == Init /\ [][Next]_vars

-----------------------------------------------------------------------------
TypeOK ==
  /\ task \in [Requests -> {"fresh", "started", "suspended", "done", "destroyed"}]
  /\ result \in [Requests -> Results \cup {Nothing}]
  /\ frame \in [Requests -> Frames \cup {NoFrame}]
  /\ armed \in [Requests -> BOOLEAN]
  /\ sq \in Seq(Requests) /\ Len(sq) <= QueueDepth
  /\ kernel \subseteq Requests
  /\ cq \in Seq([req : Requests, res : Reads])
  /\ done \in [Requests -> Reads \cup {Nothing}]
  /\ pc \in {"idle", "submit", "arm", "undefined"}
  /\ request \in Requests \cup {NoRequest} /\ reused \in BOOLEAN
  /\ submitFailures \in 0 .. MaxSubmitFailures
  /\ waitFailures \in 0 .. MaxWaitFailures

Completions == {cq[i].req : i \in DOMAIN cq}

(* Every completion is expected: it belongs to a suspended Task whose      *)
(* continuation is stored, or to the read await_suspend is about to arm,   *)
(* and there is one per read.  So a read for which await_suspend returned  *)
(* false gets none, and CompletionRequest::complete never throws.          *)
CompletionsExpected ==
  /\ \A r \in Completions :
       \/ task[r] = "suspended" /\ armed[r]
       \/ pc = "arm" /\ request = r
  /\ \A i, j \in DOMAIN cq : cq[i].req = cq[j].req => i = j

(* While the kernel carries out a read, the Task that borrows the buffer   *)
(* for it has not ended: its owner has not given the buffer up.            *)
BuffersOutliveReads ==
  \A r \in kernel : task[r] \in {"started", "suspended"}

(* A caller that stops reading once it has abandoned a read, as the        *)
(* executor does, is safe from both while no wait_one() fails: the entry a *)
(* failed io_uring_submit leaves in the submission queue then never        *)
(* reaches the kernel, and what does reach it belongs to a Task that is    *)
(* still there.  A read that failed with its own completion does no harm.  *)
SafeUntilReused ==
  ~reused /\ waitFailures = 0 => CompletionsExpected /\ BuffersOutliveReads

(* A suspended Task always has a completion of its own to come, however    *)
(* many completions of others went astray: wait_one() does not wait for    *)
(* nothing.                                                                *)
SuspendedIsOutstanding ==
  pc # "undefined" =>
    \A r \in Requests : task[r] = "suspended" => r \in kernel \cup Completions

(* Every Task reports what the kernel did for its own read.  This is not   *)
(* so for a caller that reads on after it abandoned a read: a later Task   *)
(* may lie in the frame to which the late completion points.               *)
ResultsMatch ==
  \A r \in Requests : result[r] \in Reads => result[r] = done[r]

(* A caller that stops reading once it has abandoned a read has its own    *)
(* results, in whatever order the completions arrive, wherever the frames  *)
(* are allocated and even if a wait_one() failed: the frame a completion   *)
(* points to may be free then, but no later Task has got it.               *)
ResultsOwnUntilReused ==
  ~reused /\ pc # "undefined" => ResultsMatch

=============================================================================
