------------------------- MODULE ThreadPoolBackend --------------------------
(***************************************************************************)
(* backend/thread_pool_backend.cpp, with coroutine/task.h and              *)
(* coroutine/completion_request.h: reads run by a fixed set of workers.    *)
(* One caller creates, starts and destroys Tasks, calls wait_one() while   *)
(* one of them is suspended, as complete_read does, and finally destroys   *)
(* the backend.  A critical section of mutex_ is one action; the           *)
(* notification after it is another.                                       *)
(*                                                                         *)
(* A request lives in the coroutine frame of its Task, and the queues hold *)
(* its address, so requests are identified with frames.  A destroyed frame *)
(* becomes "fresh" again: the allocator may hand its address to the next   *)
(* read_at(), and an old pointer to it would then find the new request.    *)
(***************************************************************************)
EXTENDS Integers, Sequences, FiniteSets

CONSTANTS Requests,        \* addresses of coroutine frames
          Workers,         \* worker_count worker threads
          MaxInflight,     \* max_inflight
          NoRequest        \* a null ReadRequest*

ASSUME InflightAssumption == MaxInflight \in Nat \ {0}
ASSUME WorkersAssumption == Workers # {} /\ IsFiniteSet(Workers)
ASSUME RequestAssumption == IsFiniteSet(Requests) /\ NoRequest \notin Requests

VARIABLES
  task,                    \* the Task whose frame is at each address
  result,                  \* what Task::result() returns or throws
  outcome,                 \* history: what pread did for the request
  completion_result,       \* the field of the ReadRequest
  work_queue, completion_queue, inflight_count, stopping,
  workWaiters,             \* the workers asleep on work_available_
  callerAsleep,            \* the caller is asleep on completion_available_
  wpc, wreq,               \* where each worker stands, and its request
  pc, request              \* where the caller stands, and wait_one's request

queues == <<work_queue, completion_queue, inflight_count>>
tasks == <<task, result, outcome, completion_result>>
waits == <<workWaiters, callerAsleep>>
worker == <<wpc, wreq>>
caller == <<pc, request>>
vars == <<tasks, queues, stopping, waits, worker, caller>>

Reads == {"bytes", "eof", "errno"}     \* what pread can come back with
Nothing == "nothing"
Results == Reads \cup {"EAGAIN", "ECANCELED"}

Init ==
  /\ task = [r \in Requests |-> "fresh"]
  /\ result = [r \in Requests |-> Nothing]
  /\ outcome = [r \in Requests |-> Nothing]
  /\ completion_result = [r \in Requests |-> Nothing]
  /\ work_queue = <<>> /\ completion_queue = <<>> /\ inflight_count = 0
  /\ stopping = FALSE
  /\ workWaiters = {} /\ callerAsleep = FALSE
  /\ wpc = [w \in Workers |-> "unborn"] /\ wreq = [w \in Workers |-> NoRequest]
  /\ pc = "construct" /\ request = NoRequest

WorkerGoto(w, l) == wpc' = [wpc EXCEPT ![w] = l]
Back(q) == q[Len(q)]
PoppedBack(q) == SubSeq(q, 1, Len(q) - 1)

-----------------------------------------------------------------------------
(* The constructor starts the workers one after the other. *)
SpawnWorker(w) ==
  /\ pc = "construct" /\ wpc[w] = "unborn"
  /\ WorkerGoto(w, "wait")
  /\ pc' = IF \A v \in Workers \ {w} : wpc[v] # "unborn" THEN "idle" ELSE pc
  /\ UNCHANGED <<tasks, queues, stopping, waits, wreq, request>>

(* The constructor fails on a thread, or the destructor begins. *)
Stop ==
  /\ pc = "construct" \/ pc = "idle"
  /\ stopping' = TRUE
  /\ pc' = "notify_all"
  /\ UNCHANGED <<tasks, queues, waits, worker, request>>

(* work_available_.notify_all() *)
NotifyAll ==
  /\ pc = "notify_all"
  /\ workWaiters' = {}
  /\ pc' = "join"
  /\ UNCHANGED <<tasks, queues, stopping, callerAsleep, worker, request>>

(* workers_.clear() joins the workers; then the members are destroyed. *)
Join ==
  /\ pc = "join"
  /\ \A w \in Workers : wpc[w] \in {"unborn", "exited"}
  /\ work_queue' = <<>> /\ completion_queue' = <<>> /\ inflight_count' = 0
  /\ pc' = "gone"
  /\ UNCHANGED <<tasks, stopping, waits, worker, request>>

-----------------------------------------------------------------------------
(* Task::start runs read_at up to try_submit. *)

(* The request is accepted and the coroutine stays suspended. *)
Submit(r) ==
  /\ pc = "idle" /\ task[r] = "fresh"
  /\ ~stopping /\ inflight_count < MaxInflight
  /\ task' = [task EXCEPT ![r] = "suspended"]
  /\ work_queue' = Append(work_queue, r)
  /\ inflight_count' = inflight_count + 1
  /\ pc' = "submit_notify"
  /\ UNCHANGED <<result, outcome, completion_result, completion_queue, stopping,
                 waits, worker, request>>

(* The request is refused: the coroutine goes on and ends with the error. *)
SubmitRefused(r) ==
  /\ pc = "idle" /\ task[r] = "fresh"
  /\ stopping \/ inflight_count >= MaxInflight
  /\ task' = [task EXCEPT ![r] = "done"]
  /\ result' = [result EXCEPT ![r] = IF stopping THEN "ECANCELED" ELSE "EAGAIN"]
  /\ UNCHANGED <<outcome, completion_result, queues, stopping, waits, worker, caller>>

(* Mutant: nobody is told of the work. *)
SubmitNotifyNobody ==
  /\ pc = "submit_notify"
  /\ pc' = "idle"
  /\ UNCHANGED <<tasks, queues, stopping, waits, worker, request>>

(* work_available_.notify_one() *)
SubmitNotify ==
  /\ pc = "submit_notify"
  /\ \/ workWaiters = {} /\ UNCHANGED workWaiters
     \/ \E w \in workWaiters : workWaiters' = workWaiters \ {w}
  /\ pc' = "idle"
  /\ UNCHANGED <<tasks, queues, stopping, callerAsleep, worker, request>>

(* The caller is done with a Task, or gives up those left when the backend *)
(* is gone; ~Task destroys the frame.                                      *)
DestroyTask(r) ==
  /\ \/ pc = "idle" /\ task[r] = "done"
     \/ pc = "gone" /\ task[r] # "fresh"
  /\ task' = [task EXCEPT ![r] = "fresh"]
  /\ result' = [result EXCEPT ![r] = Nothing]
  /\ outcome' = [outcome EXCEPT ![r] = Nothing]
  /\ completion_result' = [completion_result EXCEPT ![r] = Nothing]
  /\ UNCHANGED <<queues, stopping, waits, worker, caller>>

-----------------------------------------------------------------------------
(* wait_one(), called while a Task is suspended.  It throws when nothing   *)
(* is in flight, which cannot be then: by RequestsTracked a queue or a     *)
(* worker has the request, and it is counted.                              *)
WaitOneCall ==
  /\ pc = "idle"
  /\ \E r \in Requests : task[r] = "suspended"
  /\ inflight_count # 0
  /\ pc' = "wait_one"
  /\ UNCHANGED <<tasks, queues, stopping, waits, worker, request>>

WaitOneSleep ==
  /\ pc = "wait_one" /\ ~callerAsleep
  /\ completion_queue = <<>>
  /\ callerAsleep' = TRUE
  /\ UNCHANGED <<tasks, queues, stopping, workWaiters, worker, caller>>

(* wait_one() takes the newest completion and makes room for a request. *)
WaitOneTake ==
  /\ pc = "wait_one" /\ ~callerAsleep
  /\ completion_queue # <<>>
  /\ request' = Back(completion_queue)
  /\ completion_queue' = PoppedBack(completion_queue)
  /\ inflight_count' = inflight_count - 1
  /\ pc' = "resume"
  /\ UNCHANGED <<tasks, work_queue, stopping, waits, worker>>

(* CompletionRequest::complete resumes the coroutine on this thread: it    *)
(* returns the count or throws, and its Task is done.                      *)
Resume ==
  /\ pc = "resume"
  /\ task' = [task EXCEPT ![request] = "done"]
  /\ result' = [result EXCEPT ![request] = completion_result[request]]
  /\ request' = NoRequest
  /\ pc' = "idle"
  /\ UNCHANGED <<outcome, completion_result, queues, stopping, waits, worker>>

-----------------------------------------------------------------------------
(* worker_loop *)

WorkerSleep(w) ==
  /\ wpc[w] = "wait" /\ w \notin workWaiters
  /\ ~stopping /\ work_queue = <<>>
  /\ workWaiters' = workWaiters \cup {w}
  /\ UNCHANGED <<tasks, queues, stopping, callerAsleep, worker, caller>>

(* Mutant: the request is read but left in the queue. *)
WorkerTakeNoPop(w) ==
  /\ wpc[w] = "wait" /\ w \notin workWaiters
  /\ work_queue # <<>>
  /\ wreq' = [wreq EXCEPT ![w] = Back(work_queue)]
  /\ WorkerGoto(w, "read")
  /\ UNCHANGED <<tasks, queues, stopping, waits, caller>>

WorkerTake(w) ==
  /\ wpc[w] = "wait" /\ w \notin workWaiters
  /\ work_queue # <<>>
  /\ wreq' = [wreq EXCEPT ![w] = Back(work_queue)]
  /\ work_queue' = PoppedBack(work_queue)
  /\ WorkerGoto(w, "read")
  /\ UNCHANGED <<tasks, completion_queue, inflight_count, stopping, waits, caller>>

(* Mutant: a stopping worker leaves the queue as it is. *)
WorkerExitEarly(w) ==
  /\ wpc[w] = "wait" /\ w \notin workWaiters
  /\ stopping
  /\ WorkerGoto(w, "exited")
  /\ UNCHANGED <<tasks, queues, stopping, waits, wreq, caller>>

WorkerExit(w) ==
  /\ wpc[w] = "wait" /\ w \notin workWaiters
  /\ stopping /\ work_queue = <<>>
  /\ WorkerGoto(w, "exited")
  /\ UNCHANGED <<tasks, queues, stopping, waits, wreq, caller>>

(* Mutant: the result goes to the request that was submitted last. *)
WorkerPublishToLast(w, o) ==
  /\ wpc[w] = "read"
  /\ outcome' = [outcome EXCEPT ![wreq[w]] = o]
  /\ completion_result' =
       [completion_result EXCEPT ![IF work_queue = <<>> THEN wreq[w]
                                   ELSE Back(work_queue)] = o]
  /\ completion_queue' = Append(completion_queue, wreq[w])
  /\ wreq' = [wreq EXCEPT ![w] = NoRequest]
  /\ WorkerGoto(w, "notify")
  /\ UNCHANGED <<task, result, work_queue, inflight_count, stopping, waits, caller>>

(* The read ends, without the mutex; its result is published under it. *)
WorkerPublish(w, o) ==
  /\ wpc[w] = "read"
  /\ outcome' = [outcome EXCEPT ![wreq[w]] = o]
  /\ completion_result' = [completion_result EXCEPT ![wreq[w]] = o]
  /\ completion_queue' = Append(completion_queue, wreq[w])
  /\ wreq' = [wreq EXCEPT ![w] = NoRequest]
  /\ WorkerGoto(w, "notify")
  /\ UNCHANGED <<task, result, work_queue, inflight_count, stopping, waits, caller>>

(* Mutant: the completion goes unannounced. *)
WorkerNotifyNobody(w) ==
  /\ wpc[w] = "notify"
  /\ WorkerGoto(w, "wait")
  /\ UNCHANGED <<tasks, queues, stopping, waits, wreq, caller>>

(* completion_available_.notify_one(): the caller is its only waiter. *)
WorkerNotify(w) ==
  /\ wpc[w] = "notify"
  /\ callerAsleep' = FALSE
  /\ WorkerGoto(w, "wait")
  /\ UNCHANGED <<tasks, queues, stopping, workWaiters, wreq, caller>>

-----------------------------------------------------------------------------
SpuriousWake ==
  /\ \/ callerAsleep /\ callerAsleep' = FALSE /\ UNCHANGED workWaiters
     \/ \E w \in workWaiters :
          workWaiters' = workWaiters \ {w} /\ UNCHANGED callerAsleep
  /\ UNCHANGED <<tasks, queues, stopping, worker, caller>>

(* The backend and every Task are gone. *)
Ended ==
  /\ pc = "gone" /\ \A r \in Requests : task[r] = "fresh"
  /\ UNCHANGED vars

WorkerStep(w) ==
  \/ WorkerSleep(w) \/ WorkerTake(w) \/ WorkerExit(w) \/ WorkerNotify(w)
  \/ \E o \in Reads : WorkerPublish(w, o)

(* What the caller does inside a call of the backend. *)
CallerStep ==
  \/ NotifyAll \/ Join \/ SubmitNotify \/ WaitOneSleep \/ WaitOneTake \/ Resume

Next ==
  \/ \E w \in Workers : SpawnWorker(w) \/ WorkerStep(w)
  \/ \E r \in Requests : Submit(r) \/ SubmitRefused(r) \/ DestroyTask(r)
  \/ CallerStep
  \/ Stop \/ WaitOneCall \/ SpuriousWake \/ Ended

Spec == Init /\ [][Next]_vars

(* A pread ends, a thread that can run does, and so does a call of the     *)
(* backend; the caller need not make any call.                             *)
FairSpec ==
  Spec /\ WF_vars(CallerStep) /\ \A w \in Workers : WF_vars(WorkerStep(w))

-----------------------------------------------------------------------------
TypeOK ==
  /\ task \in [Requests -> {"fresh", "suspended", "done"}]
  /\ result \in [Requests -> Results \cup {Nothing}]
  /\ outcome \in [Requests -> Reads \cup {Nothing}]
  /\ completion_result \in [Requests -> Reads \cup {Nothing}]
  /\ work_queue \in Seq(Requests) /\ completion_queue \in Seq(Requests)
  /\ inflight_count \in Nat
  /\ stopping \in BOOLEAN /\ callerAsleep \in BOOLEAN
  /\ workWaiters \subseteq Workers
  /\ wpc \in [Workers -> {"unborn", "wait", "read", "notify", "exited"}]
  /\ wreq \in [Workers -> Requests \cup {NoRequest}]
  /\ pc \in {"construct", "idle", "submit_notify", "wait_one", "resume",
             "notify_all", "join", "gone"}
  /\ request \in Requests \cup {NoRequest}

Reading == {w \in Workers : wpc[w] = "read"}

(* How many pointers to the frame r there are in queues and local          *)
(* variables.                                                              *)
Pointers(r) ==
  Cardinality({i \in DOMAIN work_queue : work_queue[i] = r})
    + Cardinality({i \in DOMAIN completion_queue : completion_queue[i] = r})
    + Cardinality({w \in Reading : wreq[w] = r})
    + (IF request = r THEN 1 ELSE 0)

(* While the backend exists, exactly one pointer leads to each suspended   *)
(* request and none to any other frame: nothing is read, published or      *)
(* resumed twice, dropped, or touched after its Task is destroyed.         *)
(* inflight_count_ covers queued, executing and unconsumed requests, and   *)
(* stays within max_inflight, so the reserved vectors never reallocate.    *)
RequestsTracked ==
  /\ pc # "gone" =>
       \A r \in Requests : Pointers(r) = IF task[r] = "suspended" THEN 1 ELSE 0
  /\ inflight_count =
       Len(work_queue) + Cardinality(Reading) + Len(completion_queue)
  /\ inflight_count <= MaxInflight

(* Both queues are stacks and completions overtake each other, yet every   *)
(* Task reports what pread did for its own request.                        *)
ResultsMatch ==
  \A r \in Requests :
    task[r] = "done" =>
      \/ result[r] = outcome[r] /\ outcome[r] # Nothing
      \/ result[r] = "EAGAIN" /\ outcome[r] = Nothing

(* No queued read waits next to a sleeping worker without a worker on its  *)
(* way to it, and the caller does not sleep on published completions.      *)
Searching == {w \in Workers : wpc[w] = "wait" /\ w \notin workWaiters}
NoLostWakeup ==
  /\ workWaiters # {} =>
       \/ Len(work_queue) <=
            Cardinality(Searching) + (IF pc = "submit_notify" THEN 1 ELSE 0)
       \/ pc = "notify_all"
  /\ callerAsleep /\ completion_queue # <<>> => \E w \in Workers : wpc[w] = "notify"

(* When the destructor returns, every accepted read has been carried out   *)
(* and no worker is left to touch a frame or a buffer.                     *)
DestructorDrains ==
  pc = "gone" =>
    /\ Reading = {}
    /\ \A r \in Requests : task[r] = "suspended" => outcome[r] # Nothing

(* wait_one() returns, and so does the destructor, also after a failed     *)
(* construction.                                                           *)
CallsReturn ==
  /\ pc = "wait_one" ~> pc = "idle"
  /\ stopping ~> pc = "gone"
=============================================================================
