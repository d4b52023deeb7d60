-------------------------- MODULE PipelineExecutor --------------------------
(***************************************************************************)
(* pipeline/pipeline_executor.cpp: PipelineExecutor::run.  The thread that *)
(* calls run() starts a writer, a processor and a reader, joins them, and  *)
(* returns the counts or rethrows the first failure.  Blocks travel        *)
(*                                                                         *)
(*    pool -> reader -> read_to_process -> processor                       *)
(*         -> process_to_write -> writer -> pool                           *)
(*                                                                         *)
(* as BlockWorkItems that own a leased buffer.  The two queues are used    *)
(* through the operations of BoundedChannel (SPSCQueue implements it), the *)
(* pool through the set of its free buffers (AlignedBufferPool implements  *)
(* that).  The bytes in the buffers and in the output file are modelled:   *)
(* a byte is the input position it came from and the number of processing  *)
(* stages it has been through.                                             *)
(***************************************************************************)
EXTENDS Integers, Sequences, FiniteSets

CONSTANTS Buffers,      \* the pool: max_inflight_buffers buffers
          NoBuffer,     \* a BufferHandle that owns nothing
          BlockSize,    \* config.block_size
          QueueDepth,   \* config.queue_depth
          MaxFileLen,   \* bound: bytes in the input file
          NumStages,    \* processing_pipeline.stage_count()
          MaxU64        \* the largest std::uint64_t

ASSUME SizeAssumption ==
  /\ BlockSize \in Nat \ {0} /\ QueueDepth \in Nat \ {0}
  /\ NumStages \in Nat \ {0}     \* run() refuses a pipeline without stages
  /\ MaxFileLen \in Nat
  /\ MaxU64 \in Nat /\ BlockSize <= MaxU64     \* size_to_u64 never throws
ASSUME BufferAssumption == Buffers # {} /\ NoBuffer \notin Buffers

VARIABLES
  input_length,                           \* bytes in the input file
  pc,                                     \* where each thread stands
  exc,                                    \* the exception a thread carries
  first_failure,
  r2pBuffer, r2pState, r2pFailure,        \* read_to_process
  p2wBuffer, p2wState, p2wFailure,        \* process_to_write
  free,                                   \* the buffers in the pool
  content,                                \* the bytes in each buffer
  item,                                   \* the work item each worker owns
  block_index, file_offset,               \* locals of reader_loop
  stage,                                  \* stages applied to the block
  written_count,                          \* local of write_all_at
  output,                                 \* the output file
  blocks_written, bytes_written,          \* run_result
  countBlocks, countBytes,                \* the workers' metric counters
  outcome                                 \* how run() ended

failures == <<exc, first_failure>>
r2pVars == <<r2pBuffer, r2pState, r2pFailure>>
p2wVars == <<p2wBuffer, p2wState, p2wFailure>>
queues == <<r2pVars, p2wVars>>
pool == <<free, item>>
data == <<content, output>>
locals == <<block_index, file_offset, stage, written_count>>
result == <<blocks_written, bytes_written>>
counters == <<countBlocks, countBytes>>
tally == <<result, counters>>
run == <<input_length, outcome>>
vars == <<pc, failures, queues, pool, data, locals, tally, run>>

Workers == {"reader", "processor", "writer"}
Threads == Workers \cup {"main"}

None == "none"
Errors == {"read_error", "stage_error", "write_error", "overflow_error",
           "logic_error", "thread_error"}

Positions == 0 .. input_length - 1
Bytes == (-1 .. MaxFileLen - 1) \X (0 .. NumStages)
Garbage == <<-1, 0>>

(* A BlockWorkItem; with no bytes it is the reader's lease before a read. *)
WorkItems == [index : Nat, offset : Nat, bytes : 0 .. BlockSize, buf : Buffers]
NoItem == [index |-> 0, offset |-> 0, bytes |-> 0, buf |-> NoBuffer]

R2P == INSTANCE BoundedChannel
  WITH Capacity <- QueueDepth, Items <- WorkItems, Failures <- Errors,
       NoFailure <- None,
       buffer <- r2pBuffer, state <- r2pState, failure <- r2pFailure
P2W == INSTANCE BoundedChannel
  WITH Capacity <- QueueDepth, Items <- WorkItems, Failures <- Errors,
       NoFailure <- None,
       buffer <- p2wBuffer, state <- p2wState, failure <- p2wFailure

(* The buffers owned by the items of a queue, and by a worker's item. *)
QueueBuffers(q) == {q[i].buf : i \in DOMAIN q}
Held(w) == {item[w].buf} \ {NoBuffer}

Goto(t, l) == pc' = [pc EXCEPT ![t] = l]

(* The item is destroyed and its BufferHandle returns the lease. *)
Release(w) ==
  /\ free' = free \cup Held(w)
  /\ item' = [item EXCEPT ![w] = NoItem]

(* An exception leaves the worker's loop: unwinding destroys its item      *)
(* before run_guarded catches it.                                          *)
Throw(w, e) ==
  /\ exc' = [exc EXCEPT ![w] = e]
  /\ Goto(w, "throw")
  /\ Release(w)

Init ==
  /\ input_length \in 0 .. MaxFileLen
  /\ pc = [t \in Threads |-> IF t = "main" THEN "start_writer" ELSE "unstarted"]
  /\ exc = [t \in Threads |-> None]
  /\ first_failure = None
  /\ R2P!Init /\ P2W!Init
  /\ free = Buffers
  /\ content = [b \in Buffers |-> [j \in 0 .. BlockSize - 1 |-> Garbage]]
  /\ item = [w \in Workers |-> NoItem]
  /\ block_index = 0 /\ file_offset = 0
  /\ stage = 0 /\ written_count = 0
  /\ output = [p \in Positions |-> Garbage]
  /\ blocks_written = 0 /\ bytes_written = 0
  /\ countBlocks = [w \in Workers |-> 0] /\ countBytes = [w \in Workers |-> 0]
  /\ outcome = "running"

-----------------------------------------------------------------------------
(* reader_loop *)

(* Mutant: the buffer is not marked as in use. *)
ReaderAcquireShared ==
  /\ pc["reader"] = "acquire"
  /\ \E b \in free :
       /\ free' = free
       /\ item' = [item EXCEPT !["reader"] =
            [index |-> block_index, offset |-> file_offset, bytes |-> 0, buf |-> b]]
  /\ Goto("reader", "read")
  /\ UNCHANGED <<failures, queues, data, locals, tally, run>>

(* buffer_pool.acquire(): blocks while no buffer is free. *)
ReaderAcquire ==
  /\ pc["reader"] = "acquire"
  /\ \E b \in free :
       /\ free' = free \ {b}
       /\ item' = [item EXCEPT !["reader"] =
            [index |-> block_index, offset |-> file_offset, bytes |-> 0, buf |-> b]]
  /\ Goto("reader", "read")
  /\ UNCHANGED <<failures, queues, data, locals, tally, run>>

(* Mutant: no overflow check. *)
ReaderReadUnchecked(n) ==
  /\ pc["reader"] = "read"
  /\ n <= BlockSize /\ n <= input_length - file_offset
  /\ LET b == item["reader"].buf IN
       content' = [content EXCEPT ![b] =
         [j \in 0 .. BlockSize - 1 |-> IF j < n THEN <<file_offset + j, 0>> ELSE @[j]]]
  /\ countBlocks' = [countBlocks EXCEPT !["reader"] = @ + 1]
  /\ countBytes' = [countBytes EXCEPT !["reader"] = @ + n]
  /\ item' = [item EXCEPT !["reader"].bytes = n]
  /\ Goto("reader", "push")
  /\ UNCHANGED <<failures, free, output, queues, locals, result, run>>

(* complete_read returns n > 0 bytes, as many as fit or fewer; then the    *)
(* counters, and the overflow checks, which throw.                         *)
ReaderRead(n) ==
  /\ pc["reader"] = "read"
  /\ n <= BlockSize /\ n <= input_length - file_offset
  /\ LET b == item["reader"].buf IN
       content' = [content EXCEPT ![b] =
         [j \in 0 .. BlockSize - 1 |-> IF j < n THEN <<file_offset + j, 0>> ELSE @[j]]]
  /\ countBlocks' = [countBlocks EXCEPT !["reader"] = @ + 1]
  /\ countBytes' = [countBytes EXCEPT !["reader"] = @ + n]
  /\ IF file_offset > MaxU64 - n \/ block_index = MaxU64
     THEN Throw("reader", "overflow_error")
     ELSE /\ item' = [item EXCEPT !["reader"].bytes = n]
          /\ Goto("reader", "push")
          /\ UNCHANGED <<exc, free>>
  /\ UNCHANGED <<first_failure, output, queues, locals, result, run>>

(* The backend's read fails, or wait_one throws. *)
ReaderReadFails ==
  /\ pc["reader"] = "read"
  /\ Throw("reader", "read_error")
  /\ UNCHANGED <<first_failure, queues, data, locals, tally, run>>

(* Zero bytes: the queue is closed, then the loop returns and its unused   *)
(* lease with it.                                                          *)
ReaderEof ==
  /\ pc["reader"] = "read"
  /\ file_offset = input_length
  /\ R2P!Close
  /\ Goto("reader", "return")
  /\ UNCHANGED <<failures, p2wVars, pool, data, locals, tally, run>>

(* Mutant: the unused lease is not returned. *)
ReaderReturnKeepsLease ==
  /\ pc["reader"] = "return"
  /\ UNCHANGED pool
  /\ Goto("reader", "done")
  /\ UNCHANGED <<failures, queues, data, locals, tally, run>>

ReaderReturn ==
  /\ pc["reader"] = "return"
  /\ Release("reader")
  /\ Goto("reader", "done")
  /\ UNCHANGED <<failures, queues, data, locals, tally, run>>

(* output.push(item) is accepted: the queue owns the item. *)
ReaderPush ==
  /\ pc["reader"] = "push"
  /\ R2P!Push(item["reader"])
  /\ item' = [item EXCEPT !["reader"] = NoItem]
  /\ block_index' = block_index + 1
  /\ file_offset' = file_offset + item["reader"].bytes
  /\ Goto("reader", "acquire")
  /\ UNCHANGED <<free, stage, written_count, failures, p2wVars, data, tally, run>>

(* The push rethrows a failure, or the loop throws because it was refused. *)
ReaderPushThrows ==
  /\ pc["reader"] = "push"
  /\ R2P!PushEnds
  /\ Throw("reader", IF r2pState = "failed" THEN r2pFailure ELSE "logic_error")
  /\ UNCHANGED <<first_failure, queues, data, locals, tally, run>>

-----------------------------------------------------------------------------
(* processor_loop *)

ProcessorPop ==
  /\ pc["processor"] = "pop"
  /\ r2pBuffer # <<>>
  /\ R2P!Pop(Head(r2pBuffer))
  /\ item' = [item EXCEPT !["processor"] = Head(r2pBuffer)]
  /\ stage' = 0
  /\ Goto("processor", "process")
  /\ UNCHANGED <<free, block_index, file_offset, written_count, failures, p2wVars,
                 data, tally, run>>

(* pop() rethrows the failure, or returns nullopt. *)
ProcessorPopEnds ==
  /\ pc["processor"] = "pop"
  /\ R2P!PopEnds
  /\ IF r2pState = "failed"
     THEN Throw("processor", r2pFailure)
     ELSE Goto("processor", "close") /\ UNCHANGED <<exc, free, item>>
  /\ UNCHANGED <<first_failure, queues, data, locals, tally, run>>

ProcessorClose ==
  /\ pc["processor"] = "close"
  /\ P2W!Close
  /\ Goto("processor", "done")
  /\ UNCHANGED <<failures, r2pVars, pool, data, locals, tally, run>>

(* Pipeline::process applies the next stage to the valid bytes, in place;  *)
(* after the last one the counters move.                                   *)
ProcessorStage ==
  /\ pc["processor"] = "process"
  /\ LET i == item["processor"] IN
       /\ content' = [content EXCEPT ![i.buf] =
            [j \in 0 .. BlockSize - 1 |->
               IF j < i.bytes THEN <<@[j][1], @[j][2] + 1>> ELSE @[j]]]
       /\ stage' = stage + 1
       /\ IF stage + 1 < NumStages
          THEN UNCHANGED <<pc, counters>>
          ELSE /\ Goto("processor", "push")
               /\ countBlocks' = [countBlocks EXCEPT !["processor"] = @ + 1]
               /\ countBytes' = [countBytes EXCEPT !["processor"] = @ + i.bytes]
  /\ UNCHANGED <<block_index, file_offset, written_count, output, failures, queues,
                 pool, result, run>>

(* A stage throws, with the earlier ones already applied. *)
ProcessorStageFails ==
  /\ pc["processor"] = "process"
  /\ Throw("processor", "stage_error")
  /\ UNCHANGED <<first_failure, queues, data, locals, tally, run>>

(* Mutant: the item is copied into the queue, not moved. *)
ProcessorPushCopies ==
  /\ pc["processor"] = "push"
  /\ P2W!Push(item["processor"])
  /\ Goto("processor", "pop")
  /\ UNCHANGED <<pool, failures, r2pVars, data, locals, tally, run>>

ProcessorPush ==
  /\ pc["processor"] = "push"
  /\ P2W!Push(item["processor"])
  /\ item' = [item EXCEPT !["processor"] = NoItem]
  /\ Goto("processor", "pop")
  /\ UNCHANGED <<free, failures, r2pVars, data, locals, tally, run>>

ProcessorPushThrows ==
  /\ pc["processor"] = "push"
  /\ P2W!PushEnds
  /\ Throw("processor", IF p2wState = "failed" THEN p2wFailure ELSE "logic_error")
  /\ UNCHANGED <<first_failure, queues, data, locals, tally, run>>

-----------------------------------------------------------------------------
(* writer_loop *)

WriterPop ==
  /\ pc["writer"] = "pop"
  /\ p2wBuffer # <<>>
  /\ P2W!Pop(Head(p2wBuffer))
  /\ item' = [item EXCEPT !["writer"] = Head(p2wBuffer)]
  /\ written_count' = 0
  /\ Goto("writer", "write")
  /\ UNCHANGED <<free, block_index, file_offset, stage, failures, r2pVars, data,
                 tally, run>>

(* Mutant: a closed queue ends the loop although values are queued. *)
WriterPopEndsUndrained ==
  /\ pc["writer"] = "pop"
  /\ p2wState # "open"
  /\ IF p2wState = "failed"
     THEN Throw("writer", p2wFailure)
     ELSE Goto("writer", "done") /\ UNCHANGED <<exc, free, item>>
  /\ UNCHANGED <<first_failure, queues, data, locals, tally, run>>

WriterPopEnds ==
  /\ pc["writer"] = "pop"
  /\ P2W!PopEnds
  /\ IF p2wState = "failed"
     THEN Throw("writer", p2wFailure)
     ELSE Goto("writer", "done") /\ UNCHANGED <<exc, free, item>>
  /\ UNCHANGED <<first_failure, queues, data, locals, tally, run>>

(* Mutant: a short write continues with the first byte of the block. *)
WriterWriteRestarts(n) ==
  /\ pc["writer"] = "write"
  /\ LET i == item["writer"]
         at == i.offset + written_count IN
       /\ n <= i.bytes - written_count
       /\ output' = [p \in Positions |->
            IF p \in at .. at + n - 1 THEN content[i.buf][p - at] ELSE output[p]]
       /\ written_count' = written_count + n
       /\ IF written_count + n < i.bytes THEN UNCHANGED pc ELSE Goto("writer", "count")
  /\ UNCHANGED <<content, block_index, file_offset, stage, failures, queues, pool,
                 tally, run>>

(* write_all_at: one pwrite takes n of the remaining bytes. *)
WriterWrite(n) ==
  /\ pc["writer"] = "write"
  /\ LET i == item["writer"]
         at == i.offset + written_count IN
       /\ n <= i.bytes - written_count
       /\ output' = [p \in Positions |->
            IF p \in at .. at + n - 1 THEN content[i.buf][p - i.offset] ELSE output[p]]
       /\ written_count' = written_count + n
       /\ IF written_count + n < i.bytes THEN UNCHANGED pc ELSE Goto("writer", "count")
  /\ UNCHANGED <<content, block_index, file_offset, stage, failures, queues, pool,
                 tally, run>>

(* pwrite fails, with the bytes before it already written. *)
WriterWriteFails ==
  /\ pc["writer"] = "write"
  /\ Throw("writer", "write_error")
  /\ UNCHANGED <<first_failure, queues, data, locals, tally, run>>

(* The block is counted, with overflow checks, and its item destroyed. *)
WriterCount ==
  /\ pc["writer"] = "count"
  /\ LET n == item["writer"].bytes IN
       IF bytes_written > MaxU64 - n
       THEN Throw("writer", "overflow_error") /\ UNCHANGED <<result, counters>>
       ELSE /\ bytes_written' = bytes_written + n
            /\ IF blocks_written > MaxU64 - 1
               THEN /\ Throw("writer", "overflow_error")
                    /\ UNCHANGED <<blocks_written, counters>>
               ELSE /\ blocks_written' = blocks_written + 1
                    /\ countBlocks' = [countBlocks EXCEPT !["writer"] = @ + 1]
                    /\ countBytes' = [countBytes EXCEPT !["writer"] = @ + n]
                    /\ Release("writer")
                    /\ Goto("writer", "pop")
                    /\ UNCHANGED exc
  /\ UNCHANGED <<first_failure, queues, data, locals, run>>

-----------------------------------------------------------------------------
(* fail_all, in three critical sections: of failure_mutex and of each queue. *)

Afterwards(t) == IF t = "main" THEN "join_reader" ELSE "done"

(* Mutant: every thread propagates its own exception. *)
FailAllRecordOwn(t) ==
  /\ pc[t] = "throw"
  /\ first_failure' = IF first_failure = None THEN exc[t] ELSE first_failure
  /\ UNCHANGED exc
  /\ Goto(t, "fail_r2p")
  /\ UNCHANGED <<queues, pool, data, locals, tally, run>>

(* The first failure is kept and becomes what this thread propagates. *)
FailAllRecord(t) ==
  /\ pc[t] = "throw"
  /\ first_failure' = IF first_failure = None THEN exc[t] ELSE first_failure
  /\ exc' = [exc EXCEPT ![t] = first_failure']
  /\ Goto(t, "fail_r2p")
  /\ UNCHANGED <<queues, pool, data, locals, tally, run>>

(* read_to_process->fail: the queued items return their leases. *)
FailAllR2P(t) ==
  /\ pc[t] = "fail_r2p"
  /\ R2P!Fail(exc[t])
  /\ free' = free \cup QueueBuffers(r2pBuffer)
  /\ Goto(t, "fail_p2w")
  /\ UNCHANGED <<item, failures, p2wVars, data, locals, tally, run>>

(* Mutant: only the first queue is failed. *)
FailAllP2WSkipped(t) ==
  /\ pc[t] = "fail_p2w"
  /\ UNCHANGED <<p2wVars, free>>
  /\ Goto(t, Afterwards(t))
  /\ UNCHANGED <<item, failures, r2pVars, data, locals, tally, run>>

FailAllP2W(t) ==
  /\ pc[t] = "fail_p2w"
  /\ P2W!Fail(exc[t])
  /\ free' = free \cup QueueBuffers(p2wBuffer)
  /\ Goto(t, Afterwards(t))
  /\ UNCHANGED <<item, failures, r2pVars, data, locals, tally, run>>

-----------------------------------------------------------------------------
(* run: the calling thread *)

StartAt == [writer |-> "start_writer", processor |-> "start_processor",
            reader |-> "start_reader"]
JoinAt == [reader |-> "join_reader", processor |-> "join_processor",
           writer |-> "join_writer"]
FirstStep(w) == IF w = "reader" THEN "acquire" ELSE "pop"
(* Consumers start first; the joins follow the blocks. *)
AfterStart == [writer |-> "start_processor", processor |-> "start_reader",
               reader |-> "join_reader"]
AfterJoin == [reader |-> "join_processor", processor |-> "join_writer",
              writer |-> "finish"]

StartThread(w) ==
  /\ pc["main"] = StartAt[w]
  /\ pc' = [pc EXCEPT !["main"] = AfterStart[w], ![w] = FirstStep(w)]
  /\ UNCHANGED <<failures, queues, pool, data, locals, tally, run>>

(* The std::jthread constructor throws: no further thread is started. *)
StartThreadFails(w) ==
  /\ pc["main"] = StartAt[w]
  /\ exc' = [exc EXCEPT !["main"] = "thread_error"]
  /\ Goto("main", "throw")
  /\ UNCHANGED <<first_failure, queues, pool, data, locals, tally, run>>

(* A thread that was never started is not joinable and is skipped. *)
Join(w) ==
  /\ pc["main"] = JoinAt[w]
  /\ pc[w] \in {"unstarted", "done"}
  /\ Goto("main", AfterJoin[w])
  /\ UNCHANGED <<failures, queues, pool, data, locals, tally, run>>

(* run() returns its result or rethrows; queues, then pool, are destroyed. *)
Finish ==
  /\ pc["main"] = "finish"
  /\ outcome' = IF first_failure = None THEN "returned" ELSE first_failure
  /\ Goto("main", "done")
  /\ UNCHANGED <<input_length, failures, queues, pool, data, locals, tally>>

Finished == pc["main"] = "done" /\ UNCHANGED vars

-----------------------------------------------------------------------------
ReaderStep ==
  \/ ReaderAcquire \/ (\E n \in 1 .. BlockSize : ReaderRead(n))
  \/ ReaderReadFails \/ ReaderEof \/ ReaderReturn \/ ReaderPush \/ ReaderPushThrows
ProcessorStep ==
  \/ ProcessorPop \/ ProcessorPopEnds \/ ProcessorClose \/ ProcessorStage
  \/ ProcessorStageFails \/ ProcessorPush \/ ProcessorPushThrows
WriterStep ==
  \/ WriterPop \/ WriterPopEnds \/ (\E n \in 1 .. BlockSize : WriterWrite(n))
  \/ WriterWriteFails \/ WriterCount
FailAllStep(t) == FailAllRecord(t) \/ FailAllR2P(t) \/ FailAllP2W(t)
MainStep ==
  \/ \E w \in Workers : StartThread(w) \/ StartThreadFails(w) \/ Join(w)
  \/ Finish

Next ==
  \/ ReaderStep \/ ProcessorStep \/ WriterStep
  \/ \E t \in Threads : FailAllStep(t)
  \/ MainStep
  \/ Finished

Spec == Init /\ [][Next]_vars

(* Every thread that can take a step eventually takes one: reads and       *)
(* writes complete or fail, and the scheduler starves nobody.              *)
Fairness ==
  /\ WF_vars(ReaderStep) /\ WF_vars(ProcessorStep) /\ WF_vars(WriterStep)
  /\ \A t \in Threads : WF_vars(FailAllStep(t))
  /\ WF_vars(MainStep)

FairSpec == Spec /\ Fairness

-----------------------------------------------------------------------------
Locations ==
  {"unstarted", "acquire", "read", "push", "return", "pop", "process", "close",
   "write", "count", "throw", "fail_r2p", "fail_p2w", "done", "finish"}
  \cup {StartAt[w] : w \in Workers} \cup {JoinAt[w] : w \in Workers}

TypeOK ==
  /\ input_length \in 0 .. MaxFileLen
  /\ pc \in [Threads -> Locations]
  /\ exc \in [Threads -> Errors \cup {None}]
  /\ first_failure \in Errors \cup {None}
  /\ r2pBuffer \in Seq(WorkItems) /\ p2wBuffer \in Seq(WorkItems)
  /\ {r2pState, p2wState} \subseteq {"open", "closed", "failed"}
  /\ {r2pFailure, p2wFailure} \subseteq Errors \cup {None}
  /\ free \subseteq Buffers
  /\ content \in [Buffers -> [0 .. BlockSize - 1 -> Bytes]]
  /\ item \in [Workers -> WorkItems \cup {NoItem}]
  /\ block_index \in Nat /\ file_offset \in 0 .. input_length
  /\ stage \in 0 .. NumStages /\ written_count \in 0 .. BlockSize
  /\ output \in [Positions -> Bytes]
  /\ blocks_written \in Nat /\ bytes_written \in Nat
  /\ countBlocks \in [Workers -> Nat] /\ countBytes \in [Workers -> Nat]
  /\ outcome \in Errors \cup {"running", "returned"}

(* Every buffer is in the pool or owned by exactly one work item, whether  *)
(* a worker holds the item or a queue does: no lease is lost, none is      *)
(* returned twice, and no two threads ever touch the same buffer.          *)
Owned(w) == IF item[w] = NoItem THEN <<>> ELSE <<item[w]>>
InFlight == Owned("writer") \o p2wBuffer \o Owned("processor") \o r2pBuffer
              \o Owned("reader")
BuffersOwnedOnce ==
  /\ \A i, j \in DOMAIN InFlight : InFlight[i].buf = InFlight[j].buf => i = j
  /\ free = Buffers \ QueueBuffers(InFlight)

(* Buffers are reused without being cleared, yet an item always finds its  *)
(* own bytes in its buffer, processed as far as its place says: untouched  *)
(* before the processor, by every stage after it.                          *)
HoldsBlock(i, k) ==
  \A j \in 0 .. i.bytes - 1 : content[i.buf][j] = <<i.offset + j, k>>
BlocksIntact ==
  /\ HoldsBlock(item["reader"], 0)
  /\ \A i \in DOMAIN r2pBuffer : HoldsBlock(r2pBuffer[i], 0)
  /\ HoldsBlock(item["processor"], stage)
  /\ \A i \in DOMAIN p2wBuffer : HoldsBlock(p2wBuffer[i], NumStages)
  /\ HoldsBlock(item["writer"], NumStages)

Serial == INSTANCE SerialReference
  WITH status <- IF outcome \in {"running", "returned"} THEN outcome ELSE "threw"

(* The threaded pipeline implements the serial reference: at every moment  *)
(* the output file is a fully processed prefix of the input, and run()     *)
(* returns only when it is the whole input.                                *)
ImplementsSerial == Serial!Spec

(* A run that returns counted everything: each worker's counters and the   *)
(* result agree with the input, and both queues were drained, not failed.  *)
SuccessIsComplete ==
  outcome = "returned" =>
    /\ bytes_written = input_length
    /\ \A w \in Workers : countBytes[w] = input_length /\ countBlocks[w] = blocks_written
    /\ r2pState = "closed" /\ p2wState = "closed"
    /\ r2pBuffer = <<>> /\ p2wBuffer = <<>>

(* One failure is canonical: whichever threads fail, in whatever order     *)
(* their three-step fail_all calls interleave, both queues carry the first *)
(* recorded failure and run() rethrows that one after both have failed.    *)
FirstFailureWins ==
  /\ r2pState = "failed" => r2pFailure = first_failure /\ first_failure # None
  /\ p2wState = "failed" => p2wFailure = first_failure /\ r2pState = "failed"
  /\ pc["main"] = "done" /\ outcome # "returned" =>
       outcome = first_failure /\ p2wState = "failed"
  /\ pc["main"] = "done" /\ outcome = "returned" => first_failure = None

(* When the queues and the pool are destroyed nobody owns a buffer, as the *)
(* assertion in ~AlignedBufferPool demands.                                *)
LeasesReturned ==
  pc["main"] = "finish" \/ pc["main"] = "done" =>
    free = Buffers /\ r2pBuffer = <<>> /\ p2wBuffer = <<>>

(* The errors the loops guard against without ever meeting them: a queue   *)
(* is never closed under its producer, and the writer's counts cannot      *)
(* overflow because the reader's offset would have done so first.          *)
GuardsUnreachable ==
  /\ \A t \in Threads : exc[t] # "logic_error"
  /\ pc["writer"] = "count" =>
       /\ bytes_written + item["writer"].bytes <= MaxU64
       /\ blocks_written < MaxU64

(* run() always ends, with a result or an exception: whatever fails, every *)
(* worker gets out of the queues and out of the pool and can be joined.    *)
Terminates == <>(pc["main"] = "done")
=============================================================================
