----------------------- MODULE PipelineExecutorProofs -----------------------
(***************************************************************************)
(* Safety of PipelineExecutor, and its refinement of SerialReference, for  *)
(* every number of buffers, block size, queue depth, file length, number   *)
(* of stages and width of the counters.                                    *)
(***************************************************************************)
EXTENDS PipelineExecutor, SequenceTheorems, TLAPS

Failing == {"throw", "fail_r2p", "fail_p2w"}
Ended == {"unstarted", "done"}

(* Where a worker owns a work item, and nowhere else. *)
Carrying == [reader |-> {"read", "push", "return"},
             processor |-> {"process", "push"},
             writer |-> {"write", "count"}]
Working == [reader |-> Carrying.reader \cup {"acquire"},
            processor |-> Carrying.processor \cup {"pop", "close"},
            writer |-> Carrying.writer \cup {"pop"}]

(* The calling thread starts the workers from the last to the first and    *)
(* joins them from the first to the last.                                  *)
Starting == {"start_writer", "start_processor", "start_reader"}
Joining == {"join_reader", "join_processor", "join_writer", "finish", "done"}
Standing ==
  /\ \A w \in Workers : pc[w] \in Working[w] \cup Failing \cup Ended
  /\ pc["main"] \in Starting \cup Failing \cup Joining
  /\ pc["main"] = "start_writer" => pc["writer"] = "unstarted"
  /\ pc["main"] \in {"start_writer", "start_processor"} => pc["processor"] = "unstarted"
  /\ pc["main"] \in Starting => pc["reader"] = "unstarted" /\ exc["main"] = None
  /\ exc["main"] = None =>
       /\ pc["main"] # "start_writer" => pc["writer"] # "unstarted"
       /\ pc["main"] \notin {"start_writer", "start_processor"} =>
            pc["processor"] # "unstarted"
       /\ pc["main"] \notin Starting => pc["reader"] # "unstarted"
  /\ pc["main"] \in Joining \ {"join_reader"} => pc["reader"] \in Ended
  /\ pc["main"] \in {"join_writer", "finish", "done"} => pc["processor"] \in Ended
  /\ pc["main"] \in {"finish", "done"} => pc["writer"] \in Ended

(* Whoever threw propagates the first failure once it is recorded, and has *)
(* failed each queue it has passed.                                        *)
Failures ==
  /\ \A w \in Workers : exc[w] # None => pc[w] \in Failing \cup {"done"}
  /\ \A t \in Threads : exc[t] # "logic_error"
  /\ \A t \in Threads : pc[t] \in Failing => exc[t] # None
  /\ \A t \in Threads : exc[t] # None /\ pc[t] # "throw" => exc[t] = first_failure
  /\ \A t \in Threads :
       exc[t] # None /\ pc[t] \notin {"throw", "fail_r2p"} => r2pState = "failed"
  /\ \A t \in Threads : exc[t] # None /\ pc[t] \notin Failing => p2wState = "failed"
  /\ first_failure # None => \E t \in Threads : exc[t] # None /\ pc[t] # "throw"
  /\ first_failure # "logic_error"
  /\ r2pState = "failed" =>
       r2pFailure = first_failure /\ first_failure # None /\ r2pBuffer = <<>>
  /\ p2wState = "failed" =>
       p2wFailure = first_failure /\ r2pState = "failed" /\ p2wBuffer = <<>>
  /\ outcome = IF pc["main"] # "done" THEN "running"
               ELSE IF first_failure = None THEN "returned" ELSE first_failure

(* A queue is closed by its producer as its last act, and a consumer stops *)
(* without a failure only when the queue is closed and drained.            *)
Closing ==
  /\ r2pState = "closed" => pc["reader"] \in {"return", "done"} /\ file_offset = input_length
  /\ p2wState = "closed" => pc["processor"] = "done"
  /\ exc["reader"] = None /\ pc["reader"] \in {"return", "done"} => r2pState # "open"
  /\ exc["processor"] = None /\ pc["processor"] = "done" => p2wState # "open"
  /\ exc["processor"] = None /\ pc["processor"] \in {"close", "done"} =>
       r2pState = "failed" \/ (r2pBuffer = <<>> /\ r2pState = "closed")
  /\ exc["writer"] = None /\ pc["writer"] = "done" =>
       p2wBuffer = <<>> /\ p2wState # "open"

(* The ownership of the buffers, place by place. *)
Queued == QueueBuffers(r2pBuffer) \cup QueueBuffers(p2wBuffer)
Distinct(q) == \A i, j \in DOMAIN q : q[i].buf = q[j].buf => i = j
Ownership ==
  /\ \A w \in Workers : item[w] # NoItem <=> pc[w] \in Carrying[w]
  /\ Distinct(r2pBuffer) /\ Distinct(p2wBuffer)
  /\ QueueBuffers(r2pBuffer) \cap QueueBuffers(p2wBuffer) = {}
  /\ \A w \in Workers : item[w].buf \notin Queued
  /\ \A v, w \in Workers : item[v].buf = item[w].buf /\ item[v] # NoItem => v = w
  /\ free = (Buffers \ Queued) \ {item[w].buf : w \in Workers}

(* The blocks follow one another.  A mark is a block index with an offset: *)
(* where a block starts and where the next one does.                       *)
Start(i) == <<i.index, i.offset>>
After(i) == <<i.index + 1, i.offset + i.bytes>>
Chain(q, m) ==
  /\ q # <<>> => Start(q[1]) = m
  /\ \A i \in 1 .. Len(q) - 1 : Start(q[i + 1]) = After(q[i])
EndOf(q, m) == IF q = <<>> THEN m ELSE After(q[Len(q)])

(* What a consumer has counted, and what it pops next. *)
Count(w) == <<countBlocks[w], countBytes[w]>>
ProcessorPops == IF pc["processor"] = "process" THEN After(item["processor"])
                 ELSE Count("processor")
ProcessorPushes == IF pc["processor"] = "push" THEN Start(item["processor"])
                   ELSE Count("processor")
WriterPops == IF pc["writer"] \in Carrying.writer THEN After(item["writer"])
              ELSE Count("writer")

(* While a thread has not thrown, the blocks it takes and gives are the    *)
(* next ones.                                                              *)
ReaderInOrder ==
  /\ block_index <= MaxU64 /\ file_offset <= MaxU64
  /\ pc["reader"] \in Carrying.reader => Start(item["reader"]) = <<block_index, file_offset>>
  /\ pc["reader"] \in {"read", "return"} => item["reader"].bytes = 0
  /\ pc["reader"] = "push" =>
       /\ item["reader"].bytes > 0
       /\ file_offset + item["reader"].bytes <= input_length
       /\ file_offset + item["reader"].bytes <= MaxU64 /\ block_index < MaxU64
  /\ exc["reader"] = None =>
       Count("reader") = IF pc["reader"] = "push" THEN After(item["reader"])
                         ELSE <<block_index, file_offset>>
ProcessorInOrder ==
  /\ exc["processor"] = None /\ r2pState # "failed" =>
       /\ Chain(r2pBuffer, ProcessorPops)
       /\ EndOf(r2pBuffer, ProcessorPops) = <<block_index, file_offset>>
  /\ pc["processor"] = "process" => Start(item["processor"]) = Count("processor")
  /\ pc["processor"] = "push" => After(item["processor"]) = Count("processor")
WriterInOrder ==
  /\ exc["writer"] = None /\ p2wState # "failed" =>
       /\ Chain(p2wBuffer, WriterPops)
       /\ exc["processor"] = None => EndOf(p2wBuffer, WriterPops) = ProcessorPushes
  /\ pc["writer"] \in Carrying.writer => Start(item["writer"]) = Count("writer")
  /\ exc["writer"] = None => Count("writer") = <<blocks_written, bytes_written>>

(* Whatever left the reader is a block it has passed. *)
Before(i) == i.bytes > 0 /\ i.index < block_index /\ i.offset + i.bytes <= file_offset
AllBefore ==
  /\ \A i \in DOMAIN r2pBuffer : Before(r2pBuffer[i])
  /\ \A i \in DOMAIN p2wBuffer : Before(p2wBuffer[i])
  /\ \A w \in {"processor", "writer"} : item[w] # NoItem => Before(item[w])

InOrder == ReaderInOrder /\ ProcessorInOrder /\ WriterInOrder /\ AllBefore

(* Where the processor and the writer stand within their blocks, and the   *)
(* prefix that has been written.                                           *)
Progress ==
  /\ pc["processor"] = "process" => stage < NumStages
  /\ pc["processor"] = "push" => stage = NumStages
  /\ pc["writer"] = "write" => written_count < item["writer"].bytes
  /\ pc["writer"] = "count" => written_count = item["writer"].bytes
WrittenTo == bytes_written + IF pc["writer"] \in Carrying.writer THEN written_count ELSE 0
OutputIsPrefix ==
  /\ \E n \in 0 .. input_length : output = Serial!Prefix(n)
  /\ exc["writer"] = None => output = Serial!Prefix(WrittenTo)

(* The inductive invariant. *)
IInv ==
  /\ TypeOK /\ Standing /\ Failures /\ Closing /\ Ownership /\ InOrder
  /\ Progress /\ BlocksIntact /\ OutputIsPrefix

-----------------------------------------------------------------------------
(* The steps, with what their conditions come to in a reachable state.  A  *)
(* worker throws; nothing is said of its own counters or of the buffer it  *)
(* gives back.                                                             *)
Thrown(w) ==
  /\ pc[w] \in Working[w] \ {"return", "close"}
  /\ \E e \in Errors \ {"logic_error"} : Throw(w, e)
  /\ content' \in [Buffers -> [0 .. BlockSize - 1 -> Bytes]]
  /\ \A b \in Buffers : b # item[w].buf => content'[b] = content[b]
  /\ countBlocks' \in [Workers -> Nat] /\ countBytes' \in [Workers -> Nat]
  /\ \A v \in Workers \ {w} : countBlocks'[v] = countBlocks[v] /\ countBytes'[v] = countBytes[v]
  /\ UNCHANGED <<first_failure, queues, output, locals, result, run>>

ReaderReads(n) ==
  /\ pc["reader"] = "read"
  /\ n <= BlockSize /\ n <= input_length - file_offset
  /\ file_offset <= MaxU64 - n /\ block_index # MaxU64
  /\ content' = [content EXCEPT ![item["reader"].buf] =
       [j \in 0 .. BlockSize - 1 |-> IF j < n THEN <<file_offset + j, 0>> ELSE @[j]]]
  /\ countBlocks' = [countBlocks EXCEPT !["reader"] = @ + 1]
  /\ countBytes' = [countBytes EXCEPT !["reader"] = @ + n]
  /\ item' = [item EXCEPT !["reader"].bytes = n]
  /\ Goto("reader", "push")
  /\ UNCHANGED <<failures, free, output, queues, locals, result, run>>

ProcessorDrains ==
  /\ pc["processor"] = "pop"
  /\ r2pState = "closed" /\ r2pBuffer = <<>>
  /\ Goto("processor", "close")
  /\ UNCHANGED <<failures, queues, pool, data, locals, tally, run>>

WriterDrains ==
  /\ pc["writer"] = "pop"
  /\ p2wState = "closed" /\ p2wBuffer = <<>>
  /\ Goto("writer", "done")
  /\ UNCHANGED <<failures, queues, pool, data, locals, tally, run>>

WriterCounts ==
  /\ pc["writer"] = "count"
  /\ bytes_written' = bytes_written + item["writer"].bytes
  /\ blocks_written' = blocks_written + 1
  /\ countBlocks' = [countBlocks EXCEPT !["writer"] = @ + 1]
  /\ countBytes' = [countBytes EXCEPT !["writer"] = @ + item["writer"].bytes]
  /\ Release("writer")
  /\ Goto("writer", "pop")
  /\ UNCHANGED <<failures, queues, data, locals, run>>

Move ==
  \/ \E w \in Workers : Thrown(w)
  \/ ReaderAcquire \/ (\E n \in 1 .. BlockSize : ReaderReads(n)) \/ ReaderEof
  \/ ReaderReturn \/ ReaderPush
  \/ ProcessorPop \/ ProcessorDrains \/ ProcessorClose \/ ProcessorStage \/ ProcessorPush
  \/ WriterPop \/ WriterDrains \/ (\E n \in 1 .. BlockSize : WriterWrite(n)) \/ WriterCounts
  \/ \E t \in Threads : FailAllStep(t)
  \/ MainStep
  \/ UNCHANGED vars

(* A worker's item is a work item where it owns one, and nothing elsewhere.*)
LEMMA ItemTyped ==
  ASSUME IInv, NEW w \in Workers
  PROVE  /\ pc[w] \in Carrying[w] => item[w] \in WorkItems /\ item[w].buf \in Buffers
         /\ pc[w] \notin Carrying[w] => item[w] = NoItem /\ Held(w) = {}
         /\ pc[w] \in Carrying[w] => Held(w) = {item[w].buf}
         /\ item[w].bytes \in 0 .. BlockSize /\ item[w].offset \in Nat /\ item[w].index \in Nat
<1>1. item[w] \in WorkItems \cup {NoItem} /\ (item[w] # NoItem <=> pc[w] \in Carrying[w])
  BY DEF IInv, TypeOK, Ownership
<1>2. \A i \in WorkItems : /\ i.buf \in Buffers /\ i.bytes \in 0 .. BlockSize
                           /\ i.offset \in Nat /\ i.index \in Nat
  BY DEF WorkItems
<1>3. /\ NoItem.buf = NoBuffer /\ NoItem.bytes \in 0 .. BlockSize
      /\ NoItem.offset \in Nat /\ NoItem.index \in Nat
  BY SizeAssumption DEF NoItem
<1> QED
  BY <1>1, <1>2, <1>3, BufferAssumption DEF Held

(* The bytes a read stores are bytes of the file. *)
LEMMA ReadTyped ==
  ASSUME IInv, pc["reader"] = "read", NEW n \in 1 .. BlockSize,
         n <= input_length - file_offset,
         content' = [content EXCEPT ![item["reader"].buf] =
           [j \in 0 .. BlockSize - 1 |-> IF j < n THEN <<file_offset + j, 0>> ELSE @[j]]]
  PROVE  content' \in [Buffers -> [0 .. BlockSize - 1 -> Bytes]]
<1> DEFINE b == item["reader"].buf
           new == [j \in 0 .. BlockSize - 1 |->
                     IF j < n THEN <<file_offset + j, 0>> ELSE content[b][j]]
<1>1. b \in Buffers
  BY ItemTyped DEF Workers, Carrying
<1>2. content \in [Buffers -> [0 .. BlockSize - 1 -> Bytes]]
  BY DEF IInv, TypeOK
<1>3. content' = [content EXCEPT ![b] = new]
  BY <1>1, <1>2
<1>4. ASSUME NEW j \in 0 .. BlockSize - 1, j < n PROVE <<file_offset + j, 0>> \in Bytes
  <2>1. input_length \in 0 .. MaxFileLen /\ file_offset \in 0 .. input_length
    BY DEF IInv, TypeOK
  <2>2. file_offset + j \in -1 .. MaxFileLen - 1
    BY <1>4, <2>1, SizeAssumption
  <2>3. 0 \in 0 .. NumStages
    BY SizeAssumption
  <2> QED
    BY <2>2, <2>3 DEF Bytes
<1> HIDE DEF b
<1>5. ASSUME NEW j \in 0 .. BlockSize - 1 PROVE content[b][j] \in Bytes
  BY <1>1, <1>2
<1>6. new \in [0 .. BlockSize - 1 -> Bytes]
  BY <1>4, <1>5
<1> HIDE DEF new
<1> QED
  BY <1>1, <1>2, <1>3, <1>6

(* A worker that throws with nothing but its item touched. *)
LEMMA ThrowsPlainly ==
  ASSUME IInv, NEW w \in Workers, pc[w] \in Working[w] \ {"return", "close"},
         NEW e \in Errors \ {"logic_error"}, Throw(w, e),
         UNCHANGED <<first_failure, queues, data, locals, tally, run>>
  PROVE  Thrown(w)
<1>1. /\ content \in [Buffers -> [0 .. BlockSize - 1 -> Bytes]]
      /\ countBlocks \in [Workers -> Nat] /\ countBytes \in [Workers -> Nat]
  BY DEF IInv, TypeOK
<1> QED
  BY <1>1 DEF Thrown, data, tally, counters

(* The errors the loops guard against: the writer's counts stay below what *)
(* the reader has checked.                                                 *)
LEMMA CountsFit ==
  ASSUME IInv, pc["writer"] = "count"
  PROVE  /\ bytes_written + item["writer"].bytes <= MaxU64
         /\ blocks_written < MaxU64
<1>0. TypeOK /\ Failures /\ Ownership /\ InOrder
  BY DEF IInv
<1>1. "writer" \in Workers /\ pc["writer"] \in Carrying["writer"] /\ pc["writer"] \in Carrying.writer
  BY DEF Workers, Carrying
<1>2. item["writer"] # NoItem /\ exc["writer"] = None
  BY <1>0, <1>1 DEF Ownership, Failures, Failing
<1>3. Before(item["writer"])
  BY <1>0, <1>2 DEF InOrder, AllBefore
<1>4. item["writer"].index = blocks_written /\ item["writer"].offset = bytes_written
  BY <1>0, <1>1, <1>2 DEF InOrder, WriterInOrder, Start, Count
<1>5. /\ item["writer"].bytes \in Nat /\ blocks_written \in Nat /\ bytes_written \in Nat
      /\ block_index \in Nat /\ file_offset \in Nat
  BY <1>0, <1>1, ItemTyped DEF TypeOK
<1> QED
  BY <1>0, <1>3, <1>4, <1>5, SizeAssumption DEF InOrder, ReaderInOrder, Before

(* Every step is one of the steps above: a queue is never closed under its *)
(* producer, and the writer's counts do not overflow.                      *)
LEMMA Cases == ASSUME IInv, [Next]_vars PROVE Move
<1>0. TypeOK /\ Standing /\ Failures /\ Closing /\ InOrder
  BY DEF IInv
<1>a. "reader" \in Workers /\ "processor" \in Workers /\ "writer" \in Workers
  BY DEF Workers
<1>b. /\ {"read", "push"} \subseteq Working["reader"]
      /\ {"pop", "process", "push"} \subseteq Working["processor"]
      /\ {"pop", "write", "count"} \subseteq Working["writer"]
  BY DEF Working, Carrying
<1>c. /\ r2pState \in {"open", "closed", "failed"} /\ p2wState \in {"open", "closed", "failed"}
      /\ first_failure \in Errors \cup {None}
  BY <1>0 DEF TypeOK
<1>d. r2pState = "failed" => r2pFailure \in Errors \ {"logic_error"}
  BY <1>0, <1>c DEF Failures
<1>e. p2wState = "failed" => p2wFailure \in Errors \ {"logic_error"}
  BY <1>0, <1>c DEF Failures
<1>1. ASSUME NEW n \in 1 .. BlockSize, ReaderRead(n) PROVE Move
  <2>1. CASE file_offset > MaxU64 - n \/ block_index = MaxU64
    <3>1. /\ pc["reader"] = "read" /\ Throw("reader", "overflow_error")
          /\ n <= input_length - file_offset
          /\ content' = [content EXCEPT ![item["reader"].buf] =
               [j \in 0 .. BlockSize - 1 |-> IF j < n THEN <<file_offset + j, 0>> ELSE @[j]]]
          /\ countBlocks' = [countBlocks EXCEPT !["reader"] = @ + 1]
          /\ countBytes' = [countBytes EXCEPT !["reader"] = @ + n]
          /\ UNCHANGED <<first_failure, output, queues, locals, result, run>>
      BY <1>1, <2>1 DEF ReaderRead
    <3>2. content' \in [Buffers -> [0 .. BlockSize - 1 -> Bytes]]
      BY <3>1, ReadTyped
    <3>3. \A b \in Buffers : b # item["reader"].buf => content'[b] = content[b]
      BY <1>0, <3>1 DEF TypeOK
    <3>4. /\ countBlocks' \in [Workers -> Nat] /\ countBytes' \in [Workers -> Nat]
          /\ \A v \in Workers \ {"reader"} :
               countBlocks'[v] = countBlocks[v] /\ countBytes'[v] = countBytes[v]
      BY <1>0, <1>a, <3>1, SizeAssumption DEF TypeOK
    <3>5. "overflow_error" \in Errors \ {"logic_error"}
      BY DEF Errors
    <3>6. Thrown("reader")
      BY <1>b, <3>1, <3>2, <3>3, <3>4, <3>5 DEF Thrown
    <3> QED
      BY <1>a, <3>6 DEF Move
  <2>2. CASE ~(file_offset > MaxU64 - n \/ block_index = MaxU64)
    <3>1. file_offset <= MaxU64 - n
      BY <1>0, <2>2, SizeAssumption DEF TypeOK
    <3>2. ReaderReads(n)
      BY <1>1, <2>2, <3>1 DEF ReaderRead, ReaderReads, failures
    <3> QED
      BY <3>2 DEF Move
  <2> QED
    BY <2>1, <2>2
<1>2. CASE ReaderReadFails
  <2>1. Thrown("reader")
    BY <1>a, <1>b, <1>2, ThrowsPlainly DEF ReaderReadFails, Errors
  <2> QED
    BY <1>a, <2>1 DEF Move
<1>3. CASE ReaderPushThrows
  <2>1. r2pState = "failed"
    BY <1>0, <1>3, <1>c DEF ReaderPushThrows, R2P!PushEnds, Closing
  <2>2. Thrown("reader")
    BY <1>a, <1>b, <1>d, <1>3, <2>1, ThrowsPlainly DEF ReaderPushThrows
  <2> QED
    BY <1>a, <2>2 DEF Move
<1>4. CASE ProcessorPopEnds
  <2>1. CASE r2pState = "failed"
    <3>1. Thrown("processor")
      BY <1>a, <1>b, <1>d, <1>4, <2>1, ThrowsPlainly DEF ProcessorPopEnds
    <3> QED
      BY <1>a, <3>1 DEF Move
  <2>2. CASE r2pState # "failed"
    <3>1. ProcessorDrains
      BY <1>4, <2>2 DEF ProcessorPopEnds, R2P!PopEnds, ProcessorDrains, failures, pool
    <3> QED
      BY <3>1 DEF Move
  <2> QED
    BY <2>1, <2>2
<1>5. CASE ProcessorStageFails
  <2>1. Thrown("processor")
    BY <1>a, <1>b, <1>5, ThrowsPlainly DEF ProcessorStageFails, Errors
  <2> QED
    BY <1>a, <2>1 DEF Move
<1>6. CASE ProcessorPushThrows
  <2>1. p2wState = "failed"
    BY <1>0, <1>6, <1>c DEF ProcessorPushThrows, P2W!PushEnds, Closing
  <2>2. Thrown("processor")
    BY <1>a, <1>b, <1>e, <1>6, <2>1, ThrowsPlainly DEF ProcessorPushThrows
  <2> QED
    BY <1>a, <2>2 DEF Move
<1>7. CASE WriterPopEnds
  <2>1. CASE p2wState = "failed"
    <3>1. Thrown("writer")
      BY <1>a, <1>b, <1>e, <1>7, <2>1, ThrowsPlainly DEF WriterPopEnds
    <3> QED
      BY <1>a, <3>1 DEF Move
  <2>2. CASE p2wState # "failed"
    <3>1. WriterDrains
      BY <1>7, <2>2 DEF WriterPopEnds, P2W!PopEnds, WriterDrains, failures, pool
    <3> QED
      BY <3>1 DEF Move
  <2> QED
    BY <2>1, <2>2
<1>8. CASE WriterWriteFails
  <2>1. Thrown("writer")
    BY <1>a, <1>b, <1>8, ThrowsPlainly DEF WriterWriteFails, Errors
  <2> QED
    BY <1>a, <2>1 DEF Move
<1>9. CASE WriterCount
  <2>1. /\ bytes_written + item["writer"].bytes <= MaxU64 /\ blocks_written < MaxU64
        /\ item["writer"].bytes \in Nat /\ blocks_written \in Nat /\ bytes_written \in Nat
    BY <1>0, <1>9, <1>a, CountsFit, ItemTyped DEF WriterCount, TypeOK
  <2>2. ~(bytes_written > MaxU64 - item["writer"].bytes) /\ ~(blocks_written > MaxU64 - 1)
    BY <2>1, SizeAssumption
  <2>3. WriterCounts
    BY <1>9, <2>2 DEF WriterCount, WriterCounts, failures, data
  <2> QED
    BY <2>3 DEF Move
<1> QED
  BY <1>1, <1>2, <1>3, <1>4, <1>5, <1>6, <1>7, <1>8, <1>9
  DEF Next, ReaderStep, ProcessorStep, WriterStep, Move, Finished

-----------------------------------------------------------------------------
(* Control: where the threads stand, the failures and the closed queues. *)

LEMMA StandingStep == ASSUME IInv, Move PROVE Standing'
<1>0. TypeOK /\ Standing /\ Failures /\ Ownership
  BY DEF IInv
<1>a. pc \in [Threads -> Locations] /\ exc \in [Threads -> Errors \cup {None}]
  BY <1>0 DEF TypeOK
<1>b. /\ "reader" \in Threads /\ "processor" \in Threads /\ "writer" \in Threads
      /\ "main" \in Threads /\ Workers \subseteq Threads /\ "main" \notin Workers
  BY DEF Threads, Workers
<1> USE DEF Goto, Working, Carrying, Failing, Ended, Starting, Joining
<1>1. ASSUME NEW w \in Workers, NEW l, l \in Working[w] \cup Failing \cup {"done"},
             pc[w] \in Working[w] \cup Failing,
             pc' = [pc EXCEPT ![w] = l], exc'["main"] = exc["main"]
      PROVE  Standing'
  <2>1. pc'[w] = l /\ \A t \in Threads : t # w => pc'[t] = pc[t]
    BY <1>a, <1>b, <1>1
  <2>2. \A v \in Workers : pc'[v] \in Working[v] \cup Failing \cup Ended
    BY <1>0, <1>b, <1>1, <2>1 DEF Standing
  <2>3. pc'["main"] = pc["main"] /\ pc[w] \notin Ended /\ l # "unstarted"
    BY <1>b, <1>1, <2>1 DEF Workers
  <2>4. \A v \in Workers : pc[v] = "unstarted" <=> pc'[v] = "unstarted"
    BY <1>b, <2>1, <2>3
  <2>5. \A v \in Workers : pc[v] \in Ended => pc'[v] \in Ended
    BY <1>b, <2>1, <2>3
  <2>6. "reader" \in Workers /\ "processor" \in Workers /\ "writer" \in Workers
    BY DEF Workers
  <2> HIDE DEF Working, Carrying
  <2> QED
    BY <1>0, <1>1, <2>2, <2>3, <2>4, <2>5, <2>6 DEF Standing
<1>2. ASSUME UNCHANGED pc, exc'["main"] = exc["main"] PROVE Standing'
  BY <1>0, <1>2 DEF Standing
<1>3. ASSUME NEW w \in Workers, Thrown(w) PROVE Standing'
  <2>1. exc'["main"] = exc["main"] /\ pc' = [pc EXCEPT ![w] = "throw"]
    BY <1>a, <1>b, <1>3 DEF Thrown, Throw
  <2> QED
    BY <1>1, <1>3, <2>1 DEF Thrown
<1>4. CASE ReaderAcquire \/ ReaderEof \/ ReaderReturn \/ ReaderPush
           \/ \E n \in 1 .. BlockSize : ReaderReads(n)
  <2>1. /\ \E l \in Working["reader"] \cup {"done"} : pc' = [pc EXCEPT !["reader"] = l]
        /\ pc["reader"] \in Working["reader"] /\ UNCHANGED exc
    BY <1>4 DEF ReaderAcquire, ReaderEof, ReaderReturn, ReaderPush, ReaderReads, failures
  <2> QED
    BY <1>1, <2>1 DEF Workers
<1>5. CASE ProcessorPop \/ ProcessorDrains \/ ProcessorClose \/ ProcessorStage \/ ProcessorPush
  <2>1. /\ \/ UNCHANGED pc
           \/ \E l \in Working["processor"] \cup {"done"} : pc' = [pc EXCEPT !["processor"] = l]
        /\ pc["processor"] \in Working["processor"] /\ UNCHANGED exc
    BY <1>5
    DEF ProcessorPop, ProcessorDrains, ProcessorClose, ProcessorStage, ProcessorPush, failures
  <2> QED
    BY <1>1, <1>2, <2>1 DEF Workers
<1>6. CASE WriterPop \/ WriterDrains \/ WriterCounts \/ \E n \in 1 .. BlockSize : WriterWrite(n)
  <2>1. /\ \/ UNCHANGED pc
           \/ \E l \in Working["writer"] \cup {"done"} : pc' = [pc EXCEPT !["writer"] = l]
        /\ pc["writer"] \in Working["writer"] /\ UNCHANGED exc
    BY <1>6 DEF WriterPop, WriterDrains, WriterCounts, WriterWrite, failures
  <2> QED
    BY <1>1, <1>2, <2>1 DEF Workers
<1>7. ASSUME NEW t \in Threads, FailAllStep(t) PROVE Standing'
  <2>1. /\ pc[t] \in Failing
        /\ pc' = [pc EXCEPT ![t] = "fail_r2p"] \/ pc' = [pc EXCEPT ![t] = "fail_p2w"]
           \/ pc' = [pc EXCEPT ![t] = Afterwards(t)]
        /\ \A s \in Threads \ {t} : exc'[s] = exc[s]
        /\ exc[t] # None
    BY <1>0, <1>a, <1>7
    DEF FailAllStep, FailAllRecord, FailAllR2P, FailAllP2W, failures, Failures
  <2>2. CASE t = "main"
    <3>1. /\ pc'["main"] \in {"fail_r2p", "fail_p2w", "join_reader"}
          /\ \A s \in Workers : pc'[s] = pc[s]
      BY <1>a, <1>b, <2>1, <2>2 DEF Afterwards
    <3>2. exc'["main"] # None
      BY <1>0, <1>a, <1>7, <2>1, <2>2
      DEF FailAllStep, FailAllRecord, FailAllR2P, FailAllP2W, failures
    <3> HIDE DEF Working, Carrying
    <3> QED
      BY <1>0, <3>1, <3>2 DEF Standing, Workers
  <2>3. CASE t # "main"
    <3>1. t \in Workers /\ Afterwards(t) = "done" /\ exc'["main"] = exc["main"]
      BY <1>b, <2>1, <2>3 DEF Threads, Afterwards
    <3> QED
      BY <1>1, <2>1, <3>1
  <2> QED
    BY <2>2, <2>3
<1>8. ASSUME NEW w \in Workers, StartThread(w) PROVE Standing'
  <2>1. /\ pc'[w] = FirstStep(w) /\ pc'["main"] = AfterStart[w] /\ pc["main"] = StartAt[w]
        /\ \A v \in Workers : v # w => pc'[v] = pc[v]
        /\ exc'["main"] = exc["main"]
    BY <1>a, <1>b, <1>8 DEF StartThread, failures
  <2>2. FirstStep(w) \in Working[w] /\ FirstStep(w) \notin Ended
    BY DEF FirstStep, Workers
  <2>3. \A v \in Workers : pc'[v] \in Working[v] \cup Failing \cup Ended
    BY <1>0, <2>1, <2>2 DEF Standing
  <2> HIDE DEF Working, Carrying
  <2> QED
    BY <1>0, <2>1, <2>2, <2>3 DEF Standing, Workers, StartAt, AfterStart
<1>9. ASSUME NEW w \in Workers, StartThreadFails(w) PROVE Standing'
  <2>1. /\ pc'["main"] = "throw" /\ exc'["main"] # None
        /\ \A v \in Workers : pc'[v] = pc[v]
    BY <1>a, <1>b, <1>9 DEF StartThreadFails, None
  <2> HIDE DEF Working, Carrying
  <2> QED
    BY <1>0, <2>1 DEF Standing, Workers
<1>10. ASSUME NEW w \in Workers, Join(w) PROVE Standing'
  <2>1. /\ pc["main"] = JoinAt[w] /\ pc'["main"] = AfterJoin[w] /\ pc[w] \in Ended
        /\ \A v \in Workers : pc'[v] = pc[v]
        /\ exc'["main"] = exc["main"]
    BY <1>a, <1>b, <1>10 DEF Join, failures
  <2> HIDE DEF Working, Carrying
  <2> QED
    BY <1>0, <2>1 DEF Standing, Workers, JoinAt, AfterJoin
<1>11. CASE Finish
  <2>1. /\ pc["main"] = "finish" /\ pc'["main"] = "done"
        /\ \A v \in Workers : pc'[v] = pc[v]
        /\ exc'["main"] = exc["main"]
    BY <1>a, <1>b, <1>11 DEF Finish, failures
  <2> HIDE DEF Working, Carrying
  <2> QED
    BY <1>0, <2>1 DEF Standing, Workers
<1>12. CASE UNCHANGED vars
  BY <1>2, <1>12 DEF vars, failures
<1> QED
  BY <1>3, <1>4, <1>5, <1>6, <1>7, <1>8, <1>9, <1>10, <1>11, <1>12 DEF Move, MainStep

LEMMA FailuresStep == ASSUME IInv, Move PROVE Failures'
<1>0. TypeOK /\ Standing /\ Failures
  BY DEF IInv
<1>a. pc \in [Threads -> Locations] /\ exc \in [Threads -> Errors \cup {None}]
  BY <1>0 DEF TypeOK
<1>b. /\ "reader" \in Threads /\ "processor" \in Threads /\ "writer" \in Threads
      /\ "main" \in Threads /\ Workers \subseteq Threads /\ "main" \notin Workers
      /\ Threads = Workers \cup {"main"}
  BY DEF Threads, Workers
<1>c. \A w \in Workers : \A l \in Working[w] : l \notin Failing /\ l \notin Ended
  BY DEF Working, Carrying, Failing, Ended, Workers
<1>1. ASSUME UNCHANGED <<exc, first_failure, outcome>>,
             \A w \in Workers : exc[w] # None => pc'[w] = pc[w],
             \A t \in Threads : pc[t] \in Failing \/ pc'[t] \in Failing => pc'[t] = pc[t],
             pc'["main"] = "done" <=> pc["main"] = "done",
             r2pState' = "failed" <=> r2pState = "failed",
             r2pState = "failed" => r2pFailure' = r2pFailure /\ r2pBuffer' = r2pBuffer,
             p2wState' = "failed" <=> p2wState = "failed",
             p2wState = "failed" => p2wFailure' = p2wFailure /\ p2wBuffer' = p2wBuffer
      PROVE  Failures'
  <2>1. \A w \in Workers : exc'[w] # None => pc'[w] \in Failing \cup {"done"}
    BY <1>0, <1>1 DEF Failures
  <2>2. \A t \in Threads : /\ exc'[t] # "logic_error"
                           /\ pc'[t] \in Failing => exc'[t] # None
                           /\ pc'[t] \in Failing => pc'[t] = pc[t]
                           /\ pc'[t] \notin Failing => pc[t] \notin Failing
    BY <1>0, <1>1 DEF Failures
  <2>3. \A t \in Threads :
          /\ exc'[t] # None /\ pc'[t] # "throw" => exc'[t] = first_failure'
          /\ exc'[t] # None /\ pc'[t] \notin {"throw", "fail_r2p"} => r2pState' = "failed"
          /\ exc'[t] # None /\ pc'[t] \notin Failing => p2wState' = "failed"
    BY <1>0, <1>1, <2>2 DEF Failures, Failing
  <2>4. first_failure' # None => \E t \in Threads : exc'[t] # None /\ pc'[t] # "throw"
    BY <1>0, <1>1, <2>2 DEF Failures, Failing
  <2> QED
    BY <1>0, <1>1, <2>1, <2>2, <2>3, <2>4 DEF Failures
<1>2. ASSUME NEW w \in Workers, pc[w] \in Working[w],
             \/ UNCHANGED pc
             \/ \E l \in Working[w] \cup {"done"} : pc' = [pc EXCEPT ![w] = l],
             UNCHANGED <<exc, first_failure, outcome>>
      PROVE  /\ UNCHANGED <<exc, first_failure, outcome>>
             /\ \A v \in Workers : exc[v] # None => pc'[v] = pc[v]
             /\ \A t \in Threads : pc[t] \in Failing \/ pc'[t] \in Failing => pc'[t] = pc[t]
             /\ pc'["main"] = "done" <=> pc["main"] = "done"
  <2>1. \A t \in Threads : t # w => pc'[t] = pc[t]
    BY <1>a, <1>b, <1>2
  <2>2. exc[w] = None
    BY <1>0, <1>2, <1>c DEF Failures, Ended
  <2>3. pc'[w] \notin Failing /\ pc[w] \notin Failing
    BY <1>a, <1>b, <1>c, <1>2 DEF Failing
  <2> QED
    BY <1>b, <1>2, <2>1, <2>2, <2>3
<1>3. ASSUME NEW w \in Workers, Thrown(w) PROVE Failures'
  <2>1. PICK e \in Errors \ {"logic_error"} : Throw(w, e)
    BY <1>3 DEF Thrown
  <2>2. /\ exc'[w] = e /\ pc'[w] = "throw" /\ e # None /\ exc[w] = None
        /\ \A t \in Threads : t # w => exc'[t] = exc[t] /\ pc'[t] = pc[t]
    <3>1. exc[w] = None
      BY <1>0, <1>3, <1>c DEF Failures, Ended, Thrown
    <3>2. e # None
      BY <2>1 DEF Errors, None
    <3> QED
      BY <1>a, <1>b, <2>1, <3>1, <3>2 DEF Throw, Goto
  <2>3. UNCHANGED <<first_failure, r2pBuffer, r2pState, r2pFailure, p2wBuffer, p2wState,
                    p2wFailure, outcome>>
    BY <1>3 DEF Thrown, queues, r2pVars, p2wVars, run
  <2>4. \A v \in Workers : exc'[v] # None => pc'[v] \in Failing \cup {"done"}
    BY <1>0, <1>b, <2>2 DEF Failures, Failing
  <2>5. \A t \in Threads :
          /\ exc'[t] # "logic_error" /\ (pc'[t] \in Failing => exc'[t] # None)
          /\ exc'[t] # None /\ pc'[t] # "throw" => exc'[t] = first_failure'
          /\ exc'[t] # None /\ pc'[t] \notin {"throw", "fail_r2p"} => r2pState' = "failed"
          /\ exc'[t] # None /\ pc'[t] \notin Failing => p2wState' = "failed"
    BY <1>0, <2>2, <2>3 DEF Failures, Failing
  <2>6. first_failure' # None => \E t \in Threads : exc'[t] # None /\ pc'[t] # "throw"
    BY <1>0, <2>2, <2>3 DEF Failures
  <2>7. pc'["main"] = pc["main"]
    BY <1>b, <2>2
  <2> QED
    BY <1>0, <2>3, <2>4, <2>5, <2>6, <2>7 DEF Failures
<1>4. CASE ReaderAcquire \/ ReaderEof \/ ReaderReturn \/ ReaderPush
           \/ \E n \in 1 .. BlockSize : ReaderReads(n)
  <2>1. /\ \E l \in Working["reader"] \cup {"done"} : pc' = [pc EXCEPT !["reader"] = l]
        /\ pc["reader"] \in Working["reader"] /\ UNCHANGED <<exc, first_failure, outcome>>
    BY <1>4 DEF ReaderAcquire, ReaderEof, ReaderReturn, ReaderPush, ReaderReads, failures,
                Working, Carrying, Goto, run
  <2>2. /\ r2pState' = "failed" <=> r2pState = "failed"
        /\ r2pState = "failed" => r2pBuffer' = r2pBuffer
        /\ UNCHANGED <<r2pFailure, p2wBuffer, p2wState, p2wFailure>>
    BY <1>4 DEF ReaderAcquire, ReaderEof, ReaderReturn, ReaderPush, ReaderReads, queues,
                r2pVars, p2wVars, R2P!Push, R2P!Close
  <2> QED
    BY <1>1, <1>2, <2>1, <2>2 DEF Workers
<1>5. CASE ProcessorPop \/ ProcessorDrains \/ ProcessorClose \/ ProcessorStage \/ ProcessorPush
  <2>1. /\ \/ UNCHANGED pc
           \/ \E l \in Working["processor"] \cup {"done"} : pc' = [pc EXCEPT !["processor"] = l]
        /\ pc["processor"] \in Working["processor"] /\ UNCHANGED <<exc, first_failure, outcome>>
    BY <1>5 DEF ProcessorPop, ProcessorDrains, ProcessorClose, ProcessorStage, ProcessorPush,
                failures, Working, Carrying, Goto, run
  <2>2. /\ UNCHANGED <<r2pState, r2pFailure, p2wFailure>>
        /\ r2pState = "failed" => r2pBuffer' = r2pBuffer
        /\ p2wState' = "failed" <=> p2wState = "failed"
        /\ p2wState = "failed" => p2wBuffer' = p2wBuffer
    BY <1>5 DEF ProcessorPop, ProcessorDrains, ProcessorClose, ProcessorStage, ProcessorPush,
                queues, r2pVars, p2wVars, R2P!Pop, P2W!Push, P2W!Close
  <2> QED
    BY <1>1, <1>2, <2>1, <2>2 DEF Workers
<1>6. CASE WriterPop \/ WriterDrains \/ WriterCounts \/ \E n \in 1 .. BlockSize : WriterWrite(n)
  <2>1. /\ \/ UNCHANGED pc
           \/ \E l \in Working["writer"] \cup {"done"} : pc' = [pc EXCEPT !["writer"] = l]
        /\ pc["writer"] \in Working["writer"] /\ UNCHANGED <<exc, first_failure, outcome>>
    BY <1>6 DEF WriterPop, WriterDrains, WriterCounts, WriterWrite, failures, Working,
                Carrying, Goto, run
  <2>2. /\ UNCHANGED <<r2pBuffer, r2pState, r2pFailure, p2wState, p2wFailure>>
        /\ p2wState = "failed" => p2wBuffer' = p2wBuffer
    BY <1>6 DEF WriterPop, WriterDrains, WriterCounts, WriterWrite, queues, r2pVars, p2wVars,
                P2W!Pop
  <2> QED
    BY <1>1, <1>2, <2>1, <2>2 DEF Workers
<1>7. ASSUME NEW t \in Threads, FailAllRecord(t) PROVE Failures'
  <2> DEFINE f == IF first_failure = None THEN exc[t] ELSE first_failure
  <2>1. /\ pc[t] = "throw" /\ first_failure' = f /\ pc'[t] = "fail_r2p" /\ exc'[t] = f
        /\ \A s \in Threads : s # t => exc'[s] = exc[s] /\ pc'[s] = pc[s]
        /\ UNCHANGED <<r2pBuffer, r2pState, r2pFailure, p2wBuffer, p2wState, p2wFailure, outcome>>
    BY <1>a, <1>7 DEF FailAllRecord, Goto, queues, r2pVars, p2wVars, run
  <2>2. f # None /\ f # "logic_error" /\ (first_failure # None => f = first_failure)
    BY <1>0, <2>1 DEF Failures, Failing
  <2> HIDE DEF f
  <2>3. \A v \in Workers : exc'[v] # None => pc'[v] \in Failing \cup {"done"}
    BY <1>0, <1>b, <2>1 DEF Failures, Failing
  <2>4. \A s \in Threads :
          /\ exc'[s] # "logic_error" /\ (pc'[s] \in Failing => exc'[s] # None)
          /\ exc'[s] # None /\ pc'[s] \notin {"throw", "fail_r2p"} => r2pState' = "failed"
          /\ exc'[s] # None /\ pc'[s] \notin Failing => p2wState' = "failed"
    BY <1>0, <2>1, <2>2 DEF Failures, Failing
  <2>5. ASSUME NEW s \in Threads, exc'[s] # None, pc'[s] # "throw" PROVE exc'[s] = first_failure'
    <3>1. CASE s = t
      BY <2>1, <3>1
    <3>2. CASE s # t
      <4>1. exc[s] = first_failure /\ exc[s] # None
        BY <1>0, <2>1, <2>5, <3>2 DEF Failures
      <4> QED
        BY <2>1, <2>2, <3>2, <4>1
    <3> QED
      BY <3>1, <3>2
  <2>6. \E s \in Threads : exc'[s] # None /\ pc'[s] # "throw"
    BY <2>1, <2>2
  <2>7. (r2pState = "failed" => first_failure # None) /\ (p2wState = "failed" => first_failure # None)
    BY <1>0 DEF Failures
  <2>8. \/ pc'["main"] # "done" /\ pc["main"] # "done"
        \/ first_failure' = first_failure /\ pc'["main"] = pc["main"]
    <3>1. CASE pc["main"] # "done"
      BY <1>b, <2>1, <3>1
    <3>2. CASE pc["main"] = "done"
      <4>1. t # "main"
        BY <2>1, <3>2
      <4>2. t \in Workers /\ pc[t] \in Ended
        BY <1>0, <1>b, <3>2, <4>1 DEF Standing, Workers, Joining
      <4> QED
        BY <2>1, <4>2 DEF Ended
    <3> QED
      BY <3>1, <3>2
  <2> QED
    BY <1>0, <2>1, <2>2, <2>3, <2>4, <2>5, <2>6, <2>7, <2>8 DEF Failures
<1>8. ASSUME NEW t \in Threads, FailAllR2P(t) PROVE Failures'
  <2>1. /\ pc[t] = "fail_r2p" /\ pc'[t] = "fail_p2w" /\ \A s \in Threads : s # t => pc'[s] = pc[s]
        /\ r2pState' = "failed" /\ r2pBuffer' = <<>>
        /\ r2pFailure' = IF r2pState = "failed" THEN r2pFailure ELSE exc[t]
        /\ UNCHANGED <<exc, first_failure, p2wBuffer, p2wState, p2wFailure, outcome>>
    BY <1>a, <1>8 DEF FailAllR2P, Goto, failures, p2wVars, run, R2P!Fail
  <2>2. exc[t] # None /\ exc[t] = first_failure
    BY <1>0, <2>1 DEF Failures, Failing
  <2>3. r2pFailure' = first_failure
    BY <1>0, <2>1, <2>2 DEF Failures
  <2>4. \A v \in Workers : exc'[v] # None => pc'[v] \in Failing \cup {"done"}
    BY <1>0, <1>b, <2>1 DEF Failures, Failing
  <2>5. \A s \in Threads :
          /\ exc'[s] # "logic_error" /\ (pc'[s] \in Failing => exc'[s] # None)
          /\ exc'[s] # None /\ pc'[s] # "throw" => exc'[s] = first_failure'
          /\ exc'[s] # None /\ pc'[s] \notin Failing => p2wState' = "failed"
    BY <1>0, <2>1, <2>2 DEF Failures, Failing
  <2>6. \E s \in Threads : exc'[s] # None /\ pc'[s] # "throw"
    BY <2>1, <2>2
  <2>7. pc'["main"] = "done" <=> pc["main"] = "done"
    BY <1>b, <2>1
  <2> QED
    BY <1>0, <2>1, <2>2, <2>3, <2>4, <2>5, <2>6, <2>7 DEF Failures
<1>9. ASSUME NEW t \in Threads, FailAllP2W(t) PROVE Failures'
  <2>1. /\ pc[t] = "fail_p2w" /\ pc'[t] = Afterwards(t)
        /\ \A s \in Threads : s # t => pc'[s] = pc[s]
        /\ p2wState' = "failed" /\ p2wBuffer' = <<>>
        /\ p2wFailure' = IF p2wState = "failed" THEN p2wFailure ELSE exc[t]
        /\ UNCHANGED <<exc, first_failure, r2pBuffer, r2pState, r2pFailure, outcome>>
    BY <1>a, <1>9 DEF FailAllP2W, Goto, failures, r2pVars, run, P2W!Fail
  <2>2. exc[t] # None /\ exc[t] = first_failure /\ r2pState = "failed"
    BY <1>0, <2>1 DEF Failures, Failing
  <2>3. p2wFailure' = first_failure
    BY <1>0, <2>1, <2>2 DEF Failures
  <2>4. /\ Afterwards(t) \notin Failing /\ (t \in Workers => Afterwards(t) = "done")
        /\ t = "main" => Afterwards(t) = "join_reader"
    BY <1>b DEF Afterwards, Failing
  <2>5. \A v \in Workers : exc'[v] # None => pc'[v] \in Failing \cup {"done"}
    BY <1>0, <1>b, <2>1, <2>4 DEF Failures
  <2>6. \A s \in Threads :
          /\ exc'[s] # "logic_error" /\ (pc'[s] \in Failing => exc'[s] # None)
          /\ exc'[s] # None /\ pc'[s] # "throw" => exc'[s] = first_failure'
    BY <1>0, <2>1, <2>2, <2>4 DEF Failures
  <2>7. \E s \in Threads : exc'[s] # None /\ pc'[s] # "throw"
    BY <2>1, <2>2, <2>4 DEF Failing
  <2>8. pc'["main"] = "done" <=> pc["main"] = "done"
    BY <1>b, <2>1, <2>4
  <2> QED
    BY <1>0, <2>1, <2>2, <2>3, <2>5, <2>6, <2>7, <2>8 DEF Failures
<1>10. ASSUME NEW w \in Workers, StartThread(w) PROVE Failures'
  <2>1. /\ pc'[w] = FirstStep(w) /\ pc'["main"] = AfterStart[w] /\ pc["main"] = StartAt[w]
        /\ \A v \in Workers : v # w => pc'[v] = pc[v]
        /\ UNCHANGED <<exc, first_failure, outcome, r2pBuffer, r2pState, r2pFailure,
                       p2wBuffer, p2wState, p2wFailure>>
    BY <1>a, <1>b, <1>10 DEF StartThread, failures, run, queues, r2pVars, p2wVars
  <2>2. pc[w] = "unstarted"
    BY <1>0, <2>1 DEF Standing, StartAt, Workers, Starting
  <2>3. exc[w] = None
    BY <1>0, <2>2 DEF Failures, Failing
  <2>4. FirstStep(w) \notin Failing /\ AfterStart[w] \notin Failing /\ StartAt[w] \notin Failing
        /\ AfterStart[w] # "done" /\ StartAt[w] # "done"
    BY DEF FirstStep, AfterStart, StartAt, Workers, Failing
  <2> QED
    BY <1>1, <1>b, <2>1, <2>2, <2>3, <2>4 DEF Failing
<1>11. ASSUME NEW w \in Workers, StartThreadFails(w) PROVE Failures'
  <2>1. /\ pc["main"] \in Starting /\ pc'["main"] = "throw" /\ exc'["main"] = "thread_error"
        /\ \A t \in Workers : exc'[t] = exc[t] /\ pc'[t] = pc[t]
        /\ UNCHANGED <<first_failure, outcome, r2pBuffer, r2pState, r2pFailure,
                       p2wBuffer, p2wState, p2wFailure>>
    BY <1>a, <1>b, <1>11
    DEF StartThreadFails, Goto, run, queues, r2pVars, p2wVars, StartAt, Starting, Workers
  <2>2. exc["main"] = None
    BY <1>0, <2>1 DEF Standing
  <2>3. \A v \in Workers : exc'[v] # None => pc'[v] \in Failing \cup {"done"}
    BY <1>0, <2>1 DEF Failures
  <2>4. \A t \in Threads :
          /\ exc'[t] # "logic_error" /\ (pc'[t] \in Failing => exc'[t] # None)
          /\ exc'[t] # None /\ pc'[t] # "throw" => exc'[t] = first_failure'
          /\ exc'[t] # None /\ pc'[t] \notin {"throw", "fail_r2p"} => r2pState' = "failed"
          /\ exc'[t] # None /\ pc'[t] \notin Failing => p2wState' = "failed"
    BY <1>0, <1>b, <2>1 DEF Failures, Failing, None
  <2>5. first_failure' # None => \E t \in Threads : exc'[t] # None /\ pc'[t] # "throw"
    BY <1>0, <1>b, <2>1, <2>2 DEF Failures
  <2> QED
    BY <1>0, <2>1, <2>3, <2>4, <2>5 DEF Failures, Starting
<1>12. ASSUME NEW w \in Workers, Join(w) PROVE Failures'
  <2>1. /\ pc["main"] = JoinAt[w] /\ pc'["main"] = AfterJoin[w]
        /\ \A v \in Workers : pc'[v] = pc[v]
        /\ UNCHANGED <<exc, first_failure, outcome, r2pBuffer, r2pState, r2pFailure,
                       p2wBuffer, p2wState, p2wFailure>>
    BY <1>a, <1>b, <1>12 DEF Join, Goto, failures, run, queues, r2pVars, p2wVars
  <2>2. AfterJoin[w] \notin Failing /\ JoinAt[w] \notin Failing
        /\ AfterJoin[w] # "done" /\ JoinAt[w] # "done"
    BY DEF AfterJoin, JoinAt, Workers, Failing
  <2> QED
    BY <1>1, <1>b, <2>1, <2>2
<1>13. CASE Finish
  <2>1. /\ pc["main"] = "finish" /\ pc'["main"] = "done"
        /\ outcome' = IF first_failure = None THEN "returned" ELSE first_failure
        /\ \A v \in Workers : pc'[v] = pc[v]
        /\ UNCHANGED <<exc, first_failure, r2pBuffer, r2pState, r2pFailure,
                       p2wBuffer, p2wState, p2wFailure>>
    BY <1>a, <1>b, <1>13 DEF Finish, Goto, failures, queues, r2pVars, p2wVars
  <2>2. \A v \in Workers : exc'[v] # None => pc'[v] \in Failing \cup {"done"}
    BY <1>0, <2>1 DEF Failures
  <2>3. \A t \in Threads :
          /\ exc'[t] # "logic_error" /\ (pc'[t] \in Failing => exc'[t] # None)
          /\ exc'[t] # None /\ pc'[t] # "throw" => exc'[t] = first_failure'
          /\ exc'[t] # None /\ pc'[t] \notin {"throw", "fail_r2p"} => r2pState' = "failed"
          /\ exc'[t] # None /\ pc'[t] \notin Failing => p2wState' = "failed"
    BY <1>0, <1>b, <2>1 DEF Failures, Failing
  <2>4. first_failure' # None => \E t \in Threads : exc'[t] # None /\ pc'[t] # "throw"
    BY <1>0, <1>b, <2>1 DEF Failures
  <2> QED
    BY <1>0, <2>1, <2>2, <2>3, <2>4 DEF Failures
<1>14. CASE UNCHANGED vars
  BY <1>1, <1>14 DEF vars, failures, queues, r2pVars, p2wVars, run
<1> QED
  BY <1>3, <1>4, <1>5, <1>6, <1>7, <1>8, <1>9, <1>10, <1>11, <1>12, <1>13, <1>14
  DEF Move, MainStep, FailAllStep

LEMMA ClosingStep == ASSUME IInv, Move PROVE Closing'
<1>0. TypeOK /\ Standing /\ Failures /\ Closing
  BY DEF IInv
<1>a. pc \in [Threads -> Locations] /\ exc \in [Threads -> Errors \cup {None}]
  BY <1>0 DEF TypeOK
<1>b. /\ "reader" \in Threads /\ "processor" \in Threads /\ "writer" \in Threads
      /\ "main" \in Threads /\ Workers \subseteq Threads /\ "main" \notin Workers
      /\ Workers = {"reader", "processor", "writer"}
  BY DEF Threads, Workers
<1>c. /\ r2pState \in {"open", "closed", "failed"} /\ p2wState \in {"open", "closed", "failed"}
      /\ r2pState = "failed" => r2pBuffer = <<>>
      /\ p2wState = "failed" => p2wBuffer = <<>>
  BY <1>0 DEF TypeOK, Failures
<1>d. \A w \in Workers : pc[w] \notin Failing \cup {"done"} => exc[w] = None
  BY <1>0 DEF Failures
<1> DEFINE Same == UNCHANGED <<r2pState, p2wState, file_offset, input_length, r2pBuffer, p2wBuffer>>
<1>1. ASSUME Same, \A w \in Workers : exc'[w] = exc[w],
             \A w \in Workers : pc'[w] = pc[w] \/ {pc[w], pc'[w]} \cap {"return", "close", "done"} = {}
      PROVE  Closing'
  BY <1>0, <1>b, <1>1 DEF Closing
<1>2. ASSUME NEW w \in Workers, Thrown(w) PROVE Closing'
  <2>1. /\ pc[w] \in Working[w] \ {"return", "close"} /\ pc'[w] = "throw" /\ exc'[w] # None
        /\ \A v \in Workers : v # w => exc'[v] = exc[v] /\ pc'[v] = pc[v]
        /\ Same
    BY <1>a, <1>b, <1>2
    DEF Thrown, Throw, Goto, queues, r2pVars, p2wVars, locals, run, Errors, None
  <2>2. pc[w] \notin {"return", "done", "close"}
    BY <1>b, <2>1 DEF Working, Carrying
  <2> QED
    BY <1>0, <1>b, <2>1, <2>2 DEF Closing
<1>3. CASE ReaderAcquire \/ \E n \in 1 .. BlockSize : ReaderReads(n)
  BY <1>1, <1>3, <1>a, <1>b
  DEF ReaderAcquire, ReaderReads, Goto, failures, queues, r2pVars, p2wVars, locals, run
<1>4. CASE ReaderEof
  <2>1. /\ pc["reader"] = "read" /\ pc'["reader"] = "return" /\ file_offset = input_length
        /\ \A w \in Workers : w # "reader" => pc'[w] = pc[w]
        /\ r2pState' = IF r2pState = "open" THEN "closed" ELSE r2pState
        /\ UNCHANGED <<exc, p2wState, file_offset, input_length, r2pBuffer, p2wBuffer>>
    BY <1>4, <1>a, <1>b DEF ReaderEof, Goto, failures, p2wVars, locals, run, R2P!Close
  <2>2. r2pState' \in {"closed", "failed"} /\ (r2pState # "open" => r2pState' = r2pState)
    BY <1>c, <2>1
  <2> QED
    BY <1>0, <1>b, <2>1, <2>2 DEF Closing
<1>5. CASE ReaderReturn
  <2>1. /\ pc["reader"] = "return" /\ pc'["reader"] = "done"
        /\ \A w \in Workers : w # "reader" => pc'[w] = pc[w]
        /\ Same /\ UNCHANGED exc
    BY <1>5, <1>a, <1>b
    DEF ReaderReturn, Goto, failures, queues, r2pVars, p2wVars, locals, run
  <2> QED
    BY <1>0, <1>b, <2>1 DEF Closing
<1>6. CASE ReaderPush
  <2>1. /\ pc["reader"] = "push" /\ pc'["reader"] = "acquire" /\ r2pState = "open"
        /\ \A w \in Workers : w # "reader" => pc'[w] = pc[w]
        /\ UNCHANGED <<exc, r2pState, p2wState, input_length, p2wBuffer>>
    BY <1>6, <1>a, <1>b DEF ReaderPush, Goto, failures, p2wVars, run, R2P!Push
  <2> QED
    BY <1>0, <1>b, <2>1 DEF Closing
<1>7. CASE ProcessorPop
  <2>1. /\ pc["processor"] = "pop" /\ pc'["processor"] = "process" /\ r2pState # "failed"
        /\ \A w \in Workers : w # "processor" => pc'[w] = pc[w]
        /\ UNCHANGED <<exc, r2pState, p2wState, file_offset, input_length, p2wBuffer>>
    BY <1>7, <1>a, <1>b DEF ProcessorPop, Goto, failures, p2wVars, run, R2P!Pop
  <2> QED
    BY <1>0, <1>b, <2>1 DEF Closing
<1>8. CASE ProcessorDrains
  <2>1. /\ pc["processor"] = "pop" /\ pc'["processor"] = "close"
        /\ r2pState = "closed" /\ r2pBuffer = <<>>
        /\ \A w \in Workers : w # "processor" => pc'[w] = pc[w]
        /\ Same /\ UNCHANGED exc
    BY <1>8, <1>a, <1>b
    DEF ProcessorDrains, Goto, failures, queues, r2pVars, p2wVars, locals, run
  <2> QED
    BY <1>0, <1>b, <2>1 DEF Closing
<1>9. CASE ProcessorClose
  <2>1. /\ pc["processor"] = "close" /\ pc'["processor"] = "done"
        /\ \A w \in Workers : w # "processor" => pc'[w] = pc[w]
        /\ p2wState' = IF p2wState = "open" THEN "closed" ELSE p2wState
        /\ UNCHANGED <<exc, r2pState, file_offset, input_length, r2pBuffer, p2wBuffer>>
    BY <1>9, <1>a, <1>b DEF ProcessorClose, Goto, failures, r2pVars, locals, run, P2W!Close
  <2>2. p2wState' \in {"closed", "failed"} /\ (p2wState # "open" => p2wState' = p2wState)
    BY <1>c, <2>1
  <2> QED
    BY <1>0, <1>b, <2>1, <2>2 DEF Closing
<1>10. CASE ProcessorStage
  BY <1>1, <1>10, <1>a, <1>b
  DEF ProcessorStage, Goto, failures, queues, r2pVars, p2wVars, run
<1>11. CASE ProcessorPush
  <2>1. /\ pc["processor"] = "push" /\ pc'["processor"] = "pop" /\ p2wState = "open"
        /\ \A w \in Workers : w # "processor" => pc'[w] = pc[w]
        /\ UNCHANGED <<exc, r2pState, p2wState, file_offset, input_length, r2pBuffer>>
    BY <1>11, <1>a, <1>b DEF ProcessorPush, Goto, failures, r2pVars, locals, run, P2W!Push
  <2> QED
    BY <1>0, <1>b, <2>1 DEF Closing
<1>12. CASE WriterPop
  <2>1. /\ pc["writer"] = "pop" /\ pc'["writer"] = "write"
        /\ \A w \in Workers : w # "writer" => pc'[w] = pc[w]
        /\ UNCHANGED <<exc, r2pState, p2wState, file_offset, input_length, r2pBuffer>>
    BY <1>12, <1>a, <1>b DEF WriterPop, Goto, failures, r2pVars, run, P2W!Pop
  <2> QED
    BY <1>0, <1>b, <2>1 DEF Closing
<1>13. CASE WriterDrains
  <2>1. /\ pc["writer"] = "pop" /\ pc'["writer"] = "done"
        /\ p2wState = "closed" /\ p2wBuffer = <<>>
        /\ \A w \in Workers : w # "writer" => pc'[w] = pc[w]
        /\ Same /\ UNCHANGED exc
    BY <1>13, <1>a, <1>b
    DEF WriterDrains, Goto, failures, queues, r2pVars, p2wVars, locals, run
  <2> QED
    BY <1>0, <1>b, <2>1 DEF Closing
<1>14. CASE WriterCounts \/ \E n \in 1 .. BlockSize : WriterWrite(n)
  BY <1>1, <1>14, <1>a, <1>b
  DEF WriterCounts, WriterWrite, Goto, failures, queues, r2pVars, p2wVars, locals, run
<1>15. ASSUME NEW t \in Threads, FailAllRecord(t) PROVE Closing'
  <2>1. /\ pc[t] = "throw" /\ pc'[t] = "fail_r2p" /\ exc'[t] # None
        /\ \A s \in Threads : s # t => exc'[s] = exc[s] /\ pc'[s] = pc[s]
        /\ Same
    BY <1>0, <1>15, <1>a, <1>b
    DEF FailAllRecord, Goto, queues, r2pVars, p2wVars, locals, run, Failures, Failing
  <2> QED
    BY <1>0, <1>b, <2>1 DEF Closing
<1>16. ASSUME NEW t \in Threads, FailAllR2P(t) PROVE Closing'
  <2>1. /\ pc[t] = "fail_r2p" /\ pc'[t] = "fail_p2w" /\ r2pState' = "failed"
        /\ \A s \in Threads : s # t => pc'[s] = pc[s]
        /\ UNCHANGED <<exc, p2wState, file_offset, input_length, p2wBuffer>>
    BY <1>16, <1>a DEF FailAllR2P, Goto, failures, p2wVars, locals, run, R2P!Fail
  <2> QED
    BY <1>0, <1>b, <2>1 DEF Closing
<1>17. ASSUME NEW t \in Threads, FailAllP2W(t) PROVE Closing'
  <2>1. /\ pc[t] = "fail_p2w" /\ p2wState' = "failed" /\ exc[t] # None /\ p2wBuffer' = <<>>
        /\ \A s \in Threads : s # t => pc'[s] = pc[s]
        /\ UNCHANGED <<exc, r2pState, file_offset, input_length, r2pBuffer>>
    BY <1>0, <1>17, <1>a
    DEF FailAllP2W, Goto, failures, r2pVars, locals, run, P2W!Fail, Failures, Failing
  <2>2. r2pState = "failed"
    BY <1>0, <2>1 DEF Failures
  <2> QED
    BY <1>0, <1>b, <2>1, <2>2 DEF Closing
<1>18. ASSUME NEW w \in Workers, StartThread(w) PROVE Closing'
  <2>1. /\ pc'[w] = FirstStep(w) /\ pc["main"] = StartAt[w]
        /\ \A v \in Workers : v # w => pc'[v] = pc[v]
        /\ Same /\ UNCHANGED exc
    BY <1>a, <1>b, <1>18
    DEF StartThread, failures, run, queues, r2pVars, p2wVars, locals
  <2>2. pc[w] = "unstarted"
    BY <1>0, <2>1 DEF Standing, StartAt, Workers, Starting
  <2>3. FirstStep(w) \in {"acquire", "pop"}
    BY DEF FirstStep
  <2> QED
    BY <1>1, <2>1, <2>2, <2>3
<1>19. CASE Finish \/ UNCHANGED vars
            \/ \E w \in Workers : StartThreadFails(w) \/ Join(w)
  <2>1. /\ \A v \in Workers : pc'[v] = pc[v] /\ exc'[v] = exc[v]
        /\ Same
    BY <1>a, <1>b, <1>19
    DEF Finish, StartThreadFails, Join, vars, failures, run, queues, r2pVars, p2wVars, locals, Goto
  <2> QED
    BY <1>1, <2>1
<1> QED
  BY <1>2, <1>3, <1>4, <1>5, <1>6, <1>7, <1>8, <1>9, <1>10, <1>11, <1>12, <1>13, <1>14,
     <1>15, <1>16, <1>17, <1>18, <1>19
  DEF Move, MainStep, FailAllStep

-----------------------------------------------------------------------------
(* Ownership of the buffers. *)

(* What appending an item to a queue does. *)
LEMMA QueueAppend ==
  ASSUME NEW q \in Seq(WorkItems), NEW x \in WorkItems, NEW r, r = Append(q, x)
  PROVE  /\ r \in Seq(WorkItems) /\ r # <<>> /\ Len(r) = Len(q) + 1
         /\ DOMAIN r = 1 .. Len(q) + 1 /\ DOMAIN q = 1 .. Len(q) /\ Len(q) \in Nat
         /\ r[Len(q) + 1] = x /\ \A i \in 1 .. Len(q) : r[i] = q[i]
         /\ QueueBuffers(r) = QueueBuffers(q) \cup {x.buf}
         /\ Distinct(q) /\ x.buf \notin QueueBuffers(q) => Distinct(r)
<1> DEFINE n == Len(q)
<1>1. /\ n \in Nat /\ DOMAIN q = 1 .. n /\ r \in Seq(WorkItems) /\ Len(r) = n + 1
      /\ DOMAIN r = 1 .. n + 1 /\ r[n + 1] = x /\ \A i \in 1 .. n : r[i] = q[i]
      /\ r # <<>>
  OBVIOUS
<1> HIDE DEF n
<1>2. 1 .. n + 1 = (1 .. n) \cup {n + 1} /\ n + 1 \notin 1 .. n
  BY <1>1
<1>3. QueueBuffers(r) = QueueBuffers(q) \cup {x.buf}
  BY <1>1, <1>2 DEF QueueBuffers
<1>4. ASSUME Distinct(q), x.buf \notin QueueBuffers(q) PROVE Distinct(r)
  BY <1>1, <1>2, <1>4 DEF Distinct, QueueBuffers
<1> QED
  BY <1>1, <1>3, <1>4 DEF n

(* What taking the oldest item from a queue does. *)
LEMMA QueueTail ==
  ASSUME NEW q \in Seq(WorkItems), q # <<>>, NEW r, r = Tail(q)
  PROVE  /\ Head(q) \in WorkItems /\ Head(q) = q[1] /\ r \in Seq(WorkItems)
         /\ Len(r) \in Nat /\ Len(q) = Len(r) + 1
         /\ DOMAIN r = 1 .. Len(r) /\ DOMAIN q = 1 .. Len(r) + 1
         /\ \A i \in 1 .. Len(r) : r[i] = q[i + 1]
         /\ QueueBuffers(q) = QueueBuffers(r) \cup {Head(q).buf}
         /\ Distinct(q) => Distinct(r) /\ Head(q).buf \notin QueueBuffers(r)
<1> DEFINE n == Len(r)
<1>1. /\ Tail(q) \in Seq(WorkItems) /\ Len(Tail(q)) = Len(q) - 1
      /\ \A i \in 1 .. Len(Tail(q)) : Tail(q)[i] = q[i + 1]
  BY HeadTailProperties
<1>2. /\ n \in Nat /\ Len(q) = n + 1 /\ DOMAIN q = 1 .. n + 1 /\ r \in Seq(WorkItems)
      /\ DOMAIN r = 1 .. n /\ \A i \in 1 .. n : r[i] = q[i + 1]
      /\ Head(q) = q[1] /\ Head(q) \in WorkItems
  BY <1>1
<1> HIDE DEF n
<1>3. /\ 1 \in 1 .. n + 1
      /\ \A i \in 1 .. n : i + 1 \in 1 .. n + 1 /\ i + 1 # 1
      /\ \A i \in 1 .. n + 1 : i = 1 \/ (i - 1 \in 1 .. n /\ (i - 1) + 1 = i)
  BY <1>2
<1>4. QueueBuffers(q) = QueueBuffers(r) \cup {Head(q).buf}
  <2>1. ASSUME NEW b \in QueueBuffers(q) PROVE b \in QueueBuffers(r) \cup {Head(q).buf}
    <3>1. PICK i \in 1 .. n + 1 : b = q[i].buf
      BY <1>2 DEF QueueBuffers
    <3>2. CASE i = 1
      BY <1>2, <3>1, <3>2
    <3>3. CASE i # 1
      <4>1. i - 1 \in 1 .. n /\ (i - 1) + 1 = i
        BY <1>3, <3>3
      <4>2. r[i - 1] = q[i]
        BY <1>2, <4>1
      <4> QED
        BY <1>2, <3>1, <4>1, <4>2 DEF QueueBuffers
    <3> QED
      BY <3>2, <3>3
  <2>2. Head(q).buf \in QueueBuffers(q)
    BY <1>2, <1>3 DEF QueueBuffers
  <2>3. QueueBuffers(r) \subseteq QueueBuffers(q)
    BY <1>2, <1>3 DEF QueueBuffers
  <2> QED
    BY <2>1, <2>2, <2>3
<1>5. ASSUME Distinct(q) PROVE Distinct(r) /\ Head(q).buf \notin QueueBuffers(r)
  <2>1. ASSUME NEW i \in 1 .. n, NEW j \in 1 .. n, r[i].buf = r[j].buf PROVE i = j
    <3>1. i + 1 = j + 1
      BY <1>2, <1>3, <1>5, <2>1 DEF Distinct
    <3> QED
      BY <3>1
  <2>2. \A i \in 1 .. n : r[i].buf # q[1].buf
    BY <1>2, <1>3, <1>5 DEF Distinct
  <2> QED
    BY <1>2, <2>1, <2>2 DEF Distinct, QueueBuffers
<1> QED
  BY <1>2, <1>4, <1>5 DEF n

LEMMA OwnershipStep == ASSUME IInv, Move PROVE Ownership'
<1>0. TypeOK /\ Standing /\ Ownership
  BY DEF IInv
<1>a. /\ pc \in [Threads -> Locations] /\ item \in [Workers -> WorkItems \cup {NoItem}]
      /\ r2pBuffer \in Seq(WorkItems) /\ p2wBuffer \in Seq(WorkItems) /\ free \subseteq Buffers
  BY <1>0 DEF TypeOK
<1>b. /\ "reader" \in Threads /\ "processor" \in Threads /\ "writer" \in Threads
      /\ "main" \in Threads /\ Workers \subseteq Threads /\ "main" \notin Workers
      /\ Workers = {"reader", "processor", "writer"}
  BY DEF Threads, Workers
<1>c. /\ NoItem \notin WorkItems /\ NoItem.buf = NoBuffer /\ NoBuffer \notin Buffers
      /\ \A i \in WorkItems : i.buf \in Buffers
  BY BufferAssumption DEF WorkItems, NoItem
<1>d. QueueBuffers(r2pBuffer) \subseteq Buffers /\ QueueBuffers(p2wBuffer) \subseteq Buffers
  BY <1>a, <1>c DEF QueueBuffers
<1>e. \A w \in Workers : \/ pc[w] \in Carrying[w] /\ item[w] \in WorkItems
                         \/ pc[w] \notin Carrying[w] /\ item[w] = NoItem
  BY <1>0, <1>a DEF Ownership
<1>1. ASSUME UNCHANGED <<free, item, r2pBuffer, p2wBuffer>>,
             \A w \in Workers : pc[w] \in Carrying[w] <=> pc'[w] \in Carrying[w]
      PROVE  Ownership'
  BY <1>0, <1>1 DEF Ownership, Queued, QueueBuffers, Distinct
(* The worker's item is destroyed. *)
<1>2. ASSUME NEW w \in Workers, Release(w), UNCHANGED <<r2pBuffer, p2wBuffer>>,
             pc'[w] \notin Carrying[w], \A v \in Workers : v # w => pc'[v] = pc[v]
      PROVE  Ownership'
  <2>1. item'[w] = NoItem /\ \A v \in Workers : v # w => item'[v] = item[v]
    BY <1>a, <1>2 DEF Release
  <2>2. free' = free \cup ({item[w].buf} \ {NoBuffer})
    BY <1>2 DEF Release, Held
  <2>3. /\ QueueBuffers(r2pBuffer') = QueueBuffers(r2pBuffer)
        /\ QueueBuffers(p2wBuffer') = QueueBuffers(p2wBuffer)
        /\ Queued' = Queued /\ Distinct(r2pBuffer') /\ Distinct(p2wBuffer')
    BY <1>0, <1>2 DEF Queued, Ownership
  <2>4. \A v \in Workers : item'[v] # NoItem <=> pc'[v] \in Carrying[v]
    BY <1>0, <1>2, <2>1 DEF Ownership
  <2>5. \A v \in Workers : item'[v].buf \notin Queued
    BY <1>0, <1>c, <1>d, <2>1 DEF Ownership, Queued
  <2>6. \A u, v \in Workers : item'[u].buf = item'[v].buf /\ item'[u] # NoItem => u = v
    BY <1>0, <1>a, <1>c, <2>1 DEF Ownership
  <2>7. item[w].buf \in Buffers \/ item[w].buf = NoBuffer
    BY <1>a, <1>c
  <2>8. \A b \in Buffers : b \in free' <=> b \notin Queued /\ \A v \in Workers : item'[v].buf # b
    BY <1>0, <1>a, <1>c, <2>1, <2>2, <2>7 DEF Ownership
  <2>9. free' \subseteq Buffers
    BY <1>a, <2>2, <2>7
  <2>10. free' = (Buffers \ Queued) \ {item'[v].buf : v \in Workers}
    BY <2>8, <2>9
  <2> QED
    BY <1>0, <2>3, <2>4, <2>5, <2>6, <2>10 DEF Ownership
<1>3. ASSUME NEW w \in Workers, Thrown(w) PROVE Ownership'
  <2>1. /\ Release(w) /\ UNCHANGED <<r2pBuffer, p2wBuffer>> /\ pc'[w] = "throw"
        /\ \A v \in Workers : v # w => pc'[v] = pc[v]
    BY <1>3, <1>a, <1>b DEF Thrown, Throw, Goto, queues, r2pVars, p2wVars
  <2>2. "throw" \notin Carrying[w]
    BY <1>b DEF Carrying
  <2> QED
    BY <1>2, <2>1, <2>2
<1>4. CASE ReaderAcquire
  <2>1. PICK b \in free :
          /\ free' = free \ {b}
          /\ item' = [item EXCEPT !["reader"] =
               [index |-> block_index, offset |-> file_offset, bytes |-> 0, buf |-> b]]
    BY <1>4 DEF ReaderAcquire
  <2>2. /\ item'["reader"].buf = b /\ item'["reader"] # NoItem
        /\ \A v \in Workers : v # "reader" => item'[v] = item[v]
    <3>1. item'["reader"] = [index |-> block_index, offset |-> file_offset, bytes |-> 0, buf |-> b]
      BY <1>a, <1>b, <2>1
    <3>2. b # NoBuffer
      BY <1>a, <1>c
    <3> QED
      BY <1>a, <1>b, <1>c, <2>1, <3>1, <3>2
  <2>3. /\ pc'["reader"] \in Carrying["reader"] /\ \A v \in Workers : v # "reader" => pc'[v] = pc[v]
        /\ UNCHANGED <<r2pBuffer, p2wBuffer>>
    BY <1>4, <1>a, <1>b DEF ReaderAcquire, Goto, Carrying, queues, r2pVars, p2wVars
  <2>4. /\ QueueBuffers(r2pBuffer') = QueueBuffers(r2pBuffer)
        /\ QueueBuffers(p2wBuffer') = QueueBuffers(p2wBuffer)
        /\ Queued' = Queued /\ Distinct(r2pBuffer') /\ Distinct(p2wBuffer')
    BY <1>0, <2>3 DEF Queued, Ownership
  <2>5. b \in Buffers /\ b \notin Queued /\ \A v \in Workers : item[v].buf # b
    BY <1>0, <1>a DEF Ownership
  <2>6. item["reader"] = NoItem
    BY <1>4, <1>b, <1>e DEF ReaderAcquire, Carrying
  <2>7. \A v \in Workers : item'[v] # NoItem <=> pc'[v] \in Carrying[v]
    BY <1>0, <2>2, <2>3 DEF Ownership
  <2>8. \A u, v \in Workers : item'[u].buf = item'[v].buf /\ item'[u] # NoItem => u = v
    BY <1>0, <2>2, <2>5 DEF Ownership
  <2>9. \A x \in Buffers : x \in free' <=> x \notin Queued /\ \A v \in Workers : item'[v].buf # x
    BY <1>0, <1>b, <1>c, <2>1, <2>2, <2>5, <2>6 DEF Ownership
  <2>10. free' = (Buffers \ Queued) \ {item'[v].buf : v \in Workers}
    BY <1>a, <2>1, <2>9
  <2>11. \A v \in Workers : item'[v].buf \notin Queued
    BY <1>0, <2>2, <2>5 DEF Ownership
  <2> QED
    BY <1>0, <2>4, <2>7, <2>8, <2>10, <2>11 DEF Ownership
<1>5. ASSUME NEW n \in 1 .. BlockSize, ReaderReads(n) PROVE Ownership'
  <2>1. /\ item'["reader"].buf = item["reader"].buf /\ item'["reader"] \in WorkItems
        /\ \A v \in Workers : v # "reader" => item'[v] = item[v]
    <3>1. item["reader"] \in WorkItems /\ item'["reader"] = [item["reader"] EXCEPT !.bytes = n]
      BY <1>5, <1>a, <1>b, <1>e DEF ReaderReads, Carrying
    <3>2. n \in 0 .. BlockSize
      BY SizeAssumption
    <3>3. item'["reader"] \in WorkItems /\ item'["reader"].buf = item["reader"].buf
      BY <3>1, <3>2 DEF WorkItems
    <3> QED
      BY <1>5, <1>a, <1>b, <3>3 DEF ReaderReads
  <2>2. /\ pc["reader"] \in Carrying["reader"] /\ pc'["reader"] \in Carrying["reader"]
        /\ \A v \in Workers : v # "reader" => pc'[v] = pc[v]
        /\ UNCHANGED <<free, r2pBuffer, p2wBuffer>>
    BY <1>5, <1>a, <1>b DEF ReaderReads, Goto, Carrying, queues, r2pVars, p2wVars
  <2>3. \A v \in Workers : /\ item'[v].buf = item[v].buf
                           /\ item'[v] # NoItem <=> item[v] # NoItem
                           /\ pc'[v] \in Carrying[v] <=> pc[v] \in Carrying[v]
    BY <1>b, <1>c, <1>e, <2>1, <2>2
  <2>4. {item'[v].buf : v \in Workers} = {item[v].buf : v \in Workers}
    BY <2>3
  <2> QED
    BY <1>0, <2>2, <2>3, <2>4 DEF Ownership, Queued
(* The worker's item moves into a queue. *)
<1>6. ASSUME NEW w \in Workers, pc[w] \in Carrying[w], pc'[w] \notin Carrying[w],
             \A v \in Workers : v # w => pc'[v] = pc[v],
             item' = [item EXCEPT ![w] = NoItem], UNCHANGED free,
             Distinct(r2pBuffer'), Distinct(p2wBuffer'),
             QueueBuffers(r2pBuffer') \cap QueueBuffers(p2wBuffer') = {},
             Queued' = Queued \cup {item[w].buf}
      PROVE  Ownership'
  <2>1. item'[w] = NoItem /\ \A v \in Workers : v # w => item'[v] = item[v]
    BY <1>a, <1>6
  <2>2. item[w] \in WorkItems /\ item[w] # NoItem /\ item[w].buf \in Buffers
    BY <1>c, <1>e, <1>6
  <2>3. \A v \in Workers : item'[v] # NoItem <=> pc'[v] \in Carrying[v]
    BY <1>0, <1>6, <2>1 DEF Ownership
  <2>4. \A v \in Workers : v # w => item[v].buf # item[w].buf
    BY <1>0, <2>2 DEF Ownership
  <2>5. \A v \in Workers : item'[v].buf \notin Queued'
    BY <1>0, <1>6, <1>c, <1>d, <2>1, <2>2, <2>4 DEF Ownership, Queued
  <2>6. \A u, v \in Workers : item'[u].buf = item'[v].buf /\ item'[u] # NoItem => u = v
    BY <1>0, <1>a, <1>c, <2>1 DEF Ownership
  <2>7. \A b \in Buffers : b \in free' <=> b \notin Queued' /\ \A v \in Workers : item'[v].buf # b
    BY <1>0, <1>6, <1>c, <2>1 DEF Ownership
  <2>8. free' = (Buffers \ Queued') \ {item'[v].buf : v \in Workers}
    BY <1>a, <1>6, <2>7
  <2> QED
    BY <1>6, <2>3, <2>5, <2>6, <2>8 DEF Ownership
(* The worker takes an item from a queue. *)
<1>7. ASSUME NEW w \in Workers, pc[w] \notin Carrying[w], pc'[w] \in Carrying[w],
             \A v \in Workers : v # w => pc'[v] = pc[v],
             NEW h \in WorkItems, item' = [item EXCEPT ![w] = h], UNCHANGED free,
             Distinct(r2pBuffer'), Distinct(p2wBuffer'),
             QueueBuffers(r2pBuffer') \cap QueueBuffers(p2wBuffer') = {},
             Queued = Queued' \cup {h.buf}, h.buf \notin Queued'
      PROVE  Ownership'
  <2>1. item'[w] = h /\ \A v \in Workers : v # w => item'[v] = item[v]
    BY <1>a, <1>7
  <2>2. item[w] = NoItem /\ h.buf \in Buffers /\ h # NoItem
    BY <1>c, <1>e, <1>7
  <2>3. \A v \in Workers : item'[v] # NoItem <=> pc'[v] \in Carrying[v]
    BY <1>0, <1>7, <2>1, <2>2 DEF Ownership
  <2>4. \A v \in Workers : item[v].buf # h.buf
    BY <1>0, <1>7 DEF Ownership
  <2>5. \A v \in Workers : item'[v].buf \notin Queued'
    BY <1>0, <1>7, <2>1 DEF Ownership
  <2>6. \A u, v \in Workers : item'[u].buf = item'[v].buf /\ item'[u] # NoItem => u = v
    BY <1>0, <2>1, <2>4 DEF Ownership
  <2>7. \A b \in Buffers : b \in free' <=> b \notin Queued' /\ \A v \in Workers : item'[v].buf # b
    BY <1>0, <1>7, <1>c, <2>1, <2>2 DEF Ownership
  <2>8. free' = (Buffers \ Queued') \ {item'[v].buf : v \in Workers}
    BY <1>a, <1>7, <2>7
  <2> QED
    BY <1>7, <2>3, <2>5, <2>6, <2>8 DEF Ownership
(* A queue is failed: its items are destroyed. *)
<1>8. ASSUME \A v \in Workers : pc[v] \in Carrying[v] <=> pc'[v] \in Carrying[v], UNCHANGED item,
             Distinct(r2pBuffer'), Distinct(p2wBuffer'),
             QueueBuffers(r2pBuffer') \cap QueueBuffers(p2wBuffer') = {},
             NEW gone, Queued = Queued' \cup gone, gone \cap Queued' = {}, free' = free \cup gone
      PROVE  Ownership'
  <2>1. gone \subseteq Buffers /\ free' \subseteq Buffers
    BY <1>8, <1>a, <1>d DEF Queued
  <2>2. \A b \in Buffers : b \in free' <=> b \notin Queued' /\ \A v \in Workers : item'[v].buf # b
    BY <1>0, <1>8 DEF Ownership
  <2>3. free' = (Buffers \ Queued') \ {item'[v].buf : v \in Workers}
    BY <2>1, <2>2
  <2>4. \A v \in Workers : item'[v].buf \notin Queued'
    BY <1>0, <1>8 DEF Ownership
  <2> QED
    BY <1>0, <1>8, <2>3, <2>4 DEF Ownership
<1>9. CASE ReaderEof
  BY <1>1, <1>9, <1>a, <1>b DEF ReaderEof, Goto, Carrying, pool, p2wVars, R2P!Close
<1>10. CASE ReaderReturn
  <2>1. /\ Release("reader") /\ UNCHANGED <<r2pBuffer, p2wBuffer>> /\ pc'["reader"] = "done"
        /\ \A v \in Workers : v # "reader" => pc'[v] = pc[v]
    BY <1>10, <1>a, <1>b DEF ReaderReturn, Goto, queues, r2pVars, p2wVars
  <2> QED
    BY <1>2, <1>b, <2>1 DEF Carrying
<1>11. CASE ReaderPush
  <2>1. /\ pc["reader"] = "push" /\ pc'["reader"] = "acquire"
        /\ \A v \in Workers : v # "reader" => pc'[v] = pc[v]
        /\ item' = [item EXCEPT !["reader"] = NoItem] /\ UNCHANGED <<free, p2wBuffer>>
        /\ r2pBuffer' = Append(r2pBuffer, item["reader"])
    BY <1>11, <1>a, <1>b DEF ReaderPush, Goto, p2wVars, R2P!Push
  <2>2. /\ item["reader"] \in WorkItems /\ item["reader"].buf \notin Queued
        /\ Distinct(r2pBuffer) /\ item["reader"].buf \notin QueueBuffers(r2pBuffer)
    BY <1>0, <1>b, <1>e, <2>1 DEF Ownership, Carrying, Queued
  <2>3. /\ QueueBuffers(r2pBuffer') = QueueBuffers(r2pBuffer) \cup {item["reader"].buf}
        /\ Distinct(r2pBuffer')
    <3> DEFINE q == r2pBuffer
               r == r2pBuffer'
               x == item["reader"]
    <3>1. /\ q \in Seq(WorkItems) /\ x \in WorkItems /\ r = Append(q, x)
          /\ Distinct(q) /\ x.buf \notin QueueBuffers(q)
      BY <1>a, <2>1, <2>2
    <3> HIDE DEF q, r, x
    <3>2. QueueBuffers(r) = QueueBuffers(q) \cup {x.buf} /\ Distinct(r)
      BY <3>1, QueueAppend
    <3> QED
      BY <3>2 DEF q, r, x
  <2>4. /\ Distinct(p2wBuffer') /\ Queued' = Queued \cup {item["reader"].buf}
        /\ QueueBuffers(r2pBuffer') \cap QueueBuffers(p2wBuffer') = {}
    BY <1>0, <2>1, <2>2, <2>3 DEF Ownership, Queued
  <2>5. pc["reader"] \in Carrying["reader"] /\ pc'["reader"] \notin Carrying["reader"]
    BY <2>1 DEF Carrying
  <2> QED
    BY <1>6, <1>b, <2>1, <2>3, <2>4, <2>5
<1>12. CASE ProcessorPush
  <2>1. /\ pc["processor"] = "push" /\ pc'["processor"] = "pop"
        /\ \A v \in Workers : v # "processor" => pc'[v] = pc[v]
        /\ item' = [item EXCEPT !["processor"] = NoItem] /\ UNCHANGED <<free, r2pBuffer>>
        /\ p2wBuffer' = Append(p2wBuffer, item["processor"])
    BY <1>12, <1>a, <1>b DEF ProcessorPush, Goto, r2pVars, P2W!Push
  <2>2. /\ item["processor"] \in WorkItems /\ item["processor"].buf \notin Queued
        /\ Distinct(p2wBuffer) /\ item["processor"].buf \notin QueueBuffers(p2wBuffer)
    BY <1>0, <1>b, <1>e, <2>1 DEF Ownership, Carrying, Queued
  <2>3. /\ QueueBuffers(p2wBuffer') = QueueBuffers(p2wBuffer) \cup {item["processor"].buf}
        /\ Distinct(p2wBuffer')
    <3> DEFINE q == p2wBuffer
               r == p2wBuffer'
               x == item["processor"]
    <3>1. /\ q \in Seq(WorkItems) /\ x \in WorkItems /\ r = Append(q, x)
          /\ Distinct(q) /\ x.buf \notin QueueBuffers(q)
      BY <1>a, <2>1, <2>2
    <3> HIDE DEF q, r, x
    <3>2. QueueBuffers(r) = QueueBuffers(q) \cup {x.buf} /\ Distinct(r)
      BY <3>1, QueueAppend
    <3> QED
      BY <3>2 DEF q, r, x
  <2>4. /\ Distinct(r2pBuffer') /\ Queued' = Queued \cup {item["processor"].buf}
        /\ QueueBuffers(r2pBuffer') \cap QueueBuffers(p2wBuffer') = {}
    BY <1>0, <2>1, <2>2, <2>3 DEF Ownership, Queued
  <2>5. pc["processor"] \in Carrying["processor"] /\ pc'["processor"] \notin Carrying["processor"]
    BY <2>1 DEF Carrying
  <2> QED
    BY <1>6, <1>b, <2>1, <2>3, <2>4, <2>5
<1>13. CASE ProcessorPop
  <2> DEFINE h == Head(r2pBuffer)
  <2>1. /\ pc["processor"] = "pop" /\ pc'["processor"] = "process" /\ r2pBuffer # <<>>
        /\ \A v \in Workers : v # "processor" => pc'[v] = pc[v]
        /\ item' = [item EXCEPT !["processor"] = h] /\ UNCHANGED <<free, p2wBuffer>>
        /\ r2pBuffer' = Tail(r2pBuffer)
    BY <1>13, <1>a, <1>b DEF ProcessorPop, Goto, p2wVars, R2P!Pop
  <2>2. /\ QueueBuffers(r2pBuffer) = QueueBuffers(r2pBuffer') \cup {h.buf} /\ h \in WorkItems
        /\ Distinct(r2pBuffer') /\ h.buf \notin QueueBuffers(r2pBuffer')
    BY <1>0, <1>a, <2>1, QueueTail DEF Ownership
  <2> HIDE DEF h
  <2>3. /\ Distinct(p2wBuffer') /\ Queued = Queued' \cup {h.buf} /\ h.buf \notin Queued'
        /\ QueueBuffers(r2pBuffer') \cap QueueBuffers(p2wBuffer') = {}
    BY <1>0, <2>1, <2>2 DEF Ownership, Queued
  <2>4. pc["processor"] \notin Carrying["processor"] /\ pc'["processor"] \in Carrying["processor"]
    BY <2>1 DEF Carrying
  <2> QED
    BY <1>7, <1>b, <2>1, <2>2, <2>3, <2>4
<1>14. CASE WriterPop
  <2> DEFINE h == Head(p2wBuffer)
  <2>1. /\ pc["writer"] = "pop" /\ pc'["writer"] = "write" /\ p2wBuffer # <<>>
        /\ \A v \in Workers : v # "writer" => pc'[v] = pc[v]
        /\ item' = [item EXCEPT !["writer"] = h] /\ UNCHANGED <<free, r2pBuffer>>
        /\ p2wBuffer' = Tail(p2wBuffer)
    BY <1>14, <1>a, <1>b DEF WriterPop, Goto, r2pVars, P2W!Pop
  <2>2. /\ QueueBuffers(p2wBuffer) = QueueBuffers(p2wBuffer') \cup {h.buf} /\ h \in WorkItems
        /\ Distinct(p2wBuffer') /\ h.buf \notin QueueBuffers(p2wBuffer')
    BY <1>0, <1>a, <2>1, QueueTail DEF Ownership
  <2> HIDE DEF h
  <2>3. /\ Distinct(r2pBuffer') /\ Queued = Queued' \cup {h.buf} /\ h.buf \notin Queued'
        /\ QueueBuffers(r2pBuffer') \cap QueueBuffers(p2wBuffer') = {}
    BY <1>0, <2>1, <2>2 DEF Ownership, Queued
  <2>4. pc["writer"] \notin Carrying["writer"] /\ pc'["writer"] \in Carrying["writer"]
    BY <2>1 DEF Carrying
  <2> QED
    BY <1>7, <1>b, <2>1, <2>2, <2>3, <2>4
<1>15. CASE ProcessorDrains \/ ProcessorClose \/ ProcessorStage
  BY <1>1, <1>15, <1>a, <1>b
  DEF ProcessorDrains, ProcessorClose, ProcessorStage, Goto, Carrying, pool, queues, r2pVars,
      p2wVars, P2W!Close
<1>16. CASE WriterDrains \/ \E n \in 1 .. BlockSize : WriterWrite(n)
  BY <1>1, <1>16, <1>a, <1>b
  DEF WriterDrains, WriterWrite, Goto, Carrying, pool, queues, r2pVars, p2wVars
<1>17. CASE WriterCounts
  <2>1. /\ Release("writer") /\ UNCHANGED <<r2pBuffer, p2wBuffer>> /\ pc'["writer"] = "pop"
        /\ \A v \in Workers : v # "writer" => pc'[v] = pc[v]
    BY <1>17, <1>a, <1>b DEF WriterCounts, Goto, queues, r2pVars, p2wVars
  <2> QED
    BY <1>2, <1>b, <2>1 DEF Carrying
<1>18. ASSUME NEW t \in Threads, FailAllStep(t) PROVE Ownership'
  <2>1. \A v \in Workers : pc[v] \in Carrying[v] <=> pc'[v] \in Carrying[v]
    <3>1. /\ pc[t] \in Failing /\ \A s \in Threads : s # t => pc'[s] = pc[s]
          /\ pc'[t] \in Failing \cup {"join_reader", "done"}
      BY <1>18, <1>a
      DEF FailAllStep, FailAllRecord, FailAllR2P, FailAllP2W, Goto, Afterwards, Failing
    <3>2. \A v \in Workers : Carrying[v] \cap (Failing \cup {"join_reader", "done"}) = {}
      BY <1>b DEF Carrying, Failing
    <3> QED
      BY <1>b, <3>1, <3>2
  <2>2. CASE FailAllRecord(t)
    BY <1>1, <2>1, <2>2 DEF FailAllRecord, pool, queues, r2pVars, p2wVars
  <2>3. CASE FailAllR2P(t)
    <3>1. /\ r2pBuffer' = <<>> /\ free' = free \cup QueueBuffers(r2pBuffer)
          /\ UNCHANGED <<item, p2wBuffer>>
      BY <2>3 DEF FailAllR2P, p2wVars, R2P!Fail
    <3>2. QueueBuffers(r2pBuffer') = {} /\ Distinct(r2pBuffer') /\ Distinct(p2wBuffer')
      BY <1>0, <3>1 DEF QueueBuffers, Distinct, Ownership
    <3>3. /\ Queued = Queued' \cup QueueBuffers(r2pBuffer)
          /\ QueueBuffers(r2pBuffer) \cap Queued' = {}
          /\ QueueBuffers(r2pBuffer') \cap QueueBuffers(p2wBuffer') = {}
      BY <1>0, <3>1, <3>2 DEF Queued, Ownership
    <3> QED
      BY <1>8, <2>1, <3>1, <3>2, <3>3
  <2>4. CASE FailAllP2W(t)
    <3>1. /\ p2wBuffer' = <<>> /\ free' = free \cup QueueBuffers(p2wBuffer)
          /\ UNCHANGED <<item, r2pBuffer>>
      BY <2>4 DEF FailAllP2W, r2pVars, P2W!Fail
    <3>2. QueueBuffers(p2wBuffer') = {} /\ Distinct(r2pBuffer') /\ Distinct(p2wBuffer')
      BY <1>0, <3>1 DEF QueueBuffers, Distinct, Ownership
    <3>3. /\ Queued = Queued' \cup QueueBuffers(p2wBuffer)
          /\ QueueBuffers(p2wBuffer) \cap Queued' = {}
          /\ QueueBuffers(r2pBuffer') \cap QueueBuffers(p2wBuffer') = {}
      BY <1>0, <3>1, <3>2 DEF Queued, Ownership
    <3> QED
      BY <1>8, <2>1, <3>1, <3>2, <3>3
  <2> QED
    BY <1>18, <2>2, <2>3, <2>4 DEF FailAllStep
<1>19. ASSUME NEW w \in Workers, StartThread(w) PROVE Ownership'
  <2>1. /\ pc'[w] = FirstStep(w) /\ pc["main"] = StartAt[w]
        /\ \A v \in Workers : v # w => pc'[v] = pc[v]
        /\ UNCHANGED <<free, item, r2pBuffer, p2wBuffer>>
    BY <1>a, <1>b, <1>19 DEF StartThread, pool, queues, r2pVars, p2wVars
  <2>2. pc[w] = "unstarted"
    BY <1>0, <2>1 DEF Standing, StartAt, Workers, Starting
  <2>3. "unstarted" \notin Carrying[w] /\ FirstStep(w) \notin Carrying[w]
    BY <1>b DEF FirstStep, Carrying
  <2> QED
    BY <1>1, <2>1, <2>2, <2>3
<1>20. CASE Finish \/ UNCHANGED vars
            \/ \E w \in Workers : StartThreadFails(w) \/ Join(w)
  <2>1. /\ \A v \in Workers : pc'[v] = pc[v]
        /\ UNCHANGED <<free, item, r2pBuffer, p2wBuffer>>
    BY <1>a, <1>b, <1>20
    DEF Finish, StartThreadFails, Join, vars, pool, queues, r2pVars, p2wVars, Goto
  <2> QED
    BY <1>1, <2>1
<1> QED
  BY <1>3, <1>4, <1>5, <1>9, <1>10, <1>11, <1>12, <1>13, <1>14, <1>15, <1>16, <1>17, <1>18,
     <1>19, <1>20
  DEF Move, MainStep

-----------------------------------------------------------------------------
(* Types. *)

(* A stage leaves bytes that are bytes of the file, one stage further. *)
LEMMA StageTyped ==
  ASSUME IInv, ProcessorStage
  PROVE  content' \in [Buffers -> [0 .. BlockSize - 1 -> Bytes]]
<1> DEFINE b == item["processor"].buf
           k == item["processor"].bytes
           new == [j \in 0 .. BlockSize - 1 |->
                     IF j < k THEN <<content[b][j][1], content[b][j][2] + 1>>
                     ELSE content[b][j]]
<1>1. b \in Buffers /\ k \in 0 .. BlockSize
  BY ItemTyped DEF Workers, Carrying, ProcessorStage
<1>2. content \in [Buffers -> [0 .. BlockSize - 1 -> Bytes]]
  BY DEF IInv, TypeOK
<1>3. content' = [content EXCEPT ![b] = new]
  BY <1>1, <1>2 DEF ProcessorStage
<1>4. stage \in 0 .. NumStages /\ stage < NumStages
  BY DEF IInv, TypeOK, Progress, ProcessorStage
<1>5. ASSUME NEW j \in 0 .. BlockSize - 1, j < k
      PROVE  <<content[b][j][1], content[b][j][2] + 1>> \in Bytes
  <2>1. content[b][j] = <<item["processor"].offset + j, stage>>
    <3>1. j \in 0 .. k - 1
      BY <1>1, <1>5
    <3> QED
      BY <3>1 DEF IInv, BlocksIntact, HoldsBlock
  <2>2. content[b][j] \in Bytes
    BY <1>1, <1>2
  <2>3. content[b][j][1] \in -1 .. MaxFileLen - 1
    BY <2>2 DEF Bytes
  <2>4. content[b][j][2] + 1 \in 0 .. NumStages
    BY <1>4, <2>1, SizeAssumption
  <2> QED
    BY <2>3, <2>4 DEF Bytes
<1> HIDE DEF b, k
<1>6. ASSUME NEW j \in 0 .. BlockSize - 1 PROVE content[b][j] \in Bytes
  BY <1>1, <1>2
<1>7. new \in [0 .. BlockSize - 1 -> Bytes]
  BY <1>5, <1>6
<1> HIDE DEF new
<1> QED
  BY <1>1, <1>2, <1>3, <1>7

(* What a write stores in the output file was in the buffer. *)
LEMMA WriteTyped ==
  ASSUME IInv, NEW n \in 1 .. BlockSize, WriterWrite(n)
  PROVE  output' \in [Positions -> Bytes] /\ written_count' \in 0 .. BlockSize
<1> DEFINE i == item["writer"]
           at == i.offset + written_count
<1>1. /\ i.buf \in Buffers /\ i.bytes \in 0 .. BlockSize /\ i.offset \in Nat
  BY ItemTyped DEF Workers, Carrying, WriterWrite
<1>2. /\ content \in [Buffers -> [0 .. BlockSize - 1 -> Bytes]]
      /\ output \in [Positions -> Bytes] /\ written_count \in 0 .. BlockSize
      /\ input_length \in Nat
  BY DEF IInv, TypeOK
<1>3. /\ n <= i.bytes - written_count /\ written_count' = written_count + n
      /\ output' = [p \in Positions |->
           IF p \in at .. at + n - 1 THEN content[i.buf][p - i.offset] ELSE output[p]]
  BY DEF WriterWrite
<1> HIDE DEF i
<1>4. ASSUME NEW p \in Positions, p \in at .. at + n - 1 PROVE content[i.buf][p - i.offset] \in Bytes
  <2>1. p - i.offset \in 0 .. BlockSize - 1
    BY <1>1, <1>2, <1>3, <1>4, SizeAssumption
  <2> QED
    BY <1>1, <1>2, <2>1
<1>5. written_count' \in 0 .. BlockSize
  BY <1>1, <1>2, <1>3, SizeAssumption
<1> HIDE DEF at
<1> QED
  BY <1>2, <1>3, <1>4, <1>5

LEMMA TypeStep == ASSUME IInv, Move PROVE TypeOK'
<1>0. TypeOK /\ Standing /\ Failures /\ Closing /\ InOrder
  BY DEF IInv
<1>a. /\ "reader" \in Threads /\ "processor" \in Threads /\ "writer" \in Threads
      /\ "main" \in Threads /\ Workers \subseteq Threads
      /\ "reader" \in Workers /\ "processor" \in Workers /\ "writer" \in Workers
  BY DEF Threads, Workers
<1>b. {"unstarted", "acquire", "read", "push", "return", "pop", "process", "close", "write",
       "count", "throw", "fail_r2p", "fail_p2w", "done", "finish", "start_writer",
       "start_processor", "start_reader", "join_reader", "join_processor", "join_writer"}
        \subseteq Locations
  BY DEF Locations, StartAt, JoinAt, Workers
<1>c. NoItem \in WorkItems \cup {NoItem} /\ <<>> \in Seq(WorkItems)
  OBVIOUS
<1>d. \A w \in Workers : Held(w) \subseteq Buffers
  <2>1. \A w \in Workers : pc[w] \in Carrying[w] => Held(w) = {item[w].buf} /\ item[w].buf \in Buffers
    BY ItemTyped
  <2>2. \A w \in Workers : pc[w] \notin Carrying[w] => Held(w) = {}
    BY ItemTyped
  <2> QED
    BY <2>1, <2>2
<1>f. /\ countBlocks \in [Workers -> Nat] /\ countBytes \in [Workers -> Nat]
      /\ \A w \in Workers, n \in Nat :
           /\ [countBlocks EXCEPT ![w] = @ + n] \in [Workers -> Nat]
           /\ [countBytes EXCEPT ![w] = @ + n] \in [Workers -> Nat]
  <2>1. countBlocks \in [Workers -> Nat] /\ countBytes \in [Workers -> Nat]
    BY <1>0 DEF TypeOK
  <2> QED
    BY <2>1
<1> USE DEF failures, r2pVars, p2wVars, queues, pool, data, locals, result, counters, tally, run
<1>1. ASSUME NEW w \in Workers, Thrown(w) PROVE TypeOK'
  <2>1. PICK e \in Errors : Throw(w, e)
    BY <1>1 DEF Thrown
  <2>2. /\ pc' = [pc EXCEPT ![w] = "throw"] /\ exc' = [exc EXCEPT ![w] = e]
        /\ free' = free \cup Held(w) /\ item' = [item EXCEPT ![w] = NoItem]
    BY <2>1 DEF Throw, Goto, Release
  <2>3. /\ pc' \in [Threads -> Locations] /\ exc' \in [Threads -> Errors \cup {None}]
        /\ free' \subseteq Buffers /\ item' \in [Workers -> WorkItems \cup {NoItem}]
    BY <1>0, <1>a, <1>b, <1>d, <2>2 DEF TypeOK
  <2>4. /\ content' \in [Buffers -> [0 .. BlockSize - 1 -> Bytes]]
        /\ countBlocks' \in [Workers -> Nat] /\ countBytes' \in [Workers -> Nat]
        /\ UNCHANGED <<input_length, first_failure, r2pBuffer, r2pState, r2pFailure, p2wBuffer,
                       p2wState, p2wFailure, block_index, file_offset, stage, written_count,
                       output, blocks_written, bytes_written, outcome>>
    BY <1>1 DEF Thrown
  <2> QED
    BY <1>0, <2>3, <2>4 DEF TypeOK, Positions
<1>2. CASE ReaderAcquire
  <2>1. PICK b \in free :
          /\ free' = free \ {b}
          /\ item' = [item EXCEPT !["reader"] =
               [index |-> block_index, offset |-> file_offset, bytes |-> 0, buf |-> b]]
    BY <1>2 DEF ReaderAcquire
  <2>2. [index |-> block_index, offset |-> file_offset, bytes |-> 0, buf |-> b] \in WorkItems
    <3>1. block_index \in Nat /\ file_offset \in Nat /\ 0 \in 0 .. BlockSize /\ b \in Buffers
      BY <1>0, SizeAssumption DEF TypeOK
    <3> QED
      BY <3>1 DEF WorkItems
  <2>3. free' \subseteq Buffers /\ item' \in [Workers -> WorkItems \cup {NoItem}]
    BY <1>0, <1>a, <2>1, <2>2 DEF TypeOK
  <2> QED
    BY <1>0, <1>2, <1>a, <1>b, <2>3 DEF ReaderAcquire, TypeOK, Goto, Positions
<1>3. ASSUME NEW n \in 1 .. BlockSize, ReaderReads(n) PROVE TypeOK'
  <2>1. content' \in [Buffers -> [0 .. BlockSize - 1 -> Bytes]]
    BY <1>3, ReadTyped DEF ReaderReads
  <2>2. item["reader"] \in WorkItems
    BY <1>3, <1>a, ItemTyped DEF ReaderReads, Carrying
  <2>3. [item["reader"] EXCEPT !.bytes = n] \in WorkItems
    <3>1. n \in 0 .. BlockSize
      BY SizeAssumption
    <3> QED
      BY <2>2, <3>1 DEF WorkItems
  <2>4. item' \in [Workers -> WorkItems \cup {NoItem}]
    BY <1>0, <1>3, <1>a, <2>3 DEF TypeOK, ReaderReads
  <2>5. countBlocks' \in [Workers -> Nat] /\ countBytes' \in [Workers -> Nat]
    <3>1. n \in Nat /\ 1 \in Nat
      BY SizeAssumption
    <3> QED
      BY <1>3, <1>a, <1>f, <3>1 DEF ReaderReads
  <2> QED
    BY <1>0, <1>3, <1>a, <1>b, <2>1, <2>4, <2>5 DEF ReaderReads, TypeOK, Goto, Positions
<1>4. CASE ReaderEof
  <2>1. r2pState' \in {"open", "closed", "failed"} /\ UNCHANGED <<r2pBuffer, r2pFailure>>
    BY <1>0, <1>4 DEF ReaderEof, R2P!Close, TypeOK
  <2> QED
    BY <1>0, <1>4, <1>a, <1>b, <2>1 DEF ReaderEof, TypeOK, Goto, Positions
<1>5. CASE ReaderReturn
  <2>1. free' \subseteq Buffers /\ item' \in [Workers -> WorkItems \cup {NoItem}]
    BY <1>0, <1>5, <1>a, <1>d DEF ReaderReturn, Release, TypeOK
  <2> QED
    BY <1>0, <1>5, <1>a, <1>b, <2>1 DEF ReaderReturn, TypeOK, Goto, Positions
<1>6. CASE ReaderPush
  <2>1. item["reader"] \in WorkItems /\ item["reader"].bytes \in Nat
    BY <1>6, <1>a, ItemTyped DEF ReaderPush, Carrying
  <2>2. r2pBuffer' \in Seq(WorkItems) /\ UNCHANGED <<r2pState, r2pFailure>>
    BY <1>0, <1>6, <2>1 DEF ReaderPush, R2P!Push, TypeOK
  <2>3. item' \in [Workers -> WorkItems \cup {NoItem}]
    BY <1>0, <1>6, <1>a DEF ReaderPush, TypeOK
  <2>4. block_index' \in Nat /\ file_offset' \in 0 .. input_length
    <3>1. /\ file_offset + item["reader"].bytes <= input_length
          /\ block_index \in Nat /\ file_offset \in Nat /\ input_length \in Nat
      BY <1>0, <1>6 DEF ReaderPush, TypeOK, InOrder, ReaderInOrder
    <3>2. block_index' = block_index + 1 /\ file_offset' = file_offset + item["reader"].bytes
      BY <1>6 DEF ReaderPush
    <3> QED
      BY <2>1, <3>1, <3>2
  <2> QED
    BY <1>0, <1>6, <1>a, <1>b, <2>2, <2>3, <2>4 DEF ReaderPush, TypeOK, Goto, Positions
<1>7. CASE ProcessorPop
  <2>1. Head(r2pBuffer) \in WorkItems /\ Tail(r2pBuffer) \in Seq(WorkItems)
    BY <1>0, <1>7, QueueTail DEF ProcessorPop, TypeOK
  <2>2. r2pBuffer' \in Seq(WorkItems) /\ UNCHANGED <<r2pState, r2pFailure>>
    BY <1>7, <2>1 DEF ProcessorPop, R2P!Pop
  <2>3. item' \in [Workers -> WorkItems \cup {NoItem}]
    BY <1>0, <1>7, <1>a, <2>1 DEF ProcessorPop, TypeOK
  <2>4. stage' \in 0 .. NumStages
    BY <1>7, SizeAssumption DEF ProcessorPop
  <2> QED
    BY <1>0, <1>7, <1>a, <1>b, <2>2, <2>3, <2>4 DEF ProcessorPop, TypeOK, Goto, Positions
<1>8. CASE ProcessorDrains
  BY <1>0, <1>8, <1>a, <1>b DEF ProcessorDrains, TypeOK, Goto, Positions
<1>9. CASE ProcessorClose
  <2>1. p2wState' \in {"open", "closed", "failed"} /\ UNCHANGED <<p2wBuffer, p2wFailure>>
    BY <1>0, <1>9 DEF ProcessorClose, P2W!Close, TypeOK
  <2> QED
    BY <1>0, <1>9, <1>a, <1>b, <2>1 DEF ProcessorClose, TypeOK, Goto, Positions
<1>10. CASE ProcessorStage
  <2>1. content' \in [Buffers -> [0 .. BlockSize - 1 -> Bytes]]
    BY <1>10, StageTyped
  <2>2. stage' \in 0 .. NumStages
    <3>1. stage \in 0 .. NumStages /\ stage' = stage + 1
      BY <1>0, <1>10 DEF ProcessorStage, TypeOK
    <3>2. stage < NumStages
      BY <1>10 DEF ProcessorStage, IInv, Progress
    <3> QED
      BY <3>1, <3>2, SizeAssumption
  <2>3. item["processor"].bytes \in Nat
    BY <1>a, ItemTyped
  <2>4. countBlocks' \in [Workers -> Nat] /\ countBytes' \in [Workers -> Nat]
    BY <1>10, <1>a, <1>f, <2>3 DEF ProcessorStage
  <2>5. pc' \in [Threads -> Locations]
    BY <1>0, <1>10, <1>a, <1>b DEF ProcessorStage, TypeOK, Goto
  <2>6. UNCHANGED <<block_index, file_offset, written_count, output, failures, queues, pool,
                    result, run>>
    BY <1>10 DEF ProcessorStage
  <2> QED
    BY <1>0, <2>1, <2>2, <2>4, <2>5, <2>6 DEF TypeOK, Positions
<1>11. CASE ProcessorPush
  <2>1. item["processor"] \in WorkItems
    BY <1>11, <1>a, ItemTyped DEF ProcessorPush, Carrying
  <2>2. p2wBuffer' \in Seq(WorkItems) /\ UNCHANGED <<p2wState, p2wFailure>>
    BY <1>0, <1>11, <2>1 DEF ProcessorPush, P2W!Push, TypeOK
  <2>3. item' \in [Workers -> WorkItems \cup {NoItem}]
    BY <1>0, <1>11, <1>a DEF ProcessorPush, TypeOK
  <2> QED
    BY <1>0, <1>11, <1>a, <1>b, <2>2, <2>3 DEF ProcessorPush, TypeOK, Goto, Positions
<1>12. CASE WriterPop
  <2>1. Head(p2wBuffer) \in WorkItems /\ Tail(p2wBuffer) \in Seq(WorkItems)
    BY <1>0, <1>12, QueueTail DEF WriterPop, TypeOK
  <2>2. p2wBuffer' \in Seq(WorkItems) /\ UNCHANGED <<p2wState, p2wFailure>>
    BY <1>12, <2>1 DEF WriterPop, P2W!Pop
  <2>3. item' \in [Workers -> WorkItems \cup {NoItem}]
    BY <1>0, <1>12, <1>a, <2>1 DEF WriterPop, TypeOK
  <2>4. written_count' \in 0 .. BlockSize
    BY <1>12, SizeAssumption DEF WriterPop
  <2> QED
    BY <1>0, <1>12, <1>a, <1>b, <2>2, <2>3, <2>4 DEF WriterPop, TypeOK, Goto, Positions
<1>13. CASE WriterDrains
  BY <1>0, <1>13, <1>a, <1>b DEF WriterDrains, TypeOK, Goto, Positions
<1>14. ASSUME NEW n \in 1 .. BlockSize, WriterWrite(n) PROVE TypeOK'
  <2>1. output' \in [Positions -> Bytes] /\ written_count' \in 0 .. BlockSize
    BY <1>14, WriteTyped
  <2>2. pc' \in [Threads -> Locations]
    BY <1>0, <1>14, <1>a, <1>b DEF WriterWrite, TypeOK, Goto
  <2>3. UNCHANGED <<content, block_index, file_offset, stage, failures, queues, pool, tally, run>>
    BY <1>14 DEF WriterWrite
  <2> QED
    BY <1>0, <2>1, <2>2, <2>3 DEF TypeOK, Positions
<1>15. CASE WriterCounts
  <2>1. free' \subseteq Buffers /\ item' \in [Workers -> WorkItems \cup {NoItem}]
    BY <1>0, <1>15, <1>a, <1>d DEF WriterCounts, Release, TypeOK
  <2>2. item["writer"].bytes \in Nat
    BY <1>a, ItemTyped
  <2>3. /\ countBlocks' \in [Workers -> Nat] /\ countBytes' \in [Workers -> Nat]
        /\ blocks_written' \in Nat /\ bytes_written' \in Nat
    <3>1. blocks_written \in Nat /\ bytes_written \in Nat
      BY <1>0 DEF TypeOK
    <3>2. blocks_written' \in Nat /\ bytes_written' \in Nat
      BY <1>15, <2>2, <3>1 DEF WriterCounts
    <3>3. countBlocks' \in [Workers -> Nat] /\ countBytes' \in [Workers -> Nat]
      BY <1>15, <1>a, <1>f, <2>2 DEF WriterCounts
    <3> QED
      BY <3>2, <3>3
  <2> QED
    BY <1>0, <1>15, <1>a, <1>b, <2>1, <2>3 DEF WriterCounts, TypeOK, Goto, Positions
<1>16. ASSUME NEW t \in Threads, FailAllRecord(t) PROVE TypeOK'
  <2>1. first_failure' \in Errors \cup {None} /\ exc' \in [Threads -> Errors \cup {None}]
    BY <1>0, <1>16 DEF FailAllRecord, TypeOK
  <2> QED
    BY <1>0, <1>16, <1>b, <2>1 DEF FailAllRecord, TypeOK, Goto, Positions
<1>e. /\ QueueBuffers(r2pBuffer) \subseteq Buffers /\ QueueBuffers(p2wBuffer) \subseteq Buffers
  <2>1. \A i \in WorkItems : i.buf \in Buffers
    BY DEF WorkItems
  <2> QED
    BY <1>0, <2>1 DEF QueueBuffers, TypeOK
<1>17. ASSUME NEW t \in Threads, FailAllR2P(t) PROVE TypeOK'
  <2>1. /\ r2pState' = "failed" /\ r2pBuffer' = <<>> /\ r2pFailure' \in Errors \cup {None}
    BY <1>0, <1>17 DEF FailAllR2P, R2P!Fail, TypeOK
  <2>2. free' \subseteq Buffers
    BY <1>0, <1>17, <1>e DEF FailAllR2P, TypeOK
  <2> QED
    BY <1>0, <1>17, <1>b, <1>c, <2>1, <2>2 DEF FailAllR2P, TypeOK, Goto, Positions
<1>18. ASSUME NEW t \in Threads, FailAllP2W(t) PROVE TypeOK'
  <2>1. /\ p2wState' = "failed" /\ p2wBuffer' = <<>> /\ p2wFailure' \in Errors \cup {None}
    BY <1>0, <1>18 DEF FailAllP2W, P2W!Fail, TypeOK
  <2>2. free' \subseteq Buffers
    BY <1>0, <1>18, <1>e DEF FailAllP2W, TypeOK
  <2>3. Afterwards(t) \in Locations
    BY <1>b DEF Afterwards
  <2> QED
    BY <1>0, <1>18, <1>c, <2>1, <2>2, <2>3 DEF FailAllP2W, TypeOK, Goto, Positions
<1>19. ASSUME NEW w \in Workers, StartThread(w) \/ StartThreadFails(w) \/ Join(w) PROVE TypeOK'
  <2>1. {FirstStep(w), AfterStart[w], AfterJoin[w]} \subseteq Locations
    BY <1>b DEF FirstStep, AfterStart, AfterJoin, Workers
  <2>2. "thread_error" \in Errors
    BY DEF Errors
  <2>3. pc' \in [Threads -> Locations] /\ exc' \in [Threads -> Errors \cup {None}]
    <3>1. pc \in [Threads -> Locations] /\ exc \in [Threads -> Errors \cup {None}]
      BY <1>0 DEF TypeOK
    <3>2. CASE StartThread(w)
      BY <1>a, <2>1, <3>1, <3>2 DEF StartThread
    <3>3. CASE StartThreadFails(w)
      BY <1>a, <1>b, <2>2, <3>1, <3>3 DEF StartThreadFails, Goto
    <3>4. CASE Join(w)
      BY <1>a, <2>1, <3>1, <3>4 DEF Join, Goto
    <3> QED
      BY <1>19, <3>2, <3>3, <3>4
  <2>4. UNCHANGED <<first_failure, queues, pool, data, locals, tally, run>>
    BY <1>19 DEF StartThread, StartThreadFails, Join
  <2> QED
    BY <1>0, <2>3, <2>4 DEF TypeOK, Positions
<1>20. CASE Finish
  <2>1. outcome' \in Errors \cup {"running", "returned"}
    BY <1>0, <1>20 DEF Finish, TypeOK
  <2> QED
    BY <1>0, <1>20, <1>a, <1>b, <2>1 DEF Finish, TypeOK, Goto, Positions
<1>21. CASE UNCHANGED vars
  BY <1>0, <1>21 DEF vars, TypeOK, Positions
<1> QED
  BY <1>1, <1>2, <1>3, <1>4, <1>5, <1>6, <1>7, <1>8, <1>9, <1>10, <1>11, <1>12, <1>13, <1>14,
     <1>15, <1>16, <1>17, <1>18, <1>19, <1>20, <1>21
  DEF Move, MainStep, FailAllStep

-----------------------------------------------------------------------------
(* What a step leaves alone. *)

Local(w) == <<pc[w], item[w], exc[w], countBlocks[w], countBytes[w]>>

(* The worker is on its way out after an exception. *)
Down(w) ==
  /\ exc'[w] # None /\ pc'[w] \in Failing \cup {"done"} /\ item'[w] = NoItem
  /\ \A v \in Workers : v # w => Local(v)' = Local(v)

Started(w) ==
  /\ pc[w] = "unstarted" /\ pc'[w] = FirstStep(w)
  /\ UNCHANGED <<item, exc, countBlocks, countBytes>>
  /\ \A v \in Workers : v # w => pc'[v] = pc[v]

ReaderMoves ==
  \/ ReaderAcquire \/ (\E n \in 1 .. BlockSize : ReaderReads(n)) \/ ReaderEof
  \/ ReaderReturn \/ ReaderPush
ProcessorMoves ==
  \/ ProcessorPop \/ ProcessorDrains \/ ProcessorClose \/ ProcessorStage \/ ProcessorPush
WriterMoves ==
  \/ WriterPop \/ WriterDrains \/ (\E n \in 1 .. BlockSize : WriterWrite(n)) \/ WriterCounts

(* A worker's own move leaves the other workers alone. *)
LEMMA OthersStand ==
  ASSUME IInv
  PROVE  /\ ReaderMoves => \A v \in Workers : v # "reader" => Local(v)' = Local(v)
         /\ ProcessorMoves => \A v \in Workers : v # "processor" => Local(v)' = Local(v)
         /\ WriterMoves => \A v \in Workers : v # "writer" => Local(v)' = Local(v)
<1>0. /\ pc \in [Threads -> Locations] /\ item \in [Workers -> WorkItems \cup {NoItem}]
      /\ countBlocks \in [Workers -> Nat] /\ countBytes \in [Workers -> Nat]
      /\ Workers \subseteq Threads
  BY DEF IInv, TypeOK, Threads
<1> USE DEF failures, r2pVars, p2wVars, queues, pool, data, locals, result, counters, tally, run,
            Goto, Release, Local
<1>1. ASSUME ReaderMoves, NEW v \in Workers, v # "reader" PROVE Local(v)' = Local(v)
  <2>1. CASE ReaderAcquire
    BY <1>0, <1>1, <2>1 DEF ReaderAcquire
  <2>2. ASSUME NEW n \in 1 .. BlockSize, ReaderReads(n) PROVE Local(v)' = Local(v)
    BY <1>0, <1>1, <2>2 DEF ReaderReads
  <2>3. CASE ReaderEof
    BY <1>0, <1>1, <2>3 DEF ReaderEof
  <2>4. CASE ReaderReturn
    BY <1>0, <1>1, <2>4 DEF ReaderReturn
  <2>5. CASE ReaderPush
    BY <1>0, <1>1, <2>5 DEF ReaderPush
  <2> QED
    BY <1>1, <2>1, <2>2, <2>3, <2>4, <2>5 DEF ReaderMoves
<1>2. ASSUME ProcessorMoves, NEW v \in Workers, v # "processor" PROVE Local(v)' = Local(v)
  <2>1. CASE ProcessorPop
    BY <1>0, <1>2, <2>1 DEF ProcessorPop
  <2>2. CASE ProcessorDrains
    BY <1>0, <1>2, <2>2 DEF ProcessorDrains
  <2>3. CASE ProcessorClose
    BY <1>0, <1>2, <2>3 DEF ProcessorClose
  <2>4. CASE ProcessorStage
    BY <1>0, <1>2, <2>4 DEF ProcessorStage
  <2>5. CASE ProcessorPush
    BY <1>0, <1>2, <2>5 DEF ProcessorPush
  <2> QED
    BY <1>2, <2>1, <2>2, <2>3, <2>4, <2>5 DEF ProcessorMoves
<1>3. ASSUME WriterMoves, NEW v \in Workers, v # "writer" PROVE Local(v)' = Local(v)
  <2>1. CASE WriterPop
    BY <1>0, <1>3, <2>1 DEF WriterPop
  <2>2. CASE WriterDrains
    BY <1>0, <1>3, <2>2 DEF WriterDrains
  <2>3. ASSUME NEW n \in 1 .. BlockSize, WriterWrite(n) PROVE Local(v)' = Local(v)
    BY <1>0, <1>3, <2>3 DEF WriterWrite
  <2>4. CASE WriterCounts
    BY <1>0, <1>3, <2>4 DEF WriterCounts
  <2> QED
    BY <1>3, <2>1, <2>2, <2>3, <2>4 DEF WriterMoves
<1> QED
  BY <1>1, <1>2, <1>3

(* Every step is that of one worker, or touches none. *)
LEMMA WorkerSteps ==
  ASSUME IInv, Move
  PROVE  \/ \A v \in Workers : Local(v)' = Local(v)
         \/ \E w \in Workers : Down(w) \/ Started(w)
         \/ ReaderMoves \/ ProcessorMoves \/ WriterMoves
<1>0. TypeOK /\ Standing /\ Failures /\ Ownership
  BY DEF IInv
<1>a. /\ pc \in [Threads -> Locations] /\ item \in [Workers -> WorkItems \cup {NoItem}]
      /\ exc \in [Threads -> Errors \cup {None}]
      /\ Workers \subseteq Threads /\ "main" \in Threads /\ "main" \notin Workers
      /\ Threads = Workers \cup {"main"}
  BY <1>0 DEF TypeOK, Threads, Workers
<1> USE DEF failures, r2pVars, p2wVars, queues, pool, data, locals, result, counters, tally, run,
            Goto, Release, Local
<1>1. ASSUME NEW w \in Workers, Thrown(w) PROVE Down(w)
  <2>1. PICK e \in Errors : Throw(w, e)
    BY <1>1 DEF Thrown
  <2>2. exc'[w] = e /\ e # None /\ pc'[w] = "throw" /\ item'[w] = NoItem
    BY <1>a, <2>1 DEF Throw, Errors, None
  <2>3. \A v \in Workers : v # w => pc'[v] = pc[v] /\ item'[v] = item[v] /\ exc'[v] = exc[v]
    BY <1>a, <2>1 DEF Throw
  <2>4. \A v \in Workers : v # w => countBlocks'[v] = countBlocks[v] /\ countBytes'[v] = countBytes[v]
    BY <1>1 DEF Thrown
  <2> QED
    BY <2>2, <2>3, <2>4 DEF Down, Failing
<1>2. ASSUME NEW t \in Workers, FailAllStep(t) PROVE Down(t)
  <2>1. /\ pc[t] \in Failing /\ \A s \in Threads : s # t => pc'[s] = pc[s] /\ exc'[s] = exc[s]
        /\ pc'[t] \in Failing \cup {"done"} /\ UNCHANGED <<item, countBlocks, countBytes>>
    BY <1>2, <1>a
    DEF FailAllStep, FailAllRecord, FailAllR2P, FailAllP2W, Afterwards, Failing
  <2>2. exc'[t] # None
    BY <1>0, <1>2, <1>a
    DEF FailAllStep, FailAllRecord, FailAllR2P, FailAllP2W, Failures, Failing
  <2>3. item[t] = NoItem
    <3>1. pc[t] \notin Carrying[t]
      BY <2>1 DEF Failing, Carrying, Workers
    <3> QED
      BY <1>0, <3>1 DEF Ownership
  <2> QED
    BY <1>a, <2>1, <2>2, <2>3 DEF Down
<1>3. ASSUME FailAllStep("main") PROVE \A v \in Workers : Local(v)' = Local(v)
  <2>1. /\ \A s \in Threads : s # "main" => pc'[s] = pc[s] /\ exc'[s] = exc[s]
        /\ UNCHANGED <<item, countBlocks, countBytes>>
    BY <1>3, <1>a DEF FailAllStep, FailAllRecord, FailAllR2P, FailAllP2W
  <2> QED
    BY <1>a, <2>1
<1>4. ASSUME NEW w \in Workers, StartThread(w) PROVE Started(w)
  <2>1. pc[w] = "unstarted"
    BY <1>0, <1>4 DEF Standing, StartThread, StartAt, Workers, Starting
  <2> QED
    BY <1>4, <1>a, <2>1 DEF StartThread, Started
<1>5. ASSUME NEW w \in Workers, StartThreadFails(w) \/ Join(w)
      PROVE  \A v \in Workers : Local(v)' = Local(v)
  BY <1>5, <1>a DEF StartThreadFails, Join
<1>6. ASSUME Finish \/ UNCHANGED vars PROVE \A v \in Workers : Local(v)' = Local(v)
  BY <1>6, <1>a DEF Finish, vars
<1> HIDE DEF Local
<1> QED
  BY <1>1, <1>2, <1>3, <1>4, <1>5, <1>6, <1>a
  DEF Move, MainStep, ReaderMoves, ProcessorMoves, WriterMoves

(* Which steps change the rest of the state. *)
LEMMA SharedSteps ==
  ASSUME IInv, Move
  PROVE  /\ UNCHANGED input_length
         /\ UNCHANGED <<block_index, file_offset>> \/ ReaderPush
         /\ UNCHANGED r2pBuffer \/ ReaderPush \/ ProcessorPop \/ r2pState' = "failed"
         /\ UNCHANGED p2wBuffer \/ ProcessorPush \/ WriterPop \/ p2wState' = "failed"
         /\ r2pState' = "failed" => r2pBuffer' = <<>>
         /\ p2wState' = "failed" => p2wBuffer' = <<>>
         /\ r2pState = "failed" => r2pState' = "failed"
         /\ p2wState = "failed" => p2wState' = "failed"
         /\ UNCHANGED <<blocks_written, bytes_written>> \/ WriterCounts
         /\ UNCHANGED stage \/ ProcessorPop \/ ProcessorStage
         /\ UNCHANGED written_count \/ WriterPop \/ \E n \in 1 .. BlockSize : WriterWrite(n)
         /\ UNCHANGED output \/ \E n \in 1 .. BlockSize : WriterWrite(n)
<1> DEFINE Quiet == UNCHANGED <<block_index, file_offset, r2pBuffer, p2wBuffer, blocks_written,
                               bytes_written, stage, written_count, output>>
           States == UNCHANGED <<r2pState, p2wState>>
<1>0. /\ r2pState' = "failed" => r2pBuffer' = <<>>
      /\ p2wState' = "failed" => p2wBuffer' = <<>>
  BY FailuresStep DEF Failures
<1> USE DEF failures, r2pVars, p2wVars, queues, pool, data, locals, result, counters, tally, run
<1>1. UNCHANGED input_length
  BY DEF Move, MainStep, FailAllStep, Thrown, ReaderAcquire, ReaderReads, ReaderEof, ReaderReturn,
         ReaderPush, ProcessorPop, ProcessorDrains, ProcessorClose, ProcessorStage, ProcessorPush,
         WriterPop, WriterDrains, WriterWrite, WriterCounts, FailAllRecord, FailAllR2P,
         FailAllP2W, StartThread, StartThreadFails, Join, Finish, vars
<1>2. ASSUME \/ \E w \in Workers : Thrown(w) \/ StartThread(w) \/ StartThreadFails(w) \/ Join(w)
             \/ ReaderAcquire \/ (\E n \in 1 .. BlockSize : ReaderReads(n)) \/ ReaderReturn
             \/ ProcessorDrains \/ WriterDrains \/ Finish \/ UNCHANGED vars
             \/ \E t \in Threads : FailAllRecord(t)
      PROVE  Quiet /\ States
  BY <1>2
  DEF Thrown, ReaderAcquire, ReaderReads, ReaderReturn, ProcessorDrains, WriterDrains,
      FailAllRecord, StartThread, StartThreadFails, Join, Finish, vars
<1>3. ASSUME ReaderEof \/ ProcessorClose
      PROVE  /\ Quiet /\ (r2pState = "failed" => r2pState' = "failed")
             /\ p2wState = "failed" => p2wState' = "failed"
  BY <1>3 DEF ReaderEof, ProcessorClose, R2P!Close, P2W!Close
<1>4. ASSUME ReaderPush PROVE States /\ UNCHANGED <<p2wBuffer, blocks_written, bytes_written,
                                                   stage, written_count, output>>
  BY <1>4 DEF ReaderPush, R2P!Push
<1>5. ASSUME ProcessorPop
      PROVE  States /\ UNCHANGED <<block_index, file_offset, p2wBuffer, blocks_written,
                                   bytes_written, written_count, output>>
  BY <1>5 DEF ProcessorPop, R2P!Pop
<1>6. ASSUME ProcessorStage
      PROVE  States /\ UNCHANGED <<block_index, file_offset, r2pBuffer, p2wBuffer, blocks_written,
                                   bytes_written, written_count, output>>
  BY <1>6 DEF ProcessorStage
<1>7. ASSUME ProcessorPush
      PROVE  States /\ UNCHANGED <<block_index, file_offset, r2pBuffer, blocks_written,
                                   bytes_written, stage, written_count, output>>
  BY <1>7 DEF ProcessorPush, P2W!Push
<1>8. ASSUME WriterPop
      PROVE  States /\ UNCHANGED <<block_index, file_offset, r2pBuffer, blocks_written,
                                   bytes_written, stage, output>>
  BY <1>8 DEF WriterPop, P2W!Pop
<1>9. ASSUME NEW n \in 1 .. BlockSize, WriterWrite(n)
      PROVE  States /\ UNCHANGED <<block_index, file_offset, r2pBuffer, p2wBuffer, blocks_written,
                                   bytes_written, stage>>
  BY <1>9 DEF WriterWrite
<1>10. ASSUME WriterCounts
       PROVE  States /\ UNCHANGED <<block_index, file_offset, r2pBuffer, p2wBuffer, stage,
                                    written_count, output>>
  BY <1>10 DEF WriterCounts
<1>11. ASSUME NEW t \in Threads, FailAllR2P(t)
       PROVE  r2pState' = "failed" /\ UNCHANGED <<p2wState, p2wBuffer, block_index, file_offset,
                blocks_written, bytes_written, stage, written_count, output>>
  BY <1>11 DEF FailAllR2P, R2P!Fail
<1>12. ASSUME NEW t \in Threads, FailAllP2W(t)
       PROVE  p2wState' = "failed" /\ UNCHANGED <<r2pState, r2pBuffer, block_index, file_offset,
                blocks_written, bytes_written, stage, written_count, output>>
  BY <1>12 DEF FailAllP2W, P2W!Fail
<1> QED
  BY <1>0, <1>1, <1>2, <1>3, <1>4, <1>5, <1>6, <1>7, <1>8, <1>9, <1>10, <1>11, <1>12
  DEF Move, MainStep, FailAllStep

-----------------------------------------------------------------------------
(* The order of the blocks. *)

(* The next block is appended to a chain. *)
LEMMA ChainAppend ==
  ASSUME NEW q \in Seq(WorkItems), NEW x \in WorkItems, NEW m,
         Chain(q, m), EndOf(q, m) = Start(x)
  PROVE  Chain(Append(q, x), m) /\ EndOf(Append(q, x), m) = After(x)
<1> DEFINE n == Len(q)
           r == Append(q, x)
<1>1. /\ r # <<>> /\ Len(r) = n + 1 /\ n \in Nat
      /\ r[n + 1] = x /\ \A i \in 1 .. n : r[i] = q[i]
      /\ q = <<>> <=> n = 0
  BY QueueAppend
<1> HIDE DEF n, r
<1>2. Start(r[1]) = m
  <2>1. CASE n = 0
    <3>1. r[1] = x /\ Start(x) = m
      BY <1>1, <2>1 DEF EndOf
    <3> QED
      BY <3>1
  <2>2. CASE n # 0
    <3>1. 1 \in 1 .. n
      BY <1>1, <2>2
    <3> QED
      BY <1>1, <2>2, <3>1 DEF Chain
  <2> QED
    BY <2>1, <2>2
<1>3. ASSUME NEW i \in 1 .. n PROVE Start(r[i + 1]) = After(r[i])
  <2>1. CASE i = n
    <3>1. After(q[n]) = Start(x)
      BY <1>1, <2>1 DEF EndOf, n
    <3> QED
      BY <1>1, <2>1, <3>1
  <2>2. CASE i # n
    <3>1. i \in 1 .. n - 1 /\ i + 1 \in 1 .. n
      BY <1>1, <2>2
    <3>2. Start(q[i + 1]) = After(q[i])
      BY <3>1 DEF Chain, n
    <3> QED
      BY <1>1, <3>1, <3>2
  <2> QED
    BY <2>1, <2>2
<1>4. Len(r) - 1 = n
  BY <1>1
<1>5. Chain(r, m) /\ EndOf(r, m) = After(x)
  BY <1>1, <1>2, <1>3, <1>4 DEF Chain, EndOf
<1> QED
  BY <1>5 DEF r

(* The oldest block is taken from a chain. *)
LEMMA ChainTail ==
  ASSUME NEW q \in Seq(WorkItems), q # <<>>, NEW r, r = Tail(q), NEW m, Chain(q, m)
  PROVE  /\ Start(Head(q)) = m
         /\ Chain(r, After(Head(q)))
         /\ EndOf(r, After(Head(q))) = EndOf(q, m)
<1> DEFINE n == Len(r)
<1>1. /\ n \in Nat /\ Len(q) = n + 1 /\ \A i \in 1 .. n : r[i] = q[i + 1]
      /\ Head(q) = q[1] /\ r \in Seq(WorkItems)
  BY QueueTail
<1>0. r = <<>> <=> n = 0
  BY <1>1, EmptySeq
<1> HIDE DEF n
<1>2. \A i \in 1 .. n : Start(q[i + 1]) = After(q[i])
  <2>1. Len(q) - 1 = n
    BY <1>1
  <2> QED
    BY <2>1 DEF Chain
<1>3. Start(Head(q)) = m
  BY <1>1 DEF Chain
<1>4. r # <<>> => Start(r[1]) = After(Head(q))
  <2>1. n # 0 => 1 \in 1 .. n
    BY <1>1
  <2> QED
    BY <1>0, <1>1, <1>2, <2>1
<1>5. ASSUME NEW i \in 1 .. n - 1 PROVE Start(r[i + 1]) = After(r[i])
  <2>1. i \in 1 .. n /\ i + 1 \in 1 .. n
    BY <1>1
  <2> QED
    BY <1>1, <1>2, <2>1
<1>6. EndOf(r, After(Head(q))) = EndOf(q, m)
  <2>1. CASE n = 0
    BY <1>0, <1>1, <2>1 DEF EndOf
  <2>2. CASE n # 0
    <3>1. r[n] = q[n + 1] /\ r # <<>>
      BY <1>0, <1>1, <2>2
    <3> QED
      BY <1>1, <3>1 DEF EndOf, n
  <2> QED
    BY <2>1, <2>2
<1> QED
  BY <1>3, <1>4, <1>5, <1>6 DEF Chain, n

(* What a step is for one worker. *)
LEMMA WorkerCases ==
  ASSUME IInv, Move
  PROVE  /\ Local("reader")' = Local("reader") \/ Down("reader") \/ Started("reader") \/ ReaderMoves
         /\ \/ Local("processor")' = Local("processor") \/ Down("processor")
            \/ Started("processor") \/ ProcessorMoves
         /\ Local("writer")' = Local("writer") \/ Down("writer") \/ Started("writer") \/ WriterMoves
<1>1. "reader" \in Workers /\ "processor" \in Workers /\ "writer" \in Workers
  BY DEF Workers
<1>2. \A v, w \in Workers : v # w /\ Down(w) => Local(v)' = Local(v)
  BY DEF Down
<1>3. \A v, w \in Workers : v # w /\ Started(w) => Local(v)' = Local(v)
  BY DEF Started, Local
<1> HIDE DEF Local
<1> QED
  BY <1>1, <1>2, <1>3, WorkerSteps, OthersStand

LEMMA ReaderInOrderStep == ASSUME IInv, Move PROVE ReaderInOrder'
<1>0. TypeOK /\ Standing /\ Failures /\ ReaderInOrder
  BY DEF IInv, InOrder
<1>a. /\ block_index \in Nat /\ file_offset \in Nat /\ input_length \in Nat
      /\ "reader" \in Workers /\ "reader" \in Threads
  BY <1>0 DEF TypeOK, Workers, Threads
<1>b. /\ pc \in [Threads -> Locations] /\ item \in [Workers -> WorkItems \cup {NoItem}]
      /\ countBlocks \in [Workers -> Nat] /\ countBytes \in [Workers -> Nat]
  BY <1>0 DEF TypeOK
<1>c. UNCHANGED input_length
  BY SharedSteps
<1>1. CASE UNCHANGED <<block_index, file_offset>> /\ Local("reader")' = Local("reader")
  BY <1>0, <1>1, <1>c DEF Local, ReaderInOrder, Count
<1>2. CASE UNCHANGED <<block_index, file_offset>> /\ Down("reader")
  BY <1>0, <1>2 DEF Down, ReaderInOrder, Failing, Carrying
<1>3. CASE UNCHANGED <<block_index, file_offset>> /\ Started("reader")
  BY <1>0, <1>3 DEF Started, ReaderInOrder, FirstStep, Carrying, Count
<1>4. CASE ReaderAcquire
  <2>1. /\ pc["reader"] = "acquire" /\ pc'["reader"] = "read"
        /\ UNCHANGED <<exc, countBlocks, countBytes, block_index, file_offset>>
    BY <1>4, <1>a, <1>b DEF ReaderAcquire, Goto, failures, locals, tally, counters
  <2>2. PICK b \in free : item'["reader"] =
          [index |-> block_index, offset |-> file_offset, bytes |-> 0, buf |-> b]
    BY <1>4, <1>a, <1>b DEF ReaderAcquire
  <2> QED
    BY <1>0, <2>1, <2>2 DEF ReaderInOrder, Carrying, Start, Count
<1>5. ASSUME NEW n \in 1 .. BlockSize, ReaderReads(n) PROVE ReaderInOrder'
  <2>1. /\ pc["reader"] = "read" /\ pc'["reader"] = "push"
        /\ UNCHANGED <<exc, block_index, file_offset>>
        /\ countBlocks'["reader"] = countBlocks["reader"] + 1
        /\ countBytes'["reader"] = countBytes["reader"] + n
        /\ n <= input_length - file_offset /\ file_offset <= MaxU64 - n /\ block_index # MaxU64
    BY <1>5, <1>a, <1>b DEF ReaderReads, Goto, failures, locals
  <2>2. item["reader"] \in WorkItems /\ item'["reader"] = [item["reader"] EXCEPT !.bytes = n]
    BY <1>5, <1>a, <1>b, <2>1, ItemTyped DEF ReaderReads, Carrying
  <2>3. /\ item'["reader"].index = item["reader"].index
        /\ item'["reader"].offset = item["reader"].offset /\ item'["reader"].bytes = n
    BY <2>2 DEF WorkItems
  <2>4. item["reader"].index = block_index /\ item["reader"].offset = file_offset
    BY <1>0, <2>1 DEF ReaderInOrder, Carrying, Start
  <2>5. exc["reader"] = None => countBlocks["reader"] = block_index /\ countBytes["reader"] = file_offset
    BY <1>0, <2>1 DEF ReaderInOrder, Count
  <2>6. /\ n > 0 /\ file_offset + n <= input_length /\ file_offset + n <= MaxU64
        /\ block_index < MaxU64 /\ block_index <= MaxU64 /\ file_offset <= MaxU64
    BY <1>0, <1>a, <2>1, SizeAssumption DEF ReaderInOrder
  <2> QED
    BY <1>a, <1>c, <2>1, <2>3, <2>4, <2>5, <2>6 DEF ReaderInOrder, Carrying, Start, After, Count
<1>6. CASE ReaderEof
  <2>1. /\ pc["reader"] = "read" /\ pc'["reader"] = "return"
        /\ UNCHANGED <<exc, item, countBlocks, countBytes, block_index, file_offset>>
    BY <1>6, <1>a, <1>b DEF ReaderEof, Goto, failures, pool, locals, tally, counters
  <2> QED
    BY <1>0, <2>1 DEF ReaderInOrder, Carrying, Count
<1>7. CASE ReaderReturn
  <2>1. /\ pc["reader"] = "return" /\ pc'["reader"] = "done"
        /\ UNCHANGED <<exc, countBlocks, countBytes, block_index, file_offset>>
    BY <1>7, <1>a, <1>b DEF ReaderReturn, Goto, failures, locals, tally, counters
  <2> QED
    BY <1>0, <2>1 DEF ReaderInOrder, Carrying, Count
<1>8. CASE ReaderPush
  <2>1. /\ pc["reader"] = "push" /\ pc'["reader"] = "acquire"
        /\ UNCHANGED <<exc, countBlocks, countBytes>>
        /\ block_index' = block_index + 1 /\ file_offset' = file_offset + item["reader"].bytes
    BY <1>8, <1>a, <1>b DEF ReaderPush, Goto, failures, tally, counters
  <2>2. /\ item["reader"].index = block_index /\ item["reader"].offset = file_offset
        /\ file_offset + item["reader"].bytes <= MaxU64 /\ block_index < MaxU64
    BY <1>0, <2>1 DEF ReaderInOrder, Carrying, Start
  <2>3. exc["reader"] = None => Count("reader") = After(item["reader"])
    BY <1>0, <2>1 DEF ReaderInOrder
  <2>4. block_index' <= MaxU64 /\ file_offset' <= MaxU64
    BY <1>a, <2>1, <2>2, SizeAssumption
  <2> QED
    BY <2>1, <2>2, <2>3, <2>4 DEF ReaderInOrder, Carrying, After, Count
<1> QED
  BY <1>1, <1>2, <1>3, <1>4, <1>5, <1>6, <1>7, <1>8, SharedSteps, WorkerCases DEF ReaderMoves

LEMMA ProcessorInOrderStep == ASSUME IInv, Move PROVE ProcessorInOrder'
<1>0. TypeOK /\ Standing /\ Failures /\ ReaderInOrder /\ ProcessorInOrder
  BY DEF IInv, InOrder
<1>a. /\ "reader" \in Workers /\ "processor" \in Workers /\ "processor" \in Threads
      /\ r2pBuffer \in Seq(WorkItems)
  BY <1>0 DEF TypeOK, Workers, Threads
<1>b. /\ pc \in [Threads -> Locations] /\ item \in [Workers -> WorkItems \cup {NoItem}]
      /\ countBlocks \in [Workers -> Nat] /\ countBytes \in [Workers -> Nat]
  BY <1>0 DEF TypeOK
<1> USE DEF Goto, failures, pool, queues, tally, counters
(* The processor's moves, one by one. *)
<1>1. ASSUME ProcessorPop
      PROVE  /\ pc["processor"] = "pop" /\ pc'["processor"] = "process" /\ r2pBuffer # <<>>
             /\ item'["processor"] = Head(r2pBuffer) /\ r2pBuffer' = Tail(r2pBuffer)
             /\ UNCHANGED <<exc, r2pState, countBlocks, countBytes, block_index, file_offset>>
  BY <1>1, <1>a, <1>b DEF ProcessorPop, R2P!Pop
<1>2. ASSUME ProcessorDrains \/ ProcessorClose
      PROVE  /\ pc["processor"] \in {"pop", "close"} /\ pc'["processor"] \in {"close", "done"}
             /\ UNCHANGED <<exc, countBlocks, countBytes>>
  BY <1>2, <1>a, <1>b DEF ProcessorDrains, ProcessorClose
<1>3. ASSUME ProcessorPush
      PROVE  /\ pc["processor"] = "push" /\ pc'["processor"] = "pop"
             /\ UNCHANGED <<exc, countBlocks, countBytes>>
  BY <1>3, <1>a, <1>b DEF ProcessorPush
<1>4. ASSUME ProcessorStage
      PROVE  /\ pc["processor"] = "process" /\ UNCHANGED <<exc, item>>
             /\ \/ pc'["processor"] = "process" /\ Count("processor")' = Count("processor")
                \/ pc'["processor"] = "push" /\ Count("processor")' = After(item["processor"])
  <2>1. pc["processor"] = "process" /\ UNCHANGED <<exc, item>>
    BY <1>4 DEF ProcessorStage
  <2>2. CASE stage + 1 < NumStages
    BY <1>4, <2>1, <2>2 DEF ProcessorStage, Count
  <2>3. CASE ~(stage + 1 < NumStages)
    <3>1. /\ pc'["processor"] = "push" /\ countBlocks'["processor"] = countBlocks["processor"] + 1
          /\ countBytes'["processor"] = countBytes["processor"] + item["processor"].bytes
      BY <1>4, <1>a, <1>b, <2>3 DEF ProcessorStage
    <3>2. Start(item["processor"]) = Count("processor")
      BY <1>0, <2>1 DEF ProcessorInOrder
    <3> QED
      BY <2>1, <3>1, <3>2 DEF Start, After, Count
  <2> QED
    BY <2>2, <2>3
<1>5. /\ pc'["processor"] = "process" => Start(item'["processor"]) = Count("processor")'
      /\ pc'["processor"] = "push" => After(item'["processor"]) = Count("processor")'
  <2>1. CASE Local("processor")' = Local("processor")
    BY <1>0, <2>1 DEF Local, ProcessorInOrder, Count
  <2>2. CASE Down("processor") \/ Started("processor")
    BY <2>2 DEF Down, Started, Failing, FirstStep
  <2>3. CASE ProcessorPop
    <3>1. exc["processor"] = None /\ r2pState # "failed"
      BY <1>0, <1>1, <1>a, <2>3 DEF Failures, Failing
    <3>2. Chain(r2pBuffer, Count("processor"))
      BY <1>0, <1>1, <2>3, <3>1 DEF ProcessorInOrder, ProcessorPops
    <3>3. Start(Head(r2pBuffer)) = Count("processor")
      BY <1>1, <1>a, <2>3, <3>2, ChainTail
    <3> QED
      BY <1>1, <2>3, <3>3 DEF Count
  <2>4. CASE ProcessorStage
    BY <1>0, <1>4, <2>4 DEF ProcessorInOrder
  <2> QED
    BY <1>2, <1>3, <2>1, <2>2, <2>3, <2>4, WorkerCases DEF ProcessorMoves
<1>6. ASSUME exc'["processor"] = None, ~ProcessorPop
      PROVE  exc["processor"] = None /\ ProcessorPops' = ProcessorPops
  <2>1. CASE Local("processor")' = Local("processor")
    BY <1>6, <2>1 DEF Local, ProcessorPops, Count
  <2>2. CASE Started("processor")
    BY <1>6, <2>2 DEF Started, FirstStep, ProcessorPops, Count
  <2>3. CASE ProcessorDrains \/ ProcessorClose \/ ProcessorPush
    BY <1>2, <1>3, <1>6, <2>3 DEF ProcessorPops, Count
  <2>4. CASE ProcessorStage
    BY <1>4, <1>6, <2>4 DEF ProcessorPops
  <2> QED
    BY <1>6, <2>1, <2>2, <2>3, <2>4, WorkerCases DEF ProcessorMoves, Down
<1>7. ASSUME exc'["processor"] = None, r2pState' # "failed"
      PROVE  /\ Chain(r2pBuffer', ProcessorPops')
             /\ EndOf(r2pBuffer', ProcessorPops') = <<block_index', file_offset'>>
  <2>1. r2pState # "failed"
    BY <1>7, SharedSteps
  <2>2. CASE ProcessorPop
    <3> DEFINE m == ProcessorPops
    <3>1. /\ Chain(r2pBuffer, m) /\ EndOf(r2pBuffer, m) = <<block_index, file_offset>>
      BY <1>0, <1>1, <1>7, <2>1, <2>2 DEF ProcessorInOrder
    <3> HIDE DEF m
    <3>2. /\ Chain(r2pBuffer', After(Head(r2pBuffer)))
          /\ EndOf(r2pBuffer', After(Head(r2pBuffer))) = <<block_index, file_offset>>
      BY <1>1, <1>a, <2>2, <3>1, ChainTail
    <3>3. ProcessorPops' = After(Head(r2pBuffer))
      BY <1>1, <2>2 DEF ProcessorPops
    <3> QED
      BY <1>1, <2>2, <3>2, <3>3
  <2>3. CASE ReaderPush
    <3>1. /\ pc["reader"] = "push" /\ r2pBuffer' = Append(r2pBuffer, item["reader"])
          /\ block_index' = block_index + 1 /\ file_offset' = file_offset + item["reader"].bytes
          /\ item'["processor"] = item["processor"] /\ pc'["processor"] = pc["processor"]
      BY <2>3, <1>a, <1>b DEF ReaderPush, R2P!Push
    <3>2. ~ProcessorPop
      BY <3>1, <1>1
    <3> DEFINE q == r2pBuffer
               r == r2pBuffer'
               x == item["reader"]
               m == ProcessorPops
    <3>3. /\ m = ProcessorPops' /\ Chain(q, m) /\ EndOf(q, m) = <<block_index, file_offset>>
      BY <1>0, <1>6, <1>7, <2>1, <3>2 DEF ProcessorInOrder
    <3>4. Start(x) = <<block_index, file_offset>> /\ x \in WorkItems
      BY <1>0, <1>a, <3>1, ItemTyped DEF ReaderInOrder, Carrying
    <3>5. <<block_index', file_offset'>> = After(x)
      BY <3>1, <3>4 DEF Start, After
    <3>6. /\ q \in Seq(WorkItems) /\ x \in WorkItems /\ r = Append(q, x)
          /\ Chain(q, m) /\ EndOf(q, m) = Start(x)
      BY <1>a, <3>1, <3>3, <3>4
    <3> HIDE DEF q, r, x, m
    <3>7. Chain(r, m) /\ EndOf(r, m) = After(x)
      BY <3>6, ChainAppend, Zenon
    <3> QED
      BY <3>3, <3>5, <3>7 DEF r
  <2>4. CASE ~ProcessorPop /\ ~ReaderPush
    <3>1. UNCHANGED <<r2pBuffer, block_index, file_offset>>
      BY <1>7, <2>4, SharedSteps
    <3>2. exc["processor"] = None /\ ProcessorPops' = ProcessorPops
      BY <1>6, <1>7, <2>4
    <3> QED
      BY <1>0, <2>1, <3>1, <3>2 DEF ProcessorInOrder
  <2> QED
    BY <2>2, <2>3, <2>4
<1> QED
  BY <1>5, <1>7 DEF ProcessorInOrder

LEMMA WriterInOrderStep == ASSUME IInv, Move PROVE WriterInOrder'
<1>0. TypeOK /\ Standing /\ Failures /\ ProcessorInOrder /\ WriterInOrder
  BY DEF IInv, InOrder
<1>a. /\ "processor" \in Workers /\ "processor" \in Threads
      /\ "writer" \in Workers /\ "writer" \in Threads /\ p2wBuffer \in Seq(WorkItems)
  BY <1>0 DEF TypeOK, Workers, Threads
<1>b. /\ pc \in [Threads -> Locations] /\ item \in [Workers -> WorkItems \cup {NoItem}]
      /\ countBlocks \in [Workers -> Nat] /\ countBytes \in [Workers -> Nat]
  BY <1>0 DEF TypeOK
<1> USE DEF Goto, failures, pool, queues, tally, counters, result
(* The writer's moves, one by one. *)
<1>1. ASSUME WriterPop
      PROVE  /\ pc["writer"] = "pop" /\ pc'["writer"] = "write" /\ p2wBuffer # <<>>
             /\ item'["writer"] = Head(p2wBuffer) /\ p2wBuffer' = Tail(p2wBuffer)
             /\ pc'["processor"] = pc["processor"] /\ item'["processor"] = item["processor"]
             /\ UNCHANGED <<exc, p2wState, countBlocks, countBytes, blocks_written, bytes_written>>
  BY <1>1, <1>a, <1>b DEF WriterPop, P2W!Pop
<1>2. ASSUME WriterDrains
      PROVE  /\ pc["writer"] = "pop" /\ pc'["writer"] = "done"
             /\ UNCHANGED <<exc, countBlocks, countBytes, blocks_written, bytes_written>>
  BY <1>2, <1>a, <1>b DEF WriterDrains
<1>3. ASSUME NEW n \in 1 .. BlockSize, WriterWrite(n)
      PROVE  /\ pc["writer"] = "write" /\ pc'["writer"] \in {"write", "count"}
             /\ UNCHANGED <<exc, item, countBlocks, countBytes, blocks_written, bytes_written>>
  BY <1>3, <1>a, <1>b DEF WriterWrite
<1>4. ASSUME WriterCounts
      PROVE  /\ pc["writer"] = "count" /\ pc'["writer"] = "pop" /\ UNCHANGED exc
             /\ Count("writer")' = After(item["writer"])
             /\ Count("writer") = <<blocks_written, bytes_written>> =>
                  Count("writer")' = <<blocks_written', bytes_written'>>
  <2>1. /\ pc["writer"] = "count" /\ pc'["writer"] = "pop" /\ UNCHANGED exc
        /\ countBlocks'["writer"] = countBlocks["writer"] + 1
        /\ countBytes'["writer"] = countBytes["writer"] + item["writer"].bytes
        /\ blocks_written' = blocks_written + 1
        /\ bytes_written' = bytes_written + item["writer"].bytes
    BY <1>4, <1>a, <1>b DEF WriterCounts
  <2>2. Start(item["writer"]) = Count("writer")
    BY <1>0, <2>1 DEF WriterInOrder, Carrying
  <2> QED
    BY <2>1, <2>2 DEF Start, After, Count
<1>5. pc'["writer"] \in Carrying.writer => Start(item'["writer"]) = Count("writer")'
  <2>1. CASE Local("writer")' = Local("writer")
    BY <1>0, <2>1 DEF Local, WriterInOrder, Count
  <2>2. CASE Down("writer") \/ Started("writer") \/ WriterDrains \/ WriterCounts
    BY <1>2, <1>4, <2>2 DEF Down, Started, Failing, FirstStep, Carrying
  <2>3. CASE WriterPop
    <3>1. exc["writer"] = None /\ p2wState # "failed"
      BY <1>0, <1>1, <1>a, <2>3 DEF Failures, Failing
    <3>2. Chain(p2wBuffer, Count("writer"))
      BY <1>0, <1>1, <2>3, <3>1 DEF WriterInOrder, WriterPops, Carrying
    <3>3. Start(Head(p2wBuffer)) = Count("writer")
      BY <1>1, <1>a, <2>3, <3>2, ChainTail
    <3> QED
      BY <1>1, <2>3, <3>3 DEF Count
  <2>4. CASE \E n \in 1 .. BlockSize : WriterWrite(n)
    BY <1>0, <1>3, <2>4 DEF WriterInOrder, Carrying, Count
  <2> QED
    BY <2>1, <2>2, <2>3, <2>4, WorkerCases DEF WriterMoves
<1>6. ASSUME exc'["writer"] = None
      PROVE  exc["writer"] = None /\ Count("writer")' = <<blocks_written', bytes_written'>>
  <2>1. exc["writer"] = None
    <3>1. Local("writer")' = Local("writer") \/ Started("writer") \/ WriterMoves
      BY <1>6, WorkerCases DEF Down
    <3> QED
      BY <1>1, <1>2, <1>3, <1>4, <1>6, <3>1 DEF Local, Started, WriterMoves
  <2>2. Count("writer") = <<blocks_written, bytes_written>>
    BY <1>0, <2>1 DEF WriterInOrder
  <2>3. CASE WriterCounts
    BY <1>4, <2>1, <2>2, <2>3
  <2>4. CASE ~WriterCounts
    <3>1. UNCHANGED <<blocks_written, bytes_written>>
      BY <2>4, SharedSteps
    <3>2. Count("writer")' = Count("writer")
      <4>1. Local("writer")' = Local("writer") \/ Started("writer") \/ WriterMoves
        BY <1>6, WorkerCases DEF Down
      <4> QED
        BY <1>1, <1>2, <1>3, <2>4, <4>1 DEF Local, Started, WriterMoves, Count
    <3> QED
      BY <2>1, <2>2, <3>1, <3>2
  <2> QED
    BY <2>3, <2>4
<1>7. ASSUME exc'["writer"] = None, ~WriterPop PROVE WriterPops' = WriterPops
  <2>1. CASE Local("writer")' = Local("writer")
    BY <2>1 DEF Local, WriterPops, Count
  <2>2. CASE Started("writer") \/ WriterDrains
    BY <1>2, <2>2 DEF Started, FirstStep, WriterPops, Count, Carrying
  <2>3. CASE \E n \in 1 .. BlockSize : WriterWrite(n)
    BY <1>3, <2>3 DEF WriterPops, Carrying
  <2>4. CASE WriterCounts
    BY <1>4, <2>4 DEF WriterPops, Carrying
  <2> QED
    BY <1>7, <2>1, <2>2, <2>3, <2>4, WorkerCases DEF WriterMoves, Down
<1>8. ASSUME exc'["processor"] = None, ~ProcessorPush
      PROVE  exc["processor"] = None /\ ProcessorPushes' = ProcessorPushes
  <2>1. CASE Local("processor")' = Local("processor")
    BY <1>8, <2>1 DEF Local, ProcessorPushes, Count
  <2>2. CASE Started("processor")
    BY <1>8, <2>2 DEF Started, FirstStep, ProcessorPushes, Count
  <2>3. CASE ProcessorPop \/ ProcessorDrains \/ ProcessorClose
    <3>1. /\ pc["processor"] \in {"pop", "close"} /\ pc'["processor"] \in {"process", "close", "done"}
          /\ UNCHANGED <<exc, countBlocks, countBytes>>
      BY <2>3, <1>a, <1>b DEF ProcessorPop, ProcessorDrains, ProcessorClose
    <3> QED
      BY <1>8, <3>1 DEF ProcessorPushes, Count
  <2>4. CASE ProcessorStage
    <3>1. pc["processor"] = "process" /\ UNCHANGED <<exc, item>>
      BY <2>4 DEF ProcessorStage
    <3>2. Start(item["processor"]) = Count("processor")
      BY <1>0, <3>1 DEF ProcessorInOrder
    <3>3. \/ pc'["processor"] = "push"
          \/ pc'["processor"] = "process" /\ UNCHANGED <<countBlocks, countBytes>>
      <4>1. CASE stage + 1 < NumStages
        BY <2>4, <3>1, <4>1 DEF ProcessorStage
      <4>2. CASE ~(stage + 1 < NumStages)
        BY <2>4, <1>a, <1>b, <4>2 DEF ProcessorStage
      <4> QED
        BY <4>1, <4>2
    <3> QED
      BY <1>8, <3>1, <3>2, <3>3 DEF ProcessorPushes, Count
  <2> QED
    BY <1>8, <2>1, <2>2, <2>3, <2>4, WorkerCases DEF ProcessorMoves, Down
<1>9. ASSUME exc'["writer"] = None, p2wState' # "failed"
      PROVE  /\ Chain(p2wBuffer', WriterPops')
             /\ exc'["processor"] = None => EndOf(p2wBuffer', WriterPops') = ProcessorPushes'
  <2>1. p2wState # "failed" /\ exc["writer"] = None
    BY <1>6, <1>9, SharedSteps
  <2> DEFINE q == p2wBuffer
             r == p2wBuffer'
             m == WriterPops
             e == ProcessorPushes
  <2>2. /\ Chain(q, m) /\ (exc["processor"] = None => EndOf(q, m) = e)
    BY <1>0, <2>1 DEF WriterInOrder
  <2>3. CASE WriterPop
    <3>1. ~ProcessorPush
      BY <1>1, <2>3, <1>a, <1>b DEF ProcessorPush
    <3>2. exc'["processor"] = None => exc["processor"] = None /\ ProcessorPushes' = e
      BY <1>8, <3>1
    <3>3. WriterPops' = After(Head(q))
      BY <1>1, <2>3 DEF WriterPops, Carrying
    <3>4. q \in Seq(WorkItems) /\ q # <<>> /\ r = Tail(q)
      BY <1>1, <1>a, <2>3
    <3> HIDE DEF q, r, m, e
    <3>5. Chain(r, After(Head(q))) /\ EndOf(r, After(Head(q))) = EndOf(q, m)
      BY <2>2, <3>4, ChainTail
    <3> QED
      BY <2>2, <3>2, <3>3, <3>5 DEF r
  <2>4. CASE ProcessorPush
    <3> DEFINE x == item["processor"]
    <3>1. /\ pc["processor"] = "push" /\ pc'["processor"] = "pop"
          /\ p2wBuffer' = Append(p2wBuffer, item["processor"])
          /\ pc'["writer"] = pc["writer"] /\ UNCHANGED <<exc, countBlocks, countBytes>>
      BY <2>4, <1>a, <1>b DEF ProcessorPush, P2W!Push
    <3>2. WriterPops' = m
      BY <1>1, <1>7, <1>9, <3>1
    <3>3. exc["processor"] = None
      BY <1>0, <1>a, <3>1 DEF Failures, Failing
    <3>4. /\ e = Start(x) /\ ProcessorPushes' = After(x)
      BY <1>0, <3>1 DEF ProcessorPushes, ProcessorInOrder, Count
    <3>5. /\ q \in Seq(WorkItems) /\ x \in WorkItems /\ r = Append(q, x)
          /\ Chain(q, m) /\ EndOf(q, m) = Start(x)
      <4>1. item["processor"] \in WorkItems
        BY <1>a, <3>1, ItemTyped DEF Carrying
      <4> QED
        BY <1>a, <2>2, <3>1, <3>3, <3>4, <4>1
    <3> HIDE DEF q, r, m, e, x
    <3>6. Chain(r, m) /\ EndOf(r, m) = After(x)
      BY <3>5, ChainAppend, Zenon
    <3> QED
      BY <3>2, <3>4, <3>6 DEF r
  <2>5. CASE ~WriterPop /\ ~ProcessorPush
    <3>1. UNCHANGED p2wBuffer /\ WriterPops' = WriterPops
      BY <1>7, <1>9, <2>5, SharedSteps
    <3>2. exc'["processor"] = None => exc["processor"] = None /\ ProcessorPushes' = ProcessorPushes
      BY <1>8, <2>5
    <3> QED
      BY <2>2, <3>1, <3>2
  <2> QED
    BY <2>3, <2>4, <2>5
<1> QED
  BY <1>5, <1>6, <1>9 DEF WriterInOrder

-----------------------------------------------------------------------------
(* Where the work items go. *)

Elements(q) == {q[i] : i \in DOMAIN q}

LEMMA ElementsOfQueues ==
  ASSUME NEW q \in Seq(WorkItems)
  PROVE  /\ \A x \in WorkItems : Elements(Append(q, x)) = Elements(q) \cup {x}
         /\ q # <<>> => Elements(Tail(q)) \subseteq Elements(q) /\ Head(q) \in Elements(q)
         /\ Elements(q) \subseteq WorkItems /\ Elements(<<>>) = {}
<1>1. ASSUME NEW x \in WorkItems PROVE Elements(Append(q, x)) = Elements(q) \cup {x}
  <2> DEFINE n == Len(q)
             r == Append(q, x)
  <2>1. /\ DOMAIN r = 1 .. n + 1 /\ DOMAIN q = 1 .. n /\ n \in Nat
        /\ r[n + 1] = x /\ \A i \in 1 .. n : r[i] = q[i]
    BY QueueAppend
  <2> HIDE DEF n, r
  <2>2. 1 .. n + 1 = (1 .. n) \cup {n + 1}
    BY <2>1
  <2>3. Elements(r) = Elements(q) \cup {x}
    BY <2>1, <2>2 DEF Elements
  <2> QED
    BY <2>3 DEF r
<1>2. ASSUME q # <<>> PROVE Elements(Tail(q)) \subseteq Elements(q) /\ Head(q) \in Elements(q)
  <2> DEFINE r == Tail(q)
             n == Len(r)
  <2>1. /\ n \in Nat /\ DOMAIN r = 1 .. n /\ DOMAIN q = 1 .. n + 1 /\ Head(q) = q[1]
        /\ \A i \in 1 .. n : r[i] = q[i + 1]
    BY <1>2, QueueTail
  <2> HIDE DEF n, r
  <2>2. 1 \in 1 .. n + 1 /\ \A i \in 1 .. n : i + 1 \in 1 .. n + 1
    BY <2>1
  <2>3. Elements(r) \subseteq Elements(q) /\ Head(q) \in Elements(q)
    BY <2>1, <2>2 DEF Elements
  <2> QED
    BY <2>3 DEF r
<1>3. Elements(q) \subseteq WorkItems /\ Elements(<<>>) = {}
  BY DEF Elements
<1> QED
  BY <1>1, <1>2, <1>3

(* A queue receives items from its producer only, a consumer from its      *)
(* queue only.                                                             *)
LEMMA ItemsTravel ==
  ASSUME IInv, Move
  PROVE  /\ \/ Elements(r2pBuffer') \subseteq Elements(r2pBuffer)
            \/ ReaderPush /\ Elements(r2pBuffer') = Elements(r2pBuffer) \cup {item["reader"]}
         /\ \/ Elements(p2wBuffer') \subseteq Elements(p2wBuffer)
            \/ ProcessorPush /\ Elements(p2wBuffer') = Elements(p2wBuffer) \cup {item["processor"]}
         /\ \/ item'["processor"] \in {item["processor"], NoItem}
            \/ ProcessorPop /\ item'["processor"] \in Elements(r2pBuffer)
         /\ \/ item'["writer"] \in {item["writer"], NoItem}
            \/ WriterPop /\ item'["writer"] \in Elements(p2wBuffer)
<1>0. TypeOK
  BY DEF IInv
<1>a. /\ "reader" \in Workers /\ "processor" \in Workers /\ "writer" \in Workers
      /\ r2pBuffer \in Seq(WorkItems) /\ p2wBuffer \in Seq(WorkItems)
      /\ item \in [Workers -> WorkItems \cup {NoItem}]
  BY <1>0 DEF TypeOK, Workers
<1>1. \/ Elements(r2pBuffer') \subseteq Elements(r2pBuffer)
      \/ ReaderPush /\ Elements(r2pBuffer') = Elements(r2pBuffer) \cup {item["reader"]}
  <2>1. CASE ReaderPush
    <3>1. item["reader"] \in WorkItems /\ r2pBuffer' = Append(r2pBuffer, item["reader"])
      BY <1>a, <2>1, ItemTyped DEF ReaderPush, R2P!Push, Carrying
    <3> QED
      BY <1>a, <2>1, <3>1, ElementsOfQueues, Zenon
  <2>2. CASE ProcessorPop
    <3>1. r2pBuffer' = Tail(r2pBuffer) /\ r2pBuffer # <<>>
      BY <2>2 DEF ProcessorPop, R2P!Pop
    <3> QED
      BY <1>a, <3>1, ElementsOfQueues, Zenon
  <2>3. CASE r2pState' = "failed"
    <3>1. r2pBuffer' = <<>>
      BY <2>3, SharedSteps
    <3> QED
      BY <1>a, <3>1, ElementsOfQueues, Zenon
  <2> QED
    BY <2>1, <2>2, <2>3, SharedSteps DEF Elements
<1>2. \/ Elements(p2wBuffer') \subseteq Elements(p2wBuffer)
      \/ ProcessorPush /\ Elements(p2wBuffer') = Elements(p2wBuffer) \cup {item["processor"]}
  <2>1. CASE ProcessorPush
    <3>1. item["processor"] \in WorkItems /\ p2wBuffer' = Append(p2wBuffer, item["processor"])
      BY <1>a, <2>1, ItemTyped DEF ProcessorPush, P2W!Push, Carrying
    <3> QED
      BY <1>a, <2>1, <3>1, ElementsOfQueues, Zenon
  <2>2. CASE WriterPop
    <3>1. p2wBuffer' = Tail(p2wBuffer) /\ p2wBuffer # <<>>
      BY <2>2 DEF WriterPop, P2W!Pop
    <3> QED
      BY <1>a, <3>1, ElementsOfQueues, Zenon
  <2>3. CASE p2wState' = "failed"
    <3>1. p2wBuffer' = <<>>
      BY <2>3, SharedSteps
    <3> QED
      BY <1>a, <3>1, ElementsOfQueues, Zenon
  <2> QED
    BY <2>1, <2>2, <2>3, SharedSteps DEF Elements
<1>3. \/ item'["processor"] \in {item["processor"], NoItem}
      \/ ProcessorPop /\ item'["processor"] \in Elements(r2pBuffer)
  <2>1. CASE Local("processor")' = Local("processor") \/ Down("processor") \/ Started("processor")
    BY <2>1 DEF Local, Down, Started
  <2>2. CASE ProcessorPop
    <3>1. r2pBuffer # <<>> /\ item'["processor"] = Head(r2pBuffer)
      BY <1>a, <2>2 DEF ProcessorPop
    <3>2. Head(r2pBuffer) \in Elements(r2pBuffer)
      BY <1>a, <3>1, ElementsOfQueues
    <3> QED
      BY <2>2, <3>1, <3>2
  <2>3. CASE ProcessorDrains \/ ProcessorClose \/ ProcessorStage \/ ProcessorPush
    BY <1>a, <2>3 DEF ProcessorDrains, ProcessorClose, ProcessorStage, ProcessorPush, pool
  <2> QED
    BY <2>1, <2>2, <2>3, WorkerCases DEF ProcessorMoves
<1>4. \/ item'["writer"] \in {item["writer"], NoItem}
      \/ WriterPop /\ item'["writer"] \in Elements(p2wBuffer)
  <2>1. CASE Local("writer")' = Local("writer") \/ Down("writer") \/ Started("writer")
    BY <2>1 DEF Local, Down, Started
  <2>2. CASE WriterPop
    <3>1. p2wBuffer # <<>> /\ item'["writer"] = Head(p2wBuffer)
      BY <1>a, <2>2 DEF WriterPop
    <3>2. Head(p2wBuffer) \in Elements(p2wBuffer)
      BY <1>a, <3>1, ElementsOfQueues
    <3> QED
      BY <2>2, <3>1, <3>2
  <2>3. CASE WriterDrains \/ WriterCounts \/ \E n \in 1 .. BlockSize : WriterWrite(n)
    BY <1>a, <2>3 DEF WriterDrains, WriterCounts, WriterWrite, Release, pool
  <2> QED
    BY <2>1, <2>2, <2>3, WorkerCases DEF WriterMoves
<1> QED
  BY <1>1, <1>2, <1>3, <1>4

LEMMA AllBeforeStep == ASSUME IInv, Move PROVE AllBefore'
<1>0. TypeOK /\ ReaderInOrder /\ AllBefore
  BY DEF IInv, InOrder
<1>a. /\ "reader" \in Workers /\ "processor" \in Workers /\ "writer" \in Workers
      /\ Elements(r2pBuffer) \subseteq WorkItems /\ Elements(p2wBuffer) \subseteq WorkItems
      /\ item \in [Workers -> WorkItems \cup {NoItem}]
      /\ block_index \in Nat /\ file_offset \in Nat
  <2>1. r2pBuffer \in Seq(WorkItems) /\ p2wBuffer \in Seq(WorkItems)
    BY <1>0 DEF TypeOK
  <2>2. Elements(r2pBuffer) \subseteq WorkItems /\ Elements(p2wBuffer) \subseteq WorkItems
    BY <2>1, ElementsOfQueues
  <2> QED
    BY <1>0, <2>2 DEF TypeOK, Workers
<1>b. \A i \in WorkItems : i.bytes \in Nat /\ i.offset \in Nat /\ i.index \in Nat /\ i # NoItem
  BY BufferAssumption DEF WorkItems, NoItem
<1>1. ASSUME ReaderPush
      PROVE  /\ item["reader"] \in WorkItems /\ item["reader"].bytes > 0
             /\ item["reader"].index = block_index /\ item["reader"].offset = file_offset
             /\ block_index' = block_index + 1 /\ file_offset' = file_offset + item["reader"].bytes
  <2>1. /\ pc["reader"] = "push"
        /\ block_index' = block_index + 1 /\ file_offset' = file_offset + item["reader"].bytes
    BY <1>1 DEF ReaderPush
  <2>2. item["reader"] \in WorkItems
    BY <1>a, <2>1, ItemTyped DEF Carrying
  <2> QED
    BY <1>0, <2>1, <2>2 DEF ReaderInOrder, Carrying, Start
<1>2. ASSUME NEW i \in WorkItems, Before(i) PROVE Before(i)'
  <2>1. CASE UNCHANGED <<block_index, file_offset>>
    BY <1>2, <2>1 DEF Before
  <2>2. CASE ReaderPush
    <3>1. /\ block_index' = block_index + 1 /\ file_offset' = file_offset + item["reader"].bytes
          /\ item["reader"].bytes \in Nat
      BY <1>1, <1>b, <2>2
    <3>2. i.bytes > 0 /\ i.index < block_index /\ i.offset + i.bytes <= file_offset
      BY <1>2 DEF Before
    <3>3. i.index < block_index' /\ i.offset + i.bytes <= file_offset'
      BY <1>a, <1>b, <3>1, <3>2
    <3> QED
      BY <3>2, <3>3 DEF Before
  <2> QED
    BY <2>1, <2>2, SharedSteps
<1>3. /\ \A i \in Elements(r2pBuffer) : Before(i)'
      /\ \A i \in Elements(p2wBuffer) : Before(i)'
      /\ \A w \in {"processor", "writer"} : item[w] # NoItem => Before(item[w]) /\ item[w] \in WorkItems
  BY <1>0, <1>2, <1>a DEF AllBefore, Elements
<1>4. ASSUME NEW i \in WorkItems, i = item["reader"], ReaderPush PROVE Before(i)'
  BY <1>1, <1>a, <1>b, <1>4 DEF Before
<1>5. \A i \in Elements(r2pBuffer') : Before(i)'
  BY <1>1, <1>3, <1>4, ItemsTravel
<1>6. ASSUME NEW i \in WorkItems, i = item["processor"], ProcessorPush PROVE Before(i)'
  <2>1. item["processor"] # NoItem
    BY <1>6, <1>b
  <2>2. Before(i)
    BY <1>3, <1>6, <2>1
  <2> QED
    BY <1>2, <2>2
<1>7. \A i \in Elements(p2wBuffer') : Before(i)'
  <2>1. ProcessorPush => item["processor"] \in WorkItems
    BY <1>a, ItemTyped DEF ProcessorPush, Carrying
  <2> QED
    BY <1>3, <1>6, <2>1, ItemsTravel
<1>8. ASSUME NEW w \in {"processor", "writer"}, item'[w] # NoItem PROVE Before(item[w])'
  <2>1. PICK i \in WorkItems : i = item'[w] /\ Before(i)'
    BY <1>2, <1>3, <1>8, <1>a, ItemsTravel
  <2> QED
    BY <2>1 DEF Before
<1>9. /\ \A i \in DOMAIN r2pBuffer' : Before(r2pBuffer[i])'
      /\ \A i \in DOMAIN p2wBuffer' : Before(p2wBuffer[i])'
  BY <1>5, <1>7 DEF Elements, Before
<1> QED
  BY <1>8, <1>9 DEF AllBefore

-----------------------------------------------------------------------------
(* The bytes. *)

LEMMA ProgressStep == ASSUME IInv, Move PROVE Progress'
<1>0. TypeOK /\ Progress /\ AllBefore
  BY DEF IInv, InOrder
<1>a. /\ "processor" \in Threads /\ "writer" \in Threads /\ "writer" \in Workers
      /\ pc \in [Threads -> Locations] /\ item \in [Workers -> WorkItems \cup {NoItem}]
      /\ stage \in Nat /\ written_count \in Nat /\ p2wBuffer \in Seq(WorkItems)
  BY <1>0 DEF TypeOK, Threads, Workers
<1> USE DEF Goto, pool, locals
<1>1. /\ pc'["processor"] = "process" => stage' < NumStages
      /\ pc'["processor"] = "push" => stage' = NumStages
  <2>1. CASE ProcessorPop
    BY <1>a, <2>1, SizeAssumption DEF ProcessorPop
  <2>2. CASE ProcessorStage
    <3>1. pc["processor"] = "process" /\ stage' = stage + 1 /\ stage < NumStages
      BY <1>0, <2>2 DEF ProcessorStage, Progress
    <3>2. CASE stage + 1 < NumStages
      BY <2>2, <3>1, <3>2 DEF ProcessorStage
    <3>3. CASE ~(stage + 1 < NumStages)
      <4>1. pc'["processor"] = "push"
        BY <1>a, <2>2, <3>3 DEF ProcessorStage
      <4>2. stage' = NumStages
        BY <1>a, <3>1, <3>3, SizeAssumption
      <4> QED
        BY <4>1, <4>2
    <3> QED
      BY <3>2, <3>3
  <2>3. CASE ProcessorDrains \/ ProcessorClose \/ ProcessorPush
    <3>1. pc'["processor"] \in {"close", "done", "pop"}
      BY <1>a, <2>3 DEF ProcessorDrains, ProcessorClose, ProcessorPush
    <3> QED
      BY <3>1
  <2>4. CASE Down("processor") \/ Started("processor")
    BY <2>4 DEF Down, Started, Failing, FirstStep
  <2>5. CASE Local("processor")' = Local("processor") /\ UNCHANGED stage
    BY <1>0, <2>5 DEF Local, Progress
  <2> QED
    BY <2>1, <2>2, <2>3, <2>4, <2>5, WorkerCases, SharedSteps DEF ProcessorMoves
<1>2. /\ pc'["writer"] = "write" => written_count' < item'["writer"].bytes
      /\ pc'["writer"] = "count" => written_count' = item'["writer"].bytes
  <2>1. CASE WriterPop
    <3>1. p2wBuffer # <<>> /\ item'["writer"] = Head(p2wBuffer)
      BY <1>a, <2>1 DEF WriterPop
    <3>2. Head(p2wBuffer) \in Elements(p2wBuffer)
      BY <1>a, <3>1, ElementsOfQueues
    <3>3. item'["writer"].bytes > 0
      BY <1>0, <3>1, <3>2 DEF AllBefore, Elements, Before
    <3> QED
      BY <1>a, <2>1, <3>3 DEF WriterPop
  <2>2. ASSUME NEW n \in 1 .. BlockSize, WriterWrite(n)
        PROVE  /\ pc'["writer"] = "write" => written_count' < item'["writer"].bytes
               /\ pc'["writer"] = "count" => written_count' = item'["writer"].bytes
    <3>1. /\ UNCHANGED item /\ written_count' = written_count + n
          /\ n <= item["writer"].bytes - written_count
      BY <2>2 DEF WriterWrite
    <3>2. item["writer"].bytes \in Nat /\ n \in Nat
      BY <1>a, ItemTyped, SizeAssumption
    <3>3. CASE written_count + n < item["writer"].bytes
      <4>1. pc'["writer"] = "write"
        BY <2>2, <3>3 DEF WriterWrite
      <4> QED
        BY <3>1, <3>3, <4>1
    <3>4. CASE ~(written_count + n < item["writer"].bytes)
      <4>1. pc'["writer"] = "count"
        BY <1>a, <2>2, <3>4 DEF WriterWrite
      <4>2. written_count' = item["writer"].bytes
        BY <1>a, <3>1, <3>2, <3>4
      <4> QED
        BY <3>1, <4>1, <4>2
    <3> QED
      BY <3>3, <3>4
  <2>3. CASE WriterDrains \/ WriterCounts
    <3>1. pc'["writer"] \in {"done", "pop"}
      BY <1>a, <2>3 DEF WriterDrains, WriterCounts
    <3> QED
      BY <3>1
  <2>4. CASE Down("writer") \/ Started("writer")
    BY <2>4 DEF Down, Started, Failing, FirstStep
  <2>5. CASE Local("writer")' = Local("writer") /\ UNCHANGED written_count
    BY <1>0, <2>5 DEF Local, Progress
  <2> QED
    BY <2>1, <2>2, <2>3, <2>4, <2>5, WorkerCases, SharedSteps DEF WriterMoves
<1> QED
  BY <1>1, <1>2 DEF Progress

(* A buffer is written by the worker that owns it. *)
LEMMA ContentSteps ==
  ASSUME IInv, Move, NEW b \in Buffers
  PROVE  \/ content'[b] = content[b]
         \/ b = item["reader"].buf /\ \E n \in 1 .. BlockSize : ReaderReads(n)
         \/ b = item["processor"].buf /\ ProcessorStage
         \/ \E w \in Workers : b = item[w].buf /\ item'[w] = NoItem
<1>0. /\ content \in [Buffers -> [0 .. BlockSize - 1 -> Bytes]]
      /\ item \in [Workers -> WorkItems \cup {NoItem}]
  BY DEF IInv, TypeOK
<1>1. ASSUME NEW w \in Workers, Thrown(w)
      PROVE  content'[b] = content[b] \/ (b = item[w].buf /\ item'[w] = NoItem)
  BY <1>0, <1>1 DEF Thrown, Throw, Release
<1>2. ASSUME NEW n \in 1 .. BlockSize, ReaderReads(n), b # item["reader"].buf
      PROVE  content'[b] = content[b]
  BY <1>0, <1>2 DEF ReaderReads
<1>3. ASSUME ProcessorStage, b # item["processor"].buf PROVE content'[b] = content[b]
  BY <1>0, <1>3 DEF ProcessorStage
<1>4. ASSUME \/ ReaderAcquire \/ ReaderEof \/ ReaderReturn \/ ReaderPush
             \/ ProcessorPop \/ ProcessorDrains \/ ProcessorClose \/ ProcessorPush
             \/ WriterPop \/ WriterDrains \/ WriterCounts
             \/ (\E n \in 1 .. BlockSize : WriterWrite(n))
             \/ (\E t \in Threads : FailAllStep(t)) \/ MainStep \/ UNCHANGED vars
      PROVE  UNCHANGED content
  BY <1>4
  DEF ReaderAcquire, ReaderEof, ReaderReturn, ReaderPush, ProcessorPop, ProcessorDrains,
      ProcessorClose, ProcessorPush, WriterPop, WriterDrains, WriterCounts, WriterWrite,
      FailAllStep, FailAllRecord, FailAllR2P, FailAllP2W, MainStep, StartThread,
      StartThreadFails, Join, Finish, vars, data
<1> QED
  BY <1>1, <1>2, <1>3, <1>4 DEF Move

LEMMA BlocksIntactStep == ASSUME IInv, Move PROVE BlocksIntact'
<1>0. TypeOK /\ Standing /\ Ownership /\ ReaderInOrder /\ Progress /\ BlocksIntact
  BY DEF IInv, InOrder
<1>a. /\ "reader" \in Workers /\ "processor" \in Workers /\ "writer" \in Workers
      /\ item \in [Workers -> WorkItems \cup {NoItem}]
      /\ Elements(r2pBuffer) \subseteq WorkItems /\ Elements(p2wBuffer) \subseteq WorkItems
  <2>1. r2pBuffer \in Seq(WorkItems) /\ p2wBuffer \in Seq(WorkItems)
    BY <1>0 DEF TypeOK
  <2>2. Elements(r2pBuffer) \subseteq WorkItems /\ Elements(p2wBuffer) \subseteq WorkItems
    BY <2>1, ElementsOfQueues
  <2> QED
    BY <1>0, <2>2 DEF TypeOK, Workers
<1>b. /\ \A i \in WorkItems : i.buf \in Buffers /\ i # NoItem /\ i.bytes \in 0 .. BlockSize
      /\ NoItem.bytes = 0
  BY BufferAssumption DEF WorkItems, NoItem
<1>1. ASSUME NEW i \in WorkItems, NEW k, HoldsBlock(i, k), content'[i.buf] = content[i.buf]
      PROVE  HoldsBlock(i, k)'
  BY <1>1 DEF HoldsBlock
<1>2. ASSUME NEW i, i.bytes = 0, NEW k PROVE HoldsBlock(i, k)'
  BY <1>2 DEF HoldsBlock
(* Nobody touches a queued block. *)
<1>3. ASSUME NEW i \in Elements(r2pBuffer) \cup Elements(p2wBuffer)
      PROVE  i \in WorkItems /\ content'[i.buf] = content[i.buf]
  <2>1. i \in WorkItems /\ i.buf \in Buffers
    BY <1>3, <1>a, <1>b
  <2>2. i.buf \in Queued
    BY <1>3 DEF Elements, Queued, QueueBuffers
  <2>3. \A w \in Workers : item[w].buf # i.buf
    BY <1>0, <2>2 DEF Ownership
  <2> QED
    BY <1>a, <2>1, <2>3, ContentSteps
(* Nobody touches another worker's block. *)
<1>4. ASSUME NEW w \in Workers, item[w] # NoItem, item'[w] = item[w],
             w = "reader" => ~\E n \in 1 .. BlockSize : ReaderReads(n),
             w = "processor" => ~ProcessorStage
      PROVE  item[w] \in WorkItems /\ content'[item[w].buf] = content[item[w].buf]
  <2>1. item[w] \in WorkItems /\ item[w].buf \in Buffers
    BY <1>4, <1>a, <1>b
  <2>2. \A v \in Workers : item[v].buf = item[w].buf => v = w
    BY <1>0, <1>4 DEF Ownership
  <2> QED
    BY <1>4, <1>a, <2>1, <2>2, ContentSteps
<1>5. ReaderPush \/ ProcessorPush => UNCHANGED content
  BY DEF ReaderPush, ProcessorPush, data
<1>6. \A i \in Elements(r2pBuffer') : HoldsBlock(i, 0)'
  <2>1. \A i \in Elements(r2pBuffer) : HoldsBlock(i, 0)'
    BY <1>0, <1>1, <1>3 DEF BlocksIntact, Elements
  <2>2. ASSUME ReaderPush, NEW i, i = item["reader"] PROVE HoldsBlock(i, 0)'
    BY <1>0, <1>5, <2>2 DEF BlocksIntact, HoldsBlock
  <2> QED
    BY <2>1, <2>2, ItemsTravel
<1>7. \A i \in Elements(p2wBuffer') : HoldsBlock(i, NumStages)'
  <2>1. \A i \in Elements(p2wBuffer) : HoldsBlock(i, NumStages)'
    BY <1>0, <1>1, <1>3 DEF BlocksIntact, Elements
  <2>2. ASSUME ProcessorPush, NEW i, i = item["processor"] PROVE HoldsBlock(i, NumStages)'
    <3>1. stage = NumStages
      BY <1>0, <2>2 DEF ProcessorPush, Progress
    <3> QED
      BY <1>0, <1>5, <2>2, <3>1 DEF BlocksIntact, HoldsBlock
  <2> QED
    BY <2>1, <2>2, ItemsTravel
<1>8. ASSUME NEW i, i = item'["reader"] PROVE HoldsBlock(i, 0)'
  <2>1. ASSUME NEW n \in 1 .. BlockSize, ReaderReads(n) PROVE HoldsBlock(i, 0)'
    <3> DEFINE b == item["reader"].buf
    <3>1. /\ pc["reader"] = "read" /\ item["reader"] \in WorkItems
          /\ content' = [content EXCEPT ![b] =
               [j \in 0 .. BlockSize - 1 |-> IF j < n THEN <<file_offset + j, 0>> ELSE @[j]]]
          /\ item'["reader"] = [item["reader"] EXCEPT !.bytes = n]
      BY <1>a, <2>1, ItemTyped DEF ReaderReads, Carrying
    <3>2. i.bytes = n /\ i.buf = b /\ i.offset = item["reader"].offset
      BY <1>8, <3>1 DEF WorkItems
    <3>3. i.offset = file_offset
      BY <1>0, <3>1, <3>2 DEF ReaderInOrder, Carrying, Start
    <3>4. b \in Buffers /\ b \in DOMAIN content
      BY <1>0, <1>b, <3>1 DEF TypeOK
    <3> HIDE DEF b
    <3>5. content'[b] =
            [j \in 0 .. BlockSize - 1 |-> IF j < n THEN <<file_offset + j, 0>> ELSE content[b][j]]
      BY <3>1, <3>4
    <3>6. ASSUME NEW j \in 0 .. n - 1 PROVE content'[b][j] = <<file_offset + j, 0>>
      <4>1. j \in 0 .. BlockSize - 1 /\ j < n
        BY SizeAssumption
      <4> QED
        BY <3>5, <4>1
    <3> QED
      BY <3>2, <3>3, <3>6 DEF HoldsBlock
  <2>2. CASE ReaderAcquire
    <3>1. item'["reader"].bytes = 0
      BY <1>a, <2>2 DEF ReaderAcquire
    <3> QED
      BY <1>2, <1>8, <3>1
  <2>3. CASE item'["reader"] = NoItem
    BY <1>2, <1>8, <1>b, <2>3
  <2>4. CASE item'["reader"] = item["reader"] /\ ~\E n \in 1 .. BlockSize : ReaderReads(n)
    <3>1. CASE item["reader"] = NoItem
      BY <2>3, <2>4, <3>1
    <3>2. CASE item["reader"] # NoItem
      <4>1. i \in WorkItems /\ content'[i.buf] = content[i.buf]
        BY <1>4, <1>8, <1>a, <2>4, <3>2
      <4>2. HoldsBlock(i, 0)
        BY <1>0, <1>8, <2>4 DEF BlocksIntact
      <4> QED
        BY <1>1, <4>1, <4>2
    <3> QED
      BY <3>1, <3>2
  <2>5. \/ item'["reader"] \in {item["reader"], NoItem}
        \/ ReaderAcquire \/ \E n \in 1 .. BlockSize : ReaderReads(n)
    <3>1. CASE Local("reader")' = Local("reader") \/ Down("reader") \/ Started("reader")
      BY <3>1 DEF Local, Down, Started
    <3>2. CASE ReaderEof \/ ReaderReturn \/ ReaderPush
      BY <1>a, <3>2 DEF ReaderEof, ReaderReturn, ReaderPush, Release, pool
    <3> QED
      BY <3>1, <3>2, WorkerCases DEF ReaderMoves
  <2> QED
    BY <2>1, <2>2, <2>3, <2>4, <2>5
<1>9. ASSUME NEW i, i = item'["processor"], NEW k, k = stage' PROVE HoldsBlock(i, k)'
  <2>1. CASE ProcessorStage
    <3>1. /\ pc["processor"] = "process" /\ item["processor"] \in WorkItems
          /\ item'["processor"] = item["processor"] /\ stage' = stage + 1
      BY <1>a, <2>1, ItemTyped DEF ProcessorStage, Carrying, pool
    <3>2. /\ i \in WorkItems /\ i.buf \in Buffers /\ i.bytes \in 0 .. BlockSize
          /\ i.buf \in DOMAIN content
      BY <1>0, <1>9, <1>b, <3>1 DEF TypeOK
    <3>3. content'[i.buf] = [j \in 0 .. BlockSize - 1 |->
            IF j < i.bytes THEN <<content[i.buf][j][1], content[i.buf][j][2] + 1>>
            ELSE content[i.buf][j]]
      BY <1>9, <2>1, <3>1, <3>2 DEF ProcessorStage
    <3>4. ASSUME NEW j \in 0 .. i.bytes - 1 PROVE content'[i.buf][j] = <<i.offset + j, k>>
      <4>1. content[i.buf][j] = <<i.offset + j, stage>>
        BY <1>0, <1>9, <3>1, <3>4 DEF BlocksIntact, HoldsBlock
      <4>2. j \in 0 .. BlockSize - 1 /\ j < i.bytes
        BY <3>2, <3>4, SizeAssumption
      <4>3. content'[i.buf][j] = <<content[i.buf][j][1], content[i.buf][j][2] + 1>>
        BY <3>3, <4>2
      <4> QED
        BY <1>9, <3>1, <4>1, <4>3
    <3> QED
      BY <3>4 DEF HoldsBlock
  <2>2. CASE ProcessorPop /\ item'["processor"] \in Elements(r2pBuffer)
    <3>1. k = 0
      BY <1>9, <2>2 DEF ProcessorPop
    <3>2. i \in WorkItems /\ content'[i.buf] = content[i.buf] /\ HoldsBlock(i, 0)
      BY <1>0, <1>3, <1>9, <2>2 DEF BlocksIntact, Elements
    <3> QED
      BY <1>1, <3>1, <3>2
  <2>3. CASE item'["processor"] = NoItem
    BY <1>2, <1>9, <1>b, <2>3
  <2>4. CASE item'["processor"] = item["processor"] /\ item["processor"] # NoItem /\ ~ProcessorStage
    <3>1. i \in WorkItems /\ content'[i.buf] = content[i.buf]
      BY <1>4, <1>9, <1>a, <2>4
    <3>2. ~ProcessorPop
      <4>1. pc["processor"] # "pop"
        BY <1>0, <1>a, <2>4 DEF Ownership, Carrying
      <4> QED
        BY <4>1 DEF ProcessorPop
    <3>3. HoldsBlock(i, k)
      BY <1>0, <1>9, <2>4, <3>2, SharedSteps DEF BlocksIntact
    <3> QED
      BY <1>1, <3>1, <3>3
  <2> QED
    BY <2>1, <2>2, <2>3, <2>4, ItemsTravel
<1>10. ASSUME NEW i, i = item'["writer"] PROVE HoldsBlock(i, NumStages)'
  <2>1. CASE item'["writer"] \in Elements(p2wBuffer)
    <3>1. i \in WorkItems /\ content'[i.buf] = content[i.buf] /\ HoldsBlock(i, NumStages)
      BY <1>0, <1>3, <1>10, <2>1 DEF BlocksIntact, Elements
    <3> QED
      BY <1>1, <3>1
  <2>2. CASE item'["writer"] = NoItem
    BY <1>2, <1>10, <1>b, <2>2
  <2>3. CASE item'["writer"] = item["writer"] /\ item["writer"] # NoItem
    <3>1. i \in WorkItems /\ content'[i.buf] = content[i.buf]
      BY <1>4, <1>10, <1>a, <2>3
    <3>2. HoldsBlock(i, NumStages)
      BY <1>0, <1>10, <2>3 DEF BlocksIntact
    <3> QED
      BY <1>1, <3>1, <3>2
  <2> QED
    BY <2>1, <2>2, <2>3, ItemsTravel
<1>11. /\ \A i \in DOMAIN r2pBuffer' : HoldsBlock(r2pBuffer[i], 0)'
       /\ \A i \in DOMAIN p2wBuffer' : HoldsBlock(p2wBuffer[i], NumStages)'
  BY <1>6, <1>7 DEF Elements, HoldsBlock
<1>12. /\ HoldsBlock(item["reader"], 0)' /\ HoldsBlock(item["processor"], stage)'
       /\ HoldsBlock(item["writer"], NumStages)'
  BY <1>8, <1>9, <1>10 DEF HoldsBlock
<1> QED
  BY <1>11, <1>12 DEF BlocksIntact

(* A write extends the prefix by its bytes. *)
LEMMA WriteExtends ==
  ASSUME IInv, NEW n \in 1 .. BlockSize, WriterWrite(n)
  PROVE  /\ WrittenTo \in Nat /\ WrittenTo + n <= input_length /\ WrittenTo' = WrittenTo + n
         /\ output = Serial!Prefix(WrittenTo) /\ output' = Serial!Prefix(WrittenTo + n)
<1>0. TypeOK /\ Failures /\ Ownership /\ WriterInOrder /\ AllBefore /\ BlocksIntact /\ OutputIsPrefix
  BY DEF IInv, InOrder
<1> DEFINE i == item["writer"]
           at == i.offset + written_count
<1>1. /\ pc["writer"] = "write" /\ n <= i.bytes - written_count
      /\ written_count' = written_count + n /\ UNCHANGED bytes_written
      /\ output' = [p \in Positions |->
           IF p \in at .. at + n - 1 THEN content[i.buf][p - i.offset] ELSE output[p]]
  BY DEF WriterWrite, tally, result
<1>2. "writer" \in Workers /\ "writer" \in Threads /\ pc["writer"] \in Carrying["writer"]
  BY <1>1 DEF Workers, Threads, Carrying
<1>3. pc'["writer"] \in {"write", "count"}
  BY <1>0, <1>1, <1>2 DEF WriterWrite, Goto, TypeOK
<1>4. exc["writer"] = None /\ i # NoItem
  BY <1>0, <1>1, <1>2 DEF Failures, Failing, Ownership
<1>5. i.offset = bytes_written
  BY <1>0, <1>1, <1>4 DEF WriterInOrder, Carrying, Start, Count
<1>6. /\ i.bytes \in Nat /\ i.offset \in Nat /\ written_count \in Nat /\ n \in Nat
      /\ input_length \in Nat /\ file_offset \in Nat /\ file_offset <= input_length
      /\ bytes_written \in Nat
  BY <1>0, <1>2, ItemTyped, SizeAssumption DEF TypeOK
<1>7. i.offset + i.bytes <= file_offset
  BY <1>0, <1>4 DEF AllBefore, Before
<1>8. WrittenTo = at /\ WrittenTo' = at + n
  BY <1>1, <1>3, <1>5, <1>6 DEF WrittenTo, Carrying
<1>9. output = Serial!Prefix(at)
  BY <1>0, <1>4, <1>8 DEF OutputIsPrefix
<1>10. HoldsBlock(i, NumStages)
  BY <1>0 DEF BlocksIntact
<1> HIDE DEF i
<1>11. at \in Nat /\ at + n <= input_length
  BY <1>1, <1>6, <1>7
<1>12. ASSUME NEW p \in Positions
       PROVE  output'[p] = IF p < at + n THEN <<p, NumStages>> ELSE Serial!Nothing
  <2>1. p \in Nat
    BY <1>6 DEF Positions
  <2>2. CASE p \in at .. at + n - 1
    <3>1. p - i.offset \in 0 .. i.bytes - 1 /\ i.offset + (p - i.offset) = p /\ p < at + n
      BY <1>1, <1>6, <2>1, <2>2
    <3>2. content[i.buf][p - i.offset] = <<p, NumStages>>
      BY <1>10, <3>1 DEF HoldsBlock
    <3> QED
      BY <1>1, <2>2, <3>1, <3>2
  <2>3. CASE p \notin at .. at + n - 1
    <3>1. p < at \/ (~(p < at) /\ ~(p < at + n))
      BY <1>6, <1>11, <2>1, <2>3
    <3>2. p < at => p < at + n
      BY <1>6, <1>11, <2>1
    <3>3. output[p] = IF p < at THEN <<p, NumStages>> ELSE Serial!Nothing
      BY <1>9 DEF Serial!Prefix, Serial!Positions, Positions
    <3> HIDE DEF at
    <3> QED
      BY <1>1, <2>3, <3>1, <3>2, <3>3
  <2> QED
    BY <2>2, <2>3
<1>13. output' = Serial!Prefix(at + n)
  BY <1>1, <1>12 DEF Serial!Prefix, Serial!Positions, Positions
<1> QED
  BY <1>8, <1>9, <1>11, <1>13

LEMMA OutputIsPrefixStep == ASSUME IInv, Move PROVE OutputIsPrefix'
<1>0. TypeOK /\ Failures /\ Progress /\ OutputIsPrefix
  BY DEF IInv
<1>a. UNCHANGED input_length
  BY SharedSteps
<1>b. /\ "writer" \in Workers /\ "writer" \in Threads /\ pc \in [Threads -> Locations]
      /\ bytes_written \in Nat /\ input_length \in Nat
  BY <1>0 DEF TypeOK, Workers, Threads
<1>1. ASSUME NEW n \in 1 .. BlockSize, WriterWrite(n) PROVE OutputIsPrefix'
  <2>1. /\ WrittenTo \in Nat /\ WrittenTo + n <= input_length /\ WrittenTo' = WrittenTo + n
        /\ output' = Serial!Prefix(WrittenTo + n)
    BY <1>1, WriteExtends
  <2>2. PICK m : m = WrittenTo + n
    OBVIOUS
  <2>3. m \in 0 .. input_length /\ m = WrittenTo' /\ output' = Serial!Prefix(m)
    BY <1>b, <2>1, <2>2, SizeAssumption
  <2>4. output' = Serial!Prefix(m)'
    BY <1>a, <2>3 DEF Serial!Prefix, Serial!Positions, Serial!Nothing
  <2> QED
    BY <1>a, <2>3, <2>4 DEF OutputIsPrefix, Serial!Prefix
<1>2. ASSUME UNCHANGED output PROVE \E n \in 0 .. input_length' : output' = Serial!Prefix(n)'
  <2>1. PICK n \in 0 .. input_length : output = Serial!Prefix(n)
    BY <1>0 DEF OutputIsPrefix
  <2>2. output' = Serial!Prefix(n)'
    BY <1>2, <1>a, <2>1 DEF Serial!Prefix, Serial!Positions, Serial!Nothing
  <2> QED
    BY <1>a, <2>2
<1>3. ASSUME exc'["writer"] = None, ~\E n \in 1 .. BlockSize : WriterWrite(n)
      PROVE  exc["writer"] = None /\ WrittenTo' = WrittenTo
  <2> USE DEF Goto, failures, tally, result, locals
  <2>1. CASE WriterPop
    <3>1. /\ pc["writer"] = "pop" /\ pc'["writer"] = "write" /\ written_count' = 0
          /\ UNCHANGED <<exc, bytes_written>>
      BY <1>b, <2>1 DEF WriterPop
    <3> QED
      BY <1>3, <1>b, <3>1 DEF WrittenTo, Carrying
  <2>2. CASE WriterCounts
    <3>1. /\ pc["writer"] = "count" /\ pc'["writer"] = "pop"
          /\ bytes_written' = bytes_written + item["writer"].bytes /\ UNCHANGED exc
      BY <1>b, <2>2 DEF WriterCounts
    <3>2. written_count = item["writer"].bytes /\ item["writer"].bytes \in Nat
      BY <1>0, <1>b, <3>1, ItemTyped DEF Progress
    <3> QED
      BY <1>3, <1>b, <3>1, <3>2 DEF WrittenTo, Carrying
  <2>3. CASE WriterDrains
    <3>1. /\ pc["writer"] = "pop" /\ pc'["writer"] = "done" /\ UNCHANGED <<exc, bytes_written>>
      BY <1>b, <2>3 DEF WriterDrains
    <3> QED
      BY <1>3, <3>1 DEF WrittenTo, Carrying
  <2>4. CASE ~WriterPop /\ ~WriterCounts /\ ~WriterDrains
    <3>1. UNCHANGED <<bytes_written, written_count>>
      BY <1>3, <2>4, SharedSteps
    <3>2. Local("writer")' = Local("writer") \/ Started("writer")
      BY <1>3, <2>4, WorkerCases DEF WriterMoves, Down
    <3> QED
      BY <1>3, <3>1, <3>2 DEF Local, Started, FirstStep, WrittenTo, Carrying
  <2> QED
    BY <2>1, <2>2, <2>3, <2>4
<1>4. ASSUME ~\E n \in 1 .. BlockSize : WriterWrite(n) PROVE OutputIsPrefix'
  <2>1. UNCHANGED output
    BY <1>4, SharedSteps
  <2>2. ASSUME exc'["writer"] = None PROVE output' = Serial!Prefix(WrittenTo)'
    <3>1. output = Serial!Prefix(WrittenTo) /\ WrittenTo' = WrittenTo
      BY <1>0, <1>3, <1>4, <2>2 DEF OutputIsPrefix
    <3> HIDE DEF WrittenTo
    <3> QED
      BY <1>a, <2>1, <3>1 DEF Serial!Prefix, Serial!Positions, Serial!Nothing
  <2> QED
    BY <1>2, <2>1, <2>2 DEF OutputIsPrefix
<1> QED
  BY <1>1, <1>4

-----------------------------------------------------------------------------
(* The invariant. *)

LEMMA InitIInv == Init => IInv
<1> SUFFICES ASSUME Init PROVE IInv
  OBVIOUS
<1> USE DEF Init, R2P!Init, P2W!Init
<1>a. /\ "reader" \in Workers /\ "processor" \in Workers /\ "writer" \in Workers
      /\ "main" \in Threads /\ Workers \subseteq Threads /\ "main" \notin Workers
      /\ "start_writer" \in Locations /\ "unstarted" \in Locations
  BY DEF Workers, Threads, Locations, StartAt
<1>b. /\ pc["main"] = "start_writer" /\ \A w \in Workers : pc[w] = "unstarted" /\ item[w] = NoItem
  BY <1>a
<1>c. \A t \in Threads : exc[t] = None
  OBVIOUS
<1>d. /\ r2pBuffer = <<>> /\ p2wBuffer = <<>> /\ r2pState = "open" /\ p2wState = "open"
      /\ NoItem.buf = NoBuffer /\ NoItem.bytes = 0
      /\ Count("reader") = <<0, 0>> /\ Count("processor") = <<0, 0>> /\ Count("writer") = <<0, 0>>
  BY <1>a DEF NoItem, Count
<1>1. TypeOK
  <2>1. Garbage \in Bytes
    <3>1. -1 \in -1 .. MaxFileLen - 1 /\ 0 \in 0 .. NumStages
      BY SizeAssumption
    <3> QED
      BY <3>1 DEF Garbage, Bytes
  <2>2. content \in [Buffers -> [0 .. BlockSize - 1 -> Bytes]] /\ output \in [Positions -> Bytes]
    BY <2>1
  <2>3. /\ pc \in [Threads -> Locations] /\ exc \in [Threads -> Errors \cup {None}]
        /\ item \in [Workers -> WorkItems \cup {NoItem}]
        /\ countBlocks \in [Workers -> Nat] /\ countBytes \in [Workers -> Nat]
    BY <1>a
  <2>4. /\ file_offset \in 0 .. input_length /\ block_index \in Nat
        /\ stage \in 0 .. NumStages /\ written_count \in 0 .. BlockSize
        /\ blocks_written \in Nat /\ bytes_written \in Nat
    BY SizeAssumption
  <2>5. r2pBuffer \in Seq(WorkItems) /\ p2wBuffer \in Seq(WorkItems)
    OBVIOUS
  <2>6. /\ {r2pState, p2wState} \subseteq {"open", "closed", "failed"}
        /\ {r2pFailure, p2wFailure} \subseteq Errors \cup {None}
        /\ first_failure \in Errors \cup {None} /\ outcome \in Errors \cup {"running", "returned"}
        /\ free \subseteq Buffers /\ input_length \in 0 .. MaxFileLen
    OBVIOUS
  <2> QED
    BY <2>2, <2>3, <2>4, <2>5, <2>6 DEF TypeOK
<1>2. Standing
  BY <1>a, <1>b, <1>c DEF Standing, Starting, Ended, Joining
<1>3. Failures
  BY <1>a, <1>b, <1>c, <1>d DEF Failures, Failing, None, Threads
<1>4. Closing
  BY <1>a, <1>b, <1>c, <1>d DEF Closing
<1>5. Ownership
  <2>1. Queued = {} /\ Distinct(r2pBuffer) /\ Distinct(p2wBuffer)
    BY <1>d DEF Queued, QueueBuffers, Distinct
  <2>2. \A w \in Workers : "unstarted" \notin Carrying[w]
    BY DEF Workers, Carrying
  <2>3. free = (Buffers \ Queued) \ {item[w].buf : w \in Workers}
    BY <1>b, <1>d, <2>1, BufferAssumption
  <2> QED
    BY <1>b, <2>1, <2>2, <2>3 DEF Ownership, Queued
<1>6. InOrder
  <2>1. ReaderInOrder
    BY <1>a, <1>b, <1>d, SizeAssumption DEF ReaderInOrder, Carrying
  <2>2. ProcessorInOrder
    BY <1>a, <1>b, <1>d DEF ProcessorInOrder, ProcessorPops, Chain, EndOf
  <2>3. WriterInOrder
    BY <1>a, <1>b, <1>d DEF WriterInOrder, WriterPops, ProcessorPushes, Chain, EndOf, Carrying
  <2>4. AllBefore
    BY <1>a, <1>b, <1>d DEF AllBefore
  <2> QED
    BY <2>1, <2>2, <2>3, <2>4 DEF InOrder
<1>7. Progress
  BY <1>a, <1>b DEF Progress
<1>8. BlocksIntact
  BY <1>a, <1>b, <1>d DEF BlocksIntact, HoldsBlock
<1>9. OutputIsPrefix
  <2>1. input_length \in Nat
    OBVIOUS
  <2>2. WrittenTo = 0
    BY <1>a, <1>b DEF WrittenTo, Carrying
  <2>3. output = Serial!Prefix(0)
    BY <2>1 DEF Serial!Prefix, Serial!Positions, Serial!Nothing, Positions, Garbage
  <2> QED
    BY <2>1, <2>2, <2>3 DEF OutputIsPrefix
<1> QED
  BY <1>1, <1>2, <1>3, <1>4, <1>5, <1>6, <1>7, <1>8, <1>9 DEF IInv

(* In every state a run of PipelineExecutor::run can reach, whatever the   *)
(* interleaving of its threads and whichever reads, stages, writes and     *)
(* thread starts fail, the inductive invariant holds.                      *)
THEOREM Invariance == Spec => []IInv
<1>1. ASSUME IInv, [Next]_vars PROVE IInv'
  <2>1. Move
    BY <1>1, Cases
  <2>2. InOrder'
    BY <1>1, <2>1, ReaderInOrderStep, ProcessorInOrderStep, WriterInOrderStep, AllBeforeStep
    DEF InOrder
  <2> QED
    BY <1>1, <2>1, <2>2, TypeStep, StandingStep, FailuresStep, ClosingStep, OwnershipStep,
       ProgressStep, BlocksIntactStep, OutputIsPrefixStep
    DEF IInv
<1> QED
  BY <1>1, InitIInv, PTL DEF Spec

(* Every variable of the executor keeps its type; in particular the stage  *)
(* and write positions stay within their block and the offset within the   *)
(* file.                                                                   *)
THEOREM TypeCorrect == Spec => []TypeOK
<1>1. IInv => TypeOK
  BY DEF IInv
<1> QED
  BY <1>1, Invariance, PTL

-----------------------------------------------------------------------------
(* What follows from the invariant. *)

(* A queue that continues another one. *)
LEMMA QueueConcat ==
  ASSUME NEW s \in Seq(WorkItems), NEW t \in Seq(WorkItems), Distinct(s), Distinct(t),
         QueueBuffers(s) \cap QueueBuffers(t) = {}
  PROVE  /\ s \o t \in Seq(WorkItems) /\ Distinct(s \o t)
         /\ QueueBuffers(s \o t) = QueueBuffers(s) \cup QueueBuffers(t)
<1> DEFINE r == s \o t
           m == Len(s)
           n == Len(t)
<1>1. /\ m \in Nat /\ n \in Nat /\ DOMAIN s = 1 .. m /\ DOMAIN t = 1 .. n
      /\ r \in Seq(WorkItems) /\ Len(r) = m + n /\ DOMAIN r = 1 .. m + n
      /\ \A i \in 1 .. m + n : r[i] = IF i <= m THEN s[i] ELSE t[i - m]
  BY ConcatProperties
<1> HIDE DEF r, m, n
<1>2. \A i \in 1 .. m : i \in 1 .. m + n /\ r[i] = s[i]
  BY <1>1
<1>3. \A j \in 1 .. n : j + m \in 1 .. m + n /\ r[j + m] = t[j]
  <2>1. ASSUME NEW j \in 1 .. n PROVE j + m \in 1 .. m + n /\ ~(j + m <= m) /\ (j + m) - m = j
    BY <1>1
  <2> QED
    BY <1>1, <2>1
<1>4. ASSUME NEW i \in 1 .. m + n, i \notin 1 .. m PROVE \E j \in 1 .. n : i = j + m
  <2>1. i - m \in 1 .. n /\ i = (i - m) + m
    BY <1>1, <1>4
  <2> QED
    BY <2>1
<1>5. QueueBuffers(r) = QueueBuffers(s) \cup QueueBuffers(t)
  <2>1. ASSUME NEW b \in QueueBuffers(r) PROVE b \in QueueBuffers(s) \cup QueueBuffers(t)
    <3>1. PICK i \in 1 .. m + n : b = r[i].buf
      BY <1>1 DEF QueueBuffers
    <3>2. CASE i \in 1 .. m
      BY <1>1, <1>2, <3>1, <3>2 DEF QueueBuffers
    <3>3. CASE i \notin 1 .. m
      <4>1. PICK j \in 1 .. n : i = j + m
        BY <1>4, <3>3
      <4>2. b = t[j].buf /\ j \in DOMAIN t
        BY <1>1, <1>3, <3>1, <4>1
      <4> QED
        BY <4>2 DEF QueueBuffers
    <3> QED
      BY <3>2, <3>3
  <2>2. QueueBuffers(s) \subseteq QueueBuffers(r)
    BY <1>1, <1>2 DEF QueueBuffers
  <2>3. QueueBuffers(t) \subseteq QueueBuffers(r)
    <3>1. ASSUME NEW j \in 1 .. n PROVE t[j].buf \in QueueBuffers(r)
      <4>1. j + m \in DOMAIN r /\ r[j + m] = t[j]
        BY <1>1, <1>3
      <4> QED
        BY <4>1 DEF QueueBuffers
    <3> QED
      BY <1>1, <3>1 DEF QueueBuffers
  <2> QED
    BY <2>1, <2>2, <2>3
<1>6. ASSUME NEW i \in 1 .. m + n, NEW j \in 1 .. m + n, r[i].buf = r[j].buf PROVE i = j
  <2>1. \A k \in 1 .. m : s[k].buf \in QueueBuffers(s)
    BY <1>1 DEF QueueBuffers
  <2>2. \A k \in 1 .. n : t[k].buf \in QueueBuffers(t)
    BY <1>1 DEF QueueBuffers
  <2>3. CASE i \in 1 .. m /\ j \in 1 .. m
    BY <1>1, <1>2, <1>6, <2>3 DEF Distinct
  <2>4. CASE i \in 1 .. m /\ j \notin 1 .. m
    <3>1. PICK k \in 1 .. n : j = k + m
      BY <1>4, <2>4
    <3>2. r[i].buf \in QueueBuffers(s) /\ r[j].buf \in QueueBuffers(t)
      BY <1>2, <1>3, <2>1, <2>2, <2>4, <3>1
    <3> QED
      BY <1>6, <3>2
  <2>5. CASE i \notin 1 .. m /\ j \in 1 .. m
    <3>1. PICK k \in 1 .. n : i = k + m
      BY <1>4, <2>5
    <3>2. r[j].buf \in QueueBuffers(s) /\ r[i].buf \in QueueBuffers(t)
      BY <1>2, <1>3, <2>1, <2>2, <2>5, <3>1
    <3> QED
      BY <1>6, <3>2
  <2>6. CASE i \notin 1 .. m /\ j \notin 1 .. m
    <3>1. PICK k \in 1 .. n : i = k + m
      BY <1>4, <2>6
    <3>2. PICK l \in 1 .. n : j = l + m
      BY <1>4, <2>6
    <3>3. t[k].buf = t[l].buf
      BY <1>3, <1>6, <3>1, <3>2
    <3>4. k = l
      BY <1>1, <3>3 DEF Distinct
    <3> QED
      BY <3>1, <3>2, <3>4
  <2> QED
    BY <2>3, <2>4, <2>5, <2>6
<1>7. Distinct(r)
  BY <1>1, <1>6 DEF Distinct
<1> QED
  BY <1>1, <1>5, <1>7 DEF r

LEMMA OwnedByInvariant == IInv => BuffersOwnedOnce
<1> SUFFICES ASSUME IInv PROVE BuffersOwnedOnce
  OBVIOUS
<1>0. /\ Ownership /\ r2pBuffer \in Seq(WorkItems) /\ p2wBuffer \in Seq(WorkItems)
      /\ item \in [Workers -> WorkItems \cup {NoItem}]
      /\ "reader" \in Workers /\ "processor" \in Workers /\ "writer" \in Workers
      /\ Workers = {"reader", "processor", "writer"}
  BY DEF IInv, TypeOK, Workers
<1>1. ASSUME NEW w \in Workers
      PROVE  /\ Owned(w) \in Seq(WorkItems) /\ Distinct(Owned(w))
             /\ QueueBuffers(Owned(w)) = IF item[w] = NoItem THEN {} ELSE {item[w].buf}
  <2>1. CASE item[w] = NoItem
    BY <2>1 DEF Owned, Distinct, QueueBuffers
  <2>2. CASE item[w] # NoItem
    <3>1. PICK i \in WorkItems : i = item[w]
      BY <1>0, <2>2
    <3>2. Owned(w) = <<i>>
      BY <2>2, <3>1 DEF Owned
    <3>3. <<i>> \in Seq(WorkItems) /\ DOMAIN <<i>> = {1} /\ <<i>>[1] = i
      OBVIOUS
    <3>4. QueueBuffers(<<i>>) = {i.buf} /\ Distinct(<<i>>)
      BY <3>3 DEF QueueBuffers, Distinct
    <3> QED
      BY <2>2, <3>1, <3>2, <3>3, <3>4
  <2> QED
    BY <2>1, <2>2
<1> DEFINE O(w) == QueueBuffers(Owned(w))
<1>2. /\ Distinct(r2pBuffer) /\ Distinct(p2wBuffer)
      /\ QueueBuffers(r2pBuffer) \cap QueueBuffers(p2wBuffer) = {}
      /\ \A w \in Workers : /\ O(w) \cap QueueBuffers(r2pBuffer) = {}
                            /\ O(w) \cap QueueBuffers(p2wBuffer) = {}
      /\ \A v, w \in Workers : v # w => O(v) \cap O(w) = {}
  BY <1>0, <1>1 DEF Ownership, Queued
<1> DEFINE s1 == Owned("writer") \o p2wBuffer
           s2 == s1 \o Owned("processor")
           s3 == s2 \o r2pBuffer
           s4 == s3 \o Owned("reader")
<1>3. /\ s1 \in Seq(WorkItems) /\ Distinct(s1)
      /\ QueueBuffers(s1) = O("writer") \cup QueueBuffers(p2wBuffer)
  BY <1>0, <1>1, <1>2, QueueConcat
<1> HIDE DEF s1
<1>4. /\ s2 \in Seq(WorkItems) /\ Distinct(s2)
      /\ QueueBuffers(s2) = QueueBuffers(s1) \cup O("processor")
  <2>1. QueueBuffers(s1) \cap QueueBuffers(Owned("processor")) = {}
    BY <1>0, <1>2, <1>3
  <2> QED
    BY <1>0, <1>1, <1>3, <2>1, QueueConcat
<1> HIDE DEF s2
<1>5. /\ s3 \in Seq(WorkItems) /\ Distinct(s3)
      /\ QueueBuffers(s3) = QueueBuffers(s2) \cup QueueBuffers(r2pBuffer)
  <2>1. QueueBuffers(s2) \cap QueueBuffers(r2pBuffer) = {}
    BY <1>0, <1>2, <1>3, <1>4
  <2> QED
    BY <1>0, <1>2, <1>4, <2>1, QueueConcat
<1> HIDE DEF s3
<1>6. /\ s4 \in Seq(WorkItems) /\ Distinct(s4)
      /\ QueueBuffers(s4) = QueueBuffers(s3) \cup O("reader")
  <2>1. QueueBuffers(s3) \cap QueueBuffers(Owned("reader")) = {}
    BY <1>0, <1>2, <1>3, <1>4, <1>5
  <2> QED
    BY <1>0, <1>1, <1>5, <2>1, QueueConcat
<1>7. InFlight = s4
  BY DEF InFlight, s1, s2, s3
<1>8. QueueBuffers(InFlight) = Queued \cup O("writer") \cup O("processor") \cup O("reader")
  BY <1>3, <1>4, <1>5, <1>6, <1>7 DEF Queued
<1> HIDE DEF s4
<1>9. free = Buffers \ QueueBuffers(InFlight)
  <2>1. NoItem.buf \notin Buffers
    BY BufferAssumption DEF NoItem
  <2>2. \A b \in Buffers : \A w \in Workers : b \in O(w) <=> b = item[w].buf
    BY <1>1, <2>1
  <2> HIDE DEF O
  <2>3. free = (Buffers \ Queued) \ {item[w].buf : w \in Workers}
    BY <1>0 DEF Ownership
  <2>4. \A b \in Buffers : b \in {item[w].buf : w \in Workers} <=>
                             b \in O("writer") \cup O("processor") \cup O("reader")
    BY <1>0, <2>2
  <2> QED
    BY <1>8, <2>3, <2>4
<1> QED
  BY <1>6, <1>7, <1>9 DEF BuffersOwnedOnce, Distinct

(* Every buffer of the pool is free or owned by exactly one work item, in  *)
(* a worker's hands or in a queue: however pushes, pops, exceptions and    *)
(* failed queues interleave, none is lost, returned twice or shared.       *)
THEOREM OwnedOnce == Spec => []BuffersOwnedOnce
  BY OwnedByInvariant, Invariance, PTL

(* Reused buffers never leak one block's bytes into another: each item     *)
(* finds its own bytes, processed as far as its place in the pipeline says.*)
THEOREM BlocksKept == Spec => []BlocksIntact
<1>1. IInv => BlocksIntact
  BY DEF IInv
<1> QED
  BY <1>1, Invariance, PTL

(* The states in which every worker has been joined. *)
LEMMA AllJoined ==
  ASSUME IInv, pc["main"] \in {"finish", "done"}
  PROVE  /\ \A w \in Workers : pc[w] \in Ended /\ item[w] = NoItem
         /\ r2pBuffer = <<>> /\ p2wBuffer = <<>>
         /\ first_failure # None => p2wState = "failed"
         /\ first_failure = None =>
              /\ \A w \in Workers : pc[w] = "done" /\ exc[w] = None
              /\ r2pState = "closed" /\ p2wState = "closed"
<1>0. TypeOK /\ Standing /\ Failures /\ Closing /\ Ownership
  BY DEF IInv
<1>a. /\ "reader" \in Workers /\ "processor" \in Workers /\ "writer" \in Workers
      /\ Threads = Workers \cup {"main"} /\ Workers = {"reader", "processor", "writer"}
  BY DEF Workers, Threads
<1>b. r2pState \in {"open", "closed", "failed"} /\ p2wState \in {"open", "closed", "failed"}
  BY <1>0 DEF TypeOK
<1>1. \A w \in Workers : pc[w] \in Ended
  BY <1>0, <1>a DEF Standing, Joining
<1>2. \A w \in Workers : item[w] = NoItem
  <2>1. \A w \in Workers : pc[w] \notin Carrying[w]
    BY <1>1 DEF Ended, Carrying, Workers
  <2> QED
    BY <1>0, <2>1 DEF Ownership
<1>3. \A t \in Threads : pc[t] \notin Failing
  BY <1>1, <1>a DEF Ended, Failing
<1>4. ASSUME NEW t \in Threads, exc[t] # None
      PROVE  p2wState = "failed" /\ exc[t] = first_failure
  BY <1>0, <1>3, <1>4 DEF Failures, Failing
<1>5. first_failure # None => p2wState = "failed"
  BY <1>0, <1>4 DEF Failures
<1>6. ASSUME first_failure = None
      PROVE  /\ \A w \in Workers : pc[w] = "done" /\ exc[w] = None
             /\ r2pState = "closed" /\ p2wState = "closed"
             /\ r2pBuffer = <<>> /\ p2wBuffer = <<>>
  <2>1. \A t \in Threads : exc[t] = None
    BY <1>4, <1>6
  <2>2. \A w \in Workers : pc[w] # "unstarted"
    BY <1>0, <1>a, <2>1 DEF Standing, Starting
  <2>3. \A w \in Workers : pc[w] = "done"
    BY <1>1, <2>2 DEF Ended
  <2>4. r2pState # "failed" /\ p2wState # "failed"
    BY <1>0, <1>6 DEF Failures
  <2> QED
    BY <1>0, <1>a, <1>b, <2>1, <2>3, <2>4 DEF Closing
<1>7. first_failure # None => r2pBuffer = <<>> /\ p2wBuffer = <<>>
  BY <1>0, <1>5 DEF Failures
<1> QED
  BY <1>1, <1>2, <1>5, <1>6, <1>7

(* ... and nothing failed: everyone has counted the whole file. *)
LEMMA AllCounted ==
  ASSUME IInv, pc["main"] \in {"finish", "done"}, first_failure = None
  PROVE  /\ bytes_written = input_length
         /\ \A w \in Workers : countBytes[w] = input_length /\ countBlocks[w] = blocks_written
<1>0. Closing /\ ReaderInOrder /\ ProcessorInOrder /\ WriterInOrder
  BY DEF IInv, InOrder
<1>1. /\ \A w \in Workers : pc[w] = "done" /\ exc[w] = None
      /\ r2pState = "closed" /\ p2wState = "closed" /\ r2pBuffer = <<>> /\ p2wBuffer = <<>>
  BY AllJoined
<1>a. /\ "reader" \in Workers /\ "processor" \in Workers /\ "writer" \in Workers
      /\ Workers = {"reader", "processor", "writer"}
  BY DEF Workers
<1>2. file_offset = input_length
  BY <1>0, <1>1 DEF Closing
<1>3. Count("reader") = <<block_index, file_offset>>
  BY <1>0, <1>1, <1>a DEF ReaderInOrder
<1>4. Count("processor") = <<block_index, file_offset>>
  BY <1>0, <1>1, <1>a DEF ProcessorInOrder, ProcessorPops, EndOf
<1>5. Count("writer") = Count("processor") /\ Count("writer") = <<blocks_written, bytes_written>>
  BY <1>0, <1>1, <1>a DEF WriterInOrder, WriterPops, ProcessorPushes, EndOf, Carrying
<1> QED
  BY <1>2, <1>3, <1>4, <1>5, <1>a DEF Count

(* run() returns normally only after the whole file has been read,         *)
(* processed, written and counted, with both queues closed and drained.    *)
THEOREM SuccessComplete == Spec => []SuccessIsComplete
<1>1. ASSUME IInv, outcome = "returned" PROVE pc["main"] = "done" /\ first_failure = None
  BY <1>1 DEF IInv, TypeOK, Failures, Errors, None
<1>2. IInv => SuccessIsComplete
  BY <1>1, AllJoined, AllCounted DEF SuccessIsComplete
<1> QED
  BY <1>2, Invariance, PTL

(* Whichever threads fail, and however their three-step fail_all calls     *)
(* interleave, both queues carry the first recorded failure and run()      *)
(* rethrows that one.                                                      *)
THEOREM FirstFailure == Spec => []FirstFailureWins
<1>1. ASSUME IInv PROVE FirstFailureWins
  <2>1. Failures
    BY <1>1 DEF IInv
  <2>2. ASSUME pc["main"] = "done", outcome # "returned"
        PROVE  outcome = first_failure /\ p2wState = "failed"
    <3>1. outcome = first_failure /\ first_failure # None
      BY <2>1, <2>2 DEF Failures
    <3> QED
      BY <1>1, <2>2, <3>1, AllJoined
  <2>3. ASSUME pc["main"] = "done", outcome = "returned" PROVE first_failure = None
    BY <1>1, <2>1, <2>3 DEF IInv, TypeOK, Failures, Errors, None
  <2> QED
    BY <2>1, <2>2, <2>3 DEF Failures, FirstFailureWins
<1> QED
  BY <1>1, Invariance, PTL

(* When run() destroys the queues and the pool every lease has been        *)
(* returned, on the normal path and on every failure path: the assertion   *)
(* in ~AlignedBufferPool holds.                                            *)
THEOREM AllReturned == Spec => []LeasesReturned
<1>1. ASSUME IInv, pc["main"] \in {"finish", "done"}
      PROVE  free = Buffers /\ r2pBuffer = <<>> /\ p2wBuffer = <<>>
  <2>1. /\ r2pBuffer = <<>> /\ p2wBuffer = <<>> /\ \A w \in Workers : item[w] = NoItem
    BY <1>1, AllJoined
  <2>2. Queued = {}
    BY <2>1 DEF Queued, QueueBuffers
  <2>3. \A w \in Workers : item[w].buf \notin Buffers
    BY <2>1, BufferAssumption DEF NoItem
  <2>4. free = (Buffers \ Queued) \ {item[w].buf : w \in Workers}
    BY <1>1 DEF IInv, Ownership
  <2> QED
    BY <2>1, <2>2, <2>3, <2>4
<1>2. IInv => LeasesReturned
  BY <1>1 DEF LeasesReturned
<1> QED
  BY <1>2, Invariance, PTL

(* No thread throws the "queue closed" logic error, and the writer's       *)
(* counts cannot overflow: the guards in the loops are never met.          *)
THEOREM GuardsNotMet == Spec => []GuardsUnreachable
<1>1. IInv => GuardsUnreachable
  BY CountsFit DEF GuardsUnreachable, IInv, Failures
<1> QED
  BY <1>1, Invariance, PTL

-----------------------------------------------------------------------------
(* The refinement of the serial reference. *)

LEMMA InitRefines == Init => Serial!Init
<1> SUFFICES ASSUME Init PROVE Serial!Init
  OBVIOUS
<1>1. input_length \in Nat
  BY SizeAssumption DEF Init
<1>2. output = Serial!Prefix(0)
  BY <1>1 DEF Init, Serial!Prefix, Serial!Positions, Serial!Nothing, Positions, Garbage
<1> QED
  BY <1>1, <1>2 DEF Init, Serial!Init

(* Only Finish sets the outcome. *)
LEMMA OutcomeSteps == ASSUME Move PROVE UNCHANGED outcome \/ Finish
  BY DEF Move, MainStep, FailAllStep, Thrown, ReaderAcquire, ReaderReads, ReaderEof, ReaderReturn,
         ReaderPush, ProcessorPop, ProcessorDrains, ProcessorClose, ProcessorStage, ProcessorPush,
         WriterPop, WriterDrains, WriterWrite, WriterCounts, FailAllRecord, FailAllR2P,
         FailAllP2W, StartThread, StartThreadFails, Join, vars, run

LEMMA StepRefines == ASSUME IInv, Move PROVE Serial!Next \/ UNCHANGED Serial!serialVars
<1>0. TypeOK /\ Standing /\ Failures /\ OutputIsPrefix
  BY DEF IInv
<1>a. UNCHANGED input_length
  BY SharedSteps
<1>b. "running" \notin Errors /\ "returned" \notin Errors /\ "writer" \in Workers
  BY DEF Errors, Workers
<1>1. ASSUME NEW n \in 1 .. BlockSize, WriterWrite(n) PROVE Serial!Extend
  <2>1. pc["writer"] = "write" /\ UNCHANGED outcome
    BY <1>1 DEF WriterWrite, run
  <2>2. pc["main"] # "done"
    BY <1>0, <2>1 DEF Standing, Ended
  <2>3. outcome = "running"
    BY <1>0, <2>2 DEF Failures
  <2>4. /\ WrittenTo \in Nat /\ WrittenTo + n <= input_length
        /\ output = Serial!Prefix(WrittenTo) /\ output' = Serial!Prefix(WrittenTo + n)
    BY <1>1, WriteExtends
  <2>5. PICK k : k = WrittenTo
    OBVIOUS
  <2>6. input_length \in Nat
    BY <1>0 DEF TypeOK
  <2>7. k \in 0 .. input_length /\ k + n \in 0 .. input_length /\ k < k + n
    BY <2>4, <2>5, <2>6
  <2>8. \E l, m \in 0 .. input_length : l < m /\ output = Serial!Prefix(l) /\ output' = Serial!Prefix(m)
    BY <2>4, <2>5, <2>7
  <2> QED
    BY <1>a, <2>1, <2>3, <2>8 DEF Serial!Extend
<1>2. ASSUME Finish PROVE Serial!Return \/ Serial!Throw
  <2>1. /\ pc["main"] = "finish" /\ UNCHANGED output
        /\ outcome' = IF first_failure = None THEN "returned" ELSE first_failure
    BY <1>2 DEF Finish, data
  <2>2. outcome = "running"
    BY <1>0, <2>1 DEF Failures
  <2>3. CASE first_failure = None
    <3>1. pc["writer"] = "done" /\ exc["writer"] = None
      BY <1>b, <2>1, <2>3, AllJoined
    <3>2. bytes_written = input_length /\ bytes_written \in Nat
      BY <1>0, <2>1, <2>3, AllCounted DEF TypeOK
    <3>3. WrittenTo = input_length
      BY <3>1, <3>2 DEF WrittenTo, Carrying
    <3>4. output = Serial!Prefix(input_length)
      BY <1>0, <3>1, <3>3 DEF OutputIsPrefix
    <3> QED
      BY <1>a, <2>1, <2>2, <2>3, <3>4 DEF Serial!Return
  <2>4. CASE first_failure # None
    <3>1. outcome' \notin {"running", "returned"}
      BY <1>0, <1>b, <2>1, <2>4 DEF TypeOK
    <3> QED
      BY <1>a, <2>1, <2>2, <3>1 DEF Serial!Throw
  <2> QED
    BY <2>3, <2>4
<1>3. ASSUME ~Finish, ~\E n \in 1 .. BlockSize : WriterWrite(n) PROVE UNCHANGED Serial!serialVars
  <2>1. UNCHANGED <<input_length, output, outcome>>
    BY <1>3, <1>a, SharedSteps, OutcomeSteps
  <2> QED
    BY <2>1 DEF Serial!serialVars
<1> QED
  BY <1>1, <1>2, <1>3 DEF Serial!Next

(* The threaded pipeline implements the one-thread reference loop: at      *)
(* every moment the output file is a fully processed prefix of the input,  *)
(* it only grows, and run() returns only when it is the whole input.       *)
THEOREM RefinesSerial == Spec => ImplementsSerial
<1>1. IInv /\ [Next]_vars => [Serial!Next]_Serial!serialVars
  BY Cases, StepRefines
<1> QED
  BY <1>1, InitRefines, Invariance, PTL DEF Spec, ImplementsSerial, Serial!Spec
=============================================================================
