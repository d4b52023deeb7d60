--------------------------- MODULE PipelineSetup ---------------------------
(***************************************************************************)
(* Everything that happens before a run: PipelineConfig::validate and the  *)
(* allocations that rely on it, BackendFactory, the registration of        *)
(* metrics, Pipeline::add_stage with its rollback, the constructors of     *)
(* PipelineExecutor, the single-use rule of run(), and what the built-in   *)
(* stages do to a block.  One thread makes the calls, one after the other. *)
(*                                                                         *)
(* last holds the latest call, its arguments and its outcome.  Calls that  *)
(* depend on their arguments alone are made once, before any other.        *)
(***************************************************************************)
EXTENDS Integers, Sequences, FiniteSets, SequencesExt

CONSTANTS SizeMax,        \* the largest size_t
          PointerSize,    \* sizeof(void*)
          MaxDimension,   \* bound: buffers and queue slots asked for
          ByteMax,        \* the largest byte, in place of 255
          MaxBlock,       \* bound: bytes in a block
          MaxMetrics,     \* kMaxMetricCount
          Pipelines,
          Instrumented,   \* the pipelines that were given the registry
          Stages,         \* the stages that are added, by their name
          MaxStages,      \* bound: stages of all pipelines
          Executors

(* Runtime metrics of an executor, one of each kind in place of twelve. *)
Kinds == {"counter", "gauge", "histogram"}
RuntimeNames == {<<"pipeline", 0, kind>> : kind \in Kinds}
RuntimeMetrics == [n \in RuntimeNames |-> n[3]]
InflightGauge == <<"pipeline", 0, "gauge">>
None == <<>>

(* Names a caller registers by itself: the empty one, a fresh one, and one *)
(* that an executor or a stage may want.                                   *)
CallerNames ==
  {<<"", 0, "">>, <<"caller", 0, "">>, <<"stage", 1, "normalize">>, InflightGauge}

ASSUME SetupAssumption ==
  /\ {SizeMax, PointerSize, ByteMax, MaxMetrics} \subseteq Nat \ {0}
  /\ {MaxDimension, MaxBlock} \subseteq Nat
  /\ Cardinality(RuntimeNames) <= MaxMetrics
  /\ Instrumented \subseteq Pipelines

VARIABLES
  registry,               \* registered name -> [kind, by]
  stages,                 \* of each pipeline: [stage, latency]
  executor,               \* of each executor: [pc, pipeline, metrics]
  touched,                \* gauges whose watermark is no longer zero
  last

setupVars == <<registry, stages, executor, touched, last>>

NoExecutor == [pc |-> "none"]
Called(op, arguments, outcome) ==
  last' = [op |-> op, arguments |-> arguments, outcome |-> outcome]

SetupInit ==
  /\ registry = [n \in {} |-> None]
  /\ stages = [p \in Pipelines |-> <<>>]
  /\ executor = [e \in Executors |-> NoExecutor]
  /\ touched = {}
  /\ last = [op |-> "none"]

First == last.op = "none"

-----------------------------------------------------------------------------
(* PipelineConfig *)

Configs ==
  [block_size : 0 .. SizeMax, buffer_alignment : 0 .. SizeMax,
   max_inflight_buffers : 0 .. MaxDimension, queue_depth : 0 .. MaxDimension]

(* Pow2[k] is 2^k; Bit(n, k) is bit k of a size_t. *)
Pow2[k \in 0 .. SizeMax] == IF k = 0 THEN 1 ELSE 2 * Pow2[k - 1]
Bit(n, k) == (n \div Pow2[k]) % 2

(* n & (n - 1) is zero: n and n - 1 have no bit in common. *)
is_power_of_two(n) ==
  n # 0 /\ \A k \in 0 .. SizeMax : Bit(n, k) = 0 \/ Bit(n - 1, k) = 0

(* Mutant: the product is compared after it has wrapped around. *)
validate_wrapped(c) ==
  /\ c.block_size # 0 /\ c.max_inflight_buffers # 0 /\ c.queue_depth # 0
  /\ is_power_of_two(c.buffer_alignment) /\ c.buffer_alignment % PointerSize = 0
  /\ c.block_size % c.buffer_alignment = 0
  /\ (c.block_size * c.max_inflight_buffers) % (SizeMax + 1) <= SizeMax

(* PipelineConfig::validate does not throw. *)
validate(c) ==
  /\ c.block_size # 0 /\ c.max_inflight_buffers # 0 /\ c.queue_depth # 0
  /\ is_power_of_two(c.buffer_alignment) /\ c.buffer_alignment % PointerSize = 0
  /\ c.block_size % c.buffer_alignment = 0
  /\ c.block_size <= SizeMax \div c.max_inflight_buffers

(* AlignedBuffer: the allocation of one buffer is accepted. *)
validate_allocation(size, alignment) ==
  /\ size # 0
  /\ is_power_of_two(alignment) /\ alignment % PointerSize = 0
  /\ size % alignment = 0

(* buffer_pool_bytes: validate() throws, or the product is returned. *)
BufferPoolBytes(c) ==
  /\ First
  /\ Called("config", c,
       IF validate(c) THEN (c.block_size * c.max_inflight_buffers) % (SizeMax + 1)
                      ELSE -1)
  /\ UNCHANGED <<registry, stages, executor, touched>>

-----------------------------------------------------------------------------
(* BackendFactory *)

(* The entries that the kernel grants a ring at most (32768 in fact), and  *)
(* that the allocator grants a thread pool.                                *)
MaxEntries == 1

BackendConfigs ==
  [kind : {"auto", "uring", "thread_pool", "sync", "unknown"},
   uring_queue_depth : 0 .. MaxEntries + 1, thread_pool_worker_count : {0, 1},
   max_inflight : 0 .. MaxEntries + 1,
   auto_try_uring : BOOLEAN, auto_try_thread_pool : BOOLEAN]

(* What the system allows: io_uring is compiled in and can be set up, and  *)
(* threads can be started.                                                 *)
Systems == [uring : BOOLEAN, threads : BOOLEAN]

(* io_uring_queue_init refuses a depth over the limit with EINVAL, as it   *)
(* refuses what the system does not allow: with a system_error.            *)
create_uring(c, system) ==
  IF c.uring_queue_depth = 0 THEN "invalid_argument"
  ELSE IF system.uring /\ c.uring_queue_depth <= MaxEntries THEN "uring"
  ELSE "system_error"

create_thread_pool(c, system) ==
  IF c.thread_pool_worker_count = 0 \/ c.max_inflight = 0 THEN "invalid_argument"
  ELSE IF c.max_inflight > MaxEntries THEN "bad_alloc"
  ELSE IF system.threads THEN "thread_pool" ELSE "system_error"

(* Mutant: Auto goes on after any exception. *)
create_backend_lenient(c, system) ==
  LET uring == create_uring(c, system)
      pool == create_thread_pool(c, system)
  IN CASE c.kind = "uring" -> uring
       [] c.kind = "thread_pool" -> pool
       [] c.kind = "sync" -> "sync"
       [] c.kind = "unknown" -> "invalid_argument"
       [] c.kind = "auto" ->
            IF c.auto_try_uring /\ uring = "uring" THEN uring
            ELSE IF c.auto_try_thread_pool /\ pool = "thread_pool" THEN pool
            ELSE "sync"

create_backend_with(c, system) ==
  LET uring == create_uring(c, system)
      pool == create_thread_pool(c, system)
  IN CASE c.kind = "uring" -> uring
       [] c.kind = "thread_pool" -> pool
       [] c.kind = "sync" -> "sync"
       [] c.kind = "unknown" -> "invalid_argument"
       [] c.kind = "auto" ->
            IF c.auto_try_uring /\ uring # "system_error" THEN uring
            ELSE IF c.auto_try_thread_pool /\ pool # "system_error" THEN pool
            ELSE "sync"

CreateBackend(c, system) ==
  /\ First
  /\ Called("backend", [config |-> c, system |-> system], create_backend_with(c, system))
  /\ UNCHANGED <<registry, stages, executor, touched>>

-----------------------------------------------------------------------------
(* MetricsRegistry *)

find(name, kind) == name \in DOMAIN registry /\ registry[name].kind = kind

(* validate_new_name: what it throws, if anything. *)
validate_new_name(name) ==
  IF name[1] = "" THEN "invalid_argument"
  ELSE IF name[3] = "overlong" THEN "length_error"
  ELSE IF name \in DOMAIN registry THEN "invalid_argument"
  ELSE IF Cardinality(DOMAIN registry) >= MaxMetrics THEN "length_error"
  ELSE "ok"

Add(metrics) ==
  registry' = [n \in DOMAIN metrics \cup DOMAIN registry |->
                 IF n \in DOMAIN metrics THEN metrics[n] ELSE registry[n]]

(* add_counter, add_gauge or add_histogram called by the application. *)
AddMetric(name, kind) ==
  /\ LET outcome == validate_new_name(name) IN
       /\ Called("metric", name, outcome)
       /\ IF outcome = "ok" THEN Add([n \in {name} |-> [kind |-> kind, by |-> "caller"]])
                            ELSE UNCHANGED registry
  /\ UNCHANGED <<stages, executor, touched>>

-----------------------------------------------------------------------------
(* Pipeline *)

StageCount == FoldFunction(LAMBDA s, n : Len(s) + n, 0, stages)

(* Mutant: the stage stays when its metric cannot be registered. *)
AddStageKept(p, stage) ==
  LET name == <<"stage", Len(stages[p]), stage>>
      timed == p \in Instrumented
      outcome == IF timed THEN validate_new_name(name) ELSE "ok"
      latency == IF timed /\ outcome = "ok" THEN name ELSE None
  IN /\ StageCount < MaxStages
     /\ Called("stage", stage, outcome)
     /\ stages' = [stages EXCEPT ![p] = Append(@, [stage |-> stage, latency |-> latency])]
     /\ IF latency # None
        THEN Add([n \in {name} |-> [kind |-> "histogram", by |-> "stage"]])
        ELSE UNCHANGED registry
     /\ UNCHANGED <<executor, touched>>

(* add_stage: an instrumented pipeline registers a histogram for the stage *)
(* and takes the stage back when that fails.                               *)
AddStage(p, stage) ==
  LET name == <<"stage", Len(stages[p]), stage>>
      timed == p \in Instrumented
      outcome == IF timed THEN validate_new_name(name) ELSE "ok"
      latency == IF timed /\ outcome = "ok" THEN name ELSE None
  IN /\ StageCount < MaxStages
     /\ Called("stage", stage, outcome)
     /\ stages' = IF outcome = "ok"
          THEN [stages EXCEPT ![p] = Append(@, [stage |-> stage, latency |-> latency])]
          ELSE stages
     /\ IF latency # None
        THEN Add([n \in {name} |-> [kind |-> "histogram", by |-> "stage"]])
        ELSE UNCHANGED registry
     /\ UNCHANGED <<executor, touched>>

AddNullStage(p) ==
  /\ Called("stage", None, "invalid_argument")
  /\ UNCHANGED <<registry, stages, executor, touched>>

-----------------------------------------------------------------------------
(* The built-in stages *)

ByteIncrement(block) == [i \in DOMAIN block |-> (block[i] + 1) % (ByteMax + 1)]

(* Mutant: the smallest byte is not subtracted before scaling. *)
NormalizeUnshifted(block) ==
  LET bytes == ToSet(block)
      minimum == CHOOSE b \in bytes : \A x \in bytes : b <= x
      maximum == CHOOSE b \in bytes : \A x \in bytes : b >= x
  IN IF block = <<>> THEN block
     ELSE IF minimum = maximum THEN [i \in DOMAIN block |-> 0]
     ELSE [i \in DOMAIN block |->
             (block[i] * ByteMax) \div (maximum - minimum)]

Normalize(block) ==
  LET bytes == ToSet(block)
      minimum == CHOOSE b \in bytes : \A x \in bytes : b <= x
      maximum == CHOOSE b \in bytes : \A x \in bytes : b >= x
  IN IF block = <<>> THEN block
     ELSE IF minimum = maximum THEN [i \in DOMAIN block |-> 0]
     ELSE [i \in DOMAIN block |->
             ((block[i] - minimum) * ByteMax) \div (maximum - minimum)]

StageProcess(stage, block) ==
  CASE stage = "byte_increment" -> ByteIncrement(block)
    [] stage = "normalize" -> Normalize(block)
    [] OTHER -> block

(* Pipeline::process runs a block through the stages in their order.  It   *)
(* changes nothing else: blocks are processed right after add_stage.       *)
Process(p, block) ==
  /\ last.op = "stage" /\ \A e \in Executors : executor[e] = NoExecutor
  /\ Called("process", block,
       FoldLeft(LAMBDA b, entry : StageProcess(entry.stage, b), block, stages[p]))
  /\ UNCHANGED <<registry, stages, executor, touched>>

-----------------------------------------------------------------------------
(* PipelineExecutor *)

GoodConfig == [block_size |-> PointerSize, buffer_alignment |-> PointerSize,
               max_inflight_buffers |-> 1, queue_depth |-> 1]

(* register_runtime_metrics: room and names are checked before anything is *)
(* added.                                                                  *)
register_runtime_metrics ==
  IF Cardinality(DOMAIN registry) > MaxMetrics - Cardinality(RuntimeNames)
  THEN [outcome |-> "length_error", added |-> {}]
  ELSE IF \E n \in RuntimeNames, k \in Kinds : find(n, k)
  THEN [outcome |-> "invalid_argument", added |-> {}]
  ELSE [outcome |-> "ok", added |-> RuntimeNames]

(* Both constructors. *)
Construct(e, p, c, metrics) ==
  LET registered == IF metrics /\ validate(c)
                    THEN register_runtime_metrics
                    ELSE [outcome |-> "ok", added |-> {}]
      outcome == IF validate(c) THEN registered.outcome ELSE "invalid_argument"
  IN /\ executor[e] = NoExecutor
     /\ Called("construct", c, outcome)
     /\ Add([n \in registered.added |-> [kind |-> RuntimeMetrics[n], by |-> "executor"]])
     /\ executor' = IF outcome = "ok"
          THEN [executor EXCEPT ![e] = [pc |-> "ready", pipeline |-> p, metrics |-> metrics]]
          ELSE executor
     /\ UNCHANGED <<stages, touched>>

(* run() up to the construction of the pool, whose gauge must be unused,   *)
(* and what the run leaves on the gauge.                                   *)
Run(e, descriptors) ==
  /\ executor[e] # NoExecutor
  /\ LET used == IF executor[e].metrics THEN {InflightGauge} ELSE {}
         valid == /\ descriptors = "different"
                  /\ stages[executor[e].pipeline] # <<>>
         outcome == IF ~valid THEN "invalid_argument"
                    ELSE IF executor[e].pc = "spent" THEN "logic_error"
                    ELSE IF used \cap touched # {} THEN "not_dedicated"
                    ELSE "ok"
     IN /\ Called("run", descriptors, outcome)
        /\ executor' = IF valid THEN [executor EXCEPT ![e].pc = "spent"] ELSE executor
        /\ touched' = IF outcome = "ok" THEN touched \cup used ELSE touched
  /\ UNCHANGED <<registry, stages>>

-----------------------------------------------------------------------------
Blocks == UNION {[1 .. n -> 0 .. ByteMax] : n \in 0 .. MaxBlock}

PureCall ==
  \/ \E c \in Configs : BufferPoolBytes(c)
  \/ \E c \in BackendConfigs, s \in Systems : CreateBackend(c, s)

PipelineCall(p) ==
  \/ \E s \in Stages : AddStage(p, s)
  \/ AddNullStage(p)
  \/ \E b \in Blocks : Process(p, b)

ExecutorCall(e) ==
  \/ \E p \in Pipelines, metrics \in BOOLEAN :
       \E c \in {GoodConfig, [GoodConfig EXCEPT !.queue_depth = 0]} :
         Construct(e, p, c, metrics)
  \/ \E d \in {"invalid", "same", "different"} : Run(e, d)

SetupNext ==
  \/ PureCall
  \/ \E n \in CallerNames : AddMetric(n, "counter")
  \/ \E p \in Pipelines : PipelineCall(p)
  \/ \E e \in Executors : ExecutorCall(e)

SetupSpec == SetupInit /\ [][SetupNext]_setupVars

-----------------------------------------------------------------------------
(* A configuration passes validate() exactly when the pool can be laid out *)
(* from it: the alignment is one of the powers of two that hold a pointer, *)
(* every buffer is accepted by AlignedBuffer, the queues have room for an  *)
(* item, and the payload does not exceed what a size_t can count.  Its     *)
(* size is then the product, not one that has wrapped around.              *)
ConfigSound ==
  last.op = "config" =>
    LET c == last.arguments
        product == c.block_size * c.max_inflight_buffers
    IN /\ last.outcome # -1 <=>
            /\ \E k \in 0 .. SizeMax : c.buffer_alignment = Pow2[k]
            /\ \E n \in 1 .. SizeMax : c.buffer_alignment = n * PointerSize
            /\ validate_allocation(c.block_size, c.buffer_alignment)
            /\ c.queue_depth > 0
            /\ c.max_inflight_buffers > 0
            /\ product <= SizeMax
       /\ last.outcome # -1 => last.outcome = product

(* A backend that was asked for by name is never replaced by another, and  *)
(* an unknown kind is an error.  Auto never fails with a system_error, and *)
(* passes over a candidate it may try only if the system or the kernel     *)
(* refused to set it up, be it for its queue depth; a zero or a failed     *)
(* allocation in a candidate that it tries is reported, not passed over.   *)
FallbackHonest ==
  last.op = "backend" =>
    LET c == last.arguments.config
        system == last.arguments.system
        faulty ==     \* a candidate that must not be passed over
          [uring |-> c.uring_queue_depth = 0,
           thread_pool |-> \/ c.thread_pool_worker_count = 0
                           \/ c.max_inflight \notin 1 .. MaxEntries]
        refused ==    \* and one that may be
          [uring |-> ~faulty.uring /\ (system.uring => c.uring_queue_depth > MaxEntries),
           thread_pool |-> ~faulty.thread_pool /\ ~system.threads]
        exceptions == {"invalid_argument", "bad_alloc", "system_error"}
    IN CASE c.kind = "unknown" -> last.outcome = "invalid_argument"
         [] c.kind \in {"uring", "thread_pool", "sync"} ->
              last.outcome \in {c.kind} \cup exceptions
         [] c.kind = "auto" ->
              /\ last.outcome # "system_error"
              /\ last.outcome \in exceptions =>
                   \/ c.auto_try_uring /\ faulty.uring
                   \/ c.auto_try_thread_pool /\ faulty.thread_pool
              /\ last.outcome = "uring" =>
                   c.auto_try_uring /\ ~faulty.uring /\ ~refused.uring
              /\ last.outcome = "thread_pool" =>
                   c.auto_try_thread_pool /\ ~faulty.thread_pool /\ ~refused.thread_pool
              /\ last.outcome \in {"thread_pool", "sync"} =>
                   (c.auto_try_uring => refused.uring)
              /\ last.outcome = "sync" =>
                   (c.auto_try_thread_pool => refused.thread_pool)

Latencies(p) == {stages[p][i].latency : i \in DOMAIN stages[p]}
Observed == {e \in Executors : executor[e] # NoExecutor /\ executor[e].metrics}

(* Every metric in the registry has exactly one owner, and every owner has *)
(* all of its metrics: each stage of an instrumented pipeline is timed by  *)
(* a histogram of its own, an executor has its whole set of metrics or     *)
(* does not exist, and a call that failed left nothing behind.  A gauge    *)
(* that a run is given has not been used before.                           *)
MetricsOwned ==
  /\ {n \in DOMAIN registry : registry[n].by = "stage"} =
       UNION {Latencies(p) : p \in Instrumented}
  /\ \A p, q \in Instrumented :
       \A i \in DOMAIN stages[p], j \in DOMAIN stages[q] :
         stages[p][i].latency = stages[q][j].latency => p = q /\ i = j
  /\ {n \in DOMAIN registry : registry[n].by = "executor"} =
       IF Observed = {} THEN {} ELSE RuntimeNames
  /\ Cardinality(Observed) <= 1
  /\ Cardinality(DOMAIN registry) <= MaxMetrics
  /\ last.op = "run" => last.outcome # "not_dedicated"

(* Incrementing does not depend on where a file is cut into blocks, and    *)
(* never leaves a byte as it was.  Normalising keeps the order of the      *)
(* bytes and stretches them over the whole range.                          *)
StageLaws ==
  last.op = "process" =>
    LET b == last.arguments
        n == Normalize(b)
    IN /\ \A k \in 0 .. Len(b) :
            ByteIncrement(b) = ByteIncrement(SubSeq(b, 1, k))
                                 \o ByteIncrement(SubSeq(b, k + 1, Len(b)))
       /\ \A i \in DOMAIN b : ByteIncrement(b)[i] # b[i]
       /\ \A i, j \in DOMAIN b : b[i] <= b[j] => n[i] <= n[j]
       /\ Cardinality(ToSet(b)) > 1 => {0, ByteMax} \subseteq ToSet(n)
       /\ ToSet(n) \subseteq 0 .. ByteMax

=============================================================================
