# A TLA+ development for AsyncDataLoader

AsyncDataLoader is a C++20 library that reads a file in blocks (synchronously,
on a thread pool, or through io_uring), runs each block through a chain of
processing stages and writes the result, with three worker threads, bounded
queues and a fixed set of buffers, and publishes the output atomically under its
final name.  This directory holds TLA+ models of its parts, the TLC
configurations that check them on small instances, and TLAPS proofs.  Paths
below are relative to the repository (`src/pipeline/...`, `include/pipeline/...`).

## Inventory

| Component | State | Operations | Correct when |
| --- | --- | --- | --- |
| `SPSCQueue` (`include/pipeline/spsc_queue.h`) | ring of slots, `head_`, `tail_`, `size_`, `state_`, first failure, depth gauge, two condition variables | `push`, `pop`, `close`, `fail`, destructor | FIFO, nothing lost, duplicated or leaked; close drains, fail destroys; nobody sleeps for ever; the gauge is exact |
| `AlignedBufferPool`, `BufferHandle` (`src/buffer/`) | stack of free indices, `in_use_`, inflight gauge, one condition variable | `acquire`, `try_acquire`, `release`, moves of handles | a buffer has one owner; each release reaches a waiter |
| `PipelineExecutor::run` (`src/pipeline/pipeline_executor.cpp`) | two queues, the pool, `first_failure`, counts; locals of three loops | `reader_loop`, `processor_loop`, `writer_loop`, `fail_all`, thread start and join | output equals that of the serial loop; every lease comes back; the first failure is what is rethrown; `run` ends |
| `AtomicOutputFile`, `run_file` (same file); `AtomicJsonFile` (`src/reporting/`) | temporary file, directory, `committed_` | create, write, fsync, rename, directory fsync, unlink | the final name means an old or a complete new file, also after a crash |
| `ThreadPoolBackend` (`src/backend/`) | work and completion stacks, `inflight_count_`, `stopping_`, workers | `read_at`/`try_submit`, `wait_one`, `worker_loop`, destructor | a read is done once, reported to its own Task, within `max_inflight`; no pointer outlives its frame |
| `UringContext`, `ReadAwaiter`, `UringBackend` (`src/coroutine/`, `src/backend/`) | submission and completion rings; addresses of requests in them | `await_suspend`, `wait_one`, `await_resume` | each completion finds the Task that waits for it; buffers outlive reads |
| `Task`, `CompletionRequest` (`include/coroutine/`) | frame, continuation, result | start, complete, result, destroy | resumed once, on the calling thread |
| `util::file_io`, `FdGuard` (`src/util/`) | none | EINTR retries, `write_all_at` | the whole block is written or an error returned |
| `PipelineConfig`, `BackendFactory`, `AlignedBuffer` | validated numbers | `validate`, `buffer_pool_bytes`, `create` | nothing that cannot be laid out passes; Auto falls back only when a candidate is refused by the system |
| `Pipeline`, built-in stages | registered stages with their histograms | `add_stage`, `process` | stages run in order; a stage that cannot be timed is not added |
| Metrics (`src/metrics/`) | counters, gauges, histograms, registry | atomic updates, registration, snapshots | every metric has one owner; watermarks are peaks; snapshots miss nothing that was complete |
| Reporting (`src/reporting/`), `preprocess_pipeline_demo` (`examples/`) | the reporter's thread, the report file, the exit code | parse, run, stop, verify, publish | exit code and report are true; the thread does not outlive what it reads |
| Baselines, benchmarks, other examples | - | formatting, measuring | - |

The executor composes the rest: the reader leases a buffer from the pool, reads
through a backend, and pushes a `BlockWorkItem` (which owns the lease) into the
first queue; the processor runs the stages in place and pushes it into the
second; the writer writes it and destroys it, which returns the lease.  The
calling thread starts and joins the three.  Failures travel by `fail_all`, which
fails both queues.  `run_file` wraps a run into an `AtomicOutputFile`.  Before a run
the application validates a configuration, asks the factory for a backend, and
registers metrics, stages and the executor with one registry; during the run the
threads update the metrics with relaxed atomics while the reporter's thread reads
them; after it, the demo verifies the output and publishes a report.

Hard to test, and what the properties aim at: notifications sent after the mutex
is dropped; `close` and `fail` against blocked calls; several threads failing at
once, each in three critical sections; a thread that cannot be started; reuse of
buffers that are never cleared; short reads, short writes and failures in the
middle of a block; raw pointers into coroutine frames; a submission or a wait
that fails; a kill or a power failure between the steps of a publication; updates
and copies of several atomics that overlap; a registration that fails half-way; a
thread that is told to stop before it has begun, or by a destructor.
`PROJECT.json` lists these hazards with their lines.

## Modules

| Module | Models | Actions |
| --- | --- | --- |
| `BoundedChannel` | the promise of `SPSCQueue` | atomic `Push`, `Pop`, `Close`, `Fail`, `Destroy` |
| `SPSCQueue` | the queue itself | one action per critical section, one per notification sent after it, spurious wake-ups |
| `SerialReference` | `run_serial_pipeline_reference`, as the promise of the executor | `Extend`, `Return`, `Throw` |
| `PipelineExecutor` | `run`: three workers and the calling thread | one per blocking call or externally visible step of each loop; `fail_all` in three steps |
| `AlignedBufferPool` | pool and handles | critical sections, late `notify_one`, moves |
| `AtomicOutputFile` | publication by several processes on one file system | the calls of constructor, `commit`, destructor; kill, write-back, power failure |
| `ThreadPoolBackend` | caller, workers, Tasks | critical sections, late notifications, construction failure, destruction |
| `UringBackend` | caller, kernel and the allocation of coroutine frames | prepare, submit, arm, wait, each with its failure; a completion that finds no request, or freed memory; kernel completion |
| `Metrics` | counter, gauge, histogram and their snapshot | one action per atomic operation; the three additions of `observe` in any order |
| `PipelineSetup` | what precedes a run: configuration, factory, registry, `add_stage`, executor constructors, the checks of `run`, the built-in stages (specification `SetupSpec`) | one action per call, with all its outcomes |
| `StageChecksum` | the checksum stage, apart because its bit operators keep the prover out | - |
| `PreprocessDemo` | the demo program, `LiveTerminalReporter`, `AtomicJsonFile` | one per step of `main` and of the reporter's thread, with its failure; kill, power failure, write-back, a rival program |
| `SPSCQueueProofs`, `PipelineExecutorProofs`, `AlignedBufferPoolProofs`, `AtomicOutputFileProofs`, `ThreadPoolBackendProofs`, `UringBackendProofs`, `MetricsProofs`, `PreprocessDemoProofs` | the theorems about the module each is named after; `MetricsProofs` also those about `PipelineSetup`, whose registry holds the metrics | - |

Conventions.  A critical section of a mutex is one action, because nothing else
can see its intermediate states; what the code does after the unlock is an action
of its own.  A thread in `wait(lock, predicate)` is a member of the condition
variable's wait set while it sleeps and evaluates the predicate when it is not.
Variables carry the names of the source without the trailing underscore.
Definitions whose comment begins with "Mutant" are wrong variants of the
definition that follows them, kept to show that a property depends on it; they
are not part of any specification.

Composition.  `PipelineExecutor` uses two instances of the operations of
`BoundedChannel` for its queues.  That is justified by the theorem
`QueueRefinesChannel`: the critical sections of `SPSCQueue` are the atomic
operations of the channel.  It uses the pool as the set of its free buffers, which
`AlignedBufferPool!LeasedOnce` and `NoLostWakeup` justify, and a backend as a read
that returns some bytes, none at the end of the file, or an error.  In turn the
executor is shown to implement `SerialReference`, where a byte of the file is the
pair of the input position it came from and the number of stages it went through:
`ImplementsSerial` says that the output file is at any moment a completely
processed prefix of the input, although three threads work on it with shared
buffers, and that `run` returns only when it is the whole input.  This too is a
theorem, `RefinesSerial`.

`PreprocessDemo` uses `run_file` as `AtomicOutputFile` shows it to be: the output
appears whole, or not at all, and is on the disk when the call returns.  Its own
concern is what comes after: a second file, the report, whose publication must not
overtake the first; a thread that must be gone before `main` prints or unwinds; and
an exit code that summarises all of it.  `PipelineSetup` establishes what the other
modules take as assumptions: a positive queue depth and number of buffers, one
executor per gauge, at least one stage.  The gauge of a queue or of the pool is
updated under its owner's mutex, where `SPSCQueue` and `AlignedBufferPool` track it;
`Metrics` treats the general case, in which nothing serialises the updates.

In `UringBackend` a read and the address that stands for it are different things: the
kernel is given `frame[r]`, the place of the Task's coroutine frame, and `wait_one`
completes whatever request is armed at that place.  A frame is free once its Task is
destroyed, and a later Task may get it.  Where no request is armed, `complete` throws
out of `wait_one`; where no Task lives at all, it reads freed memory, and besides
throwing it may do anything: the state `undefined`, after which nothing is claimed.
`reused` notes that the caller read on after it had abandoned a read, that is, after
a Task ended without its own completion.

In `PipelineSetup` the variable `last` holds the latest call with its arguments and
outcome, so that a property can speak about calls that change nothing.  Calls whose
outcome depends on their arguments alone are made in the initial state only; blocks
are processed directly after an `add_stage`.  Neither restriction removes an
outcome.  Twelve runtime metrics are three there, one of each kind, and the registry
holds four, so that a few calls fill it.

## Runs

| Run | Instance | Shows |
| --- | --- | --- |
| `queue` | capacity 2, 4 pushes, 3 stops, 2 extra threads, 2 exceptions | `RingInOrder`, `ValuesAccounted`, `GaugeExact`, `NoLostWakeup`; `ImplementsChannel` (refinement); `BlockedCallsReturn`, `EveryValueLeaves` (liveness) |
| `executor` | 3 buffers, queue depth 1, blocks of 2 bytes, files of 0 to 5 bytes, 2 stages, 64-bit limit at 4 | `BuffersOwnedOnce`, `BlocksIntact`, `SuccessIsComplete`, `FirstFailureWins`, `LeasesReturned`, `GuardsUnreachable`, `ImplementsSerial` (refinement) |
| `executor_live` | 2 buffers, files up to 3 bytes, 1 stage | `Terminates` |
| `pool` | 3 buffers, 4 threads | `LeasedOnce`, `NoLostWakeup` |
| `output` | 3 processes, results of 2 pieces | `FinalIsWhole`, `ReturnedIsDurable`, `FailureLeavesNoTrace` |
| `thread_pool` | 3 frames, 2 workers, 2 in flight | `RequestsTracked`, `ResultsMatch`, `NoLostWakeup`, `DestructorDrains`, `CallsReturn` (liveness) |
| `uring` | 4 reads in 3 frames, queue depth 2, 2 failing submissions, 1 failing wait, caller reads on | `ResultsOwnUntilReused`, `SuspendedIsOutstanding`, `SafeUntilReused` |
| `metrics` | 3 threads, 3 updates, gauge up to 3, sums modulo 8, bounds 0 and 2, samples 0, 2 and 4 | `SnapshotTruthful`, `WatermarkIsPeak`, `WatermarkNeverFalls` (action property) |
| `setup` | `size_t` of 4 bits, pointers of 2 bytes, 2-bit bytes, blocks up to 3 bytes, 4 metrics, 3 pipelines, 2 stages, 2 executors | `ConfigSound`, `FallbackHonest`, `MetricsOwned`, `StageLaws`, `ChecksumTellsChanges` |
| `demo` | inputs of 0 and 2 bytes, 4 rival files, reports of 2 pieces, every way to link the three paths | `ExitCodeHonest`, `ReportTrue`, `ReporterContained`, `ProgramEnds` (liveness) |
| `uring_resubmit` | 3 reads, 1 failing submission, caller reads on | `CompletionsExpected` is violated |
| `uring_wait_fails` | 2 reads, 1 failing wait | `BuffersOutliveReads` is violated |

No run lists a type invariant: the types are the first conjunct of the inductive
invariant of each proof module, and proved with it for every instance.

Bounds.  Capacity 2 with 4 pushes wraps the ring twice over and lets a push
block, be refused and be accepted again; three stops cover a close followed by a
failure followed by a second failure, from different threads.  Five bytes in
blocks of two give up to five blocks with short reads, more than there are
buffers, so each buffer is reused; depth 1 makes both queues full while the pool
is empty; the limit 4 (`MaxU64`) lies below the longest file, so the overflow
paths are taken.  In the pool four threads compete for three buffers, so several
sleep while others release in a row.  Two in flight out of three reads in the
thread pool means a read can be refused, and frames are reused without bound.
Four io_uring reads in three frames are enough for two left-over entries to fill the
submission queue, and for a stray completion to meet its own Task, none, a finished
one, or a later one in the same frame.
Three updates by three threads are enough for two candidates to race for the
watermark while a third thread moves the gauge, for a snapshot to fall between the
additions of two samples, and for the gauge and the sum to wrap around; the samples
are the two bounds and one above them, so each bucket has its boundary.  A `size_t`
of four bits has three valid alignments, sizes that are multiples of some of them or
of none, and products with two and three buffers that wrap around.  The queue depth
of a ring and the capacity of a thread pool are zero, granted, or one over what is
granted (`MaxEntries`).  A file of two
bytes, of which one wraps around, can be read in one or two pieces; the rival files
are right, too short, too long, and wrong in the last byte.

Fairness.  A thread inside a call of a queue, pool or backend keeps running, and
reads, writes and joins come to an end: the scheduler and the file system give
that.  Nobody is assumed to call `push`, `close` or `fail`; the consumer is assumed
to come back to `pop`, as both loops do.  Spurious wake-ups are possible and never
relied on.  `Terminates` assumes weak fairness of each of the four threads.
`ProgramEnds` assumes weak fairness of `main` and of the reporter's thread, and
nothing about the reporting interval, which may be as long as it likes: the stop
must be enough to end the wait.

Findings.  Both concern `UringBackend`.  (1) When `io_uring_submit` fails,
`await_suspend` returns `false` and the read fails, but the prepared entry, which
holds the address of the request, stays in the submission queue, and the next
submission takes it along; `docs/design.md` says that no completion will follow in
this case.  (2) When `io_uring_wait_cqe` fails, `complete_read` unwinds and its
Task and buffer go while the kernel still has the read, against the contract in
`include/backend/io_backend.h`.  After either, a caller that reads on may get a
Task whose frame lies where the abandoned one was; the late completion then hands it
the result of the other read.  `ResultsMatch`, the unconditional form of
`ResultsOwnUntilReused`, therefore does not hold: two reads in one frame and one
failing wait are a counterexample.  `ResultsOwnUntilReused` and
`SafeUntilReused` show that the executor does not meet this and (1) within one run,
because it stops at the first failed read; a caller that keeps using the backend
does.  A read that failed with its own completion, or before it was prepared, does no
harm: reading on after that is safe.

One more disagreement shaped a property.  A queue depth over the kernel's limit is
refused by `io_uring_queue_init` with `EINVAL`, which becomes a `system_error`, and
Auto passes over it as if the system had no io_uring.  `docs/design.md` says that an
invalid queue depth "is not hidden by fallback"; that is so for the depth 0 only.
`FallbackHonest` states what the factory does guarantee, this case included.

## Proofs

Each proof module states an inductive invariant `IInv` (`MetricsProofs` two more, `HInv`
and `SInv`), proves that the initial
states satisfy it and every step keeps it (`Invariance`), and derives the properties
that the runs check.  The theorems hold for every value of the constants that
satisfies the assumptions named in the modules, where the runs fix small ones.

| Module | Theorem (property) | Holds for |
| --- | --- | --- |
| `SPSCQueueProofs` | `TypeCorrect` (`TypeOK`), `RingIsFifo` (`RingInOrder`), `NothingLeaks` (`ValuesAccounted`), `GaugeAgrees` (`GaugeExact`), `WakeupsAreNeverLost` (`NoLostWakeup`), `QueueRefinesChannel` (`ImplementsChannel`) | every capacity, any extra threads, any number of calls |
| `PipelineExecutorProofs` | `OwnedOnce` (`BuffersOwnedOnce`), `BlocksKept` (`BlocksIntact`), `SuccessComplete` (`SuccessIsComplete`), `FirstFailure` (`FirstFailureWins`), `AllReturned` (`LeasesReturned`), `GuardsNotMet` (`GuardsUnreachable`), `RefinesSerial` (`ImplementsSerial`) | any buffers, block size, queue depth, file length, number of stages, counter width |
| `AlignedBufferPoolProofs` | `LeaseExclusive` (`LeasedOnce`), `WakeupKept` (`NoLostWakeup`) | any number of buffers and threads |
| `AtomicOutputFileProofs` | `FinalWhole` (`FinalIsWhole`), `ReturnedDurable` (`ReturnedIsDurable`), `FailureTraceless` (`FailureLeavesNoTrace`) | any set of processes, any size of a result |
| `ThreadPoolBackendProofs` | `RequestsAccounted` (`RequestsTracked`), `ResultsOwn` (`ResultsMatch`), `WakeupKept` (`NoLostWakeup`), `DrainedAtEnd` (`DestructorDrains`) | any finite number of frames and workers, any `max_inflight` |
| `UringBackendProofs` | `WaitsForSomething` (`SuspendedIsOutstanding`), `ResultsOwn` (`ResultsOwnUntilReused`), `SafeWhileClean` (`SafeUntilReused`) | any reads and frames, any queue depth, any number of failed calls |
| `MetricsProofs` | `WatermarkPeak` (`WatermarkIsPeak`), `WatermarkMonotonic` (`WatermarkNeverFalls`), `BucketExact`, `SnapshotsTruthful` (`SnapshotTruthful`) | any threads; gauge, modulus and bounds of any size; any finite set of samples |
| `MetricsProofs`, on `PipelineSetup` | `RegistryOwned` (`MetricsOwned`), `FallbackTruthful` (`FallbackHonest`), `PowersOfTwo`, `ConfigurationSound` (`ConfigSound`), `StagesLawful` (`StageLaws`) | any pipelines, stages, executors and capacity of the registry; any width of `size_t`, pointer and byte; blocks of any length |
| `PreprocessDemoProofs` | `ExitCodeTrue` (`ExitCodeHonest`), `ReportHonest` (`ReportTrue`), `ReporterHeld` (`ReporterContained`) | any inputs and rival files, any byte range, block size and report size |

Assumptions.  They are the `ASSUME`s of the modules, and TLC evaluates each of them
in the runs.  Sizes, depths and numbers of buffers are positive because
`PipelineConfig::validate` and the constructors refuse zero; a pipeline has at least
one stage because `run` refuses an empty one; a block fits into 64 bits.  The
producer and the consumer of a queue are different threads (the contract of the
class).  Threads, workers and frames are finitely many where they are counted.
Samples and amounts are natural numbers, and samples are finitely many, because they
are 64-bit words.  Histogram bounds are ascending (the constructor checks).  `OpsAssumption` of
`Metrics` lets at most `MaxValue + 1` updates happen: a 64-bit gauge wraps around
upwards only from its largest value as long as fewer than 2^64 updates brought it
down.  The rest say that markers such as `NoBuffer`, `Absent` or `None` differ from
what they mark.

The arguments, module by module:

- **Queue.**  `IInv` joins the five invariants with `ThreadsInPlace` (only the
  producer is inside `push`, only a thread inside a wait sleeps, nobody is inside a
  call of a destroyed queue, a failed queue has its exception).  No part is inductive
  by itself: that a push finds room in order needs the accounting of which value is
  in hand, which needs to know who can be inside `push`.  The ring is handled by
  lemmas about `Offset(k)`, the slot `k` places after the head.  The refinement adds
  that the ring read from `head` is a sequence to which a push appends and from which
  a pop takes the first.
- **Executor.**  The lemma `Cases` reduces the many actions to a few kinds of moves
  (`Move`), so that each conjunct has one lemma with one case per kind.  `Standing`
  says where a worker owns an item and in which order `run` starts and joins;
  `Failures`, that whoever threw carries the first failure and has failed the queues
  it has passed; `Closing`, that a queue is closed by its producer's last act;
  `Ownership` is `BuffersOwnedOnce` place by place instead of over one concatenated
  sequence.  `InOrder` says that the blocks on the way form a chain: each starts,
  in index and in offset, where the one before it ends, from what the writer has
  counted to what the reader has read.  The chain is what makes the writer's offsets
  consecutive and its counts exact; with `BlocksIntact` it gives `OutputIsPrefix`,
  from which the refinement follows.
- **Pool.**  The stack of free indices is an injective sequence; a pop and a push
  move one index between it and one handle.  A notification takes a thread from the
  sleepers to those that look, so the count in `NoLostWakeup` is kept.
- **Output file.**  A file that was renamed is complete on the disk (`FilesFollow`),
  and names mean the old file or a renamed one (`NamesFollow`), in memory and on the
  disk: a power failure replaces the first by the second.
- **Thread pool.**  The number of pointers to a frame is the sum of its occurrences
  in two stacks, in the workers and in the caller; lemmas about occurrences say what
  `push_back` and `pop_back` do to it.  `InPlace` adds that a worker leaves only when
  the backend is stopping and the work queue is empty, which gives `DestructorDrains`.
- **io_uring.**  `OnePlace`: a read is prepared, in the kernel or completed, in one
  place only.  `FramesApart`: living Tasks have different frames, so a suspended Task
  is the only one that its own completion can reach; that gives
  `SuspendedIsOutstanding` whatever else goes astray.  `NothingStale`: as long as the
  caller has not read on after abandoning a read, the address of an outstanding read
  belongs to its own Task or to none.  It is kept because without an abandoned read
  the Tasks of all outstanding reads live, so the allocator cannot give their frames
  away.  `CleanUntilReused`: if moreover no wait failed, the submission queue holds
  only the read being submitted or the one a failed submission left, after which
  nothing is submitted.
- **Metrics.**  `PeakCarried`: the peak is in the watermark or with a thread that is
  still raising it; `CandidatesReal`: such a thread saw a smaller watermark and has a
  value the gauge had; `WrapsAtPeak` covers increments that wrap around.
- **Snapshots.**  `SnapshotTruthful` compares sums over all samples and buckets.  What
  a sum is, is proved first: the library's induction takes an operator, which the
  provers cannot instantiate, so the lemmas take the smallest counterexample of a set
  of naturals instead (`SetOfNaturals`, from `WFMin`) and go from there to the subsets
  of a finite set (`SubsetInduction`) and to sums (`SumRecursion`, `SumOrdered`,
  `SumBump`).  The invariant `HInv` then says what each atomic is at every moment:
  `ObserversCounted`, that a sample begun and not yet finished is one thread's;
  `HistogramAddsUp`, that a bucket, the sum and the count are those of the samples
  begun less those of the threads that still have this addition to make, the sum
  modulo the word; `SnapshotPaced` and `SnapshotBounded`, that what was loaded lies
  between the history at the start of the snapshot and the present one.  When no
  observation overlapped, the two are equal, and the buckets add up because each
  sample is in exactly one (`BucketsPartition`, from `BucketExact`).
- **Set-up.**  `SInv` has the parts of `MetricsOwned` and three more: types,
  `OneObserved` (two executors cannot both have registered the runtime metrics,
  because the second would have found the names) and `GaugeSpent` (the inflight gauge
  is used only by the run of the observed executor, which is spent by it).  The last
  two are why a run never meets a used gauge: the second run of the same executor is
  refused before.  `CallOK` ties the outcome of the latest call to its arguments; the
  other properties are then facts about operators.  `PowersOfTwo` takes the largest
  power not above `n`, which exists because `Pow2[k] > k`: unless `n` is that power, it
  has this bit in common with `n - 1`.  `ProductFits` is the division by which
  `validate` avoids the overflow, `Scales` the rounding of `Normalize`.
- **Demo.**  `MainMoves` lists what a step may do to `main` (go on, throw, end, die),
  and three lemmas list the few steps that touch the files, the verification and the
  thread.  The conjuncts say what holds at each place of `main`: `ThreadHeld` (every
  exception passes `stop()` while the thread is joinable), `PathsApart`,
  `OutputFollows`, `Compared` (the bytes up to the offset are equal), `ReportFollows`
  (a report with a name is complete on the disk and has a verified output).  That the
  lines never show too much is monotonicity of the percentage in the bytes written.

Only model-checked:

- liveness (`BlockedCallsReturn`, `EveryValueLeaves`, `Terminates`, `CallsReturn`,
  `ProgramEnds`), which is out of the prover's reach;
- `ChecksumTellsChanges`: the checksum is a fold with an exclusive or, whose library
  definition is recursive; what it computes for every block takes an induction over
  data, and the prover does not support the module it comes from;
- the two violations, which are counterexamples.

## Not modelled

- The wording and layout of terminal tables, JSON and key=value records; timing,
  the benchmarks with their statistics, the teaching examples for coroutines and
  io_uring, the stage-2 baseline.  They keep no state that outlives a call.
- Allocation failures (in particular one in the middle of
  `register_runtime_metrics`, which would leave some of the metrics registered), and
  locking failures of the standard library.
- Weak memory.  All shared state of the modelled parts is under a mutex, except the
  metrics; there the additions of an `observe` may take effect in any order, while
  the loads of a snapshot are taken in program order.
- In `PreprocessDemo`, an input that changes while the program runs, and a report
  path whose file another program replaces.
- In `PipelineSetup`, a stage that throws (it is in `PipelineExecutor`), and two
  threads that call `run` of one executor at once: the flag is one atomic exchange.
- EINTR retries: a repeated call changes nothing and is a stuttering step.
- In `AtomicOutputFile`, a directory that is itself removed or renamed.  The order in which a file system may
  write different directory entries back is that of whole-directory snapshots.
- A counter that passes 2^64: `Metrics` lets it grow.  The checksum stage is an operator
  that no action applies to a block, with constants of the shape of FNV-1a's (an odd
  multiplier, a power of two as modulus); its one variable, `last_checksum_`, is the
  value of that operator.
- In `BackendFactory`, a backend object that cannot be allocated; the reservations of the
  thread pool are modelled.
- In `UringBackend`, a submission that takes only a part of the queue, and a
  completion queue that overflows.

## Plan

Done: 1. `SPSCQueue` with its abstract channel; 2. `PipelineExecutor` against
`SerialReference`; 3. `AlignedBufferPool`; 4. `AtomicOutputFile`;
5. `ThreadPoolBackend`; 6. `UringBackend`; 7. `Metrics`; 8. `PipelineSetup`;
9. `PreprocessDemo`; and the proofs about all of them: every invariant and every
refinement that a run checks is a theorem, except `ChecksumTellsChanges`.

Next:

1. exclusive or on a finite number of bits as a function, like `Bit`, and from it the
   two facts about one step of the checksum (it is injective in the sum and in the
   byte) that `ChecksumTellsChanges` rests on;
2. a submission to io_uring that takes only a part of the queue;
3. an allocation that fails in the middle of `register_runtime_metrics`.
