------------------------------ MODULE Metrics ------------------------------
(***************************************************************************)
(* metrics/: a counter, a gauge and a histogram that several threads       *)
(* update while another thread copies them with MetricsRegistry::snapshot. *)
(* Every access is one relaxed atomic operation, so the three updates of   *)
(* an observe() take effect in any order.  The loads of a snapshot are in  *)
(* program order: what is said of a snapshot that updates overlap is said  *)
(* of each field by itself.                                                *)
(***************************************************************************)
EXTENDS Integers, Sequences, FiniteSetsExt

CONSTANTS Threads,     \* the threads that update the metrics
          MaxOps,      \* bound: updates made by all of them, too few for a
                       \* count to wrap around
          Amounts,     \* the amounts a counter is incremented by
          MaxValue,    \* the largest Gauge::Value, in place of 2^63 - 1
          Modulus,     \* the number of Histogram::Values, in place of 2^64
          SetValues,   \* the values Gauge::set is called with
          Elapsed,     \* the nanoseconds a ScopedTimer measures
          MaxFiniteBuckets,
          UpperBounds  \* the finite buckets of the histogram

MinValue == -MaxValue - 1

(* The constructor of Histogram accepts the bounds. *)
ValidBounds(bounds) ==
  /\ Len(bounds) \in 1 .. MaxFiniteBuckets
  /\ \A i \in 2 .. Len(bounds) : bounds[i - 1] < bounds[i]

ASSUME GaugeAssumption == MaxValue \in Nat /\ SetValues \subseteq 0 .. MaxValue
ASSUME OpsAssumption == MaxOps \in 0 .. MaxValue + 1 /\ Amounts \subseteq Nat
ASSUME ThreadsAssumption == IsFiniteSet(Threads)
ASSUME SampleAssumption == Modulus \in Nat /\ Elapsed \subseteq 0 .. Modulus - 1
ASSUME BoundsAssumption ==
  /\ MaxFiniteBuckets \in Nat
  /\ UpperBounds \in Seq(0 .. Modulus - 1) /\ ValidBounds(UpperBounds)

VARIABLES
  value,                      \* Counter::value_
  current, high_watermark,    \* of the gauge
  bucket_counts, sample_sum, sample_count,   \* of the histogram
  thread,                     \* what each thread is in the middle of
  reader,                     \* the snapshot: before, seen, and left to load
  ops, peak, begun, finished  \* history: updates made, the largest value of
                              \* the gauge, samples begun and fully recorded

gauge == <<current, high_watermark, peak>>
histogram == <<bucket_counts, sample_sum, sample_count, begun, finished>>
vars == <<value, gauge, histogram, thread, reader, ops>>

Idle == [pc |-> "idle"]
Buckets == 1 .. Len(UpperBounds) + 1
NoSnapshot == [pc |-> "none"]

Init ==
  /\ value = 0 /\ current = 0 /\ high_watermark = 0
  /\ bucket_counts = [i \in Buckets |-> 0]
  /\ sample_sum = 0 /\ sample_count = 0
  /\ thread = [t \in Threads |-> Idle] /\ reader = NoSnapshot
  /\ ops = 0 /\ peak = 0
  /\ begun = [s \in Elapsed |-> 0] /\ finished = [s \in Elapsed |-> 0]

Begin(t, next) ==
  /\ thread[t] = Idle /\ ops < MaxOps
  /\ ops' = ops + 1 /\ thread' = [thread EXCEPT ![t] = next]

-----------------------------------------------------------------------------
(* Counter::increment. *)
Increment(t, amount) ==
  /\ Begin(t, Idle)
  /\ value' = value + amount
  /\ UNCHANGED <<gauge, histogram, reader>>

(* The gauge takes a value; its watermark is raised to candidate later. *)
Store(t, v, candidate) ==
  /\ Begin(t, [pc |-> "load", candidate |-> candidate])
  /\ current' = v /\ peak' = Max({peak, v})
  /\ UNCHANGED <<value, high_watermark, histogram, reader>>

GaugeSet(t, v) == Store(t, v, v)

(* Mutant: the candidate is the value before the addition. *)
GaugeIncrementOld(t) ==
  Store(t, IF current = MaxValue THEN MinValue ELSE current + 1, current)

GaugeIncrement(t) ==
  IF current = MaxValue THEN Store(t, MinValue, current)
                        ELSE Store(t, current + 1, current + 1)

GaugeDecrement(t) ==
  /\ Begin(t, Idle)
  /\ current' = IF current = MinValue THEN MaxValue ELSE current - 1
  /\ peak' = Max({peak, current'})
  /\ UNCHANGED <<value, high_watermark, histogram, reader>>

Compare(t, observed) ==
  thread' = [thread EXCEPT ![t] =
    IF @.candidate > observed
    THEN [pc |-> "exchange", candidate |-> @.candidate, observed |-> observed]
    ELSE Idle]

(* update_high_watermark: the watermark is loaded and compared. *)
LoadWatermark(t) ==
  /\ thread[t].pc = "load"
  /\ Compare(t, high_watermark)
  /\ UNCHANGED <<value, gauge, histogram, reader, ops>>

(* Mutant: the watermark is stored without another look at it. *)
StoreWatermark(t) ==
  /\ thread[t].pc = "exchange"
  /\ high_watermark' = thread[t].candidate
  /\ thread' = [thread EXCEPT ![t] = Idle]
  /\ UNCHANGED <<value, current, peak, histogram, reader, ops>>

(* compare_exchange_weak: the watermark is replaced if it is still the one *)
(* observed, and observed anew otherwise.  One that fails for no reason    *)
(* changes nothing.                                                        *)
ExchangeWatermark(t) ==
  /\ thread[t].pc = "exchange"
  /\ IF high_watermark = thread[t].observed
     THEN /\ high_watermark' = thread[t].candidate
          /\ thread' = [thread EXCEPT ![t] = Idle]
     ELSE Compare(t, high_watermark) /\ UNCHANGED high_watermark
  /\ UNCHANGED <<value, current, peak, histogram, reader, ops>>

-----------------------------------------------------------------------------
(* Mutant: the first bucket whose bound exceeds the sample. *)
upper_bound(s) ==
  Min({i \in DOMAIN UpperBounds : UpperBounds[i] > s} \cup {Len(UpperBounds) + 1})

(* std::lower_bound: the first bucket whose bound is not below the sample, *)
(* or the overflow bucket.                                                 *)
lower_bound(s) ==
  Min({i \in DOMAIN UpperBounds : UpperBounds[i] >= s} \cup {Len(UpperBounds) + 1})

(* The end of a ScopedTimer, or any other caller of observe(). *)
ObserveBegins(t, elapsed) ==
  /\ Begin(t, [pc |-> "observe", sample |-> elapsed,
               left |-> {"bucket", "sum", "count"}])
  /\ begun' = [begun EXCEPT ![elapsed] = @ + 1]
  /\ UNCHANGED <<value, gauge, bucket_counts, sample_sum, sample_count,
                 finished, reader>>

(* sample_sum_.fetch_add wraps around. *)
sum_wrapped(s) == (sample_sum + s) % Modulus

(* One of the three additions of observe(). *)
ObserveAdds(t, update) ==
  LET s == thread[t].sample IN
  /\ thread[t].pc = "observe" /\ update \in thread[t].left
  /\ bucket_counts' = IF update = "bucket"
       THEN [bucket_counts EXCEPT ![lower_bound(s)] = @ + 1]
       ELSE bucket_counts
  /\ sample_sum' = IF update = "sum" THEN sum_wrapped(s) ELSE sample_sum
  /\ sample_count' = IF update = "count" THEN sample_count + 1 ELSE sample_count
  /\ IF thread[t].left = {update}
     THEN /\ thread' = [thread EXCEPT ![t] = Idle]
          /\ finished' = [finished EXCEPT ![s] = @ + 1]
     ELSE /\ thread' = [thread EXCEPT ![t].left = @ \ {update}]
          /\ UNCHANGED finished
  /\ UNCHANGED <<value, gauge, begun, reader, ops>>

-----------------------------------------------------------------------------
(* MetricsRegistry::snapshot with Histogram::snapshot: what it loads, in   *)
(* order, and the loads.                                                   *)
Loads ==
  <<value, current, high_watermark, sample_count, sample_sum>> \o bucket_counts

SnapshotBegins ==
  /\ reader = NoSnapshot
  /\ reader' = [pc |-> "loading", seen |-> <<>>, before |-> finished,
                watermark |-> high_watermark, value |-> value]
  /\ UNCHANGED <<value, gauge, histogram, thread, ops>>

SnapshotLoads ==
  /\ reader.pc = "loading"
  /\ LET seen == Append(reader.seen, Loads[Len(reader.seen) + 1]) IN
     reader' = [reader EXCEPT !.seen = seen,
                  !.pc = IF Len(seen) = Len(Loads) THEN "done" ELSE @]
  /\ UNCHANGED <<value, gauge, histogram, thread, ops>>

(* Every thread has made its updates and the snapshot is complete. *)
Ended ==
  /\ ops = MaxOps /\ reader.pc = "done"
  /\ \A t \in Threads : thread[t] = Idle
  /\ UNCHANGED vars

UpdateGauge(t) ==
  \/ \E v \in SetValues : GaugeSet(t, v)
  \/ GaugeIncrement(t) \/ GaugeDecrement(t)
  \/ LoadWatermark(t) \/ ExchangeWatermark(t)

Observe(t) ==
  \/ \E e \in Elapsed : ObserveBegins(t, e)
  \/ \E u \in {"bucket", "sum", "count"} : ObserveAdds(t, u)

Next ==
  \/ \E t \in Threads :
       (\E a \in Amounts : Increment(t, a)) \/ UpdateGauge(t) \/ Observe(t)
  \/ SnapshotBegins \/ SnapshotLoads \/ Ended

Spec == Init /\ [][Next]_vars

-----------------------------------------------------------------------------
(* The samples of a history that belong in a bucket: it includes its own   *)
(* upper bound and excludes that of the bucket before it.                  *)
InBucket(i, s) ==
  /\ i > 1 => UpperBounds[i - 1] < s
  /\ i <= Len(UpperBounds) => s <= UpperBounds[i]
Recorded(history, i) == SumFunctionOnSet(history, {s \in Elapsed : InBucket(i, s)})
Seen ==
  [value |-> reader.seen[1], high_watermark |-> reader.seen[3],
   count |-> reader.seen[4], sum |-> reader.seen[5],
   buckets |-> SubSeq(reader.seen, 6, Len(reader.seen))]
Total(history) == SumFunctionOnSet(history, Elapsed)
Weighted(history) == SumFunctionOnSet([s \in Elapsed |-> s * history[s]], Elapsed)

(* What a snapshot reports lies between what was recorded when it began    *)
(* and what has been begun since: an observe() that had returned is never  *)
(* missing from its own bucket or from the count, none is seen twice, and  *)
(* the watermark is one the gauge had reached.  A snapshot that no         *)
(* observe() overlaps is exact: the sum is that of the samples modulo      *)
(* 2^64 and the buckets add up to the count.                               *)
SnapshotTruthful ==
  reader.pc = "done" =>
    /\ \A i \in Buckets :
         Seen.buckets[i] \in Recorded(reader.before, i) .. Recorded(begun, i)
    /\ Seen.count \in Total(reader.before) .. Total(begun)
    /\ Seen.high_watermark \in reader.watermark .. peak
    /\ Seen.value \in reader.value .. value
    /\ reader.before = begun =>
         /\ Seen.sum = Weighted(begun) % Modulus
         /\ Seen.count = SumFunctionOnSet(Seen.buckets, Buckets)

(* Once no update of the gauge is under way, its watermark is the largest  *)
(* value it ever had, whatever updates raced with each other.              *)
WatermarkIsPeak ==
  (\A t \in Threads : thread[t].pc \notin {"load", "exchange"})
    => high_watermark = peak

(* The watermark never falls: a thread that computed a smaller candidate   *)
(* does not overwrite a larger one that another thread put there since.    *)
WatermarkNeverFalls == [][high_watermark' >= high_watermark]_vars

=============================================================================
