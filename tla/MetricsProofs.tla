--------------------------- MODULE MetricsProofs ----------------------------
(***************************************************************************)
(* The high watermark of Gauge under any number of threads, the bucket     *)
(* Histogram::observe chooses for any bounds its constructor accepts, what *)
(* a snapshot shows of updates that go on around it, and the calls before  *)
(* a run: who owns which metric, which backend and which configuration is  *)
(* accepted, and the laws of the built-in stages.                          *)
(***************************************************************************)
EXTENDS Metrics, PipelineSetup, FiniteSetTheorems, WellFoundedInduction, TLAPS

(* The types of what the gauge's operations read and write. *)
GaugeTypeOK ==
  /\ current \in MinValue .. MaxValue
  /\ high_watermark \in Int /\ peak \in 0 .. MaxValue /\ ops \in 0 .. MaxOps
  /\ DOMAIN thread = Threads
  /\ \A t \in Threads :
       /\ thread[t].pc \in {"load", "exchange"} => thread[t].candidate \in Int
       /\ thread[t].pc = "exchange" => thread[t].observed \in Int
       /\ thread[t].pc = "observe" =>
            thread[t] \in [pc : {"observe"}, sample : Elapsed,
                           left : SUBSET {"bucket", "sum", "count"}]

(* A value below what the calls could have counted down to comes from an   *)
(* increment that wrapped around, at the largest value there is.           *)
WrapsAtPeak == current <= peak /\ (current >= -ops \/ peak = MaxValue)

(* A thread that is raising the watermark has a value the gauge really had *)
(* and has seen a smaller watermark.                                       *)
CandidatesReal ==
  \A t \in Threads :
    /\ thread[t].pc \in {"load", "exchange"} => thread[t].candidate <= peak
    /\ thread[t].pc = "exchange" => thread[t].observed < thread[t].candidate

(* The peak is in the watermark already or some thread is bringing it. *)
PeakCarried ==
  /\ high_watermark <= peak
  /\ \/ high_watermark = peak
     \/ \E t \in Threads : /\ thread[t].pc \in {"load", "exchange"}
                           /\ thread[t].candidate = peak

(* The inductive invariant of the gauge. *)
IInv == GaugeTypeOK /\ WrapsAtPeak /\ CandidatesReal /\ PeakCarried

(* The larger of two values. *)
LEMMA MaxOfTwo ==
  ASSUME NEW a \in Int, NEW b \in Int
  PROVE  Max({a, b}) = IF a >= b THEN a ELSE b
<1> DEFINE m == IF a >= b THEN a ELSE b
<1>1. m \in {a, b} /\ \A y \in {a, b} : m >= y
  OBVIOUS
<1>2. \A x \in {a, b} : (\A y \in {a, b} : x >= y) => x = m
  OBVIOUS
<1> QED
  BY <1>1, <1>2 DEF Max

(* The gauge starts at zero, with its watermark there too. *)
LEMMA InitIInv == Init => IInv
BY GaugeAssumption, OpsAssumption
DEF Init, IInv, GaugeTypeOK, WrapsAtPeak, CandidatesReal, PeakCarried, MinValue, Idle

(* What a thread is in the middle of when it is not raising the watermark. *)
Elsewhere(r) ==
  /\ r.pc \notin {"load", "exchange"}
  /\ r.pc = "observe" => r \in [pc : {"observe"}, sample : Elapsed,
                               left : SUBSET {"bucket", "sum", "count"}]

(* A step that leaves the gauge alone, and no thread in the middle of      *)
(* raising the watermark that was not, changes nothing.                    *)
LEMMA OtherStep ==
  ASSUME IInv, UNCHANGED gauge, DOMAIN thread' = Threads,
         \A u \in Threads : \/ thread'[u] = thread[u]
                            \/ Elsewhere(thread[u]) /\ Elsewhere(thread'[u]),
         ops' \in 0 .. MaxOps, ops' >= ops
  PROVE  IInv' /\ high_watermark' >= high_watermark
<1>1. GaugeTypeOK /\ WrapsAtPeak /\ CandidatesReal /\ PeakCarried
  BY DEF IInv
<1>2. current' = current /\ high_watermark' = high_watermark /\ peak' = peak
  BY DEF gauge
<1>3. GaugeTypeOK'
  BY <1>1, <1>2 DEF GaugeTypeOK, Elsewhere
<1>4. WrapsAtPeak'
  <2>1. current \in Int /\ ops \in Int /\ ops' \in Int
    BY <1>1, OpsAssumption, GaugeAssumption DEF GaugeTypeOK, MinValue
  <2>2. \A a, b, c \in Int : c >= b /\ a >= -b => a >= -c
    OBVIOUS
  <2>3. current >= -ops => current >= -ops'
    BY <2>1, <2>2
  <2> QED
    BY <1>1, <1>2, <2>3 DEF WrapsAtPeak
<1>5. CandidatesReal'
  BY <1>1, <1>2 DEF CandidatesReal, Elsewhere
<1>6. PeakCarried'
  BY <1>1, <1>2 DEF PeakCarried, Elsewhere
<1>7. high_watermark' >= high_watermark
  BY <1>1, <1>2 DEF GaugeTypeOK
<1> QED
  BY <1>3, <1>4, <1>5, <1>6, <1>7 DEF IInv

(* set() and increment(): the new value is the candidate, or, when the     *)
(* increment wrapped around, the candidate is the old one.                 *)
LEMMA StoreStep ==
  ASSUME IInv, NEW t \in Threads, NEW v \in MinValue .. MaxValue,
         NEW candidate \in MinValue .. MaxValue, Store(t, v, candidate),
         \/ v = candidate /\ (v >= -ops - 1 \/ peak = MaxValue)
         \/ v = MinValue /\ candidate = current /\ candidate = MaxValue
  PROVE  IInv'
<1> DEFINE r == [pc |-> "load", candidate |-> candidate]
<1>1. /\ GaugeTypeOK /\ WrapsAtPeak /\ CandidatesReal /\ PeakCarried
      /\ MaxValue \in Nat /\ MinValue = -MaxValue - 1 /\ MaxOps \in 0 .. MaxValue + 1
  BY GaugeAssumption, OpsAssumption DEF IInv, MinValue
<1>2. /\ thread[t] = Idle /\ ops < MaxOps /\ ops' = ops + 1
      /\ thread' = [thread EXCEPT ![t] = r]
      /\ current' = v /\ high_watermark' = high_watermark
  BY DEF Store, Begin
<1>3. peak' = IF peak >= v THEN peak ELSE v
  <2>1. peak \in Int /\ v \in Int
    BY <1>1 DEF GaugeTypeOK
  <2> QED
    BY <2>1, MaxOfTwo DEF Store
<1>4. r.pc = "load" /\ r.candidate = candidate /\ thread[t].pc = "idle"
  BY <1>2 DEF Idle
<1> HIDE DEF r
<1>5. /\ DOMAIN thread' = Threads
      /\ \A u \in Threads : thread'[u] = IF u = t THEN r ELSE thread[u]
  BY <1>1, <1>2 DEF GaugeTypeOK
<1>6. /\ peak \in 0 .. MaxValue /\ ops \in 0 .. MaxOps /\ high_watermark \in Int
      /\ current \in MinValue .. MaxValue /\ current <= peak
  BY <1>1 DEF GaugeTypeOK, WrapsAtPeak
<1>7. /\ peak' \in 0 .. MaxValue /\ peak <= peak' /\ v <= peak' /\ candidate <= peak'
      /\ peak' = peak \/ peak' = candidate
  BY <1>1, <1>3, <1>6
<1>8. GaugeTypeOK'
  BY <1>1, <1>2, <1>4, <1>5, <1>6, <1>7 DEF GaugeTypeOK
<1>9. WrapsAtPeak'
  BY <1>1, <1>2, <1>6, <1>7 DEF WrapsAtPeak
<1>10. CandidatesReal'
  BY <1>1, <1>4, <1>5, <1>6, <1>7 DEF CandidatesReal, GaugeTypeOK
<1>11. PeakCarried'
  BY <1>1, <1>2, <1>4, <1>5, <1>6, <1>7 DEF PeakCarried
<1> QED
  BY <1>8, <1>9, <1>10, <1>11 DEF IInv

(* decrement() never needs to raise the watermark. *)
LEMMA DecrementStep == ASSUME IInv, NEW t \in Threads, GaugeDecrement(t) PROVE IInv'
<1>1. /\ GaugeTypeOK /\ WrapsAtPeak /\ CandidatesReal /\ PeakCarried
      /\ MaxValue \in Nat /\ MinValue = -MaxValue - 1 /\ MaxOps \in 0 .. MaxValue + 1
  BY GaugeAssumption, OpsAssumption DEF IInv, MinValue
<1>2. /\ thread[t] = Idle /\ ops < MaxOps /\ ops' = ops + 1
      /\ thread' = [thread EXCEPT ![t] = Idle]
      /\ current' = IF current = MinValue THEN MaxValue ELSE current - 1
      /\ peak' = Max({peak, current'}) /\ high_watermark' = high_watermark
  BY DEF GaugeDecrement, Begin
<1>3. /\ peak \in 0 .. MaxValue /\ ops \in 0 .. MaxOps /\ high_watermark \in Int
      /\ current \in MinValue .. MaxValue /\ current <= peak
  BY <1>1 DEF GaugeTypeOK, WrapsAtPeak
<1>4. current = MinValue => peak = MaxValue
  BY <1>1, <1>2, <1>3 DEF WrapsAtPeak
<1>5. current' \in MinValue .. MaxValue /\ current' <= peak
  BY <1>1, <1>2, <1>3, <1>4
<1>6. peak' = peak
  BY <1>1, <1>2, <1>3, <1>5, MaxOfTwo
<1>7. /\ DOMAIN thread' = Threads
      /\ \A u \in Threads : thread'[u] = thread[u]
  BY <1>1, <1>2 DEF GaugeTypeOK
<1>8. GaugeTypeOK'
  BY <1>1, <1>2, <1>3, <1>5, <1>6, <1>7 DEF GaugeTypeOK
<1>9. WrapsAtPeak'
  BY <1>1, <1>2, <1>3, <1>4, <1>5, <1>6 DEF WrapsAtPeak
<1>10. CandidatesReal' /\ PeakCarried'
  BY <1>1, <1>2, <1>6, <1>7 DEF CandidatesReal, PeakCarried
<1> QED
  BY <1>8, <1>9, <1>10 DEF IInv

(* A look at the watermark: a thread gives up only when the watermark is   *)
(* no smaller than its candidate.                                          *)
LEMMA CompareStep ==
  ASSUME IInv, NEW t \in Threads, thread[t].pc \in {"load", "exchange"},
         Compare(t, high_watermark), UNCHANGED <<gauge, ops>>
  PROVE  IInv'
<1> DEFINE c == thread[t].candidate
           r == [pc |-> "exchange", candidate |-> c, observed |-> high_watermark]
<1>1. GaugeTypeOK /\ WrapsAtPeak /\ CandidatesReal /\ PeakCarried
  BY DEF IInv
<1>2. /\ current' = current /\ high_watermark' = high_watermark
      /\ peak' = peak /\ ops' = ops
  BY DEF gauge
<1>3. /\ c \in Int /\ c <= peak /\ peak \in Int /\ high_watermark \in Int
      /\ high_watermark <= peak
  BY <1>1 DEF GaugeTypeOK, CandidatesReal, PeakCarried
<1>4. /\ r.pc = "exchange" /\ r.candidate = c /\ r.observed = high_watermark
      /\ Idle.pc = "idle"
  BY DEF Idle
<1>5. /\ DOMAIN thread' = Threads
      /\ \A u \in Threads : thread'[u] = IF u # t THEN thread[u]
                                         ELSE IF c > high_watermark THEN r ELSE Idle
  BY <1>1 DEF Compare, GaugeTypeOK
<1> HIDE DEF c, r
<1>6. GaugeTypeOK'
  BY <1>1, <1>2, <1>3, <1>4, <1>5 DEF GaugeTypeOK
<1>7. WrapsAtPeak'
  BY <1>1, <1>2 DEF WrapsAtPeak
<1>8. CandidatesReal'
  BY <1>1, <1>2, <1>3, <1>4, <1>5 DEF CandidatesReal
<1>9. PeakCarried'
  BY <1>1, <1>2, <1>3, <1>4, <1>5 DEF PeakCarried, c
<1> QED
  BY <1>6, <1>7, <1>8, <1>9 DEF IInv

(* A successful exchange installs a larger watermark. *)
LEMMA ExchangeStep ==
  ASSUME IInv, NEW t \in Threads, ExchangeWatermark(t),
         high_watermark = thread[t].observed
  PROVE  IInv' /\ high_watermark' > high_watermark
<1> DEFINE c == thread[t].candidate
<1>1. GaugeTypeOK /\ WrapsAtPeak /\ CandidatesReal /\ PeakCarried
  BY DEF IInv
<1>2. /\ thread[t].pc = "exchange" /\ high_watermark' = c
      /\ thread' = [thread EXCEPT ![t] = Idle]
      /\ current' = current /\ peak' = peak /\ ops' = ops
  BY DEF ExchangeWatermark
<1>3. /\ c \in Int /\ c <= peak /\ peak \in Int /\ high_watermark \in Int
      /\ high_watermark < c
  BY <1>1, <1>2 DEF GaugeTypeOK, CandidatesReal
<1>4. /\ DOMAIN thread' = Threads /\ Idle.pc = "idle"
      /\ \A u \in Threads : thread'[u] = IF u # t THEN thread[u] ELSE Idle
  BY <1>1, <1>2 DEF GaugeTypeOK, Idle
<1> HIDE DEF c
<1>5. GaugeTypeOK'
  BY <1>1, <1>2, <1>3, <1>4 DEF GaugeTypeOK
<1>6. WrapsAtPeak' /\ CandidatesReal'
  BY <1>1, <1>2, <1>4 DEF WrapsAtPeak, CandidatesReal
<1>7. PeakCarried'
  BY <1>1, <1>2, <1>3, <1>4 DEF PeakCarried, c
<1> QED
  BY <1>2, <1>3, <1>5, <1>6, <1>7 DEF IInv

(* One step of any thread or of the reader. *)
LEMMA Step == IInv /\ [Next]_vars => IInv' /\ high_watermark' >= high_watermark
<1> SUFFICES ASSUME IInv, [Next]_vars
             PROVE  IInv' /\ high_watermark' >= high_watermark
  OBVIOUS
<1> DEFINE Goal == IInv' /\ high_watermark' >= high_watermark
<1>0. /\ GaugeTypeOK /\ WrapsAtPeak
      /\ MaxValue \in Nat /\ MinValue = -MaxValue - 1 /\ MaxOps \in 0 .. MaxValue + 1
  BY GaugeAssumption, OpsAssumption DEF IInv, MinValue
<1>a. high_watermark \in Int /\ ops \in 0 .. MaxOps
  BY <1>0 DEF GaugeTypeOK
<1>1. ASSUME NEW t \in Threads, NEW a \in Amounts, Increment(t, a) PROVE Goal
  <2>1. /\ thread[t] = Idle /\ ops < MaxOps /\ ops' = ops + 1
        /\ thread' = [thread EXCEPT ![t] = Idle] /\ UNCHANGED gauge
    BY <1>1 DEF Increment, Begin
  <2>2. ops' \in 0 .. MaxOps /\ ops' >= ops
    BY <1>0, <1>a, <2>1
  <2>3. DOMAIN thread' = Threads /\ \A u \in Threads : thread'[u] = thread[u]
    BY <1>0, <2>1 DEF GaugeTypeOK
  <2> QED
    BY <2>1, <2>2, <2>3, OtherStep
<1>2. ASSUME NEW t \in Threads, NEW v \in SetValues, GaugeSet(t, v) PROVE Goal
  <2>1. v \in MinValue .. MaxValue /\ v >= -ops - 1
    BY <1>0, <1>a, GaugeAssumption
  <2>2. Store(t, v, v)
    BY <1>2 DEF GaugeSet
  <2>3. high_watermark' = high_watermark
    BY <2>2 DEF Store
  <2> QED
    BY <1>a, <2>1, <2>2, <2>3, StoreStep
<1>3. ASSUME NEW t \in Threads, GaugeIncrement(t) PROVE Goal
  <2>1. CASE current = MaxValue
    <3>1. Store(t, MinValue, current) /\ MinValue \in MinValue .. MaxValue
      BY <1>0, <1>3, <2>1 DEF GaugeIncrement
    <3>2. high_watermark' = high_watermark
      BY <3>1 DEF Store
    <3> QED
      BY <1>0, <1>a, <2>1, <3>1, <3>2, StoreStep DEF GaugeTypeOK
  <2>2. CASE current # MaxValue
    <3>1. Store(t, current + 1, current + 1) /\ current + 1 \in MinValue .. MaxValue
      BY <1>0, <1>3, <2>2 DEF GaugeIncrement, GaugeTypeOK
    <3>2. high_watermark' = high_watermark
      BY <3>1 DEF Store
    <3> QED
      BY <1>0, <1>a, <3>1, <3>2, StoreStep DEF GaugeTypeOK, WrapsAtPeak
  <2> QED
    BY <2>1, <2>2
<1>4. ASSUME NEW t \in Threads, GaugeDecrement(t) PROVE Goal
  BY <1>a, <1>4, DecrementStep DEF GaugeDecrement
<1>5. ASSUME NEW t \in Threads, LoadWatermark(t) PROVE Goal
  BY <1>a, <1>5, CompareStep DEF LoadWatermark, gauge
<1>6. ASSUME NEW t \in Threads, ExchangeWatermark(t) PROVE Goal
  <2>1. CASE high_watermark = thread[t].observed
    <3>1. IInv' /\ high_watermark' > high_watermark
      BY <1>6, <2>1, ExchangeStep
    <3> QED
      BY <1>a, <3>1 DEF IInv, GaugeTypeOK
  <2>2. CASE high_watermark # thread[t].observed
    BY <1>a, <1>6, <2>2, CompareStep DEF ExchangeWatermark, gauge
  <2> QED
    BY <2>1, <2>2
<1>7. ASSUME NEW t \in Threads, NEW e \in Elapsed, ObserveBegins(t, e) PROVE Goal
  <2> DEFINE r == [pc |-> "observe", sample |-> e, left |-> {"bucket", "sum", "count"}]
  <2>1. /\ thread[t] = Idle /\ ops < MaxOps /\ ops' = ops + 1
        /\ thread' = [thread EXCEPT ![t] = r] /\ UNCHANGED gauge
    BY <1>7 DEF ObserveBegins, Begin
  <2>2. ops' \in 0 .. MaxOps /\ ops' >= ops
    BY <1>0, <1>a, <2>1
  <2>3. Elsewhere(Idle) /\ Elsewhere(r)
    BY DEF Elsewhere, Idle
  <2> HIDE DEF r
  <2>4. /\ DOMAIN thread' = Threads
        /\ \A u \in Threads : thread'[u] = IF u = t THEN r ELSE thread[u]
    BY <1>0, <2>1 DEF GaugeTypeOK
  <2>5. \A u \in Threads : \/ thread'[u] = thread[u]
                           \/ Elsewhere(thread[u]) /\ Elsewhere(thread'[u])
    BY <2>1, <2>3, <2>4
  <2> QED
    BY <2>1, <2>2, <2>4, <2>5, OtherStep
<1>8. ASSUME NEW t \in Threads, NEW u \in {"bucket", "sum", "count"}, ObserveAdds(t, u)
      PROVE  Goal
  <2> DEFINE q == [thread[t] EXCEPT !.left = @ \ {u}]
  <2>1. thread[t].pc = "observe" /\ UNCHANGED <<gauge, ops>>
    BY <1>8 DEF ObserveAdds
  <2>2. /\ thread[t] \in [pc : {"observe"}, sample : Elapsed,
                          left : SUBSET {"bucket", "sum", "count"}]
        /\ DOMAIN thread = Threads
    BY <1>0, <2>1 DEF GaugeTypeOK
  <2>3. q \in [pc : {"observe"}, sample : Elapsed, left : SUBSET {"bucket", "sum", "count"}]
    BY <2>2
  <2>4. q.pc = "observe"
    BY <2>3
  <2>5. Elsewhere(Idle) /\ Elsewhere(thread[t]) /\ Elsewhere(q)
    BY <2>1, <2>2, <2>3, <2>4 DEF Elsewhere, Idle
  <2>6. \/ thread' = [thread EXCEPT ![t] = Idle]
        \/ thread' = [thread EXCEPT ![t] = q]
    BY <1>8 DEF ObserveAdds
  <2> HIDE DEF q
  <2>7. DOMAIN thread' = Threads
    BY <2>2, <2>6
  <2>8. \A v \in Threads : \/ thread'[v] = thread[v]
                           \/ Elsewhere(thread[v]) /\ Elsewhere(thread'[v])
    BY <2>2, <2>5, <2>6
  <2>9. ops' \in 0 .. MaxOps /\ ops' >= ops
    BY <1>0, <1>a, <2>1
  <2> QED
    BY <2>1, <2>7, <2>8, <2>9, OtherStep
<1>9. CASE SnapshotBegins \/ SnapshotLoads \/ Ended \/ UNCHANGED vars
  <2>1. UNCHANGED <<gauge, ops, thread>>
    BY <1>9 DEF SnapshotBegins, SnapshotLoads, Ended, vars
  <2> QED
    BY <1>a, <2>1 DEF gauge, IInv, GaugeTypeOK, WrapsAtPeak, CandidatesReal, PeakCarried
<1> QED
  BY <1>1, <1>2, <1>3, <1>4, <1>5, <1>6, <1>7, <1>8, <1>9
  DEF Next, UpdateGauge, Observe

(* The invariant of the gauge holds of every reachable state. *)
THEOREM Invariance == Spec => []IInv
BY InitIInv, Step, PTL DEF Spec

(* Gauge::update_high_watermark loses no peak: with no update under way    *)
(* the watermark is the largest value the gauge ever had.                  *)
THEOREM WatermarkPeak == Spec => []WatermarkIsPeak
<1>1. IInv => WatermarkIsPeak
  BY DEF IInv, PeakCarried, WatermarkIsPeak
<1> QED
  BY Invariance, <1>1, PTL

(* No compare_exchange_weak of the watermark ever lowers it. *)
THEOREM WatermarkMonotonic == Spec => WatermarkNeverFalls
<1>1. IInv /\ [Next]_vars => [high_watermark' >= high_watermark]_vars
  BY Step
<1> QED
  BY Invariance, <1>1, PTL DEF Spec, WatermarkNeverFalls

-----------------------------------------------------------------------------
(* Every set of natural numbers that has a member has a smallest one, and  *)
(* Min is it.                                                              *)
LEMMA MinIsSmallest ==
  ASSUME NEW S \in SUBSET Nat, S # {}
  PROVE  Min(S) \in S /\ \A y \in S : Min(S) <= y
<1> DEFINE R == OpToRel(<, Nat)
<1>1. IsWellFoundedOn(R, Nat)
  BY NatLessThanWellFounded
<1>2. \A x, y \in Nat : <<y, x>> \in R <=> y < x
  BY DEF OpToRel
<1> HIDE DEF R
<1>3. \E x \in S : \A y \in S : ~(<<y, x>> \in R)
  BY <1>1, WFMin
<1>4. \E x \in S : \A y \in S : x <= y
  <2>1. PICK x \in S : \A y \in S : ~(<<y, x>> \in R)
    BY <1>3
  <2>2. ASSUME NEW y \in S PROVE x <= y
    <3>1. x \in Nat /\ y \in Nat /\ ~(y < x)
      BY <1>2, <2>1
    <3> QED
      BY <3>1
  <2> QED
    BY <2>2
<1> QED
  BY <1>4 DEF Min

(* The bounds increase not only from one to the next: a first bound out of *)
(* order would follow one that is in order.                                *)
LEMMA BoundsIncrease ==
  \A i, j \in DOMAIN UpperBounds : i < j => UpperBounds[i] < UpperBounds[j]
<1>1. /\ DOMAIN UpperBounds = 1 .. Len(UpperBounds) /\ Len(UpperBounds) \in Nat
      /\ \A i \in DOMAIN UpperBounds : UpperBounds[i] \in Int
      /\ \A i \in 2 .. Len(UpperBounds) : UpperBounds[i - 1] < UpperBounds[i]
  BY BoundsAssumption, SampleAssumption DEF ValidBounds
<1> SUFFICES ASSUME NEW i \in DOMAIN UpperBounds
             PROVE  \A j \in DOMAIN UpperBounds : i < j => UpperBounds[i] < UpperBounds[j]
  OBVIOUS
<1> DEFINE Bad == {j \in DOMAIN UpperBounds : i < j /\ ~(UpperBounds[i] < UpperBounds[j])}
<1>2. ASSUME Bad # {} PROVE FALSE
  <2>1. Bad \in SUBSET Nat
    BY <1>1
  <2>2. PICK j \in Bad : \A k \in Bad : j <= k
    <3> HIDE DEF Bad
    <3> QED
      BY <1>2, <2>1, MinIsSmallest
  <2>3. j - 1 \in DOMAIN UpperBounds /\ j - 1 \notin Bad /\ j \in 2 .. Len(UpperBounds)
    <3>1. j - 1 \notin Bad
      <4> HIDE DEF Bad
      <4> QED
        BY <2>1, <2>2
    <3> QED
      BY <1>1, <3>1
  <2>4. UpperBounds[j - 1] < UpperBounds[j]
    BY <1>1, <2>3
  <2>5. i = j - 1 \/ UpperBounds[i] < UpperBounds[j - 1]
    BY <1>1, <2>3
  <2> QED
    BY <1>1, <2>3, <2>4, <2>5
<1> QED
  BY <1>2

(* Histogram::observe puts every sample in exactly one bucket: the one     *)
(* whose bounds enclose it is the one std::lower_bound finds, whatever     *)
(* bounds the constructor accepted.                                        *)
THEOREM BucketExact ==
  \A s \in 0 .. Modulus - 1 :
    /\ lower_bound(s) \in Buckets
    /\ \A i \in Buckets : InBucket(i, s) <=> i = lower_bound(s)
<1> SUFFICES ASSUME NEW s \in 0 .. Modulus - 1
             PROVE  /\ lower_bound(s) \in Buckets
                    /\ \A i \in Buckets : InBucket(i, s) <=> i = lower_bound(s)
  OBVIOUS
<1> DEFINE n == Len(UpperBounds)
           Reach == {i \in DOMAIN UpperBounds : UpperBounds[i] >= s} \cup {n + 1}
           b == lower_bound(s)
<1>1. /\ DOMAIN UpperBounds = 1 .. n /\ n \in Nat /\ s \in Int
      /\ \A i \in DOMAIN UpperBounds : UpperBounds[i] \in Int
  BY BoundsAssumption, SampleAssumption DEF ValidBounds
<1>2. Reach \in SUBSET Nat /\ Reach # {}
  BY <1>1
<1>3. b = Min(Reach)
  BY DEF lower_bound
<1> HIDE DEF b
<1>4. b \in Reach /\ \A i \in Reach : b <= i
  <2> HIDE DEF Reach
  <2> QED
    BY <1>2, <1>3, MinIsSmallest
<1> HIDE DEF n
<1>5. b \in 1 .. n + 1
  BY <1>1, <1>4
<1>6. \A i \in 1 .. n : UpperBounds[i] >= s <=> b <= i
  <2> SUFFICES ASSUME NEW i \in 1 .. n PROVE UpperBounds[i] >= s <=> b <= i
    OBVIOUS
  <2>1. UpperBounds[i] >= s => b <= i
    BY <1>1, <1>4
  <2>2. ASSUME b <= i PROVE UpperBounds[i] >= s
    <3>1. b \in 1 .. n /\ UpperBounds[b] >= s
      BY <1>1, <1>4, <1>5, <2>2
    <3>2. b = i \/ UpperBounds[b] < UpperBounds[i]
      BY <1>1, <1>5, <2>2, <3>1, BoundsIncrease
    <3> QED
      BY <1>1, <3>1, <3>2
  <2> QED
    BY <2>1, <2>2
<1>7. ASSUME NEW i \in 1 .. n + 1 PROVE InBucket(i, s) <=> i = b
  <2>1. (i <= n => s <= UpperBounds[i]) <=> b <= i
    BY <1>1, <1>5, <1>6
  <2>2. (i > 1 => UpperBounds[i - 1] < s) <=> ~(b <= i - 1)
    BY <1>1, <1>5, <1>6
  <2> QED
    BY <1>1, <1>5, <2>1, <2>2 DEF InBucket, n
<1> QED
  BY <1>5, <1>7 DEF Buckets, b, n

-----------------------------------------------------------------------------
(* Sums over a finite set. *)

(* A set with 0 and the successor of each of its naturals has all of them. *)
LEMMA SetOfNaturals ==
  ASSUME NEW F, 0 \in F, \A n \in Nat : n \in F => n + 1 \in F
  PROVE  Nat \subseteq F
<1> DEFINE Bad == Nat \ F
<1>1. ASSUME Bad # {} PROVE FALSE
  <2>1. PICK m \in Bad : \A y \in Bad : m <= y
    <3>1. Bad \in SUBSET Nat
      OBVIOUS
    <3> HIDE DEF Bad
    <3> QED
      BY <1>1, <3>1, MinIsSmallest
  <2>2. m \in Nat /\ m # 0
    OBVIOUS
  <2>3. m - 1 \in Nat /\ (m - 1) + 1 = m /\ ~(m <= m - 1)
    BY <2>2
  <2>4. m - 1 \in F
    BY <2>1, <2>3
  <2> QED
    BY <2>3, <2>4
<1> QED
  BY <1>1

(* The element that a fold takes out of a set first. *)
Chosen(T) == CHOOSE x \in T : TRUE

(* What holds of the empty set, and of a set once it holds of the set      *)
(* without its chosen element, holds of all subsets of a finite set.       *)
LEMMA SubsetInduction ==
  ASSUME NEW S, IsFiniteSet(S), NEW F, {} \in F,
         \A T \in SUBSET S : T # {} /\ T \ {Chosen(T)} \in F => T \in F
  PROVE  \A T \in SUBSET S : T \in F
<1> DEFINE G == {n \in Nat : \A T \in SUBSET S : Cardinality(T) <= n => T \in F}
<1>1. \A T \in SUBSET S : IsFiniteSet(T) /\ Cardinality(T) \in Nat
  BY FS_Subset, FS_CardinalityType
<1>2. 0 \in G
  <2>1. ASSUME NEW T \in SUBSET S, Cardinality(T) <= 0 PROVE T \in F
    <3>1. Cardinality(T) = 0
      BY <1>1, <2>1
    <3>2. T = {}
      BY <1>1, <3>1, FS_EmptySet
    <3> QED
      BY <3>2
  <2> QED
    BY <2>1
<1>3. ASSUME NEW n \in Nat, n \in G PROVE n + 1 \in G
  <2>1. ASSUME NEW T \in SUBSET S, Cardinality(T) <= n + 1 PROVE T \in F
    <3> DEFINE U == T \ {Chosen(T)}
    <3>1. CASE T = {}
      BY <3>1
    <3>2. CASE T # {}
      <4>1. Chosen(T) \in T
        BY <3>2 DEF Chosen
      <4>2. Cardinality(U) = Cardinality(T) - 1 /\ U \in SUBSET S
        BY <1>1, <4>1, FS_RemoveElement
      <4>3. Cardinality(U) <= n
        BY <1>1, <2>1, <4>2
      <4>4. U \in F
        BY <1>3, <4>2, <4>3
      <4> QED
        BY <3>2, <4>4
    <3> QED
      BY <3>1, <3>2
  <2> QED
    BY <2>1
<1> HIDE DEF G
<1>4. Nat \subseteq G
  BY <1>2, <1>3, SetOfNaturals
<1> QED
  BY <1>1, <1>4 DEF G

(* Recurses(g, f, S): g adds up f over every subset of S, taking out the   *)
(* chosen element each time.                                               *)
Recurses(g, f, S) ==
  \A T \in SUBSET S :
    g[T] = IF T = {} THEN 0 ELSE f[Chosen(T)] + g[T \ {Chosen(T)}]

(* SumFunctionOnSet is the last value of such a function. *)
LEMMA SumRecursion ==
  ASSUME NEW S, IsFiniteSet(S), NEW f
  PROVE  \E g : Recurses(g, f, S) /\ SumFunctionOnSet(f, S) = g[S]
<1> DEFINE Body(g, T) == IF T = {} THEN 0 ELSE f[Chosen(T)] + g[T \ {Chosen(T)}]
           Small(n) == {T \in SUBSET S : Cardinality(T) <= n}
           F == {n \in Nat : \E g : \A T \in Small(n) : g[T] = Body(g, T)}
<1>1. \A T \in SUBSET S : IsFiniteSet(T) /\ Cardinality(T) \in Nat
  BY FS_Subset, FS_CardinalityType
<1>2. 0 \in F
  <2> DEFINE g == [T \in SUBSET S |-> 0]
  <2>1. ASSUME NEW T \in Small(0) PROVE g[T] = Body(g, T)
    <3>1. Cardinality(T) = 0
      BY <1>1
    <3>2. T = {}
      BY <1>1, <3>1, FS_EmptySet
    <3> QED
      BY <3>2
  <2> QED
    BY <2>1
<1>3. ASSUME NEW n \in Nat, n \in F PROVE n + 1 \in F
  <2>1. PICK g : \A T \in Small(n) : g[T] = Body(g, T)
    BY <1>3
  <2> DEFINE h == [T \in SUBSET S |-> Body(g, T)]
  <2>2. ASSUME NEW T \in Small(n + 1) PROVE h[T] = Body(h, T)
    <3> DEFINE U == T \ {Chosen(T)}
    <3>1. CASE T = {}
      BY <3>1
    <3>2. CASE T # {}
      <4>1. Chosen(T) \in T
        BY <3>2 DEF Chosen
      <4>2. Cardinality(U) = Cardinality(T) - 1 /\ U \in SUBSET S
        BY <1>1, <4>1, FS_RemoveElement
      <4>3. U \in Small(n)
        BY <1>1, <4>2
      <4>4. g[U] = Body(g, U)
        BY <2>1, <4>3
      <4>5. h[U] = g[U]
        BY <4>2, <4>4
      <4> QED
        BY <3>2, <4>5
    <3> QED
      BY <3>1, <3>2
  <2> HIDE DEF h
  <2> QED
    BY <2>2
<1>4. Cardinality(S) \in F
  <2> HIDE DEF F
  <2> QED
    BY <1>1, <1>2, <1>3, SetOfNaturals
<1>5. PICK k : \A T \in Small(Cardinality(S)) : k[T] = Body(k, T)
  BY <1>4
<1>6. \A T \in SUBSET S : k[T] = Body(k, T)
  BY <1>1, <1>5, FS_Subset
<1> DEFINE r == [T \in SUBSET S |-> k[T]]
<1>7. r = [T \in SUBSET S |-> Body(r, T)]
  BY <1>6
<1> DEFINE g == CHOOSE h : h = [T \in SUBSET S |-> Body(h, T)]
<1>8. g = [T \in SUBSET S |-> Body(g, T)]
  BY <1>7
<1>9. SumFunctionOnSet(f, S) = g[S]
  BY DEF SumFunctionOnSet, FoldFunctionOnSet, MapThenFoldSet, Chosen
<1> HIDE DEF g
<1>10. Recurses(g, f, S)
  BY <1>8 DEF Recurses
<1> QED
  BY <1>9, <1>10

(* A sum of integers is one, and the sum of larger integers is larger. *)
LEMMA SumOrdered ==
  ASSUME NEW S, IsFiniteSet(S), NEW f, NEW g,
         \A s \in S : f[s] \in Int /\ g[s] \in Int /\ f[s] <= g[s]
  PROVE  /\ SumFunctionOnSet(f, S) \in Int /\ SumFunctionOnSet(g, S) \in Int
         /\ SumFunctionOnSet(f, S) <= SumFunctionOnSet(g, S)
<1>1. PICK F : Recurses(F, f, S) /\ SumFunctionOnSet(f, S) = F[S]
  BY SumRecursion
<1>2. PICK G : Recurses(G, g, S) /\ SumFunctionOnSet(g, S) = G[S]
  BY SumRecursion
<1> DEFINE Good == {T \in SUBSET S : F[T] \in Int /\ G[T] \in Int /\ F[T] <= G[T]}
<1>3. {} \in Good
  <2>1. F[{}] = 0 /\ G[{}] = 0
    BY <1>1, <1>2 DEF Recurses
  <2> QED
    BY <2>1
<1>4. ASSUME NEW T \in SUBSET S, T # {}, T \ {Chosen(T)} \in Good PROVE T \in Good
  <2> DEFINE c == Chosen(T)
             U == T \ {c}
  <2>1. c \in S
    BY <1>4 DEF Chosen
  <2>2. F[T] = f[c] + F[U] /\ G[T] = g[c] + G[U]
    BY <1>1, <1>2, <1>4 DEF Recurses
  <2>3. F[U] \in Int /\ G[U] \in Int /\ F[U] <= G[U]
    BY <1>4
  <2>4. f[c] \in Int /\ g[c] \in Int /\ f[c] <= g[c]
    BY <2>1
  <2> HIDE DEF c, U
  <2> QED
    BY <2>2, <2>3, <2>4
<1> HIDE DEF Good
<1>5. S \in Good
  BY <1>3, <1>4, SubsetInduction
<1> QED
  BY <1>1, <1>2, <1>5 DEF Good

(* Two functions that agree on a set have the same sum on it. *)
LEMMA SumSame ==
  ASSUME NEW S, IsFiniteSet(S), NEW f, NEW g, \A s \in S : f[s] \in Int /\ g[s] = f[s]
  PROVE  /\ SumFunctionOnSet(g, S) = SumFunctionOnSet(f, S)
         /\ SumFunctionOnSet(f, S) \in Int
<1>1. \A s \in S : /\ f[s] \in Int /\ g[s] \in Int
                   /\ f[s] <= g[s] /\ g[s] <= f[s]
  OBVIOUS
<1>2. /\ SumFunctionOnSet(f, S) \in Int /\ SumFunctionOnSet(g, S) \in Int
      /\ SumFunctionOnSet(f, S) <= SumFunctionOnSet(g, S)
  BY <1>1, SumOrdered
<1>3. SumFunctionOnSet(g, S) <= SumFunctionOnSet(f, S)
  BY <1>1, SumOrdered
<1> QED
  BY <1>2, <1>3

(* A sum of zeros. *)
LEMMA SumZero ==
  ASSUME NEW S, IsFiniteSet(S), NEW f, \A s \in S : f[s] = 0
  PROVE  SumFunctionOnSet(f, S) = 0
<1>1. PICK F : Recurses(F, f, S) /\ SumFunctionOnSet(f, S) = F[S]
  BY SumRecursion
<1> DEFINE Good == {T \in SUBSET S : F[T] = 0}
<1>2. {} \in Good
  BY <1>1 DEF Recurses
<1>3. ASSUME NEW T \in SUBSET S, T # {}, T \ {Chosen(T)} \in Good PROVE T \in Good
  <2>1. Chosen(T) \in S
    BY <1>3 DEF Chosen
  <2> QED
    BY <1>1, <1>3, <2>1 DEF Recurses
<1> HIDE DEF Good
<1>4. S \in Good
  BY <1>2, <1>3, SubsetInduction
<1> QED
  BY <1>1, <1>4 DEF Good

(* f and g have the same terms on S, except for e. *)
DifferAt(e, f, g, S) ==
  \A s \in S : f[s] \in Int /\ g[s] \in Int /\ (s # e => g[s] = f[s])

(* One term changes, and the sum by as much. *)
LEMMA SumBump ==
  ASSUME NEW S, IsFiniteSet(S), NEW f, NEW g, NEW e \in S, DifferAt(e, f, g, S)
  PROVE  /\ SumFunctionOnSet(f, S) \in Int
         /\ SumFunctionOnSet(g, S) = SumFunctionOnSet(f, S) + (g[e] - f[e])
<1> DEFINE d == g[e] - f[e]
<1>0. /\ d \in Int
      /\ \A s \in S : f[s] \in Int /\ g[s] = IF s = e THEN f[s] + d ELSE f[s]
  BY DEF DifferAt
<1> HIDE DEF d
<1>1. PICK F : Recurses(F, f, S) /\ SumFunctionOnSet(f, S) = F[S]
  BY SumRecursion
<1>2. PICK G : Recurses(G, g, S) /\ SumFunctionOnSet(g, S) = G[S]
  BY SumRecursion
<1> DEFINE Good == {T \in SUBSET S :
                      F[T] \in Int /\ G[T] = IF e \in T THEN F[T] + d ELSE F[T]}
<1>3. {} \in Good
  <2>1. F[{}] = 0 /\ G[{}] = 0
    BY <1>1, <1>2 DEF Recurses
  <2> QED
    BY <2>1
<1>4. ASSUME NEW T \in SUBSET S, T # {}, T \ {Chosen(T)} \in Good PROVE T \in Good
  <2> DEFINE c == Chosen(T)
             U == T \ {c}
  <2>1. c \in S /\ (e \in T <=> (e = c \/ e \in U)) /\ ~(c \in U)
    BY <1>4 DEF Chosen
  <2>2. F[T] = f[c] + F[U] /\ G[T] = g[c] + G[U]
    BY <1>1, <1>2, <1>4 DEF Recurses
  <2>3. F[U] \in Int /\ G[U] = IF e \in U THEN F[U] + d ELSE F[U]
    BY <1>4
  <2>4. f[c] \in Int /\ g[c] = IF c = e THEN f[c] + d ELSE f[c]
    BY <1>0, <2>1
  <2> HIDE DEF c, U
  <2> QED
    BY <1>0, <2>1, <2>2, <2>3, <2>4
<1> HIDE DEF Good
<1>5. S \in Good
  BY <1>3, <1>4, SubsetInduction
<1> QED
  BY <1>1, <1>2, <1>5 DEF Good, d

-----------------------------------------------------------------------------
(* The histogram and its snapshots. *)

(* The threads inside observe(s), and those of them that have yet to make  *)
(* one of its three additions.                                             *)
Observing(s) == {t \in Threads : thread[t].pc = "observe" /\ thread[t].sample = s}
Owing(u, s) == {t \in Observing(s) : u \in thread[t].left}

(* How many samples of each size one of the three additions was made for. *)
Added(u) == [s \in Elapsed |-> begun[s] - Cardinality(Owing(u, s))]

(* The types of the counter, of the histogram and of a snapshot. *)
HistogramTypeOK ==
  /\ value \in Nat /\ bucket_counts \in [Buckets -> Int]
  /\ sample_sum \in Int /\ sample_count \in Int
  /\ begun \in [Elapsed -> Nat] /\ finished \in [Elapsed -> Nat]
  /\ \/ reader = NoSnapshot
     \/ reader \in [pc : {"loading", "done"}, seen : Seq(Int),
                    before : [Elapsed -> Nat], watermark : Int, value : Nat]

(* A sample that was begun and is not finished has a thread working on it. *)
ObserversCounted ==
  \A s \in Elapsed : begun[s] = finished[s] + Cardinality(Observing(s))

(* Each part of the histogram sums up the additions made to it. *)
HistogramAddsUp ==
  /\ sample_count = Total(Added("count"))
  /\ sample_sum = Weighted(Added("sum")) % Modulus
  /\ \A i \in Buckets : bucket_counts[i] = Recorded(Added("bucket"), i)

(* A snapshot knows what was finished before it began, and is done when it *)
(* has loaded everything.                                                  *)
SnapshotPaced ==
  reader.pc # "none" =>
    /\ \A s \in Elapsed : reader.before[s] <= finished[s]
    /\ reader.watermark <= high_watermark /\ reader.value <= value
    /\ IF reader.pc = "done" THEN Len(reader.seen) = Len(UpperBounds) + 6
                             ELSE Len(reader.seen) < Len(UpperBounds) + 6

(* What it has loaded so far. *)
SnapshotBounded ==
  reader.pc # "none" =>
    LET seen == reader.seen IN
    /\ Len(seen) >= 1 => seen[1] \in reader.value .. value
    /\ Len(seen) >= 3 => seen[3] \in reader.watermark .. peak
    /\ Len(seen) >= 4 => seen[4] \in Total(reader.before) .. Total(begun)
    /\ Len(seen) >= 5 /\ reader.before = begun =>
         seen[5] = Weighted(begun) % Modulus
    /\ \A i \in Buckets : Len(seen) >= 5 + i =>
         seen[5 + i] \in Recorded(reader.before, i) .. Recorded(begun, i)

(* The inductive invariant of the histogram and of a snapshot. *)
HInv == HistogramTypeOK /\ ObserversCounted /\ HistogramAddsUp
          /\ SnapshotPaced /\ SnapshotBounded

(* The sets that are summed over are finite; samples are naturals. *)
LEMMA FiniteDomains ==
  /\ IsFiniteSet(Elapsed) /\ IsFiniteSet(Buckets) /\ Elapsed \subseteq Nat
  /\ \A i : IsFiniteSet({s \in Elapsed : InBucket(i, s)})
  /\ Modulus \in Nat \ {0} /\ Len(UpperBounds) \in Nat
<1>1. Modulus \in Nat \ {0} /\ Len(UpperBounds) \in Nat
  <2>1. /\ Len(UpperBounds) \in 1 .. MaxFiniteBuckets /\ UpperBounds[1] \in 0 .. Modulus - 1
        /\ Len(UpperBounds) \in Nat
    <3>1. UpperBounds \in Seq(0 .. Modulus - 1) /\ Len(UpperBounds) \in 1 .. MaxFiniteBuckets
      BY BoundsAssumption DEF ValidBounds
    <3>2. Len(UpperBounds) \in Nat /\ DOMAIN UpperBounds = 1 .. Len(UpperBounds)
      BY <3>1
    <3>3. /\ 1 \in DOMAIN UpperBounds
          /\ \A i \in DOMAIN UpperBounds : UpperBounds[i] \in 0 .. Modulus - 1
      BY <3>1, <3>2, BoundsAssumption, SampleAssumption
    <3> QED
      BY <3>1, <3>2, <3>3
  <2> QED
    BY <2>1, SampleAssumption
<1>2. IsFiniteSet(0 .. Modulus - 1)
  BY <1>1, FS_Interval
<1>3. IsFiniteSet(Elapsed)
  BY <1>2, SampleAssumption, FS_Subset
<1>4. IsFiniteSet(Buckets)
  BY <1>1, FS_Interval DEF Buckets
<1>5. \A i : IsFiniteSet({s \in Elapsed : InBucket(i, s)})
  BY <1>3, FS_Subset
<1> QED
  BY <1>1, <1>3, <1>4, <1>5, SampleAssumption

(* A history with more of every sample has larger sums. *)
LEMMA HistoryOrdered ==
  ASSUME NEW f \in [Elapsed -> Int], NEW g \in [Elapsed -> Int],
         \A s \in Elapsed : f[s] <= g[s]
  PROVE  /\ Total(f) \in Int /\ Total(g) \in Int /\ Total(f) <= Total(g)
         /\ \A i \in Buckets : /\ Recorded(f, i) \in Int /\ Recorded(g, i) \in Int
                               /\ Recorded(f, i) <= Recorded(g, i)
<1>1. \A s \in Elapsed : f[s] \in Int /\ g[s] \in Int /\ f[s] <= g[s]
  OBVIOUS
<1>2. Total(f) \in Int /\ Total(g) \in Int /\ Total(f) <= Total(g)
  BY <1>1, FiniteDomains, SumOrdered DEF Total
<1>3. ASSUME NEW i \in Buckets
      PROVE  /\ Recorded(f, i) \in Int /\ Recorded(g, i) \in Int
             /\ Recorded(f, i) <= Recorded(g, i)
  <2> DEFINE S == {s \in Elapsed : InBucket(i, s)}
  <2>1. IsFiniteSet(S) /\ \A s \in S : f[s] \in Int /\ g[s] \in Int /\ f[s] <= g[s]
    BY <1>1, FiniteDomains
  <2>2. Recorded(f, i) = SumFunctionOnSet(f, S) /\ Recorded(g, i) = SumFunctionOnSet(g, S)
    BY DEF Recorded
  <2> HIDE DEF S
  <2> QED
    BY <2>1, <2>2, SumOrdered
<1> QED
  BY <1>2, <1>3

(* A history with more of one sample: the total and its bucket gain those. *)
LEMMA HistoryBump ==
  ASSUME NEW f, NEW g, NEW e \in Elapsed, DifferAt(e, f, g, Elapsed)
  PROVE  /\ Total(f) \in Int /\ Total(g) = Total(f) + (g[e] - f[e])
         /\ \A i \in Buckets :
              /\ Recorded(f, i) \in Int
              /\ Recorded(g, i) = IF InBucket(i, e) THEN Recorded(f, i) + (g[e] - f[e])
                                                    ELSE Recorded(f, i)
<1>1. Total(f) \in Int /\ Total(g) = Total(f) + (g[e] - f[e])
  BY FiniteDomains, SumBump DEF Total
<1>2. ASSUME NEW i \in Buckets
      PROVE  /\ Recorded(f, i) \in Int
             /\ Recorded(g, i) = IF InBucket(i, e) THEN Recorded(f, i) + (g[e] - f[e])
                                                   ELSE Recorded(f, i)
  <2> DEFINE S == {s \in Elapsed : InBucket(i, s)}
  <2>1. IsFiniteSet(S) /\ (e \in S <=> InBucket(i, e)) /\ DifferAt(e, f, g, S)
    BY FiniteDomains DEF DifferAt
  <2>2. Recorded(f, i) = SumFunctionOnSet(f, S) /\ Recorded(g, i) = SumFunctionOnSet(g, S)
    BY DEF Recorded
  <2> HIDE DEF S
  <2>3. CASE e \in S
    BY <2>1, <2>2, <2>3, SumBump
  <2>4. CASE e \notin S
    <3>1. \A s \in S : f[s] \in Int /\ g[s] = f[s]
      BY <2>1, <2>4 DEF DifferAt
    <3> QED
      BY <2>1, <2>2, <2>4, <3>1, SumSame
  <2> QED
    BY <2>3, <2>4
<1> QED
  BY <1>1, <1>2

(* A history with one more of one sample: the weighted sum gains it. *)
LEMMA WeightedBump ==
  ASSUME NEW f, NEW g, NEW e \in Elapsed, DifferAt(e, f, g, Elapsed), g[e] = f[e] + 1
  PROVE  Weighted(f) \in Int /\ Weighted(g) = Weighted(f) + e
<1> DEFINE F == [s \in Elapsed |-> s * f[s]]
           G == [s \in Elapsed |-> s * g[s]]
<1>1. ASSUME NEW s \in Elapsed
      PROVE  /\ F[s] \in Int /\ G[s] \in Int /\ (s # e => G[s] = F[s])
             /\ (s = e => G[s] - F[s] = e)
  <2>1. s \in Nat /\ f[s] \in Int /\ g[s] = IF s = e THEN f[s] + 1 ELSE f[s]
    BY FiniteDomains DEF DifferAt
  <2>2. \A a, b \in Int : a * b \in Int /\ a * (b + 1) = a * b + a
    OBVIOUS
  <2>3. s * f[s] \in Int /\ s * (f[s] + 1) = s * f[s] + s
    BY <2>1, <2>2
  <2> QED
    BY <2>1, <2>3
<1>2. Weighted(f) = SumFunctionOnSet(F, Elapsed) /\ Weighted(g) = SumFunctionOnSet(G, Elapsed)
  BY DEF Weighted
<1> HIDE DEF F, G
<1>3. e \in Int
  BY FiniteDomains
<1>4. DifferAt(e, F, G, Elapsed)
  BY <1>1 DEF DifferAt
<1>5. Weighted(f) \in Int /\ Weighted(g) = Weighted(f) + (G[e] - F[e])
  BY <1>2, <1>4, FiniteDomains, SumBump
<1> QED
  BY <1>1, <1>3, <1>5

(* The buckets share out the samples of a history: they add up to all of   *)
(* them, because each sample is in exactly one.                            *)
LEMMA BucketsPartition ==
  ASSUME NEW f \in [Elapsed -> Int]
  PROVE  SumFunctionOnSet([i \in Buckets |-> Recorded(f, i)], Buckets) = Total(f)
<1> DEFINE Part(T) == [s \in Elapsed |-> IF s \in T THEN f[s] ELSE 0]
           Share(T) == [i \in Buckets |-> Recorded(Part(T), i)]
           Good == {T \in SUBSET Elapsed :
                      SumFunctionOnSet(Share(T), Buckets) = Total(Part(T))}
<1>1. {} \in Good
  <2>1. \A s \in Elapsed : Part({})[s] = 0
    OBVIOUS
  <2> HIDE DEF Part
  <2>2. Total(Part({})) = 0 /\ \A i \in Buckets : Recorded(Part({}), i) = 0
    BY <2>1, FiniteDomains, SumZero DEF Total, Recorded
  <2>3. \A i \in Buckets : Share({})[i] = 0
    BY <2>2
  <2> HIDE DEF Share
  <2>4. SumFunctionOnSet(Share({}), Buckets) = 0
    BY <2>3, FiniteDomains, SumZero
  <2> QED
    BY <2>2, <2>4
<1>2. ASSUME NEW T \in SUBSET Elapsed, T # {}, T \ {Chosen(T)} \in Good PROVE T \in Good
  <2> DEFINE c == Chosen(T)
             b == lower_bound(c)
             p == Part(T \ {c})
             q == Part(T)
             P == Share(T \ {c})
             Q == Share(T)
  <2>1. c \in T /\ c \in Elapsed
    BY <1>2 DEF Chosen
  <2>2. DifferAt(c, p, q, Elapsed) /\ q[c] = f[c] /\ p[c] = 0 /\ f[c] \in Int
    BY <2>1 DEF DifferAt
  <2>3. b \in Buckets /\ \A i \in Buckets : InBucket(i, c) <=> i = b
    BY <2>1, SampleAssumption, BucketExact
  <2>4. /\ \A i \in Buckets : P[i] = Recorded(p, i) /\ Q[i] = Recorded(q, i)
        /\ SumFunctionOnSet(P, Buckets) = Total(p)
    BY <1>2
  <2>5. T \in Good <=> SumFunctionOnSet(Q, Buckets) = Total(q)
    OBVIOUS
  <2> HIDE DEF Good, c, b, p, q, P, Q, Part, Share
  <2>6. /\ Total(p) \in Int /\ Total(q) = Total(p) + (q[c] - p[c])
        /\ \A i \in Buckets :
             /\ Recorded(p, i) \in Int
             /\ Recorded(q, i) = IF InBucket(i, c) THEN Recorded(p, i) + (q[c] - p[c])
                                                   ELSE Recorded(p, i)
    BY <2>1, <2>2, HistoryBump
  <2>7. q[c] - p[c] = f[c]
    BY <2>2
  <2>8. DifferAt(b, P, Q, Buckets) /\ Q[b] - P[b] = f[c]
    BY <2>2, <2>3, <2>4, <2>6, <2>7 DEF DifferAt
  <2>9. SumFunctionOnSet(Q, Buckets) = SumFunctionOnSet(P, Buckets) + (Q[b] - P[b])
    BY <2>3, <2>8, FiniteDomains, SumBump
  <2> QED
    BY <2>4, <2>5, <2>6, <2>7, <2>8, <2>9
<1>3. Elapsed \in Good
  <2> HIDE DEF Good
  <2> QED
    BY <1>1, <1>2, FiniteDomains, SubsetInduction
<1>4. Part(Elapsed) = f
  OBVIOUS
<1>5. SumFunctionOnSet([i \in Buckets |-> Recorded(Part(Elapsed), i)], Buckets)
        = Total(Part(Elapsed))
  BY <1>3
<1> QED
  BY <1>4, <1>5

(* How many threads are inside observe(s) and owe it an addition. *)
LEMMA ObserversFinite ==
  ASSUME NEW u, NEW s
  PROVE  /\ IsFiniteSet(Observing(s)) /\ IsFiniteSet(Owing(u, s))
         /\ Cardinality(Observing(s)) \in Nat /\ Cardinality(Owing(u, s)) \in Nat
         /\ Cardinality(Owing(u, s)) <= Cardinality(Observing(s))
<1>1. Observing(s) \in SUBSET Threads /\ Owing(u, s) \in SUBSET Observing(s)
  BY DEF Observing, Owing
<1>2. IsFiniteSet(Observing(s))
  BY <1>1, ThreadsAssumption, FS_Subset
<1>3. IsFiniteSet(Owing(u, s)) /\ Cardinality(Owing(u, s)) <= Cardinality(Observing(s))
  BY <1>1, <1>2, FS_Subset
<1> QED
  BY <1>2, <1>3, FS_CardinalityType

(* Every addition was made for the finished samples, and for none that was *)
(* not begun.                                                              *)
LEMMA AddedBetween ==
  ASSUME HistogramTypeOK, ObserversCounted, NEW u
  PROVE  /\ Added(u) \in [Elapsed -> Int]
         /\ \A s \in Elapsed : finished[s] <= Added(u)[s] /\ Added(u)[s] <= begun[s]
<1>1. begun \in [Elapsed -> Nat] /\ finished \in [Elapsed -> Nat]
  BY DEF HistogramTypeOK
<1>2. ASSUME NEW s \in Elapsed
      PROVE  /\ begun[s] - Cardinality(Owing(u, s)) \in Int
             /\ finished[s] <= begun[s] - Cardinality(Owing(u, s))
             /\ begun[s] - Cardinality(Owing(u, s)) <= begun[s]
  <2>1. begun[s] = finished[s] + Cardinality(Observing(s))
    BY DEF ObserversCounted
  <2>2. /\ Cardinality(Observing(s)) \in Nat /\ Cardinality(Owing(u, s)) \in Nat
        /\ Cardinality(Owing(u, s)) <= Cardinality(Observing(s))
    BY ObserversFinite
  <2>3. begun[s] \in Nat /\ finished[s] \in Nat
    BY <1>1
  <2> QED
    BY <2>1, <2>2, <2>3
<1> QED
  BY <1>2 DEF Added

(* A sum that wrapped around goes on as if it had not. *)
LEMMA WrappedSum ==
  ASSUME NEW a \in Int, NEW s \in Int, NEW M \in Int, M > 0
  PROVE  ((a % M) + s) % M = (a + s) % M /\ (a % M) \in Int
<1> DEFINE q == a \div M
           r == a % M
           p == (r + s) \div M
           z == (r + s) % M
<1>1. q \in Int /\ r \in Int /\ a = M * q + r
  BY Z3T(30)
<1>2. p \in Int /\ z \in 0 .. M - 1 /\ r + s = M * p + z
  BY <1>1, Z3T(30)
<1> HIDE DEF q, r, p, z
<1>3. M * (q + p) = M * q + M * p /\ M * q \in Int /\ M * p \in Int /\ q + p \in Int
  BY <1>1, <1>2
<1>4. a + s = M * (q + p) + z
  BY <1>1, <1>2, <1>3
<1>5. \A x \in Int, k \in Int, y \in 0 .. M - 1 : x = M * k + y => x % M = y
  OBVIOUS
<1>6. (a + s) % M = z
  BY <1>2, <1>3, <1>4, <1>5
<1> QED
  BY <1>1, <1>6 DEF r, z

(* A snapshot stays truthful while the metrics it reads only grow, and one *)
(* that an observe() has begun to overlap says nothing exact.              *)
LEMMA SnapshotKept ==
  ASSUME IInv, HInv, HistogramTypeOK', UNCHANGED reader, value' >= value,
         high_watermark' \in Int, high_watermark' >= high_watermark,
         peak' \in Int, peak' >= peak,
         \A s \in Elapsed : finished[s] <= finished'[s] /\ begun[s] <= begun'[s],
         \/ begun' = begun
         \/ \E s \in Elapsed : finished[s] < begun'[s]
  PROVE  SnapshotPaced' /\ SnapshotBounded'
<1>1. SnapshotPaced /\ SnapshotBounded /\ HistogramTypeOK
  BY DEF HInv
<1>2. high_watermark \in Int /\ peak \in Int
  BY DEF IInv, GaugeTypeOK
<1> SUFFICES ASSUME reader.pc # "none" PROVE SnapshotPaced' /\ SnapshotBounded'
  BY DEF SnapshotPaced, SnapshotBounded
<1>3. /\ reader.pc \in {"loading", "done"} /\ reader.seen \in Seq(Int)
      /\ reader.before \in [Elapsed -> Nat] /\ reader.watermark \in Int
      /\ reader.value \in Nat
  BY <1>1 DEF HistogramTypeOK, NoSnapshot
<1>4. /\ value \in Nat /\ value' \in Nat /\ begun \in [Elapsed -> Nat]
      /\ begun' \in [Elapsed -> Nat] /\ finished \in [Elapsed -> Nat]
      /\ finished' \in [Elapsed -> Nat]
  BY <1>1 DEF HistogramTypeOK
<1>5. SnapshotPaced'
  <2>1. \A s \in Elapsed : reader.before[s] <= finished'[s]
    <3>1. \A s \in Elapsed : reader.before[s] <= finished[s]
      BY <1>1 DEF SnapshotPaced
    <3> QED
      BY <1>3, <1>4, <3>1
  <2>2. reader.watermark <= high_watermark' /\ reader.value <= value'
    BY <1>1, <1>2, <1>3, <1>4 DEF SnapshotPaced
  <2> QED
    BY <1>1, <2>1, <2>2 DEF SnapshotPaced
<1>6. /\ Total(begun) \in Int /\ Total(begun') \in Int /\ Total(begun) <= Total(begun')
      /\ \A i \in Buckets : /\ Recorded(begun, i) \in Int /\ Recorded(begun', i) \in Int
                            /\ Recorded(begun, i) <= Recorded(begun', i)
  <2>1. begun \in [Elapsed -> Int] /\ begun' \in [Elapsed -> Int]
    BY <1>4
  <2> QED
    BY <2>1, HistoryOrdered
<1>7. reader.before = begun' => begun' = begun
  <2>1. ASSUME NEW s \in Elapsed, finished[s] < begun'[s] PROVE reader.before # begun'
    <3>1. reader.before[s] <= finished[s]
      BY <1>1 DEF SnapshotPaced
    <3>2. reader.before[s] \in Int /\ finished[s] \in Int /\ begun'[s] \in Int
      BY <1>3, <1>4
    <3> QED
      BY <2>1, <3>1, <3>2
  <2> QED
    BY <2>1
<1> DEFINE seen == reader.seen
<1>8. Len(seen) >= 1 => seen[1] \in reader.value .. value'
  <2>1. Len(seen) >= 1 => seen[1] \in reader.value .. value
    BY <1>1 DEF SnapshotBounded
  <2> QED
    BY <1>3, <1>4, <2>1
<1>9. Len(seen) >= 3 => seen[3] \in reader.watermark .. peak'
  BY <1>1, <1>2, <1>3 DEF SnapshotBounded
<1>10. ASSUME NEW a, NEW b \in Int, NEW c \in Int, NEW x, x \in a .. b, b <= c, a \in Int
       PROVE  x \in a .. c
  BY <1>10
<1>11. Total(reader.before) \in Int /\ \A i \in Buckets : Recorded(reader.before, i) \in Int
  <2>1. reader.before \in [Elapsed -> Int] /\ \A s \in Elapsed : reader.before[s] <= reader.before[s]
    BY <1>3
  <2> QED
    BY <2>1, HistoryOrdered
<1>12. Len(seen) >= 4 => seen[4] \in Total(reader.before) .. Total(begun')
  <2>1. Len(seen) >= 4 => seen[4] \in Total(reader.before) .. Total(begun)
    BY <1>1 DEF SnapshotBounded
  <2> QED
    BY <1>6, <1>10, <1>11, <2>1
<1>13. Len(seen) >= 5 /\ reader.before = begun' => seen[5] = Weighted(begun') % Modulus
  BY <1>1, <1>7 DEF SnapshotBounded
<1>14. ASSUME NEW i \in Buckets, Len(seen) >= 5 + i
       PROVE  seen[5 + i] \in Recorded(reader.before, i) .. Recorded(begun', i)
  <2>1. seen[5 + i] \in Recorded(reader.before, i) .. Recorded(begun, i)
    BY <1>1, <1>14 DEF SnapshotBounded
  <2> QED
    BY <1>6, <1>10, <1>11, <2>1
<1>15. SnapshotBounded'
  BY <1>8, <1>9, <1>12, <1>13, <1>14 DEF SnapshotBounded
<1> QED
  BY <1>5, <1>15

(* A step that leaves the histogram alone and moves no thread into or out  *)
(* of observe() leaves the counts of its observers alone.                  *)
LEMMA HistogramKept ==
  ASSUME HInv, UNCHANGED histogram,
         \A t \in Threads : \/ thread'[t] = thread[t]
                            \/ thread[t].pc # "observe" /\ thread'[t].pc # "observe"
  PROVE  ObserversCounted' /\ HistogramAddsUp'
<1>1. ObserversCounted /\ HistogramAddsUp
  BY DEF HInv
<1>2. /\ bucket_counts' = bucket_counts /\ sample_sum' = sample_sum
      /\ sample_count' = sample_count /\ begun' = begun /\ finished' = finished
  BY DEF histogram
<1>3. ASSUME NEW s PROVE Observing(s)' = Observing(s)
  BY DEF Observing
<1>4. ASSUME NEW u, NEW s PROVE Owing(u, s)' = Owing(u, s)
  BY <1>3 DEF Owing, Observing
<1>5. ASSUME NEW u PROVE Added(u)' = Added(u)
  BY <1>2, <1>4 DEF Added
<1>6. ObserversCounted'
  BY <1>1, <1>2, <1>3 DEF ObserversCounted
<1>7. /\ Added("count")' = Added("count") /\ Added("sum")' = Added("sum")
      /\ Added("bucket")' = Added("bucket")
  BY <1>5
<1>8. HistogramAddsUp'
  BY <1>1, <1>2, <1>7 DEF HistogramAddsUp
<1> QED
  BY <1>6, <1>8

(* observe() begins: the sample is counted among those begun, and none of  *)
(* its additions has been made.                                            *)
LEMMA ObserveBeginsStep ==
  ASSUME IInv, HInv, NEW t \in Threads, NEW e \in Elapsed, ObserveBegins(t, e)
  PROVE  HInv'
<1> DEFINE r == [pc |-> "observe", sample |-> e, left |-> {"bucket", "sum", "count"}]
<1>1. HistogramTypeOK /\ ObserversCounted /\ HistogramAddsUp
  BY DEF HInv
<1>2. /\ thread[t] = Idle /\ thread' = [thread EXCEPT ![t] = r]
      /\ begun' = [begun EXCEPT ![e] = @ + 1]
      /\ value' = value /\ current' = current /\ high_watermark' = high_watermark
      /\ peak' = peak /\ bucket_counts' = bucket_counts /\ sample_sum' = sample_sum
      /\ sample_count' = sample_count /\ finished' = finished /\ reader' = reader
  BY DEF ObserveBegins, Begin, gauge
<1>3. r.pc = "observe" /\ r.sample = e /\ r.left = {"bucket", "sum", "count"}
  OBVIOUS
<1> HIDE DEF r
<1>4. /\ thread[t].pc = "idle"
      /\ \A v \in Threads : thread'[v] = IF v = t THEN r ELSE thread[v]
  BY <1>2 DEF Idle, IInv, GaugeTypeOK
<1>5. /\ \A s : t \notin Observing(s)
      /\ \A s : Observing(s)' = IF s = e THEN Observing(s) \cup {t} ELSE Observing(s)
  BY <1>3, <1>4 DEF Observing
<1>6. ASSUME NEW u \in {"bucket", "sum", "count"}, NEW s
      PROVE  /\ t \notin Owing(u, s)
             /\ Owing(u, s)' = IF s = e THEN Owing(u, s) \cup {t} ELSE Owing(u, s)
  BY <1>3, <1>4 DEF Owing, Observing
<1>7. begun \in [Elapsed -> Nat] /\ begun' \in [Elapsed -> Nat] /\ finished \in [Elapsed -> Nat]
  BY <1>1, <1>2 DEF HistogramTypeOK
<1>8. HistogramTypeOK'
  BY <1>1, <1>2, <1>7 DEF HistogramTypeOK
<1>9. ObserversCounted'
  <2>1. ASSUME NEW s \in Elapsed
        PROVE  begun'[s] = finished'[s] + Cardinality(Observing(s)')
    <3>1. /\ begun[s] = finished[s] + Cardinality(Observing(s))
          /\ begun[s] \in Nat /\ finished[s] \in Nat /\ finished'[s] = finished[s]
          /\ begun'[s] = IF s = e THEN begun[s] + 1 ELSE begun[s]
      BY <1>1, <1>2, <1>7 DEF ObserversCounted
    <3>2. IsFiniteSet(Observing(s)) /\ Cardinality(Observing(s)) \in Nat
      BY ObserversFinite
    <3>3. Cardinality(Observing(s)') =
            IF s = e THEN Cardinality(Observing(s)) + 1 ELSE Cardinality(Observing(s))
      BY <1>5, <3>2, FS_AddElement
    <3> QED
      BY <3>1, <3>2, <3>3
  <2> QED
    BY <2>1 DEF ObserversCounted
<1>10. ASSUME NEW u \in {"bucket", "sum", "count"} PROVE Added(u)' = Added(u)
  <2>1. ASSUME NEW s \in Elapsed
        PROVE  begun'[s] - Cardinality(Owing(u, s)') = begun[s] - Cardinality(Owing(u, s))
    <3>1. begun[s] \in Nat /\ begun'[s] = IF s = e THEN begun[s] + 1 ELSE begun[s]
      BY <1>2, <1>7
    <3>2. IsFiniteSet(Owing(u, s)) /\ Cardinality(Owing(u, s)) \in Nat
      BY ObserversFinite
    <3>3. Cardinality(Owing(u, s)') =
            IF s = e THEN Cardinality(Owing(u, s)) + 1 ELSE Cardinality(Owing(u, s))
      BY <1>6, <3>2, FS_AddElement
    <3> QED
      BY <3>1, <3>2, <3>3
  <2> QED
    BY <2>1 DEF Added
<1>11. /\ Added("count")' = Added("count") /\ Added("sum")' = Added("sum")
       /\ Added("bucket")' = Added("bucket")
  BY <1>10
<1>12. HistogramAddsUp'
  BY <1>1, <1>2, <1>11 DEF HistogramAddsUp
<1>13. SnapshotPaced' /\ SnapshotBounded'
  <2>1. \A s \in Elapsed : finished[s] <= finished'[s] /\ begun[s] <= begun'[s]
    BY <1>2, <1>7
  <2>2. finished[e] < begun'[e]
    <3>1. begun[e] = finished[e] + Cardinality(Observing(e)) /\ Cardinality(Observing(e)) \in Nat
      BY <1>1, ObserversFinite DEF ObserversCounted
    <3>2. begun'[e] = begun[e] + 1 /\ begun[e] \in Nat /\ finished[e] \in Nat
      BY <1>2, <1>7
    <3> QED
      BY <3>1, <3>2
  <2>3. high_watermark \in Int /\ peak \in Int /\ value \in Nat
    BY <1>1 DEF IInv, GaugeTypeOK, HistogramTypeOK
  <2>4. /\ value' >= value /\ high_watermark' \in Int /\ high_watermark' >= high_watermark
        /\ peak' \in Int /\ peak' >= peak
    BY <1>2, <2>3
  <2> QED
    BY <1>2, <1>8, <2>1, <2>2, <2>4, SnapshotKept
<1> QED
  BY <1>8, <1>9, <1>12, <1>13 DEF HInv

(* One of the three additions of observe(): that sum gains the sample, and *)
(* the last of the three finishes it.                                      *)
LEMMA ObserveAddsStep ==
  ASSUME IInv, HInv, NEW t \in Threads, NEW u \in {"bucket", "sum", "count"},
         ObserveAdds(t, u)
  PROVE  HInv'
<1> DEFINE q == [thread[t] EXCEPT !.left = @ \ {u}]
           All == {"bucket", "sum", "count"}
<1>1. HistogramTypeOK /\ ObserversCounted /\ HistogramAddsUp
  BY DEF HInv
<1>2. /\ thread[t].pc = "observe" /\ u \in thread[t].left
      /\ value' = value /\ high_watermark' = high_watermark /\ peak' = peak
      /\ begun' = begun /\ reader' = reader
  BY DEF ObserveAdds, gauge
<1>3. /\ thread[t] \in [pc : {"observe"}, sample : Elapsed, left : SUBSET All]
      /\ DOMAIN thread = Threads
  BY <1>2 DEF IInv, GaugeTypeOK
<1>a. PICK e \in Elapsed : thread[t].sample = e
  BY <1>3
<1>4. /\ q.pc = "observe" /\ q.sample = e
      /\ q.left = thread[t].left \ {u} /\ Idle.pc = "idle"
  BY <1>a, <1>3 DEF Idle
<1>5. \/ /\ thread[t].left = {u} /\ thread' = [thread EXCEPT ![t] = Idle]
         /\ finished' = [finished EXCEPT ![e] = @ + 1]
      \/ thread' = [thread EXCEPT ![t] = q] /\ finished' = finished
  BY <1>a DEF ObserveAdds
<1>6. /\ bucket_counts' = IF u = "bucket"
           THEN [bucket_counts EXCEPT ![lower_bound(e)] = @ + 1] ELSE bucket_counts
      /\ sample_sum' = IF u = "sum" THEN (sample_sum + e) % Modulus ELSE sample_sum
      /\ sample_count' = IF u = "count" THEN sample_count + 1 ELSE sample_count
  BY <1>a DEF ObserveAdds, sum_wrapped
<1>7. begun \in [Elapsed -> Nat] /\ finished \in [Elapsed -> Nat]
  BY <1>1 DEF HistogramTypeOK
<1>8. /\ \A v \in Threads : v # t => thread'[v] = thread[v]
      /\ \/ thread[t].left = {u} /\ thread'[t] = Idle
         \/ thread'[t] = q
  BY <1>3, <1>5
<1> HIDE DEF q
<1>9. ASSUME NEW s
      PROVE  /\ s # e => Observing(s)' = Observing(s) /\ \A w : Owing(w, s)' = Owing(w, s)
             /\ Owing(u, e)' = Owing(u, e) \ {t} /\ t \in Owing(u, e)
             /\ \A w : w # u => Owing(w, e)' = Owing(w, e)
  <2>1. s # e => t \notin Observing(s) /\ t \notin Observing(s)'
    BY <1>a, <1>2, <1>4, <1>8 DEF Observing
  <2>2. s # e => Observing(s)' = Observing(s)
    BY <1>8, <2>1 DEF Observing
  <2>3. ASSUME s # e, NEW w PROVE Owing(w, s)' = Owing(w, s)
    <3>1. \A v \in Observing(s) : v \in Threads /\ v # t
      BY <2>1, <2>3 DEF Observing
    <3>2. \A v \in Observing(s) : thread'[v].left = thread[v].left
      BY <1>8, <3>1
    <3> QED
      BY <2>2, <2>3, <3>2 DEF Owing
  <2>4. t \in Observing(e) /\ t \in Owing(u, e)
    BY <1>a, <1>2 DEF Observing, Owing
  <2>5. \A v \in Threads : v # t =>
          /\ v \in Observing(e)' <=> v \in Observing(e)
          /\ \A w : v \in Owing(w, e)' <=> v \in Owing(w, e)
    BY <1>8 DEF Observing, Owing
  <2>6. \A w : t \in Owing(w, e)' <=> t \in Owing(w, e) /\ w # u
    BY <1>a, <1>2, <1>4, <1>8, <2>4 DEF Observing, Owing
  <2>7. \A w : Owing(w, e)' \subseteq Threads /\ Owing(w, e) \subseteq Threads
    BY DEF Owing, Observing
  <2> QED
    BY <2>2, <2>3, <2>4, <2>5, <2>6, <2>7
<1>10. finished' \in [Elapsed -> Nat] /\ \A s \in Elapsed : finished[s] <= finished'[s]
  BY <1>4, <1>5, <1>7
<1>11. ObserversCounted'
  <2>1. ASSUME NEW s \in Elapsed
        PROVE  begun'[s] = finished'[s] + Cardinality(Observing(s)')
    <3>1. /\ begun[s] = finished[s] + Cardinality(Observing(s)) /\ begun'[s] = begun[s]
          /\ begun[s] \in Nat /\ finished[s] \in Nat
      BY <1>1, <1>2, <1>7 DEF ObserversCounted
    <3>2. IsFiniteSet(Observing(s)) /\ Cardinality(Observing(s)) \in Nat
      BY ObserversFinite
    <3>3. CASE s # e
      <4>1. finished'[s] = finished[s]
        BY <1>4, <1>5, <1>7, <3>3
      <4> QED
        BY <1>9, <3>1, <3>3, <4>1
    <3>4. CASE s = e /\ thread' = [thread EXCEPT ![t] = Idle]
                     /\ finished' = [finished EXCEPT ![e] = @ + 1]
      <4>1. Observing(e)' = Observing(e) \ {t} /\ t \in Observing(e)
        BY <1>a, <1>2, <1>3, <1>4, <3>4 DEF Observing
      <4>2. Cardinality(Observing(e)') = Cardinality(Observing(e)) - 1
        BY <3>2, <3>4, <4>1, FS_RemoveElement
      <4>3. finished'[e] = finished[e] + 1
        BY <1>4, <1>7, <3>4
      <4> QED
        BY <3>1, <3>2, <3>4, <4>2, <4>3
    <3>5. CASE s = e /\ thread' = [thread EXCEPT ![t] = q] /\ finished' = finished
      <4>1. Observing(e)' = Observing(e)
        BY <1>a, <1>2, <1>3, <1>4, <3>5 DEF Observing
      <4> QED
        BY <3>1, <3>5, <4>1
    <3> QED
      BY <1>5, <3>3, <3>4, <3>5
  <2> QED
    BY <2>1 DEF ObserversCounted
<1>12. ASSUME NEW w \in All, w # u PROVE Added(w)' = Added(w)
  <2>1. \A s \in Elapsed : Owing(w, s)' = Owing(w, s)
    BY <1>9, <1>12
  <2> QED
    BY <1>2, <2>1 DEF Added
<1>13. DifferAt(e, Added(u), Added(u)', Elapsed) /\ Added(u)'[e] = Added(u)[e] + 1
  <2>1. ASSUME NEW s \in Elapsed
        PROVE  /\ begun[s] - Cardinality(Owing(u, s)) \in Int
               /\ begun'[s] - Cardinality(Owing(u, s)') =
                    IF s = e THEN begun[s] - Cardinality(Owing(u, s)) + 1
                             ELSE begun[s] - Cardinality(Owing(u, s))
    <3>1. IsFiniteSet(Owing(u, s)) /\ Cardinality(Owing(u, s)) \in Nat
      BY ObserversFinite
    <3>2. Cardinality(Owing(u, s)') =
            IF s = e THEN Cardinality(Owing(u, s)) - 1 ELSE Cardinality(Owing(u, s))
      BY <1>9, <3>1, FS_RemoveElement
    <3>3. begun[s] \in Nat /\ begun'[s] = begun[s]
      BY <1>2, <1>7
    <3> QED
      BY <3>1, <3>2, <3>3
  <2> QED
    BY <1>4, <2>1 DEF Added, DifferAt
<1>14. /\ lower_bound(e) \in Buckets /\ e \in Nat
       /\ \A i \in Buckets : InBucket(i, e) <=> i = lower_bound(e)
  BY <1>4, SampleAssumption, BucketExact
<1>15. /\ Total(Added(u)) \in Int /\ Total(Added(u)') = Total(Added(u)) + 1
       /\ Weighted(Added(u)) \in Int /\ Weighted(Added(u)') = Weighted(Added(u)) + e
       /\ \A i \in Buckets :
            /\ Recorded(Added(u), i) \in Int
            /\ Recorded(Added(u)', i) = IF i = lower_bound(e) THEN Recorded(Added(u), i) + 1
                                                              ELSE Recorded(Added(u), i)
  <2> DEFINE f == Added(u)
             g == Added(u)'
  <2>1. DifferAt(e, f, g, Elapsed) /\ g[e] = f[e] + 1 /\ f[e] \in Int
    BY <1>4, <1>13 DEF DifferAt
  <2> HIDE DEF f, g
  <2>2. g[e] - f[e] = 1
    BY <2>1
  <2>3. /\ Total(f) \in Int /\ Total(g) = Total(f) + (g[e] - f[e])
        /\ \A i \in Buckets :
             /\ Recorded(f, i) \in Int
             /\ Recorded(g, i) = IF InBucket(i, e) THEN Recorded(f, i) + (g[e] - f[e])
                                                   ELSE Recorded(f, i)
    BY <1>4, <2>1, HistoryBump
  <2>4. Weighted(f) \in Int /\ Weighted(g) = Weighted(f) + e
    BY <1>4, <2>1, WeightedBump
  <2> QED
    BY <1>14, <2>2, <2>3, <2>4 DEF f, g
<1>16. HistogramTypeOK'
  <2>1. sample_sum' \in Int
    BY <1>1, <1>6, <1>14, FiniteDomains DEF HistogramTypeOK
  <2>2. bucket_counts' \in [Buckets -> Int] /\ sample_count' \in Int
    BY <1>1, <1>6, <1>14 DEF HistogramTypeOK
  <2> QED
    BY <1>1, <1>2, <1>10, <2>1, <2>2 DEF HistogramTypeOK
<1>17. HistogramAddsUp'
  <2>1. sample_count' = Total(Added("count")')
    <3>1. sample_count = Total(Added("count"))
      BY <1>1 DEF HistogramAddsUp
    <3>2. CASE u = "count"
      BY <1>6, <1>15, <3>1, <3>2
    <3>3. CASE u # "count"
      BY <1>6, <1>12, <3>1, <3>3
    <3> QED
      BY <3>2, <3>3
  <2>2. sample_sum' = Weighted(Added("sum")') % Modulus
    <3>1. sample_sum = Weighted(Added("sum")) % Modulus
      BY <1>1 DEF HistogramAddsUp
    <3>2. CASE u = "sum"
      <4>1. /\ sample_sum' = (sample_sum + e) % Modulus /\ Weighted(Added("sum")) \in Int
            /\ Weighted(Added("sum")') = Weighted(Added("sum")) + e
        BY <1>6, <1>15, <3>2
      <4>2. Modulus \in Int /\ Modulus > 0 /\ e \in Int
        BY <1>14, FiniteDomains
      <4>3. ((Weighted(Added("sum")) % Modulus) + e) % Modulus
              = (Weighted(Added("sum")) + e) % Modulus
        BY <4>1, <4>2, WrappedSum
      <4> QED
        BY <3>1, <4>1, <4>3
    <3>3. CASE u # "sum"
      BY <1>6, <1>12, <3>1, <3>3
    <3> QED
      BY <3>2, <3>3
  <2>3. ASSUME NEW i \in Buckets PROVE bucket_counts'[i] = Recorded(Added("bucket")', i)
    <3>1. bucket_counts[i] = Recorded(Added("bucket"), i) /\ bucket_counts \in [Buckets -> Int]
      BY <1>1 DEF HistogramAddsUp, HistogramTypeOK
    <3>2. CASE u = "bucket"
      <4>1. bucket_counts'[i] = IF i = lower_bound(e) THEN bucket_counts[i] + 1
                                                      ELSE bucket_counts[i]
        BY <1>6, <1>14, <3>1, <3>2
      <4> QED
        BY <1>15, <3>1, <3>2, <4>1
    <3>3. CASE u # "bucket"
      BY <1>6, <1>12, <3>1, <3>3
    <3> QED
      BY <3>2, <3>3
  <2> QED
    BY <2>1, <2>2, <2>3 DEF HistogramAddsUp
<1>18. SnapshotPaced' /\ SnapshotBounded'
  <2>1. high_watermark \in Int /\ peak \in Int /\ value \in Nat
    BY <1>1 DEF IInv, GaugeTypeOK, HistogramTypeOK
  <2>2. /\ value' >= value /\ high_watermark' \in Int /\ high_watermark' >= high_watermark
        /\ peak' \in Int /\ peak' >= peak
        /\ \A s \in Elapsed : finished[s] <= finished'[s] /\ begun[s] <= begun'[s]
    BY <1>2, <1>7, <1>10, <2>1
  <2> QED
    BY <1>2, <1>16, <2>2, SnapshotKept
<1> QED
  BY <1>11, <1>16, <1>17, <1>18 DEF HInv

(* What a snapshot loads, item by item. *)
LEMMA LoadsItems ==
  ASSUME HistogramTypeOK
  PROVE  /\ Len(Loads) = Len(UpperBounds) + 6
         /\ Loads[1] = value /\ Loads[2] = current /\ Loads[3] = high_watermark
         /\ Loads[4] = sample_count /\ Loads[5] = sample_sum
         /\ \A i \in Buckets : Loads[5 + i] = bucket_counts[i]
<1> DEFINE n == Len(UpperBounds)
           five == <<value, current, high_watermark, sample_count, sample_sum>>
<1>1. n \in Nat
  BY FiniteDomains
<1> HIDE DEF n
<1>2. bucket_counts \in [1 .. n + 1 -> Int]
  BY DEF HistogramTypeOK, Buckets, n
<1>3. bucket_counts \in Seq(Int) /\ Len(bucket_counts) = n + 1
  BY <1>1, <1>2
<1> DEFINE W == Int \cup {value, current, high_watermark, sample_count, sample_sum}
<1>4. five \in Seq(W) /\ Len(five) = 5 /\ bucket_counts \in Seq(W)
  BY <1>1, <1>2
<1>5. Len(Loads) = n + 6
  BY <1>1, <1>3 DEF Loads
<1>6. /\ Loads[1] = value /\ Loads[2] = current /\ Loads[3] = high_watermark
      /\ Loads[4] = sample_count /\ Loads[5] = sample_sum
  BY <1>1, <1>3 DEF Loads
<1>7. ASSUME NEW i \in 1 .. n + 1 PROVE Loads[5 + i] = bucket_counts[i]
  <2>1. Loads = five \o bucket_counts
    BY DEF Loads
  <2> HIDE DEF W, five
  <2>2. (five \o bucket_counts)[5 + i] = bucket_counts[i]
    <3>1. \A a, b \in Seq(W) : \A k \in 1 .. Len(b) : (a \o b)[Len(a) + k] = b[k]
      OBVIOUS
    <3>2. i \in 1 .. Len(bucket_counts)
      BY <1>3
    <3> QED
      BY <1>4, <3>1, <3>2
  <2> QED
    BY <2>1, <2>2
<1> QED
  BY <1>5, <1>6, <1>7 DEF Buckets, n

(* MetricsRegistry::snapshot begins: nothing is loaded yet. *)
LEMMA SnapshotBeginsStep == ASSUME IInv, HInv, SnapshotBegins PROVE HInv'
<1>1. /\ HistogramTypeOK /\ ObserversCounted /\ HistogramAddsUp
      /\ high_watermark \in Int
  BY DEF HInv, IInv, GaugeTypeOK
<1>2. /\ reader' = [pc |-> "loading", seen |-> <<>>, before |-> finished,
                    watermark |-> high_watermark, value |-> value]
      /\ UNCHANGED <<value, gauge, histogram, thread>>
  BY DEF SnapshotBegins
<1>3. ObserversCounted' /\ HistogramAddsUp'
  BY <1>2, HistogramKept
<1>4. /\ value' = value /\ finished' = finished /\ high_watermark' = high_watermark
      /\ bucket_counts' = bucket_counts /\ sample_sum' = sample_sum
      /\ sample_count' = sample_count /\ begun' = begun
  BY <1>2 DEF gauge, histogram
<1>5. /\ value \in Nat /\ finished \in [Elapsed -> Nat] /\ <<>> \in Seq(Int)
  BY <1>1 DEF HistogramTypeOK
<1>6. reader' \in [pc : {"loading", "done"}, seen : Seq(Int),
                   before : [Elapsed -> Nat], watermark : Int, value : Nat]
  BY <1>1, <1>2, <1>5
<1>7. HistogramTypeOK'
  BY <1>1, <1>4, <1>6 DEF HistogramTypeOK
<1>8. /\ reader'.pc = "loading" /\ reader'.seen = <<>> /\ reader'.before = finished
      /\ reader'.watermark = high_watermark /\ reader'.value = value
  BY <1>2
<1>9. SnapshotPaced'
  <2>1. Len(<<>>) = 0 /\ Len(UpperBounds) \in Nat
    BY FiniteDomains
  <2> QED
    BY <1>1, <1>4, <1>5, <1>8, <2>1 DEF SnapshotPaced
<1>10. SnapshotBounded'
  <2>1. /\ Len(<<>>) = 0 /\ ~(0 >= 1) /\ ~(0 >= 3) /\ ~(0 >= 4) /\ ~(0 >= 5)
        /\ \A i \in Buckets : ~(0 >= 5 + i)
    BY FiniteDomains DEF Buckets
  <2> QED
    BY <1>8, <2>1 DEF SnapshotBounded
<1> QED
  BY <1>3, <1>7, <1>9, <1>10 DEF HInv

(* One load of the snapshot: each field is between what was finished when  *)
(* the snapshot began and what has been begun, and the sum is that of all  *)
(* samples when no observe() is under way.                                 *)
LEMMA SnapshotLoadsStep == ASSUME IInv, HInv, SnapshotLoads PROVE HInv'
<1> DEFINE n == Len(reader.seen) + 1
           x == Loads[n]
           R == [pc : {"loading", "done"}, seen : Seq(Int),
                 before : [Elapsed -> Nat], watermark : Int, value : Nat]
<1>1. /\ HistogramTypeOK /\ ObserversCounted /\ HistogramAddsUp
      /\ SnapshotPaced /\ SnapshotBounded
      /\ high_watermark \in Int /\ current \in Int /\ peak \in Int /\ high_watermark <= peak
  BY GaugeAssumption DEF HInv, IInv, GaugeTypeOK, PeakCarried, MinValue
<1>2. /\ reader.pc = "loading"
      /\ reader' = [reader EXCEPT !.seen = Append(reader.seen, x),
                      !.pc = IF Len(Append(reader.seen, x)) = Len(Loads) THEN "done" ELSE @]
      /\ UNCHANGED <<value, gauge, histogram, thread>>
  BY DEF SnapshotLoads
<1>3. ObserversCounted' /\ HistogramAddsUp'
  BY <1>2, HistogramKept
<1>4. /\ value' = value /\ finished' = finished /\ high_watermark' = high_watermark
      /\ bucket_counts' = bucket_counts /\ sample_sum' = sample_sum
      /\ sample_count' = sample_count /\ begun' = begun /\ peak' = peak
  BY <1>2 DEF gauge, histogram
<1>5. reader \in R
  BY <1>1, <1>2 DEF HistogramTypeOK, NoSnapshot
<1>6. /\ Len(reader.seen) \in Nat /\ Len(UpperBounds) \in Nat
      /\ n \in 1 .. Len(UpperBounds) + 6
  <2>1. Len(reader.seen) \in Nat /\ Len(UpperBounds) \in Nat
    BY <1>5, FiniteDomains
  <2>2. Len(reader.seen) < Len(UpperBounds) + 6
    BY <1>1, <1>2 DEF SnapshotPaced
  <2> QED
    BY <2>1, <2>2
<1>7. /\ Len(Loads) = Len(UpperBounds) + 6
      /\ Loads[1] = value /\ Loads[2] = current /\ Loads[3] = high_watermark
      /\ Loads[4] = sample_count /\ Loads[5] = sample_sum
      /\ \A i \in Buckets : Loads[5 + i] = bucket_counts[i]
  BY <1>1, LoadsItems
<1>8. x \in Int
  <2>1. CASE n \in 1 .. 5
    BY <1>1, <1>6, <1>7, <2>1 DEF HistogramTypeOK
  <2>2. CASE n > 5
    <3>1. n - 5 \in Buckets /\ 5 + (n - 5) = n
      BY <1>6, <2>2 DEF Buckets
    <3>2. x = bucket_counts[n - 5]
      BY <1>7, <3>1
    <3> QED
      BY <1>1, <3>1, <3>2 DEF HistogramTypeOK
  <2> QED
    BY <1>6, <2>1, <2>2
<1> HIDE DEF x
<1>9. /\ Append(reader.seen, x) \in Seq(Int) /\ Len(Append(reader.seen, x)) = n
      /\ Append(reader.seen, x)[n] = x
      /\ \A k \in 1 .. n - 1 : Append(reader.seen, x)[k] = reader.seen[k]
  <2>1. reader.seen \in Seq(Int)
    BY <1>5
  <2> QED
    BY <1>8, <2>1
<1>10. /\ reader' \in R /\ reader'.seen = Append(reader.seen, x)
       /\ reader'.pc = IF n = Len(UpperBounds) + 6 THEN "done" ELSE "loading"
       /\ reader'.before = reader.before /\ reader'.watermark = reader.watermark
       /\ reader'.value = reader.value
  BY <1>2, <1>5, <1>7, <1>9
<1>11. HistogramTypeOK'
  BY <1>1, <1>4, <1>10 DEF HistogramTypeOK
<1>12. SnapshotPaced'
  BY <1>1, <1>2, <1>4, <1>6, <1>9, <1>10 DEF SnapshotPaced
<1>13. /\ reader.before \in [Elapsed -> Int] /\ begun \in [Elapsed -> Int]
       /\ \A s \in Elapsed : reader.before[s] \in Int /\ finished[s] \in Int /\ begun[s] \in Int
       /\ \A s \in Elapsed : reader.before[s] <= finished[s]
       /\ reader.value \in Nat /\ reader.value <= value /\ value \in Nat
       /\ reader.watermark \in Int /\ reader.watermark <= high_watermark
  BY <1>1, <1>2, <1>5 DEF HistogramTypeOK, SnapshotPaced
<1>14. ASSUME NEW u
       PROVE  /\ Added(u) \in [Elapsed -> Int]
              /\ \A s \in Elapsed : reader.before[s] <= Added(u)[s] /\ Added(u)[s] <= begun[s]
  <2>1. /\ Added(u) \in [Elapsed -> Int]
        /\ \A s \in Elapsed : finished[s] <= Added(u)[s] /\ Added(u)[s] <= begun[s]
    BY <1>1, AddedBetween
  <2> QED
    BY <1>13, <2>1
<1>15. ASSUME NEW u
       PROVE  /\ Total(Added(u)) \in Total(reader.before) .. Total(begun)
              /\ \A i \in Buckets :
                   Recorded(Added(u), i) \in Recorded(reader.before, i) .. Recorded(begun, i)
  <2> DEFINE a == Added(u)
             b == reader.before
  <2>1. /\ a \in [Elapsed -> Int] /\ b \in [Elapsed -> Int]
        /\ \A s \in Elapsed : b[s] <= a[s]
        /\ \A s \in Elapsed : a[s] <= begun[s]
    BY <1>13, <1>14
  <2> HIDE DEF a, b
  <2>2. /\ Total(b) \in Int /\ Total(a) \in Int /\ Total(b) <= Total(a)
        /\ \A i \in Buckets : /\ Recorded(b, i) \in Int /\ Recorded(a, i) \in Int
                              /\ Recorded(b, i) <= Recorded(a, i)
    BY <2>1, HistoryOrdered
  <2>3. /\ Total(begun) \in Int /\ Total(a) <= Total(begun)
        /\ \A i \in Buckets : /\ Recorded(begun, i) \in Int
                              /\ Recorded(a, i) <= Recorded(begun, i)
    BY <1>13, <2>1, HistoryOrdered
  <2>4. Total(a) \in Total(b) .. Total(begun)
    BY <2>2, <2>3
  <2>5. \A i \in Buckets : Recorded(a, i) \in Recorded(b, i) .. Recorded(begun, i)
    BY <2>2, <2>3
  <2> QED
    BY <2>4, <2>5 DEF a, b
<1>16. reader.before = begun => sample_sum = Weighted(begun) % Modulus
  <2>1. ASSUME reader.before = begun PROVE Added("sum") = begun
    <3>1. \A s \in Elapsed : Added("sum")[s] = begun[s]
      BY <1>13, <1>14, <2>1
    <3> QED
      BY <1>13, <1>14, <3>1
  <2> QED
    BY <1>1, <2>1 DEF HistogramAddsUp
<1> DEFINE s0 == reader.seen
           s1 == Append(reader.seen, x)
<1>17. n >= 1 => s1[1] \in reader.value .. value
  <2>1. n = 1 => s1[1] = value
    BY <1>7, <1>9 DEF x
  <2>2. n > 1 => s1[1] = s0[1] /\ Len(s0) >= 1
    BY <1>6, <1>9
  <2>3. Len(s0) >= 1 => s0[1] \in reader.value .. value
    BY <1>1, <1>2 DEF SnapshotBounded
  <2> QED
    BY <1>6, <1>13, <2>1, <2>2, <2>3
<1>18. n >= 3 => s1[3] \in reader.watermark .. peak
  <2>1. n = 3 => s1[3] = high_watermark
    BY <1>7, <1>9 DEF x
  <2>2. n > 3 => s1[3] = s0[3] /\ Len(s0) >= 3
    BY <1>6, <1>9
  <2>3. Len(s0) >= 3 => s0[3] \in reader.watermark .. peak
    BY <1>1, <1>2 DEF SnapshotBounded
  <2> QED
    BY <1>1, <1>6, <1>13, <2>1, <2>2, <2>3
<1>19. n >= 4 => s1[4] \in Total(reader.before) .. Total(begun)
  <2>1. n = 4 => s1[4] = Total(Added("count"))
    BY <1>1, <1>7, <1>9 DEF x, HistogramAddsUp
  <2>2. n > 4 => s1[4] = s0[4] /\ Len(s0) >= 4
    BY <1>6, <1>9
  <2>3. Len(s0) >= 4 => s0[4] \in Total(reader.before) .. Total(begun)
    BY <1>1, <1>2 DEF SnapshotBounded
  <2>4. n >= 4 => n = 4 \/ n > 4
    BY <1>6
  <2> QED
    BY <1>15, <2>1, <2>2, <2>3, <2>4
<1>20. n >= 5 /\ reader.before = begun => s1[5] = Weighted(begun) % Modulus
  <2>1. n = 5 => s1[5] = sample_sum
    BY <1>7, <1>9 DEF x
  <2>2. n > 5 => s1[5] = s0[5] /\ Len(s0) >= 5
    BY <1>6, <1>9
  <2>3. Len(s0) >= 5 /\ reader.before = begun => s0[5] = Weighted(begun) % Modulus
    BY <1>1, <1>2 DEF SnapshotBounded
  <2>4. n >= 5 => n = 5 \/ n > 5
    BY <1>6
  <2> QED
    BY <1>16, <2>1, <2>2, <2>3, <2>4
<1>21. ASSUME NEW i \in Buckets, n >= 5 + i
       PROVE  s1[5 + i] \in Recorded(reader.before, i) .. Recorded(begun, i)
  <2>0. i \in Nat \ {0} /\ 5 + i \in Nat
    BY <1>6 DEF Buckets
  <2>1. n = 5 + i => s1[5 + i] = Recorded(Added("bucket"), i)
    BY <1>1, <1>7, <1>9 DEF x, HistogramAddsUp
  <2>2. n > 5 + i => s1[5 + i] = s0[5 + i] /\ Len(s0) >= 5 + i
    BY <1>6, <1>9, <2>0
  <2>3. Len(s0) >= 5 + i => s0[5 + i] \in Recorded(reader.before, i) .. Recorded(begun, i)
    BY <1>1, <1>2 DEF SnapshotBounded
  <2>4. n = 5 + i \/ n > 5 + i
    BY <1>6, <1>21, <2>0
  <2> QED
    BY <1>15, <2>1, <2>2, <2>3, <2>4
<1>22. SnapshotBounded'
  <2>1. Len(s1) = n
    BY <1>9
  <2> HIDE DEF n, s1
  <2>2. reader'.seen = s1
    BY <1>10 DEF s1
  <2> QED
    BY <1>4, <1>10, <1>17, <1>18, <1>19, <1>20, <1>21, <2>1, <2>2 DEF SnapshotBounded
<1> QED
  BY <1>3, <1>11, <1>12, <1>22 DEF HInv

(* A step of a counter or of a gauge: the snapshot sees them grow. *)
LEMMA OtherMetricStep ==
  ASSUME IInv, IInv', HInv, UNCHANGED <<histogram, reader>>, value' \in Nat, value' >= value,
         high_watermark' >= high_watermark, peak' >= peak,
         \A t \in Threads : \/ thread'[t] = thread[t]
                            \/ thread[t].pc # "observe" /\ thread'[t].pc # "observe"
  PROVE  HInv'
<1>1. HistogramTypeOK
  BY DEF HInv
<1>2. /\ bucket_counts' = bucket_counts /\ sample_sum' = sample_sum
      /\ sample_count' = sample_count /\ begun' = begun /\ finished' = finished
      /\ reader' = reader
  BY DEF histogram
<1>3. HistogramTypeOK'
  BY <1>1, <1>2 DEF HistogramTypeOK
<1>4. ObserversCounted' /\ HistogramAddsUp'
  BY HistogramKept
<1>5. high_watermark' \in Int /\ peak' \in Int
  BY DEF IInv, GaugeTypeOK
<1>6. \A s \in Elapsed : finished[s] <= finished'[s] /\ begun[s] <= begun'[s]
  <2>1. begun \in [Elapsed -> Nat] /\ finished \in [Elapsed -> Nat]
    BY <1>1 DEF HistogramTypeOK
  <2> QED
    BY <1>2, <2>1
<1>7. SnapshotPaced' /\ SnapshotBounded'
  BY <1>2, <1>3, <1>5, <1>6, SnapshotKept
<1> QED
  BY <1>3, <1>4, <1>7 DEF HInv

(* A counter, a gauge and a histogram that nobody has touched. *)
LEMMA InitHInv == Init => HInv
<1> SUFFICES ASSUME Init PROVE HInv
  OBVIOUS
<1>1. /\ value = 0 /\ bucket_counts = [i \in Buckets |-> 0] /\ sample_sum = 0
      /\ sample_count = 0 /\ thread = [t \in Threads |-> Idle] /\ reader = NoSnapshot
      /\ begun = [s \in Elapsed |-> 0] /\ finished = [s \in Elapsed |-> 0]
  BY DEF Init
<1>2. HistogramTypeOK
  BY <1>1 DEF HistogramTypeOK
<1>3. \A s : Observing(s) = {} /\ \A u : Owing(u, s) = {}
  BY <1>1 DEF Observing, Owing, Idle
<1>4. Cardinality({}) = 0
  BY FS_EmptySet
<1>5. ObserversCounted
  BY <1>1, <1>3, <1>4 DEF ObserversCounted
<1>6. ASSUME NEW u PROVE \A s \in Elapsed : Added(u)[s] = 0 /\ s * Added(u)[s] = 0
  <2>1. \A s \in Elapsed : Added(u)[s] = 0
    BY <1>1, <1>3, <1>4 DEF Added
  <2>2. \A s \in Nat : s * 0 = 0
    OBVIOUS
  <2> QED
    BY <2>1, <2>2, FiniteDomains
<1>7. ASSUME NEW u
      PROVE  /\ Total(Added(u)) = 0 /\ Weighted(Added(u)) = 0
             /\ \A i \in Buckets : Recorded(Added(u), i) = 0
  <2> DEFINE f == Added(u)
             w == [s \in Elapsed |-> s * f[s]]
  <2>1. \A s \in Elapsed : f[s] = 0 /\ w[s] = 0
    BY <1>6
  <2>2. Weighted(f) = SumFunctionOnSet(w, Elapsed)
    BY DEF Weighted
  <2> HIDE DEF f, w
  <2>3. Total(f) = 0 /\ Weighted(f) = 0
    BY <2>1, <2>2, FiniteDomains, SumZero DEF Total
  <2>4. ASSUME NEW i \in Buckets PROVE Recorded(f, i) = 0
    <3> DEFINE S == {s \in Elapsed : InBucket(i, s)}
    <3>1. IsFiniteSet(S) /\ \A s \in S : f[s] = 0
      BY <2>1, FiniteDomains
    <3>2. Recorded(f, i) = SumFunctionOnSet(f, S)
      BY DEF Recorded
    <3> HIDE DEF S
    <3> QED
      BY <3>1, <3>2, SumZero
  <2> QED
    BY <2>3, <2>4 DEF f
<1>8. HistogramAddsUp
  <2>1. 0 % Modulus = 0
    BY FiniteDomains
  <2> QED
    BY <1>1, <1>7, <2>1 DEF HistogramAddsUp
<1>9. SnapshotPaced /\ SnapshotBounded
  BY <1>1 DEF SnapshotPaced, SnapshotBounded, NoSnapshot
<1> QED
  BY <1>2, <1>5, <1>8, <1>9 DEF HInv

(* One step of any thread or of the snapshot. *)
LEMMA HistogramStep == IInv /\ HInv /\ [Next]_vars => HInv'
<1> SUFFICES ASSUME IInv, HInv, [Next]_vars PROVE HInv'
  OBVIOUS
<1>1. IInv' /\ high_watermark' >= high_watermark
  BY Step
<1>2. /\ GaugeTypeOK /\ DOMAIN thread = Threads /\ value \in Nat
      /\ peak \in Int /\ high_watermark \in Int /\ current \in MinValue .. MaxValue
      /\ MaxValue \in Nat /\ MinValue \in Int /\ MinValue = -MaxValue - 1 /\ peak >= peak
  BY GaugeAssumption DEF IInv, GaugeTypeOK, HInv, HistogramTypeOK, MinValue
<1>3. ASSUME NEW t \in Threads, NEW a \in Amounts, Increment(t, a) PROVE HInv'
  <2>1. /\ thread[t] = Idle /\ thread' = [thread EXCEPT ![t] = Idle] /\ value' = value + a
        /\ UNCHANGED <<gauge, histogram, reader>>
    BY <1>3 DEF Increment, Begin
  <2>2. value' \in Nat /\ value' >= value
    BY <1>2, <2>1, OpsAssumption
  <2>3. peak' >= peak
    BY <1>2, <2>1 DEF gauge
  <2>4. \A u \in Threads : thread'[u] = thread[u]
    BY <1>2, <2>1
  <2> QED
    BY <1>1, <2>1, <2>2, <2>3, <2>4, OtherMetricStep
<1>4. ASSUME NEW t \in Threads, NEW v \in Int, NEW c, Store(t, v, c) PROVE HInv'
  <2> DEFINE r == [pc |-> "load", candidate |-> c]
  <2>1. /\ thread[t] = Idle /\ thread' = [thread EXCEPT ![t] = r] /\ value' = value
        /\ peak' = Max({peak, v}) /\ UNCHANGED <<histogram, reader>>
    BY <1>4 DEF Store, Begin
  <2>2. thread[t].pc = "idle" /\ r.pc = "load"
    BY <2>1 DEF Idle
  <2> HIDE DEF r
  <2>3. \A u \in Threads : thread'[u] = IF u = t THEN r ELSE thread[u]
    BY <1>2, <2>1
  <2>4. peak' >= peak
    BY <1>2, <2>1, MaxOfTwo
  <2>5. value' \in Nat /\ value' >= value
    BY <1>2, <2>1
  <2> QED
    BY <1>1, <2>1, <2>2, <2>3, <2>4, <2>5, OtherMetricStep
<1>5. ASSUME NEW t \in Threads, NEW v \in SetValues, GaugeSet(t, v) PROVE HInv'
  BY <1>4, <1>5, GaugeAssumption DEF GaugeSet
<1>6. ASSUME NEW t \in Threads, GaugeIncrement(t) PROVE HInv'
  <2>1. CASE current = MaxValue
    BY <1>2, <1>4, <1>6, <2>1 DEF GaugeIncrement
  <2>2. CASE current # MaxValue
    <3>1. current + 1 \in Int
      BY <1>2
    <3> QED
      BY <1>4, <1>6, <2>2, <3>1 DEF GaugeIncrement
  <2> QED
    BY <2>1, <2>2
<1>7. ASSUME NEW t \in Threads, GaugeDecrement(t) PROVE HInv'
  <2>1. /\ thread[t] = Idle /\ thread' = [thread EXCEPT ![t] = Idle] /\ value' = value
        /\ current' = IF current = MinValue THEN MaxValue ELSE current - 1
        /\ peak' = Max({peak, current'}) /\ UNCHANGED <<histogram, reader>>
    BY <1>7 DEF GaugeDecrement, Begin
  <2>2. current' \in Int
    BY <1>2, <2>1
  <2>3. peak' >= peak
    BY <1>2, <2>1, <2>2, MaxOfTwo
  <2>4. \A u \in Threads : thread'[u] = thread[u]
    BY <1>2, <2>1
  <2>5. value' \in Nat /\ value' >= value
    BY <1>2, <2>1
  <2> QED
    BY <1>1, <2>1, <2>3, <2>4, <2>5, OtherMetricStep
<1>8. ASSUME NEW t \in Threads, LoadWatermark(t) \/ ExchangeWatermark(t) PROVE HInv'
  <2> DEFINE r == [pc |-> "exchange", candidate |-> thread[t].candidate,
                   observed |-> high_watermark]
  <2>1. /\ thread[t].pc \in {"load", "exchange"}
        /\ peak' = peak /\ value' = value /\ UNCHANGED <<histogram, reader>>
        /\ \/ thread' = [thread EXCEPT ![t] = Idle]
           \/ thread' = [thread EXCEPT ![t] = r]
    BY <1>8 DEF LoadWatermark, ExchangeWatermark, Compare, gauge
  <2>2. Idle.pc = "idle" /\ r.pc = "exchange"
    BY DEF Idle
  <2> HIDE DEF r
  <2>3. \A u \in Threads : IF u = t THEN thread'[u] \in {Idle, r} ELSE thread'[u] = thread[u]
    BY <1>2, <2>1
  <2>4. value' \in Nat /\ value' >= value /\ peak' >= peak
    BY <1>2, <2>1
  <2> QED
    BY <1>1, <2>1, <2>2, <2>3, <2>4, OtherMetricStep
<1>9. ASSUME NEW t \in Threads, NEW e \in Elapsed, ObserveBegins(t, e) PROVE HInv'
  BY <1>9, ObserveBeginsStep
<1>10. ASSUME NEW t \in Threads, NEW u \in {"bucket", "sum", "count"}, ObserveAdds(t, u)
       PROVE  HInv'
  BY <1>10, ObserveAddsStep
<1>11. CASE SnapshotBegins
  BY <1>11, SnapshotBeginsStep
<1>12. CASE SnapshotLoads
  BY <1>12, SnapshotLoadsStep
<1>13. CASE Ended \/ UNCHANGED vars
  <2>1. /\ thread' = thread /\ value' = value /\ peak' = peak
        /\ UNCHANGED <<histogram, reader>>
    BY <1>13 DEF Ended, vars, gauge
  <2>2. value' \in Nat /\ value' >= value /\ peak' >= peak
    BY <1>2, <2>1
  <2> QED
    BY <1>1, <2>1, <2>2, OtherMetricStep
<1> QED
  BY <1>3, <1>5, <1>6, <1>7, <1>8, <1>9, <1>10, <1>11, <1>12, <1>13
  DEF Next, UpdateGauge, Observe

(* The histogram and the snapshot keep their invariant in every reachable  *)
(* state.                                                                  *)
THEOREM HistogramInvariance == Spec => []HInv
BY Invariance, InitHInv, HistogramStep, PTL DEF Spec

(* MetricsRegistry::snapshot never misses an observe() that had returned,  *)
(* never counts one twice, and is exact when none overlaps it: for any     *)
(* number of threads, any bounds and any interleaving of their additions.  *)
THEOREM SnapshotsTruthful == Spec => []SnapshotTruthful
<1>1. HInv => SnapshotTruthful
  <2> SUFFICES ASSUME HInv, reader.pc = "done"
               PROVE  /\ \A i \in Buckets : Seen.buckets[i] \in
                           Recorded(reader.before, i) .. Recorded(begun, i)
                      /\ Seen.count \in Total(reader.before) .. Total(begun)
                      /\ Seen.high_watermark \in reader.watermark .. peak
                      /\ Seen.value \in reader.value .. value
                      /\ reader.before = begun =>
                           /\ Seen.sum = Weighted(begun) % Modulus
                           /\ Seen.count = SumFunctionOnSet(Seen.buckets, Buckets)
    BY DEF SnapshotTruthful
  <2> DEFINE seen == reader.seen
             n == Len(UpperBounds)
             tail == SubSeq(seen, 6, Len(seen))
  <2>1. /\ HistogramTypeOK /\ SnapshotPaced /\ SnapshotBounded /\ n \in Nat
        /\ begun \in [Elapsed -> Nat]
    BY FiniteDomains DEF HInv, HistogramTypeOK
  <2>2. seen \in Seq(Int) /\ Len(seen) = n + 6
    BY <2>1 DEF HistogramTypeOK, SnapshotPaced, NoSnapshot
  <2>3. /\ Seen.value = seen[1] /\ Seen.high_watermark = seen[3] /\ Seen.count = seen[4]
        /\ Seen.sum = seen[5] /\ Seen.buckets = tail
    BY DEF Seen
  <2> HIDE DEF seen, n
  <2>4. Buckets = 1 .. n + 1
    BY DEF Buckets, n
  <2>5. tail \in [Buckets -> Int] /\ \A i \in Buckets : tail[i] = seen[5 + i]
    <3>1. /\ tail \in Seq(Int) /\ Len(tail) = n + 1
          /\ \A i \in 1 .. n + 1 : tail[i] = seen[5 + i]
      BY <2>1, <2>2
    <3> HIDE DEF tail
    <3>2. tail \in [1 .. n + 1 -> Int]
      BY <2>1, <3>1
    <3> QED
      BY <2>4, <3>1, <3>2
  <2> HIDE DEF tail
  <2>6. /\ seen[1] \in reader.value .. value
        /\ seen[3] \in reader.watermark .. peak
        /\ seen[4] \in Total(reader.before) .. Total(begun)
        /\ reader.before = begun => seen[5] = Weighted(begun) % Modulus
        /\ \A i \in Buckets : seen[5 + i] \in Recorded(reader.before, i) .. Recorded(begun, i)
    <3>1. /\ n + 6 >= 1 /\ n + 6 >= 3 /\ n + 6 >= 4 /\ n + 6 >= 5
          /\ \A i \in Buckets : n + 6 >= 5 + i
      BY <2>1, <2>4
    <3> QED
      BY <2>1, <2>2, <3>1 DEF SnapshotBounded, seen
  <2>7. ASSUME reader.before = begun PROVE seen[4] = SumFunctionOnSet(tail, Buckets)
    <3>1. begun \in [Elapsed -> Int] /\ \A s \in Elapsed : begun[s] <= begun[s]
      BY <2>1
    <3>2. Total(begun) \in Int /\ \A i \in Buckets : Recorded(begun, i) \in Int
      BY <3>1, HistoryOrdered
    <3>3. seen[4] = Total(begun) /\ \A i \in Buckets : seen[5 + i] = Recorded(begun, i)
      BY <2>6, <2>7, <3>2
    <3>4. tail = [i \in Buckets |-> Recorded(begun, i)]
      BY <2>5, <3>3
    <3> QED
      BY <3>1, <3>3, <3>4, BucketsPartition
  <2> QED
    BY <2>3, <2>5, <2>6, <2>7
<1> QED
  BY HistogramInvariance, <1>1, PTL

-----------------------------------------------------------------------------
(* The set-up of a run. *)

(* The types of the registry, the pipelines and the executors. *)
StageEntry == [stage : Stages, latency : {None} \cup ({"stage"} \X Nat \X Stages)]
LiveExecutor == [pc : {"ready", "spent"}, pipeline : Pipelines, metrics : BOOLEAN]
SetupTypeOK ==
  /\ registry = [n \in DOMAIN registry |-> registry[n]]
  /\ IsFiniteSet(DOMAIN registry)
  /\ \A n \in DOMAIN registry : registry[n].kind \in Kinds
  /\ stages \in [Pipelines -> Seq(StageEntry)]
  /\ executor \in [Executors -> {NoExecutor} \cup LiveExecutor]
  /\ touched \subseteq {InflightGauge}

(* The registry holds the runtime metrics of one executor at most, and the *)
(* inflight gauge is used up only by the run of that executor.             *)
OneObserved == \A e, f \in Observed : e = f
GaugeSpent == touched # {} => \E e \in Observed : executor[e].pc = "spent"

(* The metrics that an owner has registered, and the parts of MetricsOwned *)
(* that they are in.                                                       *)
By(owner) == {n \in DOMAIN registry : registry[n].by = owner}
StagesOwn ==
  \A n : n \in By("stage") <=>
    \E p \in Instrumented : \E i \in DOMAIN stages[p] : stages[p][i].latency = n
StagesApart ==
  \A p, q \in Instrumented : \A i \in DOMAIN stages[p], j \in DOMAIN stages[q] :
    stages[p][i].latency = stages[q][j].latency => p = q /\ i = j
ExecutorOwns == By("executor") = IF Observed = {} THEN {} ELSE RuntimeNames
RegistryFits == Cardinality(DOMAIN registry) <= MaxMetrics

(* The inductive invariant of the registry. *)
SInv == SetupTypeOK /\ StagesOwn /\ StagesApart /\ ExecutorOwns /\ RegistryFits
          /\ OneObserved /\ GaugeSpent

(* The names of the runtime metrics: none is a stage's. *)
LEMMA RuntimeFacts ==
  /\ IsFiniteSet(RuntimeNames) /\ Cardinality(RuntimeNames) \in Nat
  /\ RuntimeNames # {} /\ InflightGauge \in RuntimeNames
  /\ \A n \in RuntimeNames : RuntimeMetrics[n] \in Kinds
<1>1. RuntimeNames = ({<<"pipeline", 0, "counter">>} \cup {<<"pipeline", 0, "gauge">>})
                       \cup {<<"pipeline", 0, "histogram">>}
  BY DEF RuntimeNames, Kinds
<1>2. IsFiniteSet({<<"pipeline", 0, "counter">>} \cup {<<"pipeline", 0, "gauge">>})
  BY FS_Singleton, FS_AddElement
<1>3. IsFiniteSet(RuntimeNames)
  BY <1>1, <1>2, FS_AddElement
<1>4. \A n \in RuntimeNames : RuntimeMetrics[n] \in Kinds
  BY DEF RuntimeNames, RuntimeMetrics, Kinds
<1> QED
  BY <1>1, <1>3, <1>4, FS_CardinalityType DEF InflightGauge

(* Metrics whose names are new are added under one owner. *)
LEMMA RegistryGrows ==
  ASSUME SetupTypeOK, NEW m, NEW owner, IsFiniteSet(DOMAIN m),
         DOMAIN m \cap DOMAIN registry = {},
         \A n \in DOMAIN m : m[n].kind \in Kinds /\ m[n].by = owner, Add(m)
  PROVE  /\ registry' = [n \in DOMAIN registry' |-> registry'[n]]
         /\ IsFiniteSet(DOMAIN registry')
         /\ Cardinality(DOMAIN registry') = Cardinality(DOMAIN registry) + Cardinality(DOMAIN m)
         /\ Cardinality(DOMAIN registry) \in Nat
         /\ \A n \in DOMAIN registry' : registry'[n].kind \in Kinds
         /\ By(owner)' = By(owner) \cup DOMAIN m
         /\ \A other : other # owner => By(other)' = By(other)
<1>1. /\ DOMAIN registry' = DOMAIN m \cup DOMAIN registry
      /\ \A n \in DOMAIN m : registry'[n] = m[n]
      /\ \A n \in DOMAIN registry : registry'[n] = registry[n]
      /\ registry' = [n \in DOMAIN registry' |-> registry'[n]]
  BY DEF Add
<1>2. /\ IsFiniteSet(DOMAIN registry) /\ Cardinality(DOMAIN registry) \in Nat
      /\ Cardinality(DOMAIN m) \in Nat
  BY FS_CardinalityType DEF SetupTypeOK
<1>3. /\ IsFiniteSet(DOMAIN registry')
      /\ Cardinality(DOMAIN registry') = Cardinality(DOMAIN registry) + Cardinality(DOMAIN m)
  <2> DEFINE S == DOMAIN registry
             T == DOMAIN m
  <2>1. /\ IsFiniteSet(S) /\ IsFiniteSet(T) /\ S \cap T = {} /\ Cardinality({}) = 0
        /\ Cardinality(S) \in Nat /\ Cardinality(T) \in Nat
    BY <1>2, FS_EmptySet
  <2>2. DOMAIN registry' = S \cup T
    BY <1>1
  <2> HIDE DEF S, T
  <2>3. /\ IsFiniteSet(S \cup T)
        /\ Cardinality(S \cup T) = Cardinality(S) + Cardinality(T) - Cardinality(S \cap T)
    BY <2>1, FS_Union
  <2>4. Cardinality(S \cup T) = Cardinality(S) + Cardinality(T)
    <3>1. Cardinality(S \cap T) = 0
      BY <2>1
    <3>2. \A a, b, c, d \in Int : d = 0 /\ c = a + b - d => c = a + b
      OBVIOUS
    <3> QED
      BY <2>1, <2>3, <3>1
  <2> QED
    BY <2>2, <2>3, <2>4 DEF S, T
<1>4. \A n \in DOMAIN registry' : registry'[n].kind \in Kinds
  BY <1>1 DEF SetupTypeOK
<1>5. By(owner)' = By(owner) \cup DOMAIN m
  BY <1>1 DEF By
<1>6. ASSUME NEW other, other # owner PROVE By(other)' = By(other)
  BY <1>1, <1>6 DEF By
<1> QED
  BY <1>1, <1>2, <1>3, <1>4, <1>5, <1>6

(* A call that leaves the registry, the stages and the executors alone. *)
LEMMA SetupKept ==
  ASSUME SInv, UNCHANGED <<registry, stages, executor, touched>>
  PROVE  SInv'
BY DEF SInv, SetupTypeOK, StagesOwn, StagesApart, ExecutorOwns, RegistryFits, By,
       OneObserved, GaugeSpent, Latencies, Observed

(* add_counter, add_gauge and add_histogram: the name is new, there is     *)
(* room for it, and no stage or executor owns it.                          *)
LEMMA AddMetricStep ==
  ASSUME SInv, NEW name, NEW kind \in Kinds, AddMetric(name, kind)
  PROVE  SInv'
<1>1. /\ SetupTypeOK /\ StagesOwn /\ StagesApart /\ ExecutorOwns
      /\ OneObserved /\ GaugeSpent /\ MaxMetrics \in Nat
  BY SetupAssumption DEF SInv
<1>2. /\ stages' = stages /\ executor' = executor /\ touched' = touched
  BY DEF AddMetric
<1>3. CASE validate_new_name(name) # "ok"
  <2>1. registry' = registry
    BY <1>3 DEF AddMetric
  <2> QED
    BY <1>2, <2>1, SetupKept
<1>4. CASE validate_new_name(name) = "ok"
  <2> DEFINE m == [n \in {name} |-> [kind |-> kind, by |-> "caller"]]
  <2>1. Add(m)
    BY <1>4 DEF AddMetric
  <2>2. name \notin DOMAIN registry /\ ~(Cardinality(DOMAIN registry) >= MaxMetrics)
    BY <1>4 DEF validate_new_name
  <2>3. /\ DOMAIN m = {name} /\ \A n \in DOMAIN m : m[n].kind \in Kinds /\ m[n].by = "caller"
        /\ IsFiniteSet({name}) /\ Cardinality({name}) = 1
    BY FS_Singleton
  <2> HIDE DEF m
  <2>4. /\ registry' = [n \in DOMAIN registry' |-> registry'[n]]
        /\ IsFiniteSet(DOMAIN registry')
        /\ Cardinality(DOMAIN registry') = Cardinality(DOMAIN registry) + Cardinality(DOMAIN m)
        /\ Cardinality(DOMAIN registry) \in Nat
        /\ \A n \in DOMAIN registry' : registry'[n].kind \in Kinds
        /\ \A other : other # "caller" => By(other)' = By(other)
    BY <1>1, <2>1, <2>2, <2>3, RegistryGrows
  <2>5. Cardinality(DOMAIN registry') <= MaxMetrics
    BY <1>1, <2>2, <2>3, <2>4
  <2>6. By("stage")' = By("stage") /\ By("executor")' = By("executor")
    BY <2>4
  <2>7. SetupTypeOK'
    BY <1>1, <1>2, <2>4 DEF SetupTypeOK
  <2>8. StagesOwn' /\ StagesApart'
    BY <1>1, <1>2, <2>6 DEF StagesOwn, StagesApart
  <2>9. ExecutorOwns' /\ OneObserved' /\ GaugeSpent'
    BY <1>1, <1>2, <2>6 DEF ExecutorOwns, OneObserved, GaugeSpent, Observed
  <2> QED
    BY <2>5, <2>7, <2>8, <2>9 DEF SInv, RegistryFits
<1> QED
  BY <1>3, <1>4

(* What a stage adds to its pipeline. *)
LEMMA StageAppended ==
  ASSUME SetupTypeOK, NEW p \in Pipelines, NEW entry \in StageEntry,
         stages' = [stages EXCEPT ![p] = Append(@, entry)]
  PROVE  /\ stages' \in [Pipelines -> Seq(StageEntry)]
         /\ \A q \in Pipelines : q # p => stages'[q] = stages[q]
         /\ DOMAIN stages[p] = 1 .. Len(stages[p]) /\ Len(stages[p]) \in Nat
         /\ DOMAIN stages'[p] = 1 .. Len(stages[p]) + 1
         /\ \A i \in DOMAIN stages[p] : stages'[p][i] = stages[p][i]
         /\ stages'[p][Len(stages[p]) + 1] = entry
<1>1. stages \in [Pipelines -> Seq(StageEntry)] /\ stages[p] \in Seq(StageEntry)
  BY DEF SetupTypeOK
<1>2. stages'[p] = Append(stages[p], entry) /\ Append(stages[p], entry) \in Seq(StageEntry)
  BY <1>1
<1>3. /\ DOMAIN stages[p] = 1 .. Len(stages[p]) /\ Len(stages[p]) \in Nat
      /\ DOMAIN Append(stages[p], entry) = 1 .. Len(stages[p]) + 1
      /\ \A i \in 1 .. Len(stages[p]) : Append(stages[p], entry)[i] = stages[p][i]
      /\ Append(stages[p], entry)[Len(stages[p]) + 1] = entry
  BY <1>1
<1> QED
  BY <1>1, <1>2, <1>3

(* add_stage on a pipeline without metrics, or one that failed. *)
LEMMA AddStageUntimed ==
  ASSUME SInv, NEW p \in Pipelines, NEW stage \in Stages, AddStage(p, stage),
         ~(p \in Instrumented /\ validate_new_name(<<"stage", Len(stages[p]), stage>>) = "ok")
  PROVE  SInv'
<1>1. /\ SetupTypeOK /\ StagesOwn /\ StagesApart /\ ExecutorOwns /\ RegistryFits
      /\ OneObserved /\ GaugeSpent /\ Instrumented \subseteq Pipelines
  BY SetupAssumption DEF SInv
<1>2. executor' = executor /\ touched' = touched /\ registry' = registry
  BY DEF AddStage, None
<1>3. CASE p \in Instrumented
  <2>1. stages' = stages
    BY <1>3 DEF AddStage
  <2> QED
    BY <1>2, <2>1, SetupKept
<1>4. CASE p \notin Instrumented
  <2> DEFINE entry == [stage |-> stage, latency |-> None]
  <2>1. stages' = [stages EXCEPT ![p] = Append(@, entry)]
    BY <1>4 DEF AddStage
  <2>2. entry \in StageEntry
    BY DEF StageEntry
  <2> HIDE DEF entry
  <2>3. /\ stages' \in [Pipelines -> Seq(StageEntry)]
        /\ \A q \in Instrumented : stages'[q] = stages[q]
    BY <1>1, <1>4, <2>1, <2>2, StageAppended
  <2>4. SetupTypeOK'
    BY <1>1, <1>2, <2>3 DEF SetupTypeOK
  <2>5. StagesOwn'
    BY <1>1, <1>2, <2>3 DEF StagesOwn, By
  <2>6. StagesApart'
    <3> SUFFICES ASSUME NEW q \in Instrumented, NEW r \in Instrumented,
                        NEW i \in DOMAIN stages'[q], NEW j \in DOMAIN stages'[r],
                        stages'[q][i].latency = stages'[r][j].latency
                 PROVE  q = r /\ i = j
      BY DEF StagesApart
    <3>1. stages'[q] = stages[q] /\ stages'[r] = stages[r]
      BY <2>3
    <3> QED
      BY <1>1, <3>1 DEF StagesApart
  <2>7. ExecutorOwns' /\ RegistryFits' /\ OneObserved' /\ GaugeSpent'
    BY <1>1, <1>2 DEF ExecutorOwns, RegistryFits, OneObserved, GaugeSpent, Observed, By
  <2> QED
    BY <2>4, <2>5, <2>6, <2>7 DEF SInv
<1> QED
  BY <1>3, <1>4

(* add_stage on a pipeline with metrics: the histogram is new, so it times *)
(* no other stage.                                                         *)
LEMMA AddStageTimed ==
  ASSUME SInv, NEW p \in Instrumented, NEW stage \in Stages, AddStage(p, stage),
         validate_new_name(<<"stage", Len(stages[p]), stage>>) = "ok"
  PROVE  SInv'
<1>1. /\ SetupTypeOK /\ StagesOwn /\ StagesApart /\ ExecutorOwns
      /\ OneObserved /\ GaugeSpent /\ MaxMetrics \in Nat
      /\ Instrumented \subseteq Pipelines /\ p \in Pipelines
  BY SetupAssumption DEF SInv
<1>2. PICK size \in Nat : size = Len(stages[p])
  BY <1>1 DEF SetupTypeOK
<1> DEFINE name == <<"stage", size, stage>>
           entry == [stage |-> stage, latency |-> name]
           m == [n \in {name} |-> [kind |-> "histogram", by |-> "stage"]]
<1>3. name \in {"stage"} \X Nat \X Stages /\ name # None
  BY <1>2 DEF None
<1>4. /\ stages' = [stages EXCEPT ![p] = Append(@, entry)] /\ Add(m)
      /\ executor' = executor /\ touched' = touched
  BY <1>2, <1>3 DEF AddStage
<1>5. name \notin DOMAIN registry /\ ~(Cardinality(DOMAIN registry) >= MaxMetrics)
  BY <1>2 DEF validate_new_name
<1>6. /\ DOMAIN m = {name} /\ \A n \in DOMAIN m : m[n].kind \in Kinds /\ m[n].by = "stage"
      /\ IsFiniteSet({name}) /\ Cardinality({name}) = 1
  BY FS_Singleton DEF Kinds
<1>7. entry \in StageEntry /\ entry.latency = name
  BY <1>3 DEF StageEntry
<1> HIDE DEF m, entry, name
<1>8. /\ registry' = [n \in DOMAIN registry' |-> registry'[n]]
      /\ IsFiniteSet(DOMAIN registry')
      /\ Cardinality(DOMAIN registry') = Cardinality(DOMAIN registry) + Cardinality(DOMAIN m)
      /\ Cardinality(DOMAIN registry) \in Nat
      /\ \A n \in DOMAIN registry' : registry'[n].kind \in Kinds
      /\ By("stage")' = By("stage") \cup DOMAIN m
      /\ \A other : other # "stage" => By(other)' = By(other)
  BY <1>1, <1>4, <1>5, <1>6, RegistryGrows
<1>9. /\ stages' \in [Pipelines -> Seq(StageEntry)]
      /\ \A q \in Pipelines : q # p => stages'[q] = stages[q]
      /\ DOMAIN stages[p] = 1 .. size
      /\ DOMAIN stages'[p] = 1 .. size + 1
      /\ \A i \in DOMAIN stages[p] : stages'[p][i] = stages[p][i]
      /\ stages'[p][size + 1] = entry
  BY <1>1, <1>2, <1>4, <1>7, StageAppended
<1>10. SetupTypeOK'
  BY <1>1, <1>4, <1>8, <1>9 DEF SetupTypeOK
<1>11. RegistryFits'
  BY <1>1, <1>5, <1>6, <1>8 DEF RegistryFits
<1>12. ExecutorOwns' /\ OneObserved' /\ GaugeSpent'
  <2>1. By("executor")' = By("executor")
    BY <1>8
  <2> QED
    BY <1>1, <1>4, <2>1 DEF ExecutorOwns, OneObserved, GaugeSpent, Observed
<1>13. ASSUME NEW q \in Instrumented, NEW k \in DOMAIN stages'[q]
       PROVE  \/ k \in DOMAIN stages[q] /\ stages'[q][k] = stages[q][k]
              \/ q = p /\ k = size + 1 /\ stages'[q][k].latency = name
  <2>1. CASE q # p
    BY <1>1, <1>9, <2>1
  <2>2. CASE q = p
    BY <1>2, <1>7, <1>9, <2>2
  <2> QED
    BY <2>1, <2>2
<1>14. StagesOwn'
  <2>1. By("stage")' = By("stage") \cup {name}
    BY <1>6, <1>8
  <2>2. ASSUME NEW q \in Instrumented, NEW i \in DOMAIN stages[q]
        PROVE  i \in DOMAIN stages'[q] /\ stages'[q][i] = stages[q][i]
    <3>1. CASE q # p
      BY <1>1, <1>9, <3>1
    <3>2. CASE q = p
      <4>1. \A k \in 1 .. size : k \in 1 .. size + 1
        BY <1>2
      <4>2. \A k \in DOMAIN stages[p] : k \in DOMAIN stages'[p] /\ stages'[p][k] = stages[p][k]
        BY <1>9, <4>1
      <4> QED
        BY <3>2, <4>2
    <3> QED
      BY <3>1, <3>2
  <2>3. size + 1 \in DOMAIN stages'[p] /\ stages'[p][size + 1].latency = name
    BY <1>2, <1>7, <1>9
  <2>4. ASSUME NEW n, n \in By("stage")'
        PROVE  \E q \in Instrumented : \E i \in DOMAIN stages'[q] : stages'[q][i].latency = n
    <3>1. CASE n = name
      BY <2>3, <3>1
    <3>2. CASE n \in By("stage")
      <4>1. PICK q \in Instrumented : \E i \in DOMAIN stages[q] : stages[q][i].latency = n
        BY <1>1, <3>2 DEF StagesOwn
      <4>2. PICK i \in DOMAIN stages[q] : stages[q][i].latency = n
        BY <4>1
      <4> QED
        BY <2>2, <4>2
    <3> QED
      BY <2>1, <2>4, <3>1, <3>2
  <2>5. ASSUME NEW q \in Instrumented, NEW i \in DOMAIN stages'[q]
        PROVE  stages'[q][i].latency \in By("stage")'
    <3>1. CASE i \in DOMAIN stages[q] /\ stages'[q][i] = stages[q][i]
      BY <1>1, <2>1, <3>1 DEF StagesOwn
    <3>2. CASE stages'[q][i].latency = name
      BY <2>1, <3>2
    <3> QED
      BY <1>13, <3>1, <3>2
  <2> QED
    BY <2>4, <2>5 DEF StagesOwn
<1>15. ASSUME NEW q \in Instrumented, NEW i \in DOMAIN stages[q]
       PROVE  stages[q][i].latency # name
  <2>1. stages[q][i].latency \in By("stage")
    BY <1>1 DEF StagesOwn
  <2> QED
    BY <1>5, <2>1 DEF By
<1>16. StagesApart'
  <2> SUFFICES ASSUME NEW q \in Instrumented, NEW r \in Instrumented,
                      NEW i \in DOMAIN stages'[q], NEW j \in DOMAIN stages'[r],
                      stages'[q][i].latency = stages'[r][j].latency
               PROVE  q = r /\ i = j
    BY DEF StagesApart
  <2>1. /\ \/ i \in DOMAIN stages[q] /\ stages'[q][i] = stages[q][i]
           \/ q = p /\ i = size + 1 /\ stages'[q][i].latency = name
        /\ \/ j \in DOMAIN stages[r] /\ stages'[r][j] = stages[r][j]
           \/ r = p /\ j = size + 1 /\ stages'[r][j].latency = name
    BY <1>13
  <2> QED
    BY <1>1, <1>15, <2>1 DEF StagesApart
<1> QED
  BY <1>10, <1>11, <1>12, <1>14, <1>16 DEF SInv

(* register_runtime_metrics: the executor gets all of its names, which are *)
(* new and find room, or none.                                             *)
LEMMA Registers ==
  ASSUME SetupTypeOK
  PROVE  \/ register_runtime_metrics.outcome # "ok" /\ register_runtime_metrics.added = {}
         \/ /\ register_runtime_metrics.outcome = "ok"
            /\ register_runtime_metrics.added = RuntimeNames
            /\ RuntimeNames \cap DOMAIN registry = {}
            /\ Cardinality(DOMAIN registry) + Cardinality(RuntimeNames) <= MaxMetrics
<1>1. /\ Cardinality(DOMAIN registry) \in Nat /\ Cardinality(RuntimeNames) \in Nat
      /\ MaxMetrics \in Nat
  BY RuntimeFacts, FS_CardinalityType, SetupAssumption DEF SetupTypeOK
<1> DEFINE full == Cardinality(DOMAIN registry) > MaxMetrics - Cardinality(RuntimeNames)
           taken == \E n \in RuntimeNames, k \in Kinds : find(n, k)
<1>2. CASE full
  BY <1>2 DEF register_runtime_metrics
<1>3. CASE ~full /\ taken
  BY <1>3 DEF register_runtime_metrics
<1>4. CASE ~full /\ ~taken
  <2>1. RuntimeNames \cap DOMAIN registry = {}
    BY <1>4 DEF SetupTypeOK, find
  <2>2. Cardinality(DOMAIN registry) + Cardinality(RuntimeNames) <= MaxMetrics
    BY <1>1, <1>4
  <2>3. register_runtime_metrics = [outcome |-> "ok", added |-> RuntimeNames]
    BY <1>4 DEF register_runtime_metrics
  <2> QED
    BY <2>1, <2>2, <2>3
<1> QED
  BY <1>2, <1>3, <1>4

(* The constructors that register nothing: without metrics, or failed. *)
LEMMA ConstructAlone ==
  ASSUME SInv, NEW e \in Executors, NEW p \in Pipelines, registry' = registry,
         stages' = stages, touched' = touched, executor[e] = NoExecutor,
         \/ executor' = executor
         \/ executor' = [executor EXCEPT ![e] =
                           [pc |-> "ready", pipeline |-> p, metrics |-> FALSE]]
  PROVE  SInv'
<1>1. CASE executor' = executor
  BY <1>1, SetupKept
<1>2. CASE executor' = [executor EXCEPT ![e] =
                          [pc |-> "ready", pipeline |-> p, metrics |-> FALSE]]
  <2>1. /\ SetupTypeOK /\ StagesOwn /\ StagesApart /\ ExecutorOwns /\ RegistryFits
        /\ OneObserved /\ GaugeSpent
    BY DEF SInv
  <2> DEFINE new == [pc |-> "ready", pipeline |-> p, metrics |-> FALSE]
  <2>2. new \in LiveExecutor /\ new.metrics = FALSE
    BY DEF LiveExecutor
  <2> HIDE DEF new
  <2>3. executor \in [Executors -> {NoExecutor} \cup LiveExecutor]
    BY <2>1 DEF SetupTypeOK
  <2>4. /\ executor' \in [Executors -> {NoExecutor} \cup LiveExecutor]
        /\ \A f \in Executors : f # e => executor'[f] = executor[f]
        /\ executor'[e] = new
    BY <1>2, <2>2, <2>3 DEF new
  <2>5. SetupTypeOK'
    BY <2>1, <2>4 DEF SetupTypeOK
  <2>6. Observed' = Observed
    BY <2>2, <2>4 DEF Observed
  <2>7. e \notin Observed
    BY DEF Observed
  <2>8. ExecutorOwns' /\ OneObserved' /\ RegistryFits'
    BY <2>1, <2>6 DEF ExecutorOwns, OneObserved, RegistryFits, By
  <2>9. GaugeSpent'
    <3>1. \A f \in Observed : executor'[f] = executor[f]
      BY <2>4, <2>7 DEF Observed
    <3> QED
      BY <2>1, <2>6, <3>1 DEF GaugeSpent
  <2>10. StagesOwn' /\ StagesApart'
    BY <2>1 DEF StagesOwn, StagesApart, By
  <2> QED
    BY <2>5, <2>8, <2>9, <2>10 DEF SInv
<1> QED
  BY <1>1, <1>2

(* The constructor that registers the runtime metrics: they are new, so no *)
(* executor had them.                                                      *)
LEMMA ConstructObserved ==
  ASSUME SInv, NEW e \in Executors, NEW p \in Pipelines,
         Add([n \in RuntimeNames |-> [kind |-> RuntimeMetrics[n], by |-> "executor"]]),
         stages' = stages, touched' = touched, executor[e] = NoExecutor,
         executor' = [executor EXCEPT ![e] =
                        [pc |-> "ready", pipeline |-> p, metrics |-> TRUE]],
         RuntimeNames \cap DOMAIN registry = {},
         Cardinality(DOMAIN registry) + Cardinality(RuntimeNames) <= MaxMetrics
  PROVE  SInv'
<1>1. /\ SetupTypeOK /\ StagesOwn /\ StagesApart /\ ExecutorOwns
      /\ OneObserved /\ GaugeSpent
  BY DEF SInv
<1> DEFINE m == [n \in RuntimeNames |-> [kind |-> RuntimeMetrics[n], by |-> "executor"]]
           new == [pc |-> "ready", pipeline |-> p, metrics |-> TRUE]
<1>2. /\ DOMAIN m = RuntimeNames
      /\ \A n \in DOMAIN m : m[n].kind \in Kinds /\ m[n].by = "executor"
      /\ IsFiniteSet(RuntimeNames) /\ RuntimeNames # {}
  BY RuntimeFacts
<1>3. Add(m)
  OBVIOUS
<1>4. new \in LiveExecutor /\ new.metrics = TRUE /\ new # NoExecutor
  BY DEF LiveExecutor, NoExecutor
<1>5. executor' = [executor EXCEPT ![e] = new]
  OBVIOUS
<1> HIDE DEF m, new
<1>6. /\ registry' = [n \in DOMAIN registry' |-> registry'[n]]
      /\ IsFiniteSet(DOMAIN registry')
      /\ Cardinality(DOMAIN registry') = Cardinality(DOMAIN registry) + Cardinality(DOMAIN m)
      /\ \A n \in DOMAIN registry' : registry'[n].kind \in Kinds
      /\ By("executor")' = By("executor") \cup DOMAIN m
      /\ \A other : other # "executor" => By(other)' = By(other)
  BY <1>1, <1>2, <1>3, RegistryGrows
<1>7. Observed = {} /\ By("executor") = {}
  BY <1>1, <1>2 DEF ExecutorOwns, By
<1>8. /\ executor' \in [Executors -> {NoExecutor} \cup LiveExecutor]
      /\ \A f \in Executors : f # e => executor'[f] = executor[f]
      /\ executor'[e] = new
  BY <1>1, <1>4, <1>5 DEF SetupTypeOK
<1>9. Observed' = {e}
  BY <1>4, <1>7, <1>8 DEF Observed
<1>10. SetupTypeOK'
  BY <1>1, <1>6, <1>8 DEF SetupTypeOK
<1>11. ExecutorOwns' /\ OneObserved'
  BY <1>2, <1>6, <1>7, <1>9 DEF ExecutorOwns, OneObserved
<1>12. RegistryFits'
  BY <1>2, <1>6 DEF RegistryFits
<1>13. GaugeSpent'
  BY <1>1, <1>7 DEF GaugeSpent
<1>14. StagesOwn' /\ StagesApart'
  <2>1. By("stage")' = By("stage")
    BY <1>6
  <2> QED
    BY <1>1, <2>1 DEF StagesOwn, StagesApart
<1> QED
  BY <1>10, <1>11, <1>12, <1>13, <1>14 DEF SInv

(* Both constructors, whatever their configuration. *)
LEMMA ConstructStep ==
  ASSUME SInv, NEW e \in Executors, NEW p \in Pipelines, NEW c, NEW metrics \in BOOLEAN,
         Construct(e, p, c, metrics)
  PROVE  SInv'
<1>1. SetupTypeOK /\ stages' = stages /\ touched' = touched /\ executor[e] = NoExecutor
  BY DEF SInv, Construct
<1> DEFINE registered == IF metrics /\ validate(c) THEN register_runtime_metrics
                                                   ELSE [outcome |-> "ok", added |-> {}]
           outcome == IF validate(c) THEN registered.outcome ELSE "invalid_argument"
<1>2. /\ Add([n \in registered.added |-> [kind |-> RuntimeMetrics[n], by |-> "executor"]])
      /\ executor' = IF outcome = "ok"
           THEN [executor EXCEPT ![e] = [pc |-> "ready", pipeline |-> p, metrics |-> metrics]]
           ELSE executor
  BY DEF Construct
<1>3. CASE registered.added = {}
  <2>1. registry' = [n \in DOMAIN registry |-> registry[n]]
    BY <1>2, <1>3 DEF Add
  <2>2. registry' = registry
    BY <1>1, <2>1 DEF SetupTypeOK
  <2>3. metrics = FALSE \/ outcome # "ok"
    <3>1. CASE metrics /\ validate(c)
      BY <1>1, <1>3, <3>1, Registers, RuntimeFacts
    <3>2. CASE ~validate(c)
      BY <3>2
    <3> QED
      BY <3>1, <3>2
  <2>4. \/ executor' = executor
        \/ executor' = [executor EXCEPT ![e] =
                          [pc |-> "ready", pipeline |-> p, metrics |-> FALSE]]
    BY <1>2, <2>3
  <2> QED
    BY <1>1, <2>2, <2>4, ConstructAlone
<1>4. CASE registered.added # {}
  <2>1. metrics = TRUE /\ validate(c) /\ registered = register_runtime_metrics
    BY <1>4
  <2>2. /\ registered.outcome = "ok" /\ registered.added = RuntimeNames
        /\ RuntimeNames \cap DOMAIN registry = {}
        /\ Cardinality(DOMAIN registry) + Cardinality(RuntimeNames) <= MaxMetrics
    BY <1>1, <1>4, <2>1, Registers
  <2>3. outcome = "ok"
    BY <2>1, <2>2
  <2>4. /\ Add([n \in RuntimeNames |-> [kind |-> RuntimeMetrics[n], by |-> "executor"]])
        /\ executor' = [executor EXCEPT ![e] =
                          [pc |-> "ready", pipeline |-> p, metrics |-> TRUE]]
    BY <1>2, <2>1, <2>2, <2>3
  <2> QED
    BY <1>1, <2>2, <2>4, ConstructObserved
<1> QED
  BY <1>3, <1>4

(* run(): only the observed executor uses the gauge, and a second run of   *)
(* it is refused before it comes to the gauge.                             *)
LEMMA RunStep ==
  ASSUME SInv, NEW e \in Executors, NEW descriptors, Run(e, descriptors)
  PROVE  SInv' /\ last'.op = "run" /\ last'.outcome # "not_dedicated"
<1>1. /\ SetupTypeOK /\ StagesOwn /\ StagesApart /\ ExecutorOwns /\ RegistryFits
      /\ OneObserved /\ GaugeSpent
  BY DEF SInv
<1> DEFINE used == IF executor[e].metrics THEN {InflightGauge} ELSE {}
           valid == descriptors = "different" /\ stages[executor[e].pipeline] # <<>>
           outcome == IF ~valid THEN "invalid_argument"
                      ELSE IF executor[e].pc = "spent" THEN "logic_error"
                      ELSE IF used \cap touched # {} THEN "not_dedicated"
                      ELSE "ok"
<1>2. /\ executor[e] # NoExecutor /\ registry' = registry /\ stages' = stages
      /\ last' = [op |-> "run", arguments |-> descriptors, outcome |-> outcome]
      /\ executor' = IF valid THEN [executor EXCEPT ![e].pc = "spent"] ELSE executor
      /\ touched' = IF outcome = "ok" THEN touched \cup used ELSE touched
  BY DEF Run, Called
<1>3. executor \in [Executors -> {NoExecutor} \cup LiveExecutor] /\ executor[e] \in LiveExecutor
  BY <1>1, <1>2 DEF SetupTypeOK
<1>4. executor[e].pc \in {"ready", "spent"} /\ executor[e].metrics \in BOOLEAN
  BY <1>3 DEF LiveExecutor
<1>5. valid \in BOOLEAN
  OBVIOUS
<1>6. outcome = "ok" => valid /\ executor[e].pc # "spent"
  BY <1>4
<1>7. outcome # "not_dedicated"
  <2>1. ASSUME executor[e].pc # "spent", used \cap touched # {} PROVE FALSE
    <3>1. e \in Observed /\ touched # {}
      BY <1>2, <2>1 DEF Observed
    <3> QED
      BY <1>1, <2>1, <3>1 DEF OneObserved, GaugeSpent
  <2> QED
    BY <2>1
<1>8. /\ executor' \in [Executors -> {NoExecutor} \cup LiveExecutor]
      /\ \A f \in Executors : f # e => executor'[f] = executor[f]
      /\ executor'[e] # NoExecutor /\ executor'[e].metrics = executor[e].metrics
      /\ valid => executor'[e].pc = "spent"
      /\ executor[e].pc = "spent" => executor'[e].pc = "spent"
  <2>1. CASE valid
    <3> DEFINE new == [executor[e] EXCEPT !.pc = "spent"]
    <3>1. new \in LiveExecutor /\ new.metrics = executor[e].metrics /\ new.pc = "spent"
      BY <1>3 DEF LiveExecutor
    <3>2. new # NoExecutor
      BY <3>1 DEF NoExecutor
    <3>3. executor' = [executor EXCEPT ![e] = new]
      BY <1>2, <1>3, <2>1
    <3> HIDE DEF new
    <3> QED
      BY <1>3, <3>1, <3>2, <3>3
  <2>2. CASE ~valid
    BY <1>2, <1>3, <2>2
  <2> QED
    BY <1>5, <2>1, <2>2
<1> HIDE DEF outcome, valid
<1>9. Observed' = Observed
  BY <1>2, <1>8 DEF Observed
<1>10. touched' \subseteq {InflightGauge}
  BY <1>1, <1>2 DEF SetupTypeOK
<1>11. SetupTypeOK'
  BY <1>1, <1>2, <1>8, <1>10 DEF SetupTypeOK
<1>12. GaugeSpent'
  <2>1. CASE touched = {} /\ touched' # {}
    <3>1. outcome = "ok" /\ executor[e].metrics
      BY <1>2, <1>4, <2>1
    <3>2. e \in Observed' /\ executor'[e].pc = "spent"
      BY <1>2, <1>6, <1>8, <1>9, <3>1 DEF Observed
    <3> QED
      BY <3>2 DEF GaugeSpent
  <2>2. CASE touched # {}
    <3>1. PICK f \in Observed : executor[f].pc = "spent"
      BY <1>1, <2>2 DEF GaugeSpent
    <3>2. executor'[f].pc = "spent"
      BY <1>8, <3>1 DEF Observed
    <3> QED
      BY <1>9, <3>1, <3>2 DEF GaugeSpent
  <2> QED
    BY <2>1, <2>2 DEF GaugeSpent
<1>13. StagesOwn' /\ StagesApart' /\ RegistryFits'
  BY <1>1, <1>2 DEF StagesOwn, StagesApart, RegistryFits, By
<1>14. ExecutorOwns' /\ OneObserved'
  BY <1>1, <1>2, <1>9 DEF ExecutorOwns, OneObserved, By
<1>15. last'.op = "run" /\ last'.outcome # "not_dedicated"
  BY <1>2, <1>7
<1> QED
  BY <1>11, <1>12, <1>13, <1>14, <1>15 DEF SInv

(* The latest call and what it returned: every property of a call is about *)
(* its arguments and its outcome.                                          *)
CallOK ==
  CASE last.op = "config" ->
         /\ last.arguments \in Configs
         /\ last.outcome = IF validate(last.arguments)
              THEN (last.arguments.block_size * last.arguments.max_inflight_buffers)
                     % (SizeMax + 1)
              ELSE -1
    [] last.op = "backend" ->
         /\ last.arguments.config \in BackendConfigs /\ last.arguments.system \in Systems
         /\ last.outcome = create_backend_with(last.arguments.config, last.arguments.system)
    [] last.op = "process" -> last.arguments \in Blocks
    [] last.op = "run" -> last.outcome # "not_dedicated"
    [] OTHER -> TRUE

(* No call has been made, and nothing has been registered. *)
LEMMA InitSInv == SetupInit => SInv /\ CallOK
<1> SUFFICES ASSUME SetupInit PROVE SInv /\ CallOK
  OBVIOUS
<1>1. /\ DOMAIN registry = {} /\ registry = [n \in DOMAIN registry |-> registry[n]]
      /\ stages = [p \in Pipelines |-> <<>>] /\ touched = {} /\ last.op = "none"
      /\ executor = [e \in Executors |-> NoExecutor]
  BY DEF SetupInit
<1>2. Observed = {} /\ \A owner : By(owner) = {}
  BY <1>1 DEF Observed, By
<1>3. SetupTypeOK
  BY <1>1, FS_EmptySet DEF SetupTypeOK
<1>4. \A p \in Pipelines : DOMAIN stages[p] = {}
  BY <1>1
<1>5. StagesOwn /\ StagesApart
  BY <1>2, <1>4, SetupAssumption DEF StagesOwn, StagesApart
<1>6. RegistryFits
  <2>1. Cardinality(DOMAIN registry) = 0 /\ MaxMetrics \in Nat
    BY <1>1, FS_EmptySet, SetupAssumption
  <2> QED
    BY <2>1 DEF RegistryFits
<1>7. ExecutorOwns /\ OneObserved /\ GaugeSpent /\ CallOK
  BY <1>1, <1>2 DEF ExecutorOwns, OneObserved, GaugeSpent, CallOK
<1> QED
  BY <1>3, <1>5, <1>6, <1>7 DEF SInv

(* Every call keeps the invariant, whatever it is given. *)
LEMMA SetupStep == SInv /\ CallOK /\ [SetupNext]_setupVars => SInv' /\ CallOK'
<1> SUFFICES ASSUME SInv, CallOK, [SetupNext]_setupVars PROVE SInv' /\ CallOK'
  OBVIOUS
<1>1. CASE UNCHANGED setupVars
  <2>1. SInv'
    BY <1>1, SetupKept DEF setupVars
  <2> QED
    BY <1>1, <2>1 DEF setupVars, CallOK
<1>2. ASSUME NEW c \in Configs, BufferPoolBytes(c) PROVE SInv' /\ CallOK'
  <2>1. SInv'
    BY <1>2, SetupKept DEF BufferPoolBytes
  <2> QED
    BY <1>2, <2>1 DEF BufferPoolBytes, Called, CallOK
<1>3. ASSUME NEW c \in BackendConfigs, NEW s \in Systems, CreateBackend(c, s)
      PROVE  SInv' /\ CallOK'
  <2>1. SInv'
    BY <1>3, SetupKept DEF CreateBackend
  <2>2. /\ last'.op = "backend" /\ last'.arguments.config = c /\ last'.arguments.system = s
        /\ last'.outcome = create_backend_with(c, s)
    BY <1>3 DEF CreateBackend, Called
  <2> QED
    BY <1>3, <2>1, <2>2 DEF CallOK
<1>4. ASSUME NEW n \in CallerNames, AddMetric(n, "counter") PROVE SInv' /\ CallOK'
  <2>1. SInv'
    BY <1>4, AddMetricStep DEF Kinds
  <2>2. last'.op = "metric"
    BY <1>4 DEF AddMetric, Called
  <2> QED
    BY <2>1, <2>2 DEF CallOK
<1>5. ASSUME NEW p \in Pipelines, NEW s \in Stages, AddStage(p, s) PROVE SInv' /\ CallOK'
  <2>1. SInv'
    BY <1>5, AddStageUntimed, AddStageTimed
  <2>2. last'.op = "stage"
    BY <1>5 DEF AddStage, Called
  <2> QED
    BY <2>1, <2>2 DEF CallOK
<1>6. ASSUME NEW p \in Pipelines, AddNullStage(p) PROVE SInv' /\ CallOK'
  <2>1. SInv' /\ last'.op = "stage"
    BY <1>6, SetupKept DEF AddNullStage, Called
  <2> QED
    BY <2>1 DEF CallOK
<1>7. ASSUME NEW p \in Pipelines, NEW b \in Blocks, Process(p, b) PROVE SInv' /\ CallOK'
  <2>1. SInv' /\ last'.op = "process" /\ last'.arguments = b
    BY <1>7, SetupKept DEF Process, Called
  <2> QED
    BY <2>1 DEF CallOK
<1>8. ASSUME NEW e \in Executors, NEW p \in Pipelines, NEW metrics \in BOOLEAN, NEW c,
             Construct(e, p, c, metrics)
      PROVE  SInv' /\ CallOK'
  <2>1. SInv'
    BY <1>8, ConstructStep
  <2>2. last'.op = "construct"
    BY <1>8 DEF Construct, Called
  <2> QED
    BY <2>1, <2>2 DEF CallOK
<1>9. ASSUME NEW e \in Executors, NEW d, Run(e, d) PROVE SInv' /\ CallOK'
  <2>1. SInv' /\ last'.op = "run" /\ last'.outcome # "not_dedicated"
    BY <1>9, RunStep
  <2> QED
    BY <2>1 DEF CallOK
<1> QED
  BY <1>1, <1>2, <1>3, <1>4, <1>5, <1>6, <1>7, <1>8, <1>9
     DEF SetupNext, PureCall, PipelineCall, ExecutorCall

(* The invariant holds throughout the set-up. *)
THEOREM SetupInvariance == SetupSpec => [](SInv /\ CallOK)
BY InitSInv, SetupStep, PTL DEF SetupSpec

(* Every metric in the registry has exactly one owner with all of its      *)
(* metrics, failed calls leave nothing behind, and no run is given a gauge *)
(* that was used before.                                                   *)
THEOREM RegistryOwned == SetupSpec => []MetricsOwned
<1>1. SInv /\ CallOK => MetricsOwned
  <2> SUFFICES ASSUME SInv, CallOK PROVE MetricsOwned
    OBVIOUS
  <2>1. {n \in DOMAIN registry : registry[n].by = "stage"} =
          UNION {Latencies(p) : p \in Instrumented}
    <3>1. \A n : n \in By("stage") <=> \E p \in Instrumented : n \in Latencies(p)
      BY DEF SInv, StagesOwn, Latencies
    <3> QED
      BY <3>1 DEF By
  <2>2. {n \in DOMAIN registry : registry[n].by = "executor"} =
          IF Observed = {} THEN {} ELSE RuntimeNames
    BY DEF SInv, ExecutorOwns, By
  <2>3. Cardinality(Observed) <= 1
    <3>1. CASE Observed = {}
      <4>1. Cardinality(Observed) = 0
        BY <3>1, FS_EmptySet
      <4> QED
        BY <4>1
    <3>2. CASE Observed # {}
      <4>1. PICK e \in Observed : TRUE
        BY <3>2
      <4>2. Observed = {e}
        BY <4>1 DEF SInv, OneObserved
      <4>3. Cardinality(Observed) = 1
        BY <4>2, FS_Singleton
      <4> QED
        BY <4>3
    <3> QED
      BY <3>1, <3>2
  <2>4. last.op = "run" => last.outcome # "not_dedicated"
    BY DEF CallOK
  <2> QED
    BY <2>1, <2>2, <2>3, <2>4 DEF SInv, StagesApart, RegistryFits, MetricsOwned
<1> QED
  BY <1>1, SetupInvariance, PTL

(* What the factory does with one candidate. *)
LEMMA CandidateOutcomes ==
  ASSUME NEW c \in BackendConfigs, NEW s \in Systems
  PROVE  /\ \/ create_uring(c, s) = "invalid_argument" /\ c.uring_queue_depth = 0
            \/ /\ create_uring(c, s) = "uring" /\ c.uring_queue_depth # 0
               /\ s.uring /\ ~(c.uring_queue_depth > MaxEntries)
            \/ /\ create_uring(c, s) = "system_error" /\ c.uring_queue_depth # 0
               /\ s.uring => c.uring_queue_depth > MaxEntries
         /\ \/ /\ create_thread_pool(c, s) \in {"invalid_argument", "bad_alloc"}
               /\ c.thread_pool_worker_count = 0 \/ c.max_inflight \notin 1 .. MaxEntries
            \/ /\ create_thread_pool(c, s) = "thread_pool" /\ s.threads
               /\ ~(c.thread_pool_worker_count = 0 \/ c.max_inflight \notin 1 .. MaxEntries)
            \/ /\ create_thread_pool(c, s) = "system_error" /\ ~s.threads
               /\ ~(c.thread_pool_worker_count = 0 \/ c.max_inflight \notin 1 .. MaxEntries)
<1>1. /\ s.uring \in BOOLEAN /\ s.threads \in BOOLEAN
      /\ c.uring_queue_depth \in 0 .. MaxEntries + 1 /\ c.max_inflight \in 0 .. MaxEntries + 1
  BY DEF Systems, BackendConfigs
<1> QED
  BY <1>1 DEF create_uring, create_thread_pool, MaxEntries

(* What Auto returns, by the first candidate that it does not pass over. *)
LEMMA AutoOutcomes ==
  ASSUME NEW c \in BackendConfigs, NEW s \in Systems, c.kind = "auto"
  PROVE  \/ /\ c.auto_try_uring = TRUE /\ create_uring(c, s) # "system_error"
            /\ create_backend_with(c, s) = create_uring(c, s)
         \/ /\ ~(c.auto_try_uring /\ create_uring(c, s) # "system_error")
            /\ c.auto_try_thread_pool = TRUE /\ create_thread_pool(c, s) # "system_error"
            /\ create_backend_with(c, s) = create_thread_pool(c, s)
         \/ /\ ~(c.auto_try_uring /\ create_uring(c, s) # "system_error")
            /\ ~(c.auto_try_thread_pool /\ create_thread_pool(c, s) # "system_error")
            /\ create_backend_with(c, s) = "sync"
<1>1. c.auto_try_uring \in BOOLEAN /\ c.auto_try_thread_pool \in BOOLEAN
  BY DEF BackendConfigs
<1> QED
  BY <1>1 DEF create_backend_with

(* A named backend is never replaced and an unknown kind is an error; Auto *)
(* passes over a candidate only if the system or the kernel refused it,    *)
(* and reports every other failure of one.                                 *)
THEOREM FallbackTruthful == SetupSpec => []FallbackHonest
<1>1. CallOK => FallbackHonest
  <2> SUFFICES ASSUME CallOK, last.op = "backend" PROVE FallbackHonest
    BY DEF FallbackHonest
  <2>1. PICK c \in BackendConfigs : c = last.arguments.config
    BY DEF CallOK
  <2>2. PICK s \in Systems : s = last.arguments.system
    BY DEF CallOK
  <2>3. last.outcome = create_backend_with(c, s)
    BY <2>1, <2>2 DEF CallOK
  <2> DEFINE faultyUring == c.uring_queue_depth = 0
             faultyPool == \/ c.thread_pool_worker_count = 0
                           \/ c.max_inflight \notin 1 .. MaxEntries
             refusedUring == ~faultyUring /\ (s.uring => c.uring_queue_depth > MaxEntries)
             refusedPool == ~faultyPool /\ ~s.threads
             exceptions == {"invalid_argument", "bad_alloc", "system_error"}
  <2>4. /\ \/ create_uring(c, s) = "invalid_argument" /\ faultyUring
           \/ create_uring(c, s) = "uring" /\ ~faultyUring /\ ~refusedUring
           \/ create_uring(c, s) = "system_error" /\ refusedUring
        /\ \/ create_thread_pool(c, s) \in {"invalid_argument", "bad_alloc"} /\ faultyPool
           \/ create_thread_pool(c, s) = "thread_pool" /\ ~faultyPool /\ ~refusedPool
           \/ create_thread_pool(c, s) = "system_error" /\ refusedPool
    BY CandidateOutcomes
  <2> HIDE DEF faultyUring, faultyPool, refusedUring, refusedPool
  <2>5. /\ c.kind = "unknown" => last.outcome = "invalid_argument"
        /\ c.kind \in {"uring", "thread_pool", "sync"} =>
             last.outcome \in {c.kind} \cup exceptions
    BY <2>3, <2>4 DEF create_backend_with
  <2>6. ASSUME c.kind = "auto"
        PROVE  /\ last.outcome # "system_error"
               /\ last.outcome \in exceptions =>
                    \/ c.auto_try_uring /\ faultyUring
                    \/ c.auto_try_thread_pool /\ faultyPool
               /\ last.outcome = "uring" =>
                    c.auto_try_uring /\ ~faultyUring /\ ~refusedUring
               /\ last.outcome = "thread_pool" =>
                    c.auto_try_thread_pool /\ ~faultyPool /\ ~refusedPool
               /\ last.outcome \in {"thread_pool", "sync"} =>
                    (c.auto_try_uring => refusedUring)
               /\ last.outcome = "sync" => (c.auto_try_thread_pool => refusedPool)
    <3>1. c.auto_try_uring \in BOOLEAN /\ c.auto_try_thread_pool \in BOOLEAN
      BY DEF BackendConfigs
    <3>2. CASE /\ c.auto_try_uring = TRUE /\ create_uring(c, s) # "system_error"
               /\ last.outcome = create_uring(c, s)
      BY <2>4, <3>2
    <3>3. ASSUME ~(c.auto_try_uring /\ create_uring(c, s) # "system_error")
          PROVE  c.auto_try_uring => refusedUring
      BY <2>4, <3>1, <3>3
    <3>4. CASE /\ ~(c.auto_try_uring /\ create_uring(c, s) # "system_error")
               /\ c.auto_try_thread_pool = TRUE /\ create_thread_pool(c, s) # "system_error"
               /\ last.outcome = create_thread_pool(c, s)
      BY <2>4, <3>3, <3>4
    <3>5. CASE /\ ~(c.auto_try_uring /\ create_uring(c, s) # "system_error")
               /\ ~(c.auto_try_thread_pool /\ create_thread_pool(c, s) # "system_error")
               /\ last.outcome = "sync"
      <4>1. c.auto_try_thread_pool => refusedPool
        BY <2>4, <3>1, <3>5
      <4> QED
        BY <3>3, <3>5, <4>1
    <3> QED
      BY <2>3, <2>6, <3>2, <3>4, <3>5, AutoOutcomes
  <2>7. c.kind \in {"auto", "uring", "thread_pool", "sync", "unknown"}
    BY DEF BackendConfigs
  <2> QED
    BY <2>1, <2>2, <2>5, <2>6, <2>7
    DEF FallbackHonest, faultyUring, faultyPool, refusedUring, refusedPool
<1> QED
  BY <1>1, SetupInvariance, PTL

-----------------------------------------------------------------------------
(* The built-in stages. *)

(* The elements of a sequence. *)
LEMMA SequenceElements ==
  ASSUME NEW S, NEW s \in Seq(S)
  PROVE  Len(s) \in Nat /\ DOMAIN s = 1 .. Len(s) /\ \A i \in 1 .. Len(s) : s[i] \in S
OBVIOUS

(* A function on the first naturals is a sequence. *)
LEMMA FunctionIsSequence ==
  ASSUME NEW S, NEW n \in Nat, NEW s \in [1 .. n -> S]
  PROVE  s \in Seq(S) /\ Len(s) = n
OBVIOUS

(* A block is a sequence of bytes. *)
LEMMA BlockBytes ==
  ASSUME NEW b \in Blocks
  PROVE  /\ b \in Seq(0 .. ByteMax) /\ Len(b) \in Nat /\ DOMAIN b = 1 .. Len(b)
         /\ \A i \in 1 .. Len(b) : b[i] \in 0 .. ByteMax
<1>1. PICK n \in 0 .. MaxBlock : b \in [1 .. n -> 0 .. ByteMax]
  BY DEF Blocks
<1>2. n \in Nat
  BY SetupAssumption
<1>3. b \in Seq(0 .. ByteMax)
  BY <1>1, <1>2, FunctionIsSequence
<1> QED
  BY <1>3, SequenceElements

(* What ByteIncrement makes of a sequence of bytes. *)
LEMMA Increments ==
  ASSUME NEW b \in Seq(0 .. ByteMax)
  PROVE  /\ ByteIncrement(b) \in Seq(0 .. ByteMax) /\ Len(ByteIncrement(b)) = Len(b)
         /\ \A i \in 1 .. Len(b) : ByteIncrement(b)[i] = (b[i] + 1) % (ByteMax + 1)
<1>1. ByteMax \in Nat \ {0} /\ Len(b) \in Nat /\ DOMAIN b = 1 .. Len(b)
  BY SetupAssumption
<1>2. \A i \in 1 .. Len(b) : b[i] \in 0 .. ByteMax
  BY SequenceElements
<1>3. \A x \in 0 .. ByteMax : (x + 1) % (ByteMax + 1) \in 0 .. ByteMax
  BY <1>1
<1>4. ByteIncrement(b) = [i \in 1 .. Len(b) |-> (b[i] + 1) % (ByteMax + 1)]
  BY <1>1 DEF ByteIncrement
<1>5. ByteIncrement(b) \in [1 .. Len(b) -> 0 .. ByteMax]
  BY <1>2, <1>3, <1>4
<1> QED
  BY <1>1, <1>4, <1>5

(* Incrementing a block is incrementing what it is cut into. *)
LEMMA IncrementCut ==
  ASSUME NEW b \in Seq(0 .. ByteMax), NEW k \in 0 .. Len(b)
  PROVE  ByteIncrement(b) = ByteIncrement(SubSeq(b, 1, k))
                              \o ByteIncrement(SubSeq(b, k + 1, Len(b)))
<1> DEFINE n == Len(b)
           front == SubSeq(b, 1, k)
           back == SubSeq(b, k + 1, n)
<1>1. n \in Nat /\ k \in Nat /\ k <= n /\ n - k \in Nat
  OBVIOUS
<1>2. \A i \in 1 .. n : b[i] \in 0 .. ByteMax
  BY SequenceElements
<1>3. /\ front \in Seq(0 .. ByteMax) /\ Len(front) = k
      /\ \A i \in 1 .. k : front[i] = b[i]
  BY <1>1, <1>2
<1>4. /\ back \in Seq(0 .. ByteMax) /\ Len(back) = n - k
      /\ \A i \in 1 .. n - k : back[i] = b[k + i]
  BY <1>1, <1>2
<1> DEFINE f == ByteIncrement(front)
           g == ByteIncrement(back)
           h == ByteIncrement(b)
<1> HIDE DEF front, back
<1>5. /\ f \in Seq(0 .. ByteMax) /\ Len(f) = k
      /\ \A i \in 1 .. k : f[i] = (front[i] + 1) % (ByteMax + 1)
  BY <1>3, Increments
<1>6. /\ g \in Seq(0 .. ByteMax) /\ Len(g) = n - k
      /\ \A i \in 1 .. n - k : g[i] = (back[i] + 1) % (ByteMax + 1)
  BY <1>4, Increments
<1>7. /\ h \in Seq(0 .. ByteMax) /\ Len(h) = n
      /\ \A i \in 1 .. n : h[i] = (b[i] + 1) % (ByteMax + 1)
  BY Increments
<1> HIDE DEF f, g, h, n
<1>8. f \o g \in Seq(0 .. ByteMax) /\ Len(f \o g) = n
  BY <1>1, <1>5, <1>6
<1>9. ASSUME NEW i \in 1 .. n PROVE h[i] = (f \o g)[i]
  <2>1. CASE i <= k
    <3>1. i \in 1 .. k /\ (f \o g)[i] = f[i]
      BY <1>1, <1>5, <1>6, <2>1
    <3>2. f[i] = (b[i] + 1) % (ByteMax + 1)
      BY <1>3, <1>5, <3>1
    <3> QED
      BY <1>7, <3>1, <3>2
  <2>2. CASE ~(i <= k)
    <3>1. i - k \in 1 .. n - k /\ k + (i - k) = i /\ (f \o g)[i] = g[i - k]
      BY <1>1, <1>5, <1>6, <2>2
    <3>2. g[i - k] = (b[i] + 1) % (ByteMax + 1)
      BY <1>4, <1>6, <3>1
    <3> QED
      BY <1>7, <3>1, <3>2
  <2> QED
    BY <2>1, <2>2
<1>10. h = f \o g
  BY <1>1, <1>7, <1>8, <1>9
<1> QED
  BY <1>10 DEF f, g, h, front, back, n

(* A scaled byte is one, keeps the order, and reaches both ends. *)
LEMMA Scales ==
  ASSUME NEW M \in Nat, NEW d \in Nat \ {0}, NEW x \in 0 .. d, NEW y \in 0 .. d, x <= y
  PROVE  /\ (x * M) \div d \in 0 .. M
         /\ (x * M) \div d <= (y * M) \div d
         /\ (0 * M) \div d = 0 /\ (d * M) \div d = M
<1>1. ASSUME NEW u \in 0 .. d, NEW v \in 0 .. d, u <= v
      PROVE  (u * M) \div d <= (v * M) \div d
  <2> DEFINE p == (u * M) \div d
             q == (v * M) \div d
  <2>1. u * M \in Nat /\ v * M \in Nat
    OBVIOUS
  <2>2. u * M <= v * M
    <3>1. \A w \in Nat : w * M \in Nat
      OBVIOUS
    <3>2. v - u \in Nat /\ (v - u) * M = v * M - u * M
      BY <1>1
    <3> QED
      BY <2>1, <3>1, <3>2
  <2>3. p \in Int /\ q \in Int /\ d * p <= u * M /\ v * M < d * q + d
    BY <2>1
  <2> HIDE DEF p, q
  <2>4. ASSUME q + 1 <= p PROVE FALSE
    <3>1. d * (q + 1) <= d * p
      BY <2>3, <2>4
    <3> QED
      BY <2>1, <2>2, <2>3, <3>1
  <2>5. p <= q
    BY <2>3, <2>4
  <2> QED
    BY <2>5 DEF p, q
<1>2. 0 * M = 0 /\ d * M \in Nat /\ x * M \in Nat /\ x * M \in Int
  OBVIOUS
<1>3. (0 * M) \div d = 0 /\ (d * M) \div d = M
  BY <1>2
<1>4. 0 <= (x * M) \div d /\ (x * M) \div d <= M
  <2>1. 0 \in 0 .. d /\ d \in 0 .. d /\ 0 <= x /\ x <= d
    OBVIOUS
  <2>2. (0 * M) \div d <= (x * M) \div d /\ (x * M) \div d <= (d * M) \div d
    BY <1>1, <2>1
  <2> QED
    BY <1>3, <2>2
<1>5. (x * M) \div d \in Int
  BY <1>2
<1> QED
  BY <1>1, <1>3, <1>4, <1>5

(* A set of bytes that is not empty has a smallest and a largest one. *)
LEMMA ExtremeBytes ==
  ASSUME NEW M \in Nat, NEW T \in SUBSET (0 .. M), T # {}
  PROVE  /\ \E b \in T : \A x \in T : b <= x
         /\ \E b \in T : \A x \in T : b >= x
<1>1. T \in SUBSET Nat
  OBVIOUS
<1>2. \E b \in T : \A x \in T : b <= x
  BY <1>1, MinIsSmallest
<1> DEFINE D == {M - x : x \in T}
<1>3. D \in SUBSET Nat /\ D # {}
  OBVIOUS
<1>4. PICK d \in D : \A y \in D : d <= y
  <2> HIDE DEF D
  <2> QED
    BY <1>3, MinIsSmallest
<1>5. PICK b \in T : d = M - b
  OBVIOUS
<1>6. ASSUME NEW x \in T PROVE b >= x
  <2>1. M - x \in D /\ b \in Int /\ x \in Int
    OBVIOUS
  <2>2. M - b <= M - x
    BY <1>4, <1>5, <2>1
  <2> QED
    BY <2>1, <2>2
<1> QED
  BY <1>2, <1>6

(* What Normalize makes of a block that is not empty: the bytes, scaled    *)
(* from the range between the smallest and the largest of them.            *)
LEMMA Normalized ==
  ASSUME NEW b \in Blocks, b # <<>>
  PROVE  \E lo, hi \in 0 .. ByteMax :
           /\ lo \in ToSet(b) /\ hi \in ToSet(b)
           /\ \A i \in 1 .. Len(b) : lo <= b[i] /\ b[i] <= hi
           /\ Normalize(b) = [i \in 1 .. Len(b) |->
                IF lo = hi THEN 0 ELSE ((b[i] - lo) * ByteMax) \div (hi - lo)]
<1> DEFINE T == ToSet(b)
           lo == CHOOSE y \in T : \A x \in T : y <= x
           hi == CHOOSE y \in T : \A x \in T : y >= x
<1>1. /\ DOMAIN b = 1 .. Len(b) /\ Len(b) \in Nat /\ \A i \in 1 .. Len(b) : b[i] \in 0 .. ByteMax
      /\ ByteMax \in Nat
  BY BlockBytes, SetupAssumption
<1>2. 1 \in 1 .. Len(b)
  <2>1. b \in Seq(0 .. ByteMax)
    BY BlockBytes
  <2> QED
    BY <1>1, <2>1
<1>3. T \in SUBSET (0 .. ByteMax) /\ T # {} /\ \A i \in 1 .. Len(b) : b[i] \in T
  BY <1>1, <1>2 DEF ToSet
<1>4. (\E y \in T : \A x \in T : y <= x) /\ (\E y \in T : \A x \in T : y >= x)
  <2> HIDE DEF T
  <2> QED
    BY <1>1, <1>3, ExtremeBytes
<1>5. (lo \in T /\ \A x \in T : lo <= x) /\ (hi \in T /\ \A x \in T : hi >= x)
  <2> HIDE DEF T
  <2> QED
    BY <1>4
<1>6. Normalize(b) = IF lo = hi THEN [i \in 1 .. Len(b) |-> 0]
        ELSE [i \in 1 .. Len(b) |-> ((b[i] - lo) * ByteMax) \div (hi - lo)]
  BY <1>1 DEF Normalize
<1> HIDE DEF lo, hi
<1>7. Normalize(b) = [i \in 1 .. Len(b) |->
        IF lo = hi THEN 0 ELSE ((b[i] - lo) * ByteMax) \div (hi - lo)]
  BY <1>6
<1>8. lo \in 0 .. ByteMax /\ hi \in 0 .. ByteMax
  BY <1>3, <1>5
<1>9. \A i \in 1 .. Len(b) : lo <= b[i] /\ b[i] <= hi
  <2> SUFFICES ASSUME NEW i \in 1 .. Len(b) PROVE lo <= b[i] /\ b[i] <= hi
    OBVIOUS
  <2>1. lo <= b[i] /\ hi >= b[i] /\ b[i] \in Int /\ hi \in Int
    BY <1>1, <1>3, <1>5, <1>8
  <2> QED
    BY <2>1
<1> QED
  BY <1>5, <1>7, <1>8, <1>9

(* Normalising keeps the order of the bytes and stretches them over the    *)
(* whole range.                                                            *)
LEMMA NormalizeLaws ==
  ASSUME NEW b \in Blocks
  PROVE  /\ \A i, j \in DOMAIN b : b[i] <= b[j] => Normalize(b)[i] <= Normalize(b)[j]
         /\ Cardinality(ToSet(b)) > 1 => {0, ByteMax} \subseteq ToSet(Normalize(b))
         /\ ToSet(Normalize(b)) \subseteq 0 .. ByteMax
<1>1. /\ DOMAIN b = 1 .. Len(b) /\ Len(b) \in Nat /\ \A i \in 1 .. Len(b) : b[i] \in 0 .. ByteMax
      /\ ByteMax \in Nat
  BY BlockBytes, SetupAssumption
<1>2. CASE b = <<>>
  <2>1. Normalize(b) = b /\ DOMAIN b = {} /\ ToSet(b) = {}
    BY <1>2 DEF Normalize, ToSet
  <2>2. Cardinality(ToSet(b)) = 0
    BY <2>1, FS_EmptySet
  <2> QED
    BY <2>1, <2>2
<1>3. CASE b # <<>>
  <2>1. PICK lo \in 0 .. ByteMax, hi \in 0 .. ByteMax :
          /\ lo \in ToSet(b) /\ hi \in ToSet(b)
          /\ \A i \in 1 .. Len(b) : lo <= b[i] /\ b[i] <= hi
          /\ Normalize(b) = [i \in 1 .. Len(b) |->
               IF lo = hi THEN 0 ELSE ((b[i] - lo) * ByteMax) \div (hi - lo)]
    BY <1>3, Normalized
  <2> DEFINE n == Normalize(b)
             d == hi - lo
  <2>2. DOMAIN n = 1 .. Len(b)
    BY <2>1
  <2>3. ToSet(n) = {n[i] : i \in 1 .. Len(b)} /\ ToSet(b) = {b[i] : i \in 1 .. Len(b)}
    BY <1>1, <2>2 DEF ToSet
  <2>4. CASE lo = hi
    <3>1. \A i \in 1 .. Len(b) : n[i] = 0
      BY <2>1, <2>4
    <3>2. ToSet(b) = {lo}
      <4>1. \A i \in 1 .. Len(b) : b[i] = lo
        BY <1>1, <2>1, <2>4
      <4> QED
        BY <2>1, <2>3, <4>1
    <3>3. Cardinality(ToSet(b)) = 1
      BY <3>2, FS_Singleton
    <3> QED
      BY <1>1, <2>3, <3>1, <3>3
  <2>5. CASE lo # hi
    <3>1. d \in Nat \ {0} /\ \A i \in 1 .. Len(b) : b[i] - lo \in 0 .. d
      <4>1. lo <= hi /\ lo \in Int /\ hi \in Int
        BY <1>1, <2>1, <2>3
      <4>2. ASSUME NEW i \in 1 .. Len(b) PROVE b[i] - lo \in 0 .. hi - lo
        <5>1. b[i] \in Int /\ lo <= b[i] /\ b[i] <= hi
          BY <1>1, <2>1
        <5> QED
          BY <4>1, <5>1
      <4> QED
        BY <2>5, <4>1, <4>2
    <3>2. \A i \in 1 .. Len(b) : n[i] = ((b[i] - lo) * ByteMax) \div d
      BY <2>1, <2>5
    <3> HIDE DEF n, d
    <3>3. ASSUME NEW i \in 1 .. Len(b), NEW j \in 1 .. Len(b), b[i] <= b[j] PROVE n[i] <= n[j]
      <4>1. PICK x \in 0 .. d : x = b[i] - lo
        BY <3>1
      <4>2. PICK y \in 0 .. d : y = b[j] - lo
        BY <3>1
      <4>3. b[i] \in Int /\ b[j] \in Int /\ lo \in Int
        BY <1>1
      <4>4. x <= y
        BY <3>3, <4>1, <4>2, <4>3
      <4>5. (x * ByteMax) \div d <= (y * ByteMax) \div d
        BY <1>1, <3>1, <4>4, Scales
      <4> QED
        BY <3>2, <4>1, <4>2, <4>5
    <3>4. ASSUME NEW i \in 1 .. Len(b) PROVE n[i] \in 0 .. ByteMax
      <4>1. PICK x \in 0 .. d : x = b[i] - lo
        BY <3>1
      <4>2. x <= x
        BY <3>1
      <4>3. (x * ByteMax) \div d \in 0 .. ByteMax
        BY <1>1, <3>1, <4>2, Scales
      <4> QED
        BY <3>2, <4>1, <4>3
    <3>5. (0 * ByteMax) \div d = 0 /\ (d * ByteMax) \div d = ByteMax
      <4>1. 0 \in 0 .. d /\ 0 <= 0
        BY <3>1
      <4> QED
        BY <1>1, <3>1, <4>1, Scales
    <3>6. 0 \in ToSet(n)
      <4>1. PICK i \in 1 .. Len(b) : b[i] = lo
        BY <2>1, <2>3
      <4>2. b[i] - lo = 0
        BY <4>1
      <4>3. n[i] = 0
        BY <3>2, <3>5, <4>2
      <4> QED
        BY <2>3, <4>3
    <3>7. ByteMax \in ToSet(n)
      <4>1. PICK i \in 1 .. Len(b) : b[i] = hi
        BY <2>1, <2>3
      <4>2. b[i] - lo = d
        BY <4>1 DEF d
      <4>3. n[i] = ByteMax
        BY <3>2, <3>5, <4>2
      <4> QED
        BY <2>3, <4>3
    <3>8. ToSet(n) \subseteq 0 .. ByteMax
      BY <2>3, <3>4
    <3> QED
      BY <1>1, <3>3, <3>6, <3>7, <3>8 DEF n
  <2> QED
    BY <2>4, <2>5
<1> QED
  BY <1>2, <1>3

(* Incrementing does not depend on where a file is cut into blocks and     *)
(* changes every byte; normalising keeps the order of the bytes, stays in  *)
(* range and reaches both of its ends: for blocks and bytes of any size.   *)
THEOREM StagesLawful == SetupSpec => []StageLaws
<1>1. CallOK => StageLaws
  <2> SUFFICES ASSUME CallOK, last.op = "process" PROVE StageLaws
    BY DEF StageLaws
  <2>1. PICK b \in Blocks : b = last.arguments
    BY DEF CallOK
  <2>2. /\ b \in Seq(0 .. ByteMax) /\ Len(b) \in Nat /\ DOMAIN b = 1 .. Len(b)
        /\ \A i \in 1 .. Len(b) : b[i] \in 0 .. ByteMax
    BY BlockBytes
  <2>3. \A k \in 0 .. Len(b) : ByteIncrement(b) = ByteIncrement(SubSeq(b, 1, k))
                                 \o ByteIncrement(SubSeq(b, k + 1, Len(b)))
    BY <2>2, IncrementCut
  <2>4. ASSUME NEW i \in DOMAIN b PROVE ByteIncrement(b)[i] # b[i]
    <3>1. ByteIncrement(b)[i] = (b[i] + 1) % (ByteMax + 1) /\ b[i] \in 0 .. ByteMax
      BY <2>2, Increments
    <3>2. ByteMax \in Nat \ {0}
      BY SetupAssumption
    <3>3. \A x \in 0 .. ByteMax : (x + 1) % (ByteMax + 1) # x
      <4> SUFFICES ASSUME NEW x \in 0 .. ByteMax PROVE (x + 1) % (ByteMax + 1) # x
        OBVIOUS
      <4>1. CASE x = ByteMax
        <5>1. (x + 1) % (ByteMax + 1) = 0
          BY <3>2, <4>1
        <5> QED
          BY <3>2, <4>1, <5>1
      <4>2. CASE x # ByteMax
        <5>1. x + 1 \in 0 .. ByteMax
          BY <3>2, <4>2
        <5>2. (x + 1) % (ByteMax + 1) = x + 1
          BY <3>2, <5>1
        <5> QED
          BY <5>2
      <4> QED
        BY <4>1, <4>2
    <3> QED
      BY <3>1, <3>3
  <2>5. /\ \A i, j \in DOMAIN b : b[i] <= b[j] => Normalize(b)[i] <= Normalize(b)[j]
        /\ Cardinality(ToSet(b)) > 1 => {0, ByteMax} \subseteq ToSet(Normalize(b))
        /\ ToSet(Normalize(b)) \subseteq 0 .. ByteMax
    BY NormalizeLaws
  <2> QED
    BY <2>1, <2>3, <2>4, <2>5 DEF StageLaws
<1> QED
  BY <1>1, SetupInvariance, PTL

-----------------------------------------------------------------------------
(* PipelineConfig. *)

(* The function that Pow2 stands for exists up to every bound. *)
LEMMA DoublesExist ==
  ASSUME NEW top \in Nat
  PROVE  \E f \in [0 .. top -> Nat] : f[0] = 1 /\ \A k \in 1 .. top : f[k] = 2 * f[k - 1]
<1> DEFINE Doubles(m, f) == f[0] = 1 /\ \A k \in 1 .. m : f[k] = 2 * f[k - 1]
           F == {m \in Nat : \E f \in [0 .. m -> Nat] : Doubles(m, f)}
<1>1. 0 \in F
  <2> DEFINE f == [k \in 0 .. 0 |-> 1]
  <2>1. f \in [0 .. 0 -> Nat] /\ Doubles(0, f)
    OBVIOUS
  <2> QED
    BY <2>1
<1>2. ASSUME NEW m \in Nat, m \in F PROVE m + 1 \in F
  <2>1. PICK f \in [0 .. m -> Nat] : Doubles(m, f)
    BY <1>2
  <2> DEFINE g == [k \in 0 .. m + 1 |-> IF k <= m THEN f[k] ELSE 2 * f[m]]
  <2>2. g \in [0 .. m + 1 -> Nat] /\ g[0] = 1
    BY <2>1
  <2>3. ASSUME NEW k \in 1 .. m + 1 PROVE g[k] = 2 * g[k - 1]
    <3>1. CASE k <= m
      <4>1. k \in 1 .. m /\ k \in 0 .. m + 1 /\ k - 1 \in 0 .. m + 1 /\ k - 1 <= m
        BY <3>1
      <4> QED
        BY <2>1, <3>1, <4>1
    <3>2. CASE k = m + 1
      <4>1. k \in 0 .. m + 1 /\ k - 1 = m /\ m \in 0 .. m + 1 /\ ~(k <= m) /\ m <= m
        BY <3>2
      <4> QED
        BY <4>1
    <3> QED
      BY <3>1, <3>2
  <2> HIDE DEF g
  <2>4. Doubles(m + 1, g) /\ m + 1 \in Nat
    BY <2>2, <2>3
  <2> QED
    BY <2>2, <2>4
<1>3. top \in F
  <2> HIDE DEF F
  <2> QED
    BY <1>1, <1>2, SetOfNaturals
<1> QED
  BY <1>3

(* What the recursive definition of Pow2 means. *)
LEMMA PowerRecursion ==
  /\ Pow2 \in [0 .. SizeMax -> Nat] /\ Pow2[0] = 1
  /\ \A k \in 1 .. SizeMax : Pow2[k] = 2 * Pow2[k - 1]
<1>1. SizeMax \in Nat
  BY SetupAssumption
<1> DEFINE Def(f) == f = [k \in 0 .. SizeMax |-> IF k = 0 THEN 1 ELSE 2 * f[k - 1]]
<1>2. Pow2 = CHOOSE f : Def(f)
  BY DEF Pow2
<1>3. PICK g \in [0 .. SizeMax -> Nat] :
        g[0] = 1 /\ \A k \in 1 .. SizeMax : g[k] = 2 * g[k - 1]
  BY <1>1, DoublesExist
<1>4. Def(g)
  <2>1. \A k \in 0 .. SizeMax : g[k] = IF k = 0 THEN 1 ELSE 2 * g[k - 1]
    BY <1>1, <1>3
  <2> QED
    BY <1>3, <2>1
<1>5. Def(Pow2)
  <2> HIDE DEF Def
  <2> QED
    BY <1>2, <1>4
<1>6. Pow2[0] = 1 /\ \A k \in 1 .. SizeMax : Pow2[k] = 2 * Pow2[k - 1]
  <2>1. \A k \in 0 .. SizeMax : Pow2[k] = IF k = 0 THEN 1 ELSE 2 * Pow2[k - 1]
    BY <1>5
  <2> QED
    BY <1>1, <2>1
<1>7. \A k \in 0 .. SizeMax : Pow2[k] \in Nat
  <2> DEFINE F == {k \in Nat : k \in 0 .. SizeMax => Pow2[k] \in Nat}
  <2>1. 0 \in F
    BY <1>6
  <2>2. ASSUME NEW k \in Nat, k \in F PROVE k + 1 \in F
    <3>1. SUFFICES ASSUME k + 1 \in 0 .. SizeMax PROVE Pow2[k + 1] \in Nat
      OBVIOUS
    <3>2. k \in 0 .. SizeMax /\ k + 1 \in 1 .. SizeMax /\ (k + 1) - 1 = k
      BY <1>1, <3>1
    <3>3. Pow2[k + 1] = 2 * Pow2[k] /\ Pow2[k] \in Nat
      BY <1>6, <2>2, <3>2
    <3> QED
      BY <3>3
  <2>3. Nat \subseteq F
    <3> HIDE DEF F
    <3> QED
      BY <2>1, <2>2, SetOfNaturals
  <2> QED
    BY <1>1, <2>3
<1>8. DOMAIN Pow2 = 0 .. SizeMax /\ Pow2 = [k \in DOMAIN Pow2 |-> Pow2[k]]
  BY <1>5
<1> QED
  BY <1>6, <1>7, <1>8

(* A power of two is larger than its exponent, so that every size_t is     *)
(* below one of them.                                                      *)
LEMMA PowerExceeds ==
  ASSUME NEW k \in 0 .. SizeMax
  PROVE  Pow2[k] >= k + 1 /\ Pow2[k] \in Nat
<1>1. SizeMax \in Nat /\ k \in Nat
  BY SetupAssumption
<1> DEFINE F == {m \in Nat : m \in 0 .. SizeMax => Pow2[m] >= m + 1}
<1>2. 0 \in F
  BY PowerRecursion
<1>3. ASSUME NEW m \in Nat, m \in F PROVE m + 1 \in F
  <2>1. SUFFICES ASSUME m + 1 \in 0 .. SizeMax PROVE Pow2[m + 1] >= (m + 1) + 1
    OBVIOUS
  <2>2. m \in 0 .. SizeMax /\ m + 1 \in 1 .. SizeMax /\ (m + 1) - 1 = m
    BY <1>1, <2>1
  <2>3. Pow2[m + 1] = 2 * Pow2[m] /\ Pow2[m] \in Nat /\ Pow2[m] >= m + 1
    BY <1>3, <2>2, PowerRecursion
  <2> QED
    BY <2>3
<1>4. Nat \subseteq F
  <2> HIDE DEF F
  <2> QED
    BY <1>2, <1>3, SetOfNaturals
<1> QED
  BY <1>1, <1>4, PowerRecursion

(* A smaller power of two divides a larger one an even number of times. *)
LEMMA PowerDivides ==
  ASSUME NEW j \in 0 .. SizeMax, NEW k \in 0 .. SizeMax, j < k
  PROVE  \E c \in Nat : Pow2[k] = Pow2[j] * (2 * c) /\ c > 0
<1>1. SizeMax \in Nat /\ j \in Nat /\ k \in Nat
  BY SetupAssumption
<1>2. Pow2[j] \in Nat
  BY PowerRecursion
<1> DEFINE Even(m) == \E c \in Nat : Pow2[m] = Pow2[j] * (2 * c) /\ c > 0
           F == {m \in Nat : j + m + 1 \in 0 .. SizeMax => Even(j + m + 1)}
<1>3. 0 \in F
  <2>1. SUFFICES ASSUME j + 0 + 1 \in 0 .. SizeMax PROVE Even(j + 0 + 1)
    OBVIOUS
  <2>2. j + 0 + 1 = j + 1 /\ j + 1 \in 1 .. SizeMax /\ (j + 1) - 1 = j
    BY <1>1, <2>1
  <2>3. Pow2[j + 1] = 2 * Pow2[j]
    BY <2>2, PowerRecursion
  <2>4. Pow2[j + 1] = Pow2[j] * (2 * 1)
    BY <1>2, <2>3
  <2> QED
    BY <2>2, <2>4
<1>4. ASSUME NEW m \in Nat, m \in F PROVE m + 1 \in F
  <2>1. SUFFICES ASSUME j + (m + 1) + 1 \in 0 .. SizeMax PROVE Even(j + (m + 1) + 1)
    OBVIOUS
  <2> DEFINE p == j + m + 1
  <2>2. j + (m + 1) + 1 = p + 1 /\ p \in 0 .. SizeMax /\ p + 1 \in 1 .. SizeMax /\ (p + 1) - 1 = p
    BY <1>1, <2>1
  <2>3. PICK c \in Nat : Pow2[p] = Pow2[j] * (2 * c) /\ c > 0
    BY <1>4, <2>2
  <2> HIDE DEF p
  <2>4. Pow2[p + 1] = 2 * Pow2[p]
    BY <2>2, PowerRecursion
  <2>5. 2 * (Pow2[j] * (2 * c)) = Pow2[j] * (2 * (2 * c))
    BY <1>2
  <2>6. Pow2[p + 1] = Pow2[j] * (2 * (2 * c)) /\ 2 * c \in Nat /\ 2 * c > 0
    BY <2>3, <2>4, <2>5
  <2> QED
    BY <2>2, <2>6
<1>5. Nat \subseteq F
  <2> HIDE DEF F
  <2> QED
    BY <1>3, <1>4, SetOfNaturals
<1>6. k - j - 1 \in Nat /\ j + (k - j - 1) + 1 = k
  BY <1>1
<1> QED
  BY <1>5, <1>6

(* Division with a remainder that is known. *)
LEMMA Quotient ==
  ASSUME NEW a \in Int, NEW M \in Nat \ {0}, NEW q \in Int, NEW r \in 0 .. M - 1,
         a = M * q + r
  PROVE  a \div M = q /\ a % M = r
OBVIOUS

(* is_power_of_two accepts the powers of two and nothing else, whatever    *)
(* the width of size_t is: n and n - 1 have no bit in common exactly when  *)
(* n is one.                                                               *)
THEOREM PowersOfTwo ==
  \A n \in 0 .. SizeMax : is_power_of_two(n) <=> \E k \in 0 .. SizeMax : n = Pow2[k]
<1> SUFFICES ASSUME NEW n \in 0 .. SizeMax
             PROVE  is_power_of_two(n) <=> \E k \in 0 .. SizeMax : n = Pow2[k]
  OBVIOUS
<1>1. SizeMax \in Nat /\ n \in Nat /\ n <= SizeMax
  BY SetupAssumption
<1>2. ASSUME is_power_of_two(n) PROVE \E k \in 0 .. SizeMax : n = Pow2[k]
  <2> DEFINE Above == {k \in 0 .. SizeMax : Pow2[k] > n}
  <2>1. SizeMax \in Above /\ Above \in SUBSET Nat
    <3>1. SizeMax \in 0 .. SizeMax
      BY <1>1
    <3>2. Pow2[SizeMax] >= SizeMax + 1 /\ Pow2[SizeMax] \in Nat
      BY <3>1, PowerExceeds
    <3> QED
      BY <1>1, <3>1, <3>2
  <2>2. PICK u \in Above : \A y \in Above : u <= y
    <3> HIDE DEF Above
    <3> QED
      BY <2>1, MinIsSmallest
  <2>3. n # 0 /\ n >= 1
    BY <1>1, <1>2 DEF is_power_of_two
  <2>4. u \in 1 .. SizeMax /\ u - 1 \in 0 .. SizeMax /\ ~(u <= u - 1)
    BY <1>1, <2>3, PowerRecursion
  <2>5. PICK k \in 0 .. SizeMax : k = u - 1
    BY <2>4
  <2>6. PICK P \in Nat : P = Pow2[k]
    BY PowerRecursion
  <2>7. P <= n /\ n < 2 * P /\ P > 0
    <3>1. Pow2[u] = 2 * P
      BY <2>4, <2>5, <2>6, PowerRecursion
    <3>2. k \notin Above
      BY <2>2, <2>4, <2>5
    <3> QED
      BY <1>1, <2>3, <2>6, <3>1, <3>2
  <2>8. ASSUME n # P PROVE FALSE
    <3>1. n = P * 1 + (n - P) /\ n - P \in 0 .. P - 1 /\ n \in Int
      BY <1>1, <2>7
    <3>2. n - 1 = P * 1 + (n - 1 - P) /\ n - 1 - P \in 0 .. P - 1 /\ n - 1 \in Int
      BY <1>1, <2>7, <2>8
    <3>3. n \div P = 1 /\ (n - 1) \div P = 1
      BY <2>7, <3>1, <3>2, Quotient
    <3>4. Bit(n, k) = 1 /\ Bit(n - 1, k) = 1
      BY <2>6, <3>3 DEF Bit
    <3> QED
      BY <1>2, <3>4 DEF is_power_of_two
  <2> QED
    BY <2>6, <2>8
<1>3. ASSUME NEW k \in 0 .. SizeMax, n = Pow2[k] PROVE is_power_of_two(n)
  <2>1. n >= 1 /\ n # 0
    <3>1. Pow2[k] >= k + 1 /\ k \in Nat
      BY PowerExceeds
    <3> QED
      BY <1>1, <1>3, <3>1
  <2>2. ASSUME NEW j \in 0 .. SizeMax PROVE Bit(n, j) = 0 \/ Bit(n - 1, j) = 0
    <3>1. PICK P \in Nat : P = Pow2[j] /\ P > 0
      <4>1. Pow2[j] >= j + 1 /\ Pow2[j] \in Nat /\ j \in Nat
        BY PowerExceeds
      <4> QED
        BY <4>1
    <3>2. CASE j < k
      <4>1. PICK c \in Nat : n = P * (2 * c)
        BY <1>3, <3>1, <3>2, PowerDivides
      <4>2. n = P * (2 * c) + 0 /\ 0 \in 0 .. P - 1 /\ 2 * c \in Int
        BY <1>1, <3>1, <4>1
      <4>3. n \div P = 2 * c
        BY <1>1, <3>1, <4>2, Quotient
      <4>4. (2 * c) % 2 = 0
        OBVIOUS
      <4> QED
        BY <3>1, <4>3, <4>4 DEF Bit
    <3>3. CASE ~(j < k)
      <4>1. n <= P
        <5>1. CASE j = k
          BY <1>1, <1>3, <3>1, <5>1
        <5>2. CASE k < j
          <6>1. PICK c \in Nat : P = n * (2 * c) /\ c > 0
            BY <1>3, <3>1, <5>2, PowerDivides
          <6>2. n * (2 * c) = n + n * (2 * c - 1) /\ 2 * c - 1 \in Nat
            BY <1>1, <6>1
          <6>3. n * (2 * c - 1) \in Nat
            BY <1>1, <6>2
          <6> QED
            BY <1>1, <6>1, <6>2, <6>3
        <5>3. j \in Int /\ k \in Int
          OBVIOUS
        <5> QED
          BY <3>3, <5>1, <5>2, <5>3
      <4>2. n - 1 = P * 0 + (n - 1) /\ n - 1 \in 0 .. P - 1 /\ n - 1 \in Int
        BY <1>1, <2>1, <3>1, <4>1
      <4>3. (n - 1) \div P = 0
        BY <3>1, <4>2, Quotient
      <4> QED
        BY <3>1, <4>3 DEF Bit
    <3> QED
      BY <3>2, <3>3
  <2> QED
    BY <2>1, <2>2 DEF is_power_of_two
<1> QED
  BY <1>2, <1>3

(* What divides a number is a factor of it. *)
LEMMA MultipleOf ==
  ASSUME NEW a \in Nat \ {0}, NEW m \in Nat \ {0}, a % m = 0
  PROVE  \E n \in 1 .. a : a = n * m
<1> DEFINE n == a \div m
<1>1. n \in Int /\ a = m * n + (a % m)
  BY Z3T(30)
<1>2. n \in Int /\ a = m * n
  <2>1. m * n \in Int
    BY <1>1
  <2> QED
    BY <1>1, <2>1
<1> HIDE DEF n
<1>3. ASSUME n <= 0 PROVE FALSE
  <2>1. 0 - n \in Nat /\ m * (0 - n) \in Nat /\ m * (0 - n) = 0 - m * n
    BY <1>2, <1>3
  <2> QED
    BY <1>2, <2>1
<1>4. n <= a
  <2>1. m - 1 \in Nat /\ n \in Nat
    BY <1>2, <1>3
  <2>2. (m - 1) * n \in Nat /\ (m - 1) * n = m * n - n
    BY <2>1
  <2> QED
    BY <1>2, <2>1, <2>2
<1>5. n \in 1 .. a /\ m * n = n * m
  BY <1>2, <1>3, <1>4
<1> QED
  BY <1>2, <1>5

(* The two ways to say that a product fits: validate divides, so that it   *)
(* does not overflow itself.                                               *)
LEMMA ProductFits ==
  ASSUME NEW x \in Nat, NEW m \in Nat \ {0}, NEW top \in Nat
  PROVE  x <= top \div m <=> x * m <= top
<1> DEFINE q == top \div m
           r == top % m
<1>1. q \in Int /\ r \in 0 .. m - 1 /\ top = m * q + r
  BY Z3T(30)
<1> HIDE DEF q, r
<1>2. ASSUME x <= q PROVE x * m <= top
  <2>1. q - x \in Nat /\ m * (q - x) \in Nat /\ m * (q - x) = m * q - x * m
    BY <1>1, <1>2
  <2> QED
    BY <1>1, <2>1
<1>3. ASSUME q + 1 <= x PROVE x * m > top
  <2>1. x - (q + 1) \in Nat /\ m * (x - (q + 1)) \in Nat
        /\ m * (x - (q + 1)) = x * m - (m * q + m)
    BY <1>1, <1>3
  <2>2. x * m \in Int /\ m * q \in Int /\ m \in Int /\ r \in Int /\ r < m
    BY <1>1
  <2> QED
    BY <1>1, <2>1, <2>2
<1>4. x <= q \/ q + 1 <= x
  BY <1>1
<1>5. x * m \in Int
  OBVIOUS
<1>6. x <= q <=> x * m <= top
  BY <1>1, <1>2, <1>3, <1>4, <1>5
<1> QED
  BY <1>6 DEF q

(* A configuration passes validate() exactly when the pool can be laid out *)
(* from it, and buffer_pool_bytes then returns the product of block size   *)
(* and buffers, for every width of size_t and of a pointer.                *)
THEOREM ConfigurationSound == SetupSpec => []ConfigSound
<1>1. CallOK => ConfigSound
  <2> SUFFICES ASSUME CallOK, last.op = "config" PROVE ConfigSound
    BY DEF ConfigSound
  <2>1. PICK c \in Configs : c = last.arguments
    BY DEF CallOK
  <2> DEFINE size == c.block_size
             align == c.buffer_alignment
             buffers == c.max_inflight_buffers
             depth == c.queue_depth
  <2>2. last.outcome = IF validate(c) THEN (size * buffers) % (SizeMax + 1) ELSE -1
    BY <2>1 DEF CallOK
  <2>3. /\ size \in 0 .. SizeMax /\ align \in 0 .. SizeMax
        /\ buffers \in 0 .. MaxDimension /\ depth \in 0 .. MaxDimension
    BY DEF Configs
  <2>4. /\ SizeMax \in Nat \ {0} /\ PointerSize \in Nat \ {0} /\ MaxDimension \in Nat
        /\ size \in Nat /\ align \in Nat /\ buffers \in Nat /\ depth \in Nat
    BY <2>3, SetupAssumption
  <2>5. validate(c) <=> /\ size # 0 /\ buffers # 0 /\ depth # 0
                        /\ is_power_of_two(align) /\ align % PointerSize = 0
                        /\ size % align = 0 /\ size <= SizeMax \div buffers
    BY DEF validate
  <2>6. validate_allocation(size, align) <=>
          size # 0 /\ is_power_of_two(align) /\ align % PointerSize = 0 /\ size % align = 0
    BY DEF validate_allocation
  <2> DEFINE Sound == /\ \E k \in 0 .. SizeMax : align = Pow2[k]
                      /\ \E n \in 1 .. SizeMax : align = n * PointerSize
                      /\ validate_allocation(size, align)
                      /\ depth > 0
                      /\ buffers > 0
                      /\ size * buffers <= SizeMax
  <2>7. ConfigSound <=> /\ last.outcome # -1 <=> Sound
                        /\ last.outcome # -1 => last.outcome = size * buffers
    BY <2>1 DEF ConfigSound
  <2> HIDE DEF size, align, buffers, depth
  <2>8. size * buffers \in Nat
    BY <2>4
  <2>9. ASSUME last.outcome # -1 PROVE Sound /\ last.outcome = size * buffers
    <3>1. validate(c) /\ last.outcome = (size * buffers) % (SizeMax + 1)
      BY <2>2, <2>9
    <3>2. /\ size # 0 /\ buffers # 0 /\ depth # 0
          /\ is_power_of_two(align) /\ align % PointerSize = 0
          /\ size % align = 0 /\ size <= SizeMax \div buffers
      BY <2>5, <3>1
    <3>3. size * buffers <= SizeMax
      BY <2>4, <3>2, ProductFits
    <3>4. last.outcome = size * buffers
      <4>1. PICK product \in Nat : product = size * buffers
        BY <2>8
      <4>2. product % (SizeMax + 1) = product
        BY <2>4, <3>3, <4>1
      <4> QED
        BY <3>1, <4>1, <4>2
    <3>5. \E k \in 0 .. SizeMax : align = Pow2[k]
      BY <2>3, <3>2, PowersOfTwo DEF align
    <3>6. \E n \in 1 .. SizeMax : align = n * PointerSize
      <4>1. align # 0
        BY <3>2 DEF is_power_of_two
      <4>2. PICK n \in 1 .. align : align = n * PointerSize
        BY <2>4, <3>2, <4>1, MultipleOf
      <4>3. n \in 1 .. SizeMax
        BY <2>3, <2>4
      <4> QED
        BY <4>2, <4>3
    <3>7. validate_allocation(size, align)
      BY <2>6, <3>2
    <3>8. depth > 0 /\ buffers > 0
      BY <2>4, <3>2
    <3> QED
      BY <3>3, <3>4, <3>5, <3>6, <3>7, <3>8
  <2>10. ASSUME Sound PROVE last.outcome # -1
    <3>1. /\ size # 0 /\ is_power_of_two(align) /\ align % PointerSize = 0
          /\ size % align = 0
      BY <2>6, <2>10
    <3>2. buffers # 0 /\ depth # 0 /\ size <= SizeMax \div buffers
      <4>1. buffers # 0 /\ depth # 0
        BY <2>4, <2>10
      <4> QED
        BY <2>4, <2>10, <4>1, ProductFits
    <3>3. last.outcome = (size * buffers) % (SizeMax + 1)
      BY <2>2, <2>5, <3>1, <3>2
    <3>4. (size * buffers) % (SizeMax + 1) \in Nat
      BY <2>4, <2>8
    <3> QED
      BY <3>3, <3>4
  <2> QED
    BY <2>7, <2>9, <2>10
<1> QED
  BY <1>1, SetupInvariance, PTL
=============================================================================
