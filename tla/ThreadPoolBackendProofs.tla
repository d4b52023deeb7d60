---------------------- MODULE ThreadPoolBackendProofs -----------------------
(***************************************************************************)
(* Safety of ThreadPoolBackend for every number of workers, of coroutine   *)
(* frames and every max_inflight.                                          *)
(***************************************************************************)
EXTENDS ThreadPoolBackend, SequenceTheorems, FiniteSetTheorems, TLAPS

(* What the places of the caller and of the workers say of each other, and *)
(* of the queues: a worker that is there to take a queued read exists      *)
(* before one is accepted and exits after the last one is taken.           *)
InPlace ==
  /\ \A w \in Workers : wpc[w] = "read" => wreq[w] \in Requests
  /\ pc = "resume" <=> request # NoRequest
  /\ stopping = TRUE <=> pc \in {"notify_all", "join", "gone"}
  /\ \A w \in workWaiters : wpc[w] = "wait"
  /\ pc \in {"join", "gone"} => workWaiters = {}
  /\ (\E w \in Workers : wpc[w] = "exited") => work_queue = <<>> /\ stopping = TRUE
  /\ (\E w \in Workers : wpc[w] = "unborn") =>
       work_queue = <<>> /\ pc \in {"construct", "notify_all", "join", "gone"}
  /\ pc = "gone" => /\ \A w \in Workers : wpc[w] \in {"unborn", "exited"}
                    /\ completion_queue = <<>>

(* A request that is published, or taken by wait_one(), carries what pread *)
(* did for it; a fresh frame carries nothing.                              *)
Published(r) ==
  outcome[r] \in Reads /\ completion_result[r] = outcome[r]
OutcomesKept ==
  /\ \A r \in Requests : task[r] = "fresh" => outcome[r] = Nothing
  /\ \A i \in DOMAIN completion_queue : Published(completion_queue[i])
  /\ pc = "resume" => Published(request)

(* The inductive invariant. *)
IInv ==
  /\ TypeOK /\ InPlace /\ RequestsTracked /\ OutcomesKept
  /\ ResultsMatch /\ NoLostWakeup /\ DestructorDrains

-----------------------------------------------------------------------------
(* How often r is in the sequence q. *)
Times(q, r) == Cardinality({i \in DOMAIN q : q[i] = r})

(* The number of times is a natural number, zero for a stranger. *)
LEMMA TimesType ==
  ASSUME NEW q \in Seq(Requests), NEW r
  PROVE  /\ IsFiniteSet({i \in DOMAIN q : q[i] = r})
         /\ Times(q, r) \in Nat
         /\ Times(q, r) = 0 <=> \A i \in DOMAIN q : q[i] # r
         /\ q = <<>> => Times(q, r) = 0
<1> DEFINE S == {i \in DOMAIN q : q[i] = r}
<1>1. IsFiniteSet(1 .. Len(q)) /\ S \in SUBSET (1 .. Len(q))
  BY FS_Interval
<1>2. IsFiniteSet(S)
  BY <1>1, FS_Subset
<1>3. Times(q, r) = Cardinality(S)
  BY DEF Times
<1> HIDE DEF S
<1>4. Times(q, r) \in Nat /\ (Times(q, r) = 0 <=> S = {})
  BY <1>2, <1>3, FS_CardinalityType, FS_EmptySet
<1> QED
  BY <1>2, <1>4 DEF S

(* push_back adds one occurrence of what it appends. *)
LEMMA TimesAppend ==
  ASSUME NEW q \in Seq(Requests), NEW x \in Requests, NEW r
  PROVE  /\ Append(q, x) \in Seq(Requests) /\ Len(Append(q, x)) = Len(q) + 1
         /\ Append(q, x) # <<>>
         /\ Times(Append(q, x), r) = Times(q, r) + IF x = r THEN 1 ELSE 0
<1> DEFINE S == {i \in DOMAIN q : q[i] = r}
           p == Append(q, x)
           n == Len(q)
           T == {i \in DOMAIN p : p[i] = r}
<1>1. /\ n \in Nat /\ DOMAIN q = 1 .. n /\ p \in Seq(Requests) /\ Len(p) = n + 1
      /\ DOMAIN p = 1 .. n + 1 /\ p[n + 1] = x /\ \A i \in 1 .. n : p[i] = q[i]
      /\ p # <<>>
  OBVIOUS
<1>2. IsFiniteSet(S) /\ Cardinality(S) \in Nat
  BY TimesType, FS_CardinalityType
<1>3. n + 1 \notin S
  BY <1>1
<1>4. T = IF x = r THEN S \cup {n + 1} ELSE S
  <2> HIDE DEF n, p
  <2>1. 1 .. n + 1 = (1 .. n) \cup {n + 1}
    BY <1>1
  <2> QED
    BY <1>1, <2>1
<1> HIDE DEF S, T, n, p
<1>5. Cardinality(T) = Cardinality(S) + IF x = r THEN 1 ELSE 0
  <2>1. CASE x = r
    BY <1>2, <1>3, <1>4, <2>1, FS_AddElement
  <2>2. CASE x # r
    BY <1>2, <1>4, <2>2
  <2> QED
    BY <2>1, <2>2
<1> QED
  BY <1>1, <1>5 DEF Times, S, T, p, n

(* back followed by pop_back takes one occurrence of what it returns. *)
LEMMA TimesPop ==
  ASSUME NEW q \in Seq(Requests), q # <<>>, NEW r
  PROVE  /\ Back(q) \in Requests /\ \E i \in DOMAIN q : q[i] = Back(q)
         /\ PoppedBack(q) \in Seq(Requests) /\ Len(PoppedBack(q)) = Len(q) - 1
         /\ Times(PoppedBack(q), r) = Times(q, r) - IF Back(q) = r THEN 1 ELSE 0
         /\ \A i \in DOMAIN PoppedBack(q) : i \in DOMAIN q /\ PoppedBack(q)[i] = q[i]
<1> DEFINE n == Len(q) - 1
           p == PoppedBack(q)
           S == {i \in DOMAIN q : q[i] = r}
           T == {i \in DOMAIN p : p[i] = r}
<1>1. /\ n \in Nat /\ Len(q) = n + 1 /\ DOMAIN q = 1 .. n + 1
      /\ \A i \in 1 .. n + 1 : q[i] \in Requests
  OBVIOUS
<1>2. Back(q) = q[n + 1]
  BY <1>1 DEF Back
<1>3. p = SubSeq(q, 1, n)
  BY DEF PoppedBack
<1> HIDE DEF n, p
<1>4. /\ p \in Seq(Requests) /\ Len(p) = n /\ DOMAIN p = 1 .. n
      /\ \A i \in 1 .. n : p[i] = q[i]
  <2>1. \A i \in 1 .. n : q[i] \in Requests
    BY <1>1
  <2>2. /\ p \in Seq(Requests)
        /\ Len(p) = IF 1 <= n THEN n - 1 + 1 ELSE 0
        /\ \A i \in 1 .. n - 1 + 1 : p[i] = q[1 + i - 1]
    BY <1>1, <1>3, <2>1, SubSeqProperties
  <2>3. ASSUME NEW i \in 1 .. n PROVE p[i] = q[i]
    <3>1. i \in 1 .. n - 1 + 1 /\ 1 + i - 1 = i
      BY <1>1
    <3> QED
      BY <2>2, <3>1
  <2>4. Len(p) = n
    BY <1>1, <2>2
  <2> QED
    BY <2>2, <2>3, <2>4
<1>5. IsFiniteSet(S) /\ Cardinality(S) \in Nat
  BY TimesType, FS_CardinalityType
<1>6. T = S \ {n + 1} /\ (n + 1 \in S <=> Back(q) = r)
  BY <1>1, <1>2, <1>4
<1> HIDE DEF S, T
<1>7. Cardinality(T) = Cardinality(S) - IF Back(q) = r THEN 1 ELSE 0
  <2>1. Cardinality(T) = IF n + 1 \in S THEN Cardinality(S) - 1 ELSE Cardinality(S)
    BY <1>5, <1>6, FS_RemoveElement
  <2> QED
    BY <1>5, <1>6, <2>1
<1>8. Times(p, r) = Times(q, r) - IF Back(q) = r THEN 1 ELSE 0
  BY <1>7 DEF Times, S, T
<1>9. \A i \in DOMAIN p : i \in DOMAIN q /\ p[i] = q[i]
  BY <1>1, <1>4
<1>10. n + 1 \in DOMAIN q
  BY <1>1
<1> QED
  BY <1>1, <1>2, <1>4, <1>8, <1>9, <1>10 DEF n, p

(* How many workers are reading for r. *)
Held(r) == Cardinality({w \in Reading : wreq[w] = r})

(* Sets of workers are finite; one more or one fewer member counts. *)
LEMMA WorkerCount ==
  ASSUME NEW S \in SUBSET Workers
  PROVE  /\ Cardinality(S) \in Nat /\ (Cardinality(S) = 0 <=> S = {})
         /\ \A w : w \notin S => Cardinality(S \cup {w}) = Cardinality(S) + 1
         /\ \A w : w \in S => Cardinality(S \ {w}) = Cardinality(S) - 1
<1>1. IsFiniteSet(S)
  BY WorkersAssumption, FS_Subset
<1> QED
  BY <1>1, FS_CardinalityType, FS_EmptySet, FS_AddElement, FS_RemoveElement

(* The pointers to a frame, one kind at a time. *)
LEMMA PointersSplit ==
  ASSUME NEW r
  PROVE  Pointers(r) = Times(work_queue, r) + Times(completion_queue, r) + Held(r)
                         + (IF request = r THEN 1 ELSE 0)
BY DEF Pointers, Times, Held

(* While the backend exists every pointer leads to a suspended coroutine. *)
LEMMA PointedSuspended ==
  ASSUME TypeOK, RequestsTracked, pc # "gone"
  PROVE  /\ \A i \in DOMAIN work_queue : task[work_queue[i]] = "suspended"
         /\ \A i \in DOMAIN completion_queue : task[completion_queue[i]] = "suspended"
         /\ \A w \in Reading : wreq[w] \in Requests => task[wreq[w]] = "suspended"
         /\ request \in Requests => task[request] = "suspended"
<1>1. ASSUME NEW r \in Requests,
             \/ \E i \in DOMAIN work_queue : work_queue[i] = r
             \/ \E i \in DOMAIN completion_queue : completion_queue[i] = r
             \/ \E w \in Reading : wreq[w] = r
             \/ request = r
      PROVE  task[r] = "suspended"
  <2> DEFINE a == Times(work_queue, r)
             b == Times(completion_queue, r)
             c == Held(r)
             d == IF request = r THEN 1 ELSE 0
             H == {w \in Reading : wreq[w] = r}
  <2>1. a \in Nat /\ b \in Nat /\ d \in Nat
    BY TimesType DEF TypeOK
  <2>2. H \in SUBSET Workers
    BY DEF Reading
  <2>3. c \in Nat /\ (c = 0 <=> H = {})
    <3>1. c = Cardinality(H)
      BY DEF Held
    <3> HIDE DEF H, c
    <3> QED
      BY <2>2, <3>1, WorkerCount
  <2>4. a # 0 \/ b # 0 \/ c # 0 \/ d # 0
    <3>1. CASE \E j \in DOMAIN work_queue : work_queue[j] = r
      BY <3>1, TimesType DEF TypeOK
    <3>2. CASE \E j \in DOMAIN completion_queue : completion_queue[j] = r
      BY <3>2, TimesType DEF TypeOK
    <3>3. CASE \E w \in Reading : wreq[w] = r
      BY <2>3, <3>3
    <3>4. CASE request = r
      BY <3>4
    <3> QED
      BY <1>1, <3>1, <3>2, <3>3, <3>4
  <2>5. Pointers(r) = a + b + c + d
    BY PointersSplit
  <2> HIDE DEF a, b, c, d
  <2>6. Pointers(r) # 0
    BY <2>1, <2>3, <2>4, <2>5
  <2>7. Pointers(r) = IF task[r] = "suspended" THEN 1 ELSE 0
    BY DEF RequestsTracked
  <2> QED
    BY <2>6, <2>7
<1>2. /\ \A i \in DOMAIN work_queue : work_queue[i] \in Requests
      /\ \A i \in DOMAIN completion_queue : completion_queue[i] \in Requests
  BY DEF TypeOK
<1> QED
  BY <1>1, <1>2

-----------------------------------------------------------------------------
(* Nothing is submitted before the constructor has begun. *)
LEMMA InitIInv == Init => IInv
<1> SUFFICES ASSUME Init PROVE IInv
  OBVIOUS
<1> USE DEF Init
<1>1. TypeOK
  <2>1. work_queue \in Seq(Requests) /\ completion_queue \in Seq(Requests)
    OBVIOUS
  <2>2. /\ task \in [Requests -> {"fresh", "suspended", "done"}]
        /\ result \in [Requests -> Results \cup {Nothing}]
        /\ outcome \in [Requests -> Reads \cup {Nothing}]
        /\ completion_result \in [Requests -> Reads \cup {Nothing}]
    OBVIOUS
  <2>3. /\ wpc \in [Workers -> {"unborn", "wait", "read", "notify", "exited"}]
        /\ wreq \in [Workers -> Requests \cup {NoRequest}]
    OBVIOUS
  <2> QED
    BY <2>1, <2>2, <2>3 DEF TypeOK
<1>2. InPlace
  BY RequestAssumption DEF InPlace
<1>3. Reading = {}
  BY DEF Reading
<1>4. RequestsTracked
  <2>1. ASSUME NEW r \in Requests PROVE Pointers(r) = 0
    <3>1. Times(work_queue, r) = 0 /\ Times(completion_queue, r) = 0
      BY <1>1, TimesType DEF TypeOK
    <3>2. Held(r) = 0
      <4>1. {w \in Reading : wreq[w] = r} = {}
        BY <1>3
      <4> QED
        BY <4>1, FS_EmptySet DEF Held
    <3>3. request # r
      BY RequestAssumption
    <3> QED
      BY <3>1, <3>2, <3>3, PointersSplit
  <2>2. Cardinality(Reading) = 0
    BY <1>3, FS_EmptySet
  <2> QED
    BY <2>1, <2>2, InflightAssumption DEF RequestsTracked
<1>5. OutcomesKept
  BY DEF OutcomesKept
<1>6. ResultsMatch
  BY DEF ResultsMatch
<1>7. NoLostWakeup
  BY DEF NoLostWakeup
<1>8. DestructorDrains
  BY DEF DestructorDrains
<1> QED
  BY <1>1, <1>2, <1>4, <1>5, <1>6, <1>7, <1>8 DEF IInv

(* Every step keeps the variables in their types: the requests a worker or *)
(* wait_one() takes come from the queues.                                  *)
LEMMA TypeStep == IInv /\ [Next]_vars => TypeOK'
<1> SUFFICES ASSUME IInv, [Next]_vars PROVE TypeOK'
  OBVIOUS
<1>0. TypeOK /\ InPlace /\ RequestsTracked
  BY DEF IInv
<1> USE DEF TypeOK, tasks, queues, waits, worker, caller, WorkerGoto
<1>1. ASSUME NEW w \in Workers, SpawnWorker(w) PROVE TypeOK'
  BY <1>0, <1>1 DEF SpawnWorker
<1>2. ASSUME NEW w \in Workers, WorkerSleep(w) PROVE TypeOK'
  BY <1>0, <1>2 DEF WorkerSleep
<1>3. ASSUME NEW w \in Workers, WorkerTake(w) PROVE TypeOK'
  BY <1>0, <1>3, TimesPop DEF WorkerTake
<1>4. ASSUME NEW w \in Workers, WorkerExit(w) PROVE TypeOK'
  BY <1>0, <1>4 DEF WorkerExit
<1>5. ASSUME NEW w \in Workers, WorkerNotify(w) PROVE TypeOK'
  BY <1>0, <1>5 DEF WorkerNotify
<1>6. ASSUME NEW w \in Workers, NEW o \in Reads, WorkerPublish(w, o) PROVE TypeOK'
  <2>1. wreq[w] \in Requests
    BY <1>0, <1>6 DEF InPlace, WorkerPublish
  <2>2. completion_queue' \in Seq(Requests)
    BY <1>0, <1>6, <2>1, TimesAppend DEF WorkerPublish
  <2> QED
    BY <1>0, <1>6, <2>1, <2>2 DEF WorkerPublish
<1>7. ASSUME NEW r \in Requests, Submit(r) PROVE TypeOK'
  BY <1>0, <1>7, TimesAppend DEF Submit
<1>8. ASSUME NEW r \in Requests, SubmitRefused(r) PROVE TypeOK'
  BY <1>0, <1>8 DEF SubmitRefused, Results
<1>9. ASSUME NEW r \in Requests, DestroyTask(r) PROVE TypeOK'
  BY <1>0, <1>9 DEF DestroyTask
<1>10. CASE NotifyAll
  BY <1>0, <1>10 DEF NotifyAll
<1>11. CASE Join
  BY <1>0, <1>11 DEF Join
<1>12. CASE SubmitNotify
  BY <1>0, <1>12 DEF SubmitNotify
<1>13. CASE WaitOneSleep
  BY <1>0, <1>13 DEF WaitOneSleep
<1>14. CASE WaitOneTake
  <2>1. inflight_count' \in Nat
    <3>1. Len(completion_queue) \in Nat \ {0} /\ Len(work_queue) \in Nat
      BY <1>0, <1>14 DEF WaitOneTake
    <3>2. Cardinality(Reading) \in Nat
      BY WorkerCount DEF Reading
    <3> QED
      BY <1>0, <1>14, <3>1, <3>2 DEF RequestsTracked, WaitOneTake
  <2> QED
    BY <1>0, <1>14, <2>1, TimesPop DEF WaitOneTake
<1>15. CASE Resume
  <2>1. request \in Requests
    BY <1>0, <1>15 DEF InPlace, Resume
  <2> QED
    BY <1>0, <1>15, <2>1 DEF Resume, Results
<1>16. CASE Stop
  BY <1>0, <1>16 DEF Stop
<1>17. CASE WaitOneCall
  BY <1>0, <1>17 DEF WaitOneCall
<1>18. CASE SpuriousWake
  BY <1>0, <1>18 DEF SpuriousWake
<1>19. CASE UNCHANGED vars
  BY <1>0, <1>19 DEF vars
<1> QED
  BY <1>1, <1>2, <1>3, <1>4, <1>5, <1>6, <1>7, <1>8, <1>9, <1>10, <1>11, <1>12,
     <1>13, <1>14, <1>15, <1>16, <1>17, <1>18, <1>19
  DEF Next, WorkerStep, CallerStep, Ended

(* Every step keeps the places in agreement. *)
LEMMA PlaceStep == IInv /\ [Next]_vars => InPlace'
<1> SUFFICES ASSUME IInv, [Next]_vars PROVE InPlace'
  OBVIOUS
<1>0. TypeOK /\ InPlace /\ RequestsTracked
  BY DEF IInv
<1> USE DEF TypeOK, InPlace, tasks, queues, waits, worker, caller, WorkerGoto
<1>1. ASSUME NEW w \in Workers, SpawnWorker(w) PROVE InPlace'
  BY <1>0, <1>1 DEF SpawnWorker
<1>2. ASSUME NEW w \in Workers, WorkerSleep(w) PROVE InPlace'
  BY <1>0, <1>2 DEF WorkerSleep
<1>3. ASSUME NEW w \in Workers, WorkerTake(w) PROVE InPlace'
  BY <1>0, <1>3, TimesPop DEF WorkerTake
<1>4. ASSUME NEW w \in Workers, WorkerExit(w) PROVE InPlace'
  BY <1>0, <1>4 DEF WorkerExit
<1>5. ASSUME NEW w \in Workers, WorkerNotify(w) PROVE InPlace'
  BY <1>0, <1>5 DEF WorkerNotify
<1>6. ASSUME NEW w \in Workers, NEW o \in Reads, WorkerPublish(w, o) PROVE InPlace'
  BY <1>0, <1>6 DEF WorkerPublish
<1>7. ASSUME NEW r \in Requests, Submit(r) PROVE InPlace'
  BY <1>0, <1>7 DEF Submit
<1>8. ASSUME NEW r \in Requests, SubmitRefused(r) PROVE InPlace'
  BY <1>0, <1>8 DEF SubmitRefused
<1>9. ASSUME NEW r \in Requests, DestroyTask(r) PROVE InPlace'
  BY <1>0, <1>9 DEF DestroyTask
<1>10. CASE NotifyAll
  BY <1>0, <1>10 DEF NotifyAll
<1>11. CASE Join
  BY <1>0, <1>11 DEF Join
<1>12. CASE SubmitNotify
  BY <1>0, <1>12 DEF SubmitNotify
<1>13. CASE WaitOneSleep
  BY <1>0, <1>13 DEF WaitOneSleep
<1>14. CASE WaitOneTake
  <2>1. request' \in Requests
    BY <1>0, <1>14, TimesPop DEF WaitOneTake
  <2> QED
    BY <1>0, <1>14, <2>1, RequestAssumption DEF WaitOneTake
<1>15. CASE Resume
  BY <1>0, <1>15 DEF Resume
<1>16. CASE Stop
  BY <1>0, <1>16 DEF Stop
<1>17. CASE WaitOneCall
  BY <1>0, <1>17 DEF WaitOneCall
<1>18. CASE SpuriousWake
  BY <1>0, <1>18 DEF SpuriousWake
<1>19. CASE UNCHANGED vars
  BY <1>0, <1>19 DEF vars
<1> QED
  BY <1>1, <1>2, <1>3, <1>4, <1>5, <1>6, <1>7, <1>8, <1>9, <1>10, <1>11, <1>12,
     <1>13, <1>14, <1>15, <1>16, <1>17, <1>18, <1>19
  DEF Next, WorkerStep, CallerStep, Ended

-----------------------------------------------------------------------------
(* A worker that begins or ends a read changes what is held by one. *)
LEMMA HeldChange ==
  ASSUME TypeOK, NEW w \in Workers, NEW x \in Requests, NEW r
  PROVE  /\ Held(r) \in Nat /\ Cardinality(Reading) \in Nat
         /\ /\ wpc[w] # "read"
            /\ wpc' = [wpc EXCEPT ![w] = "read"] /\ wreq' = [wreq EXCEPT ![w] = x]
            => /\ Held(r)' = Held(r) + IF x = r THEN 1 ELSE 0
               /\ Cardinality(Reading)' = Cardinality(Reading) + 1
         /\ /\ wpc[w] = "read" /\ wreq[w] = x
            /\ wpc' = [wpc EXCEPT ![w] = "notify"]
            /\ wreq' = [wreq EXCEPT ![w] = NoRequest]
            => /\ Held(r)' = Held(r) - IF x = r THEN 1 ELSE 0
               /\ Cardinality(Reading)' = Cardinality(Reading) - 1
<1> DEFINE H == {v \in Reading : wreq[v] = r}
           Hn == {v \in Reading' : wreq'[v] = r}
           R == Reading
           Rn == Reading'
<1>1. /\ H \in SUBSET Workers /\ R \in SUBSET Workers
      /\ Held(r) = Cardinality(H) /\ Held(r)' = Cardinality(Hn)
      /\ Cardinality(Reading) = Cardinality(R)
      /\ Cardinality(Reading)' = Cardinality(Rn)
  BY DEF Reading, Held
<1>2. ASSUME wpc[w] # "read", wpc' = [wpc EXCEPT ![w] = "read"],
             wreq' = [wreq EXCEPT ![w] = x]
      PROVE  /\ w \notin R /\ Rn = R \cup {w}
             /\ w \notin H /\ Hn = IF x = r THEN H \cup {w} ELSE H
  BY <1>2 DEF TypeOK, Reading
<1>3. ASSUME wpc[w] = "read", wreq[w] = x, wpc' = [wpc EXCEPT ![w] = "notify"],
             wreq' = [wreq EXCEPT ![w] = NoRequest]
      PROVE  /\ w \in R /\ Rn = R \ {w}
             /\ Hn = H \ {w} /\ (w \in H <=> x = r)
  BY <1>3 DEF TypeOK, Reading
<1> HIDE DEF H, Hn, R, Rn
<1>4. Cardinality(H) \in Nat /\ Cardinality(R) \in Nat
  BY <1>1, WorkerCount
<1>5. ASSUME w \notin R, Rn = R \cup {w},
             w \notin H, Hn = IF x = r THEN H \cup {w} ELSE H
      PROVE  /\ Cardinality(Hn) = Cardinality(H) + IF x = r THEN 1 ELSE 0
             /\ Cardinality(Rn) = Cardinality(R) + 1
  <2>1. CASE x = r
    BY <1>1, <1>5, <2>1, WorkerCount
  <2>2. CASE x # r
    BY <1>1, <1>4, <1>5, <2>2, WorkerCount
  <2> QED
    BY <2>1, <2>2
<1>6. ASSUME w \in R, Rn = R \ {w}, Hn = H \ {w}, w \in H <=> x = r
      PROVE  /\ Cardinality(Hn) = Cardinality(H) - IF x = r THEN 1 ELSE 0
             /\ Cardinality(Rn) = Cardinality(R) - 1
  <2>1. CASE x = r
    BY <1>1, <1>6, <2>1, WorkerCount
  <2>2. CASE x # r
    <3>1. Hn = H
      BY <1>6, <2>2
    <3>2. Cardinality(Rn) = Cardinality(R) - 1
      BY <1>1, <1>6, WorkerCount
    <3> QED
      BY <1>4, <2>2, <3>1, <3>2
  <2> QED
    BY <2>1, <2>2
<1> QED
  BY <1>1, <1>2, <1>3, <1>4, <1>5, <1>6

(* A step that moves no pointer and neither suspends nor resumes a         *)
(* coroutine keeps the accounts.                                           *)
LEMMA NothingMoved ==
  ASSUME RequestsTracked, UNCHANGED queues, Reading' = Reading,
         UNCHANGED <<wreq, request>>,
         \A r \in Requests : task'[r] = "suspended" <=> task[r] = "suspended",
         pc = "gone" => pc' = "gone"
  PROVE  RequestsTracked'
<1>1. \A r \in Requests : Pointers(r)' = Pointers(r)
  BY DEF Pointers, queues
<1> QED
  BY <1>1 DEF RequestsTracked, queues

(* No step duplicates or drops a pointer to a suspended coroutine. *)
LEMMA TrackStep == IInv /\ [Next]_vars => RequestsTracked'
<1> SUFFICES ASSUME IInv, [Next]_vars PROVE RequestsTracked'
  OBVIOUS
<1>0. TypeOK /\ InPlace /\ RequestsTracked
  BY DEF IInv
<1>a. /\ \A r \in Requests : /\ Times(work_queue, r) \in Nat
                             /\ Times(completion_queue, r) \in Nat
                             /\ Held(r) \in Nat
      /\ Cardinality(Reading) \in Nat /\ inflight_count \in Nat
      /\ Len(work_queue) \in Nat /\ Len(completion_queue) \in Nat
  <2>1. \A r \in Requests : Times(work_queue, r) \in Nat /\ Times(completion_queue, r) \in Nat
    BY <1>0, TimesType DEF TypeOK
  <2>2. Cardinality(Reading) \in Nat
    BY WorkerCount DEF Reading
  <2>3. ASSUME NEW r \in Requests PROVE Held(r) \in Nat
    BY WorkerCount DEF Held, Reading
  <2> QED
    BY <1>0, <2>1, <2>2, <2>3 DEF TypeOK
<1>b. \A r \in Requests :
        Pointers(r) = Times(work_queue, r) + Times(completion_queue, r) + Held(r)
                        + (IF request = r THEN 1 ELSE 0)
  BY PointersSplit
<1>c. \A r \in Requests :
        Pointers(r)' = Times(work_queue', r) + Times(completion_queue', r) + Held(r)'
                         + (IF request' = r THEN 1 ELSE 0)
  BY DEF Pointers, Times, Held
<1>d. /\ pc # "gone" =>
           \A r \in Requests : Pointers(r) = IF task[r] = "suspended" THEN 1 ELSE 0
      /\ inflight_count = Len(work_queue) + Cardinality(Reading) + Len(completion_queue)
      /\ inflight_count <= MaxInflight
  BY <1>0 DEF RequestsTracked
<1>1. ASSUME NEW w \in Workers,
             \/ SpawnWorker(w) \/ WorkerSleep(w) \/ WorkerExit(w) \/ WorkerNotify(w)
      PROVE  RequestsTracked'
  <2>1. /\ UNCHANGED queues /\ UNCHANGED wreq /\ UNCHANGED request /\ UNCHANGED task
        /\ pc = "gone" => pc' = "gone"
    BY <1>1 DEF SpawnWorker, WorkerSleep, WorkerExit, WorkerNotify, tasks, worker, caller
  <2>2. Reading' = Reading
    BY <1>0, <1>1
    DEF SpawnWorker, WorkerSleep, WorkerExit, WorkerNotify, worker, WorkerGoto, Reading, TypeOK
  <2> QED
    BY <1>0, <2>1, <2>2, NothingMoved
<1>2. ASSUME NEW w \in Workers, WorkerTake(w) PROVE RequestsTracked'
  <2> DEFINE x == Back(work_queue)
  <2>1. /\ x \in Requests
        /\ Len(work_queue') = Len(work_queue) - 1
        /\ \A r \in Requests : Times(work_queue', r) =
                                Times(work_queue, r) - IF x = r THEN 1 ELSE 0
    BY <1>0, <1>2, TimesPop DEF WorkerTake, TypeOK
  <2>2. /\ \A r \in Requests : Held(r)' = Held(r) + IF x = r THEN 1 ELSE 0
        /\ Cardinality(Reading)' = Cardinality(Reading) + 1
    <3>1. /\ wpc[w] # "read" /\ wpc' = [wpc EXCEPT ![w] = "read"]
          /\ wreq' = [wreq EXCEPT ![w] = x]
      BY <1>2 DEF WorkerTake, WorkerGoto
    <3> HIDE DEF x
    <3> QED
      BY <1>0, <2>1, <3>1, HeldChange
  <2>3. /\ UNCHANGED <<completion_queue, inflight_count, request, task>> /\ pc' = pc
    BY <1>2 DEF WorkerTake, tasks, caller
  <2> HIDE DEF x
  <2>4. ASSUME NEW r \in Requests PROVE Pointers(r)' = Pointers(r)
    <3>1. CASE x = r
      BY <1>a, <1>b, <1>c, <2>1, <2>2, <2>3, <3>1
    <3>2. CASE x # r
      BY <1>a, <1>b, <1>c, <2>1, <2>2, <2>3, <3>2
    <3> QED
      BY <3>1, <3>2
  <2>5. inflight_count' = Len(work_queue') + Cardinality(Reading)' + Len(completion_queue')
    BY <1>a, <1>d, <2>1, <2>2, <2>3
  <2> QED
    BY <1>d, <2>3, <2>4, <2>5 DEF RequestsTracked
<1>3. ASSUME NEW w \in Workers, NEW o \in Reads, WorkerPublish(w, o) PROVE RequestsTracked'
  <2> DEFINE x == wreq[w]
  <2>1. x \in Requests
    BY <1>0, <1>3 DEF WorkerPublish, InPlace
  <2>2. /\ Len(completion_queue') = Len(completion_queue) + 1
        /\ \A r \in Requests : Times(completion_queue', r) =
                                Times(completion_queue, r) + IF x = r THEN 1 ELSE 0
    BY <1>0, <1>3, <2>1, TimesAppend DEF WorkerPublish, TypeOK
  <2>3. /\ \A r \in Requests : Held(r)' = Held(r) - IF x = r THEN 1 ELSE 0
        /\ Cardinality(Reading)' = Cardinality(Reading) - 1
    <3>1. /\ wpc[w] = "read" /\ wreq[w] = x /\ wpc' = [wpc EXCEPT ![w] = "notify"]
          /\ wreq' = [wreq EXCEPT ![w] = NoRequest]
      BY <1>3 DEF WorkerPublish, WorkerGoto
    <3> HIDE DEF x
    <3> QED
      BY <1>0, <2>1, <3>1, HeldChange
  <2>4. UNCHANGED <<work_queue, inflight_count, request, task>> /\ pc' = pc
    BY <1>3 DEF WorkerPublish, caller
  <2> HIDE DEF x
  <2>5. \A r \in Requests : Pointers(r)' = Pointers(r)
    BY <1>a, <1>b, <1>c, <2>2, <2>3, <2>4
  <2>6. inflight_count' = Len(work_queue') + Cardinality(Reading)' + Len(completion_queue')
    BY <1>a, <1>d, <2>2, <2>3, <2>4
  <2> QED
    BY <1>d, <2>4, <2>5, <2>6 DEF RequestsTracked
<1>4. ASSUME NEW x \in Requests, Submit(x) PROVE RequestsTracked'
  <2>1. /\ Len(work_queue') = Len(work_queue) + 1
        /\ \A r \in Requests : Times(work_queue', r) =
                                Times(work_queue, r) + IF x = r THEN 1 ELSE 0
    BY <1>0, <1>4, TimesAppend DEF Submit, TypeOK
  <2>2. /\ UNCHANGED <<completion_queue, wpc, wreq, request>>
        /\ inflight_count' = inflight_count + 1 /\ inflight_count < MaxInflight
        /\ pc # "gone" /\ task[x] = "fresh"
    BY <1>4 DEF Submit, worker
  <2>3. \A r \in Requests : task'[r] = IF r = x THEN "suspended" ELSE task[r]
    BY <1>0, <1>4 DEF Submit, TypeOK
  <2>4. Reading' = Reading /\ \A r \in Requests : Held(r)' = Held(r)
    BY <2>2 DEF Reading, Held
  <2>5. ASSUME NEW r \in Requests
        PROVE  Pointers(r)' = Pointers(r) + IF x = r THEN 1 ELSE 0
    <3>1. CASE x = r
      BY <1>a, <1>b, <1>c, <2>1, <2>2, <2>4, <3>1
    <3>2. CASE x # r
      <4>1. /\ Times(work_queue', r) = Times(work_queue, r)
            /\ Times(completion_queue', r) = Times(completion_queue, r)
            /\ Held(r)' = Held(r) /\ request' = request
        BY <1>a, <2>1, <2>2, <2>4, <3>2
      <4>2. Pointers(r)' = Pointers(r) /\ Pointers(r) \in Nat
        BY <1>a, <1>b, <1>c, <4>1
      <4> QED
        BY <3>2, <4>2
    <3> QED
      BY <3>1, <3>2
  <2>6. \A r \in Requests : Pointers(r)' = IF task'[r] = "suspended" THEN 1 ELSE 0
    BY <1>d, <2>2, <2>3, <2>5
  <2>7. /\ inflight_count' = Len(work_queue') + Cardinality(Reading') + Len(completion_queue')
        /\ inflight_count' <= MaxInflight
    BY <1>a, <1>d, <2>1, <2>2, <2>4, InflightAssumption
  <2> QED
    BY <2>6, <2>7 DEF RequestsTracked
<1>5. ASSUME NEW r \in Requests, SubmitRefused(r) \/ DestroyTask(r) PROVE RequestsTracked'
  <2>1. CASE pc = "gone"
    <3>1. pc' = "gone" /\ UNCHANGED queues /\ UNCHANGED worker
      BY <1>5, <2>1 DEF SubmitRefused, DestroyTask, caller
    <3>2. Reading' = Reading
      BY <3>1 DEF Reading, worker
    <3> QED
      BY <1>d, <3>1, <3>2 DEF RequestsTracked, queues
  <2>2. CASE pc # "gone"
    <3>1. /\ UNCHANGED queues /\ UNCHANGED wreq /\ UNCHANGED wpc /\ UNCHANGED request
          /\ pc' = pc
      BY <1>5 DEF SubmitRefused, DestroyTask, worker, caller
    <3>2. Reading' = Reading
      BY <3>1 DEF Reading
    <3>3. \A q \in Requests : task'[q] = "suspended" <=> task[q] = "suspended"
      BY <1>0, <1>5, <2>2 DEF SubmitRefused, DestroyTask, TypeOK
    <3> QED
      BY <1>0, <2>2, <3>1, <3>2, <3>3, NothingMoved
  <2> QED
    BY <2>1, <2>2
<1>6. CASE \/ NotifyAll \/ SubmitNotify \/ WaitOneSleep \/ Stop \/ WaitOneCall
           \/ SpuriousWake \/ UNCHANGED vars
  <2>1. /\ UNCHANGED queues /\ UNCHANGED wreq /\ UNCHANGED wpc /\ UNCHANGED request
        /\ UNCHANGED task
        /\ pc = "gone" => pc' = "gone"
    BY <1>6
    DEF NotifyAll, SubmitNotify, WaitOneSleep, Stop, WaitOneCall, SpuriousWake, vars,
        tasks, worker, caller
  <2>2. Reading' = Reading
    BY <2>1 DEF Reading
  <2> QED
    BY <1>0, <2>1, <2>2, NothingMoved
<1>7. CASE Join
  <2>1. pc' = "gone" /\ inflight_count' = 0 /\ work_queue' = <<>> /\ completion_queue' = <<>>
    BY <1>7 DEF Join
  <2>2. Reading' = {}
    BY <1>7 DEF Join, Reading, worker
  <2>3. Cardinality(Reading') = 0
    BY <2>2, FS_EmptySet
  <2> QED
    BY <2>1, <2>3, InflightAssumption DEF RequestsTracked
<1>8. CASE WaitOneTake
  <2> DEFINE x == Back(completion_queue)
  <2>1. /\ x \in Requests
        /\ Len(completion_queue') = Len(completion_queue) - 1
        /\ \A r \in Requests : Times(completion_queue', r) =
                                Times(completion_queue, r) - IF x = r THEN 1 ELSE 0
    BY <1>0, <1>8, TimesPop DEF WaitOneTake, TypeOK
  <2>2. /\ UNCHANGED <<work_queue, wpc, wreq, task>>
        /\ inflight_count' = inflight_count - 1
        /\ pc = "wait_one" /\ request' = x
    BY <1>8 DEF WaitOneTake, tasks, worker
  <2>3. request = NoRequest
    BY <1>0, <2>2 DEF InPlace
  <2>4. Reading' = Reading /\ \A r \in Requests : Held(r)' = Held(r)
    BY <2>2 DEF Reading, Held
  <2> HIDE DEF x
  <2>5. ASSUME NEW r \in Requests PROVE Pointers(r)' = Pointers(r)
    <3>1. request # r
      BY <2>3, RequestAssumption
    <3>2. CASE x = r
      BY <1>a, <1>b, <1>c, <2>1, <2>2, <2>4, <3>1, <3>2
    <3>3. CASE x # r
      BY <1>a, <1>b, <1>c, <2>1, <2>2, <2>4, <3>1, <3>3
    <3> QED
      BY <3>2, <3>3
  <2>6. /\ inflight_count' = Len(work_queue') + Cardinality(Reading') + Len(completion_queue')
        /\ inflight_count' <= MaxInflight
    BY <1>a, <1>d, <2>1, <2>2, <2>4, InflightAssumption
  <2> QED
    BY <1>d, <2>2, <2>5, <2>6 DEF RequestsTracked
<1>9. CASE Resume
  <2>1. /\ UNCHANGED <<work_queue, completion_queue, inflight_count, wpc, wreq>>
        /\ pc = "resume" /\ request' = NoRequest
    BY <1>9 DEF Resume, queues, worker
  <2>2. request \in Requests
    BY <1>0, <2>1 DEF InPlace, TypeOK
  <2>3. \A r \in Requests : task'[r] = IF r = request THEN "done" ELSE task[r]
    BY <1>0, <1>9 DEF Resume, TypeOK
  <2>4. Reading' = Reading /\ \A r \in Requests : Held(r)' = Held(r)
    BY <2>1 DEF Reading, Held
  <2>5. ASSUME NEW r \in Requests
        PROVE  Pointers(r)' = IF task'[r] = "suspended" THEN 1 ELSE 0
    <3>1. NoRequest # r
      BY RequestAssumption
    <3>2. Pointers(r)' = Pointers(r) - IF r = request THEN 1 ELSE 0
      BY <1>a, <1>b, <1>c, <2>1, <2>4, <3>1
    <3>3. Pointers(r) = IF task[r] = "suspended" THEN 1 ELSE 0
      BY <1>d, <2>1
    <3>4. r = request => task[r] = "suspended"
      BY <1>0, <2>1, PointedSuspended
    <3> QED
      BY <2>3, <3>2, <3>3, <3>4
  <2>6. inflight_count' = Len(work_queue') + Cardinality(Reading') + Len(completion_queue')
    BY <1>d, <2>1, <2>4
  <2> QED
    BY <1>d, <2>1, <2>5, <2>6 DEF RequestsTracked
<1> QED
  BY <1>1, <1>2, <1>3, <1>4, <1>5, <1>6, <1>7, <1>8, <1>9
  DEF Next, WorkerStep, CallerStep, Ended

-----------------------------------------------------------------------------
(* A step that changes no Task, no outcome and no completed request keeps  *)
(* what is said of them.                                                   *)
LEMMA OutcomesUntouched ==
  ASSUME OutcomesKept, ResultsMatch, DestructorDrains, UNCHANGED tasks,
         UNCHANGED <<completion_queue, request>>,
         pc' = "resume" => pc = "resume", pc' = "gone" => pc = "gone",
         pc = "gone" => Reading' = Reading
  PROVE  OutcomesKept' /\ ResultsMatch' /\ DestructorDrains'
BY DEF OutcomesKept, ResultsMatch, DestructorDrains, Published, tasks

(* Every outcome stays with its request until its Task reports it. *)
LEMMA OutcomeStep ==
  IInv /\ [Next]_vars => OutcomesKept' /\ ResultsMatch' /\ DestructorDrains'
<1> SUFFICES ASSUME IInv, [Next]_vars
             PROVE  OutcomesKept' /\ ResultsMatch' /\ DestructorDrains'
  OBVIOUS
<1> DEFINE Goal == OutcomesKept' /\ ResultsMatch' /\ DestructorDrains'
<1>0. /\ TypeOK /\ InPlace /\ RequestsTracked
      /\ OutcomesKept /\ ResultsMatch /\ DestructorDrains
  BY DEF IInv
<1>a. Nothing \notin Reads /\ "EAGAIN" \notin Reads
  BY DEF Nothing, Reads
<1>1. ASSUME NEW w \in Workers, SpawnWorker(w) PROVE Goal
  <2>1. /\ UNCHANGED tasks /\ UNCHANGED <<completion_queue, request>>
        /\ pc # "gone" /\ pc' # "gone" /\ pc' # "resume"
    BY <1>1 DEF SpawnWorker, queues
  <2> QED
    BY <1>0, <2>1, OutcomesUntouched
<1>2. ASSUME NEW w \in Workers,
             WorkerSleep(w) \/ WorkerTake(w) \/ WorkerExit(w) \/ WorkerNotify(w)
      PROVE  Goal
  <2>1. /\ UNCHANGED tasks /\ UNCHANGED <<completion_queue, request>> /\ pc' = pc
        /\ wpc[w] \in {"wait", "notify"}
    BY <1>2 DEF WorkerSleep, WorkerTake, WorkerExit, WorkerNotify, queues, caller
  <2>2. pc # "gone"
    BY <1>0, <2>1 DEF InPlace
  <2> QED
    BY <1>0, <2>1, <2>2, OutcomesUntouched
<1>3. ASSUME NEW w \in Workers, NEW o \in Reads, WorkerPublish(w, o) PROVE Goal
  <2> DEFINE x == wreq[w]
  <2>1. x \in Requests /\ w \in Reading
    BY <1>0, <1>3 DEF WorkerPublish, InPlace, Reading
  <2>2. /\ outcome' = [outcome EXCEPT ![x] = o]
        /\ completion_result' = [completion_result EXCEPT ![x] = o]
        /\ completion_queue' = Append(completion_queue, x)
        /\ task' = task /\ result' = result /\ request' = request /\ pc' = pc
        /\ wpc[w] = "read"
    BY <1>3 DEF WorkerPublish, caller
  <2>3. pc # "gone"
    BY <1>0, <2>2 DEF InPlace
  <2>4. task[x] = "suspended"
    BY <1>0, <2>1, <2>3, PointedSuspended
  <2> HIDE DEF x
  <2>6. ASSUME NEW i \in DOMAIN completion_queue' PROVE Published(completion_queue[i])'
    <3>1. /\ Len(completion_queue) \in Nat
          /\ DOMAIN completion_queue = 1 .. Len(completion_queue)
          /\ DOMAIN completion_queue' = 1 .. Len(completion_queue) + 1
          /\ completion_queue'[Len(completion_queue) + 1] = x
          /\ \A j \in 1 .. Len(completion_queue) :
               /\ completion_queue'[j] = completion_queue[j]
               /\ completion_queue[j] \in Requests
      BY <1>0, <2>1, <2>2 DEF TypeOK
    <3>2. \/ completion_queue'[i] = x
          \/ completion_queue'[i] \in Requests /\ Published(completion_queue'[i])
      BY <1>0, <3>1 DEF OutcomesKept
    <3>3. completion_queue'[i] \in Requests
      BY <2>1, <3>2
    <3> DEFINE c == completion_queue'[i]
    <3>4. c \in Requests /\ (Published(c) \/ c = x)
      BY <3>2, <3>3
    <3>5. outcome'[c] \in Reads /\ completion_result'[c] = outcome'[c]
      <4> HIDE DEF c
      <4> QED
        BY <1>0, <2>1, <2>2, <3>4 DEF TypeOK, Published
    <3> QED
      BY <3>5 DEF Published
  <2>7. pc' = "resume" => Published(request)'
    <3>1. pc' = "resume" => request \in Requests /\ Published(request)
      BY <1>0, <2>2 DEF OutcomesKept, InPlace, TypeOK
    <3>2. pc' = "resume" =>
            outcome'[request] \in Reads /\ completion_result'[request] = outcome'[request]
      BY <1>0, <2>1, <2>2, <3>1 DEF TypeOK, Published
    <3> QED
      BY <2>2, <3>2 DEF Published
  <2>8. \A r \in Requests : task'[r] = "fresh" => outcome'[r] = Nothing
    BY <1>0, <2>1, <2>2, <2>4 DEF TypeOK, OutcomesKept
  <2>9. OutcomesKept'
    BY <2>6, <2>7, <2>8 DEF OutcomesKept
  <2>10. ResultsMatch'
    BY <1>0, <2>1, <2>2, <2>4 DEF TypeOK, ResultsMatch
  <2> QED
    BY <2>2, <2>3, <2>9, <2>10 DEF DestructorDrains
<1>4. ASSUME NEW r \in Requests, Submit(r) PROVE Goal
  BY <1>0, <1>4
  DEF Submit, TypeOK, OutcomesKept, ResultsMatch, DestructorDrains, Published
<1>5. ASSUME NEW r \in Requests, SubmitRefused(r) PROVE Goal
  <2>1. /\ pc = "idle" /\ pc' = pc /\ task[r] = "fresh"
        /\ task' = [task EXCEPT ![r] = "done"]
        /\ result' = [result EXCEPT ![r] = IF stopping THEN "ECANCELED" ELSE "EAGAIN"]
        /\ UNCHANGED <<outcome, completion_result, completion_queue, request>>
    BY <1>5 DEF SubmitRefused, queues, caller
  <2>2. result'[r] = "EAGAIN"
    <3>1. ~stopping
      BY <1>0, <2>1 DEF InPlace, TypeOK
    <3> QED
      BY <1>0, <2>1, <3>1 DEF TypeOK
  <2>3. outcome[r] = Nothing
    BY <1>0, <2>1 DEF OutcomesKept
  <2>4. OutcomesKept'
    BY <1>0, <2>1 DEF TypeOK, OutcomesKept, Published
  <2>5. ResultsMatch'
    BY <1>0, <2>1, <2>2, <2>3 DEF TypeOK, ResultsMatch
  <2> QED
    BY <2>1, <2>4, <2>5 DEF DestructorDrains
<1>6. ASSUME NEW r \in Requests, DestroyTask(r) PROVE Goal
  <2>1. /\ UNCHANGED <<completion_queue, request, wpc>> /\ pc' = pc
        /\ task' = [task EXCEPT ![r] = "fresh"]
        /\ result' = [result EXCEPT ![r] = Nothing]
        /\ outcome' = [outcome EXCEPT ![r] = Nothing]
        /\ completion_result' = [completion_result EXCEPT ![r] = Nothing]
        /\ (pc = "idle" /\ task[r] = "done") \/ pc = "gone"
    BY <1>6 DEF DestroyTask, queues, worker, caller
  <2>2. \A i \in DOMAIN completion_queue :
          completion_queue[i] \in Requests /\ completion_queue[i] # r
    <3>1. CASE pc = "gone"
      BY <1>0, <3>1 DEF InPlace
    <3>2. CASE pc # "gone"
      BY <1>0, <2>1, <3>2, PointedSuspended DEF TypeOK
    <3> QED
      BY <3>1, <3>2
  <2>3. OutcomesKept'
    BY <1>0, <2>1, <2>2 DEF TypeOK, OutcomesKept, Published
  <2>4. ResultsMatch'
    BY <1>0, <2>1 DEF TypeOK, ResultsMatch
  <2>5. DestructorDrains'
    BY <1>0, <2>1 DEF TypeOK, DestructorDrains, Reading
  <2> QED
    BY <2>3, <2>4, <2>5
<1>7. CASE \/ NotifyAll \/ SubmitNotify \/ WaitOneSleep \/ Stop \/ WaitOneCall
           \/ SpuriousWake \/ UNCHANGED vars
  <2>1. /\ UNCHANGED tasks /\ UNCHANGED <<completion_queue, request, wpc>>
        /\ pc' = "resume" => pc = "resume"
        /\ pc' = "gone" => pc = "gone"
    BY <1>7
    DEF NotifyAll, SubmitNotify, WaitOneSleep, Stop, WaitOneCall, SpuriousWake, vars,
        queues, worker, caller
  <2>2. Reading' = Reading
    BY <2>1 DEF Reading
  <2> QED
    BY <1>0, <2>1, <2>2, OutcomesUntouched
<1>8. CASE Join
  <2>1. /\ pc = "join" /\ pc' = "gone" /\ UNCHANGED <<task, result, outcome, completion_result>>
        /\ UNCHANGED <<request, wpc>> /\ completion_queue' = <<>>
        /\ \A w \in Workers : wpc[w] \in {"unborn", "exited"}
    BY <1>8 DEF Join, tasks, worker
  <2>2. work_queue = <<>> /\ Reading = {} /\ request = NoRequest
    BY <1>0, <2>1, WorkersAssumption DEF InPlace, Reading
  <2>3. ASSUME NEW r \in Requests, task[r] = "suspended" PROVE outcome[r] # Nothing
    <3>1. Pointers(r) = 1
      BY <1>0, <2>1, <2>3 DEF RequestsTracked
    <3>2. Times(work_queue, r) = 0
      BY <1>0, <2>2, TimesType DEF TypeOK
    <3>3. Held(r) = 0
      <4>1. {w \in Reading : wreq[w] = r} = {}
        BY <2>2
      <4> QED
        BY <4>1, FS_EmptySet DEF Held
    <3>4. request # r
      BY <2>2, RequestAssumption
    <3>5. Times(completion_queue, r) \in Nat
      BY <1>0, TimesType DEF TypeOK
    <3>6. Times(completion_queue, r) # 0
      BY <3>1, <3>2, <3>3, <3>4, <3>5, PointersSplit
    <3>7. \E i \in DOMAIN completion_queue : completion_queue[i] = r
      BY <1>0, <3>6, TimesType DEF TypeOK
    <3> QED
      BY <1>0, <1>a, <3>7 DEF OutcomesKept, Published
  <2>4. Reading' = {}
    BY <2>1, <2>2 DEF Reading
  <2>5. DestructorDrains'
    BY <2>1, <2>3, <2>4 DEF DestructorDrains
  <2> QED
    BY <1>0, <2>1, <2>5 DEF OutcomesKept, ResultsMatch
<1>9. CASE WaitOneTake
  <2>1. /\ UNCHANGED <<task, result, outcome, completion_result>>
        /\ completion_queue # <<>> /\ request' = Back(completion_queue)
        /\ completion_queue' = PoppedBack(completion_queue) /\ pc' = "resume"
    BY <1>9 DEF WaitOneTake, tasks
  <2>2. /\ \E i \in DOMAIN completion_queue : request' = completion_queue[i]
        /\ \A i \in DOMAIN completion_queue' :
             i \in DOMAIN completion_queue /\ completion_queue'[i] = completion_queue[i]
    BY <1>0, <2>1, TimesPop DEF TypeOK
  <2> QED
    BY <1>0, <2>1, <2>2 DEF OutcomesKept, ResultsMatch, DestructorDrains, Published
<1>10. CASE Resume
  <2>1. /\ pc = "resume" /\ pc' = "idle"
        /\ task' = [task EXCEPT ![request] = "done"]
        /\ result' = [result EXCEPT ![request] = completion_result[request]]
        /\ UNCHANGED <<outcome, completion_result, completion_queue>>
    BY <1>10 DEF Resume, queues
  <2>2. request \in Requests /\ Published(request)
    BY <1>0, <2>1 DEF InPlace, TypeOK, OutcomesKept
  <2>3. OutcomesKept'
    BY <1>0, <2>1, <2>2 DEF TypeOK, OutcomesKept, Published
  <2>4. ResultsMatch'
    BY <1>0, <1>a, <2>1, <2>2 DEF TypeOK, ResultsMatch, Published
  <2> QED
    BY <2>1, <2>3, <2>4 DEF DestructorDrains
<1> QED
  BY <1>1, <1>2, <1>3, <1>4, <1>5, <1>6, <1>7, <1>8, <1>9, <1>10
  DEF Next, WorkerStep, CallerStep, Ended

-----------------------------------------------------------------------------
(* No step leaves a queued read, or a published completion, that a         *)
(* sleeping thread will not be told of.                                    *)
LEMMA WakeStep == IInv /\ [Next]_vars => NoLostWakeup'
<1> SUFFICES ASSUME IInv, [Next]_vars PROVE NoLostWakeup'
  OBVIOUS
<1>0. TypeOK /\ InPlace /\ NoLostWakeup
  BY DEF IInv
<1> DEFINE s == Cardinality(Searching)
           sn == Cardinality(Searching)'
<1>a. Searching \in SUBSET Workers /\ Searching' \in SUBSET Workers
  BY DEF Searching
<1>b. /\ Len(work_queue) \in Nat /\ s \in Nat /\ sn \in Nat
      /\ \A w : w \notin Searching /\ Searching' = Searching \cup {w} => sn = s + 1
      /\ \A w : w \in Searching /\ Searching' = Searching \ {w} => sn = s - 1
  <2>1. \A S \in SUBSET Workers :
          /\ Cardinality(S) \in Nat
          /\ \A w : w \notin S => Cardinality(S \cup {w}) = Cardinality(S) + 1
          /\ \A w : w \in S => Cardinality(S \ {w}) = Cardinality(S) - 1
    BY WorkerCount
  <2> QED
    BY <1>0, <1>a, <2>1 DEF TypeOK
<1>c. /\ workWaiters # {} =>
           \/ Len(work_queue) <= s + (IF pc = "submit_notify" THEN 1 ELSE 0)
           \/ pc = "notify_all"
      /\ callerAsleep /\ completion_queue # <<>> => \E w \in Workers : wpc[w] = "notify"
  BY <1>0 DEF NoLostWakeup
<1>d. SUFFICES
        /\ workWaiters' # {} =>
             \/ Len(work_queue') <= sn + (IF pc' = "submit_notify" THEN 1 ELSE 0)
             \/ pc' = "notify_all"
        /\ callerAsleep' /\ completion_queue' # <<>> => \E w \in Workers : wpc'[w] = "notify"
  BY DEF NoLostWakeup
<1> DEFINE WorkersTold ==
             workWaiters' # {} =>
               \/ Len(work_queue') <= sn + (IF pc' = "submit_notify" THEN 1 ELSE 0)
               \/ pc' = "notify_all"
           CallerTold ==
             callerAsleep' /\ completion_queue' # <<>> => \E w \in Workers : wpc'[w] = "notify"
<1> HIDE DEF s, sn
<1> USE DEF TypeOK, tasks, queues, waits, worker, caller, WorkerGoto
<1>1. ASSUME NEW w \in Workers, SpawnWorker(w) PROVE WorkersTold /\ CallerTold
  <2>1. w \notin Searching /\ Searching' = Searching \cup {w}
    BY <1>0, <1>1 DEF SpawnWorker, Searching, InPlace
  <2>2. sn = s + 1
    BY <1>b, <2>1
  <2> QED
    BY <1>0, <1>1, <1>b, <1>c, <2>2 DEF SpawnWorker
<1>2. ASSUME NEW w \in Workers, WorkerSleep(w) PROVE WorkersTold /\ CallerTold
  BY <1>2, <1>b, <1>c DEF WorkerSleep
<1>3. ASSUME NEW w \in Workers, WorkerTake(w) PROVE WorkersTold /\ CallerTold
  <2>1. w \in Searching /\ Searching' = Searching \ {w}
    BY <1>0, <1>3 DEF WorkerTake, Searching
  <2>2. sn = s - 1
    BY <1>b, <2>1
  <2>3. Len(work_queue') = Len(work_queue) - 1
    BY <1>0, <1>3, TimesPop DEF WorkerTake
  <2>4. WorkersTold
    BY <1>3, <1>b, <1>c, <2>2, <2>3 DEF WorkerTake
  <2>5. CallerTold
    BY <1>0, <1>3, <1>c DEF WorkerTake
  <2> QED
    BY <2>4, <2>5
<1>4. ASSUME NEW w \in Workers, WorkerExit(w) PROVE WorkersTold /\ CallerTold
  BY <1>0, <1>4, <1>b, <1>c DEF WorkerExit
<1>5. ASSUME NEW w \in Workers, WorkerNotify(w) PROVE WorkersTold /\ CallerTold
  <2>1. w \notin Searching /\ Searching' = Searching \cup {w}
    BY <1>0, <1>5 DEF WorkerNotify, Searching, InPlace
  <2>2. sn = s + 1
    BY <1>b, <2>1
  <2> QED
    BY <1>0, <1>5, <1>b, <1>c, <2>2 DEF WorkerNotify
<1>6. ASSUME NEW w \in Workers, NEW o \in Reads, WorkerPublish(w, o)
      PROVE  WorkersTold /\ CallerTold
  <2>1. Searching' = Searching
    BY <1>0, <1>6 DEF WorkerPublish, Searching
  <2>2. sn = s
    BY <2>1 DEF s, sn
  <2> QED
    BY <1>0, <1>6, <1>c, <2>2 DEF WorkerPublish
<1>7. ASSUME NEW r \in Requests, Submit(r) PROVE WorkersTold /\ CallerTold
  <2>1. sn = s
    BY <1>7 DEF Submit, Searching, s, sn
  <2>2. Len(work_queue') = Len(work_queue) + 1
    BY <1>0, <1>7, TimesAppend DEF Submit
  <2> QED
    BY <1>7, <1>b, <1>c, <2>1, <2>2 DEF Submit
<1>8. ASSUME NEW r \in Requests, SubmitRefused(r) \/ DestroyTask(r)
      PROVE  WorkersTold /\ CallerTold
  <2>1. sn = s
    BY <1>8 DEF SubmitRefused, DestroyTask, Searching, s, sn
  <2> QED
    BY <1>8, <1>c, <2>1 DEF SubmitRefused, DestroyTask
<1>9. CASE NotifyAll
  BY <1>9, <1>c DEF NotifyAll
<1>10. CASE Join
  BY <1>0, <1>10 DEF Join, InPlace
<1>11. CASE SubmitNotify
  <2>1. CASE workWaiters = {} /\ UNCHANGED workWaiters
    BY <1>11, <1>c, <2>1 DEF SubmitNotify
  <2>2. ASSUME NEW w \in workWaiters, workWaiters' = workWaiters \ {w}
        PROVE  WorkersTold /\ CallerTold
    <3>1. w \notin Searching /\ Searching' = Searching \cup {w}
      BY <1>0, <1>11, <2>2 DEF SubmitNotify, Searching, InPlace
    <3>2. sn = s + 1
      BY <1>b, <3>1
    <3> QED
      BY <1>11, <1>b, <1>c, <2>2, <3>2 DEF SubmitNotify
  <2> QED
    BY <1>11, <2>1, <2>2 DEF SubmitNotify
<1>12. CASE WaitOneSleep
  <2>1. sn = s
    BY <1>12 DEF WaitOneSleep, Searching, s, sn
  <2> QED
    BY <1>12, <1>c, <2>1 DEF WaitOneSleep
<1>13. CASE WaitOneTake
  <2>1. sn = s
    BY <1>13 DEF WaitOneTake, Searching, s, sn
  <2> QED
    BY <1>13, <1>c, <2>1 DEF WaitOneTake
<1>14. CASE Resume \/ Stop \/ WaitOneCall
  <2>1. sn = s
    BY <1>14 DEF Resume, Stop, WaitOneCall, Searching, s, sn
  <2> QED
    BY <1>14, <1>c, <2>1 DEF Resume, Stop, WaitOneCall
<1>15. CASE SpuriousWake
  <2>1. CASE callerAsleep /\ callerAsleep' = FALSE /\ UNCHANGED workWaiters
    <3>1. sn = s
      BY <1>15, <2>1 DEF SpuriousWake, Searching, s, sn
    <3> QED
      BY <1>15, <1>c, <2>1, <3>1 DEF SpuriousWake
  <2>2. ASSUME NEW w \in workWaiters, workWaiters' = workWaiters \ {w},
               UNCHANGED callerAsleep
        PROVE  WorkersTold /\ CallerTold
    <3>1. w \notin Searching /\ Searching' = Searching \cup {w}
      BY <1>0, <1>15, <2>2 DEF SpuriousWake, Searching, InPlace
    <3>2. sn = s + 1
      BY <1>b, <3>1
    <3> QED
      BY <1>15, <1>b, <1>c, <2>2, <3>2 DEF SpuriousWake
  <2> QED
    BY <1>15, <2>1, <2>2 DEF SpuriousWake
<1>16. CASE UNCHANGED vars
  <2>1. sn = s
    BY <1>16 DEF vars, Searching, s, sn
  <2> QED
    BY <1>16, <1>c, <2>1 DEF vars
<1> QED
  BY <1>1, <1>2, <1>3, <1>4, <1>5, <1>6, <1>7, <1>8, <1>9, <1>10, <1>11, <1>12,
     <1>13, <1>14, <1>15, <1>16
  DEF Next, WorkerStep, CallerStep, Ended

-----------------------------------------------------------------------------
(* The invariant holds of every reachable state. *)
THEOREM Invariance == Spec => []IInv
<1>1. IInv /\ [Next]_vars => IInv'
  BY TypeStep, PlaceStep, TrackStep, OutcomeStep, WakeStep DEF IInv
<1> QED
  BY InitIInv, <1>1, PTL DEF Spec

(* ThreadPoolBackend: every variable keeps its type. *)
THEOREM TypeCorrect == Spec => []TypeOK
<1>1. IInv => TypeOK
  BY DEF IInv
<1> QED
  BY Invariance, <1>1, PTL

(* One pointer leads to each suspended request and none to any other       *)
(* frame, and inflight_count_ counts them within max_inflight.             *)
THEOREM RequestsAccounted == Spec => []RequestsTracked
<1>1. IInv => RequestsTracked
  BY DEF IInv
<1> QED
  BY Invariance, <1>1, PTL

(* Every Task reports what pread did for its own request. *)
THEOREM ResultsOwn == Spec => []ResultsMatch
<1>1. IInv => ResultsMatch
  BY DEF IInv
<1> QED
  BY Invariance, <1>1, PTL

(* The notifications of try_submit, of the workers and of the destructor   *)
(* leave nobody asleep next to work.                                       *)
THEOREM WakeupKept == Spec => []NoLostWakeup
<1>1. IInv => NoLostWakeup
  BY DEF IInv
<1> QED
  BY Invariance, <1>1, PTL

(* The destructor returns only when every accepted read is carried out. *)
THEOREM DrainedAtEnd == Spec => []DestructorDrains
<1>1. IInv => DestructorDrains
  BY DEF IInv
<1> QED
  BY Invariance, <1>1, PTL
=============================================================================
