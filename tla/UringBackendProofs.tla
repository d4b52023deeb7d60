------------------------- MODULE UringBackendProofs -------------------------
(***************************************************************************)
(* Safety of UringBackend for every number of reads, every queue depth,    *)
(* every allocation of the frames and every number of failed system calls. *)
(***************************************************************************)
EXTENDS UringBackend, SequenceTheorems, TLAPS

Outstanding == Range(sq) \cup kernel \cup Completions

(* A read is in one place at a time: prepared, in the kernel or completed. *)
(* A completion carries what the kernel did.  A read that is in any of     *)
(* these places has been started; a Task that has not ended has not        *)
(* reported anything.                                                      *)
OnePlace ==
  /\ Range(sq) \cap (kernel \cup Completions) = {}
  /\ kernel \cap Completions = {}
  /\ \A i, j \in DOMAIN cq : cq[i].req = cq[j].req => i = j
  /\ \A i \in DOMAIN cq : cq[i].res = done[cq[i].req]
  /\ \A r \in Outstanding : task[r] # "fresh"
  /\ \A r \in Requests :
       task[r] \in {"fresh", "started", "suspended"} => result[r] = Nothing

(* await_suspend: the read it prepared is the last of the queue, and once  *)
(* it is submitted the kernel has it or has completed it.                  *)
Suspending ==
  /\ pc \in {"submit", "arm"} => request \in Requests /\ task[request] = "started"
  /\ pc = "submit" => \E i \in DOMAIN sq : i = Len(sq) /\ sq[i] = request
  /\ pc = "arm" => request \in kernel \cup Completions

(* No two living Tasks share a frame, and a request is armed exactly while *)
(* its Task is suspended.                                                  *)
FramesApart ==
  /\ \A q, r \in Requests : Living(q) /\ Living(r) /\ frame[q] = frame[r] => q = r
  /\ \A r \in Requests : armed[r] = TRUE <=> task[r] = "suspended"

(* Until the caller reads on after it abandoned a read: the address of an  *)
(* outstanding read is its own Task's or free.  That is kept because, as   *)
(* long as no read was abandoned, the Tasks of the outstanding reads live  *)
(* and keep their frames from the allocator.                               *)
NothingStale ==
  reused = FALSE =>
    /\ \A r \in Outstanding, q \in Requests :
         Living(q) /\ frame[q] = frame[r] => q = r
    /\ ~AbandonedBefore => \A r \in Outstanding : task[r] \in {"started", "suspended"}
    /\ \A r \in Outstanding : result[r] \notin Reads
    /\ ResultsMatch

(* Until it reads on after abandoning a read or a wait_one() fails: a      *)
(* submission queue holds nothing but the read being submitted, unless one *)
(* was left there by a failed submission, after which none is submitted;   *)
(* and whatever the kernel has or has completed is waited for.             *)
Tended(r) ==
  \/ task[r] = "suspended" /\ armed[r] = TRUE
  \/ pc = "arm" /\ request = r
CleanUntilReused ==
  reused = FALSE /\ waitFailures = 0 =>
    /\ pc = "submit" => sq = <<request>>
    /\ pc \in {"submit", "arm"} => ~AbandonedBefore
    /\ pc # "submit" /\ ~AbandonedBefore => sq = <<>>
    /\ \A r \in kernel \cup Completions : Tended(r)

(* The inductive invariant. *)
IInv ==
  /\ TypeOK /\ OnePlace /\ Suspending /\ FramesApart /\ NothingStale
  /\ CleanUntilReused /\ SuspendedIsOutstanding

-----------------------------------------------------------------------------
(* The submission queue, the kernel and the completions are about reads    *)
(* that were made.                                                         *)
LEMMA PlacesTyped ==
  ASSUME TypeOK
  PROVE  /\ Range(sq) \subseteq Requests /\ kernel \subseteq Requests
         /\ Completions \subseteq Requests
<1>1. Range(sq) \subseteq Requests /\ kernel \subseteq Requests
  BY DEF TypeOK, Range
<1>2. Completions \subseteq Requests
  <2> DEFINE C == [req : Requests, res : Reads]
  <2>1. cq \in Seq(C)
    BY DEF TypeOK
  <2> HIDE DEF C
  <2>2. \A i \in DOMAIN cq : cq[i] \in C
    BY <2>1
  <2> QED
    BY <2>2 DEF C, Completions
<1> QED
  BY <1>1, <1>2

(* Preparing a read: it is the last of the submission queue. *)
LEMMA SqAppend ==
  ASSUME TypeOK, NEW r \in Requests, sq' = Append(sq, r)
  PROVE  /\ sq' \in Seq(Requests) /\ Len(sq') = Len(sq) + 1
         /\ Range(sq') = Range(sq) \cup {r}
         /\ Len(sq') \in DOMAIN sq' /\ sq'[Len(sq')] = r
         /\ sq = <<>> => sq' = <<r>>
<1> DEFINE n == Len(sq)
<1>1. /\ n \in Nat /\ DOMAIN sq = 1 .. n /\ sq' \in Seq(Requests) /\ Len(sq') = n + 1
      /\ DOMAIN sq' = 1 .. n + 1 /\ sq'[n + 1] = r /\ \A i \in 1 .. n : sq'[i] = sq[i]
  BY DEF TypeOK
<1> HIDE DEF n
<1>2. 1 .. n + 1 = (1 .. n) \cup {n + 1}
  BY <1>1
<1>3. Range(sq') = Range(sq) \cup {r}
  BY <1>1, <1>2 DEF Range
<1>4. n + 1 \in DOMAIN sq'
  BY <1>1
<1>5. sq = <<>> => sq' = <<r>>
  OBVIOUS
<1> QED
  BY <1>1, <1>3, <1>4, <1>5 DEF n

(* A completion is appended for a read that had none. *)
LEMMA CqAppend ==
  ASSUME TypeOK, OnePlace, NEW r \in Requests, NEW o \in Reads, r \notin Completions,
         cq' = Append(cq, [req |-> r, res |-> o]), done' = [done EXCEPT ![r] = o]
  PROVE  /\ cq' \in Seq([req : Requests, res : Reads])
         /\ Completions' = Completions \cup {r}
         /\ \A i, j \in DOMAIN cq' : cq'[i].req = cq'[j].req => i = j
         /\ \A i \in DOMAIN cq' : cq'[i].res = done'[cq'[i].req]
<1> DEFINE n == Len(cq)
           c == [req |-> r, res |-> o]
<1>0. c \in [req : Requests, res : Reads] /\ c.req = r /\ c.res = o
  OBVIOUS
<1> HIDE DEF c
<1>1. /\ n \in Nat /\ DOMAIN cq = 1 .. n
      /\ cq' \in Seq([req : Requests, res : Reads])
      /\ DOMAIN cq' = 1 .. n + 1 /\ cq'[n + 1] = c /\ \A i \in 1 .. n : cq'[i] = cq[i]
  BY <1>0 DEF TypeOK, c
<1> HIDE DEF n
<1>2. 1 .. n + 1 = (1 .. n) \cup {n + 1} /\ n + 1 \notin 1 .. n
  BY <1>1
<1>3. Completions' = Completions \cup {r}
  BY <1>0, <1>1, <1>2 DEF Completions
<1>4. \A i \in 1 .. n : cq[i].req # r /\ cq[i].req \in Requests
  <2>1. \A i \in 1 .. n : cq[i] \in [req : Requests, res : Reads]
    <3> DEFINE C == [req : Requests, res : Reads]
    <3>1. cq \in Seq(C)
      BY DEF TypeOK
    <3> HIDE DEF C
    <3>2. \A i \in 1 .. n : cq[i] \in C
      BY <1>1, <3>1
    <3> QED
      BY <3>2 DEF C
  <2> QED
    BY <1>1, <2>1 DEF Completions
<1>5. \A i, j \in DOMAIN cq' : cq'[i].req = cq'[j].req => i = j
  BY <1>0, <1>1, <1>2, <1>4 DEF OnePlace
<1>6. \A i \in DOMAIN cq' : cq'[i].res = done'[cq'[i].req]
  BY <1>0, <1>1, <1>2, <1>4 DEF OnePlace, TypeOK
<1> QED
  BY <1>1, <1>3, <1>5, <1>6

(* The oldest completion is taken: it was the only one of its read. *)
LEMMA CqTail ==
  ASSUME TypeOK, OnePlace, cq # <<>>, cq' = Tail(cq), UNCHANGED done
  PROVE  /\ Head(cq).req \in Completions /\ Head(cq).req \in Requests
         /\ Head(cq).res \in Reads /\ Head(cq).res = done[Head(cq).req]
         /\ cq' \in Seq([req : Requests, res : Reads])
         /\ Completions' = Completions \ {Head(cq).req}
         /\ \A i, j \in DOMAIN cq' : cq'[i].req = cq'[j].req => i = j
         /\ \A i \in DOMAIN cq' : cq'[i].res = done'[cq'[i].req]
<1> DEFINE n == Len(cq) - 1
<1>1. /\ n \in Nat /\ DOMAIN cq = 1 .. n + 1 /\ Head(cq) = cq[1]
      /\ cq' \in Seq([req : Requests, res : Reads])
      /\ DOMAIN cq' = 1 .. n /\ \A i \in 1 .. n : cq'[i] = cq[i + 1]
      /\ \A i \in 1 .. n + 1 : cq[i] \in [req : Requests, res : Reads]
  <2> DEFINE C == [req : Requests, res : Reads]
  <2>1. cq \in Seq(C)
    BY DEF TypeOK
  <2> HIDE DEF C
  <2>2. /\ Tail(cq) \in Seq(C) /\ Len(Tail(cq)) = Len(cq) - 1
        /\ \A i \in 1 .. Len(Tail(cq)) : Tail(cq)[i] = cq[i + 1]
    BY <2>1, HeadTailProperties
  <2>3. n \in Nat /\ Len(cq) = n + 1
    BY <2>1
  <2>4. DOMAIN cq = 1 .. n + 1 /\ \A i \in 1 .. n + 1 : cq[i] \in C
    BY <2>1, <2>3
  <2>5. Head(cq) = cq[1]
    BY <2>1
  <2>6. DOMAIN cq' = 1 .. n
    BY <2>2
  <2> QED
    BY <2>2, <2>3, <2>4, <2>5, <2>6 DEF C
<1> HIDE DEF n
<1>2. 1 \in 1 .. n + 1 /\ \A i \in 1 .. n : i + 1 \in 1 .. n + 1 /\ i + 1 # 1
  BY <1>1
<1>3. /\ cq[1].req \in Requests /\ cq[1].res \in Reads /\ cq[1].res = done[cq[1].req]
      /\ cq[1].req \in Completions
  BY <1>1, <1>2 DEF Completions, OnePlace
<1>4. \A i, j \in 1 .. n + 1 : cq[i].req = cq[j].req => i = j
  BY <1>1 DEF OnePlace
<1>5. ASSUME NEW i \in 1 .. n + 1, i # 1 PROVE i - 1 \in 1 .. n /\ cq'[i - 1] = cq[i]
  <2>1. i - 1 \in 1 .. n /\ (i - 1) + 1 = i
    BY <1>1, <1>5
  <2> QED
    BY <1>1, <2>1
<1>6. Completions' = Completions \ {cq[1].req}
  <2>1. ASSUME NEW r \in Completions' PROVE r \in Completions /\ r # cq[1].req
    <3>1. PICK i \in 1 .. n : r = cq'[i].req
      BY <1>1 DEF Completions
    <3>2. i + 1 \in 1 .. n + 1 /\ r = cq[i + 1].req
      BY <1>1, <1>2, <3>1
    <3> QED
      BY <1>1, <1>2, <1>4, <3>2 DEF Completions
  <2>2. ASSUME NEW r \in Completions, r # cq[1].req PROVE r \in Completions'
    <3>1. PICK i \in 1 .. n + 1 : r = cq[i].req
      BY <1>1 DEF Completions
    <3>2. i - 1 \in 1 .. n /\ cq'[i - 1] = cq[i]
      BY <1>5, <2>2, <3>1
    <3> QED
      BY <1>1, <3>1, <3>2 DEF Completions
  <2> QED
    BY <2>1, <2>2
<1>7. ASSUME NEW i \in 1 .. n, NEW j \in 1 .. n, cq'[i].req = cq'[j].req PROVE i = j
  <2>1. i + 1 = j + 1
    BY <1>1, <1>2, <1>4, <1>7
  <2> QED
    BY <2>1
<1>8. ASSUME NEW i \in 1 .. n PROVE cq'[i].res = done'[cq'[i].req]
  <2>1. i + 1 \in DOMAIN cq /\ cq'[i] = cq[i + 1]
    BY <1>1, <1>2
  <2>2. cq[i + 1].res = done[cq[i + 1].req]
    BY <2>1 DEF OnePlace
  <2> QED
    BY <2>1, <2>2
<1> QED
  BY <1>1, <1>3, <1>6, <1>7, <1>8

-----------------------------------------------------------------------------
(* Nothing has been read yet. *)
LEMMA InitIInv == Init => IInv
<1> SUFFICES ASSUME Init PROVE IInv
  OBVIOUS
<1> USE DEF Init
<1>1. sq \in Seq(Requests) /\ cq \in Seq([req : Requests, res : Reads])
  OBVIOUS
<1>2. TypeOK
  <2>1. /\ task \in [Requests -> {"fresh", "started", "suspended", "done", "destroyed"}]
        /\ result \in [Requests -> Results \cup {Nothing}]
        /\ frame \in [Requests -> Frames \cup {NoFrame}]
        /\ armed \in [Requests -> BOOLEAN]
        /\ done \in [Requests -> Reads \cup {Nothing}]
    OBVIOUS
  <2>2. Len(sq) <= QueueDepth
    BY DepthAssumption
  <2>3. submitFailures \in 0 .. MaxSubmitFailures /\ waitFailures \in 0 .. MaxWaitFailures
    BY BoundAssumption
  <2>4. /\ kernel \subseteq Requests /\ pc \in {"idle", "submit", "arm", "undefined"}
        /\ request \in Requests \cup {NoRequest} /\ reused \in BOOLEAN
    OBVIOUS
  <2> HIDE DEF Init
  <2> QED
    BY <1>1, <2>1, <2>2, <2>3, <2>4 DEF TypeOK
<1>3. Range(sq) = {} /\ Completions = {} /\ kernel = {}
  BY DEF Range, Completions
<1>4. OnePlace
  BY <1>3 DEF OnePlace, Outstanding
<1>5. Suspending /\ SuspendedIsOutstanding
  BY DEF Suspending, SuspendedIsOutstanding
<1>6. FramesApart /\ NothingStale
  <2>1. ResultsMatch
    BY DEF ResultsMatch, Reads, Nothing
  <2> QED
    BY <1>3, <2>1 DEF FramesApart, NothingStale, Living, Outstanding
<1>7. CleanUntilReused
  BY <1>3 DEF CleanUntilReused
<1> QED
  BY <1>2, <1>4, <1>5, <1>6, <1>7 DEF IInv

(* Every step keeps the variables in their types. *)
LEMMA TypeStep == IInv /\ [Next]_vars => TypeOK'
<1> SUFFICES ASSUME IInv, [Next]_vars PROVE TypeOK'
  OBVIOUS
<1>0. TypeOK /\ OnePlace /\ Suspending
  BY DEF IInv
<1>a. Len(sq) \in Nat /\ QueueDepth \in Nat /\ MaxSubmitFailures \in Nat
      /\ MaxWaitFailures \in Nat
  BY <1>0, DepthAssumption, BoundAssumption DEF TypeOK
<1> USE DEF rings, failures
<1>1. ASSUME NEW r \in Requests, NEW f \in Frames, Prepare(r, f) PROVE TypeOK'
  <2>1. sq' \in Seq(Requests) /\ Len(sq') <= QueueDepth
    BY <1>0, <1>1, <1>a, SqAppend DEF Prepare
  <2>2. reused' \in BOOLEAN
    BY <1>1 DEF Prepare, Allocate
  <2> QED
    BY <1>0, <1>1, <2>1, <2>2 DEF Prepare, Allocate, TypeOK
<1>2. ASSUME NEW r \in Requests, NEW f \in Frames, PrepareFails(r, f) PROVE TypeOK'
  <2>1. reused' \in BOOLEAN
    BY <1>2 DEF PrepareFails, Allocate
  <2> QED
    BY <1>0, <1>2, <2>1 DEF PrepareFails, Allocate, TypeOK, Results
<1>3. ASSUME NEW r \in Requests, WaitOneFails(r) PROVE TypeOK'
  BY <1>0, <1>a, <1>3 DEF WaitOneFails, TypeOK, Results, Abandoned
<1>4. ASSUME NEW r \in Requests, DestroyTask(r) PROVE TypeOK'
  BY <1>0, <1>4 DEF DestroyTask, TypeOK
<1>5. CASE Submit
  <2>1. Range(sq) \subseteq Requests
    BY <1>0 DEF TypeOK, Range
  <2>2. sq' \in Seq(Requests) /\ Len(sq') <= QueueDepth
    BY <1>5, <1>a DEF Submit
  <2>3. request \in Requests
    BY <1>0, <1>5 DEF Suspending, Submit
  <2> QED
    BY <1>0, <1>5, <2>1, <2>2, <2>3 DEF Submit, TypeOK, Results, Abandoned
<1>6. CASE SubmitFails
  BY <1>0, <1>a, <1>6 DEF SubmitFails, TypeOK, Results, Abandoned, Suspending
<1>7. CASE Arm
  BY <1>0, <1>7 DEF Arm, TypeOK, Suspending
<1>8. ASSUME NEW r \in Requests, WaitOne(r) PROVE TypeOK'
  <2> DEFINE v == Head(cq).res
  <2>1. /\ cq # <<>> /\ cq' = Tail(cq) /\ UNCHANGED done
        /\ task' = [task EXCEPT ![r] = "done"]
        /\ result' = [result EXCEPT ![r] = v]
        /\ armed' = [armed EXCEPT ![r] = FALSE]
        /\ UNCHANGED <<frame, sq, kernel, pc, request, submitFailures, waitFailures, reused>>
    BY <1>8 DEF WaitOne
  <2>2. v \in Reads /\ cq' \in Seq([req : Requests, res : Reads])
    BY <1>0, <2>1, CqTail
  <2> HIDE DEF v
  <2> QED
    BY <1>0, <2>1, <2>2 DEF TypeOK, Results
<1>9. CASE WaitOneUndefined
  <2>1. cq' \in Seq([req : Requests, res : Reads])
    BY <1>0, <1>9, CqTail DEF WaitOneUndefined, Stray
  <2> QED
    BY <1>0, <1>9, <2>1 DEF WaitOneUndefined, TypeOK
<1>12. ASSUME NEW r \in Requests, WaitOneThrows(r) PROVE TypeOK'
  <2>1. cq' \in Seq([req : Requests, res : Reads])
    BY <1>0, <1>12, CqTail DEF WaitOneThrows, Stray
  <2> QED
    BY <1>0, <1>12, <2>1 DEF WaitOneThrows, TypeOK, Results, Abandoned
<1>10. ASSUME NEW r \in Requests, NEW o \in Reads, Complete(r, o) PROVE TypeOK'
  <2>1. r \notin Completions
    BY <1>0, <1>10 DEF Complete, OnePlace
  <2>2. cq' \in Seq([req : Requests, res : Reads])
    BY <1>0, <1>10, <2>1, CqAppend DEF Complete
  <2> QED
    BY <1>0, <1>10, <2>2 DEF Complete, TypeOK
<1>11. CASE UNCHANGED vars
  BY <1>0, <1>11 DEF vars, TypeOK
<1> QED
  BY <1>1, <1>2, <1>3, <1>4, <1>5, <1>6, <1>7, <1>8, <1>9, <1>10, <1>11, <1>12
  DEF Next, CallerStep, KernelStep, Ended

-----------------------------------------------------------------------------
(* The reads move from the submission queue to the kernel and from there   *)
(* to the completion queue, and leave each place as they enter the next.   *)
LEMMA PlaceStep ==
  IInv /\ [Next]_vars => OnePlace' /\ Suspending' /\ SuspendedIsOutstanding'
<1> SUFFICES ASSUME IInv, [Next]_vars
             PROVE  OnePlace' /\ Suspending' /\ SuspendedIsOutstanding'
  OBVIOUS
<1> DEFINE Goal == OnePlace' /\ Suspending' /\ SuspendedIsOutstanding'
<1>0. TypeOK /\ OnePlace /\ Suspending /\ FramesApart /\ SuspendedIsOutstanding
  BY DEF IInv
<1>a. /\ Range(sq) \subseteq Requests /\ kernel \subseteq Requests
      /\ Completions \subseteq Requests
  BY <1>0, PlacesTyped
<1>1. ASSUME NEW r \in Requests, NEW f \in Frames, Prepare(r, f) PROVE Goal
  <2>1. /\ task[r] = "fresh" /\ sq' = Append(sq, r) /\ request' = r /\ pc' = "submit"
        /\ task' = [task EXCEPT ![r] = "started"]
        /\ UNCHANGED <<result, kernel, cq, done>> /\ pc = "idle"
    BY <1>1 DEF Prepare, Allocate
  <2>2. /\ Range(sq') = Range(sq) \cup {r}
        /\ Len(sq') \in DOMAIN sq' /\ sq'[Len(sq')] = r
    BY <1>0, <2>1, SqAppend
  <2>3. Completions' = Completions
    BY <2>1 DEF Completions
  <2>4. r \notin Range(sq) /\ r \notin kernel /\ r \notin Completions
    BY <1>0, <2>1 DEF OnePlace, Outstanding
  <2>6. Outstanding' = Outstanding \cup {r}
    BY <2>1, <2>2, <2>3 DEF Outstanding
  <2>7. \A x \in Requests : task'[x] = IF x = r THEN "started" ELSE task[x]
    BY <1>0, <2>1 DEF TypeOK
  <2>8. OnePlace'
    BY <1>0, <1>a, <2>1, <2>2, <2>3, <2>4, <2>6, <2>7 DEF OnePlace, Outstanding
  <2>9. Suspending'
    BY <2>1, <2>2, <2>7 DEF Suspending
  <2>10. SuspendedIsOutstanding'
    BY <1>0, <2>1, <2>3, <2>7 DEF SuspendedIsOutstanding
  <2> QED
    BY <2>8, <2>9, <2>10
<1>2. ASSUME NEW r \in Requests, NEW f \in Frames, PrepareFails(r, f) PROVE Goal
  <2>1. /\ task[r] = "fresh" /\ task' = [task EXCEPT ![r] = "done"]
        /\ \A x \in Requests : x # r => result'[x] = result[x]
        /\ UNCHANGED <<sq, kernel, cq, done, pc, request>> /\ pc = "idle"
    BY <1>0, <1>2 DEF PrepareFails, Allocate, rings, TypeOK
  <2>2. Completions' = Completions /\ Outstanding' = Outstanding
    BY <2>1 DEF Completions, Outstanding, Range
  <2>3. OnePlace'
    BY <1>0, <1>a, <2>1, <2>2 DEF OnePlace, Outstanding, TypeOK
  <2>4. SuspendedIsOutstanding'
    BY <1>0, <2>1, <2>2 DEF SuspendedIsOutstanding, TypeOK
  <2> QED
    BY <1>0, <2>1, <2>3, <2>4 DEF Suspending, TypeOK
<1>3. ASSUME NEW r \in Requests, WaitOneFails(r) PROVE Goal
  <2>1. /\ task[r] = "suspended" /\ task' = [task EXCEPT ![r] = "destroyed"]
        /\ result' = [result EXCEPT ![r] = "wait_error"]
        /\ UNCHANGED <<sq, kernel, cq, done, pc, request>> /\ pc = "idle"
    BY <1>3 DEF WaitOneFails, rings
  <2>2. Completions' = Completions /\ Outstanding' = Outstanding
    BY <2>1 DEF Completions, Outstanding, Range
  <2>3. OnePlace'
    BY <1>0, <1>a, <2>1, <2>2 DEF OnePlace, Outstanding, TypeOK
  <2>4. SuspendedIsOutstanding'
    BY <1>0, <2>1, <2>2 DEF SuspendedIsOutstanding, TypeOK
  <2> QED
    BY <1>0, <2>1, <2>3, <2>4 DEF Suspending, TypeOK
<1>4. ASSUME NEW r \in Requests, DestroyTask(r) PROVE Goal
  <2>1. /\ task[r] = "done" /\ task' = [task EXCEPT ![r] = "destroyed"]
        /\ UNCHANGED <<result, sq, kernel, cq, done, pc, request>> /\ pc = "idle"
    BY <1>4 DEF DestroyTask, rings
  <2>2. Completions' = Completions /\ Outstanding' = Outstanding
    BY <2>1 DEF Completions, Outstanding, Range
  <2>3. OnePlace'
    BY <1>0, <1>a, <2>1, <2>2 DEF OnePlace, Outstanding, TypeOK
  <2>4. SuspendedIsOutstanding'
    BY <1>0, <2>1, <2>2 DEF SuspendedIsOutstanding, TypeOK
  <2> QED
    BY <1>0, <2>1, <2>3, <2>4 DEF Suspending
<1>5. CASE Submit
  <2>1. /\ pc = "submit" /\ kernel' = kernel \cup Range(sq) /\ sq' = <<>>
        /\ UNCHANGED <<cq, done>>
    BY <1>5 DEF Submit
  <2>2. /\ request \in Requests /\ task[request] = "started" /\ request \in Range(sq)
    BY <1>0, <2>1 DEF Suspending, Range
  <2>3. Range(sq') = {} /\ Completions' = Completions /\ Outstanding' = Outstanding
    BY <2>1 DEF Completions, Outstanding, Range
  <2>4. CASE pc' = "arm" /\ UNCHANGED <<task, result, request>>
    <3>1. OnePlace'
      BY <1>0, <2>1, <2>3, <2>4 DEF OnePlace, Outstanding
    <3>2. Suspending'
      BY <2>1, <2>2, <2>4 DEF Suspending
    <3> QED
      BY <1>0, <2>1, <2>3, <2>4, <3>1, <3>2 DEF SuspendedIsOutstanding
  <2>5. CASE /\ task' = [task EXCEPT ![request] = "done"]
             /\ result' = [result EXCEPT ![request] = "EIO"]
             /\ pc' = "idle" /\ request' = NoRequest
    <3>1. OnePlace'
      BY <1>0, <1>a, <2>1, <2>2, <2>3, <2>5 DEF OnePlace, Outstanding, TypeOK
    <3>2. Suspending'
      BY <2>5 DEF Suspending
    <3>3. SuspendedIsOutstanding'
      BY <1>0, <2>1, <2>2, <2>3, <2>5 DEF SuspendedIsOutstanding, TypeOK
    <3> QED
      BY <3>1, <3>2, <3>3
  <2> QED
    BY <1>5, <2>4, <2>5 DEF Submit
<1>6. CASE SubmitFails
  <2>1. /\ pc = "submit" /\ task' = [task EXCEPT ![request] = "done"]
        /\ result' = [result EXCEPT ![request] = "submit_error"]
        /\ UNCHANGED <<sq, kernel, cq, done>> /\ pc' = "idle" /\ request' = NoRequest
    BY <1>6 DEF SubmitFails, rings
  <2>2. request \in Requests /\ task[request] = "started"
    BY <1>0, <2>1 DEF Suspending
  <2>3. Completions' = Completions /\ Outstanding' = Outstanding
    BY <2>1 DEF Completions, Outstanding, Range
  <2>4. OnePlace'
    BY <1>0, <1>a, <2>1, <2>2, <2>3 DEF OnePlace, Outstanding, TypeOK
  <2>5. SuspendedIsOutstanding'
    BY <1>0, <2>1, <2>2, <2>3 DEF SuspendedIsOutstanding, TypeOK
  <2> QED
    BY <2>1, <2>4, <2>5 DEF Suspending
<1>7. CASE Arm
  <2>1. /\ pc = "arm" /\ task' = [task EXCEPT ![request] = "suspended"]
        /\ UNCHANGED <<result, sq, kernel, cq, done>> /\ pc' = "idle"
    BY <1>7 DEF Arm, rings
  <2>2. request \in Requests /\ task[request] = "started" /\ request \in kernel \cup Completions
    BY <1>0, <2>1 DEF Suspending
  <2>3. Completions' = Completions /\ Outstanding' = Outstanding
    BY <2>1 DEF Completions, Outstanding, Range
  <2>4. OnePlace'
    BY <1>0, <1>a, <2>1, <2>2, <2>3 DEF OnePlace, Outstanding, TypeOK
  <2>5. SuspendedIsOutstanding'
    BY <1>0, <2>1, <2>2, <2>3 DEF SuspendedIsOutstanding, TypeOK
  <2> QED
    BY <1>0, <2>1, <2>4, <2>5 DEF Suspending
<1>8. ASSUME NEW r \in Requests, WaitOne(r) PROVE Goal
  <2> DEFINE h == Head(cq).req
             v == Head(cq).res
  <2>1. /\ cq # <<>> /\ cq' = Tail(cq) /\ UNCHANGED done /\ pc = "idle" /\ pc' = "idle"
        /\ armed[r] = TRUE /\ frame[r] = frame[h]
        /\ task' = [task EXCEPT ![r] = "done"] /\ result' = [result EXCEPT ![r] = v]
        /\ UNCHANGED <<sq, kernel>>
    BY <1>0, <1>8 DEF WaitOne, TypeOK
  <2>2. /\ h \in Completions /\ h \in Requests /\ Completions' = Completions \ {h}
        /\ \A i, j \in DOMAIN cq' : cq'[i].req = cq'[j].req => i = j
        /\ \A i \in DOMAIN cq' : cq'[i].res = done'[cq'[i].req]
    BY <1>0, <2>1, CqTail
  <2> HIDE DEF h, v
  <2>3. Range(sq') = Range(sq) /\ Outstanding' = Outstanding \ {h}
    BY <1>0, <2>1, <2>2 DEF Outstanding, OnePlace
  <2>4. \A x \in Requests : /\ task'[x] = IF x = r THEN "done" ELSE task[x]
                            /\ result'[x] = IF x = r THEN v ELSE result[x]
    BY <1>0, <2>1 DEF TypeOK
  <2>5. Outstanding \subseteq Requests
    BY <1>a DEF Outstanding
  <2>6. \A x \in Outstanding' : task'[x] # "fresh"
    BY <1>0, <2>3, <2>4, <2>5 DEF OnePlace
  <2>7. OnePlace'
    BY <1>0, <2>1, <2>2, <2>3, <2>4, <2>6 DEF OnePlace
  <2>8. task[h] = "suspended" => h = r
    BY <1>0, <2>1, <2>2 DEF FramesApart, Living
  <2>9. SuspendedIsOutstanding'
    BY <1>0, <2>1, <2>2, <2>4, <2>8 DEF SuspendedIsOutstanding
  <2> QED
    BY <2>1, <2>7, <2>9 DEF Suspending
<1>9. CASE WaitOneUndefined
  <2> DEFINE h == Head(cq).req
  <2>1. /\ cq # <<>> /\ cq' = Tail(cq) /\ pc' = "undefined"
        /\ UNCHANGED <<task, result, done, sq, kernel, request>>
    BY <1>9 DEF WaitOneUndefined, Stray
  <2>2. /\ h \in Completions /\ Completions' = Completions \ {h}
        /\ \A i, j \in DOMAIN cq' : cq'[i].req = cq'[j].req => i = j
        /\ \A i \in DOMAIN cq' : cq'[i].res = done'[cq'[i].req]
    BY <1>0, <2>1, CqTail
  <2> HIDE DEF h
  <2>3. Range(sq') = Range(sq) /\ Outstanding' \subseteq Outstanding
    BY <2>1, <2>2 DEF Outstanding
  <2>4. OnePlace'
    BY <1>0, <2>1, <2>2, <2>3 DEF OnePlace
  <2> QED
    BY <2>1, <2>4 DEF Suspending, SuspendedIsOutstanding
<1>12. ASSUME NEW r \in Requests, WaitOneThrows(r) PROVE Goal
  <2> DEFINE h == Head(cq).req
  <2>1. /\ cq # <<>> /\ cq' = Tail(cq) /\ UNCHANGED done /\ pc = "idle" /\ pc' = "idle"
        /\ \A q \in Requests : armed[q] = TRUE => frame[q] # frame[h]
        /\ task' = [task EXCEPT ![r] = "destroyed"]
        /\ result' = [result EXCEPT ![r] = "logic_error"]
        /\ UNCHANGED <<sq, kernel>>
    BY <1>12 DEF WaitOneThrows, Stray
  <2>2. /\ h \in Completions /\ h \in Requests /\ Completions' = Completions \ {h}
        /\ \A i, j \in DOMAIN cq' : cq'[i].req = cq'[j].req => i = j
        /\ \A i \in DOMAIN cq' : cq'[i].res = done'[cq'[i].req]
    BY <1>0, <2>1, CqTail
  <2> HIDE DEF h
  <2>3. Range(sq') = Range(sq) /\ Outstanding' \subseteq Outstanding
    BY <2>1, <2>2 DEF Outstanding
  <2>4. \A x \in Requests : /\ task'[x] = IF x = r THEN "destroyed" ELSE task[x]
                            /\ x # r => result'[x] = result[x]
    BY <1>0, <2>1 DEF TypeOK
  <2>5. Outstanding \subseteq Requests
    BY <1>a DEF Outstanding
  <2>6. \A x \in Outstanding' : task'[x] # "fresh"
    BY <1>0, <2>3, <2>4, <2>5 DEF OnePlace
  <2>7. OnePlace'
    BY <1>0, <2>1, <2>2, <2>3, <2>4, <2>6 DEF OnePlace
  <2>8. task[h] # "suspended"
    BY <1>0, <2>1, <2>2 DEF FramesApart
  <2>9. SuspendedIsOutstanding'
    BY <1>0, <2>1, <2>2, <2>4, <2>8 DEF SuspendedIsOutstanding
  <2> QED
    BY <2>1, <2>7, <2>9 DEF Suspending
<1>10. ASSUME NEW r \in Requests, NEW o \in Reads, Complete(r, o) PROVE Goal
  <2>1. /\ r \in kernel /\ kernel' = kernel \ {r} /\ done' = [done EXCEPT ![r] = o]
        /\ cq' = Append(cq, [req |-> r, res |-> o])
        /\ UNCHANGED <<task, result, sq, pc, request>>
    BY <1>10 DEF Complete
  <2>2. r \notin Completions
    BY <1>0, <2>1 DEF OnePlace, Outstanding
  <2>3. /\ Completions' = Completions \cup {r}
        /\ \A i, j \in DOMAIN cq' : cq'[i].req = cq'[j].req => i = j
        /\ \A i \in DOMAIN cq' : cq'[i].res = done'[cq'[i].req]
    BY <1>0, <2>1, <2>2, CqAppend
  <2>4. Range(sq') = Range(sq) /\ Outstanding' = Outstanding
    BY <2>1, <2>3 DEF Outstanding
  <2>5. OnePlace'
    BY <1>0, <2>1, <2>2, <2>3, <2>4 DEF OnePlace, Outstanding
  <2>6. Suspending' /\ SuspendedIsOutstanding'
    BY <1>0, <2>1, <2>3 DEF Suspending, SuspendedIsOutstanding
  <2> QED
    BY <2>5, <2>6
<1>11. CASE UNCHANGED vars
  BY <1>0, <1>11
  DEF vars, rings, OnePlace, Suspending, SuspendedIsOutstanding, Outstanding,
      Completions
<1> QED
  BY <1>1, <1>2, <1>3, <1>4, <1>5, <1>6, <1>7, <1>8, <1>9, <1>10, <1>11, <1>12
  DEF Next, CallerStep, KernelStep, Ended

-----------------------------------------------------------------------------
(* A frame is given only to a Task that no other living Task keeps out.    *)
LEMMA FrameStep == IInv /\ [Next]_vars => FramesApart'
<1> SUFFICES ASSUME IInv, [Next]_vars PROVE FramesApart'
  OBVIOUS
<1>0. TypeOK /\ Suspending /\ FramesApart
  BY DEF IInv
<1> USE DEF FramesApart, Living, TypeOK
<1>1. ASSUME NEW r \in Requests, NEW f \in Frames, Prepare(r, f) PROVE FramesApart'
  BY <1>0, <1>1 DEF Prepare, Allocate
<1>2. ASSUME NEW r \in Requests, NEW f \in Frames, PrepareFails(r, f) PROVE FramesApart'
  BY <1>0, <1>2 DEF PrepareFails, Allocate
<1>3. ASSUME NEW r \in Requests, WaitOneFails(r) PROVE FramesApart'
  BY <1>0, <1>3 DEF WaitOneFails
<1>4. ASSUME NEW r \in Requests, DestroyTask(r) PROVE FramesApart'
  BY <1>0, <1>4 DEF DestroyTask
<1>5. CASE Submit
  BY <1>0, <1>5 DEF Submit, Suspending
<1>6. CASE SubmitFails
  BY <1>0, <1>6 DEF SubmitFails, Suspending
<1>7. CASE Arm
  BY <1>0, <1>7 DEF Arm, Suspending
<1>8. ASSUME NEW r \in Requests, WaitOne(r) PROVE FramesApart'
  BY <1>0, <1>8 DEF WaitOne
<1>9. CASE WaitOneUndefined
  BY <1>0, <1>9 DEF WaitOneUndefined
<1>10. ASSUME NEW r \in Requests, NEW o \in Reads, Complete(r, o) PROVE FramesApart'
  BY <1>0, <1>10 DEF Complete
<1>11. CASE UNCHANGED vars
  BY <1>0, <1>11 DEF vars
<1>12. ASSUME NEW r \in Requests, WaitOneThrows(r) PROVE FramesApart'
  BY <1>0, <1>12 DEF WaitOneThrows
<1> QED
  BY <1>1, <1>2, <1>3, <1>4, <1>5, <1>6, <1>7, <1>8, <1>9, <1>10, <1>11, <1>12
  DEF Next, CallerStep, KernelStep, Ended

(* Until the caller reads on after it abandoned a read, no completion      *)
(* reaches another Task than its own.                                      *)
LEMMA StaleStep == IInv /\ [Next]_vars => NothingStale'
<1> DEFINE Addresses == \A r \in Outstanding, q \in Requests :
                          Living(q) /\ frame[q] = frame[r] => q = r
           Lives == \A r \in Outstanding : task[r] \in {"started", "suspended"}
           Open == \A r \in Outstanding : result[r] \notin Reads
<1> SUFFICES ASSUME IInv, [Next]_vars, reused' = FALSE
             PROVE  /\ Addresses' /\ (~AbandonedBefore' => Lives')
                    /\ Open' /\ ResultsMatch'
  BY DEF NothingStale
<1> DEFINE Goal == /\ Addresses' /\ (~AbandonedBefore' => Lives')
                   /\ Open' /\ ResultsMatch'
<1>0. TypeOK /\ OnePlace /\ Suspending /\ FramesApart
  BY DEF IInv
<1>a. Outstanding \subseteq Requests
  BY <1>0, PlacesTyped DEF Outstanding
<1>b. reused = FALSE => Addresses /\ (~AbandonedBefore => Lives) /\ Open /\ ResultsMatch
  BY DEF IInv, NothingStale
<1>c. /\ \A e \in Abandoned \cup {"EAGAIN", "invalid_argument"} : e \notin Reads
      /\ Nothing \notin Reads
  BY DEF Abandoned, Reads, Nothing
<1>1. ASSUME NEW r \in Requests, NEW f \in Frames, Prepare(r, f) PROVE Goal
  <2>1. /\ task[r] = "fresh" /\ sq' = Append(sq, r)
        /\ task' = [task EXCEPT ![r] = "started"] /\ frame' = [frame EXCEPT ![r] = f]
        /\ \A q \in Requests : Living(q) => frame[q] # f
        /\ reused' = (reused \/ AbandonedBefore)
        /\ UNCHANGED <<result, kernel, cq, done>>
    BY <1>1 DEF Prepare, Allocate
  <2>2. reused = FALSE /\ ~AbandonedBefore
    BY <1>0, <2>1 DEF TypeOK
  <2>3. Outstanding' = Outstanding \cup {r}
    BY <1>0, <2>1, SqAppend DEF Outstanding, Completions
  <2>4. \A x \in Outstanding : x \in Requests /\ x # r /\ Living(x)
    BY <1>0, <1>a, <1>b, <2>1, <2>2 DEF OnePlace, Living
  <2>5. \A x \in Requests : /\ task'[x] = IF x = r THEN "started" ELSE task[x]
                            /\ frame'[x] = IF x = r THEN f ELSE frame[x]
    BY <1>0, <2>1 DEF TypeOK
  <2>6. Addresses'
    <3> SUFFICES ASSUME NEW x \in Outstanding', NEW q \in Requests, Living(q)',
                        frame'[q] = frame'[x]
                 PROVE  q = x
      OBVIOUS
    <3>1. CASE x = r
      BY <2>1, <2>5, <3>1 DEF Living
    <3>2. CASE x # r /\ q = r
      BY <2>1, <2>3, <2>4, <2>5, <3>2
    <3>3. CASE x # r /\ q # r
      BY <1>b, <2>2, <2>3, <2>4, <2>5, <3>3 DEF Living
    <3> QED
      BY <3>1, <3>2, <3>3
  <2>7. Lives'
    BY <1>b, <2>2, <2>3, <2>4, <2>5
  <2>8. Open'
    BY <1>0, <1>b, <1>c, <2>1, <2>2, <2>3 DEF OnePlace
  <2> QED
    BY <1>b, <2>1, <2>2, <2>6, <2>7, <2>8 DEF ResultsMatch
<1>2. ASSUME NEW r \in Requests, NEW f \in Frames, PrepareFails(r, f) PROVE Goal
  <2>1. /\ task[r] = "fresh" /\ frame' = [frame EXCEPT ![r] = f]
        /\ task' = [task EXCEPT ![r] = "done"]
        /\ \A q \in Requests : Living(q) => frame[q] # f
        /\ reused' = (reused \/ AbandonedBefore)
        /\ UNCHANGED <<sq, kernel, cq, done>>
    BY <1>2 DEF PrepareFails, Allocate, rings
  <2>2. reused = FALSE /\ ~AbandonedBefore
    BY <1>0, <2>1 DEF TypeOK
  <2>3. Outstanding' = Outstanding
    BY <2>1 DEF Outstanding, Completions
  <2>4. \A x \in Outstanding : x \in Requests /\ x # r /\ Living(x)
    BY <1>0, <1>a, <1>b, <2>1, <2>2 DEF OnePlace, Living
  <2>5. \A x \in Requests : /\ task'[x] = IF x = r THEN "done" ELSE task[x]
                            /\ frame'[x] = IF x = r THEN f ELSE frame[x]
    BY <1>0, <2>1 DEF TypeOK
  <2>6. \A x \in Requests : IF x = r THEN result'[x] \notin Reads ELSE result'[x] = result[x]
    BY <1>0, <1>2, <1>c DEF PrepareFails, TypeOK
  <2>7. Addresses'
    <3> SUFFICES ASSUME NEW x \in Outstanding, NEW q \in Requests, Living(q)',
                        frame'[q] = frame'[x]
                 PROVE  q = x
      BY <2>3
    <3>1. CASE q = r
      BY <2>1, <2>4, <2>5, <3>1
    <3>2. CASE q # r
      BY <1>b, <2>2, <2>4, <2>5, <3>2 DEF Living
    <3> QED
      BY <3>1, <3>2
  <2>8. Lives' /\ Open'
    BY <1>b, <2>2, <2>3, <2>4, <2>5, <2>6
  <2>9. ResultsMatch'
    BY <1>b, <2>1, <2>2, <2>6 DEF ResultsMatch
  <2> QED
    BY <2>7, <2>8, <2>9
<1>d. ASSUME reused = FALSE, UNCHANGED <<frame, done>>, Outstanding' \subseteq Outstanding,
             NEW r \in Requests, NEW e \in Abandoned,
             task'[r] \in {"done", "destroyed"}, result'[r] = e,
             Living(r), \A x \in Requests : x # r => task'[x] = task[x] /\ result'[x] = result[x]
      PROVE  Goal
  <2>1. AbandonedBefore'
    BY <1>d DEF AbandonedBefore
  <2>2. \A q \in Requests : Living(q)' => Living(q)
    BY <1>d DEF Living
  <2>3. Addresses'
    BY <1>a, <1>b, <1>d, <2>2
  <2>4. Open' /\ ResultsMatch'
    BY <1>a, <1>b, <1>c, <1>d DEF ResultsMatch
  <2> QED
    BY <2>1, <2>3, <2>4
<1>3. ASSUME NEW r \in Requests, WaitOneFails(r) PROVE Goal
  <2>1. Outstanding' = Outstanding
    BY <1>3 DEF WaitOneFails, rings, Outstanding, Completions
  <2>2. /\ reused = FALSE /\ UNCHANGED <<frame, done>> /\ Living(r)
        /\ task'[r] = "destroyed" /\ result'[r] = "wait_error"
        /\ \A x \in Requests : x # r => task'[x] = task[x] /\ result'[x] = result[x]
    BY <1>0, <1>3 DEF WaitOneFails, rings, Living, TypeOK
  <2> QED
    BY <1>d, <2>1, <2>2 DEF Abandoned
<1>4. ASSUME NEW r \in Requests, DestroyTask(r) PROVE Goal
  <2>1. /\ task[r] = "done" /\ task' = [task EXCEPT ![r] = "destroyed"]
        /\ UNCHANGED <<result, frame, sq, kernel, cq, done, reused>>
    BY <1>4 DEF DestroyTask, rings
  <2>2. Outstanding' = Outstanding /\ (AbandonedBefore' <=> AbandonedBefore)
    BY <2>1 DEF Outstanding, Completions, AbandonedBefore
  <2>3. \A x \in Requests : task'[x] = IF x = r THEN "destroyed" ELSE task[x]
    BY <1>0, <2>1 DEF TypeOK
  <2>4. Addresses'
    BY <1>a, <1>b, <2>1, <2>2, <2>3 DEF Living
  <2>5. ~AbandonedBefore' => Lives'
    BY <1>a, <1>b, <2>1, <2>2, <2>3
  <2> QED
    BY <1>b, <2>1, <2>2, <2>4, <2>5 DEF ResultsMatch
<1>5. CASE Submit
  <2>1. /\ pc = "submit" /\ kernel' = kernel \cup Range(sq) /\ sq' = <<>>
        /\ UNCHANGED <<cq, done, frame, reused>>
    BY <1>5 DEF Submit
  <2>2. request \in Requests /\ task[request] = "started"
    BY <1>0, <2>1 DEF Suspending
  <2>3. Outstanding' = Outstanding
    BY <2>1 DEF Completions, Outstanding, Range
  <2>4. CASE UNCHANGED <<task, result>>
    <3>1. AbandonedBefore' <=> AbandonedBefore
      BY <2>4 DEF AbandonedBefore
    <3> QED
      BY <1>b, <2>1, <2>3, <2>4, <3>1 DEF Living, ResultsMatch
  <2>5. CASE /\ task' = [task EXCEPT ![request] = "done"]
             /\ result' = [result EXCEPT ![request] = "EIO"]
    <3>1. /\ task'[request] = "done" /\ result'[request] = "EIO" /\ Living(request)
          /\ \A x \in Requests : x # request => task'[x] = task[x] /\ result'[x] = result[x]
      BY <1>0, <2>2, <2>5 DEF TypeOK, Living
    <3> QED
      BY <1>d, <2>1, <2>2, <2>3, <3>1 DEF Abandoned
  <2> QED
    BY <1>5, <2>4, <2>5 DEF Submit
<1>6. CASE SubmitFails
  <2>1. Outstanding' = Outstanding
    BY <1>6 DEF SubmitFails, rings, Outstanding, Completions
  <2>2. request \in Requests /\ task[request] = "started"
    BY <1>0, <1>6 DEF Suspending, SubmitFails
  <2>3. /\ reused = FALSE /\ UNCHANGED <<frame, done>> /\ Living(request)
        /\ task'[request] = "done" /\ result'[request] = "submit_error"
        /\ \A x \in Requests : x # request => task'[x] = task[x] /\ result'[x] = result[x]
    BY <1>0, <1>6, <2>2 DEF SubmitFails, rings, Living, TypeOK
  <2> QED
    BY <1>d, <2>1, <2>2, <2>3 DEF Abandoned
<1>7. CASE Arm
  <2>1. /\ pc = "arm" /\ task' = [task EXCEPT ![request] = "suspended"]
        /\ UNCHANGED <<result, frame, sq, kernel, cq, done, reused>>
    BY <1>7 DEF Arm, rings
  <2>2. request \in Requests /\ task[request] = "started"
    BY <1>0, <2>1 DEF Suspending
  <2>3. Outstanding' = Outstanding /\ (AbandonedBefore' <=> AbandonedBefore)
    BY <2>1 DEF Outstanding, Completions, AbandonedBefore
  <2>4. \A x \in Requests : task'[x] = IF x = request THEN "suspended" ELSE task[x]
    BY <1>0, <2>1 DEF TypeOK
  <2>5. Addresses'
    BY <1>a, <1>b, <2>1, <2>2, <2>3, <2>4 DEF Living
  <2>6. ~AbandonedBefore' => Lives'
    BY <1>a, <1>b, <2>1, <2>3, <2>4
  <2> QED
    BY <1>b, <2>1, <2>3, <2>5, <2>6 DEF ResultsMatch
<1>8. ASSUME NEW r \in Requests, WaitOne(r) PROVE Goal
  <2> DEFINE h == Head(cq).req
             v == Head(cq).res
  <2>1. /\ cq # <<>> /\ cq' = Tail(cq) /\ UNCHANGED done
        /\ armed[r] = TRUE /\ frame[r] = frame[h]
        /\ task' = [task EXCEPT ![r] = "done"] /\ result' = [result EXCEPT ![r] = v]
        /\ UNCHANGED <<frame, sq, kernel, reused>>
    BY <1>0, <1>8 DEF WaitOne, TypeOK
  <2>2. /\ h \in Completions /\ h \in Requests /\ v \in Reads /\ v = done[h]
        /\ Completions' = Completions \ {h}
    BY <1>0, <2>1, CqTail
  <2> HIDE DEF h, v
  <2>3. h \in Outstanding /\ task[r] = "suspended"
    BY <1>0, <2>1, <2>2 DEF Outstanding, FramesApart
  <2>4. r = h
    BY <1>b, <2>1, <2>3 DEF Living
  <2>5. \A x \in Outstanding' : x \in Outstanding /\ x # r
    BY <1>0, <2>1, <2>2, <2>4 DEF Outstanding, OnePlace
  <2>6. \A x \in Requests : /\ task'[x] = IF x = r THEN "done" ELSE task[x]
                            /\ result'[x] = IF x = r THEN v ELSE result[x]
    BY <1>0, <2>1 DEF TypeOK
  <2>7. AbandonedBefore => AbandonedBefore'
    <3>1. result[r] \notin Abandoned
      BY <1>0, <2>3 DEF OnePlace, Abandoned, Nothing
    <3> QED
      BY <2>6, <3>1 DEF AbandonedBefore
  <2>8. Addresses'
    BY <1>a, <1>b, <2>1, <2>3, <2>5, <2>6 DEF Living
  <2>9. (~AbandonedBefore' => Lives') /\ Open'
    BY <1>a, <1>b, <2>1, <2>5, <2>6, <2>7
  <2>10. ResultsMatch'
    BY <1>b, <2>1, <2>2, <2>4, <2>6 DEF ResultsMatch
  <2> QED
    BY <2>8, <2>9, <2>10
<1>9. CASE WaitOneUndefined
  <2>1. /\ cq # <<>> /\ cq' = Tail(cq)
        /\ UNCHANGED <<task, result, frame, sq, kernel, done, reused>>
    BY <1>9 DEF WaitOneUndefined, Stray
  <2>2. Outstanding' \subseteq Outstanding
    BY <1>0, <2>1, CqTail DEF Outstanding
  <2>3. AbandonedBefore' <=> AbandonedBefore
    BY <2>1 DEF AbandonedBefore
  <2> QED
    BY <1>b, <2>1, <2>2, <2>3 DEF Living, ResultsMatch
<1>10. ASSUME NEW r \in Requests, NEW o \in Reads, Complete(r, o) PROVE Goal
  <2>1. /\ r \in kernel /\ kernel' = kernel \ {r} /\ done' = [done EXCEPT ![r] = o]
        /\ cq' = Append(cq, [req |-> r, res |-> o])
        /\ UNCHANGED <<task, result, frame, sq, reused>>
    BY <1>10 DEF Complete
  <2>2. r \notin Completions
    BY <1>0, <2>1 DEF OnePlace
  <2>3. Completions' = Completions \cup {r}
    BY <1>0, <2>1, <2>2, CqAppend
  <2>4. Outstanding' = Outstanding /\ r \in Outstanding
    BY <2>1, <2>3 DEF Outstanding
  <2>5. AbandonedBefore' <=> AbandonedBefore
    BY <2>1 DEF AbandonedBefore
  <2>6. ResultsMatch'
    BY <1>0, <1>b, <2>1, <2>4 DEF ResultsMatch, TypeOK
  <2> QED
    BY <1>b, <2>1, <2>4, <2>5, <2>6 DEF Living
<1>11. CASE UNCHANGED vars
  <2>1. UNCHANGED <<task, result, frame, sq, kernel, cq, done, reused>>
    BY <1>11 DEF vars, rings
  <2>2. Outstanding' = Outstanding /\ (AbandonedBefore' <=> AbandonedBefore)
    BY <2>1 DEF Outstanding, Completions, AbandonedBefore
  <2> QED
    BY <1>b, <2>1, <2>2 DEF Living, ResultsMatch
<1>12. ASSUME NEW r \in Requests, WaitOneThrows(r) PROVE Goal
  <2>1. /\ cq # <<>> /\ cq' = Tail(cq) /\ UNCHANGED <<frame, sq, kernel, done, reused>>
        /\ Living(r) /\ task'[r] = "destroyed" /\ result'[r] = "logic_error"
        /\ \A x \in Requests : x # r => task'[x] = task[x] /\ result'[x] = result[x]
    BY <1>0, <1>12 DEF WaitOneThrows, Stray, Living, TypeOK
  <2>2. Outstanding' \subseteq Outstanding
    BY <1>0, <2>1, CqTail DEF Outstanding
  <2> QED
    BY <1>d, <2>1, <2>2 DEF Abandoned
<1> QED
  BY <1>1, <1>2, <1>3, <1>4, <1>5, <1>6, <1>7, <1>8, <1>9, <1>10, <1>11, <1>12
  DEF Next, CallerStep, KernelStep, Ended

-----------------------------------------------------------------------------
(* Until it reads on after abandoning a read or a wait_one() fails, one    *)
(* read at a time is submitted and each that is submitted is waited for.   *)
LEMMA CleanStep == IInv /\ [Next]_vars => CleanUntilReused'
<1> SUFFICES ASSUME IInv, [Next]_vars, reused' = FALSE, waitFailures' = 0
             PROVE  /\ pc' = "submit" => sq' = <<request'>>
                    /\ pc' \in {"submit", "arm"} => ~AbandonedBefore'
                    /\ pc' # "submit" /\ ~AbandonedBefore' => sq' = <<>>
                    /\ \A r \in (kernel \cup Completions)' : Tended(r)'
  BY DEF CleanUntilReused
<1> DEFINE Goal == /\ pc' = "submit" => sq' = <<request'>>
                   /\ pc' \in {"submit", "arm"} => ~AbandonedBefore'
                   /\ pc' # "submit" /\ ~AbandonedBefore' => sq' = <<>>
                   /\ \A r \in (kernel \cup Completions)' : Tended(r)'
           Clean == /\ pc = "submit" => sq = <<request>>
                    /\ pc \in {"submit", "arm"} => ~AbandonedBefore
                    /\ pc # "submit" /\ ~AbandonedBefore => sq = <<>>
                    /\ \A r \in kernel \cup Completions : Tended(r)
<1>0. /\ TypeOK /\ OnePlace /\ Suspending /\ FramesApart /\ NothingStale
      /\ reused = FALSE /\ waitFailures = 0 => Clean
  BY DEF IInv, CleanUntilReused
<1>a. kernel \cup Completions \subseteq Requests
  BY <1>0, PlacesTyped
<1>1. ASSUME NEW r \in Requests, NEW f \in Frames, Prepare(r, f) PROVE Goal
  <2>1. /\ task[r] = "fresh" /\ sq' = Append(sq, r) /\ request' = r /\ pc' = "submit"
        /\ task' = [task EXCEPT ![r] = "started"] /\ reused' = (reused \/ AbandonedBefore)
        /\ UNCHANGED <<result, armed, kernel, cq, waitFailures>> /\ pc = "idle"
    BY <1>1 DEF Prepare, Allocate, failures
  <2>2. reused = FALSE /\ ~AbandonedBefore
    BY <1>0, <2>1 DEF TypeOK
  <2>3. Clean /\ sq = <<>>
    BY <1>0, <2>1, <2>2
  <2>4. sq' = <<r>>
    BY <2>1, <2>3
  <2>5. ~AbandonedBefore' /\ Completions' = Completions
    BY <2>1, <2>2 DEF AbandonedBefore, Completions
  <2>6. \A x \in kernel \cup Completions : task[x] = "suspended" /\ armed[x] = TRUE /\ x # r
    BY <2>1, <2>3 DEF Tended
  <2>7. \A x \in kernel \cup Completions : task'[x] = "suspended" /\ armed'[x] = TRUE
    BY <1>0, <1>a, <2>1, <2>6 DEF TypeOK
  <2> QED
    BY <2>1, <2>4, <2>5, <2>7 DEF Tended
<1>2. ASSUME NEW r \in Requests, NEW f \in Frames, PrepareFails(r, f) PROVE Goal
  <2>1. /\ task[r] = "fresh" /\ task' = [task EXCEPT ![r] = "done"]
        /\ \A x \in Requests : x # r => result'[x] = result[x]
        /\ reused' = (reused \/ AbandonedBefore)
        /\ UNCHANGED <<sq, kernel, cq, armed, pc, request, waitFailures>> /\ pc = "idle"
    BY <1>0, <1>2 DEF PrepareFails, Allocate, rings, failures, TypeOK
  <2>2. reused = FALSE /\ ~AbandonedBefore
    BY <1>0, <2>1 DEF TypeOK
  <2>3. Clean
    BY <1>0, <2>1, <2>2
  <2>4. sq' = <<>>
    BY <2>1, <2>2, <2>3
  <2>5. Completions' = Completions
    BY <2>1 DEF Completions
  <2>6. \A x \in kernel \cup Completions : task[x] = "suspended" /\ armed[x] = TRUE /\ x # r
    BY <2>1, <2>3 DEF Tended
  <2>7. \A x \in kernel \cup Completions : task'[x] = "suspended" /\ armed'[x] = TRUE
    BY <1>0, <1>a, <2>1, <2>6 DEF TypeOK
  <2> QED
    BY <2>1, <2>4, <2>5, <2>7 DEF Tended
<1>3. ASSUME NEW r \in Requests, WaitOneFails(r) PROVE Goal
  BY <1>0, <1>3, BoundAssumption DEF WaitOneFails, TypeOK
<1>4. ASSUME NEW r \in Requests, DestroyTask(r) PROVE Goal
  <2>1. /\ task[r] = "done" /\ task' = [task EXCEPT ![r] = "destroyed"] /\ pc = "idle"
        /\ UNCHANGED <<result, armed, sq, kernel, cq, pc, request, reused, waitFailures>>
    BY <1>4 DEF DestroyTask, rings, failures
  <2>2. Clean
    BY <1>0, <2>1
  <2>3. Completions' = Completions /\ (AbandonedBefore' <=> AbandonedBefore)
    BY <2>1 DEF Completions, AbandonedBefore
  <2>4. \A x \in kernel \cup Completions : task[x] = "suspended" /\ armed[x] = TRUE /\ x # r
    BY <2>1, <2>2 DEF Tended
  <2>5. \A x \in kernel \cup Completions : task'[x] = "suspended" /\ armed'[x] = TRUE
    BY <1>0, <1>a, <2>1, <2>4 DEF TypeOK
  <2> QED
    BY <2>1, <2>2, <2>3, <2>5 DEF Tended
<1>5. CASE Submit
  <2>1. /\ pc = "submit" /\ kernel' = kernel \cup Range(sq) /\ sq' = <<>>
        /\ UNCHANGED <<armed, cq, waitFailures, reused>>
    BY <1>5 DEF Submit, failures
  <2>2. Clean /\ sq = <<request>> /\ ~AbandonedBefore
    BY <1>0, <2>1
  <2>3. Len(sq) = 1 /\ Range(sq) = {request}
    BY <2>2 DEF Range
  <2>4. pc' = "arm" /\ UNCHANGED <<task, result, request>>
    BY <1>5, <2>3 DEF Submit
  <2>5. Completions' = Completions /\ ~AbandonedBefore'
    BY <2>1, <2>2, <2>4 DEF Completions, AbandonedBefore
  <2>6. \A x \in kernel \cup Completions : task[x] = "suspended" /\ armed[x] = TRUE
    BY <2>1, <2>2 DEF Tended
  <2> QED
    BY <2>1, <2>3, <2>4, <2>5, <2>6 DEF Tended
<1>6. CASE SubmitFails
  <2>1. /\ pc = "submit" /\ task' = [task EXCEPT ![request] = "done"]
        /\ result' = [result EXCEPT ![request] = "submit_error"] /\ pc' = "idle"
        /\ UNCHANGED <<armed, sq, kernel, cq, waitFailures, reused>>
    BY <1>6 DEF SubmitFails, rings
  <2>2. request \in Requests /\ task[request] = "started"
    BY <1>0, <2>1 DEF Suspending
  <2>3. Clean
    BY <1>0, <2>1
  <2>4. AbandonedBefore'
    <3>1. result'[request] = "submit_error" /\ "submit_error" \in Abandoned
      BY <1>0, <2>1, <2>2 DEF TypeOK, Abandoned
    <3> QED
      BY <2>2, <3>1 DEF AbandonedBefore
  <2>5. Completions' = Completions
    BY <2>1 DEF Completions
  <2>6. \A x \in kernel \cup Completions :
          task[x] = "suspended" /\ armed[x] = TRUE /\ x # request
    BY <2>1, <2>2, <2>3 DEF Tended
  <2>7. \A x \in kernel \cup Completions : task'[x] = "suspended" /\ armed'[x] = TRUE
    BY <1>0, <1>a, <2>1, <2>6 DEF TypeOK
  <2> QED
    BY <2>1, <2>4, <2>5, <2>7 DEF Tended
<1>7. CASE Arm
  <2>1. /\ pc = "arm" /\ task' = [task EXCEPT ![request] = "suspended"] /\ pc' = "idle"
        /\ armed' = [armed EXCEPT ![request] = TRUE]
        /\ UNCHANGED <<result, sq, kernel, cq, waitFailures, reused>>
    BY <1>7 DEF Arm, rings, failures
  <2>2. Clean /\ ~AbandonedBefore /\ sq = <<>>
    BY <1>0, <2>1
  <2>3. Completions' = Completions
    BY <2>1 DEF Completions
  <2>4. \A x \in kernel \cup Completions :
          (task[x] = "suspended" /\ armed[x] = TRUE) \/ x = request
    BY <2>2 DEF Tended
  <2>5. \A x \in kernel \cup Completions : task'[x] = "suspended" /\ armed'[x] = TRUE
    BY <1>0, <1>a, <2>1, <2>4 DEF TypeOK
  <2> QED
    BY <2>1, <2>2, <2>3, <2>5 DEF Tended
<1>8. ASSUME NEW r \in Requests, WaitOne(r) PROVE Goal
  <2> DEFINE h == Head(cq).req
             v == Head(cq).res
  <2>1. /\ cq # <<>> /\ cq' = Tail(cq) /\ UNCHANGED done /\ pc = "idle" /\ pc' = "idle"
        /\ armed[r] = TRUE /\ frame[r] = frame[h]
        /\ task' = [task EXCEPT ![r] = "done"] /\ result' = [result EXCEPT ![r] = v]
        /\ armed' = [armed EXCEPT ![r] = FALSE]
        /\ UNCHANGED <<sq, kernel, waitFailures, reused>>
    BY <1>0, <1>8 DEF WaitOne, failures, TypeOK
  <2>2. h \in Completions /\ h \in Requests /\ Completions' = Completions \ {h}
    BY <1>0, <2>1, CqTail
  <2> HIDE DEF h, v
  <2>3. Clean
    BY <1>0, <2>1
  <2>4. \A x \in kernel \cup Completions : task[x] = "suspended" /\ armed[x] = TRUE
    BY <2>1, <2>3 DEF Tended
  <2>5. task[r] = "suspended" /\ task[h] = "suspended"
    BY <1>0, <2>1, <2>2, <2>4 DEF FramesApart
  <2>6. r = h
    BY <1>0, <2>1, <2>2, <2>5 DEF FramesApart, Living
  <2>7. \A x \in kernel \cup Completions' : x \in Requests /\ x # r
    BY <1>0, <1>a, <2>2, <2>6 DEF OnePlace
  <2>8. \A x \in kernel \cup Completions' : task'[x] = "suspended" /\ armed'[x] = TRUE
    BY <1>0, <2>1, <2>2, <2>4, <2>7 DEF TypeOK
  <2>9. AbandonedBefore => AbandonedBefore'
    <3> SUFFICES ASSUME NEW x \in Requests, result[x] \in Abandoned
                 PROVE  AbandonedBefore'
      BY DEF AbandonedBefore
    <3>1. result[r] = Nothing
      BY <1>0, <2>5 DEF OnePlace
    <3>2. x # r
      BY <3>1 DEF Abandoned, Nothing
    <3>3. result'[x] = result[x]
      BY <1>0, <2>1, <3>2 DEF TypeOK
    <3> QED
      BY <3>3 DEF AbandonedBefore
  <2> QED
    BY <2>1, <2>3, <2>8, <2>9 DEF Tended
<1>9. WaitOneUndefined \/ (\E r \in Requests : WaitOneThrows(r)) => Goal
  <2> SUFFICES ASSUME Stray, cq' = Tail(cq), UNCHANGED <<done, waitFailures, reused>>
               PROVE  FALSE
    BY DEF WaitOneUndefined, WaitOneThrows, failures
  <2> DEFINE h == Head(cq).req
  <2>1. h \in Completions /\ h \in Requests
    BY <1>0, CqTail DEF Stray
  <2>2. pc = "idle" /\ (armed[h] = TRUE => frame[h] # frame[h])
    BY <2>1 DEF Stray
  <2> HIDE DEF h
  <2>3. Clean
    BY <1>0
  <2> QED
    BY <2>1, <2>2, <2>3 DEF Tended
<1>10. ASSUME NEW r \in Requests, NEW o \in Reads, Complete(r, o) PROVE Goal
  <2>1. /\ r \in kernel /\ kernel' = kernel \ {r} /\ done' = [done EXCEPT ![r] = o]
        /\ cq' = Append(cq, [req |-> r, res |-> o])
        /\ UNCHANGED <<task, result, armed, sq, pc, request, waitFailures, reused>>
    BY <1>10 DEF Complete, failures
  <2>2. Completions' = Completions \cup {r}
    <3>1. r \notin Completions
      BY <1>0, <2>1 DEF OnePlace
    <3> QED
      BY <1>0, <2>1, <3>1, CqAppend
  <2>3. Clean
    BY <1>0, <2>1
  <2>4. AbandonedBefore' <=> AbandonedBefore
    BY <2>1 DEF AbandonedBefore
  <2>5. (kernel \cup Completions)' = kernel \cup Completions
    BY <2>1, <2>2
  <2> QED
    BY <2>1, <2>3, <2>4, <2>5 DEF Tended
<1>11. CASE UNCHANGED vars
  <2>1. UNCHANGED <<task, result, armed, sq, kernel, cq, pc, request, waitFailures, reused>>
    BY <1>11 DEF vars, rings, failures
  <2>2. Clean
    BY <1>0, <2>1
  <2>3. Completions' = Completions /\ (AbandonedBefore' <=> AbandonedBefore)
    BY <2>1 DEF Completions, AbandonedBefore
  <2> QED
    BY <2>1, <2>2, <2>3 DEF Tended
<1> QED
  BY <1>1, <1>2, <1>3, <1>4, <1>5, <1>6, <1>7, <1>8, <1>9, <1>10, <1>11
  DEF Next, CallerStep, KernelStep, Ended

-----------------------------------------------------------------------------
(* The inductive invariant holds in every reachable state. *)
THEOREM Invariance == Spec => []IInv
<1>1. IInv /\ [Next]_vars => IInv'
  BY TypeStep, PlaceStep, FrameStep, StaleStep, CleanStep DEF IInv
<1> QED
  BY InitIInv, <1>1, PTL DEF Spec

(* Every variable keeps its type; the submission queue never exceeds its   *)
(* depth.                                                                  *)
THEOREM TypeCorrect == Spec => []TypeOK
<1>1. IInv => TypeOK
  BY DEF IInv
<1> QED
  BY Invariance, <1>1, PTL

(* A suspended Task always has a completion to come: wait_one() does not   *)
(* wait for nothing, whatever failed before.                               *)
THEOREM WaitsForSomething == Spec => []SuspendedIsOutstanding
<1>1. IInv => SuspendedIsOutstanding
  BY DEF IInv
<1> QED
  BY Invariance, <1>1, PTL

(* As long as the caller does not read on after it abandoned a read, a     *)
(* Task reports what the kernel did for its own read, in whatever order    *)
(* the completions arrive, even if a wait_one() failed.                    *)
THEOREM ResultsOwn == Spec => []ResultsOwnUntilReused
<1>1. IInv => ResultsOwnUntilReused
  BY DEF IInv, NothingStale, ResultsOwnUntilReused, TypeOK
<1> QED
  BY Invariance, <1>1, PTL

(* A caller that stops once it abandoned a read, as the executor does, and *)
(* for which no wait_one() fails gets no completion nobody waits for, and  *)
(* no buffer is given up while the kernel writes to it.                    *)
THEOREM SafeWhileClean == Spec => []SafeUntilReused
<1>1. ASSUME IInv, ~reused, waitFailures = 0 PROVE CompletionsExpected /\ BuffersOutliveReads
  <2>1. TypeOK /\ OnePlace /\ Suspending
    BY <1>1 DEF IInv
  <2>2. kernel \cup Completions \subseteq Requests
    BY <2>1, PlacesTyped
  <2>3. \A r \in kernel \cup Completions : Tended(r)
    BY <1>1 DEF IInv, CleanUntilReused, TypeOK
  <2>4. CompletionsExpected
    <3>1. \A r \in Completions :
            \/ task[r] = "suspended" /\ armed[r]
            \/ pc = "arm" /\ request = r
      BY <2>3 DEF Tended
    <3> QED
      BY <2>1, <3>1 DEF CompletionsExpected, OnePlace
  <2>5. BuffersOutliveReads
    BY <2>1, <2>3 DEF BuffersOutliveReads, Tended, Suspending
  <2> QED
    BY <2>4, <2>5
<1>2. IInv => SafeUntilReused
  BY <1>1 DEF SafeUntilReused
<1> QED
  BY Invariance, <1>2, PTL
=============================================================================
