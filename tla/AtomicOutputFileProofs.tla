----------------------- MODULE AtomicOutputFileProofs -----------------------
(***************************************************************************)
(* What a reader of the final name can count on, for every number of       *)
(* processes publishing to it and every size of a result.                  *)
(***************************************************************************)
EXTENDS AtomicOutputFile, TLAPS

(* How far each writer is says how much of its file is written and is on   *)
(* the disk.  A file that was renamed is complete on the disk: this is     *)
(* what the fsync before the rename buys.                                  *)
FilesFollow ==
  \A w \in Writers :
    /\ diskLength[w] <= length[w]
    /\ pc[w] \in {"fsync", "rename"} => length[w] = Size
    /\ pc[w] = "rename" \/ committed[w] = TRUE => diskLength[w] = Size

(* committed_ is set by the rename and by nothing else. *)
CommitFollows ==
  \A w \in Writers :
    /\ pc[w] \in {"create", "run", "fsync", "rename"} => committed[w] = FALSE
    /\ pc[w] \in {"fsync_directory", "returned"} => committed[w] = TRUE

(* A temporary name exists only between mkstemp and the rename or unlink.  *)
TempsFollow ==
  power => \A w \in Writers :
             pc[w] \in {"create", "threw"} \/ committed[w] = TRUE => w \notin temps

(* In memory and on the disk the final name is the old file or a file some *)
(* writer renamed to it.  The old one is gone once anybody has renamed, and *)
(* gone from the disk once anybody has forced the directory there.         *)
NamesFollow ==
  /\ final = initial \/ (final \in Writers /\ committed[final] = TRUE)
  /\ diskFinal = initial \/ (diskFinal \in Writers /\ committed[diskFinal] = TRUE)
  /\ power /\ (\E w \in Writers : committed[w] = TRUE) => final \in Writers
  /\ (\E w \in Writers : pc[w] = "returned") => diskFinal \in Writers

(* The inductive invariant.  FinalIsWhole alone is not one: a power failure *)
(* replaces the final name and every length by what the disk holds.        *)
IInv == TypeOK /\ FilesFollow /\ CommitFollows /\ TempsFollow /\ NamesFollow

(* Before any call the final name is the old file and nothing is written. *)
LEMMA InitIInv == Init => IInv
BY SizeAssumption, NameAssumption
DEF Init, IInv, TypeOK, Files, FilesFollow, CommitFollows, TempsFollow, NamesFollow

(* Every step keeps the variables in their types. *)
LEMMA TypeStep == IInv /\ [Next]_vars => TypeOK'
<1> SUFFICES ASSUME IInv, [Next]_vars PROVE TypeOK'
  OBVIOUS
<1> USE SizeAssumption DEF IInv, TypeOK, directory, disk, Goto, Files
<1>1. ASSUME NEW w \in Writers, Create(w) \/ CreateFails(w) PROVE TypeOK'
  BY <1>1 DEF Create, CreateFails
<1>2. ASSUME NEW w \in Writers, Write(w) PROVE TypeOK'
  BY <1>2 DEF Write
<1>3. ASSUME NEW w \in Writers, RunReturns(w) \/ StepFails(w) PROVE TypeOK'
  BY <1>3 DEF RunReturns, StepFails
<1>4. ASSUME NEW w \in Writers, Fsync(w) PROVE TypeOK'
  BY <1>4 DEF Fsync
<1>5. ASSUME NEW w \in Writers, Rename(w) PROVE TypeOK'
  BY <1>5 DEF Rename
<1>6. ASSUME NEW w \in Writers, FsyncDirectory(w) PROVE TypeOK'
  BY <1>6 DEF FsyncDirectory
<1>7. ASSUME NEW w \in Writers, Unwind(w) \/ UnlinkFails(w) PROVE TypeOK'
  BY <1>7 DEF Unwind, UnlinkFails
<1>8. ASSUME NEW w \in Writers, Kill(w) PROVE TypeOK'
  BY <1>8 DEF Kill
<1>9. ASSUME NEW w \in Writers, WriteBack(w) PROVE TypeOK'
  BY <1>9 DEF WriteBack
<1>10. CASE WriteBackDirectory
  BY <1>10 DEF WriteBackDirectory
<1>11. CASE PowerLoss
  BY <1>11 DEF PowerLoss
<1>12. CASE UNCHANGED vars
  BY <1>12 DEF vars
<1> QED
  BY <1>1, <1>2, <1>3, <1>4, <1>5, <1>6, <1>7, <1>8, <1>9, <1>10, <1>11, <1>12
  DEF Next, Quiet

(* The lengths keep pace with the writers: Fsync is the only step into     *)
(* "rename", and it makes the two lengths equal.                           *)
LEMMA FilesStep == IInv /\ [Next]_vars => FilesFollow'
<1> SUFFICES ASSUME IInv, [Next]_vars PROVE FilesFollow'
  OBVIOUS
<1> USE SizeAssumption DEF IInv, TypeOK, FilesFollow, CommitFollows, directory, disk, Goto
<1>1. ASSUME NEW w \in Writers, Create(w) \/ CreateFails(w) PROVE FilesFollow'
  BY <1>1 DEF Create, CreateFails
<1>2. ASSUME NEW w \in Writers, Write(w) PROVE FilesFollow'
  BY <1>2 DEF Write
<1>3. ASSUME NEW w \in Writers, RunReturns(w) \/ StepFails(w) PROVE FilesFollow'
  BY <1>3 DEF RunReturns, StepFails
<1>4. ASSUME NEW w \in Writers, Fsync(w) PROVE FilesFollow'
  BY <1>4 DEF Fsync
<1>5. ASSUME NEW w \in Writers, Rename(w) PROVE FilesFollow'
  BY <1>5 DEF Rename
<1>6. ASSUME NEW w \in Writers, FsyncDirectory(w) PROVE FilesFollow'
  BY <1>6 DEF FsyncDirectory
<1>7. ASSUME NEW w \in Writers, Unwind(w) \/ UnlinkFails(w) PROVE FilesFollow'
  BY <1>7 DEF Unwind, UnlinkFails
<1>8. ASSUME NEW w \in Writers, Kill(w) PROVE FilesFollow'
  BY <1>8 DEF Kill
<1>9. ASSUME NEW w \in Writers, WriteBack(w) PROVE FilesFollow'
  BY <1>9 DEF WriteBack
<1>10. CASE WriteBackDirectory
  BY <1>10 DEF WriteBackDirectory
<1>11. CASE PowerLoss
  BY <1>11 DEF PowerLoss, Running
<1>12. CASE UNCHANGED vars
  BY <1>12 DEF vars
<1> QED
  BY <1>1, <1>2, <1>3, <1>4, <1>5, <1>6, <1>7, <1>8, <1>9, <1>10, <1>11, <1>12
  DEF Next, Quiet

(* No step but the rename sets committed_, and none clears it; a temporary *)
(* name is created for one writer and removed for one writer.              *)
LEMMA WritersStep == IInv /\ [Next]_vars => CommitFollows' /\ TempsFollow'
<1> SUFFICES ASSUME IInv, [Next]_vars PROVE CommitFollows' /\ TempsFollow'
  OBVIOUS
<1> USE DEF IInv, TypeOK, CommitFollows, TempsFollow, directory, disk, Goto
<1>1. ASSUME NEW w \in Writers, Create(w) \/ CreateFails(w)
      PROVE  CommitFollows' /\ TempsFollow'
  BY <1>1 DEF Create, CreateFails
<1>2. ASSUME NEW w \in Writers, Write(w) \/ WriteBack(w)
      PROVE  CommitFollows' /\ TempsFollow'
  BY <1>2 DEF Write, WriteBack
<1>3. ASSUME NEW w \in Writers, RunReturns(w) \/ StepFails(w)
      PROVE  CommitFollows' /\ TempsFollow'
  BY <1>3 DEF RunReturns, StepFails
<1>4. ASSUME NEW w \in Writers, Fsync(w) PROVE CommitFollows' /\ TempsFollow'
  BY <1>4 DEF Fsync
<1>5. ASSUME NEW w \in Writers, Rename(w) PROVE CommitFollows' /\ TempsFollow'
  BY <1>5 DEF Rename
<1>6. ASSUME NEW w \in Writers, FsyncDirectory(w) PROVE CommitFollows' /\ TempsFollow'
  BY <1>6 DEF FsyncDirectory
<1>7. ASSUME NEW w \in Writers, Unwind(w) \/ UnlinkFails(w) PROVE CommitFollows' /\ TempsFollow'
  BY <1>7 DEF Unwind, UnlinkFails
<1>8. ASSUME NEW w \in Writers, Kill(w) PROVE CommitFollows' /\ TempsFollow'
  BY <1>8 DEF Kill
<1>10. CASE WriteBackDirectory
  BY <1>10 DEF WriteBackDirectory
<1>11. CASE PowerLoss
  BY <1>11 DEF PowerLoss, Running
<1>12. CASE UNCHANGED vars
  BY <1>12 DEF vars
<1> QED
  BY <1>1, <1>2, <1>3, <1>4, <1>5, <1>6, <1>7, <1>8, <1>10, <1>11, <1>12
  DEF Next, Quiet

(* The final name moves only to a renamed file, and the disk's copy of it  *)
(* only to what it is at that moment.                                      *)
LEMMA NamesStep == IInv /\ [Next]_vars => NamesFollow'
<1> SUFFICES ASSUME IInv, [Next]_vars PROVE NamesFollow'
  OBVIOUS
<1> USE DEF IInv, TypeOK, CommitFollows, NamesFollow, directory, disk, Goto
<1>1. ASSUME NEW w \in Writers, Create(w) \/ CreateFails(w) PROVE NamesFollow'
  BY <1>1 DEF Create, CreateFails
<1>2. ASSUME NEW w \in Writers, Write(w) \/ WriteBack(w) PROVE NamesFollow'
  BY <1>2 DEF Write, WriteBack
<1>3. ASSUME NEW w \in Writers, RunReturns(w) \/ StepFails(w) PROVE NamesFollow'
  BY <1>3 DEF RunReturns, StepFails
<1>4. ASSUME NEW w \in Writers, Fsync(w) PROVE NamesFollow'
  BY <1>4 DEF Fsync
<1>5. ASSUME NEW w \in Writers, Rename(w) PROVE NamesFollow'
  BY <1>5 DEF Rename
<1>6. ASSUME NEW w \in Writers, FsyncDirectory(w) PROVE NamesFollow'
  BY <1>6 DEF FsyncDirectory
<1>7. ASSUME NEW w \in Writers, Unwind(w) \/ UnlinkFails(w) PROVE NamesFollow'
  BY <1>7 DEF Unwind, UnlinkFails
<1>8. ASSUME NEW w \in Writers, Kill(w) PROVE NamesFollow'
  BY <1>8 DEF Kill
<1>10. CASE WriteBackDirectory
  BY <1>10 DEF WriteBackDirectory
<1>11. CASE PowerLoss
  BY <1>11 DEF PowerLoss, Running
<1>12. CASE UNCHANGED vars
  BY <1>12 DEF vars
<1> QED
  BY <1>1, <1>2, <1>3, <1>4, <1>5, <1>6, <1>7, <1>8, <1>10, <1>11, <1>12
  DEF Next, Quiet

(* The invariant holds of every reachable state. *)
THEOREM Invariance == Spec => []IInv
<1>1. IInv /\ [Next]_vars => IInv'
  BY TypeStep, FilesStep, WritersStep, NamesStep DEF IInv
<1> QED
  BY InitIInv, <1>1, PTL DEF Spec

(* AtomicOutputFile: every variable keeps its type. *)
THEOREM TypeCorrect == Spec => []TypeOK
<1>1. IInv => TypeOK
  BY DEF IInv
<1> QED
  BY Invariance, <1>1, PTL

(* Readers of the final name never see a part of a result, whatever the    *)
(* processes do, whoever is killed and whenever the power fails.           *)
THEOREM FinalWhole == Spec => []FinalIsWhole
<1>1. IInv => FinalIsWhole
  BY SizeAssumption DEF IInv, TypeOK, FilesFollow, NamesFollow, FinalIsWhole
<1> QED
  BY Invariance, <1>1, PTL

(* Once a run_file() has returned, the disk holds a complete new result.   *)
THEOREM ReturnedDurable == Spec => []ReturnedIsDurable
<1>1. IInv => ReturnedIsDurable
  BY NameAssumption DEF IInv, TypeOK, FilesFollow, NamesFollow, ReturnedIsDurable
<1> QED
  BY Invariance, <1>1, PTL

(* A run_file() that threw before its rename left neither name behind.     *)
THEOREM FailureTraceless == Spec => []FailureLeavesNoTrace
<1>1. IInv => FailureLeavesNoTrace
  BY NameAssumption DEF IInv, TypeOK, TempsFollow, NamesFollow, FailureLeavesNoTrace
<1> QED
  BY Invariance, <1>1, PTL
=============================================================================
