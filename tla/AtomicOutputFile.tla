-------------------------- MODULE AtomicOutputFile --------------------------
(***************************************************************************)
(* How a result is published under its final name: AtomicOutputFile and    *)
(* PipelineExecutor::run_file in pipeline_executor.cpp, and AtomicJsonFile *)
(* in pipeline_reporter.cpp, which follows the same steps.  Several        *)
(* processes may publish to the same final path at once.  A process may be *)
(* killed at any step, in which case no destructor runs, and the machine   *)
(* may lose power, in which case only what reached the disk survives.      *)
(*                                                                         *)
(* The file system is modelled from what the code relies on: rename and    *)
(* unlink are atomic, the directory reaches the disk as it is at some      *)
(* moment, fsync forces a file or the directory to the disk, and the       *)
(* kernel may write either back at any time before that.                   *)
(***************************************************************************)
EXTENDS Integers

CONSTANTS Writers,     \* the run_file() calls, each in its own process
          Size,        \* bound: pieces in which each result is written
          Old,         \* an older complete result
          Absent       \* no file of that name

ASSUME SizeAssumption == Size \in Nat \ {0}
ASSUME NameAssumption == Old \notin Writers /\ Absent \notin Writers

VARIABLES
  initial,             \* what the final name meant before
  final, temps,        \* the directory: the file under the final name, and
                       \* the writers whose temporary name exists
  diskFinal, diskTemps,\* the directory on the disk
  length, diskLength,  \* how much of each new file is written; on the disk
  pc, committed,       \* of each writer
  power                \* FALSE after a power failure

directory == <<final, temps>>
disk == <<diskFinal, diskTemps, diskLength>>
vars == <<initial, directory, disk, length, pc, committed, power>>

Goto(w, l) == pc' = [pc EXCEPT ![w] = l]
Running(w) == power /\ pc[w] \notin {"returned", "threw", "littered", "killed"}

Init ==
  /\ initial \in {Old, Absent}
  /\ final = initial /\ temps = {}
  /\ diskFinal = initial /\ diskTemps = {}
  /\ length = [w \in Writers |-> 0] /\ diskLength = [w \in Writers |-> 0]
  /\ pc = [w \in Writers |-> "create"]
  /\ committed = [w \in Writers |-> FALSE]
  /\ power = TRUE

-----------------------------------------------------------------------------
(* The constructor: the directory is opened, mkstemp creates the file. *)
Create(w) ==
  /\ power /\ pc[w] = "create"
  /\ temps' = temps \cup {w}
  /\ Goto(w, "run")
  /\ UNCHANGED <<initial, final, disk, length, committed, power>>

(* The input cannot be opened or is the output, or the directory or the    *)
(* temporary file cannot be opened: nothing has been created.              *)
CreateFails(w) ==
  /\ power /\ pc[w] = "create"
  /\ Goto(w, "threw")
  /\ UNCHANGED <<initial, directory, disk, length, committed, power>>

(* run() writes a piece into the temporary file. *)
Write(w) ==
  /\ power /\ pc[w] = "run"
  /\ length[w] < Size
  /\ length' = [length EXCEPT ![w] = @ + 1]
  /\ UNCHANGED <<initial, directory, disk, pc, committed, power>>

(* run() returns, which it does only with the whole output written. *)
RunReturns(w) ==
  /\ power /\ pc[w] = "run"
  /\ length[w] = Size
  /\ Goto(w, "fsync")
  /\ UNCHANGED <<initial, directory, disk, length, committed, power>>

(* Mutant: the file is renamed without having been forced to the disk. *)
FsyncSkipped(w) ==
  /\ power /\ pc[w] = "fsync"
  /\ Goto(w, "rename")
  /\ UNCHANGED <<initial, directory, disk, length, committed, power>>

(* commit(): fsync of the temporary file. *)
Fsync(w) ==
  /\ power /\ pc[w] = "fsync"
  /\ diskLength' = [diskLength EXCEPT ![w] = length[w]]
  /\ Goto(w, "rename")
  /\ UNCHANGED <<initial, directory, diskFinal, diskTemps, length, committed, power>>

(* commit(): rename over the final name, then committed_ = true. *)
Rename(w) ==
  /\ power /\ pc[w] = "rename"
  /\ final' = w
  /\ temps' = temps \ {w}
  /\ committed' = [committed EXCEPT ![w] = TRUE]
  /\ Goto(w, "fsync_directory")
  /\ UNCHANGED <<initial, disk, length, power>>

(* Mutant: commit() ends with the rename. *)
FsyncDirectorySkipped(w) ==
  /\ power /\ pc[w] = "fsync_directory"
  /\ Goto(w, "returned")
  /\ UNCHANGED <<initial, directory, disk, length, committed, power>>

(* commit(): fsync of the parent directory; run_file() returns. *)
FsyncDirectory(w) ==
  /\ power /\ pc[w] = "fsync_directory"
  /\ diskFinal' = final
  /\ diskTemps' = temps
  /\ Goto(w, "returned")
  /\ UNCHANGED <<initial, directory, diskLength, length, committed, power>>

(* run(), or one of the calls of commit(), fails and an exception leaves   *)
(* run_file().                                                             *)
StepFails(w) ==
  /\ power /\ pc[w] \in {"run", "fsync", "rename", "fsync_directory"}
  /\ Goto(w, "unwind")
  /\ UNCHANGED <<initial, directory, disk, length, committed, power>>

(* Mutant: the temporary file outlives the failed call. *)
UnwindKeepsTemp(w) ==
  /\ power /\ pc[w] = "unwind"
  /\ Goto(w, "threw")
  /\ UNCHANGED <<initial, directory, disk, length, committed, power>>

(* The destructor unlinks the temporary file unless it was renamed. *)
Unwind(w) ==
  /\ power /\ pc[w] = "unwind"
  /\ temps' = IF committed[w] THEN temps ELSE temps \ {w}
  /\ Goto(w, "threw")
  /\ UNCHANGED <<initial, final, disk, length, committed, power>>

(* It ignores that unlink fails: the temporary file stays. *)
UnlinkFails(w) ==
  /\ power /\ pc[w] = "unwind" /\ ~committed[w]
  /\ Goto(w, "littered")
  /\ UNCHANGED <<initial, directory, disk, length, committed, power>>

-----------------------------------------------------------------------------
(* SIGKILL: the process is gone, without unwinding. *)
Kill(w) ==
  /\ Running(w)
  /\ Goto(w, "killed")
  /\ UNCHANGED <<initial, directory, disk, length, committed, power>>

(* The kernel writes data, or the directory, back when it likes. *)
WriteBack(w) ==
  /\ power
  /\ \E n \in diskLength[w] + 1 .. length[w] :
       diskLength' = [diskLength EXCEPT ![w] = n]
  /\ UNCHANGED <<initial, directory, diskFinal, diskTemps, length, pc, committed, power>>

WriteBackDirectory ==
  /\ power
  /\ diskFinal' = final /\ diskTemps' = temps
  /\ UNCHANGED <<initial, directory, diskLength, length, pc, committed, power>>

(* Power failure: every process stops, and the disk is all that is left. *)
PowerLoss ==
  /\ power /\ power' = FALSE
  /\ final' = diskFinal /\ temps' = diskTemps
  /\ length' = diskLength
  /\ pc' = [w \in Writers |-> IF Running(w) THEN "killed" ELSE pc[w]]
  /\ UNCHANGED <<initial, disk, committed>>

(* Everybody has ended. *)
Quiet == (\A w \in Writers : ~Running(w)) /\ UNCHANGED vars

Next ==
  \/ \E w \in Writers :
       \/ Create(w) \/ CreateFails(w) \/ Write(w) \/ RunReturns(w) \/ Fsync(w)
       \/ Rename(w) \/ FsyncDirectory(w) \/ StepFails(w) \/ Unwind(w)
       \/ UnlinkFails(w) \/ Kill(w) \/ WriteBack(w)
  \/ WriteBackDirectory
  \/ PowerLoss
  \/ Quiet

Spec == Init /\ [][Next]_vars

-----------------------------------------------------------------------------
Files == Writers \cup {Old, Absent}

TypeOK ==
  /\ initial \in {Old, Absent}
  /\ final \in Files /\ temps \subseteq Writers
  /\ diskFinal \in Files /\ diskTemps \subseteq Writers
  /\ length \in [Writers -> 0 .. Size] /\ diskLength \in [Writers -> 0 .. Size]
  /\ pc \in [Writers -> {"create", "run", "fsync", "rename", "fsync_directory",
                         "unwind", "returned", "threw", "littered", "killed"}]
  /\ committed \in [Writers -> BOOLEAN]
  /\ power \in BOOLEAN

(* Whoever opens the final name, at any moment, after any crash, finds     *)
(* what was there before or a complete new result, never a part of one.    *)
FinalIsWhole ==
  final = initial \/ (final \in Writers /\ length[final] = Size)

(* Once run_file() has returned, a power failure cannot bring the older    *)
(* result, or an incomplete one, back.                                     *)
ReturnedIsDurable ==
  (\E w \in Writers : pc[w] = "returned") =>
    diskFinal \in Writers /\ diskLength[diskFinal] = Size

(* A call that failed before the rename leaves nothing behind: neither its *)
(* result under the final name nor, unless unlink failed as well, its      *)
(* temporary file.  A killed process leaves at most its temporary file.    *)
FailureLeavesNoTrace ==
  \A w \in Writers :
    /\ ~committed[w] => final # w
    /\ power /\ pc[w] = "threw" => w \notin temps

=============================================================================
