-------------------------- MODULE PreprocessDemo ---------------------------
(***************************************************************************)
(* The program examples/preprocess_pipeline_demo.cpp from its arguments to *)
(* its exit code, with the two parts of reporting/pipeline_reporter.cpp    *)
(* that act on their own: the thread of LiveTerminalReporter, and the      *)
(* publication of the metrics report by AtomicJsonFile.  run_file() is the *)
(* one of AtomicOutputFile: it commits the whole output at once or leaves  *)
(* the old one, and returns only when the output is on the disk.           *)
(*                                                                         *)
(* The process may be killed and the machine may lose power at any step,   *)
(* any system call may fail, and another program may rename a file of its  *)
(* own to the output path.  Names are directory entries; what a name means *)
(* on the disk lags behind, and so do the bytes of the report.             *)
(***************************************************************************)
EXTENDS Integers, Sequences

CONSTANTS Inputs,         \* the input files, as sequences of bytes
          ByteMax,        \* the largest byte, in place of 255
          BlockSize,      \* bytes that verification reads at once
          RivalFiles,     \* the files another program renames to the output
          ReportSize,     \* bound: pieces in which the report is written
          Absent, NoPath

ASSUME DemoAssumption ==
  /\ {ByteMax, BlockSize, ReportSize} \subseteq Nat \ {0}
  /\ Inputs \cup RivalFiles \subseteq Seq(0 .. ByteMax)
  /\ Absent \notin {"in", "old", "else", "out", "rival", "report"}

Names == {"input", "output", "other"}

VARIABLES
  options,                \* what the command line asks for
  input, rival,           \* bytes of the input, and of the other program's file
  names, disk,            \* what each name means, and means on the disk
  temporary,              \* the report's temporary name
  length, diskLength,     \* pieces of the report written; on the disk
  pc, code,               \* of main; its exit code, once known
  opened, offset,         \* verify_incremented_output
  report,                 \* PipelineRunReport: output_committed, verification
  joinable, stop,         \* of the reporter's jthread
  rpc, printed, shown,    \* the reporter: where it is, has it printed, what
  written                 \* the counter of bytes written so far

arguments == <<options, input, rival>>
files == <<names, disk, temporary, length, diskLength>>
verification == <<opened, offset, report>>
reporter == <<rpc, printed, shown>>
thread == <<joinable, stop, reporter>>
vars == <<arguments, files, pc, code, verification, thread, written>>

Options ==
  [help : BOOLEAN, syntax : BOOLEAN, config : {"valid", "invalid", "overflow"},
   auto : BOOLEAN, disable : BOOLEAN, live : BOOLEAN,
   output_path : Names, metrics_json_path : Names \cup {NoPath}]
Sensible(o) ==
  ~o.help /\ o.syntax /\ o.config = "valid" /\ (o.disable => o.auto)

(* The other name is free, a file of its own, or a link to one of the two. *)
Init ==
  /\ input \in Inputs /\ rival \in RivalFiles
  /\ \E o \in {"old", Absent}, x \in {"else", "in", "old", Absent} :
       names = [input |-> "in", output |-> o, other |-> x]
  /\ disk = names /\ temporary = "none" /\ length = 0 /\ diskLength = 0
  /\ options \in {o \in Options : Sensible(o) \/ (o.output_path = "output"
                                    /\ o.metrics_json_path = NoPath)}
  /\ pc = "start" /\ code = -1
  /\ opened = <<>> /\ offset = 0
  /\ report = [committed |-> FALSE, verified |-> FALSE]
  /\ joinable = FALSE /\ stop = FALSE
  /\ rpc = "none" /\ printed = FALSE /\ shown = 0 /\ written = 0

Output == options.output_path
Json == options.metrics_json_path
Increment(bytes) == [i \in DOMAIN bytes |-> (bytes[i] + 1) % (ByteMax + 1)]

(* An exception leaves main's try block.  A reporter that was constructed  *)
(* is stopped by its destructor on the way.                                *)
Throw(c) == code' = c /\ pc' = IF joinable THEN "stop" ELSE "exited"
Goto(l) == pc' = l /\ UNCHANGED code

-----------------------------------------------------------------------------
(* Arguments *)

parse_options ==
  IF ~options.syntax \/ options.config = "invalid" THEN 2
  ELSE IF options.config = "overflow" THEN 1
  ELSE IF ~options.auto /\ options.disable THEN 2
  ELSE 0

Start ==
  /\ pc = "start"
  /\ CASE options.help -> pc' = "exited" /\ code' = 0
       [] ~options.help /\ parse_options # 0 -> Throw(parse_options)
       [] OTHER -> Goto("paths")
  /\ UNCHANGED <<arguments, files, verification, thread, written>>

(* Two paths are the same, or name the same file. *)
same_file(a, b) == a = b \/ (names[a] = names[b] /\ names[a] # Absent)

validate_metrics_json_path ==
  Json # NoPath => ~same_file("input", Json) /\ ~same_file(Output, Json)

ValidatePaths ==
  /\ pc = "paths"
  /\ IF validate_metrics_json_path THEN Goto("setup") ELSE Throw(2)
  /\ UNCHANGED <<arguments, files, verification, thread, written>>

(* checked_file_size, BackendFactory::create, the registry, the pipeline   *)
(* with its stage, the executor and the header.                            *)
Setup ==
  /\ pc = "setup"
  /\ Goto("reporter")
  /\ UNCHANGED <<arguments, files, verification, thread, written>>

(* The inspection of a path, or the set-up, meets an error; a report that  *)
(* is to replace a directory, or to go into none, is a wrong argument.     *)
SetupFails ==
  /\ pc \in {"paths", "setup"}
  /\ Throw(1) \/ (pc = "paths" /\ Json # NoPath /\ Throw(2))
  /\ UNCHANGED <<arguments, files, verification, thread, written>>

-----------------------------------------------------------------------------
(* LiveTerminalReporter *)

(* The constructor: a positive interval starts the thread. *)
StartReporter ==
  /\ pc = "reporter"
  /\ Goto("run")
  /\ joinable' = options.live /\ rpc' = IF options.live THEN "check" ELSE "none"
  /\ UNCHANGED <<arguments, files, verification, stop, printed, shown, written>>

StartReporterFails ==
  /\ pc = "reporter" /\ options.live
  /\ Throw(1)
  /\ UNCHANGED <<arguments, files, verification, thread, written>>

(* render_progress_line: an empty input is done, and an input that grew    *)
(* since its size was taken is no more than done.                          *)
percent(bytes) ==
  IF input = <<>> THEN 100
  ELSE IF bytes > Len(input) THEN 100 ELSE (100 * bytes) \div Len(input)

ReporterChecks ==
  /\ rpc = "check"
  /\ rpc' = IF stop THEN "done" ELSE "wait"
  /\ UNCHANGED <<arguments, files, pc, code, verification, joinable, stop,
                 printed, shown, written>>

(* wait_for ends with the interval. *)
ReporterTimesOut ==
  /\ rpc = "wait" /\ ~stop
  /\ rpc' = "print"
  /\ UNCHANGED <<arguments, files, pc, code, verification, joinable, stop,
                 printed, shown, written>>

(* wait_for ends because a stop was requested. *)
ReporterStops ==
  /\ rpc = "wait" /\ stop
  /\ rpc' = "done"
  /\ UNCHANGED <<arguments, files, pc, code, verification, joinable, stop,
                 printed, shown, written>>

print_once ==
  /\ rpc = "print"
  /\ rpc' = "check" /\ printed' = TRUE /\ shown' = percent(written)
  /\ UNCHANGED <<arguments, files, pc, code, verification, joinable, stop, written>>

(* An exception ends the thread and nothing else. *)
PrintFails ==
  /\ rpc = "print"
  /\ rpc' = "done"
  /\ UNCHANGED <<arguments, files, pc, code, verification, joinable, stop,
                 printed, shown, written>>

AfterStop == IF code = -1 THEN "verify_open" ELSE "exited"

(* Mutant: the thread is woken but not told to stop. *)
RequestStopForgotten ==
  /\ pc = "stop"
  /\ pc' = IF joinable THEN "join" ELSE AfterStop
  /\ UNCHANGED <<arguments, files, code, verification, thread, written>>

(* stop(), called by main or by the destructor. *)
RequestStop ==
  /\ pc = "stop"
  /\ pc' = IF joinable THEN "join" ELSE AfterStop
  /\ stop' = joinable
  /\ UNCHANGED <<arguments, files, code, verification, joinable, reporter, written>>

(* Mutant: the thread is left behind. *)
JoinDetached ==
  /\ pc = "join"
  /\ joinable' = FALSE /\ pc' = AfterStop
  /\ UNCHANGED <<arguments, files, code, verification, stop, reporter, written>>

Join ==
  /\ pc = "join" /\ rpc = "done"
  /\ joinable' = FALSE /\ pc' = AfterStop
  /\ UNCHANGED <<arguments, files, code, verification, stop, reporter, written>>

-----------------------------------------------------------------------------
(* PipelineExecutor::run_file *)

(* The output is the input.  A path that names no file is rejected in the  *)
(* same way before anything is done.                                       *)
RunFileRejects ==
  /\ pc = "run" /\ names["input"] = names[Output]
  /\ Throw(2)
  /\ UNCHANGED <<arguments, files, verification, thread, written>>

RunFileProgress ==
  /\ pc = "run" /\ names["input"] # names[Output]
  /\ written < Len(input)
  /\ written' = written + 1
  /\ UNCHANGED <<arguments, files, pc, code, verification, thread>>

RunFileCommits ==
  /\ pc = "run" /\ names["input"] # names[Output]
  /\ written = Len(input)
  /\ names' = [names EXCEPT ![Output] = "out"]
  /\ Goto("committed")
  /\ UNCHANGED <<arguments, disk, temporary, length, diskLength, verification,
                 thread, written>>

(* The directory is on the disk. *)
RunFileReturns ==
  /\ pc = "committed"
  /\ disk' = [disk EXCEPT ![Output] = names[Output]]
  /\ Goto("stop")
  /\ UNCHANGED <<arguments, names, temporary, length, diskLength, verification,
                 thread, written>>

RunFileFails ==
  /\ pc \in {"run", "committed"}
  /\ Throw(1)
  /\ UNCHANGED <<arguments, files, verification, thread, written>>

-----------------------------------------------------------------------------
(* verify_incremented_output *)

Bytes(file) == CASE file = "out" -> Increment(input)
                 [] file = "rival" -> rival

(* main notes that the output is committed; verification opens it. *)
VerifyOpen ==
  /\ pc = "verify_open"
  /\ report' = [report EXCEPT !.committed = TRUE]
  /\ opened' = Bytes(names[Output])
  /\ Goto("verify")
  /\ UNCHANGED <<arguments, files, offset, thread, written>>

(* A read of at most n bytes returns one at least, unless the file ends. *)
ReadAt(file, n) ==
  LET left == Len(file) - offset IN
  IF n = 0 \/ left <= 0 THEN {0} ELSE 1 .. (IF left < n THEN left ELSE n)

(* A block of the input and as much of the output are read and compared. *)
VerifyBlock ==
  /\ pc = "verify" /\ offset < Len(input)
  /\ \E n \in ReadAt(input, BlockSize) : \E m \in ReadAt(opened, n) :
       IF m = n /\ \A i \in offset + 1 .. offset + n :
                     opened[i] = (input[i] + 1) % (ByteMax + 1)
       THEN offset' = offset + n /\ UNCHANGED <<pc, code>>
       ELSE Throw(1) /\ UNCHANGED offset
  /\ UNCHANGED <<arguments, files, opened, report, thread, written>>

(* Mutant: the output may go on after the input has ended. *)
VerifyPrefix ==
  /\ pc = "verify" /\ offset = Len(input)
  /\ report' = [report EXCEPT !.verified = TRUE] /\ Goto("snapshot")
  /\ UNCHANGED <<arguments, files, opened, offset, thread, written>>

(* The input has ended, and so must the output. *)
VerifyEnd ==
  /\ pc = "verify" /\ offset = Len(input)
  /\ IF ReadAt(opened, 1) = {0}
     THEN report' = [report EXCEPT !.verified = TRUE] /\ Goto("snapshot")
     ELSE Throw(1) /\ UNCHANGED report
  /\ UNCHANGED <<arguments, files, opened, offset, thread, written>>

VerifyFails ==
  /\ pc \in {"verify_open", "verify"}
  /\ Throw(1)
  /\ UNCHANGED <<arguments, files, verification, thread, written>>

(* metrics.snapshot(), and whether a report was asked for. *)
Snapshot ==
  /\ pc = "snapshot"
  /\ Goto(IF Json = NoPath THEN "summary" ELSE "json_create")
  /\ UNCHANGED <<arguments, files, verification, thread, written>>

-----------------------------------------------------------------------------
(* AtomicJsonFile *)

(* What the report says of the run. *)
render_metrics_json(r) ==
  [output_committed |-> r.committed,
   verification |-> IF r.verified THEN "passed" ELSE "failed"]

JsonCreate ==
  /\ pc = "json_create"
  /\ temporary' = "exists" /\ Goto("json_write")
  /\ UNCHANGED <<arguments, names, disk, length, diskLength, verification, thread, written>>

JsonWrite ==
  /\ pc = "json_write"
  /\ \E n \in length + 1 .. ReportSize : length' = n
  /\ Goto(IF length' = ReportSize THEN "json_fsync" ELSE "json_write")
  /\ UNCHANGED <<arguments, names, disk, temporary, diskLength, verification, thread, written>>

(* Mutant: the report is renamed before it is on the disk. *)
JsonFsyncSkipped ==
  /\ pc = "json_fsync"
  /\ Goto("json_rename")
  /\ UNCHANGED <<arguments, files, verification, thread, written>>

JsonFsync ==
  /\ pc = "json_fsync"
  /\ diskLength' = length /\ Goto("json_rename")
  /\ UNCHANGED <<arguments, names, disk, temporary, length, verification, thread, written>>

JsonRename ==
  /\ pc = "json_rename"
  /\ names' = [names EXCEPT ![Json] = "report"] /\ temporary' = "none"
  /\ Goto("json_directory")
  /\ UNCHANGED <<arguments, disk, length, diskLength, verification, thread, written>>

JsonFsyncDirectory ==
  /\ pc = "json_directory"
  /\ disk' = [disk EXCEPT ![Json] = names[Json]] /\ Goto("summary")
  /\ UNCHANGED <<arguments, names, temporary, length, diskLength, verification, thread, written>>

(* A call fails; the destructor removes the temporary name, if it can. *)
JsonFails ==
  /\ pc \in {"json_create", "json_write", "json_fsync", "json_rename", "json_directory"}
  /\ temporary' = "none" \/ (temporary = "exists" /\ temporary' = "stuck")
  /\ Throw(1)
  /\ UNCHANGED <<arguments, names, disk, length, diskLength, verification, thread, written>>

write_metrics_json_atomic ==
  \/ JsonCreate \/ JsonWrite \/ JsonFsync \/ JsonRename \/ JsonFsyncDirectory
  \/ JsonFails

(* The terminal summary and the key=value records. *)
Summary ==
  /\ pc = "summary"
  /\ pc' = "exited" /\ code' = 0
  /\ UNCHANGED <<arguments, files, verification, thread, written>>

-----------------------------------------------------------------------------
(* The world around *)

Alive == pc \notin {"exited", "killed", "powerless"}

Kill ==
  /\ Alive
  /\ pc' = "killed" /\ rpc' = IF rpc = "none" THEN "none" ELSE "done"
  /\ UNCHANGED <<arguments, files, code, verification, joinable, stop, printed, shown, written>>

(* Only what is on the disk is left. *)
PowerFails ==
  /\ pc # "powerless"
  /\ pc' = "powerless" /\ rpc' = IF rpc = "none" THEN "none" ELSE "done"
  /\ names' = disk /\ length' = diskLength
  /\ UNCHANGED <<arguments, disk, temporary, diskLength, code, verification,
                 joinable, stop, printed, shown, written>>

(* The kernel writes back a directory entry, or bytes of the report. *)
WriteBack ==
  /\ pc # "powerless"
  /\ \/ \E n \in Names : disk' = [disk EXCEPT ![n] = names[n]] /\ UNCHANGED diskLength
     \/ diskLength' = length /\ UNCHANGED disk
  /\ UNCHANGED <<arguments, names, temporary, length, pc, code, verification, thread, written>>

(* Another program puts its own output under the output path. *)
RivalReplaces ==
  /\ Alive /\ Output # "input" /\ Output # Json /\ "rival" \notin {names[n] : n \in Names}
  /\ names' = [names EXCEPT ![Output] = "rival"]
  /\ UNCHANGED <<arguments, disk, temporary, length, diskLength, pc, code,
                 verification, thread, written>>

Ended == ~Alive /\ UNCHANGED vars

ReporterStep == ReporterChecks \/ ReporterStops \/ print_once \/ PrintFails
run_file ==
  RunFileRejects \/ RunFileProgress \/ RunFileCommits \/ RunFileReturns \/ RunFileFails
verify_incremented_output == VerifyOpen \/ VerifyBlock \/ VerifyEnd \/ VerifyFails
main ==
  \/ Start \/ ValidatePaths \/ Setup \/ SetupFails
  \/ StartReporter \/ StartReporterFails \/ RequestStop \/ Join
  \/ run_file \/ verify_incremented_output
  \/ Snapshot \/ write_metrics_json_atomic \/ Summary

Next ==
  \/ main \/ ReporterStep \/ ReporterTimesOut
  \/ Kill \/ PowerFails \/ WriteBack \/ RivalReplaces \/ Ended

(* The threads are scheduled; the interval may be as long as it likes. *)
Spec == Init /\ [][Next]_vars /\ WF_vars(main) /\ WF_vars(ReporterStep)

-----------------------------------------------------------------------------
(* The exit code tells the truth.  0: the whole output was committed to    *)
(* the disk, the file that verification opened equals the transformed      *)
(* input byte for byte, and the report, if asked for, is on the disk next  *)
(* to an output and an input that are still there.  2: nothing was         *)
(* published.  In no case is the input replaced, or a temporary name left  *)
(* whose removal was not tried.                                            *)
ExitCodeHonest ==
  pc = "exited" =>
    /\ names["input"] = "in" /\ temporary # "exists"
    /\ code = 0 /\ ~options.help =>
         /\ opened = Increment(input)
         /\ disk[Output] \in {"out", "rival"} /\ names[Output] \in {"out", "rival"}
         /\ Json # NoPath => disk[Json] = "report" /\ diskLength = ReportSize
    /\ code = 2 => {"out", "report"} \cap {names[n] : n \in Names} = {}

(* A report that anyone can see, in particular after a crash, is complete  *)
(* and true: it says that the output was committed and verified, and the   *)
(* output is there as well.                                                *)
ReportTrue ==
  /\ \A n \in Names : names[n] = "report" =>
       /\ length = ReportSize
       /\ render_metrics_json(report) =
            [output_committed |-> TRUE, verification |-> "passed"]
       /\ names[Output] \in {"out", "rival"}
  /\ \A n \in Names : disk[n] = "report" =>
       diskLength = ReportSize /\ disk[Output] \in {"out", "rival"}

(* The reporter's thread is at work only while main waits for the run or   *)
(* for the thread itself.  So live lines never mix with main's own output, *)
(* printed_ is read after its last write, and the metrics the thread reads *)
(* outlive it, also when an exception unwinds main.  No line shows more    *)
(* progress than there is.                                                 *)
ReporterContained ==
  /\ rpc \in {"check", "wait", "print"} => pc \in {"run", "committed", "stop", "join"}
  /\ shown <= percent(written) /\ shown <= 100

(* The program comes to an end whatever fails: stop() never waits for a    *)
(* thread that does not end, whether main calls it or the destructor.      *)
ProgramEnds == <>(pc \in {"exited", "killed", "powerless"})

=============================================================================
