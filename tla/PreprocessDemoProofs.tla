------------------------ MODULE PreprocessDemoProofs ------------------------
(***************************************************************************)
(* What the exit code, the report and the live lines of the demo program   *)
(* can be trusted for, for every input, every file another program puts in *)
(* its way and every size of the report.                                   *)
(***************************************************************************)
EXTENDS PreprocessDemo, SequenceTheorems, TLAPS

Before == {"start", "paths", "setup", "reporter", "run"}
Waiting == {"run", "committed", "stop", "join"}
Stopping == {"stop", "join"}
Publishing == {"json_create", "json_write", "json_fsync", "json_rename",
               "json_directory"}
Verified == {"snapshot", "summary"} \cup Publishing
Dead == {"exited", "killed", "powerless"}
Contents == {"in", "old", "else", "out", "rival", "report", Absent}

TypeOK ==
  /\ options \in Options
  /\ input \in Seq(0 .. ByteMax) /\ rival \in Seq(0 .. ByteMax)
  /\ names \in [Names -> Contents] /\ disk \in [Names -> Contents]
  /\ temporary \in {"none", "exists", "stuck"}
  /\ length \in 0 .. ReportSize /\ diskLength \in 0 .. ReportSize
  /\ pc \in Before \cup Waiting \cup {"verify_open", "verify"} \cup Verified \cup Dead
  /\ code \in {-1, 0, 1, 2}
  /\ opened \in Seq(0 .. ByteMax) /\ offset \in Nat
  /\ report \in [committed : BOOLEAN, verified : BOOLEAN]
  /\ joinable \in BOOLEAN /\ stop \in BOOLEAN
  /\ rpc \in {"none", "check", "wait", "print", "done"}
  /\ printed \in BOOLEAN /\ shown \in Nat /\ written \in Nat

(* The reporter's thread runs only while the jthread is joinable, and this *)
(* is from the constructor to stop(), which every way out goes through.    *)
ThreadHeld ==
  /\ rpc \in {"check", "wait", "print"} => joinable = TRUE /\ pc \in Waiting
  /\ joinable = TRUE => pc \in Waiting \cup {"killed", "powerless"}

(* The counter of bytes written is what bounds the lines. *)
LinesBounded ==
  /\ written <= Len(input)
  /\ shown <= percent(written) /\ shown <= 100

(* An exit code is known only on the way out. *)
CodeFollows ==
  /\ pc \notin Stopping \cup Dead => code = -1
  /\ pc \in Stopping => code # 0

(* main ended with its last statement. *)
Succeeded == pc = "exited" /\ code = 0 /\ options.help = FALSE

(* validate_metrics_json_path keeps the report apart from the other files. *)
PathsApart ==
  /\ pc \notin {"start", "paths"} \cup Dead /\ Json # NoPath =>
       Json # "input" /\ Json # Output
  /\ pc \in Publishing => Json # NoPath

(* No step renames a file to the input's name. *)
InputKept == names["input"] = "in" /\ disk["input"] = "in"

(* The destructor of AtomicJsonFile removes the temporary name. *)
TemporaryFollows ==
  temporary = "exists" => pc \in {"json_write", "json_fsync", "json_rename", "killed", "powerless"}

OutputThere == names[Output] \in {"out", "rival"} /\ disk[Output] \in {"out", "rival"}

(* Nothing is published before run_file() commits, and when it returns the *)
(* output is on the disk and stays there.                                  *)
OutputFollows ==
  /\ pc \in Before \/ code = 2 =>
       \A n \in Names : {names[n], disk[n]} \cap {"out", "report"} = {}
  /\ pc = "committed" => names[Output] \in {"out", "rival"}
  /\ \/ pc \in {"verify_open", "verify"} \cup Verified
     \/ pc \in Stopping /\ code = -1
     \/ Succeeded
     => OutputThere

(* Verification has compared the bytes up to the offset. *)
Compared ==
  /\ pc \in Before \cup Waiting \cup {"verify_open"} => offset = 0
  /\ pc = "verify" =>
       /\ report.committed = TRUE
       /\ offset <= Len(input) /\ offset <= Len(opened)
       /\ \A i \in 1 .. offset : opened[i] = (input[i] + 1) % (ByteMax + 1)
  /\ pc \in Verified => report.committed = TRUE /\ report.verified = TRUE
  /\ pc \in Verified \/ Succeeded => opened = Increment(input)

(* The report is complete on the disk before it gets its name, and there   *)
(* is a report only when the output was verified and is on the disk.       *)
ReportFollows ==
  /\ pc \in {"json_fsync", "json_rename"} => length = ReportSize
  /\ pc = "json_rename" => diskLength = ReportSize
  /\ pc = "json_directory" => names[Json] = "report"
  /\ (pc = "summary" \/ Succeeded) /\ Json # NoPath =>
       names[Json] = "report" /\ disk[Json] = "report"
  /\ \A n \in Names : "report" \in {names[n], disk[n]} =>
       /\ pc \in {"json_directory", "summary"} \cup Dead
       /\ length = ReportSize /\ diskLength = ReportSize
       /\ report.committed = TRUE /\ report.verified = TRUE
       /\ OutputThere

(* The inductive invariant.  None of the three results is one by itself:   *)
(* that an exit code or a report is true rests on how far main has come,   *)
(* and that the thread is gone on the way every exception takes.           *)
IInv ==
  /\ TypeOK /\ ThreadHeld /\ LinesBounded /\ CodeFollows /\ PathsApart
  /\ InputKept /\ TemporaryFollows /\ OutputFollows /\ Compared /\ ReportFollows
-----------------------------------------------------------------------------
(* Before main starts nothing is published, compared or printed. *)
LEMMA InitIInv == Init => IInv
<1> SUFFICES ASSUME Init PROVE IInv
  OBVIOUS
<1> USE DEF Init, Names, Contents, Before, Waiting, Stopping, Publishing, Verified, Dead
<1>1. TypeOK
  <2>1. input \in Seq(0 .. ByteMax) /\ rival \in Seq(0 .. ByteMax)
    BY DemoAssumption
  <2>2. opened \in Seq(0 .. ByteMax) /\ ReportSize \in Nat
    BY DemoAssumption
  <2>3. report \in [committed : BOOLEAN, verified : BOOLEAN] /\ options \in Options
    OBVIOUS
  <2>4. names \in [Names -> Contents] /\ disk \in [Names -> Contents]
    OBVIOUS
  <2>5. /\ temporary = "none" /\ length = 0 /\ diskLength = 0 /\ pc = "start" /\ code = -1
        /\ offset = 0 /\ joinable = FALSE /\ stop = FALSE /\ rpc = "none"
        /\ printed = FALSE /\ shown = 0 /\ written = 0
    OBVIOUS
  <2> HIDE DEF Init, Names, Contents
  <2>6. /\ temporary \in {"none", "exists", "stuck"} /\ joinable \in BOOLEAN /\ stop \in BOOLEAN
        /\ printed \in BOOLEAN
    BY <2>5
  <2>7. /\ length \in 0 .. ReportSize /\ diskLength \in 0 .. ReportSize
        /\ code \in {-1, 0, 1, 2} /\ offset \in Nat /\ shown \in Nat /\ written \in Nat
    BY <2>2, <2>5
  <2>8. /\ pc \in Before \cup Waiting \cup {"verify_open", "verify"} \cup Verified \cup Dead
        /\ rpc \in {"none", "check", "wait", "print", "done"}
    BY <2>5
  <2> QED
    BY <2>1, <2>2, <2>3, <2>4, <2>6, <2>7, <2>8, Zenon DEF TypeOK
<1>2. percent(0) \in Nat /\ written = 0 /\ Len(input) \in Nat
  <2>1. input \in Seq(0 .. ByteMax)
    BY DemoAssumption
  <2>2. Len(input) \in Nat /\ (input # <<>> => Len(input) > 0)
    BY <2>1
  <2> QED
    BY <2>2 DEF percent
<1>3. ThreadHeld /\ CodeFollows /\ InputKept /\ TemporaryFollows
  BY DEF ThreadHeld, CodeFollows, InputKept, TemporaryFollows
<1>4. LinesBounded
  BY <1>2 DEF LinesBounded
<1>5. PathsApart
  BY DEF PathsApart
<1>6. \A n \in Names : /\ names[n] \notin {"out", "report"}
                        /\ disk[n] \notin {"out", "report"}
  BY DemoAssumption
<1>7. OutputFollows /\ Compared /\ ReportFollows
  BY <1>6 DEF OutputFollows, Compared, ReportFollows, Succeeded
<1> QED
  BY <1>1, <1>3, <1>4, <1>5, <1>7 DEF IInv

(* Only these steps change a name, the report's bytes or the disk. *)
LEMMA FilesMove ==
  ASSUME [Next]_vars
  PROVE  \/ UNCHANGED files
         \/ RunFileCommits \/ RunFileReturns
         \/ JsonCreate \/ JsonWrite \/ JsonFsync \/ JsonRename \/ JsonFsyncDirectory
         \/ JsonFails \/ PowerFails \/ WriteBack \/ RivalReplaces
BY DEF Next, main, run_file, verify_incremented_output, write_metrics_json_atomic,
       ReporterStep, Ended, vars, Start, ValidatePaths, Setup, SetupFails,
       StartReporter, StartReporterFails, RequestStop, Join, RunFileRejects,
       RunFileProgress, RunFileFails, VerifyOpen, VerifyBlock, VerifyEnd,
       VerifyFails, Snapshot, Summary, ReporterChecks, ReporterTimesOut,
       ReporterStops, print_once, PrintFails, Kill

(* Only these steps change what verification knows. *)
LEMMA VerificationMoves ==
  ASSUME [Next]_vars
  PROVE  UNCHANGED verification \/ VerifyOpen \/ VerifyBlock \/ VerifyEnd
BY DEF Next, main, run_file, verify_incremented_output, write_metrics_json_atomic,
       ReporterStep, Ended, vars, Start, ValidatePaths, Setup, SetupFails,
       StartReporter, StartReporterFails, RequestStop, Join, RunFileRejects,
       RunFileProgress, RunFileCommits, RunFileReturns, RunFileFails, VerifyFails,
       Snapshot, JsonCreate, JsonWrite, JsonFsync, JsonRename, JsonFsyncDirectory,
       JsonFails, Summary, ReporterChecks, ReporterTimesOut, ReporterStops,
       print_once, PrintFails, Kill, PowerFails, WriteBack, RivalReplaces

(* Only these steps change the reporter or its counter. *)
LEMMA ThreadMoves ==
  ASSUME [Next]_vars
  PROVE  \/ UNCHANGED <<thread, written>>
         \/ StartReporter \/ RequestStop \/ Join \/ RunFileProgress
         \/ ReporterChecks \/ ReporterTimesOut \/ ReporterStops \/ print_once
         \/ PrintFails \/ Kill \/ PowerFails
BY DEF Next, main, run_file, verify_incremented_output, write_metrics_json_atomic,
       ReporterStep, Ended, vars, Start, ValidatePaths, Setup, SetupFails,
       StartReporterFails, RunFileRejects, RunFileCommits, RunFileReturns,
       RunFileFails, VerifyOpen, VerifyBlock, VerifyEnd, VerifyFails, Snapshot,
       JsonCreate, JsonWrite, JsonFsync, JsonRename, JsonFsyncDirectory, JsonFails,
       Summary, WriteBack, RivalReplaces

(* The arguments stay as they were. *)
LEMMA ArgumentsStay ==
  ASSUME [Next]_vars
  PROVE  UNCHANGED <<options, input, rival>>
BY DEF Next, main, run_file, verify_incremented_output, write_metrics_json_atomic,
       ReporterStep, Ended, vars, arguments, Start, ValidatePaths, Setup, SetupFails,
       StartReporter, StartReporterFails, RequestStop, Join, RunFileRejects,
       RunFileProgress, RunFileCommits, RunFileReturns, RunFileFails, VerifyOpen,
       VerifyBlock, VerifyEnd, VerifyFails, Snapshot, JsonCreate, JsonWrite,
       JsonFsync, JsonRename, JsonFsyncDirectory, JsonFails, Summary,
       ReporterChecks, ReporterTimesOut, ReporterStops, print_once, PrintFails,
       Kill, PowerFails, WriteBack, RivalReplaces

(* The ways of main: it stays; it dies; an exception leaves it, an error   *)
(* of usage before anything is published; it ends; it goes on without      *)
(* touching a file; it takes one of the steps that do.                     *)
(* An exception that leaves the publication has removed the temporary.     *)
Dies ==
  code' = code /\ pc' \in {"killed", "powerless"} /\ rpc' \in {"none", "done"}

Finishes ==
  /\ pc' = "exited" /\ code' = 0
  /\ pc = "summary" \/ (pc = "start" /\ options.help = TRUE)

Throws ==
  /\ pc \notin Stopping \cup Dead /\ code' \in {1, 2} /\ (code' = 2 => pc \in Before)
  /\ pc \in Publishing => temporary' # "exists"
  /\ \/ joinable = TRUE /\ pc \in {"run", "committed"} /\ pc' = "stop"
     \/ joinable = FALSE /\ pc' = "exited"

GoesOn ==
  /\ code' = code
  /\ \/ pc = "start" /\ pc' = "paths"
     \/ pc = "paths" /\ pc' = "setup" /\ validate_metrics_json_path
     \/ pc = "setup" /\ pc' = "reporter"
     \/ pc = "reporter" /\ pc' = "run"
     \/ pc = "stop" /\ pc' = "join"
     \/ pc \in Stopping /\ pc' = AfterStop /\ joinable' = FALSE /\ rpc' \in {"none", "done"}
     \/ pc = "snapshot" /\ Json = NoPath /\ pc' = "summary"
     \/ pc = "snapshot" /\ Json # NoPath /\ pc' = "json_create"

(* Every step of the program is one of these for main. *)
LEMMA MainMoves ==
  ASSUME TypeOK, ThreadHeld, [Next]_vars
  PROVE  \/ UNCHANGED <<pc, code>>
         \/ Dies
         \/ Throws
         \/ Finishes
         \/ GoesOn
         \/ RunFileCommits \/ RunFileReturns \/ VerifyOpen
         \/ VerifyEnd /\ pc' = "snapshot" /\ code' = code
         \/ JsonCreate \/ JsonWrite \/ JsonFsync \/ JsonRename \/ JsonFsyncDirectory
<1> DEFINE Goal == \/ UNCHANGED <<pc, code>>
                   \/ Dies
                   \/ Throws
                   \/ Finishes
                   \/ GoesOn
                   \/ VerifyEnd /\ pc' = "snapshot" /\ code' = code
<1>0. /\ joinable \in BOOLEAN /\ options.help \in BOOLEAN
      /\ joinable = TRUE => pc \in Waiting \cup {"killed", "powerless"}
  BY DEF TypeOK, Options, ThreadHeld
<1>1. ASSUME NEW c \in {1, 2}, Throw(c), pc \notin Stopping \cup Dead,
             c = 2 => pc \in Before, pc \in Publishing => temporary' # "exists"
      PROVE  Throws
  BY <1>0, <1>1 DEF Throw, Throws, Waiting, Dead, Stopping
<1>2. ASSUME Start PROVE Goal
  <2>1. CASE options.help = TRUE
    BY <1>2, <2>1 DEF Start, Finishes
  <2>2. CASE options.help = FALSE /\ parse_options = 0
    BY <1>2, <2>2 DEF Start, Goto, GoesOn
  <2>3. CASE options.help = FALSE /\ parse_options # 0
    <3>1. parse_options \in {1, 2} /\ Throw(parse_options) /\ pc = "start"
      <4>1. parse_options \in {0, 1, 2}
        BY DEF parse_options
      <4>2. Throw(parse_options) /\ pc = "start"
        BY <1>2, <2>3 DEF Start
      <4> QED
        BY <2>3, <4>1, <4>2
    <3>2. Throws
      BY <3>1, <1>1 DEF Before, Stopping, Dead, Publishing
    <3> QED
      BY <3>2
  <2> QED
    BY <1>0, <2>1, <2>2, <2>3
<1>3. ASSUME ValidatePaths PROVE Goal
  <2>1. CASE validate_metrics_json_path
    BY <1>3, <2>1 DEF ValidatePaths, Goto, GoesOn
  <2>2. CASE ~validate_metrics_json_path
    <3>1. Throw(2) /\ pc = "paths"
      BY <1>3, <2>2 DEF ValidatePaths
    <3>2. Throws
      BY <3>1, <1>1 DEF Before, Stopping, Dead, Publishing
    <3> QED
      BY <3>2
  <2> QED
    BY <2>1, <2>2
<1>4. ASSUME Setup \/ StartReporter \/ Snapshot PROVE Goal
  BY <1>4 DEF Setup, StartReporter, Snapshot, Goto, GoesOn
<1>5. ASSUME SetupFails PROVE Goal
  <2>1. /\ pc \in {"paths", "setup"}
        /\ Throw(1) \/ Throw(2)
    BY <1>5 DEF SetupFails
  <2>2. Throws
    BY <2>1, <1>1 DEF Before, Stopping, Dead, Publishing
  <2> QED
    BY <2>2
<1>6. ASSUME StartReporterFails \/ RunFileFails \/ VerifyFails \/ JsonFails PROVE Goal
  <2>1. /\ pc \in {"reporter", "run", "committed", "verify_open", "verify"} \cup Publishing
        /\ Throw(1) /\ (pc \in Publishing => temporary' # "exists")
    BY <1>6 DEF StartReporterFails, RunFileFails, VerifyFails, JsonFails, Publishing
  <2>2. pc \notin Stopping \cup Dead
    BY <2>1 DEF Publishing, Stopping, Dead
  <2>3. Throw(1) /\ 1 \in {1, 2} /\ (1 = 2 => pc \in Before)
    BY <2>1
  <2>4. Throws
    BY <2>1, <2>2, <2>3, <1>1, Zenon
  <2> QED
    BY <2>4
<1>7. ASSUME RunFileRejects PROVE Goal
  <2>1. pc = "run" /\ Throw(2)
    BY <1>7 DEF RunFileRejects
  <2>2. Throws
    BY <2>1, <1>1 DEF Before, Stopping, Dead, Publishing
  <2> QED
    BY <2>2
<1>8. ASSUME RequestStop \/ Join PROVE Goal
  <2>1. rpc \in {"check", "wait", "print"} => joinable = TRUE
    BY DEF ThreadHeld
  <2>2. rpc \in {"none", "check", "wait", "print", "done"}
    BY DEF TypeOK
  <2>3. CASE RequestStop
    BY <1>0, <2>1, <2>2, <2>3 DEF RequestStop, reporter, GoesOn, Stopping
  <2>4. CASE Join
    BY <2>4 DEF Join, reporter, GoesOn, Stopping
  <2> QED
    BY <1>8, <2>3, <2>4
<1>9. ASSUME VerifyBlock PROVE Goal
  <2>1. pc = "verify" /\ (UNCHANGED <<pc, code>> \/ Throw(1))
    BY <1>9 DEF VerifyBlock
  <2>2. CASE Throw(1)
    BY <2>1, <2>2, <1>1 DEF Stopping, Dead, Publishing
  <2> QED
    BY <2>1, <2>2
<1>10. ASSUME VerifyEnd PROVE Goal
  <2>1. pc = "verify" /\ (Goto("snapshot") \/ Throw(1))
    BY <1>10 DEF VerifyEnd
  <2>2. CASE Throw(1)
    BY <2>1, <2>2, <1>1 DEF Stopping, Dead, Publishing
  <2> QED
    BY <1>10, <2>1, <2>2 DEF Goto
<1>11. ASSUME Summary PROVE Goal
  BY <1>11 DEF Summary, Finishes
<1>12. ASSUME \/ RunFileProgress \/ ReporterStep \/ ReporterTimesOut \/ Kill \/ PowerFails
              \/ WriteBack \/ RivalReplaces \/ Ended \/ UNCHANGED vars
       PROVE  Goal
  BY <1>12 DEF RunFileProgress, ReporterStep, ReporterChecks, ReporterStops, print_once,
     PrintFails, ReporterTimesOut, Kill, PowerFails, WriteBack, RivalReplaces, Ended, vars,
     Dies
<1> HIDE DEF Goal
<1>13. \/ Goal
       \/ RunFileCommits \/ RunFileReturns \/ VerifyOpen
       \/ JsonCreate \/ JsonWrite \/ JsonFsync \/ JsonRename \/ JsonFsyncDirectory
  BY <1>2, <1>3, <1>4, <1>5, <1>6, <1>7, <1>8, <1>9, <1>10, <1>11, <1>12
  DEF Next, main, run_file, verify_incremented_output, write_metrics_json_atomic
<1> QED
  BY <1>13 DEF Goal

(* How a larger number of bytes written divides. *)
LEMMA DivMonotone ==
  ASSUME NEW x \in Nat, NEW y \in Nat, NEW n \in Nat \ {0}, x <= y
  PROVE  x \div n <= y \div n
<1> DEFINE p == x \div n  q == y \div n
<1>1. p \in Int /\ q \in Int /\ n * p <= x /\ y < n * q + n
  OBVIOUS
<1>2. ASSUME q + 1 <= p PROVE FALSE
  <2>1. n * (q + 1) <= n * p
    BY <1>1, <1>2
  <2> QED
    BY <1>1, <2>1
<1> QED
  BY <1>1, <1>2

(* The percentage of the bytes written is one, and it grows with them. *)
LEMMA PercentGrows ==
  ASSUME TypeOK, NEW a \in Nat, NEW b \in Nat, a <= b, b <= Len(input)
  PROVE  percent(a) \in Nat /\ percent(a) <= percent(b) /\ percent(b) <= 100
<1>1. CASE input = <<>>
  BY <1>1 DEF percent
<1>2. CASE input # <<>>
  <2> DEFINE L == Len(input)
  <2>1. L \in Nat \ {0}
    BY <1>2 DEF TypeOK
  <2>2. percent(a) = (100 * a) \div L /\ percent(b) = (100 * b) \div L
    BY <1>2, <2>1 DEF percent
  <2> HIDE DEF L
  <2>3. 100 * a \in Nat /\ 100 * b \in Nat /\ 100 * L \in Nat /\ 100 * a <= 100 * b
    BY <2>1
  <2>4. 100 * b <= 100 * L
    BY <2>1 DEF L
  <2>5. (100 * a) \div L <= (100 * b) \div L /\ (100 * b) \div L <= (100 * L) \div L
    BY <2>1, <2>3, <2>4, DivMonotone
  <2>6. (100 * L) \div L = 100 /\ (100 * a) \div L \in Nat
    BY <2>1, <2>3
  <2> QED
    BY <2>2, <2>5, <2>6
<1> QED
  BY <1>1, <1>2

(* A function on the first n numbers is a sequence of length n. *)
LEMMA FunctionIsSeq ==
  ASSUME NEW S, NEW n \in Nat, NEW f \in [1 .. n -> S]
  PROVE  f \in Seq(S) /\ DOMAIN f = 1 .. n /\ Len(f) = n
<1>1. f \in Seq(S) /\ DOMAIN f = 1 .. n
  OBVIOUS
<1> QED
  BY <1>1

(* The transformed input is a file as long as the input. *)
LEMMA IncrementIsFile ==
  ASSUME NEW bytes \in Seq(0 .. ByteMax)
  PROVE  /\ Increment(bytes) \in Seq(0 .. ByteMax)
         /\ Len(Increment(bytes)) = Len(bytes)
         /\ \A i \in 1 .. Len(bytes) : Increment(bytes)[i] = (bytes[i] + 1) % (ByteMax + 1)
<1>1. /\ Len(bytes) \in Nat /\ DOMAIN bytes = 1 .. Len(bytes)
      /\ bytes \in [1 .. Len(bytes) -> 0 .. ByteMax]
  BY LenProperties
<1>2. ByteMax \in Nat
  BY DemoAssumption
<1>3. \A i \in 1 .. Len(bytes) : (bytes[i] + 1) % (ByteMax + 1) \in 0 .. ByteMax
  <2> TAKE i \in 1 .. Len(bytes)
  <2>1. bytes[i] \in 0 .. ByteMax
    BY <1>1
  <2> QED
    BY <1>2, <2>1
<1>4. Increment(bytes) = [i \in 1 .. Len(bytes) |-> (bytes[i] + 1) % (ByteMax + 1)]
  BY <1>1 DEF Increment
<1>5. Increment(bytes) \in [1 .. Len(bytes) -> 0 .. ByteMax]
  BY <1>3, <1>4
<1>6. Increment(bytes) \in Seq(0 .. ByteMax) /\ DOMAIN Increment(bytes) = 1 .. Len(bytes)
  BY <1>1, <1>5, FunctionIsSeq, Zenon
<1>7. Len(Increment(bytes)) = Len(bytes)
  BY <1>1, <1>5, FunctionIsSeq, Zenon
<1> QED
  BY <1>1, <1>4, <1>6, <1>7

(* Every step keeps the arguments, the files and the verification in their *)
(* types; what is opened for verification is the output or a rival's file. *)
LEMMA TypeStep == IInv /\ [Next]_vars => TypeOK'
<1> SUFFICES ASSUME IInv, [Next]_vars PROVE TypeOK'
  OBVIOUS
<1>0. TypeOK /\ UNCHANGED <<options, input, rival>>
  BY ArgumentsStay DEF IInv
<1>1. /\ names' \in [Names -> Contents] /\ disk' \in [Names -> Contents]
      /\ temporary' \in {"none", "exists", "stuck"}
      /\ length' \in 0 .. ReportSize /\ diskLength' \in 0 .. ReportSize
  <2> USE <1>0 DEF TypeOK
  <2>1. CASE UNCHANGED files
    BY <2>1 DEF files
  <2>2. CASE RunFileCommits \/ RivalReplaces
    BY <2>2 DEF RunFileCommits, RivalReplaces, Contents
  <2>3. CASE RunFileReturns
    <3>1. Output \in Names
      BY DEF Output, Options
    <3> QED
      BY <2>3, <3>1 DEF RunFileReturns
  <2>4. CASE JsonCreate \/ JsonFails
    BY <2>4 DEF JsonCreate, JsonFails
  <2>5. CASE JsonWrite \/ JsonFsync
    BY <2>5, DemoAssumption DEF JsonWrite, JsonFsync
  <2>6. CASE JsonRename
    BY <2>6 DEF JsonRename, Contents
  <2>7. CASE JsonFsyncDirectory
    <3>1. Json \in Names
      BY <2>7 DEF IInv, PathsApart, JsonFsyncDirectory, Publishing, Json, Options
    <3> QED
      BY <2>7, <3>1 DEF JsonFsyncDirectory
  <2>8. CASE PowerFails \/ WriteBack
    BY <2>8 DEF PowerFails, WriteBack
  <2> QED
    BY <2>1, <2>2, <2>3, <2>4, <2>5, <2>6, <2>7, <2>8, FilesMove
<1>2. opened' \in Seq(0 .. ByteMax)
  <2>1. CASE VerifyOpen
    <3>1. names[Output] \in {"out", "rival"}
      BY <2>1 DEF IInv, OutputFollows, OutputThere, VerifyOpen
    <3>2. Increment(input) \in Seq(0 .. ByteMax)
      BY <1>0, IncrementIsFile DEF TypeOK
    <3> QED
      BY <1>0, <2>1, <3>1, <3>2 DEF VerifyOpen, Bytes, TypeOK
  <2>2. CASE ~VerifyOpen
    <3>1. opened' = opened
      BY <2>2, VerificationMoves DEF VerifyBlock, VerifyEnd, verification
    <3> QED
      BY <1>0, <3>1 DEF TypeOK
  <2> QED
    BY <2>1, <2>2
<1>3. offset' \in Nat /\ report' \in [committed : BOOLEAN, verified : BOOLEAN]
  <2> USE <1>0 DEF TypeOK
  <2>1. CASE UNCHANGED verification
    BY <2>1 DEF verification
  <2>2. CASE VerifyOpen
    BY <2>2 DEF VerifyOpen
  <2>3. CASE VerifyBlock
    <3>1. \A n \in ReadAt(input, BlockSize) : n \in Nat
      BY DemoAssumption DEF ReadAt
    <3>2. PICK n \in ReadAt(input, BlockSize) : offset' = offset + n \/ offset' = offset
      BY <2>3 DEF VerifyBlock
    <3> QED
      BY <2>3, <3>1, <3>2 DEF VerifyBlock
  <2>4. CASE VerifyEnd
    BY <2>4 DEF VerifyEnd
  <2> QED
    BY <2>1, <2>2, <2>3, <2>4, VerificationMoves
<1>4. /\ joinable' \in BOOLEAN /\ stop' \in BOOLEAN /\ printed' \in BOOLEAN
      /\ rpc' \in {"none", "check", "wait", "print", "done"}
      /\ written' \in Nat
  <2>0. /\ joinable \in BOOLEAN /\ stop \in BOOLEAN /\ printed \in BOOLEAN
        /\ rpc \in {"none", "check", "wait", "print", "done"}
        /\ written \in Nat /\ options.live \in BOOLEAN
    BY <1>0 DEF TypeOK, Options
  <2> USE <2>0
  <2>1. CASE UNCHANGED <<thread, written>>
    BY <2>1 DEF thread, reporter
  <2>2. CASE StartReporter
    BY <2>2 DEF StartReporter
  <2>3. CASE RequestStop \/ Join \/ RunFileProgress
    <3>1. CASE RequestStop
      BY <3>1 DEF RequestStop, reporter
    <3>2. CASE Join
      BY <3>2 DEF Join, reporter
    <3>3. CASE RunFileProgress
      BY <3>3 DEF RunFileProgress, thread, reporter
    <3> QED
      BY <2>3, <3>1, <3>2, <3>3
  <2>4. CASE ReporterChecks \/ ReporterTimesOut \/ ReporterStops \/ print_once \/ PrintFails
    BY <2>4 DEF ReporterChecks, ReporterTimesOut, ReporterStops, print_once, PrintFails
  <2>5. CASE Kill \/ PowerFails
    BY <2>5 DEF Kill, PowerFails
  <2> QED
    BY <2>1, <2>2, <2>3, <2>4, <2>5, ThreadMoves
<1>5. shown' \in Nat
  <2>1. CASE print_once
    <3>1. percent(written) \in Nat
      BY <1>0, PercentGrows DEF IInv, LinesBounded, TypeOK
    <3> QED
      BY <2>1, <3>1 DEF print_once
  <2>2. CASE ~print_once
    <3>1. shown' = shown
      BY <2>2, ThreadMoves DEF thread, reporter, StartReporter, RequestStop, Join,
         RunFileProgress, ReporterChecks, ReporterTimesOut, ReporterStops, PrintFails,
         Kill, PowerFails
    <3> QED
      BY <1>0, <3>1 DEF TypeOK
  <2> QED
    BY <2>1, <2>2
<1>6. /\ pc' \in Before \cup Waiting \cup {"verify_open", "verify"} \cup Verified \cup Dead
      /\ code' \in {-1, 0, 1, 2}
  <2>0. /\ pc \in Before \cup Waiting \cup {"verify_open", "verify"} \cup Verified \cup Dead
        /\ code \in {-1, 0, 1, 2}
    BY <1>0 DEF TypeOK
  <2> USE <2>0 DEF Before, Waiting, Verified, Dead, Publishing
  <2>1. CASE UNCHANGED <<pc, code>>
    BY <2>1
  <2>2. CASE Throws \/ GoesOn
    BY <2>2 DEF Throws, GoesOn, AfterStop
  <2>3. CASE \/ RunFileCommits \/ RunFileReturns \/ VerifyOpen
             \/ JsonCreate \/ JsonWrite \/ JsonFsync \/ JsonRename \/ JsonFsyncDirectory
    BY <2>3 DEF RunFileCommits, RunFileReturns, VerifyOpen, JsonCreate, JsonWrite, JsonFsync,
       JsonRename, JsonFsyncDirectory, Goto
  <2> QED
    BY <1>0, <2>1, <2>2, <2>3, MainMoves DEF IInv, Dies, Finishes
<1> QED
  BY <1>0, <1>1, <1>2, <1>3, <1>4, <1>5, <1>6, Zenon DEF TypeOK

(* No step leaves the thread behind: an exception goes through stop(), and *)
(* main gets past stop() only without a thread or when it is done.         *)
LEMMA ThreadStep == IInv /\ [Next]_vars => ThreadHeld'
<1> SUFFICES ASSUME IInv, [Next]_vars PROVE ThreadHeld'
  OBVIOUS
<1>0. TypeOK /\ ThreadHeld
  BY DEF IInv
<1>1. /\ joinable \in BOOLEAN /\ options.live \in BOOLEAN
      /\ rpc \in {"none", "check", "wait", "print", "done"}
  BY <1>0 DEF TypeOK, Options
<1> USE <1>1 DEF ThreadHeld, Waiting
<1>2. CASE UNCHANGED <<thread, written>>
  <2>1. UNCHANGED <<joinable, rpc>>
    BY <1>2 DEF thread, reporter
  <2>2. CASE Throws \/ GoesOn
    BY <1>0, <2>1, <2>2 DEF Throws, GoesOn, Stopping
  <2>3. CASE \/ RunFileCommits \/ RunFileReturns \/ VerifyOpen
             \/ JsonCreate \/ JsonWrite \/ JsonFsync \/ JsonRename \/ JsonFsyncDirectory
    BY <1>0, <2>1, <2>3 DEF RunFileCommits, RunFileReturns, VerifyOpen, JsonCreate,
       JsonWrite, JsonFsync, JsonRename, JsonFsyncDirectory, Goto
  <2>4. CASE Finishes \/ (VerifyEnd /\ pc' = "snapshot" /\ code' = code)
    BY <1>0, <2>1, <2>4 DEF VerifyEnd, Finishes
  <2> QED
    BY <1>0, <2>1, <2>2, <2>3, <2>4, MainMoves DEF Dies
<1>3. CASE StartReporter
  BY <1>0, <1>3 DEF StartReporter, Goto
<1>4. CASE RequestStop \/ Join
  BY <1>0, <1>4 DEF RequestStop, Join, reporter
<1>5. CASE RunFileProgress
  BY <1>0, <1>5 DEF RunFileProgress, thread, reporter
<1>6. CASE ReporterChecks \/ ReporterTimesOut \/ ReporterStops \/ print_once \/ PrintFails
  BY <1>0, <1>6 DEF ReporterChecks, ReporterTimesOut, ReporterStops, print_once, PrintFails
<1>7. CASE Kill \/ PowerFails
  BY <1>0, <1>7 DEF Kill, PowerFails
<1> QED
  BY <1>2, <1>3, <1>4, <1>5, <1>6, <1>7, ThreadMoves

(* The lines follow the counter, which follows the input. *)
LEMMA LinesStep == IInv /\ [Next]_vars => LinesBounded'
<1> SUFFICES ASSUME IInv, [Next]_vars PROVE LinesBounded'
  OBVIOUS
<1>1. TypeOK /\ UNCHANGED <<options, input, rival>>
  BY ArgumentsStay DEF IInv
<1>2. /\ written \in Nat /\ shown \in Nat /\ Len(input) \in Nat
      /\ written <= Len(input) /\ shown <= percent(written) /\ shown <= 100
  BY <1>1 DEF IInv, LinesBounded, TypeOK
<1>3. percent(written)' = IF input = <<>> THEN 100
                          ELSE IF written' > Len(input) THEN 100
                          ELSE (100 * written') \div Len(input)
  BY <1>1 DEF percent
<1>4. CASE RunFileProgress
  <2>1. written' = written + 1 /\ written' <= Len(input) /\ shown' = shown
    BY <1>2, <1>4 DEF RunFileProgress, thread, reporter
  <2>2. percent(written) \in Nat /\ percent(written) <= percent(written + 1)
    BY <1>1, <1>2, <2>1, PercentGrows
  <2>3. percent(written)' = percent(written + 1)
    BY <1>3, <2>1 DEF percent
  <2>4. percent(written + 1) \in Nat
    BY <1>1, <1>2, <2>1, PercentGrows
  <2> QED
    BY <1>1, <1>2, <2>1, <2>2, <2>3, <2>4 DEF LinesBounded
<1>5. CASE ~RunFileProgress
  <2>1. written' = written /\ (shown' = shown \/ shown' = percent(written))
    BY <1>5, ThreadMoves DEF thread, reporter, StartReporter, RequestStop, Join,
       ReporterChecks, ReporterTimesOut, ReporterStops, print_once, PrintFails, Kill,
       PowerFails
  <2>2. percent(written) \in Nat /\ percent(written) <= 100
    BY <1>1, <1>2, PercentGrows
  <2>3. percent(written)' = percent(written)
    BY <1>3, <2>1 DEF percent
  <2> QED
    BY <1>1, <1>2, <2>1, <2>2, <2>3 DEF LinesBounded
<1> QED
  BY <1>4, <1>5

(* An exit code is set by a throw or by the end of main. *)
LEMMA CodeStep == IInv /\ [Next]_vars => CodeFollows'
<1> SUFFICES ASSUME IInv, [Next]_vars PROVE CodeFollows'
  OBVIOUS
<1>0. TypeOK /\ ThreadHeld /\ CodeFollows
  BY DEF IInv
<1> USE <1>0 DEF CodeFollows, Stopping, Dead
<1>1. CASE Throws
  BY <1>1 DEF Throws
<1>2. CASE GoesOn
  BY <1>2 DEF GoesOn, AfterStop
<1>3. CASE \/ RunFileCommits \/ RunFileReturns \/ VerifyOpen
           \/ JsonCreate \/ JsonWrite \/ JsonFsync \/ JsonRename \/ JsonFsyncDirectory
  BY <1>3 DEF RunFileCommits, RunFileReturns, VerifyOpen, JsonCreate, JsonWrite, JsonFsync,
     JsonRename, JsonFsyncDirectory, Goto
<1>4. CASE VerifyEnd /\ pc' = "snapshot" /\ code' = code
  BY <1>4 DEF VerifyEnd
<1> QED
  BY <1>1, <1>2, <1>3, <1>4, MainMoves DEF Dies, Finishes

(* Past the check of the paths the report has a name of its own. *)
LEMMA PathsStep == IInv /\ [Next]_vars => PathsApart'
<1> SUFFICES ASSUME IInv, [Next]_vars PROVE PathsApart'
  OBVIOUS
<1>0. TypeOK /\ ThreadHeld /\ PathsApart /\ UNCHANGED <<Json, Output>>
  BY ArgumentsStay DEF IInv, Json, Output
<1> USE <1>0 DEF PathsApart, Dead, Publishing
<1>1. CASE Throws
  BY <1>1 DEF Throws
<1>2. CASE GoesOn
  BY <1>2 DEF GoesOn, AfterStop, Stopping, validate_metrics_json_path, same_file
<1>3. CASE \/ RunFileCommits \/ RunFileReturns \/ VerifyOpen
           \/ JsonCreate \/ JsonWrite \/ JsonFsync \/ JsonRename \/ JsonFsyncDirectory
  BY <1>3 DEF RunFileCommits, RunFileReturns, VerifyOpen, JsonCreate, JsonWrite, JsonFsync,
     JsonRename, JsonFsyncDirectory, Goto
<1>4. CASE VerifyEnd /\ pc' = "snapshot" /\ code' = code
  BY <1>4 DEF VerifyEnd
<1> QED
  BY <1>1, <1>2, <1>3, <1>4, MainMoves DEF Dies, Finishes

(* The output and the report go to other names than the input's. *)
LEMMA InputStep == IInv /\ [Next]_vars => InputKept'
<1> SUFFICES ASSUME IInv, [Next]_vars PROVE InputKept'
  OBVIOUS
<1>0. /\ names \in [Names -> Contents] /\ disk \in [Names -> Contents]
      /\ names["input"] = "in" /\ disk["input"] = "in" /\ "input" \in Names
  BY DEF IInv, TypeOK, InputKept, Names
<1> USE <1>0 DEF InputKept
<1>1. CASE UNCHANGED files
  BY <1>1 DEF files
<1>2. CASE RunFileCommits \/ RivalReplaces
  BY <1>2 DEF RunFileCommits, RivalReplaces
<1>3. CASE RunFileReturns
  BY <1>3 DEF RunFileReturns
<1>4. CASE JsonRename
  <2>1. Json # "input"
    BY <1>4 DEF JsonRename, IInv, PathsApart, Publishing, Dead
  <2> QED
    BY <1>4, <2>1 DEF JsonRename
<1>5. CASE JsonFsyncDirectory
  BY <1>5 DEF JsonFsyncDirectory
<1>6. CASE JsonCreate \/ JsonWrite \/ JsonFsync \/ JsonFails
  BY <1>6 DEF JsonCreate, JsonWrite, JsonFsync, JsonFails
<1>7. CASE PowerFails \/ WriteBack
  BY <1>7 DEF PowerFails, WriteBack
<1> QED
  BY <1>1, <1>2, <1>3, <1>4, <1>5, <1>6, <1>7, FilesMove

(* The temporary name goes with the rename or with the destructor. *)
LEMMA TemporaryStep == IInv /\ [Next]_vars => TemporaryFollows'
<1> SUFFICES ASSUME IInv, [Next]_vars PROVE TemporaryFollows'
  OBVIOUS
<1>0. TypeOK /\ ThreadHeld /\ TemporaryFollows
  BY DEF IInv
<1>1. temporary \in {"none", "exists", "stuck"}
  BY <1>0 DEF TypeOK
<1> USE <1>0, <1>1 DEF TemporaryFollows, Publishing
<1>2. CASE temporary' = temporary
  <2>1. CASE Throws \/ GoesOn
    BY <1>2, <2>1 DEF Throws, GoesOn, Stopping, Dead
  <2>2. CASE \/ RunFileCommits \/ RunFileReturns \/ VerifyOpen
             \/ (VerifyEnd /\ pc' = "snapshot" /\ code' = code) \/ Finishes \/ Dies
    BY <1>2, <2>2 DEF RunFileCommits, RunFileReturns, VerifyOpen, VerifyEnd, Finishes, Dies
  <2>3. CASE JsonCreate \/ JsonWrite \/ JsonFsync \/ JsonRename \/ JsonFsyncDirectory
    BY <1>2, <2>3 DEF JsonCreate, JsonWrite, JsonFsync, JsonRename, JsonFsyncDirectory, Goto
  <2>4. CASE UNCHANGED <<pc, code>>
    BY <1>2, <2>4
  <2> QED
    BY <2>1, <2>2, <2>3, <2>4, MainMoves
<1>3. CASE JsonCreate \/ JsonRename \/ JsonFails
  BY <1>3 DEF JsonCreate, JsonRename, JsonFails, Goto
<1> QED
  BY <1>2, <1>3, FilesMove DEF files, RunFileCommits, RunFileReturns, JsonWrite, JsonFsync,
     JsonFsyncDirectory, PowerFails, WriteBack, RivalReplaces

(* Which names mean what, as far as main has come. *)
LEMMA OutputStep == IInv /\ [Next]_vars => OutputFollows'
<1> SUFFICES ASSUME IInv, [Next]_vars PROVE OutputFollows'
  OBVIOUS
<1>0. TypeOK /\ ThreadHeld /\ CodeFollows /\ OutputFollows
  BY DEF IInv
<1>1. /\ names \in [Names -> Contents] /\ disk \in [Names -> Contents]
      /\ Output \in Names /\ UNCHANGED <<Json, Output, options>>
  BY <1>0, ArgumentsStay DEF TypeOK, Output, Json, Options
<1> USE <1>1 DEF OutputFollows, OutputThere, Succeeded, Before, Stopping, Publishing, Verified
<1>2. CASE UNCHANGED <<names, disk>>
  <2>1. CASE Throws
    BY <1>0, <1>2, <2>1 DEF Throws
  <2>2. CASE GoesOn
    BY <1>0, <1>2, <2>2 DEF GoesOn, AfterStop, CodeFollows
  <2>3. CASE JsonCreate \/ JsonWrite \/ JsonFsync \/ JsonRename \/ JsonFsyncDirectory
    BY <1>0, <1>2, <2>3 DEF JsonCreate, JsonWrite, JsonFsync, JsonRename,
       JsonFsyncDirectory, Goto, CodeFollows, Dead
  <2>4. CASE VerifyOpen \/ (VerifyEnd /\ pc' = "snapshot" /\ code' = code)
    BY <1>0, <1>2, <2>4 DEF VerifyOpen, VerifyEnd, Goto, CodeFollows, Dead
  <2>5. CASE Finishes \/ Dies \/ UNCHANGED <<pc, code>>
    BY <1>0, <1>2, <2>5 DEF Finishes, Dies
  <2>6. CASE RunFileCommits \/ RunFileReturns
    BY <1>0, <1>2, <2>6 DEF RunFileCommits, RunFileReturns, Goto, CodeFollows, Dead
  <2> QED
    BY <1>0, <2>1, <2>2, <2>3, <2>4, <2>5, <2>6, MainMoves
<1>3. CASE RunFileCommits \/ RunFileReturns
  BY <1>0, <1>3 DEF RunFileCommits, RunFileReturns, Goto, CodeFollows, Dead
<1>4. CASE JsonRename \/ JsonFsyncDirectory
  <2>1. Json # Output
    BY <1>4 DEF JsonRename, JsonFsyncDirectory, IInv, PathsApart, Dead
  <2> QED
    BY <1>0, <1>4, <2>1 DEF JsonRename, JsonFsyncDirectory, Goto, CodeFollows, Dead
<1>5. CASE PowerFails
  BY <1>0, <1>5 DEF PowerFails
<1>6. CASE WriteBack
  BY <1>0, <1>6 DEF WriteBack
<1>7. CASE RivalReplaces
  BY <1>0, <1>7 DEF RivalReplaces
<1> QED
  BY <1>2, <1>3, <1>4, <1>5, <1>6, <1>7, FilesMove DEF files, JsonCreate, JsonWrite,
     JsonFsync, JsonFails

(* What has been read has been compared, and at the end of both files      *)
(* nothing is left.                                                        *)
LEMMA ComparedStep == IInv /\ [Next]_vars => Compared'
<1> SUFFICES ASSUME IInv, [Next]_vars PROVE Compared'
  OBVIOUS
<1>0. TypeOK /\ ThreadHeld /\ CodeFollows /\ Compared
  BY DEF IInv
<1>1. UNCHANGED <<options, input>> /\ Increment(input)' = Increment(input)
  BY ArgumentsStay DEF Increment
<1>2. /\ input \in Seq(0 .. ByteMax) /\ opened \in Seq(0 .. ByteMax) /\ offset \in Nat
      /\ Len(input) \in Nat /\ Len(opened) \in Nat
  BY <1>0 DEF TypeOK
<1>3. report \in [committed : BOOLEAN, verified : BOOLEAN]
  BY <1>0 DEF TypeOK
<1>4. CASE UNCHANGED verification /\ ~VerifyEnd /\ ~VerifyOpen
  <2>1. UNCHANGED <<opened, offset, report>>
    BY <1>4 DEF verification
  <2> USE <1>0, <1>1, <2>1
      DEF Compared, Succeeded, Before, Waiting, Stopping, Publishing, Verified
  <2>2. CASE Throws \/ GoesOn
    BY <2>2 DEF Throws, GoesOn, AfterStop, CodeFollows
  <2>3. CASE RunFileCommits \/ RunFileReturns
    BY <2>3 DEF RunFileCommits, RunFileReturns, Goto
  <2>4. CASE JsonCreate \/ JsonWrite \/ JsonFsync \/ JsonRename \/ JsonFsyncDirectory
    BY <2>4 DEF JsonCreate, JsonWrite, JsonFsync, JsonRename, JsonFsyncDirectory, Goto
  <2>5. CASE Finishes \/ Dies \/ UNCHANGED <<pc, code>>
    BY <2>5 DEF Finishes, Dies
  <2> QED
    BY <1>4, <2>2, <2>3, <2>4, <2>5, MainMoves
<1>5. CASE VerifyOpen
  <2>1. pc' = "verify" /\ offset = 0 /\ offset' = 0 /\ report'.committed = TRUE
    BY <1>0, <1>3, <1>5 DEF VerifyOpen, Goto, Compared
  <2>2. Len(opened') \in Nat
    BY TypeStep DEF TypeOK
  <2> QED
    BY <1>1, <1>2, <2>1, <2>2
    DEF Compared, Succeeded, Before, Waiting, Publishing, Verified
<1>6. CASE VerifyBlock
  <2>0. /\ pc = "verify" /\ UNCHANGED <<opened, report>>
        /\ report.committed = TRUE /\ offset <= Len(input) /\ offset <= Len(opened)
        /\ \A i \in 1 .. offset : opened[i] = (input[i] + 1) % (ByteMax + 1)
    BY <1>0, <1>6 DEF VerifyBlock, Compared
  <2>1. PICK n \in ReadAt(input, BlockSize) : \E m \in ReadAt(opened, n) :
          IF m = n /\ \A i \in offset + 1 .. offset + n :
                        opened[i] = (input[i] + 1) % (ByteMax + 1)
          THEN offset' = offset + n /\ UNCHANGED <<pc, code>>
          ELSE Throw(1) /\ UNCHANGED offset
    BY <1>6 DEF VerifyBlock
  <2>2. CASE Throw(1) /\ UNCHANGED offset
    <3>1. joinable = FALSE
      BY <1>0, <2>0 DEF TypeOK, ThreadHeld, Waiting
    <3> QED
      BY <2>2, <3>1 DEF Throw, Compared, Succeeded, Before, Waiting, Publishing, Verified
  <2>3. CASE /\ n \in ReadAt(opened, n)
             /\ \A i \in offset + 1 .. offset + n :
                  opened[i] = (input[i] + 1) % (ByteMax + 1)
             /\ offset' = offset + n /\ UNCHANGED <<pc, code>>
    <3>1. n \in Nat /\ offset + n <= Len(input) /\ offset + n <= Len(opened)
      BY <1>2, <2>0, <2>3, DemoAssumption DEF ReadAt
    <3>2. \A i \in 1 .. offset + n : opened[i] = (input[i] + 1) % (ByteMax + 1)
      <4> TAKE i \in 1 .. offset + n
      <4>1. i \in 1 .. offset \/ i \in offset + 1 .. offset + n
        BY <1>2, <3>1
      <4> QED
        BY <2>0, <2>3, <4>1
    <3> QED
      BY <1>1, <2>0, <2>3, <3>1, <3>2
      DEF Compared, Succeeded, Before, Waiting, Publishing, Verified
  <2> QED
    BY <2>1, <2>2, <2>3
<1>7. CASE VerifyEnd
  <2>0. /\ pc = "verify" /\ UNCHANGED <<opened, offset>> /\ offset = Len(input)
        /\ report.committed = TRUE /\ offset <= Len(opened)
        /\ \A i \in 1 .. offset : opened[i] = (input[i] + 1) % (ByteMax + 1)
    BY <1>0, <1>7 DEF VerifyEnd, Compared
  <2>1. CASE ReadAt(opened, 1) = {0}
    <3>1. Len(opened) = Len(input)
      BY <1>2, <2>0, <2>1 DEF ReadAt
    <3>2. opened = Increment(input)
      <4>1. /\ Increment(input) \in Seq(0 .. ByteMax)
            /\ Len(Increment(input)) = Len(opened)
            /\ \A i \in 1 .. Len(opened) : opened[i] = Increment(input)[i]
        BY <1>2, <2>0, <3>1, IncrementIsFile
      <4> QED
        BY <1>2, <4>1, SeqEqual
    <3>3. pc' = "snapshot" /\ report'.committed = TRUE /\ report'.verified = TRUE
      BY <1>3, <1>7, <2>0, <2>1 DEF VerifyEnd, Goto
    <3> QED
      BY <1>1, <2>0, <3>2, <3>3
      DEF Compared, Succeeded, Before, Waiting, Publishing, Verified
  <2>2. CASE ReadAt(opened, 1) # {0}
    <3>1. Throw(1) /\ UNCHANGED report
      BY <1>7, <2>2 DEF VerifyEnd
    <3>2. joinable = FALSE
      BY <1>0, <2>0 DEF TypeOK, ThreadHeld, Waiting
    <3> QED
      BY <3>1, <3>2 DEF Throw, Compared, Succeeded, Before, Waiting, Publishing, Verified
  <2> QED
    BY <2>1, <2>2
<1> QED
  BY <1>4, <1>5, <1>6, <1>7, VerificationMoves

(* The report gets its name after its bytes are on the disk, and the bytes *)
(* are written after the output was verified.                              *)
LEMMA ReportStep == IInv /\ [Next]_vars => ReportFollows'
<1> SUFFICES ASSUME IInv, [Next]_vars PROVE ReportFollows'
  OBVIOUS
<1>0. TypeOK /\ ThreadHeld /\ CodeFollows /\ OutputFollows /\ Compared /\ ReportFollows
  BY DEF IInv
<1>1. /\ names \in [Names -> Contents] /\ disk \in [Names -> Contents]
      /\ Output \in Names /\ UNCHANGED <<Json, Output, options>>
      /\ Json # NoPath => Json \in Names
  BY <1>0, ArgumentsStay DEF TypeOK, Output, Json, Options
<1>2. report' = report \/ pc = "verify_open" \/ pc = "verify"
  BY VerificationMoves DEF verification, VerifyOpen, VerifyBlock, VerifyEnd
<1> USE <1>1 DEF ReportFollows, OutputThere, Succeeded
<1>3. CASE /\ UNCHANGED <<names, disk, length, diskLength>>
           /\ ~JsonWrite /\ ~JsonFsync /\ ~JsonRename /\ ~JsonFsyncDirectory
  <2> USE <1>0, <1>2, <1>3
  <2>1. CASE Throws
    BY <2>1 DEF Throws, Stopping, Dead
  <2>2. CASE GoesOn
    BY <2>2 DEF GoesOn, AfterStop, Stopping, Dead, CodeFollows
  <2>3. CASE RunFileCommits \/ RunFileReturns \/ VerifyOpen
    BY <2>3 DEF RunFileCommits, RunFileReturns, VerifyOpen, Goto, Dead
  <2>4. CASE VerifyEnd /\ pc' = "snapshot" /\ code' = code
    BY <2>4 DEF VerifyEnd, Dead
  <2>5. CASE Finishes \/ Dies
    BY <2>5 DEF Finishes, Dies, Dead
  <2>6. CASE UNCHANGED <<pc, code>>
    BY <2>6 DEF Dead
  <2>7. CASE JsonCreate
    BY <2>7 DEF JsonCreate, Goto, Dead
  <2> QED
    BY <2>1, <2>2, <2>3, <2>4, <2>5, <2>6, <2>7, MainMoves
<1>4. CASE RunFileCommits \/ RunFileReturns
  BY <1>0, <1>2, <1>4 DEF RunFileCommits, RunFileReturns, Goto, Dead
<1>5. CASE JsonWrite \/ JsonFsync
  BY <1>0, <1>2, <1>5 DEF JsonWrite, JsonFsync, Goto, Dead
<1>6. CASE JsonRename
  <2>1. Json # NoPath /\ Json # Output
    BY <1>6 DEF JsonRename, IInv, PathsApart, Publishing, Dead
  <2>2. OutputThere /\ report.committed = TRUE /\ report.verified = TRUE
    BY <1>0, <1>6 DEF JsonRename, OutputFollows, Compared, Verified, Publishing
  <2> QED
    BY <1>0, <1>2, <1>6, <2>1, <2>2 DEF JsonRename, Goto, Dead
<1>7. CASE JsonFsyncDirectory
  <2>1. Json # NoPath /\ Json # Output
    BY <1>7 DEF JsonFsyncDirectory, IInv, PathsApart, Publishing, Dead
  <2> QED
    BY <1>0, <1>2, <1>7, <2>1 DEF JsonFsyncDirectory, Goto, Dead
<1>8. CASE PowerFails
  BY <1>0, <1>8 DEF PowerFails, verification, Dead
<1>9. CASE WriteBack
  BY <1>0, <1>9 DEF WriteBack, verification, Dead
<1>10. CASE RivalReplaces
  BY <1>0, <1>10 DEF RivalReplaces, verification, Dead
<1> QED
  BY <1>3, <1>4, <1>5, <1>6, <1>7, <1>8, <1>9, <1>10, FilesMove
  DEF files, JsonCreate, JsonFails

-----------------------------------------------------------------------------
(* The invariant holds in every state of the program, whatever fails and   *)
(* wherever it is killed.                                                  *)
THEOREM Invariance == Spec => []IInv
<1>1. IInv /\ [Next]_vars => IInv'
  BY TypeStep, ThreadStep, LinesStep, CodeStep, PathsStep, InputStep, TemporaryStep,
     OutputStep, ComparedStep, ReportStep DEF IInv
<1> QED
  BY InitIInv, <1>1, PTL DEF Spec

(* The exit code tells the truth: main returns 0 only when the file that   *)
(* verify_incremented_output() opened equals the transformed input and the *)
(* report is on the disk, 2 only when nothing was published, and never     *)
(* when the input was replaced or a temporary name left.                   *)
THEOREM ExitCodeTrue == Spec => []ExitCodeHonest
<1>1. ASSUME IInv PROVE ExitCodeHonest
  <2> SUFFICES ASSUME pc = "exited"
               PROVE  /\ names["input"] = "in" /\ temporary # "exists"
                      /\ code = 0 /\ ~options.help =>
                           /\ opened = Increment(input)
                           /\ disk[Output] \in {"out", "rival"}
                           /\ names[Output] \in {"out", "rival"}
                           /\ Json # NoPath => disk[Json] = "report" /\ diskLength = ReportSize
                      /\ code = 2 => {"out", "report"} \cap {names[n] : n \in Names} = {}
    BY DEF ExitCodeHonest
  <2>1. names["input"] = "in" /\ temporary # "exists"
    BY <1>1 DEF IInv, InputKept, TypeOK, TemporaryFollows
  <2>2. ASSUME code = 0, options.help = FALSE
        PROVE  /\ opened = Increment(input)
               /\ disk[Output] \in {"out", "rival"} /\ names[Output] \in {"out", "rival"}
    BY <1>1, <2>2 DEF IInv, Succeeded, Compared, OutputFollows, OutputThere
  <2>3. ASSUME code = 0, options.help = FALSE, Json # NoPath
        PROVE  disk[Json] = "report" /\ diskLength = ReportSize
    <3>1. Json \in Names
      BY <1>1, <2>3 DEF IInv, TypeOK, Options, Json
    <3> QED
      BY <1>1, <2>3, <3>1 DEF IInv, Succeeded, ReportFollows
  <2>4. ASSUME code = 2 PROVE {"out", "report"} \cap {names[n] : n \in Names} = {}
    BY <1>1, <2>4 DEF IInv, OutputFollows
  <2>5. options.help \in BOOLEAN
    BY <1>1 DEF IInv, TypeOK, Options
  <2> QED
    BY <2>1, <2>2, <2>3, <2>4, <2>5
<1> QED
  BY <1>1, Invariance, PTL

(* A report that write_metrics_json_atomic() published, or that is left    *)
(* after a power failure, is complete, says what happened, and has the     *)
(* output beside it.                                                       *)
THEOREM ReportHonest == Spec => []ReportTrue
<1>1. ASSUME IInv PROVE ReportTrue
  <2>1. ASSUME NEW n \in Names, names[n] = "report"
        PROVE  /\ length = ReportSize
               /\ render_metrics_json(report) =
                    [output_committed |-> TRUE, verification |-> "passed"]
               /\ names[Output] \in {"out", "rival"}
    BY <1>1, <2>1 DEF IInv, ReportFollows, OutputThere, render_metrics_json
  <2>2. ASSUME NEW n \in Names, disk[n] = "report"
        PROVE  diskLength = ReportSize /\ disk[Output] \in {"out", "rival"}
    BY <1>1, <2>2 DEF IInv, ReportFollows, OutputThere
  <2> QED
    BY <2>1, <2>2 DEF ReportTrue
<1> QED
  BY <1>1, Invariance, PTL

(* LiveTerminalReporter::stop() is on every way out of the try block: the  *)
(* thread works only while main waits for the run or for the thread, and   *)
(* no line shows more progress than there is.                              *)
THEOREM ReporterHeld == Spec => []ReporterContained
<1>1. IInv => ReporterContained
  BY DEF IInv, ThreadHeld, LinesBounded, ReporterContained, Waiting
<1> QED
  BY <1>1, Invariance, PTL

=============================================================================
