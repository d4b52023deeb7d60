-------------------------- MODULE SerialReference ---------------------------
(***************************************************************************)
(* What a run of the pipeline promises about its output file: what         *)
(* run_serial_pipeline_reference does, the one-thread loop the end-to-end  *)
(* benchmark compares the executor with.  It reads, processes and writes   *)
(* one block after the other, so the output is at any moment a fully       *)
(* processed prefix of the input, and the run returns only when the prefix *)
(* is the whole input.                                                     *)
(***************************************************************************)
EXTENDS Integers

CONSTANT NumStages      \* stages of the processing pipeline

VARIABLES input_length, \* bytes in the input file
          output,       \* the output file, byte by byte
          status        \* running, returned or threw

serialVars == <<input_length, output, status>>

Positions == 0 .. input_length - 1

(* A byte is known by the input position it came from and by the number of *)
(* stages it has been through; Nothing is a byte never written.            *)
Nothing == <<-1, 0>>

(* The output file with exactly the first n processed bytes. *)
Prefix(n) == [p \in Positions |-> IF p < n THEN <<p, NumStages>> ELSE Nothing]

Init == input_length \in Nat /\ output = Prefix(0) /\ status = "running"

(* pwrite moved on by at least a byte. *)
Extend ==
  /\ status = "running"
  /\ \E m, n \in 0 .. input_length :
       m < n /\ output = Prefix(m) /\ output' = Prefix(n)
  /\ UNCHANGED <<input_length, status>>

(* A read of zero bytes ends the loop. *)
Return ==
  /\ status = "running"
  /\ output = Prefix(input_length)
  /\ status' = "returned"
  /\ UNCHANGED <<input_length, output>>

(* A read, a stage or a write failed. *)
Throw ==
  /\ status = "running"
  /\ status' = "threw"
  /\ UNCHANGED <<input_length, output>>

Next == Extend \/ Return \/ Throw

Spec == Init /\ [][Next]_serialVars
=============================================================================
