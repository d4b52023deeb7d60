--------------------------- MODULE StageChecksum ----------------------------
(***************************************************************************)
(* The checksum stage of the pipelines that PipelineSetup sets up: FNV-1a  *)
(* over the bytes of a block, which it leaves as they are.                 *)
(***************************************************************************)
EXTENDS PipelineSetup, Bitwise

CONSTANTS ChecksumSpace   \* the number of checksums, in place of 2^64

(* Mutant: the byte is or-ed into the sum. *)
ChecksumOr(block) ==
  FoldLeft(LAMBDA sum, byte : ((sum | byte) * 3) % ChecksumSpace, 5, block)

(* FNV-1a, with an odd prime and a basis that fit the small checksums. *)
Checksum(block) ==
  FoldLeft(LAMBDA sum, byte : ((sum ^^ byte) * 3) % ChecksumSpace, 5, block)

(* A checksum tells every change of a single byte of the block that a      *)
(* pipeline processes: no later byte makes up for it.                      *)
ChecksumTellsChanges ==
  last.op = "process" =>
    LET b == last.arguments IN
    \A i \in DOMAIN b, x \in 0 .. ByteMax :
      x # b[i] => Checksum([b EXCEPT ![i] = x]) # Checksum(b)

=============================================================================
