---------------------------- MODULE MCTryBlocks ----------------------------
(***************************************************************************)
(* TryBlocks for TLC with the blocks of scheme2c: in console mode, and in  *)
(* file mode (a bad lexeme is skipped and the block retried).              *)
(***************************************************************************)
EXTENDS TryBlocks, VmBlocks

ConsoleRaises == VmRaises(TRUE)
FileRaises == VmRaises(FALSE)

(* The blocks of scheme2c are as StaleRootsAreOfRetries needs them.        *)
ASSUME VmBlocksUnwind == Reaches(VmReach) /\ Unwinds(VmReach)
=============================================================================
