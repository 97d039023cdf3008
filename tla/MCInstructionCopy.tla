-------------------------- MODULE MCInstructionCopy --------------------------
(* InstructionCopy with few commands, versions and writes.                 *)
EXTENDS InstructionCopy, TLC

CONSTANTS c1, c2

CommandSymmetry == Permutations(Commands)
=============================================================================
