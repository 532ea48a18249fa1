------------------------------- MODULE MCPipe --------------------------------
(* Instances of Pipe for TLC: two-byte segments, two of them, a few bytes.     *)
EXTENDS Pipe, TLC

CONSTANTS b1, b2
BlockSymmetry == Permutations(Blocks)
==============================================================================
