---------------------------- MODULE MCMcpRequests ----------------------------
(* Small instances of McpRequests.                                         *)
EXTENDS McpRequests, TLC

CONSTANTS r1, r2, r3

RequestSymmetry == Permutations(Request)
=============================================================================
