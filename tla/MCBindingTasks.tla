--------------------------- MODULE MCBindingTasks ---------------------------
(* Small instances of BindingTasks.                                        *)
EXTENDS BindingTasks, TLC

CONSTANTS r1, r2, r3

RequestSymmetry == Permutations(Request)
=============================================================================
