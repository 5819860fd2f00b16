--------------------------- MODULE MCKernelCommit ---------------------------
(* Small instances of KernelCommit for TLC.                                 *)
EXTENDS KernelCommit, TLC

Symmetry == Permutations(Ids)
=============================================================================
