--------------------------- MODULE MCKernelSpace ---------------------------
(* Instance of KernelSpace for TLC.                                        *)
EXTENDS KernelSpace

Symmetry == Permutations(Procs)
=============================================================================
