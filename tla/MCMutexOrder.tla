---------------------------- MODULE MCMutexOrder ----------------------------
(* Instance of MutexOrder for TLC.                                         *)
EXTENDS MutexOrder, TLC

Symmetry == Permutations(Threads)
=============================================================================
