---------------------------- MODULE MCUserSpace ----------------------------
(* Instance of UserSpace for TLC.                                          *)
EXTENDS UserSpace, TLC

Symmetry == Permutations(Procs) \cup Permutations(UFrames)
              \cup Permutations(Clusters) \cup Permutations(Data)
=============================================================================
