--------------------------- MODULE MCSharedMemory ---------------------------
(* Instance of SharedMemory for TLC.                                       *)
EXTENDS SharedMemory

Symmetry == Permutations(Procs) \cup Permutations(Places) \cup Permutations(Names)
              \cup Permutations(UFrames) \cup Permutations(Clusters) \cup Permutations(Data)
=============================================================================
