-------------------------- MODULE MCSharedSegments --------------------------
(* Instance of SharedSegments for TLC.                                     *)
EXTENDS SharedSegments

Symmetry == Permutations(Procs) \cup Permutations(Places) \cup Permutations(Names)
=============================================================================
