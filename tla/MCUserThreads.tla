---------------------------- MODULE MCUserThreads ----------------------------
(* Instance of UserThreads for TLC: one page a thread.                      *)
EXTENDS UserThreads, TLC

OnePageEach == Threads \X {1}

Symmetry == Permutations(Threads)

\* What is left of a state without what nobody reads before it is written, as long
\* as pages leave only while one thread is inside: the table entries of frames no
\* page has, and the content of vacant clusters.
InUse(f) ==
  \/ \E q \in Page : pte[q].valid /\ pte[q].blk = f
  \/ \E t \in Threads : at[t].frame = f /\ at[t].pc \in {"request", "serve", "loaded"}

View ==
  <<list, holder, dvt, pte, mem, at,
    [f \in Frame |-> IF InUse(f) THEN <<ft[f], ot[f]>> ELSE <<>>],
    [c \in Cluster |-> IF c \in Vacant(dvt) THEN Junk ELSE disk[c]]>>
=============================================================================
