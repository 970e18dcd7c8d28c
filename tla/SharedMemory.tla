---------------------------- MODULE SharedMemory ----------------------------
(***************************************************************************)
(* Shared segments and the user space together: the pages of a shared      *)
(* segment belong to a dummy process and are paged like those of any       *)
(* other; a process that has the segment reaches them through its index.   *)
(*                                                                         *)
(* Scope.  That of SharedSegments and of UserSpace.  A shared segment has  *)
(* one page, which all its users may read and write.  The dummy of the     *)
(* segment named n is process n of the user space; what is created and     *)
(* deleted with it is its one segment.  Private pages are left to          *)
(* UserSpace.                                                              *)
(***************************************************************************)
EXTENDS SharedSegments

CONSTANTS
  UFrames, Clusters, Data,   \* as in UserSpace
  NoProc, NoPage, NoCluster, NoBlock, Junk, Absent

ASSUME MemoryAssumption ==
  /\ NoProc \notin Names
  /\ NoPage \notin Names \X {0}
  /\ NoCluster \notin Clusters
  /\ Absent \notin Data \cup {Junk}

VARIABLES dummies, segs, pte, empty, ft, ot, free, mem, disk, job, full

Paging == INSTANCE UserSpace WITH
  Procs <- Names, NPages <- 1, Rights <- {2}, alive <- dummies, halted <- full

userVars == <<dummies, segs, pte, empty, ft, ot, free, mem, disk, job, full>>

\* The segment of a dummy process, and the page in it.
Whole     == [first |-> 0, size |-> 1]
PageOf(n) == <<n, 0>>

MemoryInit ==
  /\ Init
  /\ dummies = Names
  /\ job = Paging!Idle
  /\ segs = [n \in Names |-> {}]
  /\ pte = [q \in Names \X {0} |-> Paging!NoDescriptor]
  /\ empty = UFrames
  /\ ft = [f \in UFrames |-> Paging!NoEntry]
  /\ ot = [f \in UFrames |-> NoCluster]
  /\ free = Clusters
  /\ mem = [f \in UFrames |-> Junk]
  /\ disk = [c \in Clusters |-> Junk]
  /\ full = FALSE

------------------------------------------------------------------------------
\* create_shared_segment of a new name, and its dummy process with the segment.
Create(p, a, n) == CreateShared(p, a, n) /\ Paging!CreateSegment(n, Whole, 2)

\* Mutant: the dummy process is left behind.
DummyStays(n) == UNCHANGED userVars

\* The dummy process is destroyed, and its segment with it.
DeleteDummy(n) == Paging!DeleteSegment(n, Whole)

Delete(n) == DeleteShared(n) /\ DeleteDummy(n)

\* Operations that leave the dummy processes alone.
Elsewhere ==
  /\ ~full
  /\ \/ \E p \in Procs : CreateProcess(p) \/ DeleteProcess(p)
     \/ \E p, q \in Procs : CloneProcess(p, q)
     \/ \E p \in Procs, a \in Places, n \in Names : ConnectShared(p, a, n)
     \/ \E p \in Procs, n \in Names : DisconnectShared(p, n)
     \/ \E p \in Procs, a \in Places : DeleteSegment(p, a)
  /\ UNCHANGED userVars

\* The segment that a process sees at place a.
Behind(p, a) == NameAt(pages[p][a])

\* A process uses a page of a shared segment that it has.
Reaches(p, a) == Ready /\ p \in alive /\ pages[p][a] # Nil

\* page_fault of a shared page: the page of the dummy process is brought in.
Fault(p, a) ==
  /\ Reaches(p, a)
  /\ Paging!PageFault(PageOf(Behind(p, a)))
  /\ UNCHANGED vars

\* access(WRITE) to a shared page answers OK and the client stores.
Store(p, a, d) ==
  /\ Reaches(p, a)
  /\ Paging!Write(PageOf(Behind(p, a)), d)
  /\ UNCHANGED vars

\* The page table of a dummy process leaves the kernel space.
Evict(n) == Ready /\ Paging!EvictPage(PageOf(n)) /\ UNCHANGED vars

MemoryNext ==
  \/ \E p \in Procs, a \in Places, n \in Names : Create(p, a, n)
  \/ \E n \in Names : Delete(n) \/ Evict(n)
  \/ \E p \in Procs, a \in Places : Fault(p, a)
  \/ \E p \in Procs, a \in Places, d \in Data : Store(p, a, d)
  \/ Elsewhere

MemorySpec == MemoryInit /\ [][MemoryNext]_<<vars, userVars>>

------------------------------------------------------------------------------
(* Properties.                                                             *)

\* The pages of dummy processes exist exactly as long as their segments are in the
\* registry, and hold frames and clusters of their own: none is lost to a segment
\* that was deleted.
DummiesKept ==
  /\ \A n \in Names : pte[PageOf(n)].inseg <=> cb[n] # Nil
  /\ Paging!FrameOwnership
  /\ Paging!ClusterOwnership

\* Shared memory is memory: whoever stores to a segment, all who have it see it, in
\* whatever frame or cluster its page is by then, and nobody else does.
Cells == INSTANCE SharedCells WITH
  attached <- Attached, cell <- [n \in Names |-> Paging!Content(PageOf(n))]

CellsSpec == Cells!Spec
=============================================================================
