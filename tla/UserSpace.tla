------------------------------ MODULE UserSpace ------------------------------
(***************************************************************************)
(* Demand paging of the user space: the frames, the frame table, the       *)
(* origin table, the disk and the second-level descriptors of every page,  *)
(* under the operations of Process and System that create, load, fault,    *)
(* write, clone and delete.                                                *)
(*                                                                         *)
(* Scope.  Page tables are taken to be at hand; that one leaves the kernel *)
(* space shows only in the pages it takes along, one by one (EvictPage).   *)
(* Calls are serialised, as SystemTest does with its mutex.                *)
(* Every page lies below page 1024 of its process.  A segment load and a   *)
(* clone acquire a frame per page and are taken page by page: `job' holds  *)
(* the pages left, and no other operation starts before it is empty.       *)
(***************************************************************************)
EXTENDS Integers, FiniteSets

CONSTANTS
  Procs,        \* process control blocks
  NPages,       \* pages of one address space
  UFrames,      \* user frames
  Clusters,     \* clusters of the partition
  Data,         \* page contents a client can supply
  Rights,       \* access types a client asks for its segments
  MaxSegments,  \* KernelProcess::MAX_SEGMENTS
  NoProc, NoPage, NoCluster, NoBlock, Junk, Absent

PAGE_SIZE == 1024

READ       == 0
WRITE      == 1
READ_WRITE == 2
EXECUTE    == 3

Index == 0 .. NPages - 1
Page  == Procs \X Index

ASSUME PagesAssumption == NPages \in 1 .. 1024
ASSUME RightsAssumption == Rights \subseteq READ .. EXECUTE
ASSUME MarkersAssumption ==
  /\ NoProc \notin Procs
  /\ NoPage \notin Page
  /\ NoCluster \notin Clusters
  /\ Absent \notin Data \cup {Junk}

VARIABLES
  alive,    \* processes that exist
  segs,     \* segs[p]: occupied entries of p's segment table
  pte,      \* second-level descriptor of each page
  empty,    \* frames on the list of empty user pages
  ft,       \* user frame table: owning descriptor and dirty flag
  ot,       \* origin table: the cluster a frame was loaded from
  free,     \* clusters marked vacant
  mem,      \* content of the user frames
  disk,     \* content of the clusters
  job,      \* pages an unfinished load or clone has left
  halted    \* HALT was reached

vars == <<alive, segs, pte, empty, ft, ot, free, mem, disk, job, halted>>

Descriptor ==
  [inseg : BOOLEAN, valid : BOOLEAN, dirty : BOOLEAN, tbc : BOOLEAN,
   acc : READ .. EXECUTE, blk : UFrames \cup Clusters \cup {NoBlock}]

FrameEntry == [owner : Page \cup {NoPage}, dirty : BOOLEAN]

Segment == [first : Index, size : 1 .. NPages]

\* flags = 0; the block number of such a descriptor is never read again.
NoDescriptor ==
  [inseg |-> FALSE, valid |-> FALSE, dirty |-> FALSE, tbc |-> FALSE,
   acc |-> READ, blk |-> NoBlock]

\* The frame table entry of an empty frame is dead until the next acquire.
NoEntry == [owner |-> NoPage, dirty |-> FALSE]

Idle == [todo |-> {}, from |-> NoProc, acc |-> READ]

Ready == ~halted /\ job.todo = {}

Init ==
  /\ alive = {}
  /\ segs = [p \in Procs |-> {}]
  /\ pte = [q \in Page |-> NoDescriptor]
  /\ empty = UFrames
  /\ ft = [f \in UFrames |-> NoEntry]
  /\ ot = [f \in UFrames |-> NoCluster]
  /\ free = Clusters
  /\ mem = [f \in UFrames |-> Junk]
  /\ disk = [c \in Clusters |-> Junk]
  /\ job = Idle
  /\ halted = FALSE

------------------------------------------------------------------------------
(* Helpers of KernelSystem.                                                *)

\* The 16-bit truth table of KernelSystem::access_is_ok (0x8465).
AccessIsOk(requested, granted) ==
  (33893 \div 2 ^ (4 * requested + granted)) % 2 = 1

\* Mutant: a victim never goes back to its origin.
VacantOnly(f) == free

\* The cluster us_swap_out writes victim f to: its origin, or a vacant one.
SwapTargets(f) == IF ot[f] = NoCluster THEN free ELSE {ot[f]}

\* Mutant: only the dirty flag decides.
DirtyOnly(f, dirty) == dirty

\* A victim is written to the disk unless its origin cluster still has it.
MustWrite(f, dirty) == dirty \/ ot[f] = NoCluster

\* Mutant: the valid flag stays.
StaysValid(d, c) == [d EXCEPT !.blk = c, !.dirty = FALSE]

\* The victim's descriptor once its page is in cluster c.
SwappedOut(d, c) == [d EXCEPT !.blk = c, !.valid = FALSE, !.dirty = FALSE]

\* us_swap_out of frame f to cluster c, for a victim that is said to be dirty or
\* not: what is left of the descriptors, the disk and the vacancy table.
UsSwapOut(f, c, dirty) ==
  [frame |-> f,
   pte   |-> [pte EXCEPT ![ft[f].owner] = SwappedOut(@, c)],
   disk  |-> IF MustWrite(f, dirty) THEN [disk EXCEPT ![c] = mem[f]] ELSE disk,
   free  |-> free \ {c}]

\* us_acquire_page: an empty frame, or else a victim outside `ignore'.
UsAcquirePage(ignore) ==
  IF empty # {}
  THEN {[frame |-> f, pte |-> pte, disk |-> disk, free |-> free] : f \in empty}
  ELSE UNION {{UsSwapOut(f, c, ft[f].dirty) : c \in SwapTargets(f)} : f \in UFrames \ ignore}

\* us_swap_out finds no vacant cluster for some victim: HALT.
DiskFull(ignore) ==
  /\ empty = {}
  /\ free = {}
  /\ \E f \in UFrames \ ignore : ot[f] = NoCluster

Halt ==
  /\ halted' = TRUE
  /\ UNCHANGED <<alive, segs, pte, empty, ft, ot, free, mem, disk, job>>

\* Frame r.frame goes to page q with descriptor d, origin cluster c and
\* content x.
Install(r, q, d, c, x) ==
  /\ pte' = [r.pte EXCEPT ![q] = d]
  /\ empty' = empty \ {r.frame}
  /\ ft' = [ft EXCEPT ![r.frame] = [owner |-> q, dirty |-> FALSE]]
  /\ ot' = [ot EXCEPT ![r.frame] = c]
  /\ mem' = [mem EXCEPT ![r.frame] = x]
  /\ disk' = r.disk
  /\ free' = r.free

------------------------------------------------------------------------------
(* Operations of Process and System.                                       *)

CreateProcess(p) ==
  /\ Ready
  /\ p \notin alive
  /\ alive' = alive \cup {p}
  /\ UNCHANGED <<segs, pte, empty, ft, ot, free, mem, disk, job, halted>>

PagesOf(p, s) == {q \in Page : q[1] = p /\ q[2] \in s.first .. s.first + s.size - 1}

\* Mutant: adjacent segments may share a page.
ClearTouching(s, first, size) ==
  \/ s.first + s.size - 1 <= first
  \/ s.first > first * PAGE_SIZE + size - 1

\* The overlap test of create_segment and load_segment: the second bound
\* compares a page number with a byte address.
Clear(s, first, size) ==
  \/ s.first + s.size - 1 < first
  \/ s.first > first * PAGE_SIZE + size - 1

CanPlace(p, seg) ==
  /\ Ready
  /\ p \in alive
  /\ seg.first + seg.size <= NPages
  /\ Cardinality(segs[p]) < MaxSegments
  /\ \A s \in segs[p] : Clear(s, seg.first, seg.size)

\* create_segment: every page is left to be created by its first fault.
CreateSegment(p, seg, acc) ==
  /\ CanPlace(p, seg)
  /\ segs' = [segs EXCEPT ![p] = @ \cup {seg}]
  /\ pte' = [q \in Page |->
       IF q \in PagesOf(p, seg)
       THEN [inseg |-> TRUE, valid |-> FALSE, dirty |-> TRUE, tbc |-> TRUE,
             acc |-> acc, blk |-> NoBlock]
       ELSE pte[q]]
  /\ UNCHANGED <<alive, empty, ft, ot, free, mem, disk, job, halted>>

\* load_segment up to its loop over the pages.
LoadSegment(p, seg, acc) ==
  /\ CanPlace(p, seg)
  /\ segs' = [segs EXCEPT ![p] = @ \cup {seg}]
  /\ job' = [todo |-> PagesOf(p, seg), from |-> NoProc, acc |-> acc]
  /\ UNCHANGED <<alive, pte, empty, ft, ot, free, mem, disk, halted>>

\* Pages of one segment are processed in ascending order.
NextOfJob(q) ==
  /\ q \in job.todo
  /\ \A s \in segs[q[1]] : q \in PagesOf(q[1], s) =>
       \A r \in job.todo \cap PagesOf(q[1], s) : q[2] <= r[2]

\* Mutant: the loop does not advance.
FinishNothing(q) == job

Finish(q) == LET left == job.todo \ {q}
             IN  IF left = {} THEN Idle ELSE [job EXCEPT !.todo = left]

\* One iteration of load_segment's loop: us_load_page and its descriptor.
LoadPage(q, d) ==
  /\ ~halted
  /\ job.from = NoProc
  /\ NextOfJob(q)
  /\ \/ \E r \in UsAcquirePage({}) :
          /\ Install(r, q,
                     [inseg |-> TRUE, valid |-> TRUE, dirty |-> TRUE,
                      tbc |-> FALSE, acc |-> job.acc, blk |-> r.frame],
                     NoCluster, d)
          /\ job' = Finish(q)
          /\ UNCHANGED <<alive, segs, halted>>
     \/ DiskFull({}) /\ Halt

\* Mutant: the page is created anew by every fault.
FaultedAgain(d, f) == [d EXCEPT !.blk = f, !.valid = TRUE, !.dirty = FALSE]

\* The descriptor of a page a fault has brought to frame f.
Faulted(d, f) ==
  [d EXCEPT !.blk = f, !.valid = TRUE, !.dirty = FALSE, !.tbc = FALSE]

\* page_fault on a page of a segment that is not in memory.
PageFault(q) ==
  /\ Ready
  /\ pte[q].inseg
  /\ ~pte[q].valid
  /\ \/ \E r \in UsAcquirePage({}) :
          /\ Install(r, q, Faulted(pte[q], r.frame),
                     IF pte[q].tbc THEN NoCluster ELSE pte[q].blk,
                     IF pte[q].tbc THEN Junk ELSE r.disk[pte[q].blk])
          /\ UNCHANGED <<alive, segs, job, halted>>
     \/ DiskFull({}) /\ Halt

\* us_evict_page of page q: its page table leaves the kernel space, which may be
\* at any time, and takes the pages it describes to the disk with it.  A page is
\* dirty here by its descriptor.
EvictPage(q) ==
  LET f == pte[q].blk
  IN  /\ ~halted
      /\ pte[q].valid
      /\ \/ /\ \E c \in SwapTargets(f) :
                LET r == UsSwapOut(f, c, pte[q].dirty)
                IN  pte' = r.pte /\ disk' = r.disk /\ free' = r.free
            /\ empty' = empty \cup {f}
            /\ ft' = [ft EXCEPT ![f] = NoEntry]
            /\ ot' = [ot EXCEPT ![f] = NoCluster]
            /\ mem' = [mem EXCEPT ![f] = Junk]
            /\ UNCHANGED <<alive, segs, job, halted>>
         \/ SwapTargets(f) = {} /\ Halt

\* Mutant: access marks the descriptor only.
LeaveClean(f) == ft' = ft

\* access_phys marks the frame table entry of a page that is written.
MarkDirty(f) == ft' = [ft EXCEPT ![f].dirty = TRUE]

\* access(WRITE) answers OK and the client stores through the address.
Write(q, d) ==
  /\ Ready
  /\ AccessIsOk(WRITE, pte[q].acc)
  /\ pte[q].inseg
  /\ pte[q].valid
  /\ pte' = [pte EXCEPT ![q].dirty = TRUE]
  /\ MarkDirty(pte[q].blk)
  /\ mem' = [mem EXCEPT ![pte[q].blk] = d]
  /\ UNCHANGED <<alive, segs, empty, ot, free, disk, job, halted>>

\* The frames, the clusters of the frames, and the clusters of the pages on disk
\* that the pages S hold.
FramesOf(S) == {pte[q].blk : q \in {q \in S : pte[q].valid}}

\* Mutant: the null cluster is marked vacant.
OriginsAndNull(S) == {ot[f] : f \in FramesOf(S)}

OriginsOf(S) == {ot[f] : f \in FramesOf(S)} \ {NoCluster}

\* Mutant: the clusters of pages on disk are not given back.
NoSwapsOf(S) == {}

SwapsOf(S) == {pte[q].blk : q \in {q \in S : ~pte[q].valid /\ ~pte[q].tbc}}

\* delete_segment_ind for every page of S: the frame of a page in memory is
\* emptied (the list link destroys its content) and its origin cluster freed,
\* the cluster of a page on disk is freed.
Release(S) ==
  LET frames == FramesOf(S)
  IN  /\ pte' = [q \in Page |-> IF q \in S THEN NoDescriptor ELSE pte[q]]
      /\ empty' = empty \cup frames
      /\ free' = free \cup SwapsOf(S) \cup OriginsOf(S)
      /\ ft' = [f \in UFrames |-> IF f \in frames THEN NoEntry ELSE ft[f]]
      /\ ot' = [f \in UFrames |-> IF f \in frames THEN NoCluster ELSE ot[f]]
      /\ mem' = [f \in UFrames |-> IF f \in frames THEN Junk ELSE mem[f]]

DeleteSegment(p, seg) ==
  /\ Ready
  /\ p \in alive
  /\ seg \in segs[p]
  /\ Release(PagesOf(p, seg))
  /\ segs' = [segs EXCEPT ![p] = @ \ {seg}]
  /\ UNCHANGED <<alive, disk, job, halted>>

\* ~KernelProcess: every segment is deleted.
DeleteProcess(p) ==
  /\ Ready
  /\ p \in alive
  /\ Release(UNION {PagesOf(p, s) : s \in segs[p]})
  /\ segs' = [segs EXCEPT ![p] = {}]
  /\ alive' = alive \ {p}
  /\ UNCHANGED <<disk, job, halted>>

\* clone_process up to the copying of the pages.
CloneProcess(p, c) ==
  /\ Ready
  /\ p \in alive
  /\ c \notin alive
  /\ alive' = alive \cup {c}
  /\ segs' = [segs EXCEPT ![c] = segs[p]]
  /\ job' = IF segs[p] = {} THEN Idle
            ELSE [todo |-> UNION {PagesOf(c, s) : s \in segs[p]},
                  from |-> p, acc |-> READ]
  /\ UNCHANGED <<pte, empty, ft, ot, free, mem, disk, halted>>

\* One iteration of clone_segment_from: page q from page <<job.from, q[2]>>.
ClonePage(q) ==
  LET src == pte[<<job.from, q[2]>>]
      keep == IF src.valid THEN {src.blk} ELSE {}
  IN
  /\ ~halted
  /\ job.from # NoProc
  /\ NextOfJob(q)
  /\ \/ /\ src.tbc
        /\ pte' = [pte EXCEPT ![q] = src]
        /\ job' = Finish(q)
        /\ UNCHANGED <<alive, segs, empty, ft, ot, free, mem, disk, halted>>
     \/ /\ ~src.tbc
        /\ \E r \in UsAcquirePage(keep) :
             /\ Install(r, q,
                        [src EXCEPT !.blk = r.frame, !.dirty = TRUE,
                                    !.valid = TRUE],
                        NoCluster,
                        IF src.valid THEN mem[src.blk] ELSE r.disk[src.blk])
             /\ job' = Finish(q)
             /\ UNCHANGED <<alive, segs, halted>>
     \/ ~src.tbc /\ DiskFull(keep) /\ Halt

------------------------------------------------------------------------------
Next ==
  \/ \E p \in Procs : CreateProcess(p) \/ DeleteProcess(p)
  \/ \E p \in Procs, seg \in Segment, acc \in Rights :
       CreateSegment(p, seg, acc) \/ LoadSegment(p, seg, acc)
  \/ \E p \in Procs, seg \in Segment : DeleteSegment(p, seg)
  \/ \E p, c \in Procs : CloneProcess(p, c)
  \/ \E q \in Page : PageFault(q) \/ EvictPage(q) \/ ClonePage(q)
  \/ \E q \in Page, d \in Data : Write(q, d) \/ LoadPage(q, d)

Spec == Init /\ [][Next]_vars

\* The thread inside load_segment or clone_process goes on with its loop.
JobStep == \E q \in Page : ClonePage(q) \/ \E d \in Data : LoadPage(q, d)

FairSpec == Spec /\ WF_vars(JobStep)

------------------------------------------------------------------------------
(* Properties.                                                             *)

TypeOK ==
  /\ alive \subseteq Procs
  /\ segs \in [Procs -> SUBSET Segment]
  /\ pte \in [Page -> Descriptor]
  /\ empty \subseteq UFrames
  /\ ft \in [UFrames -> FrameEntry]
  /\ ot \in [UFrames -> Clusters \cup {NoCluster}]
  /\ free \subseteq Clusters
  /\ mem \in [UFrames -> Data \cup {Junk}]
  /\ disk \in [Clusters -> Data \cup {Junk}]
  /\ job \in [todo : SUBSET Page, from : Procs \cup {NoProc}, acc : READ .. EXECUTE]
  /\ halted \in BOOLEAN

OnDisk(q) == pte[q].inseg /\ ~pte[q].valid /\ ~pte[q].tbc

\* Frames and descriptors point at each other: a page in memory has a frame of
\* its own whose table entry names its descriptor, and every frame that is not
\* empty belongs to such a page.  us_swap_out writes through that owner pointer.
FrameOwnership ==
  /\ \A q \in Page : pte[q].valid =>
       /\ pte[q].inseg /\ ~pte[q].tbc
       /\ pte[q].blk \in UFrames \ empty
       /\ ft[pte[q].blk].owner = q
  /\ \A f \in UFrames \ empty :
       /\ ft[f].owner \in Page
       /\ pte[ft[f].owner].valid
       /\ pte[ft[f].owner].blk = f

\* Clusters in use have exactly one holder, a page on disk or the frame that was
\* loaded from it, and none is leaked: whatever is not vacant has a holder.
ClusterOwnership ==
  /\ \A q \in Page : OnDisk(q) => pte[q].blk \in Clusters \ free
  /\ \A q, r \in Page : OnDisk(q) /\ OnDisk(r) /\ q # r => pte[q].blk # pte[r].blk
  /\ \A f \in UFrames : ot[f] # NoCluster => f \notin empty /\ ot[f] \notin free
  /\ \A f, g \in UFrames : ot[f] # NoCluster /\ f # g => ot[f] # ot[g]
  /\ \A q \in Page, f \in UFrames : OnDisk(q) => pte[q].blk # ot[f]
  /\ \A c \in Clusters \ free :
       \/ \E q \in Page : OnDisk(q) /\ pte[q].blk = c
       \/ \E f \in UFrames : ot[f] = c

\* Swapping out may skip the write only when the disk already has the page: a
\* frame with an origin cluster that is clean by the frame table (us_get_victim)
\* or by its descriptor (page_table_evict_children) equals that cluster.
CleanCopy ==
  \A q \in Page : pte[q].valid =>
    LET f == pte[q].blk
    IN  ot[f] # NoCluster /\ (~ft[f].dirty \/ ~pte[q].dirty) => disk[ot[f]] = mem[f]

\* A page is in a segment exactly when the segment table says so, apart from the
\* pages an unfinished load or clone still has to set up; segments of a process
\* are disjoint.  delete_segment HALTs on a page for which this fails.
SegmentsMapped ==
  /\ \A p \in Procs : \A s \in segs[p] :
       /\ p \in alive
       /\ s.first + s.size <= NPages
       /\ \A t \in segs[p] : s # t => PagesOf(p, s) \cap PagesOf(p, t) = {}
  /\ \A q \in Page :
       pte[q].inseg <=>
         q \notin job.todo /\ \E s \in segs[q[1]] : q \in PagesOf(q[1], s)

\* The system stops for want of disk only when mapped pages fill it.
HaltOnlyWhenFull ==
  halted =>
    \A c \in Clusters : \E q \in Page :
      /\ pte[q].inseg
      /\ \/ OnDisk(q) /\ pte[q].blk = c
         \/ pte[q].valid /\ ot[pte[q].blk] = c

\* The content of a page as its process sees it.
Content(q) ==
  CASE ~pte[q].inseg -> Absent
    [] pte[q].inseg /\ pte[q].valid -> mem[pte[q].blk]
    [] pte[q].inseg /\ ~pte[q].valid /\ pte[q].tbc -> Junk
    [] OTHER -> disk[pte[q].blk]

\* Demand paging implements flat memory: no fault, eviction, clone or deletion
\* changes what any other page holds.
Flat == INSTANCE FlatMemory WITH memory <- [q \in Page |-> Content(q)]

FlatSpec == Flat!Spec

\* A page without write permission keeps its content for as long as it is mapped,
\* through every eviction, reload and clone.
ReadOnlyStable ==
  [][\A q \in Page :
       pte[q].inseg /\ pte'[q].inseg /\ ~AccessIsOk(WRITE, pte[q].acc)
         => Content(q)' = Content(q)]_vars

Served(ignore) == UsAcquirePage(ignore) # {} \/ DiskFull(ignore)

\* While a load or a clone has pages left, one of them is the next, and us_acquire_page
\* has an empty frame for it or a victim, which is not the page being copied and has a
\* cluster to go to, or the disk is full: the loop never stands still.
JobGoesOn ==
  job.todo # {} /\ ~halted =>
    \E q \in job.todo :
      /\ NextOfJob(q)
      /\ LET src == pte[<<job.from, q[2]>>]
         IN  \/ job.from = NoProc /\ Served({})
             \/ job.from # NoProc /\ (src.tbc \/ Served(IF src.valid THEN {src.blk} ELSE {}))

\* A load or a clone ends, or the system has halted.
JobEnds == job.todo # {} ~> job.todo = {} \/ halted
=============================================================================
