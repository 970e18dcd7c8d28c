------------------------- MODULE SharedMemoryProofs -------------------------
(***************************************************************************)
(* Machine-checked proofs about SharedMemory, for any number of processes, *)
(* places, names, frames and clusters.  They join what is proved about the *)
(* two parts: SharedSegmentsProofs says how names and processes go         *)
(* together, UserSpaceProofs what paging does to the dummy processes.      *)
(***************************************************************************)
EXTENDS SharedMemory, SharedSegmentsProofs

\* The proofs about the user space, for dummy processes of one page.
Proofs == INSTANCE UserSpaceProofs WITH
  Procs <- Names, NPages <- 1, Rights <- {2}, alive <- dummies, halted <- full

\* The dummy processes are all there, none is being loaded or cloned, and the one of
\* a name has its segment exactly while the name is registered.
DummiesOK ==
  /\ dummies = Names
  /\ job = Proofs!Idle
  /\ \A n \in Names : segs[n] = IF cb[n] = Nil THEN {} ELSE {Whole}

MemoryInv == SharedInv /\ Proofs!Inv /\ DummiesOK

\* The cell of a name, as the content of the page of its dummy process.
Cell(n) == Paging!Content(PageOf(n))

\* What a step makes of the cells: those of the names S become x.
Turned(S, x) == \A n \in Names : Cell(n)' = IF n \in S THEN x ELSE Cell(n)

------------------------------------------------------------------------------
(* The user space of the dummy processes.                                  *)

\* What UserSpace assumes of its constants holds for the dummy processes.
LEMMA UserAssumptions ==
  /\ 1 \in 1 .. 1024
  /\ {2} \subseteq Proofs!READ .. Proofs!EXECUTE
  /\ NoProc \notin Names
  /\ NoPage \notin Proofs!Page
  /\ NoCluster \notin Clusters
  /\ Absent \notin Data \cup {Junk}
<1>1. Proofs!Page = Names \X {0}
  BY DEF Proofs!Page, Proofs!Index
<1> QED
  BY <1>1, MemoryAssumption DEF Proofs!READ, Proofs!EXECUTE

\* A dummy process has one page, which is the page of its segment.
LEMMA OnePage ==
  /\ Proofs!Page = Names \X {0}
  /\ Whole \in Proofs!Segment
  /\ \A n \in Names : PageOf(n) \in Proofs!Page /\ PageOf(n)[1] = n
  /\ \A n \in Names : Proofs!PagesOf(n, Whole) = {PageOf(n)}
  /\ \A q \in Proofs!Page : q[1] \in Names /\ q = PageOf(q[1])
<1>1. Proofs!Page = Names \X {0}
  BY DEF Proofs!Page, Proofs!Index
<1>2. Whole \in Proofs!Segment
  BY DEF Whole, Proofs!Segment, Proofs!Index
<1>3. ASSUME NEW n \in Names
      PROVE  PageOf(n) \in Proofs!Page /\ PageOf(n)[1] = n /\ PageOf(n)[2] = 0
  BY <1>1 DEF PageOf
<1>4. ASSUME NEW q \in Proofs!Page
      PROVE  q[1] \in Names /\ q[2] = 0 /\ q = PageOf(q[1])
  BY <1>1 DEF PageOf
<1>5. ASSUME NEW n \in Names
      PROVE  Proofs!PagesOf(n, Whole) = {PageOf(n)}
  BY <1>3, <1>4 DEF Proofs!PagesOf, Whole
<1> QED
  BY <1>1, <1>2, <1>3, <1>4, <1>5

LEMMA SameContent ==
  \A q : /\ Proofs!Content(q) = Paging!Content(q)
         /\ Proofs!Content(q)' = Paging!Content(q)'
BY DEF Proofs!Content, Paging!Content

\* A page is in a segment exactly while its name is registered.
LEMMA InSegment ==
  ASSUME MemoryInv, NEW n \in Names
  PROVE  pte[PageOf(n)].inseg <=> cb[n] # Nil
<1>1. /\ PageOf(n) \in Proofs!Page /\ PageOf(n)[1] = n
      /\ Proofs!PagesOf(n, Whole) = {PageOf(n)}
  BY OnePage
<1>2. job.todo = {} /\ segs[n] = IF cb[n] = Nil THEN {} ELSE {Whole}
  BY DEF MemoryInv, DummiesOK, Proofs!Idle
<1>3. pte[PageOf(n)].inseg <=>
        PageOf(n) \notin job.todo
          /\ \E s \in segs[PageOf(n)[1]] : PageOf(n) \in Proofs!PagesOf(PageOf(n)[1], s)
  BY <1>1 DEF MemoryInv, Proofs!Inv, Proofs!SegmentsMapped
<1> QED
  BY <1>1, <1>2, <1>3

\* So its cell is absent until then.
LEMMA CellAbsent ==
  ASSUME MemoryInv, NEW n \in Names
  PROVE  Cell(n) = Absent <=> cb[n] = Nil
<1>1. PageOf(n) \in Proofs!Page
  BY OnePage
<1>2. Proofs!Content(PageOf(n)) = Absent <=> ~pte[PageOf(n)].inseg
  BY <1>1, UserAssumptions, Proofs!PresentPages DEF MemoryInv, Proofs!Inv
<1> QED
  BY <1>2, InSegment, SameContent DEF Cell

\* What becomes of pages becomes of cells.
LEMMA PagesAndCells ==
  ASSUME NEW x
  PROVE  /\ Proofs!Becomes({}, x) => Turned({}, x)
         /\ \A n \in Names : Proofs!Becomes({PageOf(n)}, x) => Turned({n}, x)
<1>1. \A n, m \in Names : PageOf(n) \in Proofs!Page /\ (PageOf(n) = PageOf(m) <=> n = m)
  BY OnePage DEF PageOf
<1> QED
  BY <1>1, SameContent DEF Proofs!Becomes, Turned, Cell


\* The operations of UserSpace are those its proofs are about.
LEMMA SameOperations ==
  /\ \A n : Paging!CreateSegment(n, Whole, 2) => Proofs!CreateSegment(n, Whole, 2)
  /\ \A n : Paging!DeleteSegment(n, Whole) => Proofs!DeleteSegment(n, Whole)
  /\ \A q : Paging!PageFault(q) => Proofs!PageFault(q)
  /\ \A q : Paging!EvictPage(q) => Proofs!EvictPage(q)
  /\ \A q, d : Paging!Write(q, d) => Proofs!Write(q, d)
<1>1. Paging!Page = Proofs!Page /\ (Paging!Ready <=> Proofs!Ready)
  BY DEF Paging!Page, Proofs!Page, Paging!Index, Proofs!Index, Paging!Ready, Proofs!Ready
<1>2. \A p, s : Paging!PagesOf(p, s) = Proofs!PagesOf(p, s)
  BY <1>1 DEF Paging!PagesOf, Proofs!PagesOf
<1>3. \A n : Paging!CanPlace(n, Whole) => Proofs!CanPlace(n, Whole)
  <2>1. \A s, x, y : Paging!Clear(s, x, y) <=> Proofs!Clear(s, x, y)
    BY DEF Paging!Clear, Proofs!Clear, Paging!PAGE_SIZE, Proofs!PAGE_SIZE
  <2>2. \A S : Paging!Cardinality(S) = Proofs!Cardinality(S)
    BY DEF Paging!Cardinality, Proofs!Cardinality
  <2> QED
    BY <1>1, <2>1, <2>2 DEF Paging!CanPlace, Proofs!CanPlace
<1>4. \A n : Paging!CreateSegment(n, Whole, 2) => Proofs!CreateSegment(n, Whole, 2)
  BY <1>1, <1>2, <1>3 DEF Paging!CreateSegment, Proofs!CreateSegment
<1>5. \A S : /\ Paging!FramesOf(S) = Proofs!FramesOf(S)
             /\ Paging!SwapsOf(S) = Proofs!SwapsOf(S)
             /\ Paging!OriginsOf(S) = Proofs!OriginsOf(S)
  BY DEF Paging!FramesOf, Proofs!FramesOf, Paging!SwapsOf, Proofs!SwapsOf,
       Paging!OriginsOf, Proofs!OriginsOf
<1>6. Paging!NoDescriptor = Proofs!NoDescriptor /\ Paging!NoEntry = Proofs!NoEntry
  BY DEF Paging!NoDescriptor, Proofs!NoDescriptor, Paging!NoEntry, Proofs!NoEntry,
       Paging!READ, Proofs!READ
<1>7. \A S : Paging!Release(S) => Proofs!Release(S)
  BY <1>1, <1>5, <1>6 DEF Paging!Release, Proofs!Release
<1>8. \A n : Paging!DeleteSegment(n, Whole) => Proofs!DeleteSegment(n, Whole)
  BY <1>1, <1>2, <1>7 DEF Paging!DeleteSegment, Proofs!DeleteSegment
<1>9. /\ \A f : Paging!SwapTargets(f) = Proofs!SwapTargets(f)
      /\ \A f, c, d : Paging!UsSwapOut(f, c, d) = Proofs!UsSwapOut(f, c, d)
  BY DEF Paging!SwapTargets, Proofs!SwapTargets, Paging!UsSwapOut, Proofs!UsSwapOut,
       Paging!MustWrite, Proofs!MustWrite, Paging!SwappedOut, Proofs!SwappedOut
<1>10. Paging!UsAcquirePage({}) = Proofs!UsAcquirePage({})
  BY <1>9 DEF Paging!UsAcquirePage, Proofs!UsAcquirePage
<1>11. /\ Paging!DiskFull({}) <=> Proofs!DiskFull({})
       /\ Paging!Halt <=> Proofs!Halt
  BY DEF Paging!DiskFull, Proofs!DiskFull, Paging!Halt, Proofs!Halt
<1>12. \A r, q, d, c, x : Paging!Install(r, q, d, c, x) => Proofs!Install(r, q, d, c, x)
  BY DEF Paging!Install, Proofs!Install
<1>13. \A q : Paging!PageFault(q) => Proofs!PageFault(q)
  BY <1>1, <1>10, <1>11, <1>12 DEF Paging!PageFault, Proofs!PageFault, Paging!Faulted, Proofs!Faulted
<1>14. \A q : Paging!EvictPage(q) => Proofs!EvictPage(q)
  BY <1>6, <1>9, <1>11 DEF Paging!EvictPage, Proofs!EvictPage
<1>15. \A q, d : Paging!Write(q, d) => Proofs!Write(q, d)
  BY <1>1 DEF Paging!Write, Proofs!Write, Paging!AccessIsOk, Proofs!AccessIsOk,
       Paging!WRITE, Proofs!WRITE, Paging!MarkDirty, Proofs!MarkDirty
<1> QED
  BY <1>4, <1>8, <1>13, <1>14, <1>15

------------------------------------------------------------------------------
(* The operations.                                                         *)

\* The dummy process of a new name gets its segment, and its cell is Junk.
LEMMA CreateStep ==
  ASSUME Tidy, MemoryInv, NEW p \in Procs, NEW a \in Places, NEW n \in Names,
         Create(p, a, n)
  PROVE  MemoryInv' /\ Turned({n}, Junk)
<1>1. CreateShared(p, a, n) /\ Proofs!CreateSegment(n, Whole, 2)
  BY SameOperations DEF Create
<1>2. /\ SharedInv' /\ cb'[n] # Nil
      /\ \A m \in Names : cb[m] # Nil => cb'[m] # Nil
  BY <1>1, CreateSharedKeeps DEF MemoryInv
<1>3. \A m \in Names \ {n} : cb'[m] = cb[m]
  BY <1>1 DEF CreateShared, MemoryInv, SharedInv, BlocksOK
<1>4. Proofs!Inv' /\ Proofs!Becomes({PageOf(n)}, Junk)
  <2>1. Whole \in Proofs!Segment /\ 2 \in {2} /\ Proofs!PagesOf(n, Whole) = {PageOf(n)}
    BY OnePage
  <2>2. Proofs!Inv' /\ Proofs!Becomes(Proofs!PagesOf(n, Whole), Junk)
    BY <1>1, <2>1, UserAssumptions, Proofs!CreateSegmentStep DEF MemoryInv
  <2> QED
    BY <2>1, <2>2
<1>5. DummiesOK'
  <2>1. segs' = [segs EXCEPT ![n] = @ \cup {Whole}] /\ dummies' = dummies /\ job' = job
    BY <1>1 DEF Proofs!CreateSegment
  <2>2. segs \in [Names -> SUBSET Proofs!Segment] /\ cb[n] = Nil
    BY <1>1 DEF MemoryInv, Proofs!Inv, Proofs!TypeOK, CreateShared
  <2>3. \A m \in Names : segs'[m] = IF cb'[m] = Nil THEN {} ELSE {Whole}
    BY <1>2, <1>3, <2>1, <2>2 DEF MemoryInv, DummiesOK
  <2> QED
    BY <2>1, <2>3 DEF MemoryInv, DummiesOK, Proofs!Idle, Proofs!READ
<1> QED
  BY <1>2, <1>4, <1>5, PagesAndCells DEF MemoryInv

\* With a name its cell goes, and the frame and the cluster of its page are back.
LEMMA DeleteStep ==
  ASSUME Tidy, MemoryInv, NEW n \in Names, Delete(n)
  PROVE  MemoryInv' /\ Turned({n}, Absent)
<1>1. DeleteShared(n) /\ Proofs!DeleteSegment(n, Whole)
  BY SameOperations DEF Delete, DeleteDummy
<1>2. SharedInv' /\ \A m \in Names \ {n} : cb'[m] = cb[m]
  BY <1>1, DeleteSharedKeeps DEF MemoryInv
<1>3. cb[n] # Nil /\ cb'[n] = Nil
  BY <1>1 DEF DeleteShared, MemoryInv, SharedInv, BlocksOK
<1>4. Proofs!Inv' /\ Proofs!Becomes({PageOf(n)}, Absent)
  <2>1. Whole \in Proofs!Segment /\ Proofs!PagesOf(n, Whole) = {PageOf(n)}
    BY OnePage
  <2>2. Proofs!Inv' /\ Proofs!Becomes(Proofs!PagesOf(n, Whole), Absent)
    BY <1>1, <2>1, UserAssumptions, Proofs!DeleteSegmentStep DEF MemoryInv
  <2> QED
    BY <2>1, <2>2
<1>5. DummiesOK'
  <2>1. segs' = [segs EXCEPT ![n] = @ \ {Whole}] /\ dummies' = dummies /\ job' = job
    BY <1>1 DEF Proofs!DeleteSegment
  <2>2. segs \in [Names -> SUBSET Proofs!Segment]
    BY DEF MemoryInv, Proofs!Inv, Proofs!TypeOK
  <2>3. \A m \in Names : segs'[m] = IF cb'[m] = Nil THEN {} ELSE {Whole}
    BY <1>2, <1>3, <2>1, <2>2 DEF MemoryInv, DummiesOK
  <2> QED
    BY <2>1, <2>3 DEF MemoryInv, DummiesOK, Proofs!Idle, Proofs!READ
<1> QED
  BY <1>2, <1>4, <1>5, PagesAndCells DEF MemoryInv

\* Steps that leave names and segments of dummy processes alone.
LEMMA NamesKept ==
  ASSUME MemoryInv, SharedInv', Proofs!Inv', UNCHANGED <<dummies, segs, job>>,
         \A n \in Names : cb'[n] = Nil <=> cb[n] = Nil
  PROVE  MemoryInv'
<1>1. DummiesOK'
  BY DEF MemoryInv, DummiesOK, Proofs!Idle, Proofs!READ
<1> QED
  BY <1>1 DEF MemoryInv

\* Steps of paging do not touch names and processes.
LEMMA SharedUntouched ==
  ASSUME Tidy, MemoryInv, UNCHANGED vars
  PROVE  SharedInv' /\ \A n \in Names : cb'[n] = Nil <=> cb[n] = Nil
<1>1. SharedInv'
  BY StepShared DEF MemoryInv
<1> QED
  BY <1>1 DEF vars

\* A fault brings the page in as it was, or the disk is full.
LEMMA FaultStep ==
  ASSUME Tidy, MemoryInv, NEW n \in Names, Paging!PageFault(PageOf(n)), UNCHANGED vars
  PROVE  MemoryInv' /\ Turned({}, Junk)
<1>1. Proofs!PageFault(PageOf(n)) /\ PageOf(n) \in Proofs!Page
  BY SameOperations, OnePage
<1>2. Proofs!Inv' /\ Proofs!Becomes({}, Junk)
  BY <1>1, UserAssumptions, Proofs!PageFaultStep DEF MemoryInv
<1>3. UNCHANGED <<dummies, segs, job>>
  BY <1>1 DEF Proofs!PageFault, Proofs!Halt
<1> QED
  BY <1>2, <1>3, SharedUntouched, NamesKept, PagesAndCells

\* A page that leaves memory keeps its content.
LEMMA EvictStep ==
  ASSUME Tidy, MemoryInv, NEW n \in Names, Evict(n)
  PROVE  MemoryInv' /\ Turned({}, Junk)
<1>1. Proofs!EvictPage(PageOf(n)) /\ PageOf(n) \in Proofs!Page /\ UNCHANGED vars
  BY SameOperations, OnePage DEF Evict
<1>2. Proofs!Inv' /\ Proofs!Becomes({}, Junk)
  BY <1>1, UserAssumptions, Proofs!EvictPageStep DEF MemoryInv
<1>3. UNCHANGED <<dummies, segs, job>>
  BY <1>1 DEF Proofs!EvictPage, Proofs!Halt
<1> QED
  BY <1>1, <1>2, <1>3, SharedUntouched, NamesKept, PagesAndCells

\* A store changes the cell of its segment only.
LEMMA StoreStep ==
  ASSUME Tidy, MemoryInv, NEW n \in Names, NEW d \in Data,
         Paging!Write(PageOf(n), d), UNCHANGED vars
  PROVE  MemoryInv' /\ Turned({n}, d)
<1>1. Proofs!Write(PageOf(n), d) /\ PageOf(n) \in Proofs!Page
  BY SameOperations, OnePage
<1>2. Proofs!Inv' /\ Proofs!Becomes({PageOf(n)}, d)
  BY <1>1, UserAssumptions, Proofs!WriteStep DEF MemoryInv
<1>3. UNCHANGED <<dummies, segs, job>>
  BY <1>1 DEF Proofs!Write
<1> QED
  BY <1>2, <1>3, SharedUntouched, NamesKept, PagesAndCells

\* Processes come and go, connect and disconnect, and the cells stay.
LEMMA ElsewhereStep ==
  ASSUME Tidy, MemoryInv, Elsewhere
  PROVE  MemoryInv' /\ Turned({}, Junk)
<1>1. SharedInv'
  BY StepShared DEF MemoryInv, Elsewhere, Next
<1>2. SameIndices \/ cb' = cb
  BY CloneKeeps, ConnectKeeps, DisconnectKeeps, DeleteSegmentKeeps
     DEF MemoryInv, Elsewhere, CreateProcess, DeleteProcess
<1>3. \A n \in Names : cb'[n] = Nil <=> cb[n] = Nil
  BY <1>2 DEF SameIndices
<1>4. UNCHANGED userVars
  BY DEF Elsewhere
<1>5. Proofs!Inv'
  BY <1>4, UserAssumptions, Proofs!StepInv DEF MemoryInv, userVars, Proofs!vars
<1>6. Turned({}, Junk)
  BY <1>4 DEF userVars, Turned, Cell, Paging!Content
<1> QED
  BY <1>1, <1>3, <1>4, <1>5, <1>6, NamesKept DEF userVars


------------------------------------------------------------------------------
(* Theorems.                                                               *)

\* Memory for the segments or not, the calls are those of SharedSegments.
LEMMA OnlyCalls == MemoryNext => [Next]_vars
BY DEF MemoryNext, Create, Delete, Evict, Fault, Store, Elsewhere, Next

\* In the beginning no name is registered and no page mapped.
LEMMA MemoryBegins == MemoryInit => MemoryInv
<1> SUFFICES ASSUME MemoryInit PROVE MemoryInv
  OBVIOUS
<1>1. SharedInv /\ \A n \in Names : cb[n] = Nil
  BY InitShared DEF MemoryInit, Init
<1>2. /\ dummies = Names /\ segs = [n \in Names |-> {}] /\ job = Proofs!Idle
      /\ pte = [q \in Proofs!Page |-> Proofs!NoDescriptor]
      /\ empty = UFrames /\ ft = [f \in UFrames |-> Proofs!NoEntry]
      /\ ot = [f \in UFrames |-> NoCluster] /\ free = Clusters
      /\ mem = [f \in UFrames |-> Junk] /\ disk = [c \in Clusters |-> Junk]
      /\ full = FALSE
  BY OnePage DEF MemoryInit, Paging!Idle, Proofs!Idle, Paging!NoDescriptor,
       Proofs!NoDescriptor, Paging!NoEntry, Proofs!NoEntry, Paging!READ, Proofs!READ
<1>3. Proofs!NoDescriptor \in Proofs!Descriptor
      /\ ~Proofs!NoDescriptor.inseg /\ ~Proofs!NoDescriptor.valid
  BY DEF Proofs!NoDescriptor, Proofs!Descriptor, Proofs!READ, Proofs!EXECUTE
<1>4. Proofs!NoEntry \in Proofs!FrameEntry /\ ~Proofs!NoEntry.dirty
  BY DEF Proofs!NoEntry, Proofs!FrameEntry
<1>5. Proofs!Idle \in [todo : SUBSET Proofs!Page, from : Names \cup {NoProc},
                       acc : Proofs!READ .. Proofs!EXECUTE]
      /\ Proofs!Idle.todo = {}
  BY DEF Proofs!Idle, Proofs!READ, Proofs!EXECUTE
<1>6. Proofs!TypeOK
  BY <1>2, <1>3, <1>4, <1>5 DEF Proofs!TypeOK
<1>7. Proofs!FrameOwnership
  BY <1>2, <1>3 DEF Proofs!FrameOwnership
<1>8. Proofs!ClusterOwnership
  BY <1>2, <1>3 DEF Proofs!ClusterOwnership, Proofs!OnDisk
<1>9. Proofs!CleanCopy
  BY <1>2, <1>3 DEF Proofs!CleanCopy
<1>10. Proofs!SegmentsMapped
  BY <1>2, <1>3, OnePage DEF Proofs!SegmentsMapped
<1>11. Proofs!JobSources
  BY <1>2, <1>5 DEF Proofs!JobSources
<1> QED
  BY <1>1, <1>2, <1>6, <1>7, <1>8, <1>9, <1>10, <1>11 DEF MemoryInv, Proofs!Inv, DummiesOK

\* A process that reaches a shared page at some place is attached to its name there.
LEMMA Reached ==
  ASSUME MemoryInv, NEW p \in Procs, NEW a \in Places, Reaches(p, a)
  PROVE  /\ Behind(p, a) \in Names
         /\ <<p, a, Behind(p, a)>> \in Attached
         /\ cb[Behind(p, a)] # Nil
<1>1. p \in alive /\ pages[p][a] # Nil
  BY DEF Reaches
<1>2. PICK n \in Names : cb[n] # Nil /\ cb[n].index = pages[p][a]
  BY <1>1 DEF MemoryInv, SharedInv, IndicesOK
<1>3. NameAt(cb[n].index) = n
  BY <1>2, Registered DEF MemoryInv
<1>4. Sees(p, a, n)
  BY <1>1, <1>2 DEF Sees
<1> QED
  BY <1>2, <1>3, <1>4, AttachedIs DEF MemoryInv, Behind


\* What each operation makes of the cells, with what it is in the registry.
LEMMA StepMemory ==
  ASSUME Tidy, MemoryInv, [MemoryNext]_<<vars, userVars>>
  PROVE  MemoryInv' /\ [Cells!Next]_<<Attached, [n \in Names |-> Cell(n)]>>
<1> DEFINE cell == [n \in Names |-> Cell(n)]
<1>0. SharedInv /\ SharedInv'
  BY StepShared, OnlyCalls DEF MemoryInv, Next, userVars
<1>1. \A n \in Names : cell[n] = Absent <=> cb[n] = Nil
  BY CellAbsent
<1>2. ASSUME NEW x, Turned({}, x) PROVE cell' = cell
  BY <1>2 DEF Turned
<1>3. ASSUME NEW x, NEW n \in Names, Turned({n}, x)
      PROVE  cell' = [cell EXCEPT ![n] = x]
  <2>1. \A m \in Names : Cell(m)' = IF m = n THEN x ELSE Cell(m)
    BY <1>3 DEF Turned
  <2> QED
    BY <2>1
<1> HIDE DEF cell
<1>4. ASSUME NEW p \in Procs, NEW a \in Places, NEW n \in Names, Create(p, a, n)
      PROVE  MemoryInv' /\ Cells!Next
  <2>1. MemoryInv' /\ cell' = [cell EXCEPT ![n] = Junk]
    BY <1>3, <1>4, CreateStep
  <2>2. Registry!Attach(p, a, n) /\ cb[n] = Nil
    BY <1>0, <1>4, CreateAttaches DEF Create, CreateShared
  <2>3. Cells!Create(p, a, n)
    BY <1>1, <2>1, <2>2 DEF Cells!Create, Cells!Registry!Attach, Registry!Attach, cell, Cell
  <2> QED
    BY <2>1, <2>3 DEF Cells!Next
<1>5. ASSUME NEW n \in Names, Delete(n)
      PROVE  MemoryInv' /\ Cells!Next
  <2>1. MemoryInv' /\ cell' = [cell EXCEPT ![n] = Absent]
    BY <1>3, <1>5, DeleteStep
  <2>2. Registry!Drop(n) /\ cb[n] # Nil
    BY <1>0, <1>5, DeleteDrops DEF Delete, DeleteShared
  <2>3. Cells!Drop(n)
    BY <1>1, <2>1, <2>2 DEF Cells!Drop, Cells!Registry!Drop, Registry!Drop, cell, Cell
  <2> QED
    BY <2>1, <2>3 DEF Cells!Next
<1>6. ASSUME UNCHANGED vars PROVE Attached' = Attached
  BY <1>6 DEF vars, Attached, NameAt, Vec!CanAt, Vec!IsEmpty, Vec!Filled
<1>7. ASSUME NEW p \in Procs, NEW a \in Places, Fault(p, a)
      PROVE  MemoryInv' /\ Attached' = Attached /\ cell' = cell
  <2>1. PICK n \in Names : Paging!PageFault(PageOf(n))
    BY <1>7, Reached DEF Fault
  <2>2. MemoryInv' /\ Turned({}, Junk)
    BY <1>7, <2>1, FaultStep DEF Fault
  <2> QED
    BY <1>2, <1>6, <1>7, <2>2 DEF Fault
<1>8. ASSUME NEW n \in Names, Evict(n)
      PROVE  MemoryInv' /\ Attached' = Attached /\ cell' = cell
  BY <1>2, <1>6, <1>8, EvictStep DEF Evict
<1>9. ASSUME NEW p \in Procs, NEW a \in Places, NEW d \in Data, Store(p, a, d)
      PROVE  MemoryInv' /\ Cells!Next
  <2>1. PICK n \in Names : n = Behind(p, a) /\ <<p, a, n>> \in Attached
    BY <1>9, Reached DEF Store
  <2>2. MemoryInv' /\ Turned({n}, d)
    BY <1>9, <2>1, StoreStep DEF Store
  <2>3. PICK t : t = <<p, a, n>>
    OBVIOUS
  <2>4. t \in Cells!Registry!Attachment /\ t[3] = n /\ t \in Attached
    BY <2>1, <2>3 DEF Cells!Registry!Attachment
  <2>5. Cells!Store(t, d)
    BY <1>3, <1>6, <1>9, <2>2, <2>4 DEF Cells!Store, Store, cell, Cell
  <2> QED
    BY <2>2, <2>4, <2>5 DEF Cells!Next
<1>10. ASSUME Elsewhere
       PROVE  MemoryInv' /\ (Cells!Next \/ UNCHANGED <<Attached, cell>>)
  <2>1. MemoryInv' /\ cell' = cell
    BY <1>2, <1>10, ElsewhereStep
  <2>2. ASSUME NEW p \in Procs, CreateProcess(p) \/ DeleteProcess(p)
        PROVE  Attached' = Attached
    BY <1>0, <2>2, BeginsEmpty, EndsEmpty
  <2>3. ASSUME NEW p \in Procs, NEW q \in Procs, CloneProcess(p, q)
        PROVE  Cells!Next
    <3>1. Registry!Copy(p, q)
      BY <1>0, <2>3, CloneCopies
    <3>2. Cells!Part
      BY <2>1, <3>1 DEF Cells!Part, Cells!Registry!Copy, Registry!Copy, cell, Cell
    <3> QED
      BY <3>2 DEF Cells!Next
  <2>4. ASSUME NEW p \in Procs, NEW a \in Places, NEW n \in Names, ConnectShared(p, a, n)
        PROVE  Cells!Next
    <3>1. Registry!Attach(p, a, n) /\ cell[n] # Absent
      BY <1>0, <1>1, <2>4, ConnectAttaches DEF ConnectShared
    <3>2. Cells!Connect(p, a, n)
      BY <2>1, <3>1 DEF Cells!Connect, Cells!Registry!Attach, Registry!Attach, cell, Cell
    <3> QED
      BY <3>2 DEF Cells!Next
  <2>5. ASSUME \E t \in Registry!Attachment : Registry!Detach(t)
        PROVE  Cells!Next
    <3>1. Cells!Part
      BY <2>1, <2>5 DEF Cells!Part, Cells!Registry!Detach, Registry!Detach,
           Cells!Registry!Attachment, Registry!Attachment, cell, Cell
    <3> QED
      BY <3>1 DEF Cells!Next
  <2>6. ASSUME NEW p \in Procs, NEW n \in Names, DisconnectShared(p, n)
        PROVE  Cells!Next
    BY <1>0, <2>5, <2>6, DisconnectDetaches
  <2>7. ASSUME NEW p \in Procs, NEW a \in Places, DeleteSegment(p, a)
        PROVE  Cells!Next
    BY <1>0, <2>5, <2>7, DeleteDetaches
  <2> QED
    BY <1>10, <2>1, <2>2, <2>3, <2>4, <2>6, <2>7 DEF Elsewhere
<1>11. ASSUME UNCHANGED <<vars, userVars>>
       PROVE  MemoryInv' /\ Attached' = Attached /\ cell' = cell
  <2>1. SharedInv' /\ \A n \in Names : cb'[n] = Nil <=> cb[n] = Nil
    BY <1>11, SharedUntouched
  <2>2. Proofs!Inv'
    BY <1>11, UserAssumptions, Proofs!StepInv DEF MemoryInv, userVars, Proofs!vars
  <2>3. MemoryInv'
    BY <1>11, <2>1, <2>2, NamesKept DEF userVars
  <2>4. cell' = cell
    BY <1>11 DEF userVars, cell, Cell, Paging!Content
  <2> QED
    BY <1>6, <1>11, <2>3, <2>4
<1> QED
  BY <1>4, <1>5, <1>7, <1>8, <1>9, <1>10, <1>11 DEF MemoryNext, cell

LEMMA MemoryAlways ==
  ASSUME Tidy
  PROVE  MemorySpec => []MemoryInv
<1>1. MemoryInv /\ [MemoryNext]_<<vars, userVars>> => MemoryInv'
  BY StepMemory
<1> QED
  BY <1>1, MemoryBegins, PTL DEF MemorySpec

\* With its memory a shared segment behaves as it does without: what is proved of
\* SharedSegments holds here too.
THEOREM MemoryImplementsShared == MemorySpec => Spec
<1>1. MemoryInit => Init
  BY DEF MemoryInit
<1>2. [MemoryNext]_<<vars, userVars>> => [Next]_vars
  BY OnlyCalls
<1> QED
  BY <1>1, <1>2, PTL DEF MemorySpec, Spec

\* Dummy processes have a page exactly while their name is registered, in frames and
\* clusters that are theirs alone, for any numbers of names, frames and clusters:
\* delete_shared_segment leaves neither a page nor a cluster behind.
THEOREM DummiesStay ==
  ASSUME Tidy
  PROVE  MemorySpec => []DummiesKept
<1>1. MemoryInv => DummiesKept
  <2>1. MemoryInv => \A n \in Names : pte[PageOf(n)].inseg <=> cb[n] # Nil
    BY InSegment
  <2>2. Paging!Page = Proofs!Page /\ \A q : Paging!OnDisk(q) <=> Proofs!OnDisk(q)
    BY DEF Paging!Page, Proofs!Page, Paging!Index, Proofs!Index,
         Paging!OnDisk, Proofs!OnDisk
  <2>3. Proofs!FrameOwnership => Paging!FrameOwnership
    BY <2>2 DEF Proofs!FrameOwnership, Paging!FrameOwnership
  <2>4. Proofs!ClusterOwnership => Paging!ClusterOwnership
    BY <2>2 DEF Proofs!ClusterOwnership, Paging!ClusterOwnership
  <2> QED
    BY <2>1, <2>3, <2>4 DEF DummiesKept, MemoryInv, Proofs!Inv
<1> QED
  BY <1>1, MemoryAlways, PTL

\* Shared memory is memory, for any numbers of processes, places, names, frames and
\* clusters: what one process stores to a shared segment all that are attached to it
\* see, through every fault and eviction, and a new segment of an old index or name
\* shows nothing of the one before.
THEOREM ImplementsCells ==
  ASSUME Tidy
  PROVE  MemorySpec => CellsSpec
<1>1. MemoryInit => Cells!Init
  <2>1. MemoryInit => Attached = {}
    BY DEF MemoryInit, Init, Attached
  <2>2. MemoryInit => \A n \in Names : Cell(n) = Absent
    BY MemoryBegins, CellAbsent DEF MemoryInit, Init
  <2> QED
    BY <2>1, <2>2 DEF Cells!Init, Cells!Registry!Init, Cell
<1>2. MemoryInv /\ [MemoryNext]_<<vars, userVars>>
        => [Cells!Next]_<<Attached, [n \in Names |-> Paging!Content(PageOf(n))]>>
  BY StepMemory DEF Cell
<1> QED
  BY <1>1, <1>2, MemoryAlways, PTL DEF MemorySpec, CellsSpec, Cells!Spec
=============================================================================
