-------------------------- MODULE UserSpaceProofs --------------------------
(***************************************************************************)
(* Machine-checked proofs about UserSpace, for any number of processes,    *)
(* pages, frames, clusters and contents.                                   *)
(***************************************************************************)
EXTENDS UserSpace, NumberFacts

(* Every page an unfinished load or clone has left lies in a segment of its *)
(* process, and the page a clone copies it from is mapped.                  *)
JobSources ==
  \A q \in job.todo :
    /\ \E s \in segs[q[1]] : q \in PagesOf(q[1], s)
    /\ job.from # NoProc => pte[<<job.from, q[2]>>].inseg

Inv ==
  /\ TypeOK
  /\ FrameOwnership
  /\ ClusterOwnership
  /\ CleanCopy
  /\ SegmentsMapped
  /\ JobSources

------------------------------------------------------------------------------
(* What us_acquire_page leaves behind, before the caller installs a page.   *)

RTypeOK(r) ==
  /\ r.frame \in UFrames
  /\ r.pte \in [Page -> Descriptor]
  /\ r.disk \in [Clusters -> Data \cup {Junk}]
  /\ r.free \subseteq Clusters

ROnDisk(r, q) == r.pte[q].inseg /\ ~r.pte[q].valid /\ ~r.pte[q].tbc

RPages(r) ==
  /\ \A q \in Page : ~pte[q].valid => r.pte[q] = pte[q]
  /\ \A q \in Page : r.pte[q].valid =>
       r.pte[q] = pte[q] /\ pte[q].blk # r.frame
  /\ \A q \in Page : r.pte[q].inseg = pte[q].inseg /\ r.pte[q].tbc = pte[q].tbc
  /\ \A q \in Page : pte[q].valid /\ pte[q].blk # r.frame => r.pte[q] = pte[q]

RClusters(r) ==
  /\ r.free \subseteq free
  /\ \A q \in Page : ROnDisk(r, q) => r.pte[q].blk \in Clusters \ r.free
  /\ \A q, p \in Page : ROnDisk(r, q) /\ ROnDisk(r, p) /\ q # p
                           => r.pte[q].blk # r.pte[p].blk
  /\ \A q \in Page, f \in UFrames \ {r.frame} :
       ROnDisk(r, q) => r.pte[q].blk # ot[f]
  /\ \A f \in UFrames \ {r.frame} : ot[f] # NoCluster => ot[f] \notin r.free
  /\ \A c \in Clusters \ r.free :
       \/ \E q \in Page : ROnDisk(r, q) /\ r.pte[q].blk = c
       \/ \E f \in UFrames \ {r.frame} : ot[f] = c

RContent(r, q) ==
  IF r.pte[q].valid THEN mem[r.pte[q].blk] ELSE r.disk[r.pte[q].blk]

RDisk(r) ==
  /\ \A f \in UFrames \ {r.frame} :
       ot[f] # NoCluster => r.disk[ot[f]] = disk[ot[f]]
  /\ \A q \in Page : OnDisk(q) => r.disk[pte[q].blk] = disk[pte[q].blk]
  /\ \A q \in Page : pte[q].valid => RContent(r, q) = mem[pte[q].blk]

Balanced(r) == RTypeOK(r) /\ RPages(r) /\ RClusters(r) /\ RDisk(r)

Acquired(r) ==
  /\ Balanced(r)
  /\ empty \ {r.frame} = {} \/ r.frame \in empty
  /\ empty # {} => r.frame \in empty

\* us_acquire_page that pops a frame off the list of empty pages: nothing else
\* changes, so the accounts stay balanced.
LEMMA AcquireEmpty ==
  ASSUME TypeOK, FrameOwnership, ClusterOwnership,
         NEW f \in empty
  PROVE  Acquired([frame |-> f, pte |-> pte, disk |-> disk, free |-> free])
<1> DEFINE r == [frame |-> f, pte |-> pte, disk |-> disk, free |-> free]
<1>0. r.frame = f /\ r.pte = pte /\ r.disk = disk /\ r.free = free
  OBVIOUS
<1> HIDE DEF r
<1>1. RTypeOK(r)
  BY <1>0 DEF RTypeOK, TypeOK
<1>2. RPages(r)
  BY <1>0 DEF RPages, FrameOwnership
<1>3. RClusters(r)
  <2>1. ot[f] = NoCluster
    BY DEF ClusterOwnership, TypeOK
  <2>2. \A q \in Page : ROnDisk(r, q) = OnDisk(q)
    BY <1>0 DEF ROnDisk, OnDisk
  <2>3. NoCluster \notin Clusters
    BY MarkersAssumption
  <2> QED
    BY <1>0, <2>1, <2>2, <2>3 DEF RClusters, ClusterOwnership
<1>4. RDisk(r)
  BY <1>0 DEF RDisk, RContent
<1> QED
  BY <1>0, <1>1, <1>2, <1>3, <1>4 DEF Acquired, Balanced, r

\* us_swap_out of a page in memory that may be clean only if the disk has it: its
\* descriptor gets the cluster, its content is on the disk there, and the accounts
\* stay balanced.
LEMMA SwapOutVictim ==
  ASSUME TypeOK, FrameOwnership, ClusterOwnership, CleanCopy,
         NEW f \in UFrames \ empty,
         NEW c \in SwapTargets(f),
         NEW dirty \in BOOLEAN,
         dirty \/ ~ft[f].dirty \/ ~pte[ft[f].owner].dirty
  PROVE  Balanced(UsSwapOut(f, c, dirty))
<1> DEFINE r == UsSwapOut(f, c, dirty)
           o == ft[f].owner
<1>0. /\ o \in Page
      /\ pte[o].valid /\ pte[o].inseg /\ ~pte[o].tbc
      /\ pte[o].blk = f
  BY DEF FrameOwnership
<1>1. c \in Clusters /\ NoCluster \notin Clusters
  BY MarkersAssumption DEF SwapTargets, TypeOK
<1>2. /\ pte[o] \in Descriptor
      /\ \A q \in Page : pte[q] \in Descriptor
  BY <1>0 DEF TypeOK
<1> DEFINE d == [pte[o] EXCEPT !.blk = c, !.valid = FALSE, !.dirty = FALSE]
<1>3. /\ d \in Descriptor
      /\ d.inseg /\ ~d.valid /\ ~d.tbc /\ d.blk = c
  BY <1>0, <1>1, <1>2 DEF Descriptor
<1>4. /\ r.frame = f
      /\ r.pte = [pte EXCEPT ![o] = d]
      /\ r.disk = IF dirty \/ ot[f] = NoCluster
                  THEN [disk EXCEPT ![c] = mem[f]] ELSE disk
      /\ r.free = free \ {c}
  BY DEF UsSwapOut, MustWrite, SwappedOut
<1> HIDE DEF r, o, d
<1>5. \A q \in Page : r.pte[q] = IF q = o THEN d ELSE pte[q]
  BY <1>0, <1>4 DEF TypeOK
<1>6. \A q \in Page : pte[q].valid /\ pte[q].blk = f => q = o
  BY DEF FrameOwnership, o
<1>7. r.disk \in [Clusters -> Data \cup {Junk}] /\ r.disk[c] = mem[f]
  <2>1. mem[f] \in Data \cup {Junk}
    BY DEF TypeOK
  <2>2. CASE dirty \/ ot[f] = NoCluster
    BY <1>1, <1>4, <2>1, <2>2 DEF TypeOK
  <2>3. CASE ~(dirty \/ ot[f] = NoCluster)
    <3>1. c = ot[f]
      BY <2>3 DEF SwapTargets
    <3>2. disk[ot[f]] = mem[f]
      BY <1>0, <2>3 DEF CleanCopy, o
    <3> QED
      BY <1>4, <2>3, <3>1, <3>2 DEF TypeOK
  <2> QED
    BY <2>2, <2>3
<1>8. \A e \in Clusters : e # c => r.disk[e] = disk[e]
  BY <1>1, <1>4 DEF TypeOK
<1>9. \A q \in Page : ROnDisk(r, q) <=> (q = o \/ OnDisk(q))
  BY <1>0, <1>3, <1>5 DEF ROnDisk, OnDisk
<1>10. \A q \in Page : OnDisk(q) => q # o /\ pte[q].blk # c
  BY <1>0 DEF OnDisk, SwapTargets, ClusterOwnership
<1>11. \A g \in UFrames : g # f /\ ot[g] # NoCluster => ot[g] # c /\ ot[g] \in Clusters
  BY DEF SwapTargets, ClusterOwnership, TypeOK
<1>12. RTypeOK(r)
  BY <1>0, <1>3, <1>4, <1>7 DEF RTypeOK, TypeOK
<1>13. RPages(r)
  <2>1. \A q \in Page : ~pte[q].valid => r.pte[q] = pte[q]
    BY <1>0, <1>5
  <2>2. \A q \in Page : r.pte[q].valid =>
          r.pte[q] = pte[q] /\ pte[q].blk # r.frame
    BY <1>3, <1>4, <1>5, <1>6
  <2>3. d.inseg = pte[o].inseg /\ d.tbc = pte[o].tbc
    BY <1>0, <1>2, <1>3 DEF Descriptor
  <2>4. \A q \in Page : r.pte[q].inseg = pte[q].inseg /\ r.pte[q].tbc = pte[q].tbc
    BY <1>5, <2>3
  <2>5. \A q \in Page : pte[q].valid /\ pte[q].blk # r.frame => r.pte[q] = pte[q]
    BY <1>0, <1>4, <1>5
  <2> QED
    BY <2>1, <2>2, <2>4, <2>5 DEF RPages
<1>14. RClusters(r)
  <2>1. \A q \in Page : OnDisk(q) => r.pte[q].blk = pte[q].blk
    BY <1>5, <1>10
  <2>2. r.pte[o].blk = c
    BY <1>0, <1>3, <1>5
  <2>3. \A q \in Page : ROnDisk(r, q) => r.pte[q].blk \in Clusters \ r.free
    BY <1>1, <1>4, <1>9, <2>1, <2>2 DEF ClusterOwnership
  <2>4. \A q, p \in Page : ROnDisk(r, q) /\ ROnDisk(r, p) /\ q # p
                           => r.pte[q].blk # r.pte[p].blk
    BY <1>9, <1>10, <2>1, <2>2 DEF ClusterOwnership
  <2>5. \A q \in Page, g \in UFrames \ {r.frame} :
          ROnDisk(r, q) => r.pte[q].blk # ot[g]
    BY <1>1, <1>4, <1>9, <1>11, <2>1, <2>2 DEF ClusterOwnership
  <2>6. ASSUME NEW e \in Clusters \ r.free
        PROVE  \/ \E q \in Page : ROnDisk(r, q) /\ r.pte[q].blk = e
               \/ \E g \in UFrames \ {r.frame} : ot[g] = e
    <3>1. CASE e = c
      BY <1>0, <1>9, <2>2, <3>1
    <3>2. CASE e # c
      <4>1. \/ \E q \in Page : OnDisk(q) /\ pte[q].blk = e
            \/ \E g \in UFrames : ot[g] = e
        BY <1>4, <3>2 DEF ClusterOwnership
      <4>2. ot[f] # e
        BY <1>1, <3>2 DEF SwapTargets
      <4> QED
        BY <1>4, <1>9, <2>1, <4>1, <4>2
    <3> QED
      BY <3>1, <3>2
  <2>7. \A g \in UFrames \ {r.frame} : ot[g] # NoCluster => ot[g] \notin r.free
    BY <1>4 DEF ClusterOwnership
  <2> QED
    BY <1>4, <2>3, <2>4, <2>5, <2>6, <2>7 DEF RClusters
<1>15. RDisk(r)
  <2>1. \A q \in Page : OnDisk(q) => r.disk[pte[q].blk] = disk[pte[q].blk]
    BY <1>8, <1>10 DEF ClusterOwnership
  <2>2. \A q \in Page : pte[q].valid => RContent(r, q) = mem[pte[q].blk]
    BY <1>0, <1>3, <1>5, <1>7 DEF RContent
  <2> QED
    BY <1>4, <1>8, <1>11, <2>1, <2>2 DEF RDisk
<1> QED
  BY <1>12, <1>13, <1>14, <1>15 DEF Balanced, r

\* us_acquire_page that evicts a victim.
LEMMA AcquireVictim ==
  ASSUME TypeOK, FrameOwnership, ClusterOwnership, CleanCopy,
         empty = {},
         NEW f \in UFrames,
         NEW c \in SwapTargets(f)
  PROVE  Acquired(UsSwapOut(f, c, ft[f].dirty))
<1>1. ft[f].dirty \in BOOLEAN
  BY DEF TypeOK, FrameEntry
<1>2. Balanced(UsSwapOut(f, c, ft[f].dirty))
  BY <1>1, SwapOutVictim
<1> QED
  BY <1>2 DEF Acquired

\* us_acquire_page hands out a frame no page in memory uses, keeps the cluster
\* accounts balanced and changes the content of no page.
LEMMA AcquirePage ==
  ASSUME TypeOK, FrameOwnership, ClusterOwnership, CleanCopy,
         NEW ignore, NEW r \in UsAcquirePage(ignore)
  PROVE  Acquired(r)
<1>1. CASE empty # {}
  BY <1>1, AcquireEmpty DEF UsAcquirePage
<1>2. CASE empty = {}
  <2>1. PICK f \in UFrames : \E c \in SwapTargets(f) : r = UsSwapOut(f, c, ft[f].dirty)
    BY <1>2 DEF UsAcquirePage
  <2>2. PICK c \in SwapTargets(f) : r = UsSwapOut(f, c, ft[f].dirty)
    BY <2>1
  <2> QED
    BY <1>2, <2>2, AcquireVictim
<1> QED
  BY <1>1, <1>2

------------------------------------------------------------------------------
(* Page q, not in memory, takes the frame r.frame with descriptor d.  Its    *)
(* content x comes from its own cluster c, or it has no cluster to free.     *)

Installs(r, q, d, c, x) ==
  /\ ~pte[q].valid
  /\ d \in Descriptor
  /\ d.inseg /\ d.valid /\ ~d.tbc /\ d.blk = r.frame
  /\ x \in Data \cup {Junk}
  /\ c = IF OnDisk(q) THEN pte[q].blk ELSE NoCluster
  /\ OnDisk(q) => x = r.disk[c]
  /\ Install(r, q, d, c, x)

\* Frames and clusters are owned as before, and the contents are too but for
\* page q, which is mapped and contains x.
MemoryKept(q, x) ==
  /\ pte' \in [Page -> Descriptor]
  /\ empty' \subseteq UFrames
  /\ ft' \in [UFrames -> FrameEntry]
  /\ ot' \in [UFrames -> Clusters \cup {NoCluster}]
  /\ free' \subseteq Clusters
  /\ mem' \in [UFrames -> Data \cup {Junk}]
  /\ disk' \in [Clusters -> Data \cup {Junk}]
  /\ FrameOwnership' /\ ClusterOwnership' /\ CleanCopy'
  /\ \A p \in Page : p # q => pte'[p].inseg = pte[p].inseg
  /\ pte'[q].inseg
  /\ \A p \in Page : p # q => Content(p)' = Content(p)
  /\ Content(q)' = x

\* Installing a page in an acquired frame keeps frames and clusters owned, and
\* gives that page its content without touching the content of any other.
LEMMA InstallPage ==
  ASSUME TypeOK, FrameOwnership, ClusterOwnership, CleanCopy,
         NEW r, Acquired(r),
         NEW q \in Page, NEW d, NEW c, NEW x,
         Installs(r, q, d, c, x)
  PROVE  MemoryKept(q, x)
<1>0. /\ r.frame \in UFrames
      /\ r.pte \in [Page -> Descriptor]
      /\ d \in Descriptor
      /\ d.inseg /\ d.valid /\ ~d.tbc /\ d.blk = r.frame
      /\ ~pte[q].valid
      /\ x \in Data \cup {Junk}
  BY DEF Acquired, Balanced, RTypeOK, Installs
<1>1. c \in Clusters \cup {NoCluster}
  BY DEF Installs, ClusterOwnership
<1>2. /\ pte' \in [Page -> Descriptor]
      /\ \A p \in Page : pte'[p] = IF p = q THEN d ELSE r.pte[p]
  BY <1>0 DEF Installs, Install
<1>3. /\ empty' = empty \ {r.frame}
      /\ free' = r.free
      /\ disk' = r.disk
  BY DEF Installs, Install
<1>4. /\ ft' \in [UFrames -> FrameEntry]
      /\ \A f \in UFrames : ft'[f] = IF f = r.frame
                                     THEN [owner |-> q, dirty |-> FALSE]
                                     ELSE ft[f]
  BY <1>0 DEF Installs, Install, TypeOK, FrameEntry
<1>5. /\ ot' \in [UFrames -> Clusters \cup {NoCluster}]
      /\ \A f \in UFrames : ot'[f] = IF f = r.frame THEN c ELSE ot[f]
  BY <1>0, <1>1 DEF Installs, Install, TypeOK
<1>6. /\ mem' \in [UFrames -> Data \cup {Junk}]
      /\ \A f \in UFrames : mem'[f] = IF f = r.frame THEN x ELSE mem[f]
  BY <1>0 DEF Installs, Install, TypeOK
<1>7. \A p \in Page : r.pte[p].valid => r.pte[p] = pte[p] /\ pte[p].blk # r.frame
  BY DEF Acquired, Balanced, RPages
<1>8. \A p \in Page : OnDisk(p)' <=> p # q /\ ROnDisk(r, p)
  BY <1>0, <1>2 DEF OnDisk, ROnDisk
<1>9. OnDisk(q) => ROnDisk(r, q) /\ r.pte[q].blk = c
  BY <1>0 DEF Installs, OnDisk, ROnDisk, Acquired, Balanced, RPages
<1>10. ROnDisk(r, q) => OnDisk(q)
  BY <1>0 DEF OnDisk, ROnDisk, Acquired, Balanced, RPages
<1>11. FrameOwnership'
  <2>1. ASSUME NEW p \in Page, pte'[p].valid
        PROVE  /\ pte'[p].inseg /\ ~pte'[p].tbc
               /\ pte'[p].blk \in UFrames \ empty'
               /\ ft'[pte'[p].blk].owner = p
    <3>1. CASE p = q
      BY <3>1, <1>0, <1>2, <1>3, <1>4
    <3>2. CASE p # q
      <4>1. pte'[p] = pte[p] /\ pte[p].valid /\ pte[p].blk # r.frame
        BY <2>1, <3>2, <1>2, <1>7
      <4> QED
        BY <4>1, <1>3, <1>4 DEF FrameOwnership
    <3> QED
      BY <3>1, <3>2
  <2>2. ASSUME NEW f \in UFrames \ empty'
        PROVE  /\ ft'[f].owner \in Page
               /\ pte'[ft'[f].owner].valid
               /\ pte'[ft'[f].owner].blk = f
    <3>1. CASE f = r.frame
      BY <3>1, <1>0, <1>2, <1>4
    <3>2. CASE f # r.frame
      <4>1. ft'[f] = ft[f] /\ f \notin empty
        BY <3>2, <1>3, <1>4
      <4> DEFINE o == ft[f].owner
      <4>2. o \in Page /\ pte[o].valid /\ pte[o].blk = f
        BY <4>1 DEF FrameOwnership
      <4>3. r.pte[o] = pte[o] /\ o # q
        BY <3>2, <4>2, <1>0 DEF Acquired, Balanced, RPages
      <4> QED
        BY <4>1, <4>2, <4>3, <1>2
    <3> QED
      BY <3>1, <3>2
  <2> QED
    BY <2>1, <2>2 DEF FrameOwnership
<1>12. ClusterOwnership'
  <2> USE DEF Acquired, Balanced, RClusters
  <2>0. NoCluster \notin Clusters
    BY MarkersAssumption
  <2>1. \A p \in Page : OnDisk(p)' => pte'[p].blk = r.pte[p].blk
    BY <1>2, <1>8
  <2>2. \A p \in Page : OnDisk(p)' => pte'[p].blk \in Clusters \ free'
    BY <1>3, <1>8, <2>1
  <2>3. \A p, t \in Page : OnDisk(p)' /\ OnDisk(t)' /\ p # t => pte'[p].blk # pte'[t].blk
    BY <1>8, <2>1
  <2>4. c # NoCluster => OnDisk(q) /\ c \in Clusters \ r.free
    BY <1>9 DEF Installs
  <2>5. \A f \in UFrames : ot'[f] # NoCluster => f \notin empty' /\ ot'[f] \notin free'
    BY <1>3, <1>5, <2>4 DEF ClusterOwnership
  <2>6. \A f \in UFrames \ {r.frame} : c # NoCluster => ot[f] # c
    BY <1>9, <2>4
  <2>7. \A f, g \in UFrames : ot'[f] # NoCluster /\ f # g => ot'[f] # ot'[g]
    BY <1>5, <2>6 DEF ClusterOwnership
  <2>8. \A p \in Page, f \in UFrames : OnDisk(p)' => pte'[p].blk # ot'[f]
    <3>1. \A p \in Page : p # q /\ ROnDisk(r, p) => r.pte[p].blk # c
      BY <1>9, <2>0, <2>4
    <3> QED
      BY <1>5, <1>8, <2>1, <3>1
  <2>9. ASSUME NEW e \in Clusters \ free'
        PROVE  \/ \E p \in Page : OnDisk(p)' /\ pte'[p].blk = e
               \/ \E f \in UFrames : ot'[f] = e
    <3>1. CASE \E f \in UFrames \ {r.frame} : ot[f] = e
      BY <3>1, <1>5
    <3>2. CASE \E p \in Page : ROnDisk(r, p) /\ r.pte[p].blk = e
      <4>1. PICK p \in Page : ROnDisk(r, p) /\ r.pte[p].blk = e
        BY <3>2
      <4>2. CASE p = q
        BY <4>1, <4>2, <1>0, <1>5, <1>9, <1>10
      <4>3. CASE p # q
        BY <4>1, <4>3, <1>8, <2>1
      <4> QED
        BY <4>2, <4>3
    <3> QED
      BY <3>1, <3>2, <1>3
  <2> QED
    BY <2>2, <2>3, <2>5, <2>7, <2>8, <2>9 DEF ClusterOwnership
<1>13. CleanCopy'
  <2> SUFFICES ASSUME NEW p \in Page, pte'[p].valid,
                      ot'[pte'[p].blk] # NoCluster,
                      ~ft'[pte'[p].blk].dirty \/ ~pte'[p].dirty
               PROVE  disk'[ot'[pte'[p].blk]] = mem'[pte'[p].blk]
    BY DEF CleanCopy
  <2>1. CASE p = q
    BY <2>1, <1>0, <1>2, <1>3, <1>5, <1>6 DEF Installs
  <2>2. CASE p # q
    <3>1. pte'[p] = pte[p] /\ pte[p].valid /\ pte[p].blk # r.frame
      BY <2>2, <1>2, <1>7
    <3>2. pte[p].blk \in UFrames
      BY <3>1 DEF FrameOwnership
    <3>3. disk[ot[pte[p].blk]] = mem[pte[p].blk]
      BY <3>1, <3>2, <1>4, <1>5 DEF CleanCopy
    <3> QED
      BY <3>1, <3>2, <3>3, <1>3, <1>5, <1>6 DEF Acquired, Balanced, RDisk
  <2> QED
    BY <2>1, <2>2
<1>14. \A p \in Page : p # q => pte'[p].inseg = pte[p].inseg
  BY <1>2 DEF Acquired, Balanced, RPages
<1>15. ASSUME NEW p \in Page, p # q
       PROVE  Content(p)' = Content(p)
  <2>1. /\ pte'[p] = r.pte[p]
        /\ r.pte[p].inseg = pte[p].inseg /\ r.pte[p].tbc = pte[p].tbc
    BY <1>2, <1>15 DEF Acquired, Balanced, RPages
  <2>2. CASE ~pte[p].inseg
    BY <2>1, <2>2 DEF Content
  <2>3. CASE pte[p].inseg /\ pte[p].valid
    <3>1. ~pte[p].tbc /\ RContent(r, p) = mem[pte[p].blk]
      BY <2>3 DEF FrameOwnership, Acquired, Balanced, RDisk
    <3>2. CASE r.pte[p].valid
      <4>1. r.pte[p] = pte[p] /\ pte[p].blk # r.frame /\ pte[p].blk \in UFrames
        BY <2>3, <3>2, <1>7 DEF FrameOwnership
      <4> QED
        BY <2>1, <2>3, <4>1, <1>6 DEF Content
    <3>3. CASE ~r.pte[p].valid
      BY <2>1, <2>3, <3>1, <3>3, <1>3 DEF Content, RContent
    <3> QED
      BY <3>2, <3>3
  <2>4. CASE pte[p].inseg /\ ~pte[p].valid
    <3>1. r.pte[p] = pte[p]
      BY <2>4 DEF Acquired, Balanced, RPages
    <3>2. OnDisk(p) => r.disk[pte[p].blk] = disk[pte[p].blk]
      BY DEF Acquired, Balanced, RDisk
    <3> QED
      BY <2>1, <2>4, <3>1, <3>2, <1>3 DEF Content, OnDisk
  <2> QED
    BY <2>2, <2>3, <2>4
<1>16. Content(q)' = x
  BY <1>0, <1>2, <1>6 DEF Content
<1>17. empty' \subseteq UFrames /\ free' \subseteq Clusters
       /\ disk' \in [Clusters -> Data \cup {Junk}]
  BY <1>3 DEF TypeOK, Acquired, Balanced, RTypeOK
<1>18. pte'[q].inseg
  BY <1>0, <1>2
<1> QED
  BY <1>2, <1>4, <1>5, <1>6, <1>11, <1>12, <1>13, <1>14, <1>15, <1>16, <1>17, <1>18
     DEF MemoryKept

------------------------------------------------------------------------------
\* Releasing mapped pages keeps frames and clusters owned by the others, whose
\* content stays.
LEMMA ReleasePages ==
  ASSUME TypeOK, FrameOwnership, ClusterOwnership, CleanCopy,
         NEW S \in SUBSET Page, \A q \in S : pte[q].inseg,
         Release(S), disk' = disk
  PROVE  /\ pte' \in [Page -> Descriptor]
         /\ empty' \subseteq UFrames
         /\ ft' \in [UFrames -> FrameEntry]
         /\ ot' \in [UFrames -> Clusters \cup {NoCluster}]
         /\ free' \subseteq Clusters
         /\ mem' \in [UFrames -> Data \cup {Junk}]
         /\ FrameOwnership' /\ ClusterOwnership' /\ CleanCopy'
         /\ \A p \in Page : pte'[p].inseg <=> p \notin S /\ pte[p].inseg
         /\ \A p \in Page : Content(p)' = IF p \in S THEN Absent ELSE Content(p)
<1> DEFINE frames == {pte[q].blk : q \in {q \in S : pte[q].valid}}
           onDisk == {pte[q].blk : q \in {q \in S : ~pte[q].valid /\ ~pte[q].tbc}}
           origin == {ot[f] : f \in frames} \ {NoCluster}
<1>1. /\ pte' = [q \in Page |-> IF q \in S THEN NoDescriptor ELSE pte[q]]
      /\ empty' = empty \cup frames
      /\ free' = free \cup onDisk \cup origin
      /\ ft' = [f \in UFrames |-> IF f \in frames THEN NoEntry ELSE ft[f]]
      /\ ot' = [f \in UFrames |-> IF f \in frames THEN NoCluster ELSE ot[f]]
      /\ mem' = [f \in UFrames |-> IF f \in frames THEN Junk ELSE mem[f]]
  BY DEF Release, FramesOf, SwapsOf, OriginsOf
<1>2. /\ frames \subseteq UFrames \ empty
      /\ \A p \in Page \ S : pte[p].valid => pte[p].blk \notin frames
      /\ \A f \in UFrames \ empty : ft[f].owner \in S => f \in frames
  BY DEF FrameOwnership
<1>3. /\ \A e : e \in onDisk <=> \E q \in S : OnDisk(q) /\ pte[q].blk = e
      /\ onDisk \subseteq Clusters
  BY DEF OnDisk, ClusterOwnership
<1>4. /\ \A e : e \in origin <=> e # NoCluster /\ \E f \in frames : ot[f] = e
      /\ origin \subseteq Clusters
  BY <1>2 DEF TypeOK
<1> HIDE DEF frames, onDisk, origin
<1>5. NoDescriptor \in Descriptor /\ NoEntry \in FrameEntry
  BY DEF NoDescriptor, Descriptor, NoEntry, FrameEntry, READ, EXECUTE
<1>6. ~NoDescriptor.inseg /\ ~NoDescriptor.valid
  BY DEF NoDescriptor
<1>7. /\ pte' \in [Page -> Descriptor]
      /\ ft' \in [UFrames -> FrameEntry]
      /\ ot' \in [UFrames -> Clusters \cup {NoCluster}]
      /\ mem' \in [UFrames -> Data \cup {Junk}]
  BY <1>1, <1>5 DEF TypeOK
<1>8. empty' \subseteq UFrames /\ free' \subseteq Clusters
  BY <1>1, <1>2, <1>3, <1>4 DEF TypeOK
<1>9. /\ \A p \in Page : pte'[p] = IF p \in S THEN NoDescriptor ELSE pte[p]
      /\ \A f \in UFrames : ot'[f] = IF f \in frames THEN NoCluster ELSE ot[f]
      /\ \A f \in UFrames \ frames : ft'[f] = ft[f] /\ mem'[f] = mem[f]
  BY <1>1
<1>10. \A p \in Page : OnDisk(p)' <=> p \notin S /\ OnDisk(p)
  BY <1>6, <1>9 DEF OnDisk
<1>11. FrameOwnership'
  <2>1. ASSUME NEW p \in Page, pte'[p].valid
        PROVE  /\ pte'[p].inseg /\ ~pte'[p].tbc
               /\ pte'[p].blk \in UFrames \ empty'
               /\ ft'[pte'[p].blk].owner = p
    <3>1. p \notin S /\ pte'[p] = pte[p]
      BY <2>1, <1>6, <1>9
    <3> QED
      BY <2>1, <3>1, <1>1, <1>2, <1>9 DEF FrameOwnership
  <2>2. ASSUME NEW f \in UFrames \ empty'
        PROVE  /\ ft'[f].owner \in Page
               /\ pte'[ft'[f].owner].valid
               /\ pte'[ft'[f].owner].blk = f
    <3>1. f \notin empty /\ f \notin frames /\ ft'[f] = ft[f]
      BY <1>1, <1>9
    <3>2. ft[f].owner \notin S
      BY <3>1, <1>2
    <3> QED
      BY <3>1, <3>2, <1>9 DEF FrameOwnership
  <2> QED
    BY <2>1, <2>2 DEF FrameOwnership
<1>12. ClusterOwnership'
  <2>0. NoCluster \notin Clusters
    BY MarkersAssumption
  <2>1. \A p \in Page : OnDisk(p)' => OnDisk(p) /\ p \notin S /\ pte'[p].blk = pte[p].blk
    BY <1>9, <1>10
  <2>2. \A p \in Page : OnDisk(p)' => pte'[p].blk \in Clusters \ free'
    BY <2>0, <2>1, <1>1, <1>2, <1>3, <1>4 DEF ClusterOwnership
  <2>3. \A p, t \in Page : OnDisk(p)' /\ OnDisk(t)' /\ p # t => pte'[p].blk # pte'[t].blk
    BY <2>1 DEF ClusterOwnership
  <2>4. ASSUME NEW f \in UFrames, ot'[f] # NoCluster
        PROVE  f \notin empty' /\ ot'[f] \notin free'
    <3>1. f \notin frames /\ ot'[f] = ot[f]
      BY <2>4, <1>9
    <3>2. f \notin empty'
      BY <2>4, <3>1, <1>1 DEF ClusterOwnership
    <3>3. ot[f] \notin onDisk /\ ot[f] \notin origin
      BY <2>4, <3>1, <1>2, <1>3, <1>4 DEF ClusterOwnership
    <3> QED
      BY <2>4, <3>1, <3>2, <3>3, <1>1 DEF ClusterOwnership
  <2>5. \A f, g \in UFrames : ot'[f] # NoCluster /\ f # g => ot'[f] # ot'[g]
    BY <1>9 DEF ClusterOwnership
  <2>6. \A p \in Page, f \in UFrames : OnDisk(p)' => pte'[p].blk # ot'[f]
    BY <2>0, <2>1, <1>9 DEF ClusterOwnership
  <2>7. ASSUME NEW e \in Clusters \ free'
        PROVE  \/ \E p \in Page : OnDisk(p)' /\ pte'[p].blk = e
               \/ \E f \in UFrames : ot'[f] = e
    <3>1. e \notin free /\ e \notin onDisk /\ e \notin origin
      BY <1>1
    <3>2. CASE \E p \in Page : OnDisk(p) /\ pte[p].blk = e
      BY <3>1, <3>2, <1>3, <1>9, <1>10
    <3>3. CASE \E f \in UFrames : ot[f] = e
      BY <2>0, <3>1, <3>3, <1>4, <1>9
    <3> QED
      BY <3>1, <3>2, <3>3 DEF ClusterOwnership
  <2> QED
    BY <2>2, <2>3, <2>4, <2>5, <2>6, <2>7 DEF ClusterOwnership
<1>13. \A p \in Page : pte'[p].valid =>
         /\ pte'[p] = pte[p] /\ p \notin S
         /\ pte[p].blk \in UFrames \ frames
  BY <1>2, <1>6, <1>9 DEF FrameOwnership
<1>14. CleanCopy'
  BY <1>9, <1>13 DEF CleanCopy
<1>15. \A p \in Page : Content(p)' = IF p \in S THEN Absent ELSE Content(p)
  BY <1>6, <1>9, <1>13 DEF Content
<1>16. \A p \in Page : pte'[p].inseg <=> p \notin S /\ pte[p].inseg
  BY <1>6, <1>9
<1> QED
  BY <1>7, <1>8, <1>11, <1>12, <1>14, <1>15, <1>16

------------------------------------------------------------------------------
(* The effect of a step on the contents, in the terms of FlatMemory.         *)

Becomes(S, x) == \A q \in Page : Content(q)' = IF q \in S THEN x ELSE Content(q)

Effect ==
  \/ Becomes({}, Junk)
  \/ \E S \in SUBSET Page :
       (\A q \in S : Content(q) = Absent) /\ Becomes(S, Junk)
  \/ \E S \in SUBSET Page :
       (\A q \in S : Content(q) # Absent) /\ Becomes(S, Absent)
  \/ \E q \in Page, d \in Data : Content(q) = Absent /\ Becomes({q}, d)
  \/ \E q \in Page, d \in Data :
       /\ Content(q) # Absent
       /\ AccessIsOk(WRITE, pte[q].acc)
       /\ Becomes({q}, d)
  \/ \E q, r \in Page :
       /\ Content(q) # Absent
       /\ Content(r) = Absent
       /\ Becomes({r}, Content(q))

\* Exactly the pages outside every segment are absent.
LEMMA PresentPages ==
  ASSUME TypeOK, FrameOwnership, ClusterOwnership, NEW q \in Page
  PROVE  /\ Content(q) = Absent <=> ~pte[q].inseg
         /\ pte[q].inseg => Content(q) \in Data \cup {Junk}
<1>1. Absent \notin Data \cup {Junk}
  BY MarkersAssumption
<1>2. pte[q].inseg => Content(q) \in Data \cup {Junk}
  BY DEF Content, TypeOK, FrameOwnership, ClusterOwnership, OnDisk
<1>3. ~pte[q].inseg => Content(q) = Absent
  BY DEF Content
<1> QED
  BY <1>1, <1>2, <1>3

\* Nothing but alive, segs, job and halted changes: contents and accounts stay.
LEMMA MemoryUnchanged ==
  ASSUME FrameOwnership, ClusterOwnership, CleanCopy,
         UNCHANGED <<pte, empty, ft, ot, free, mem, disk>>
  PROVE  /\ FrameOwnership' /\ ClusterOwnership' /\ CleanCopy'
         /\ Becomes({}, Junk)
<1>1. FrameOwnership'
  BY DEF FrameOwnership
<1>2. ClusterOwnership'
  BY DEF ClusterOwnership, OnDisk
<1>3. CleanCopy'
  BY DEF CleanCopy
<1>4. Becomes({}, Junk)
  BY DEF Becomes, Content
<1> QED
  BY <1>1, <1>2, <1>3, <1>4

\* The frame of an evicted page goes to the list of empty pages.
EmptiesFrame(r) ==
  /\ r.frame \notin empty
  /\ pte' = r.pte /\ disk' = r.disk /\ free' = r.free
  /\ empty' = empty \cup {r.frame}
  /\ ft' = [ft EXCEPT ![r.frame] = NoEntry]
  /\ ot' = [ot EXCEPT ![r.frame] = NoCluster]
  /\ mem' = [mem EXCEPT ![r.frame] = Junk]

\* That keeps frames and clusters owned, and the content of every page.
LEMMA EmptyFrame ==
  ASSUME TypeOK, FrameOwnership, ClusterOwnership, CleanCopy,
         NEW r, Balanced(r), EmptiesFrame(r)
  PROVE  /\ pte' \in [Page -> Descriptor]
         /\ empty' \subseteq UFrames
         /\ ft' \in [UFrames -> FrameEntry]
         /\ ot' \in [UFrames -> Clusters \cup {NoCluster}]
         /\ free' \subseteq Clusters
         /\ mem' \in [UFrames -> Data \cup {Junk}]
         /\ disk' \in [Clusters -> Data \cup {Junk}]
         /\ FrameOwnership' /\ ClusterOwnership' /\ CleanCopy'
         /\ \A p \in Page : pte'[p].inseg = pte[p].inseg
         /\ Becomes({}, Junk)
<1> USE DEF Balanced
<1>1. /\ r.frame \in UFrames
      /\ pte' = r.pte /\ disk' = r.disk /\ free' = r.free
      /\ empty' = empty \cup {r.frame}
  BY DEF EmptiesFrame, RTypeOK
<1>2. NoEntry \in FrameEntry
  BY DEF NoEntry, FrameEntry
<1>3. /\ pte' \in [Page -> Descriptor]
      /\ empty' \subseteq UFrames
      /\ ft' \in [UFrames -> FrameEntry]
      /\ ot' \in [UFrames -> Clusters \cup {NoCluster}]
      /\ free' \subseteq Clusters
      /\ mem' \in [UFrames -> Data \cup {Junk}]
      /\ disk' \in [Clusters -> Data \cup {Junk}]
  BY <1>1, <1>2 DEF EmptiesFrame, RTypeOK, TypeOK
<1>4. \A g \in UFrames :
        /\ ot'[g] = IF g = r.frame THEN NoCluster ELSE ot[g]
        /\ g # r.frame => ft'[g] = ft[g] /\ mem'[g] = mem[g]
  BY <1>1 DEF EmptiesFrame, TypeOK
<1>5. \A p \in Page : OnDisk(p)' <=> ROnDisk(r, p)
  BY <1>1 DEF OnDisk, ROnDisk
<1>6. \A p \in Page : pte'[p].valid =>
        /\ pte'[p] = pte[p] /\ pte[p].valid
        /\ pte[p].blk # r.frame /\ pte[p].blk \in UFrames
  BY <1>1 DEF RPages, FrameOwnership
<1>7. FrameOwnership'
  <2>1. ASSUME NEW p \in Page, pte'[p].valid
        PROVE  /\ pte'[p].inseg /\ ~pte'[p].tbc
               /\ pte'[p].blk \in UFrames \ empty'
               /\ ft'[pte'[p].blk].owner = p
    BY <2>1, <1>1, <1>4, <1>6 DEF FrameOwnership
  <2>2. ASSUME NEW g \in UFrames \ empty'
        PROVE  /\ ft'[g].owner \in Page
               /\ pte'[ft'[g].owner].valid
               /\ pte'[ft'[g].owner].blk = g
    <3>1. g # r.frame /\ g \notin empty /\ ft'[g] = ft[g]
      BY <1>1, <1>4
    <3> QED
      BY <3>1, <1>1 DEF FrameOwnership, RPages
  <2> QED
    BY <2>1, <2>2 DEF FrameOwnership
<1>8. ClusterOwnership'
  <2> USE DEF RClusters
  <2>0. NoCluster \notin Clusters
    BY MarkersAssumption
  <2>1. \A p \in Page : OnDisk(p)' => pte'[p].blk \in Clusters \ free'
    BY <1>1, <1>5
  <2>2. \A p, t \in Page : OnDisk(p)' /\ OnDisk(t)' /\ p # t => pte'[p].blk # pte'[t].blk
    BY <1>1, <1>5
  <2>3. \A g \in UFrames : ot'[g] # NoCluster => g \notin empty' /\ ot'[g] \notin free'
    BY <1>1, <1>4 DEF ClusterOwnership
  <2>4. \A g, h \in UFrames : ot'[g] # NoCluster /\ g # h => ot'[g] # ot'[h]
    BY <1>4 DEF ClusterOwnership
  <2>5. \A p \in Page, g \in UFrames : OnDisk(p)' => pte'[p].blk # ot'[g]
    BY <2>0, <2>1, <1>1, <1>4, <1>5
  <2>6. \A e \in Clusters \ free' :
          \/ \E p \in Page : OnDisk(p)' /\ pte'[p].blk = e
          \/ \E g \in UFrames : ot'[g] = e
    BY <1>1, <1>4, <1>5
  <2> QED
    BY <2>1, <2>2, <2>3, <2>4, <2>5, <2>6 DEF ClusterOwnership
<1>9. CleanCopy'
  <2> SUFFICES ASSUME NEW p \in Page, pte'[p].valid,
                      ot'[pte'[p].blk] # NoCluster,
                      ~ft'[pte'[p].blk].dirty \/ ~pte'[p].dirty
               PROVE  disk'[ot'[pte'[p].blk]] = mem'[pte'[p].blk]
    BY DEF CleanCopy
  <2>1. /\ pte'[p] = pte[p] /\ pte[p].valid
        /\ pte[p].blk # r.frame /\ pte[p].blk \in UFrames
    BY <1>6
  <2>2. disk[ot[pte[p].blk]] = mem[pte[p].blk]
    BY <2>1, <1>4 DEF CleanCopy
  <2> QED
    BY <2>1, <2>2, <1>1, <1>4 DEF RDisk
<1>10. \A p \in Page : pte'[p].inseg = pte[p].inseg /\ pte'[p].tbc = pte[p].tbc
  BY <1>1 DEF RPages
<1>11. ASSUME NEW p \in Page
       PROVE  Content(p)' = Content(p)
  <2>1. CASE ~pte[p].inseg
    BY <2>1, <1>10 DEF Content
  <2>2. CASE pte[p].inseg /\ pte[p].valid
    <3>1. ~pte[p].tbc /\ RContent(r, p) = mem[pte[p].blk]
      BY <2>2 DEF FrameOwnership, RDisk
    <3>2. CASE pte'[p].valid
      BY <2>2, <3>2, <1>4, <1>6, <1>10 DEF Content
    <3>3. CASE ~pte'[p].valid
      BY <2>2, <3>1, <3>3, <1>1, <1>10 DEF Content, RContent
    <3> QED
      BY <3>2, <3>3
  <2>3. CASE pte[p].inseg /\ ~pte[p].valid
    <3>1. pte'[p] = pte[p]
      BY <2>3, <1>1 DEF RPages
    <3>2. OnDisk(p) => disk'[pte[p].blk] = disk[pte[p].blk]
      BY <1>1 DEF RDisk
    <3> QED
      BY <2>3, <3>1, <3>2 DEF Content, OnDisk
  <2> QED
    BY <2>1, <2>2, <2>3
<1>12. Becomes({}, Junk)
  BY <1>11 DEF Becomes
<1> QED
  BY <1>3, <1>7, <1>8, <1>9, <1>10, <1>12

\* HALT for a full disk keeps the invariant and every content.
LEMMA HaltStep ==
  ASSUME Inv, Halt
  PROVE  Inv' /\ Becomes({}, Junk)
<1> USE DEF Inv, Halt
<1>1. TypeOK'
  BY DEF TypeOK
<1>2. SegmentsMapped' /\ JobSources'
  BY DEF SegmentsMapped, JobSources
<1> QED
  BY <1>1, <1>2, MemoryUnchanged

\* A page of a segment belongs to the process that has the segment.
LEMMA OfProcess ==
  ASSUME NEW q, NEW p, NEW s, q \in PagesOf(p, s)
  PROVE  q \in Page /\ q[1] = p /\ q[2] \in Index /\ q = <<p, q[2]>>
BY DEF PagesOf, Page

\* create_process keeps the invariant and maps no page.
LEMMA CreateProcessStep ==
  ASSUME Inv, NEW p \in Procs, CreateProcess(p)
  PROVE  Inv' /\ Becomes({}, Junk)
<1> USE DEF Inv, CreateProcess
<1>1. TypeOK'
  BY DEF TypeOK
<1>2. SegmentsMapped' /\ JobSources'
  BY DEF SegmentsMapped, JobSources
<1> QED
  BY <1>1, <1>2, MemoryUnchanged

\* Ranges that pass the overlap test do not overlap.
LEMMA ClearRanges ==
  ASSUME NEW p \in Procs, NEW s \in Segment, NEW t \in Segment,
         Clear(s, t.first, t.size)
  PROVE  PagesOf(p, s) \cap PagesOf(p, t) = {}
<1>1. /\ s.first \in Nat /\ s.size \in Nat \ {0}
      /\ t.first \in Nat /\ t.size \in Nat \ {0}
  BY PagesAssumption DEF Segment, Index
<1>2. s.first + s.size - 1 < t.first \/ s.first > t.first + t.size - 1
  BY <1>1 DEF Clear, PAGE_SIZE
<1>3. SUFFICES ASSUME NEW q \in Page, q \in PagesOf(p, s), q \in PagesOf(p, t)
               PROVE  FALSE
  BY DEF PagesOf
<1>4. q[2] \in Nat
  BY PagesAssumption DEF Page, Index
<1> QED
  BY <1>1, <1>2, <1>3, <1>4 DEF PagesOf

\* A segment that can be placed covers no page of another one, so its pages are
\* mapped by none.
LEMMA PlacedSegment ==
  ASSUME Inv, NEW p \in Procs, NEW seg \in Segment, CanPlace(p, seg)
  PROVE  /\ p \in alive /\ job.todo = {} /\ seg.first + seg.size <= NPages
         /\ \A t \in segs[p] : PagesOf(p, seg) \cap PagesOf(p, t) = {}
         /\ \A q \in PagesOf(p, seg) : q \in Page /\ q[1] = p /\ ~pte[q].inseg
<1>1. p \in alive /\ job.todo = {} /\ seg.first + seg.size <= NPages
  BY DEF CanPlace, Ready
<1>2. ASSUME NEW t \in segs[p]
      PROVE  PagesOf(p, seg) \cap PagesOf(p, t) = {}
  <2>1. t \in Segment
    BY DEF Inv, TypeOK
  <2> QED
    BY <2>1, ClearRanges DEF CanPlace
<1>3. \A q \in PagesOf(p, seg) : q \in Page /\ q[1] = p
  BY DEF PagesOf
<1>4. \A q \in PagesOf(p, seg) : ~pte[q].inseg
  BY <1>2, <1>3 DEF Inv, SegmentsMapped
<1> QED
  BY <1>1, <1>2, <1>3, <1>4

\* The segment table with one more disjoint segment stays disjoint.
LEMMA SegmentAdded ==
  ASSUME Inv, NEW p \in Procs, NEW seg \in Segment, CanPlace(p, seg),
         segs' = [segs EXCEPT ![p] = @ \cup {seg}], alive' = alive
  PROVE  /\ segs' \in [Procs -> SUBSET Segment]
         /\ \A r \in Procs : segs'[r] = IF r = p THEN segs[p] \cup {seg} ELSE segs[r]
         /\ \A r \in Procs : \A s \in segs'[r] :
              /\ r \in alive'
              /\ s.first + s.size <= NPages
              /\ \A t \in segs'[r] : s # t => PagesOf(r, s) \cap PagesOf(r, t) = {}
<1>1. /\ segs' \in [Procs -> SUBSET Segment]
      /\ \A r \in Procs : segs'[r] = IF r = p THEN segs[p] \cup {seg} ELSE segs[r]
  BY DEF Inv, TypeOK
<1>2. ASSUME NEW r \in Procs, NEW s \in segs'[r]
      PROVE  /\ r \in alive'
             /\ s.first + s.size <= NPages
             /\ \A t \in segs'[r] : s # t => PagesOf(r, s) \cap PagesOf(r, t) = {}
  BY <1>1, PlacedSegment DEF Inv, SegmentsMapped
<1> QED
  BY <1>1, <1>2

\* create_segment keeps the invariant and maps the pages of the segment, with
\* indeterminate content.
LEMMA CreateSegmentStep ==
  ASSUME Inv, NEW p \in Procs, NEW seg \in Segment, NEW acc \in Rights,
         CreateSegment(p, seg, acc)
  PROVE  Inv' /\ Effect /\ Becomes(PagesOf(p, seg), Junk)
<1> DEFINE S == PagesOf(p, seg)
           d == [inseg |-> TRUE, valid |-> FALSE, dirty |-> TRUE, tbc |-> TRUE,
                 acc |-> acc, blk |-> NoBlock]
<1>1. /\ CanPlace(p, seg)
      /\ segs' = [segs EXCEPT ![p] = @ \cup {seg}]
      /\ pte' = [q \in Page |-> IF q \in S THEN d ELSE pte[q]]
      /\ UNCHANGED <<alive, empty, ft, ot, free, mem, disk, job, halted>>
  BY DEF CreateSegment
<1>2. d \in Descriptor /\ d.inseg /\ ~d.valid /\ d.tbc
  BY RightsAssumption DEF Descriptor
<1>3. /\ \A q \in S : q \in Page /\ q[1] = p /\ ~pte[q].inseg
      /\ job.todo = {} /\ p \in alive
  BY <1>1, PlacedSegment
<1> HIDE DEF d, S
<1>4. \A q \in Page : pte'[q] = IF q \in S THEN d ELSE pte[q]
  BY <1>1
<1>5. TypeOK'
  BY <1>1, <1>2, SegmentAdded DEF Inv, TypeOK
<1>6. \A q \in S : ~pte[q].valid /\ ~OnDisk(q)
  BY <1>3 DEF Inv, FrameOwnership, OnDisk
<1>7. \A q \in Page : OnDisk(q)' <=> OnDisk(q) /\ q \notin S
  BY <1>2, <1>4 DEF OnDisk
<1>8. FrameOwnership'
  BY <1>1, <1>2, <1>4, <1>6 DEF Inv, FrameOwnership
<1>9. ClusterOwnership'
  BY <1>1, <1>4, <1>6, <1>7 DEF Inv, ClusterOwnership
<1>10. CleanCopy'
  BY <1>1, <1>2, <1>4 DEF Inv, CleanCopy
<1>11. SegmentsMapped'
  <2>1. ASSUME NEW q \in Page
        PROVE  pte'[q].inseg <=>
                 q \notin job'.todo /\ \E s \in segs'[q[1]] : q \in PagesOf(q[1], s)
    <3>0. q[1] \in Procs
      BY DEF Page
    <3>1. CASE q \in S
      <4>1. pte'[q].inseg /\ q \notin job'.todo
        BY <3>1, <1>1, <1>2, <1>3, <1>4
      <4>2. q[1] = p /\ q \in PagesOf(p, seg)
        BY <3>1, <1>3 DEF S
      <4>3. seg \in segs'[p]
        BY <1>1, SegmentAdded
      <4> QED
        BY <4>1, <4>2, <4>3
    <3>2. CASE q \notin S
      <4>1. pte'[q].inseg <=> \E s \in segs[q[1]] : q \in PagesOf(q[1], s)
        BY <3>2, <1>3, <1>4 DEF Inv, SegmentsMapped
      <4>2. (\E s \in segs'[q[1]] : q \in PagesOf(q[1], s))
              <=> \E s \in segs[q[1]] : q \in PagesOf(q[1], s)
        BY <3>0, <3>2, <1>1, SegmentAdded DEF S
      <4> QED
        BY <4>1, <4>2, <1>1, <1>3
    <3> QED
      BY <3>1, <3>2
  <2> QED
    BY <2>1, <1>1, SegmentAdded DEF SegmentsMapped
<1>12. JobSources'
  BY <1>1, <1>3 DEF JobSources
<1>13. Becomes(S, Junk)
  BY <1>1, <1>2, <1>4 DEF Becomes, Content
<1>14. \A q \in S : Content(q) = Absent
  BY <1>3, PresentPages DEF Inv
<1>15. S \in SUBSET Page
  BY <1>3
<1>16. Inv' /\ Effect
  BY <1>5, <1>8, <1>9, <1>10, <1>11, <1>12, <1>13, <1>14, <1>15 DEF Inv, Effect
<1> QED
  BY <1>13, <1>16 DEF S

\* load_segment up to its loop keeps the invariant and maps no page yet.
LEMMA LoadSegmentStep ==
  ASSUME Inv, NEW p \in Procs, NEW seg \in Segment, NEW acc \in Rights,
         LoadSegment(p, seg, acc)
  PROVE  Inv' /\ Becomes({}, Junk)
<1> DEFINE S == PagesOf(p, seg)
<1>1. /\ CanPlace(p, seg)
      /\ segs' = [segs EXCEPT ![p] = @ \cup {seg}]
      /\ job' = [todo |-> S, from |-> NoProc, acc |-> acc]
      /\ UNCHANGED <<alive, pte, empty, ft, ot, free, mem, disk, halted>>
  BY DEF LoadSegment
<1>2. /\ \A q \in S : q \in Page /\ q[1] = p /\ ~pte[q].inseg
      /\ job.todo = {} /\ p \in alive
  BY <1>1, PlacedSegment
<1>3. job'.todo = S /\ job'.from = NoProc
  BY <1>1
<1> HIDE DEF S
<1>4. TypeOK'
  BY <1>1, <1>2, SegmentAdded, RightsAssumption DEF Inv, TypeOK
<1>5. SegmentsMapped'
  <2>1. ASSUME NEW q \in Page
        PROVE  pte'[q].inseg <=>
                 q \notin job'.todo /\ \E s \in segs'[q[1]] : q \in PagesOf(q[1], s)
    <3>0. q[1] \in Procs
      BY DEF Page
    <3>1. CASE q \in S
      BY <3>1, <1>1, <1>2, <1>3
    <3>2. CASE q \notin S
      <4>1. pte[q].inseg <=> \E s \in segs[q[1]] : q \in PagesOf(q[1], s)
        BY <1>2 DEF Inv, SegmentsMapped
      <4>2. (\E s \in segs'[q[1]] : q \in PagesOf(q[1], s))
              <=> \E s \in segs[q[1]] : q \in PagesOf(q[1], s)
        BY <3>0, <3>2, <1>1, SegmentAdded DEF S
      <4> QED
        BY <3>2, <4>1, <4>2, <1>1, <1>3
    <3> QED
      BY <3>1, <3>2
  <2> QED
    BY <2>1, <1>1, SegmentAdded DEF SegmentsMapped
<1>6. JobSources'
  <2>1. ASSUME NEW q \in S
        PROVE  \E s \in segs'[q[1]] : q \in PagesOf(q[1], s)
    <3>1. q[1] = p /\ q \in PagesOf(p, seg)
      BY <1>2 DEF S
    <3>2. seg \in segs'[p]
      BY <1>1, SegmentAdded
    <3> QED
      BY <3>1, <3>2
  <2> QED
    BY <2>1, <1>3 DEF JobSources
<1> QED
  BY <1>1, <1>4, <1>5, <1>6, MemoryUnchanged DEF Inv

\* Processing page q of a job leaves the rest of it to be done.
LEMMA JobAdvances ==
  ASSUME Inv, NEW q \in Page, q \in job.todo, job' = Finish(q),
         \A p \in Page : p # q => pte'[p].inseg = pte[p].inseg,
         pte'[q].inseg, UNCHANGED <<alive, segs, halted>>
  PROVE  /\ job' \in [todo : SUBSET Page, from : Procs \cup {NoProc}, acc : READ .. EXECUTE]
         /\ SegmentsMapped' /\ JobSources'
         /\ ~pte[q].inseg /\ ~pte[q].valid /\ ~OnDisk(q) /\ Content(q) = Absent
<1>1. job \in [todo : SUBSET Page, from : Procs \cup {NoProc}, acc : READ .. EXECUTE]
  BY DEF Inv, TypeOK
<1>2. Idle \in [todo : SUBSET Page, from : Procs \cup {NoProc}, acc : READ .. EXECUTE]
  BY DEF Idle, READ, EXECUTE
<1>3. job'.todo = job.todo \ {q} /\ (job'.todo # {} => job'.from = job.from)
  BY <1>1 DEF Finish, Idle
<1>4. job' \in [todo : SUBSET Page, from : Procs \cup {NoProc}, acc : READ .. EXECUTE]
  BY <1>1, <1>2 DEF Finish
<1>5. SegmentsMapped'
  <2>1. ASSUME NEW t \in Page
        PROVE  pte'[t].inseg <=>
                 t \notin job'.todo /\ \E s \in segs'[t[1]] : t \in PagesOf(t[1], s)
    <3>1. CASE t = q
      BY <3>1, <1>3 DEF Inv, JobSources
    <3>2. CASE t # q
      <4>1. pte'[t].inseg <=> pte[t].inseg
        BY <3>2
      <4>2. t \in job'.todo <=> t \in job.todo
        BY <3>2, <1>3
      <4> QED
        BY <4>1, <4>2 DEF Inv, SegmentsMapped
    <3> QED
      BY <3>1, <3>2
  <2>2. \A p \in Procs : \A s \in segs'[p] :
          /\ p \in alive'
          /\ s.first + s.size <= NPages
          /\ \A t \in segs'[p] : s # t => PagesOf(p, s) \cap PagesOf(p, t) = {}
    BY DEF Inv, SegmentsMapped
  <2> QED
    BY <2>1, <2>2 DEF SegmentsMapped
<1>6. JobSources'
  <2> SUFFICES ASSUME NEW t \in job'.todo
               PROVE  /\ \E s \in segs'[t[1]] : t \in PagesOf(t[1], s)
                      /\ job'.from # NoProc => pte'[<<job'.from, t[2]>>].inseg
    BY DEF JobSources
  <2>1. t \in job.todo /\ t \in Page /\ job'.from = job.from
    BY <1>1, <1>3
  <2>2. job.from # NoProc => <<job.from, t[2]>> \in Page
    BY <1>1, <2>1 DEF Page
  <2> QED
    BY <2>1, <2>2 DEF Inv, JobSources
<1>7. ~pte[q].inseg
  BY DEF Inv, SegmentsMapped
<1> QED
  BY <1>4, <1>5, <1>6, <1>7 DEF Inv, FrameOwnership, OnDisk, Content

\* An iteration of load_segment's loop keeps the invariant and maps one page with
\* the content of the client.
LEMMA LoadPageStep ==
  ASSUME Inv, NEW q \in Page, NEW d \in Data, LoadPage(q, d)
  PROVE  Inv' /\ Effect
<1>1. CASE DiskFull({}) /\ Halt
  BY <1>1, HaltStep DEF Effect
<1>2. CASE ~(DiskFull({}) /\ Halt)
  <2>1. PICK r \in UsAcquirePage({}) :
          /\ Install(r, q,
                     [inseg |-> TRUE, valid |-> TRUE, dirty |-> TRUE,
                      tbc |-> FALSE, acc |-> job.acc, blk |-> r.frame],
                     NoCluster, d)
          /\ job' = Finish(q)
          /\ UNCHANGED <<alive, segs, halted>>
    BY <1>2 DEF LoadPage
  <2>2. Acquired(r)
    BY AcquirePage DEF Inv
  <2>3. q \in job.todo
    BY DEF LoadPage, NextOfJob
  <2>4. ~pte[q].inseg /\ ~pte[q].valid /\ ~OnDisk(q)
    BY <2>3 DEF Inv, SegmentsMapped, FrameOwnership, OnDisk
  <2> DEFINE e == [inseg |-> TRUE, valid |-> TRUE, dirty |-> TRUE,
                   tbc |-> FALSE, acc |-> job.acc, blk |-> r.frame]
  <2>5. e \in Descriptor
    BY <2>2 DEF Inv, TypeOK, Acquired, Balanced, RTypeOK, Descriptor
  <2>6. Installs(r, q, e, NoCluster, d)
    BY <2>1, <2>4, <2>5 DEF Installs
  <2> HIDE DEF e
  <2>7. MemoryKept(q, d)
    BY <2>2, <2>6, InstallPage DEF Inv
  <2>8. /\ job' \in [todo : SUBSET Page, from : Procs \cup {NoProc}, acc : READ .. EXECUTE]
        /\ SegmentsMapped' /\ JobSources' /\ Content(q) = Absent
    BY <2>1, <2>3, <2>7, JobAdvances DEF MemoryKept
  <2>9. TypeOK'
    BY <2>1, <2>7, <2>8 DEF Inv, TypeOK, MemoryKept
  <2> QED
    BY <2>7, <2>8, <2>9 DEF Inv, Effect, MemoryKept, Becomes
<1> QED
  BY <1>1, <1>2

\* page_fault keeps the invariant and the content of every page.
LEMMA PageFaultStep ==
  ASSUME Inv, NEW q \in Page, PageFault(q)
  PROVE  Inv' /\ Becomes({}, Junk)
<1>1. CASE DiskFull({}) /\ Halt
  BY <1>1, HaltStep
<1>2. CASE ~(DiskFull({}) /\ Halt)
  <2> DEFINE c == IF pte[q].tbc THEN NoCluster ELSE pte[q].blk
             x(r) == IF pte[q].tbc THEN Junk ELSE r.disk[pte[q].blk]
             d(r) == Faulted(pte[q], r.frame)
  <2>1. PICK r \in UsAcquirePage({}) :
          Install(r, q, d(r), c, x(r)) /\ UNCHANGED <<alive, segs, job, halted>>
    BY <1>2 DEF PageFault
  <2>2. Acquired(r)
    BY AcquirePage DEF Inv
  <2>3. /\ pte[q] \in Descriptor /\ pte[q].inseg /\ ~pte[q].valid
        /\ OnDisk(q) <=> ~pte[q].tbc
        /\ job.todo = {}
    BY DEF PageFault, Ready, Inv, TypeOK, OnDisk
  <2>4. /\ d(r) \in Descriptor
        /\ d(r).inseg /\ d(r).valid /\ ~d(r).tbc /\ d(r).blk = r.frame
    BY <2>2, <2>3 DEF Acquired, Balanced, RTypeOK, Descriptor, Faulted
  <2>5. OnDisk(q) => pte[q].blk \in Clusters
    BY DEF Inv, ClusterOwnership
  <2>6. x(r) \in Data \cup {Junk}
    BY <2>2, <2>3, <2>5 DEF Acquired, Balanced, RTypeOK
  <2>7. OnDisk(q) => x(r) = Content(q)
    BY <2>2, <2>3 DEF OnDisk, Acquired, Balanced, RDisk, Content
  <2>8. ~OnDisk(q) => x(r) = Content(q)
    BY <2>3 DEF Content
  <2> HIDE DEF d
  <2>9. Installs(r, q, d(r), c, x(r))
    BY <2>1, <2>3, <2>4, <2>6 DEF Installs
  <2> HIDE DEF c, x
  <2>10. MemoryKept(q, x(r))
    BY <2>2, <2>9, InstallPage DEF Inv
  <2>11. TypeOK'
    BY <2>1, <2>10 DEF Inv, TypeOK, MemoryKept
  <2>12. \A p \in Page : pte'[p].inseg <=> pte[p].inseg
    BY <2>3, <2>10 DEF MemoryKept
  <2>13. SegmentsMapped'
    BY <2>1, <2>12 DEF Inv, SegmentsMapped
  <2>14. JobSources'
    BY <2>1, <2>3 DEF JobSources
  <2> QED
    BY <2>7, <2>8, <2>10, <2>11, <2>13, <2>14 DEF Inv, MemoryKept, Becomes
<1> QED
  BY <1>1, <1>2

\* us_evict_page keeps the invariant and the content of every page.
LEMMA EvictPageStep ==
  ASSUME Inv, NEW q \in Page, EvictPage(q)
  PROVE  Inv' /\ Becomes({}, Junk)
<1> DEFINE f == pte[q].blk
<1>1. CASE SwapTargets(f) = {} /\ Halt
  BY <1>1, HaltStep
<1>2. CASE ~(SwapTargets(f) = {} /\ Halt)
  <2>1. PICK c \in SwapTargets(f) :
          /\ LET r == UsSwapOut(f, c, pte[q].dirty)
             IN  pte' = r.pte /\ disk' = r.disk /\ free' = r.free
          /\ empty' = empty \cup {f}
          /\ ft' = [ft EXCEPT ![f] = NoEntry]
          /\ ot' = [ot EXCEPT ![f] = NoCluster]
          /\ mem' = [mem EXCEPT ![f] = Junk]
          /\ UNCHANGED <<alive, segs, job, halted>>
    BY <1>2 DEF EvictPage
  <2> DEFINE r == UsSwapOut(f, c, pte[q].dirty)
  <2>2. f \in UFrames \ empty /\ ft[f].owner = q /\ pte[q].dirty \in BOOLEAN
    BY DEF EvictPage, Inv, FrameOwnership, TypeOK, Descriptor
  <2>3. Balanced(r)
    BY <2>2, SwapOutVictim DEF Inv
  <2>4. r.frame = f
    BY DEF UsSwapOut
  <2>5. EmptiesFrame(r)
    BY <2>1, <2>2, <2>4 DEF EmptiesFrame
  <2> HIDE DEF r, f
  <2>6. /\ FrameOwnership' /\ ClusterOwnership' /\ CleanCopy' /\ Becomes({}, Junk)
        /\ \A p \in Page : pte'[p].inseg = pte[p].inseg
    BY <2>3, <2>5, EmptyFrame DEF Inv
  <2>7. TypeOK'
    BY <2>1, <2>3, <2>5, EmptyFrame DEF Inv, TypeOK
  <2>8. SegmentsMapped'
    BY <2>1, <2>6 DEF Inv, SegmentsMapped
  <2>9. JobSources'
    <3>1. \A p \in job.todo : job.from # NoProc => <<job.from, p[2]>> \in Page
      BY DEF Inv, TypeOK, Page
    <3> QED
      BY <2>1, <2>6, <3>1 DEF Inv, JobSources
  <2> QED
    BY <2>6, <2>7, <2>8, <2>9 DEF Inv
<1> QED
  BY <1>1, <1>2

\* An iteration of clone_segment_from keeps the invariant and copies one page.
LEMMA ClonePageStep ==
  ASSUME Inv, NEW q \in Page, ClonePage(q)
  PROVE  Inv' /\ Effect
<1> DEFINE s == <<job.from, q[2]>>
           keep == IF pte[s].valid THEN {pte[s].blk} ELSE {}
<1>1. q \in job.todo /\ job.from # NoProc
  BY DEF ClonePage, NextOfJob
<1>2. s \in Page /\ pte[s].inseg /\ pte[s] \in Descriptor
  BY <1>1 DEF Inv, TypeOK, JobSources, Page
<1>3. ~pte[q].inseg /\ ~pte[q].valid /\ ~OnDisk(q) /\ Content(q) = Absent
  BY <1>1 DEF Inv, SegmentsMapped, FrameOwnership, OnDisk, Content
<1>4. Content(s) # Absent /\ Content(s) \in Data \cup {Junk}
  BY <1>2, PresentPages DEF Inv
<1>5. s # q
  BY <1>2, <1>3
<1>6. CASE ~pte[s].tbc /\ DiskFull(keep) /\ Halt
  BY <1>6, HaltStep DEF Effect
<1>7. CASE /\ pte[s].tbc
           /\ pte' = [pte EXCEPT ![q] = pte[s]]
           /\ job' = Finish(q)
           /\ UNCHANGED <<alive, segs, empty, ft, ot, free, mem, disk, halted>>
  <2>1. ~pte[s].valid /\ Content(s) = Junk
    BY <1>2, <1>7 DEF Inv, FrameOwnership, Content
  <2>2. /\ pte' \in [Page -> Descriptor]
        /\ \A p \in Page : pte'[p] = IF p = q THEN pte[s] ELSE pte[p]
    BY <1>2, <1>7 DEF Inv, TypeOK
  <2>3. \A p \in Page : OnDisk(p)' <=> OnDisk(p)
    BY <1>3, <1>7, <2>2 DEF OnDisk
  <2>4. FrameOwnership'
    BY <1>3, <1>7, <2>1, <2>2 DEF Inv, FrameOwnership
  <2>5. ClusterOwnership'
    BY <1>3, <1>7, <2>2, <2>3 DEF Inv, ClusterOwnership
  <2>6. CleanCopy'
    BY <1>7, <2>1, <2>2 DEF Inv, CleanCopy
  <2>7. \A p \in Page : p # q => pte'[p].inseg = pte[p].inseg
    BY <2>2
  <2>8. pte'[q].inseg
    BY <1>2, <2>2
  <2>9. Becomes({q}, Junk)
    BY <1>2, <1>7, <2>1, <2>2 DEF Becomes, Content
  <2>10. /\ job' \in [todo : SUBSET Page, from : Procs \cup {NoProc}, acc : READ .. EXECUTE]
         /\ SegmentsMapped' /\ JobSources'
    BY <1>1, <1>7, <2>7, <2>8, JobAdvances
  <2>11. TypeOK'
    BY <1>7, <2>2, <2>10 DEF Inv, TypeOK
  <2> QED
    BY <1>2, <1>3, <1>4, <2>1, <2>4, <2>5, <2>6, <2>9, <2>10, <2>11 DEF Inv, Effect
<1>8. ASSUME ~pte[s].tbc, NEW r \in UsAcquirePage(keep),
             Install(r, q,
                     [pte[s] EXCEPT !.blk = r.frame, !.dirty = TRUE, !.valid = TRUE],
                     NoCluster,
                     IF pte[s].valid THEN mem[pte[s].blk] ELSE r.disk[pte[s].blk]),
             job' = Finish(q),
             UNCHANGED <<alive, segs, halted>>
      PROVE  Inv' /\ Effect
  <2> DEFINE d == [pte[s] EXCEPT !.blk = r.frame, !.dirty = TRUE, !.valid = TRUE]
             x == IF pte[s].valid THEN mem[pte[s].blk] ELSE r.disk[pte[s].blk]
  <2>1. Acquired(r)
    BY AcquirePage DEF Inv
  <2>2. /\ d \in Descriptor
        /\ d.inseg /\ d.valid /\ ~d.tbc /\ d.blk = r.frame
    BY <1>2, <1>8, <2>1 DEF Acquired, Balanced, RTypeOK, Descriptor
  <2>3. x = Content(s)
    BY <1>2, <1>8, <2>1 DEF Content, Acquired, Balanced, RDisk, OnDisk
  <2> HIDE DEF d
  <2>4. Installs(r, q, d, NoCluster, x)
    BY <1>3, <1>4, <1>8, <2>2, <2>3 DEF Installs, d
  <2> HIDE DEF x
  <2>5. MemoryKept(q, x)
    BY <2>1, <2>4, InstallPage DEF Inv
  <2>6. /\ job' \in [todo : SUBSET Page, from : Procs \cup {NoProc}, acc : READ .. EXECUTE]
        /\ SegmentsMapped' /\ JobSources'
    BY <1>1, <1>8, <2>5, JobAdvances DEF MemoryKept
  <2>7. TypeOK'
    BY <1>8, <2>5, <2>6 DEF Inv, TypeOK, MemoryKept
  <2>8. Becomes({q}, Content(s))
    BY <2>3, <2>5 DEF MemoryKept, Becomes
  <2> QED
    BY <1>2, <1>3, <1>4, <2>5, <2>6, <2>7, <2>8 DEF Inv, Effect, MemoryKept
<1> QED
  BY <1>6, <1>7, <1>8 DEF ClonePage

\* access(WRITE) and the store after it keep the invariant and change the content
\* of that page only.
LEMMA WriteStep ==
  ASSUME Inv, NEW q \in Page, NEW d \in Data, Write(q, d)
  PROVE  Inv' /\ Effect /\ Becomes({q}, d)
<1> DEFINE f == pte[q].blk
           e == [pte[q] EXCEPT !.dirty = TRUE]
<1>1. /\ pte[q].inseg /\ pte[q].valid /\ AccessIsOk(WRITE, pte[q].acc)
      /\ pte' = [pte EXCEPT ![q].dirty = TRUE]
      /\ ft' = [ft EXCEPT ![f].dirty = TRUE]
      /\ mem' = [mem EXCEPT ![f] = d]
      /\ job.todo = {}
      /\ UNCHANGED <<alive, segs, empty, ot, free, disk, job, halted>>
  BY DEF Write, Ready, MarkDirty
<1>2. f \in UFrames \ empty /\ ft[f].owner = q
  BY <1>1 DEF Inv, FrameOwnership
<1>3. /\ e \in Descriptor
      /\ e.inseg = pte[q].inseg /\ e.valid = pte[q].valid /\ e.tbc = pte[q].tbc
      /\ e.blk = f /\ e.dirty
  BY DEF Inv, TypeOK, Descriptor
<1>4. /\ pte' \in [Page -> Descriptor]
      /\ \A p \in Page : pte'[p] = IF p = q THEN e ELSE pte[p]
  BY <1>1, <1>3 DEF Inv, TypeOK
<1>5. /\ ft' \in [UFrames -> FrameEntry]
      /\ \A g \in UFrames : ft'[g].owner = ft[g].owner
      /\ \A g \in UFrames : g # f => ft'[g] = ft[g]
      /\ ft'[f].dirty
  <2>1. PICK x \in FrameEntry : x = ft[f]
    BY <1>2 DEF Inv, TypeOK
  <2>2. PICK y : y = [x EXCEPT !.dirty = TRUE]
    OBVIOUS
  <2>3. y \in FrameEntry /\ y.owner = x.owner /\ y.dirty
    BY <2>2 DEF FrameEntry
  <2>4. ft \in [UFrames -> FrameEntry] /\ ft' = [ft EXCEPT ![f] = y]
    BY <1>1, <2>1, <2>2 DEF Inv, TypeOK
  <2> QED
    BY <1>2, <2>1, <2>3, <2>4
<1>6. /\ mem' \in [UFrames -> Data \cup {Junk}]
      /\ \A g \in UFrames : mem'[g] = IF g = f THEN d ELSE mem[g]
  BY <1>1, <1>2 DEF Inv, TypeOK
<1> HIDE DEF e
<1>7. TypeOK'
  BY <1>1, <1>4, <1>5, <1>6 DEF Inv, TypeOK
<1>8. \A p \in Page : /\ pte'[p].inseg <=> pte[p].inseg
                      /\ pte'[p].valid <=> pte[p].valid
                      /\ pte'[p].tbc <=> pte[p].tbc
                      /\ pte'[p].blk = pte[p].blk
  BY <1>3, <1>4
<1>9. \A p \in Page : OnDisk(p)' <=> OnDisk(p)
  BY <1>8 DEF OnDisk
<1>10. FrameOwnership'
  <2>1. ASSUME NEW p \in Page, pte'[p].valid
        PROVE  /\ pte'[p].inseg /\ ~pte'[p].tbc
               /\ pte'[p].blk \in UFrames \ empty'
               /\ ft'[pte'[p].blk].owner = p
    <3>1. pte[p].valid
      BY <2>1, <1>8
    <3> QED
      BY <3>1, <1>1, <1>5, <1>8 DEF Inv, FrameOwnership
  <2>2. ASSUME NEW g \in UFrames \ empty'
        PROVE  /\ ft'[g].owner \in Page
               /\ pte'[ft'[g].owner].valid
               /\ pte'[ft'[g].owner].blk = g
    <3>1. g \in UFrames \ empty /\ ft'[g].owner = ft[g].owner
      BY <1>1, <1>5
    <3> QED
      BY <3>1, <1>8 DEF Inv, FrameOwnership
  <2> QED
    BY <2>1, <2>2 DEF FrameOwnership
<1>11. ClusterOwnership'
  BY <1>1, <1>8, <1>9 DEF Inv, ClusterOwnership
<1>12. \A p \in Page : p # q /\ pte[p].valid => pte[p].blk # f /\ pte[p].blk \in UFrames
  BY <1>2 DEF Inv, FrameOwnership
<1>13. CleanCopy'
  BY <1>1, <1>2, <1>3, <1>4, <1>5, <1>6, <1>8, <1>12 DEF Inv, CleanCopy
<1>14. SegmentsMapped'
  BY <1>1, <1>8 DEF Inv, SegmentsMapped
<1>15. JobSources'
  BY <1>1 DEF JobSources
<1>16. Content(q)' = d
  BY <1>1, <1>2, <1>6, <1>8 DEF Content
<1>17. ASSUME NEW p \in Page, p # q
       PROVE  Content(p)' = Content(p)
  BY <1>1, <1>4, <1>6, <1>12, <1>17 DEF Content
<1>18. Content(q) # Absent
  BY <1>1, PresentPages DEF Inv
<1>19. Becomes({q}, d)
  BY <1>16, <1>17 DEF Becomes
<1> QED
  BY <1>1, <1>7, <1>10, <1>11, <1>13, <1>14, <1>15, <1>18, <1>19 DEF Inv, Effect

\* delete_segment keeps the invariant and unmaps the pages of the segment only.
LEMMA DeleteSegmentStep ==
  ASSUME Inv, NEW p \in Procs, NEW seg \in Segment, DeleteSegment(p, seg)
  PROVE  Inv' /\ Effect /\ Becomes(PagesOf(p, seg), Absent)
<1> DEFINE S == PagesOf(p, seg)
<1>1. /\ seg \in segs[p] /\ Release(S) /\ job.todo = {}
      /\ segs' = [segs EXCEPT ![p] = @ \ {seg}]
      /\ UNCHANGED <<alive, disk, job, halted>>
  BY DEF DeleteSegment, Ready
<1>2. S \in SUBSET Page /\ \A q \in S : q[1] = p /\ pte[q].inseg
  BY <1>1 DEF PagesOf, Inv, SegmentsMapped
<1> HIDE DEF S
<1>3. /\ FrameOwnership' /\ ClusterOwnership' /\ CleanCopy' /\ Becomes(S, Absent)
      /\ \A q \in Page : pte'[q].inseg <=> q \notin S /\ pte[q].inseg
  BY <1>1, <1>2, ReleasePages DEF Inv, Becomes
<1>4. /\ segs' \in [Procs -> SUBSET Segment]
      /\ \A r \in Procs : segs'[r] = IF r = p THEN segs[p] \ {seg} ELSE segs[r]
  BY <1>1 DEF Inv, TypeOK
<1>5. TypeOK'
  BY <1>1, <1>2, <1>4, ReleasePages DEF Inv, TypeOK
<1>6. ASSUME NEW q \in Page
      PROVE  pte'[q].inseg <=>
               q \notin job'.todo /\ \E s \in segs'[q[1]] : q \in PagesOf(q[1], s)
  <2>0. q[1] \in Procs
    BY DEF Page
  <2>1. pte[q].inseg <=> \E s \in segs[q[1]] : q \in PagesOf(q[1], s)
    BY <1>1 DEF Inv, SegmentsMapped
  <2>2. CASE q \in S
    <3>1. q[1] = p /\ \A s \in segs[p] : s # seg => q \notin PagesOf(p, s)
      BY <2>2, <1>1, <1>2 DEF S, Inv, SegmentsMapped
    <3> QED
      BY <2>0, <2>2, <3>1, <1>3, <1>4
  <2>3. CASE q \notin S
    <3>1. \A s \in segs[q[1]] : q \in PagesOf(q[1], s) => s \in segs'[q[1]]
      BY <2>0, <2>3, <1>4 DEF S
    <3> QED
      BY <2>0, <2>1, <2>3, <3>1, <1>1, <1>3, <1>4
  <2> QED
    BY <2>2, <2>3
<1>7. SegmentsMapped'
  BY <1>1, <1>4, <1>6 DEF Inv, SegmentsMapped
<1>8. JobSources'
  BY <1>1 DEF JobSources
<1>9. \A q \in S : Content(q) # Absent
  BY <1>2, PresentPages DEF Inv
<1>10. Inv' /\ Effect
  BY <1>2, <1>3, <1>5, <1>7, <1>8, <1>9 DEF Inv, Effect
<1> QED
  BY <1>3, <1>10 DEF S

\* ~KernelProcess keeps the invariant and unmaps the pages of the process only.
LEMMA DeleteProcessStep ==
  ASSUME Inv, NEW p \in Procs, DeleteProcess(p)
  PROVE  Inv' /\ Effect
<1> DEFINE S == UNION {PagesOf(p, s) : s \in segs[p]}
<1>1. /\ Release(S) /\ job.todo = {}
      /\ segs' = [segs EXCEPT ![p] = {}]
      /\ alive' = alive \ {p}
      /\ UNCHANGED <<disk, job, halted>>
  BY DEF DeleteProcess, Ready
<1>2. /\ S \in SUBSET Page
      /\ \A q \in Page : q \in S <=> q[1] = p /\ \E s \in segs[p] : q \in PagesOf(p, s)
  BY DEF PagesOf
<1>3. \A q \in S : pte[q].inseg
  BY <1>1, <1>2 DEF Inv, SegmentsMapped
<1> HIDE DEF S
<1>4. /\ FrameOwnership' /\ ClusterOwnership' /\ CleanCopy' /\ Becomes(S, Absent)
      /\ \A q \in Page : pte'[q].inseg <=> q \notin S /\ pte[q].inseg
  BY <1>1, <1>2, <1>3, ReleasePages DEF Inv, Becomes
<1>5. /\ segs' \in [Procs -> SUBSET Segment]
      /\ \A r \in Procs : segs'[r] = IF r = p THEN {} ELSE segs[r]
  BY <1>1 DEF Inv, TypeOK
<1>6. TypeOK'
  BY <1>1, <1>2, <1>3, <1>5, ReleasePages DEF Inv, TypeOK
<1>7. ASSUME NEW q \in Page
      PROVE  pte'[q].inseg <=>
               q \notin job'.todo /\ \E s \in segs'[q[1]] : q \in PagesOf(q[1], s)
  <2>0. q[1] \in Procs
    BY DEF Page
  <2>1. pte[q].inseg <=> \E s \in segs[q[1]] : q \in PagesOf(q[1], s)
    BY <1>1 DEF Inv, SegmentsMapped
  <2> QED
    BY <2>0, <2>1, <1>1, <1>2, <1>4, <1>5
<1>8. SegmentsMapped'
  BY <1>1, <1>5, <1>7 DEF Inv, SegmentsMapped
<1>9. JobSources'
  BY <1>1 DEF JobSources
<1>10. \A q \in S : Content(q) # Absent
  BY <1>2, <1>3, PresentPages DEF Inv
<1> QED
  BY <1>2, <1>4, <1>6, <1>8, <1>9, <1>10 DEF Inv, Effect

\* clone_process up to the copying of pages keeps the invariant and every content.
LEMMA CloneProcessStep ==
  ASSUME Inv, NEW p \in Procs, NEW c \in Procs, CloneProcess(p, c)
  PROVE  Inv' /\ Becomes({}, Junk)
<1> DEFINE S == UNION {PagesOf(c, s) : s \in segs[p]}
<1>1. /\ p \in alive /\ c \notin alive /\ job.todo = {}
      /\ alive' = alive \cup {c}
      /\ segs' = [segs EXCEPT ![c] = segs[p]]
      /\ job' = IF segs[p] = {} THEN Idle
                ELSE [todo |-> S, from |-> p, acc |-> READ]
      /\ UNCHANGED <<pte, empty, ft, ot, free, mem, disk, halted>>
  BY DEF CloneProcess, Ready
<1>2. /\ S \in SUBSET Page
      /\ \A q \in Page : q \in S <=> q[1] = c /\ \E s \in segs[p] : q \in PagesOf(c, s)
  BY DEF PagesOf
<1>3. \A q \in S : q[2] \in Index /\ <<p, q[2]>> \in Page
                   /\ \E s \in segs[p] : <<p, q[2]>> \in PagesOf(p, s)
  BY <1>2 DEF PagesOf, Page
<1>4. segs[c] = {}
  BY <1>1 DEF Inv, SegmentsMapped
<1>5. /\ segs' \in [Procs -> SUBSET Segment]
      /\ \A r \in Procs : segs'[r] = IF r = c THEN segs[p] ELSE segs[r]
  BY <1>1 DEF Inv, TypeOK
<1> HIDE DEF S
<1>6. job'.todo = S
  BY <1>1, <1>2 DEF Idle, S
<1>7. job' \in [todo : SUBSET Page, from : Procs \cup {NoProc}, acc : READ .. EXECUTE]
  BY <1>1, <1>2 DEF Idle, READ, EXECUTE
<1>8. TypeOK'
  BY <1>1, <1>5, <1>7 DEF Inv, TypeOK
<1>9. \A s, t \in segs[p] : s # t => PagesOf(c, s) \cap PagesOf(c, t) = {}
  <2> SUFFICES ASSUME NEW s \in segs[p], NEW t \in segs[p], s # t,
                      NEW q \in Page, q \in PagesOf(c, s), q \in PagesOf(c, t)
               PROVE  FALSE
    BY DEF PagesOf
  <2>1. <<p, q[2]>> \in PagesOf(p, s) /\ <<p, q[2]>> \in PagesOf(p, t)
    BY DEF PagesOf, Page
  <2> QED
    BY <2>1 DEF Inv, SegmentsMapped
<1>10. ASSUME NEW q \in Page
       PROVE  pte'[q].inseg <=>
                q \notin job'.todo /\ \E s \in segs'[q[1]] : q \in PagesOf(q[1], s)
  <2>0. q[1] \in Procs
    BY DEF Page
  <2>1. pte[q].inseg <=> \E s \in segs[q[1]] : q \in PagesOf(q[1], s)
    BY <1>1 DEF Inv, SegmentsMapped
  <2>2. CASE q[1] = c
    BY <2>1, <2>2, <1>1, <1>2, <1>4, <1>5, <1>6
  <2>3. CASE q[1] # c
    BY <2>0, <2>1, <2>3, <1>1, <1>2, <1>5, <1>6
  <2> QED
    BY <2>2, <2>3
<1>11. SegmentsMapped'
  BY <1>1, <1>5, <1>9, <1>10 DEF Inv, SegmentsMapped
<1>12. JobSources'
  <2> SUFFICES ASSUME NEW q \in S
               PROVE  /\ \E s \in segs'[q[1]] : q \in PagesOf(q[1], s)
                      /\ pte'[<<job'.from, q[2]>>].inseg
    BY <1>6 DEF JobSources
  <2>1. \E s \in segs'[q[1]] : q \in PagesOf(q[1], s)
    BY <1>2, <1>5
  <2>2. job'.from = p
    BY <1>1, <1>2
  <2>3. pte[<<p, q[2]>>].inseg
    BY <1>1, <1>3 DEF Inv, SegmentsMapped
  <2> QED
    BY <2>1, <2>2, <2>3, <1>1
<1> QED
  BY <1>1, <1>8, <1>11, <1>12, MemoryUnchanged DEF Inv

------------------------------------------------------------------------------
\* The constructor of KernelSystem establishes the invariant.
LEMMA InitInv == Init => Inv
<1> SUFFICES ASSUME Init PROVE Inv
  OBVIOUS
<1>1. NoDescriptor \in Descriptor /\ NoEntry \in FrameEntry
  BY DEF NoDescriptor, Descriptor, NoEntry, FrameEntry, READ, EXECUTE
<1>2. Idle \in [todo : SUBSET Page, from : Procs \cup {NoProc}, acc : READ .. EXECUTE]
  BY DEF Idle, READ, EXECUTE
<1>3. TypeOK
  BY <1>1, <1>2 DEF Init, TypeOK
<1>4. \A q \in Page : ~pte[q].inseg /\ ~pte[q].valid
  BY DEF Init, NoDescriptor
<1>5. FrameOwnership /\ CleanCopy
  BY <1>4 DEF Init, FrameOwnership, CleanCopy
<1>6. ClusterOwnership
  BY <1>4 DEF Init, ClusterOwnership, OnDisk
<1>7. SegmentsMapped
  BY <1>4 DEF Init, SegmentsMapped, Page
<1>8. JobSources
  BY DEF Init, Idle, JobSources
<1> QED
  BY <1>3, <1>5, <1>6, <1>7, <1>8 DEF Inv

\* Every operation keeps the invariant, and has an effect FlatMemory knows.
LEMMA StepInv == Inv /\ [Next]_vars => Inv' /\ Effect
<1> SUFFICES ASSUME Inv, [Next]_vars PROVE Inv' /\ Effect
  OBVIOUS
<1>1. ASSUME NEW p \in Procs, CreateProcess(p) PROVE Inv' /\ Effect
  BY <1>1, CreateProcessStep DEF Effect
<1>2. ASSUME NEW p \in Procs, DeleteProcess(p) PROVE Inv' /\ Effect
  BY <1>2, DeleteProcessStep
<1>3. ASSUME NEW p \in Procs, NEW seg \in Segment, NEW acc \in Rights,
             CreateSegment(p, seg, acc)
      PROVE  Inv' /\ Effect
  BY <1>3, CreateSegmentStep
<1>4. ASSUME NEW p \in Procs, NEW seg \in Segment, NEW acc \in Rights,
             LoadSegment(p, seg, acc)
      PROVE  Inv' /\ Effect
  BY <1>4, LoadSegmentStep DEF Effect
<1>5. ASSUME NEW p \in Procs, NEW seg \in Segment, DeleteSegment(p, seg)
      PROVE  Inv' /\ Effect
  BY <1>5, DeleteSegmentStep
<1>6. ASSUME NEW p \in Procs, NEW c \in Procs, CloneProcess(p, c)
      PROVE  Inv' /\ Effect
  BY <1>6, CloneProcessStep DEF Effect
<1>7. ASSUME NEW q \in Page, PageFault(q) PROVE Inv' /\ Effect
  BY <1>7, PageFaultStep DEF Effect
<1>8. ASSUME NEW q \in Page, ClonePage(q) PROVE Inv' /\ Effect
  BY <1>8, ClonePageStep
<1>9. ASSUME NEW q \in Page, NEW d \in Data, Write(q, d) PROVE Inv' /\ Effect
  BY <1>9, WriteStep
<1>10. ASSUME NEW q \in Page, NEW d \in Data, LoadPage(q, d) PROVE Inv' /\ Effect
  BY <1>10, LoadPageStep
<1>11. ASSUME NEW q \in Page, EvictPage(q) PROVE Inv' /\ Effect
  BY <1>11, EvictPageStep DEF Effect
<1>12. CASE UNCHANGED vars
  <2>1. TypeOK' /\ SegmentsMapped' /\ JobSources'
    BY <1>12 DEF vars, Inv, TypeOK, SegmentsMapped, JobSources
  <2> QED
    BY <1>12, <2>1, MemoryUnchanged DEF vars, Inv, Effect
<1> QED
  BY <1>1, <1>2, <1>3, <1>4, <1>5, <1>6, <1>7, <1>8, <1>9, <1>10, <1>11, <1>12 DEF Next

\* Inv is an invariant of demand paging.
THEOREM Invariance == Spec => []Inv
<1>1. Init => Inv
  BY InitInv
<1>2. Inv /\ [Next]_vars => Inv'
  BY StepInv
<1> QED
  BY <1>1, <1>2, PTL DEF Spec

\* Every variable keeps its type.
THEOREM TypeCorrect == Spec => []TypeOK
<1>1. Inv => TypeOK
  BY DEF Inv
<1> QED
  BY <1>1, Invariance, PTL

\* No two pages ever share a frame, and us_swap_out always writes through the
\* descriptor of the page that really is in the frame.
THEOREM FramesOwned == Spec => []FrameOwnership
<1>1. Inv => FrameOwnership
  BY DEF Inv
<1> QED
  BY <1>1, Invariance, PTL

\* No cluster is given to two pages, freed while in use, or leaked.
THEOREM ClustersOwned == Spec => []ClusterOwnership
<1>1. Inv => ClusterOwnership
  BY DEF Inv
<1> QED
  BY <1>1, Invariance, PTL

\* A clean page with a cluster is on disk as it is in memory.
THEOREM CopiesClean == Spec => []CleanCopy
<1>1. Inv => CleanCopy
  BY DEF Inv
<1> QED
  BY <1>1, Invariance, PTL

\* The descriptors agree with the segment table, whose segments are disjoint.
THEOREM SegmentsAgree == Spec => []SegmentsMapped
<1>1. Inv => SegmentsMapped
  BY DEF Inv
<1> QED
  BY <1>1, Invariance, PTL

------------------------------------------------------------------------------
\* A disk found full is full of mapped pages.
LEMMA FullDisk ==
  ASSUME Inv, free = {}, Halt
  PROVE  HaltOnlyWhenFull'
<1>1. \A f \in UFrames : ot[f] # NoCluster => f \notin empty
  BY DEF Inv, ClusterOwnership
<1>2. NoCluster \notin Clusters
  BY MarkersAssumption
<1> SUFFICES ASSUME NEW c \in Clusters
             PROVE  \E q \in Page :
                      /\ pte[q].inseg
                      /\ \/ OnDisk(q) /\ pte[q].blk = c
                         \/ pte[q].valid /\ ot[pte[q].blk] = c
  BY DEF HaltOnlyWhenFull, Halt, OnDisk
<1>3. CASE \E q \in Page : OnDisk(q) /\ pte[q].blk = c
  BY <1>3 DEF OnDisk
<1>4. CASE \E f \in UFrames : ot[f] = c
  BY <1>1, <1>2, <1>4 DEF Inv, FrameOwnership
<1> QED
  BY <1>3, <1>4 DEF Inv, ClusterOwnership

\* us_swap_out reports a full disk only when every cluster holds a mapped page.
THEOREM HaltMeansFull == Spec => []HaltOnlyWhenFull
<1>1. Init => HaltOnlyWhenFull
  BY DEF Init, HaltOnlyWhenFull
<1>2. ASSUME Inv, HaltOnlyWhenFull, [Next]_vars
      PROVE  HaltOnlyWhenFull'
  <2>1. CASE halted
    <3>1. ~Next
      BY <2>1 DEF Next, CreateProcess, DeleteProcess, CreateSegment, LoadSegment,
                  CanPlace, DeleteSegment, CloneProcess, PageFault, ClonePage,
                  Write, LoadPage, EvictPage, Ready
    <3> QED
      BY <1>2, <3>1 DEF vars, HaltOnlyWhenFull, OnDisk
  <2>2. CASE ~halted
    <3>1. ~halted' => HaltOnlyWhenFull'
      BY DEF HaltOnlyWhenFull
    <3>2. ASSUME halted'
          PROVE  free = {} /\ Halt
      BY <1>2, <2>2, <3>2
         DEF Next, vars, CreateProcess, DeleteProcess, CreateSegment, LoadSegment,
             DeleteSegment, CloneProcess, PageFault, ClonePage, Write, LoadPage,
             EvictPage, DiskFull, SwapTargets
    <3> QED
      BY <1>2, <3>1, <3>2, FullDisk
  <2> QED
    BY <2>1, <2>2
<1> QED
  BY <1>1, <1>2, Invariance, PTL DEF Spec

------------------------------------------------------------------------------
\* A page its process may not write to keeps its content while it is mapped.
THEOREM ReadOnlyKept == Spec => ReadOnlyStable
<1>1. ASSUME Inv, [Next]_vars, NEW q \in Page,
             pte[q].inseg, pte'[q].inseg, ~AccessIsOk(WRITE, pte[q].acc)
      PROVE  Content(q)' = Content(q)
  <2>1. Inv' /\ Effect
    BY <1>1, StepInv
  <2>2. Content(q) # Absent
    BY <1>1, PresentPages DEF Inv
  <2>3. Content(q)' # Absent
    <3>1. Absent \notin Data \cup {Junk}
      BY MarkersAssumption
    <3> QED
      BY <1>1, <2>1, <3>1 DEF Inv, TypeOK, FrameOwnership, ClusterOwnership, OnDisk, Content
  <2> QED
    BY <1>1, <2>1, <2>2, <2>3 DEF Effect, Becomes
<1>2. Inv /\ [Next]_vars =>
        [\A q \in Page :
           pte[q].inseg /\ pte'[q].inseg /\ ~AccessIsOk(WRITE, pte[q].acc)
             => Content(q)' = Content(q)]_vars
  BY <1>1
<1> QED
  BY <1>2, Invariance, PTL DEF Spec, ReadOnlyStable

\* Demand paging implements flat memory.
THEOREM Refinement == Spec => FlatSpec
<1>1. Init => Flat!Init
  BY DEF Init, Flat!Init, Content, NoDescriptor
<1>2. Inv /\ [Next]_vars => [Flat!Next]_([q \in Page |-> Content(q)])
  <2> SUFFICES ASSUME Inv, Effect
               PROVE  Flat!Next \/ UNCHANGED [q \in Page |-> Content(q)]
    BY StepInv
  <2> DEFINE m == [q \in Page |-> Content(q)]
  <2>1. ASSUME NEW S \in SUBSET Page, NEW x, Becomes(S, x)
        PROVE  m' = [q \in Page |-> IF q \in S THEN x ELSE m[q]]
    BY <2>1 DEF Becomes
  <2>2. ASSUME NEW r \in Page, NEW x, Becomes({r}, x)
        PROVE  m' = [m EXCEPT ![r] = x]
    BY <2>2 DEF Becomes
  <2>3. \A q \in Page : m[q] = Content(q)
    OBVIOUS
  <2> HIDE DEF m
  <2>4. CASE Becomes({}, Junk)
    <3>1. m' = m
      BY <2>4 DEF m, Becomes
    <3> QED
      BY <3>1 DEF m
  <2>5. ASSUME NEW S \in SUBSET Page, \A q \in S : Content(q) = Absent, Becomes(S, Junk)
        PROVE  Flat!Map(S)
    BY <2>1, <2>3, <2>5 DEF Flat!Map, m
  <2>6. ASSUME NEW S \in SUBSET Page, \A q \in S : Content(q) # Absent, Becomes(S, Absent)
        PROVE  Flat!Unmap(S)
    BY <2>1, <2>3, <2>6 DEF Flat!Unmap, m
  <2>7. ASSUME NEW q \in Page, NEW d \in Data, Content(q) = Absent, Becomes({q}, d)
        PROVE  Flat!Load(q, d)
    BY <2>2, <2>3, <2>7 DEF Flat!Load, m
  <2>8. ASSUME NEW q \in Page, NEW d \in Data, Content(q) # Absent, Becomes({q}, d)
        PROVE  Flat!Store(q, d)
    BY <2>2, <2>3, <2>8 DEF Flat!Store, m
  <2>9. ASSUME NEW q \in Page, NEW r \in Page, Content(q) # Absent, Content(r) = Absent,
               Becomes({r}, Content(q))
        PROVE  Flat!Copy(q, r)
    BY <2>2, <2>3, <2>9 DEF Flat!Copy, m
  <2> QED
    BY <2>4, <2>5, <2>6, <2>7, <2>8, <2>9 DEF Effect, Flat!Next
<1> QED
  BY <1>1, <1>2, Invariance, PTL DEF Spec, FlatSpec, Flat!Spec


------------------------------------------------------------------------------
(* What makes a load or a clone end.                                       *)

\* us_acquire_page serves whoever asks as long as some frame may be taken.
LEMMA AlwaysServed ==
  ASSUME TypeOK, NEW ignore, NEW f \in UFrames \ ignore
  PROVE  Served(ignore)
<1>1. CASE empty # {}
  BY <1>1 DEF Served, UsAcquirePage
<1>2. CASE empty = {} /\ \E g \in UFrames \ ignore : SwapTargets(g) # {}
  <2>1. PICK g \in UFrames \ ignore : SwapTargets(g) # {}
    BY <1>2
  <2>2. PICK c \in SwapTargets(g) : TRUE
    BY <2>1
  <2>3. UsSwapOut(g, c, ft[g].dirty) \in UsAcquirePage(ignore)
    BY <1>2, <2>2 DEF UsAcquirePage
  <2> QED
    BY <2>3 DEF Served
<1>3. CASE empty = {} /\ \A g \in UFrames \ ignore : SwapTargets(g) = {}
  <2>1. ot[f] = NoCluster /\ free = {}
    BY <1>3 DEF SwapTargets
  <2> QED
    BY <1>3, <2>1 DEF Served, DiskFull
<1> QED
  BY <1>1, <1>2, <1>3

\* One of the pages a loop has left is its next.
LEMMA NextExists ==
  ASSUME Inv, job.todo # {}
  PROVE  \E q \in job.todo : NextOfJob(q)
<1>1. job.todo \subseteq Page
  BY DEF Inv, TypeOK
<1>2. PICK r \in job.todo : TRUE
  OBVIOUS
<1> DEFINE S == {q[2] : q \in {q \in job.todo : q[1] = r[1]}}
<1>3. S \in SUBSET Nat /\ S # {}
  BY <1>1, <1>2 DEF Page, Index
<1>4. PICK x \in S : \A y \in S : x =< y
  BY <1>3, LeastExists
<1>5. PICK q \in job.todo : q[1] = r[1] /\ q[2] = x
  BY <1>4
<1>6. \A p \in job.todo : p[1] = q[1] => q[2] =< p[2]
  BY <1>4, <1>5
<1>7. NextOfJob(q)
  BY <1>6 DEF NextOfJob, PagesOf
<1> QED
  BY <1>7

\* With two frames, of which one is not that of the page being copied, a load or a
\* clone goes on until it is done or the disk is full: no other condition of the code
\* can keep it waiting.  With one frame us_get_victim looks for another forever.
THEOREM NeverStandsStill ==
  ASSUME \E f, g \in UFrames : f # g
  PROVE  Spec => []JobGoesOn
<1>1. Inv => JobGoesOn
  <2> SUFFICES ASSUME Inv, job.todo # {}, ~halted PROVE JobGoesOn
    BY DEF JobGoesOn
  <2>1. PICK q \in job.todo : NextOfJob(q)
    BY NextExists
  <2>2. \A x : Served({}) /\ Served({x})
    <3> SUFFICES ASSUME NEW x PROVE Served({}) /\ Served({x})
      OBVIOUS
    <3>1. PICK f \in UFrames : f \notin {} /\ f \notin {x}
      OBVIOUS
    <3> QED
      BY <3>1, AlwaysServed DEF Inv
  <2> QED
    BY <2>1, <2>2 DEF JobGoesOn
<1> QED
  BY <1>1, Invariance, PTL

\* Each step of the loop leaves less to do or halts, and no step of anybody leaves
\* more while something is left.
THEOREM JobShrinks ==
  Spec => [][/\ job.todo # {} => job'.todo \subseteq job.todo
             /\ JobStep => halted' \/ job'.todo # job.todo]_vars
<1>1. ASSUME Inv, [Next]_vars, job.todo # {}
      PROVE  job'.todo \subseteq job.todo
  <2>1. \A q : Finish(q).todo \subseteq job.todo
    <3> SUFFICES ASSUME NEW q PROVE Finish(q).todo \subseteq job.todo
      OBVIOUS
    <3>1. CASE job.todo \ {q} = {}
      BY <3>1 DEF Finish, Idle
    <3>2. CASE job.todo \ {q} # {}
      BY <3>2 DEF Finish, Inv, TypeOK
    <3> QED
      BY <3>1, <3>2
  <2>2. ASSUME NEW q \in Page, ClonePage(q) PROVE job'.todo \subseteq job.todo
    BY <2>1, <2>2 DEF ClonePage, Halt
  <2>3. ASSUME NEW q \in Page, NEW d \in Data, LoadPage(q, d)
        PROVE  job'.todo \subseteq job.todo
    BY <2>1, <2>3 DEF LoadPage, Halt
  <2>4. ASSUME NEW q \in Page, EvictPage(q) PROVE job' = job
    BY <2>4 DEF EvictPage, Halt
  <2> QED
    BY <1>1, <2>2, <2>3, <2>4 DEF Next, vars, Ready, CanPlace, CreateProcess,
       DeleteProcess, CreateSegment, LoadSegment, DeleteSegment, CloneProcess, PageFault, Write
<1>2. ASSUME Inv, JobStep
      PROVE  halted' \/ job'.todo # job.todo
  <2>1. ASSUME NEW q \in job.todo, job' = Finish(q) PROVE job'.todo # job.todo
    <3>1. CASE job.todo \ {q} = {}
      BY <2>1, <3>1 DEF Finish, Idle
    <3>2. CASE job.todo \ {q} # {}
      BY <2>1, <3>2 DEF Finish, Inv, TypeOK
    <3> QED
      BY <3>1, <3>2
  <2>2. ASSUME NEW q \in Page, ClonePage(q) PROVE halted' \/ job'.todo # job.todo
    BY <2>1, <2>2 DEF ClonePage, NextOfJob, Halt
  <2>3. ASSUME NEW q \in Page, NEW d \in Data, LoadPage(q, d)
        PROVE  halted' \/ job'.todo # job.todo
    BY <2>1, <2>3 DEF LoadPage, NextOfJob, Halt
  <2> QED
    BY <1>2, <2>2, <2>3 DEF JobStep
<1> QED
  BY <1>1, <1>2, Invariance, PTL DEF Spec
=============================================================================
