----------------------------- MODULE UserThreads -----------------------------
(***************************************************************************)
(* Demand paging by several threads at once.  Thread t calls on process t; *)
(* a call is a sequence of steps, one for each section that a mutex makes  *)
(* atomic and one for each use of shared data outside of them.  Empty      *)
(* pages and vacant clusters are kept as in FreeSpace.                     *)
(*                                                                         *)
(* Scope.  Segments have one page, every page may be written, no table     *)
(* leaves the kernel space, and the disk has a cluster for every page.     *)
(* Where us_swap_out would HALT, at a victim that is not a user page, the  *)
(* model has no step.                                                      *)
(***************************************************************************)
EXTENDS FreeSpace, FiniteSets

CONSTANTS
  Threads,
  Page,       \* the pages each thread uses, pairs of a thread and a number
  Data,       \* page contents a client can supply
  Careful,    \* clients let calls overlap only where no page has to leave
  NoThread, NoPage, NoCluster, NoFrame, Junk, Absent

ASSUME ThreadsAssumption ==
  /\ NoThread \notin Threads
  /\ Page \subseteq Threads \X Nat
  /\ Careful \in BOOLEAN
ASSUME ContentsAssumption ==
  /\ Data \cap Frame = {}
  /\ {Nil, NoPage} \cap Data = {}
  /\ Absent \notin Data \cup {Junk}
  /\ NoPage \notin Page /\ NoFrame \notin Frame /\ NoCluster \notin Cluster

VARIABLES
  list,     \* us_empty_lhead, us_empty_ltail, us_empty_count
  holder,   \* the thread that has mutex_uslst for more than one step
  dvt,      \* disk vacancy table
  ft,       \* user frame table: owning descriptor, type and dirty flag
  ot,       \* origin table
  pte,      \* second-level descriptor of each page
  mem,      \* content of the user frames; an empty one holds a link
  disk,     \* content of the clusters
  at        \* at[t]: where thread t is in its call, and its local variables

vars == <<list, holder, dvt, ft, ot, pte, mem, disk, at>>

NoDescriptor ==
  [inseg |-> FALSE, valid |-> FALSE, tbc |-> FALSE, blk |-> NoFrame]

Idle ==
  [pc |-> "idle", page |-> NoPage, frame |-> NoFrame, cluster |-> NoCluster,
   dirty |-> FALSE]

Init ==
  /\ list = LinkedList
  /\ holder = NoThread
  /\ dvt = InitialDvt
  /\ ft = [f \in Frame |-> [owner |-> NoPage, used |-> FALSE, dirty |-> FALSE]]
  /\ ot = [f \in Frame |-> NoCluster]
  /\ pte = [q \in Page |-> NoDescriptor]
  /\ mem = LinkedPages
  /\ disk = [c \in Cluster |-> Junk]
  /\ at = [t \in Threads |-> Idle]

------------------------------------------------------------------------------
(* Sections of KernelSystem.                                               *)

\* lst_get_empty_page, when a page is empty.
Popped ==
  [frame |-> list.head, list |-> LstGetEmptyPage(list, mem), ft |-> ft, pte |-> pte,
   mem |-> mem, disk |-> disk, dvt |-> dvt]

SwappedOut(d, c) == [d EXCEPT !.blk = c, !.valid = FALSE]

\* Mutant: only the frame table's dirty flag decides.
WrittenIfOwned(v) == ft[v.frame].dirty

Written(v) == v.dirty \/ v.cluster = NoCluster

\* us_swap_out of victim v, and lst_get_empty_page of the page it returned.
SwapOut(v) ==
  {[frame |-> v.frame,
    list  |-> LET returned == LstReturnPage(list, v.frame)
              IN  LstGetEmptyPage(returned, LinksOfReturn(list, mem, v.frame)),
    ft    |-> [ft EXCEPT ![v.frame].used = FALSE],
    pte   |-> [pte EXCEPT ![ft[v.frame].owner] = SwappedOut(@, to.cluster)],
    mem   |-> LinksOfReturn(list, mem, v.frame),
    disk  |-> IF Written(v) THEN [disk EXCEPT ![to.cluster] = mem[v.frame]] ELSE disk,
    dvt   |-> to.dvt] :
   to \in IF v.cluster = NoCluster THEN DvtAcquireCluster(dvt)
          ELSE {[cluster |-> v.cluster, dvt |-> dvt]}}

\* us_get_victim.
VictimAt(f) == [frame |-> f, dirty |-> ft[f].dirty, cluster |-> ot[f]]

Victims == {VictimAt(f) : f \in {g \in Frame : ft[g].used}}

\* A frame that was acquired: what the section leaves.
Take(r) ==
  /\ list' = r.list
  /\ pte' = r.pte
  /\ disk' = r.disk
  /\ dvt' = r.dvt

Become(t, pc) == at' = [at EXCEPT ![t].pc = pc]

Finish(t) == at' = [at EXCEPT ![t] = Idle]

------------------------------------------------------------------------------
(* Calls.                                                                  *)

Alone(t) == \A u \in Threads \ {t} : at[u].pc = "idle"

\* Every page that is mapped or about to be has a frame.
Roomy(q) ==
  Cardinality({r \in Page : r = q \/ pte[r].inseg \/ \E u \in Threads : at[u].page = r})
    <= NFrames

\* Thread t may begin a call on page q.
MayCall(t, q) ==
  /\ at[t].pc = "idle"
  /\ Careful => Alone(t) \/ Roomy(q)

CreateSegment(t, q) ==
  /\ MayCall(t, q)
  /\ ~pte[q].inseg
  /\ pte' = [pte EXCEPT ![q] = [inseg |-> TRUE, valid |-> FALSE, tbc |-> TRUE,
                                blk |-> NoFrame]]
  /\ UNCHANGED <<list, holder, dvt, ft, ot, mem, disk, at>>

\* page_fault up to lst_get_empty_page in us_acquire_page.
PageFault(t, q) ==
  /\ MayCall(t, q)
  /\ pte[q].inseg
  /\ ~pte[q].valid
  /\ holder = NoThread
  /\ \/ /\ list.count # 0
        /\ Take(Popped)
        /\ at' = [at EXCEPT ![t] = [Idle EXCEPT !.pc = "update", !.page = q,
                                                !.frame = list.head]]
        /\ UNCHANGED <<holder, ft, ot, mem>>
     \/ /\ list.count = 0
        /\ holder' = t
        /\ at' = [at EXCEPT ![t] = [Idle EXCEPT !.pc = "victim", !.page = q]]
        /\ UNCHANGED <<list, dvt, ft, ot, pte, mem, disk>>

GetVictim(t) ==
  /\ at[t].pc = "victim"
  /\ \E v \in Victims :
       at' = [at EXCEPT ![t] = [pc |-> "evict", page |-> @.page, frame |-> v.frame,
                                cluster |-> v.cluster, dirty |-> v.dirty]]
  /\ UNCHANGED <<list, holder, dvt, ft, ot, pte, mem, disk>>

\* us_swap_out in us_acquire_page, and the rest under mutex_uslst.
Evict(t) ==
  /\ at[t].pc = "evict"
  /\ ft[at[t].frame].used
  /\ \E r \in SwapOut([frame |-> at[t].frame, cluster |-> at[t].cluster,
                       dirty |-> at[t].dirty]) :
       Take(r) /\ ft' = r.ft /\ mem' = r.mem
  /\ holder' = NoThread
  /\ Become(t, "update")
  /\ UNCHANGED ot

UsFtUpdate(t) ==
  /\ at[t].pc = "update"
  /\ ft' = [ft EXCEPT ![at[t].frame] = [owner |-> at[t].page, used |-> TRUE,
                                        dirty |-> FALSE]]
  /\ Become(t, "request")
  /\ UNCHANGED <<list, holder, dvt, ot, pte, mem, disk>>

\* The rest of us_request_page: the origin of the page, and its content.
UsRequestPage(t) ==
  LET f == at[t].frame
      q == at[t].page
  IN  /\ at[t].pc = "request"
      /\ ot' = [ot EXCEPT ![f] = IF pte[q].tbc THEN NoCluster ELSE pte[q].blk]
      /\ mem' = IF pte[q].tbc THEN mem ELSE [mem EXCEPT ![f] = disk[pte[q].blk]]
      /\ Become(t, "serve")
      /\ UNCHANGED <<list, holder, dvt, ft, pte, disk>>

\* The rest of page_fault: the descriptor.
Serve(t) ==
  /\ at[t].pc = "serve"
  /\ pte' = [pte EXCEPT ![at[t].page].blk = at[t].frame, ![at[t].page].valid = TRUE,
                        ![at[t].page].tbc = FALSE]
  /\ Finish(t)
  /\ UNCHANGED <<list, holder, dvt, ft, ot, mem, disk>>

\* load_segment up to the end of us_load_page, which has both mutexes.
UsLoadPage(t, q, d) ==
  /\ MayCall(t, q)
  /\ ~pte[q].inseg
  /\ holder = NoThread
  /\ \E r \in IF list.count # 0 THEN {Popped} ELSE UNION {SwapOut(v) : v \in Victims} :
       /\ Take(r)
       /\ ft' = [r.ft EXCEPT ![r.frame] = [owner |-> q, used |-> TRUE, dirty |-> FALSE]]
       /\ ot' = [ot EXCEPT ![r.frame] = NoCluster]
       /\ mem' = [r.mem EXCEPT ![r.frame] = d]
       /\ at' = [at EXCEPT ![t] = [Idle EXCEPT !.pc = "loaded", !.page = q,
                                               !.frame = r.frame]]
  /\ UNCHANGED holder

\* The rest of load_segment: the descriptor.
Loaded(t) ==
  /\ at[t].pc = "loaded"
  /\ pte' = [pte EXCEPT ![at[t].page] = [inseg |-> TRUE, valid |-> TRUE, tbc |-> FALSE,
                                         blk |-> at[t].frame]]
  /\ Finish(t)
  /\ UNCHANGED <<list, holder, dvt, ft, ot, mem, disk>>

\* access(WRITE); the client then stores through the address.
Access(t, q) ==
  /\ MayCall(t, q)
  /\ pte[q].valid
  /\ ft' = [ft EXCEPT ![pte[q].blk].dirty = TRUE]
  /\ at' = [at EXCEPT ![t] = [Idle EXCEPT !.pc = "store", !.page = q,
                                          !.frame = pte[q].blk]]
  /\ UNCHANGED <<list, holder, dvt, ot, pte, mem, disk>>

Store(t, d) ==
  /\ at[t].pc = "store"
  /\ mem' = [mem EXCEPT ![at[t].frame] = d]
  /\ Finish(t)
  /\ UNCHANGED <<list, holder, dvt, ft, ot, pte, disk>>

\* Mutant: only the cluster of a page on disk is given back.
OnDiskOnly(q) == IF pte[q].valid \/ pte[q].tbc THEN NoCluster ELSE pte[q].blk

\* What delete_segment_ind has to mark vacant: the origin of the page's frame, or
\* the cluster it is in.
ClusterHeld(q) ==
  CASE pte[q].valid                 -> ot[pte[q].blk]
    [] ~pte[q].valid /\ pte[q].tbc  -> NoCluster
    [] ~pte[q].valid /\ ~pte[q].tbc -> pte[q].blk

\* delete_segment up to the end of dvt_mark.
DeleteSegment(t, q) ==
  /\ MayCall(t, q)
  /\ pte[q].inseg
  /\ dvt' = IF ClusterHeld(q) = NoCluster THEN dvt ELSE DvtMark(dvt, ClusterHeld(q), TRUE)
  /\ at' = [at EXCEPT ![t] = [Idle EXCEPT !.pc = "return", !.page = q,
                               !.frame = IF pte[q].valid THEN pte[q].blk ELSE NoFrame]]
  /\ UNCHANGED <<list, holder, ft, ot, pte, mem, disk>>

UsFreePage(t) ==
  /\ at[t].pc = "return"
  /\ IF at[t].frame = NoFrame THEN UNCHANGED <<list, mem>>
     ELSE /\ holder = NoThread
          /\ list' = LstReturnPage(list, at[t].frame)
          /\ mem' = LinksOfReturn(list, mem, at[t].frame)
  /\ Become(t, "forget")
  /\ UNCHANGED <<holder, dvt, ft, ot, pte, disk>>

Forget(t) ==
  /\ at[t].pc = "forget"
  /\ pte' = [pte EXCEPT ![at[t].page] = NoDescriptor]
  /\ Finish(t)
  /\ UNCHANGED <<list, holder, dvt, ft, ot, mem, disk>>

------------------------------------------------------------------------------
Begin(t) ==
  \E q \in {r \in Page : r[1] = t} :
    \/ CreateSegment(t, q) \/ DeleteSegment(t, q) \/ PageFault(t, q) \/ Access(t, q)
    \/ \E d \in Data : UsLoadPage(t, q, d)

Continue(t) ==
  \/ GetVictim(t) \/ Evict(t) \/ UsFtUpdate(t) \/ UsRequestPage(t) \/ Serve(t)
  \/ Loaded(t) \/ UsFreePage(t) \/ Forget(t)
  \/ \E d \in Data : Store(t, d)

Next == \E t \in Threads : Begin(t) \/ Continue(t)

Spec == Init /\ [][Next]_vars

------------------------------------------------------------------------------
(* Properties.                                                             *)

\* The frames a thread has taken from the list and not given to a descriptor yet,
\* and those it has returned before the descriptor is told.
InHand(t, f) ==
  /\ at[t].frame = f
  /\ at[t].pc \in {"update", "request", "serve", "loaded"}

Mapped(q, f) ==
  /\ pte[q].valid /\ pte[q].blk = f
  /\ ~\E t \in Threads : at[t].pc = "forget" /\ at[t].page = q

\* The list of empty pages is well formed, and holds exactly the frames that no
\* thread has in hand and no descriptor has: whatever the order in which threads
\* take and return pages, none is lost and none is given out twice.
FramesAccounted ==
  /\ \E s \in [1 .. list.count -> Frame] :
       /\ Represents(list, mem, s)
       /\ \A f \in Frame :
            (\E i \in DOMAIN s : s[i] = f) <=>
              /\ \A t \in Threads : ~InHand(t, f)
              /\ \A q \in Page : ~Mapped(q, f)
  /\ \A f \in Frame :
       Cardinality({t \in Threads : InHand(t, f)} \cup {q \in Page : Mapped(q, f)}) <= 1

\* A cluster some page needs: on disk, origin of its frame, or being given back.
Holds(q, c) ==
  LET leaving == \E t \in Threads : at[t].page = q /\ at[t].pc \in {"return", "forget"}
  IN  ~leaving /\ pte[q].inseg /\ ClusterHeld(q) = c

\* The bits of the vacancy table say which clusters no page holds, and two pages
\* never hold one cluster.
ClustersAccounted ==
  /\ NoPadding(dvt)
  /\ \A c \in Cluster : c \in Vacant(dvt) <=> \A q \in Page : ~Holds(q, c)
  /\ \A q, r \in Page, c \in Cluster : Holds(q, c) /\ Holds(r, c) => q = r

\* The content of a page as its process sees it, while others use theirs.
Content(q) ==
  LET deleted == \E t \in Threads : at[t].page = q /\ at[t].pc \in {"return", "forget"}
      stored  == IF pte[q].valid THEN mem[pte[q].blk]
                 ELSE IF pte[q].tbc THEN Junk ELSE disk[pte[q].blk]
  IN  IF ~pte[q].inseg \/ deleted THEN Absent
      ELSE IF stored \in Data THEN stored ELSE Junk

\* Threads that page at the same time implement flat memory.
Flat == INSTANCE FlatMemory WITH memory <- [q \in Page |-> Content(q)]

FlatSpec == Flat!Spec
=============================================================================
