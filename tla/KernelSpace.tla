----------------------------- MODULE KernelSpace -----------------------------
(***************************************************************************)
(* The kernel space under pressure: the frames that hold master tables     *)
(* and page tables, their locks and owners, the victims of ks_get_victim,  *)
(* and the pointers a process keeps into its master table.                 *)
(*                                                                         *)
(* Scope.  Calls are serialised, as SystemTest does with its mutex, and    *)
(* taken frame by frame: `job' is the call in progress.  A page table      *)
(* describes one page, and the user space is large enough for all of them. *)
(* A full disk halts: with no vacant cluster a step is not enabled.        *)
(* An access through a pointer that does not reach what the code takes it  *)
(* for sets `wild', and what follows is undefined.                         *)
(***************************************************************************)
EXTENDS Integers, Sequences, FiniteSets, FiniteSetsExt, SequencesExt

CONSTANTS
  Procs,      \* process control blocks
  NTables,    \* entries of a master table
  NFrames,    \* kernel frames behind the reserved ones
  NClusters,  \* clusters of the partition
  Calls,      \* calls the clients make
  Returning,  \* clients use processes whose master table is on disk
  Spanning,   \* clients delete segments of more than one page table
  Orphaning,  \* clients go on when a process has left page tables in memory
  Crowding,   \* clients disconnect although some table must leave for it
  Nil         \* a null pointer, cluster or page

Slot    == 0 .. NTables - 1
Frame   == 0 .. NFrames - 1
Cluster == 0 .. NClusters - 1

ASSUME SizesAssumption ==
  NTables \in 1 .. 64 /\ NFrames \in Nat \ {0} /\ NClusters \in Nat \ {0}
ASSUME CallsAssumption ==
  /\ Calls \subseteq {"create", "touch", "delete", "disconnect", "exit", "clone"}
  /\ {Returning, Spanning, Orphaning, Crowding} \subseteq BOOLEAN
ASSUME NilAssumption == Nil \notin Procs \cup Int \cup (Procs \X Slot)

VARIABLES
  k,        \* kernel space: pcb, ft, mem, disk, free, empty, wild
  alive,    \* processes that exist
  segs,     \* segments of each process, as sets of master table entries
  job,      \* the call in progress
  lent,     \* processes that were cloned and have not ended a call since
  served    \* the last page fault, and the access after it, found the page

vars == <<k, alive, segs, job, lent, served>>

Unused == [status |-> "Unused", blk |-> Nil]

\* What a frame or a cluster holds: the L1 entries of a master table, or the
\* page that a page table describes.
Master(l1)  == [kind |-> "master", l1 |-> l1]
Table(page) == [kind |-> "table", page |-> page]
Blank       == [kind |-> "blank"]

NoPcb   == [frame |-> Nil, ptl1 |-> Nil, valid |-> FALSE, disk |-> Nil]
NoFrame == [type |-> "Unused", owner |-> Nil, locked |-> FALSE]
NoCall  == [call |-> "none", proc |-> Nil, from |-> Nil, first |-> Nil,
            todo |-> {}, left |-> {}]

Init ==
  /\ k = [pcb   |-> [p \in Procs |-> NoPcb],
          ft    |-> [f \in Frame |-> NoFrame],
          mem   |-> [f \in Frame |-> Blank],
          disk  |-> [c \in Cluster |-> Blank],
          free  |-> Cluster,
          empty |-> [i \in 1 .. NFrames |-> i - 1],
          wild  |-> FALSE]
  /\ alive = {}
  /\ segs = [p \in Procs |-> {}]
  /\ job = NoCall
  /\ lent = {}
  /\ served = TRUE

------------------------------------------------------------------------------
(* Frames of the kernel space; s is a value of k.                          *)

SetCell(s, owner, cell) ==
  IF s.mem[owner[1]].kind = "master"
  THEN [s EXCEPT !.mem[owner[1]].l1[owner[2]] = cell]
  ELSE [s EXCEPT !.wild = TRUE]

\* ks_get_victim starts anywhere: a frame that is not locked, a master table
\* only if it has no page table in memory that is not locked.
Victims(s) ==
  {f \in Frame :
     /\ ~s.ft[f].locked
     /\ s.ft[f].type = "SegTable" =>
          \A t \in Slot : LET e == s.mem[f].l1[t]
                          IN  e.status = "Present" => s.ft[e.blk].locked}

\* The end of ks_swap_out: the page is written to cluster c, the frame emptied.
WriteBack(s, f, c) ==
  [s EXCEPT !.disk[c] = s.mem[f],
            !.free = @ \ {c},
            !.ft[f].type = "Unused",
            !.empty = Append(@, f)]

\* Mutant: the owner still takes the table to be in memory.
TableOutQuietly(s, f) == WriteBack(s, f, Min(s.free))

\* ks_swap_out of a page table: its owner, an L1 entry, is told the cluster.
TableOut(s, f) ==
  LET c == Min(s.free)
  IN  WriteBack(SetCell(s, s.ft[f].owner, [status |-> "PagedOut", blk |-> c]), f, c)

\* What master_table_evict_children does with entry t: it becomes PagedOut, whether
\* it was used or not.
EvictChild(s, m, t) ==
  [(IF s.mem[m].l1[t].status = "Present" THEN TableOut(s, s.mem[m].l1[t].blk) ELSE s)
     EXCEPT !.mem[m].l1[t].status = "PagedOut"]

\* master_table_evict_children goes through the entries.
EvictChildren(s, p) ==
  LET m == s.pcb[p].ptl1
      after[i \in 0 .. NTables] == IF i = 0 THEN s ELSE EvictChild(after[i - 1], m, i - 1)
  IN  IF s.mem[m].kind = "master" THEN after[NTables] ELSE [s EXCEPT !.wild = TRUE]

\* Mutant: the process is not told that its master table is gone.
MasterOutQuietly(s, f) == WriteBack(s, f, Min(s.free))

\* ks_swap_out of a master table.
MasterOut(s, f) ==
  LET c == Min(s.free)
      p == s.ft[f].owner
      n == EvictChildren([s EXCEPT !.free = @ \ {c}], p)
  IN  WriteBack([n EXCEPT !.pcb[p].disk = c, !.pcb[p].valid = FALSE], f, c)

Pop(s) == [frame |-> Head(s.empty), s |-> [s EXCEPT !.empty = Tail(@)]]

\* ks_acquire_page: the frame and what is left of the kernel space.
Acquire(s) ==
  IF s.empty # <<>> THEN {Pop(s)}
  ELSE {Pop(IF s.ft[f].type = "PageTable" THEN TableOut(s, f) ELSE MasterOut(s, f))
          : f \in {f \in Victims(s) : s.free # {}}}

Entry(type, owner, locked) == [type |-> type, owner |-> owner, locked |-> locked]

\* Mutant: the frame stays locked.
StaysLocked(s, f) == s

Unlock(s, f) == [s EXCEPT !.ft[f].locked = FALSE]

\* swap_master_table(MODE_IN) in frame f: ptl1_ptr and st_ptr are not updated.
BringMaster(s, p, f) ==
  [s EXCEPT !.ft[f] = Entry("SegTable", p, TRUE),
            !.mem[f] = s.disk[s.pcb[p].disk],
            !.free = @ \cup {s.pcb[p].disk},
            !.pcb[p].frame = f,
            !.pcb[p].valid = TRUE]

\* Mutant: a master table that is in memory is not locked.
LooksOnly(s, p) ==
  IF s.pcb[p].valid THEN {s} ELSE {BringMaster(a.s, p, a.frame) : a \in Acquire(s)}

\* master_table_lock.
LockMaster(s, p) ==
  IF s.pcb[p].valid THEN {[s EXCEPT !.ft[s.pcb[p].frame].locked = TRUE]}
  ELSE {BringMaster(a.s, p, a.frame) : a \in Acquire(s)}

\* access_ptl1 goes through ptl1_ptr.
L1(s, p, t) == s.mem[s.pcb[p].ptl1].l1[t]

\* Mutant: the table is not read.
Blanked(s, cell) == Table(Nil)

\* What ks_request_page reads into a frame for a page table whose entry is cell,
\* and the cluster it gives back.
Fetched(s, cell) ==
  IF cell.status = "Unused" THEN Table(Nil) ELSE s.disk[cell.blk]

\* Mutant: the cluster is kept.
FreesNothing(cell) == {}

\* Mutant: the null cluster is marked vacant.
FreesNull(cell) == {cell.blk}

Freed(cell) == IF cell.status = "Unused" THEN {} ELSE {cell.blk}

\* ks_request_page of a page table for entry t, which was cell before.
BringTable(s, p, t, cell, f, locked) ==
  LET at == <<s.pcb[p].ptl1, t>>
      n == [s EXCEPT !.ft[f] = Entry("PageTable", at, locked),
                     !.mem[f] = Fetched(s, cell), !.free = @ \cup Freed(cell)]
  IN  SetCell(n, at, [status |-> "Present", blk |-> f])

\* Entry t cannot be followed: not in a master table, or with no block.
Astray(s, p, t) ==
  IF s.mem[s.pcb[p].ptl1].kind # "master" THEN TRUE
  ELSE L1(s, p, t).status # "Unused" /\ L1(s, p, t).blk = Nil

\* page_table_lock, or a new page table where create_segment finds none, or
\* swap_page_table when not locked: the kernel space with the table in memory.
HaveTable(s, p, t, locked) ==
  IF Astray(s, p, t) THEN {[s EXCEPT !.wild = TRUE]}
  ELSE LET cell == L1(s, p, t)
       IN  IF cell.status = "Present"
           THEN {IF locked THEN [s EXCEPT !.ft[cell.blk].locked = TRUE] ELSE s}
           ELSE {BringTable(a.s, p, t, cell, a.frame, locked) : a \in Acquire(s)}

------------------------------------------------------------------------------
(* Calls.                                                                  *)

\* A halt and a failed assertion end the program.
Going == ~k.wild /\ served

\* Page tables whose owner pointers lead into the frame of no master table.
Orphans ==
  {f \in Frame : /\ k.ft[f].type = "PageTable"
                 /\ \A p \in alive : k.pcb[p].valid => k.ft[f].owner[1] # k.pcb[p].frame}

Ready == job = NoCall /\ Going /\ (Orphaning \/ Orphans = {})

\* A new process with a master table that is empty.
NewProcess(s, p, locked) ==
  {[a.s EXCEPT !.ft[a.frame] = Entry("SegTable", p, locked),
               !.mem[a.frame] = Master([t \in Slot |-> Unused]),
               !.pcb[p] = [NoPcb EXCEPT !.frame = a.frame, !.ptl1 = a.frame,
                                        !.valid = TRUE]] : a \in Acquire(s)}

\* System::createProcess.
CreateProcess(p) ==
  /\ Ready
  /\ p \notin alive
  /\ alive' = alive \cup {p}
  /\ k' \in NewProcess(k, p, FALSE)
  /\ UNCHANGED <<segs, job, lent, served>>

\* clone_process locks the master table of its source and makes the clone's.
CloneProcess(p, q) ==
  /\ Ready
  /\ "clone" \in Calls
  /\ p \in alive /\ q \notin alive
  /\ Returning \/ k.pcb[p].valid
  /\ \E s \in LockMaster(k, p) : k' \in NewProcess(s, q, TRUE)
  /\ alive' = alive \cup {q}
  /\ segs' = [segs EXCEPT ![q] = segs[p]]
  /\ job' = [NoCall EXCEPT !.call = "clone", !.proc = q, !.from = p, !.left = segs[p]]
  /\ UNCHANGED <<lent, served>>

\* A call of process p on entries T begins by locking its master table.
Call(p, call, T, rest) ==
  /\ Ready
  /\ call \in Calls
  /\ p \in alive
  /\ Returning \/ k.pcb[p].valid
  /\ k' \in LockMaster(k, p)
  /\ job' = [call |-> call, proc |-> p, from |-> Nil,
             first |-> IF T = {} THEN Nil ELSE Min(T), todo |-> T, left |-> rest]
  /\ UNCHANGED <<alive, lent, served>>

CreateSegment(p, T) ==
  /\ \A S \in segs[p] : S \cap T = {}
  /\ Call(p, "create", T, {})
  /\ segs' = [segs EXCEPT ![p] = @ \cup {T}]

\* An access to a page of a segment, with the page fault if it is needed.
Touch(p, t) ==
  /\ \E S \in segs[p] : t \in S
  /\ Call(p, "touch", {t}, {})
  /\ UNCHANGED segs

DeleteSegment(p, T) ==
  /\ T \in segs[p]
  /\ Spanning \/ Cardinality(T) = 1
  /\ Call(p, "delete", T, {})
  /\ segs' = [segs EXCEPT ![p] = @ \ {T}]

\* The page tables of segment T that are on disk have room.
Fits(p, T) ==
  /\ k.pcb[p].valid
  /\ Cardinality({t \in T : L1(k, p, t).status # "Present"}) <= Len(k.empty)

\* disconnect_shared_segment, also as delete_shared_segment does it for every user:
\* delete_segment_ind again, but nobody has locked the master table.
Disconnect(p, T) ==
  /\ Ready
  /\ "disconnect" \in Calls
  /\ p \in alive
  /\ T \in segs[p]
  /\ Spanning \/ Cardinality(T) = 1
  /\ Returning \/ k.pcb[p].valid
  /\ Crowding \/ Fits(p, T)
  /\ segs' = [segs EXCEPT ![p] = @ \ {T}]
  /\ job' = [NoCall EXCEPT !.call = "disconnect", !.proc = p, !.first = Min(T), !.todo = T]
  /\ UNCHANGED <<k, alive, lent, served>>

\* ~KernelProcess.
DeleteProcess(p) ==
  /\ Spanning \/ \A S \in segs[p] : Cardinality(S) = 1
  /\ Call(p, "exit", {}, segs[p])
  /\ segs' = [segs EXCEPT ![p] = {}]

Running(call) == job.call = call /\ Going
Next1 == Min(job.todo)

\* Mutant: the loop does not advance.
Again == job.todo

Rest == job.todo \ {Next1}

\* One iteration of create_segment's loop.
CreatePage ==
  /\ Running("create") /\ job.todo # {}
  /\ \E s \in HaveTable(k, job.proc, Next1, TRUE) :
       k' = IF s.wild THEN s
            ELSE LET f == L1(s, job.proc, Next1).blk
                 IN  Unlock([s EXCEPT !.mem[f] = Table(<<job.proc, Next1>>)], f)
  /\ job' = [job EXCEPT !.todo = Rest]
  /\ UNCHANGED <<alive, segs, lent, served>>

\* page_fault brings in the page table and the access is tried again; with no
\* page table it halts ("Master table error").
Serve ==
  /\ Running("touch") /\ job.todo # {}
  /\ LET p    == job.proc
         lost == ~Astray(k, p, Next1) /\ L1(k, p, Next1).status = "Unused"
     IN  \E s \in (IF lost THEN {k} ELSE HaveTable(k, p, Next1, FALSE)) :
           /\ k' = s
           /\ served' = (~lost /\ (s.wild \/ s.mem[L1(s, p, Next1).blk]
                                              = Table(<<p, Next1>>)))
  /\ job' = [job EXCEPT !.todo = {}]
  /\ UNCHANGED <<alive, segs, lent>>

\* One iteration of delete_segment_ind: the table it locks is the first one of
\* the segment, the descriptor is taken from the table of the page.
DeletePage ==
  /\ job.call \in {"delete", "disconnect", "exit"} /\ Going /\ job.todo # {}
  /\ \E s \in HaveTable(k, job.proc, job.first, TRUE) :
       k' = IF s.wild THEN s
            ELSE LET e == L1(s, job.proc, Next1)
                     n == Unlock(s, L1(s, job.proc, job.first).blk)
                 IN  IF e.status = "Present" THEN [n EXCEPT !.mem[e.blk] = Table(Nil)]
                     ELSE [n EXCEPT !.wild = TRUE]
  /\ job' = [job EXCEPT !.todo = Rest]
  /\ UNCHANGED <<alive, segs, lent, served>>

\* Mutant: the clone goes on using the page of its source.
CopiedWhole(page, q) == page

\* The descriptor as clone_segment_from copies it, for process q.
Copied(page, q) == IF page = Nil THEN Nil ELSE <<q, page[2]>>

\* One iteration of clone_segment_from: both page tables are locked, the descriptor
\* copied, both unlocked; without a page table of the source it halts.
ClonePage ==
  /\ Running("clone") /\ job.todo # {}
  /\ \E d \in HaveTable(k, job.proc, Next1, TRUE) :
       LET lost == d.wild \/ Astray(d, job.from, Next1)
                     \/ L1(d, job.from, Next1).status = "Unused"
       IN  \E s \in (IF lost THEN {[d EXCEPT !.wild = TRUE]}
                     ELSE HaveTable(d, job.from, Next1, TRUE)) :
             LET to   == L1(s, job.proc, Next1).blk
                 from == L1(s, job.from, Next1).blk
             IN  k' = IF s.wild THEN s
                      ELSE Unlock(Unlock([s EXCEPT !.mem[to] =
                             Table(Copied(s.mem[from].page, job.proc))], from), to)
  /\ job' = [job EXCEPT !.todo = Rest]
  /\ UNCHANGED <<alive, segs, lent, served>>

\* The destructor, or clone_process, goes on with another segment.
NextSegment ==
  /\ job.call \in {"exit", "clone"} /\ Going /\ job.todo = {}
  /\ \E T \in job.left :
       job' = [job EXCEPT !.first = Min(T), !.todo = T, !.left = @ \ {T}]
  /\ UNCHANGED <<k, alive, segs, lent, served>>

\* A call ends by unlocking the master table.
Return ==
  /\ job.call \in {"create", "touch", "delete"} /\ Going /\ job.todo = {}
  /\ k' = Unlock(k, k.pcb[job.proc].frame)
  /\ job' = NoCall
  /\ lent' = lent \ {job.proc}
  /\ UNCHANGED <<alive, segs, served>>

\* disconnect_shared_segment ends and unlocks nothing.
Disconnected ==
  /\ Running("disconnect") /\ job.todo = {}
  /\ job' = NoCall
  /\ UNCHANGED <<k, alive, segs, lent, served>>

\* clone_process ends with ks_ft_update of the clone's master table, which unlocks
\* it; the master table of the source stays locked.
Cloned ==
  /\ Running("clone") /\ job.todo = {} /\ job.left = {}
  /\ LET f == k.pcb[job.proc].frame
     IN  k' = [k EXCEPT !.ft[f] = Entry("SegTable", job.proc, FALSE)]
  /\ job' = NoCall
  /\ lent' = lent \cup {job.from}
  /\ UNCHANGED <<alive, segs, served>>

\* The destructor ends by giving back the frame of the master table, but not the
\* frames and clusters of the page tables.
Gone ==
  /\ Running("exit") /\ job.todo = {} /\ job.left = {}
  /\ LET f == k.pcb[job.proc].frame
     IN  k' = [Unlock(k, f) EXCEPT !.empty = Append(@, f), !.pcb[job.proc] = NoPcb]
  /\ alive' = alive \ {job.proc}
  /\ lent' = lent \ {job.proc}
  /\ job' = NoCall
  /\ UNCHANGED <<segs, served>>

Interval == {a .. b : a, b \in Slot} \ {{}}

Next ==
  \/ \E p \in Procs : CreateProcess(p) \/ DeleteProcess(p)
  \/ \E p, q \in Procs : CloneProcess(p, q)
  \/ \E p \in Procs, T \in Interval :
       CreateSegment(p, T) \/ DeleteSegment(p, T) \/ Disconnect(p, T)
  \/ \E p \in Procs, t \in Slot : Touch(p, t)
  \/ CreatePage \/ Serve \/ DeletePage \/ ClonePage \/ NextSegment
  \/ Return \/ Disconnected \/ Cloned \/ Gone

Spec == Init /\ [][Next]_vars

\* The thread inside a call goes on with it.
Step ==
  \/ CreatePage \/ Serve \/ DeletePage \/ ClonePage \/ NextSegment
  \/ Return \/ Disconnected \/ Cloned \/ Gone

FairSpec == Spec /\ WF_vars(Step)

------------------------------------------------------------------------------
(* Properties.                                                             *)

Cells    == [status : {"Unused", "PagedOut", "Present"}, blk : Frame \cup Cluster \cup {Nil}]
Contents == {Master(l1) : l1 \in [Slot -> Cells]}
              \cup {Table(q) : q \in (Procs \X Slot) \cup {Nil}} \cup {Blank}

KernelTypeOK ==
  /\ k.pcb \in [Procs -> [frame : Frame \cup {Nil}, ptl1 : Frame \cup {Nil},
                          valid : BOOLEAN, disk : Cluster \cup {Nil}]]
  /\ k.ft \in [Frame -> [type : {"Unused", "SegTable", "PageTable"}, locked : BOOLEAN,
                         owner : Procs \cup (Frame \X Slot) \cup {Nil}]]
  /\ \A f \in Frame : k.mem[f] \in Contents
  /\ \A c \in Cluster : k.disk[c] \in Contents
  /\ k.free \subseteq Cluster
  /\ k.empty \in Seq(Frame)
  /\ alive \subseteq Procs /\ lent \subseteq alive
  /\ \A p \in Procs : segs[p] \subseteq SUBSET Slot
  /\ {k.wild, served} \subseteq BOOLEAN

\* The L1 entry of a process, in its master table wherever that is.
EntryOf(p, t) ==
  IF k.pcb[p].valid THEN k.mem[k.pcb[p].frame].l1[t] ELSE k.disk[k.pcb[p].disk].l1[t]

\* An unused entry of an evicted master table is PagedOut, with no cluster.
OnDisk(p, t) == EntryOf(p, t).status = "PagedOut" /\ EntryOf(p, t).blk # Nil

\* The page that entry describes, wherever its page table is.
Mapped(p, t) ==
  CASE EntryOf(p, t).status = "Present" -> k.mem[EntryOf(p, t).blk]
    [] OnDisk(p, t) -> k.disk[EntryOf(p, t).blk]
    [] OTHER -> Table(Nil)

\* Frame table and tables agree: the owner of every table in memory is the very
\* entry that points at it, so that ks_swap_out tells the right one, no frame is
\* both on the list and in use, and a process reads the table it has.
TablesOwned ==
  /\ \A p \in alive : k.pcb[p].valid =>
       LET m == k.pcb[p].frame
       IN  /\ k.pcb[p].ptl1 = m
           /\ k.ft[m].type = "SegTable" /\ k.ft[m].owner = p
           /\ \A t \in Slot : k.mem[m].l1[t].status = "Present" =>
                LET f == k.mem[m].l1[t].blk
                IN  k.ft[f].type = "PageTable" /\ k.ft[f].owner = <<m, t>>
  /\ \A i \in 1 .. Len(k.empty) : k.ft[k.empty[i]].type = "Unused"

\* Tables survive their evictions: outside the calls that map and unmap, every page
\* of a segment, and no other, has its descriptor, in memory or on disk.
MappingKept ==
  \A p \in alive : job.proc # p \/ job.call = "touch" =>
    \A t \in Slot :
      Mapped(p, t) = Table(IF t \in UNION segs[p] THEN <<p, t>> ELSE Nil)

\* Every cluster that is not vacant is held once, by a master table or a page
\* table that is on disk.
ClusterBalance ==
  LET masters == {p \in alive : ~k.pcb[p].valid}
      tables  == {q \in alive \X Slot : OnDisk(q[1], q[2])}
      held    == {k.pcb[p].disk : p \in masters}
                   \cup {EntryOf(q[1], q[2]).blk : q \in tables}
  IN  /\ held = Cluster \ k.free
      /\ Cardinality(held) = Cardinality(masters) + Cardinality(tables)

\* A page fault for a page of a segment is served: page_fault finds its page table and
\* does not halt ("Master table error."), and the access that is tried again, as
\* SystemTest does, finds the descriptor of that page and of no other.
FaultServed == served

\* When no call is in progress the only frames that stay locked are the master
\* tables of processes that were cloned and have not ended a call since: a locked
\* frame is never a victim, and ks_get_victim does not end when all are.
LocksReleased ==
  job = NoCall => {f \in Frame : k.ft[f].locked} = {k.pcb[p].frame : p \in lent}

\* ptl1_ptr, the owner pointers of the frame table and the block numbers of the L1
\* entries lead to master tables and page tables only: none dangles into a frame
\* that has been given to something else.
NoStray == ~k.wild

\* delete_segment_ind finds in memory the page table of every page it deletes.
ParentResident ==
  job.call \in {"delete", "exit"} => ~k.wild

\* ks_get_victim finds a victim whenever a frame is needed and none is empty, also for
\* the second page table of clone_segment_from, which locks both: never are so many
\* frames locked, or tied by locked ones, that it would look for one forever.
VictimFound ==
  /\ k.free # {} => Acquire(k) # {}
  /\ Running("clone") /\ job.todo # {} =>
       \A s \in HaveTable(k, job.proc, Next1, TRUE) : s.free # {} => Acquire(s) # {}

\* The frames and the clusters outnumber the tables there can be.
Roomy == NFrames + NClusters > Cardinality(Procs) * (NTables + 1)

\* ks_swap_out does not halt with "Disk is full.": when a frame has to be emptied
\* there is a vacant cluster for its table. No table that has gone away, come back
\* or been deleted may keep one.
DiskSuffices == Roomy /\ k.empty = <<>> => k.free # {}

\* A call returns: some frame can always be evicted for it.
CallReturns == job # NoCall ~> job = NoCall
=============================================================================
