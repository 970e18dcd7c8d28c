# Virtual memory management: specifications and proofs

The program under `src/OS2_VirtualMem` simulates a virtual memory: a `System`
owns a *user space* and a *kernel space* (arrays of 1024-byte pages) and a disk
of clusters (`Partition`), and gives its `Process`es segments of a 24-bit
address space. A page table has two levels: a *master table* per process (64
L1 entries and 192 segment table entries in one kernel page) and *page tables*
(256 L2 descriptors in one kernel page). User pages, page tables and master
tables can all be evicted to the disk. Segments can be shared under a name, and
processes can be cloned. Eight recursive mutexes protect the data of the system.

Paths below are relative to `src/OS2_VirtualMem`; KS is `KernelSystem.cpp`, KP
`KernelProcess.cpp`.

## 1. Inventory

| Component | State | Operations | What makes it correct |
|---|---|---|---|
| Demand paging (KS 529-748, KP 48-109, 340-691) | user frame table, origin table, list of empty user pages, L2 descriptors, clusters | create, load, page fault, `access`, eviction with a page table, delete, exit, clone; victims are random | a page keeps its content through evictions; frames and descriptors point at each other; each cluster has one holder; a clean page is dropped only if the disk has it |
| Kernel space (KS 310-517, 689-705, KP 111-338) | kernel frame table with locks, list of empty kernel pages, `master_table`, `ptl1_ptr`, `st_ptr`, `mt_disk` of each process | acquire, evict, fetch, lock, unlock, relinquish | the owner recorded for a table is the entry that points at it; a page table comes back as it left; locks end with their calls; a fault finds the descriptor it is to serve |
| Segment table (KP 340-691, `SegTableEntry`) | entries (start page, 14-bit length, kind), `seg_count` | create, load, delete | no overlaps; the client finds what it was granted |
| Shared segments (KS 827-960, KP 824-987) | `sseg_map`, `sseg_vec`, control blocks with lists of users, entries of kind `OccShared`, dummy processes | create/connect, access, page fault, disconnect, delete | registry and processes agree; an index used again shows nobody another segment; all who have a segment see one memory |
| Cloning (KS 963-1030, KP 989-1103) | both processes' tables | clone | a clone is a copy and shares no frame or cluster, but joins the users of shared segments |
| Free space (KS 54-77, 119-176, 231-307) | bits of the vacancy table, lists linked through the empty pages | acquire, mark, get, return | exactly what is not in use is free |
| `ConsVec` | elements, `first_empty`, links | insert, `mark_empty`, `at` | an index stays what it is while in use, and none is lost |
| Mutexes (`KernelSystem.hpp` 104-115) | owner and depth of each | nested by all calls | no deadlock, no race |
| `Partition` (external), wrappers `Process` and `System`, `diag`, `periodic_job`, tests | | | |

**Interaction.** A `Process` call locks its master table in kernel memory,
walks its page tables (locking each) and asks `KernelSystem` for frames. When
the kernel space is full `ks_acquire_page` evicts somebody's table, which
evicts that table's children and *calls back* into the process that owns it;
when the user space is full `us_acquire_page` evicts somebody's page and writes
through the owner pointer of the frame table. Both take clusters from the
vacancy table. The pages of a shared segment belong to a dummy process; the
descriptors of its users hold an index and a page number, and `access` and
`page_fault` start over with the dummy process.

**Hard behaviours.** Stale pointers after an eviction; who holds a cluster; the
clean-copy optimisation; owner pointers of frames whose process has gone; lists
of users of a registry that processes leave without telling; widths of fields;
the disk filling up in the middle of a loop; locks outliving calls; mutexes
nested in different orders, and sections that end too early. The list with
lines is in `PROJECT.json` under `hazards`.

## 2. The modules

| Module | Models | Correspondence |
|---|---|---|
| `FlatMemory` | what demand paging promises | a cell per page, no frames |
| `UserSpace` | demand paging | one action per `Process`/`System` call. `pte` are the L2 descriptors, `ft`/`ot` the frame and origin tables, `empty`/`free`/`mem`/`disk` the memories. A load and a clone take a frame per page, in a loop that may halt halfway, and go page by page (`job`). `EvictPage` is what the eviction of a page table does to one of its pages |
| `UserSpaceProofs` | proofs about `UserSpace` | |
| `FreeSpace` | lists of empty pages and the vacancy table | operators: `LstGetEmptyPage`, `LstReturnPage`, `DvtMark`, `DvtAcquireCluster` on records, links and words of bits |
| `UserThreads` | demand paging by several threads | one action per section between lock and unlock; `at[t]` holds a thread's place and the local variables it carries from one section to the next. Uses `FreeSpace`, implements `FlatMemory` |
| `UserThreadsProofs` | proofs about `FreeSpace` and `UserThreads` | |
| `KernelSpace` | kernel frames, locks, eviction of tables, pointers into master tables, the tables of clones | a call is a sequence of steps (`job`): lock the master table, one step per page table, unlock. `k` is the kernel space as a record, so that helpers such as `TableOut`, `EvictChildren`, `Acquire` are functions from one value to the next, in the order the code calls them |
| `KernelSpaceProofs` | proofs about `KernelSpace` | |
| `SegmentTable` | addresses, sizes, entries with their widths | one action per call; `granted` is what the client was told OK for, `modest` how it has behaved |
| `SegmentTableProofs` | proofs about `SegmentTable` | |
| `ConsVec` | the vector with a list of empty elements | operators on a vector: `New`, `Insert`, `MarkEmpty`, `CanAt` |
| `SharedRegistry` | what the registry promises | a set of attachments |
| `SharedSegments` | registry, index vector, users, entries, descriptors | one action per call; `Disconnect`, `DeleteInd`, `DeleteAll` follow the code's functions |
| `SharedSegmentsProofs` | proofs about `SharedSegments`, and that it implements `SharedRegistry` | |
| `SharedCells` | what shared memory promises | attachments, and a cell per segment |
| `SharedMemory` | shared segments and user space composed | a call of `SharedSegments` and what it does to the dummy process in `UserSpace`, as one action; `Fault` and `Store` go from a process through the index to the page of the dummy |
| `SharedMemoryProofs` | proofs about `SharedMemory`, from those about `SharedSegments` and `UserSpace` | |
| `MutexOrder` | the mutexes and how methods nest them | `Ways(f)` is the set of ways through method `f`, written with `Within` for a lock guard; a thread is the sequence of steps it has left |
| `MutexOrderProofs` | that all methods keep an order of the mutexes, and why this excludes deadlock | |
| `NumberFacts` | lemmas that several proofs need: least and greatest elements, induction over natural numbers | |
| `MC...` | instances for TLC | symmetry sets, constants, a view |

The operators marked `Mutant:` are not part of the model: each is a variant of
the definition that follows it with a plausible mistake in it, and shows that
some property notices that mistake.

### Abstractions

* **Calls are serialised** in `UserSpace`, `KernelSpace`, `SegmentTable`,
  `SharedSegments` and `SharedMemory`. `SystemTest::doInstruction` holds one
  mutex over `access`, `pageFault`, `access` and the store (SystemTest.cpp:20,40).
  Threads inside the calls are the subject of `UserThreads` and `MutexOrder`.
* **UserSpace** leaves the page tables out: a page table that is evicted shows
  only as the eviction of its pages, `EvictPage`, which may happen at any time,
  also in the middle of a load or a clone. Page numbers are below 1024, where the
  masks of KP 455 and 578 do no harm (SegmentTable has the others). The empty list
  is a set: its order decides only which frame is used, and the victim is random
  anyway. Page contents are values of `Data`; a page no one has written holds
  `Junk`. Cluster numbers are not ordered here.
* **UserThreads** has segments of one page and tables that stay in memory. A step
  is a section that a mutex makes atomic, or one use of shared data outside any;
  `us_request_page` after `us_acquire_page` is one step, and so is what
  `page_fault` then does to the descriptor.
* **KernelSpace** has one descriptor per page table (256 in the code), the user
  space always large enough, and no step when the disk is full. A page table is
  the page it describes, `Table(<<p, t>>)`: fetching the wrong one is visible.
  A pointer that does not reach what the code takes it for sets `wild`, after
  which the model stops: the program is then in undefined behaviour.
* **SharedSegments** has all tables in memory and one-page segments at disjoint
  places. The constants `Twice`, `LeaveAttached` and `NotTheirs` say what clients do.
  **SharedMemory** adds the pages: the dummy process named by a segment has one
  page or none, everybody may write it, and private pages are left out.
* **SegmentTable** has all tables in memory; an entry never used holds arbitrary
  numbers from `Leftover`, as `set_master_table` writes only its kind. When
  `entry` is read without a value, `outcome` becomes `wild` and the model stops.
* **What clients ask for.** In `UserSpace`, `UserThreads` and `KernelSpace` a page
  fault follows an access to a page of a segment, and a segment is deleted or
  disconnected by a process that has it: `page_fault` (KP:76-98) does not look at
  the descriptor's segment bit, and calls without a segment are the subject of
  `SegmentTable` (`delete_segment` of any address) and `SharedSegments` (`NotTheirs`).
* **MutexOrder** leaves all data out: every branch that depends on data may be
  taken and every loop may end after any round, apart from the choice of the
  spaces that are too small, which decides whether an acquisition can evict.
* **Symmetry** is used where all properties of a run are safety properties; the
  runs with liveness (`user_job`, `kernel_tables`) go without.
* A `HALT` ends the program: the models have no step after it, and the
  configurations in which one can happen say `CHECK_DEADLOCK FALSE`.

## 3. What the runs show

Passing:

| Run | Instance | Shows |
|---|---|---|
| `user_paging` | 2 processes x 2 pages, 2 frames, 4 clusters, 2 access rights, 2 segments | `TypeOK`, `FrameOwnership`, `ClusterOwnership`, `CleanCopy`, `SegmentsMapped`, `ReadOnlyStable`, and `FlatSpec`: demand paging implements `FlatMemory` |
| `user_job` | the same with 2 clusters and 1 segment, weak fairness | `HaltOnlyWhenFull`, `JobGoesOn`, `JobEnds` |
| `user_threads` | 3 threads with a page each, 2 frames, 3 clusters in words of 2 bits, `Careful` | `FramesAccounted`, `ClustersAccounted`, and `FlatSpec`: threads that page at once implement `FlatMemory` |
| `kernel_tables` | 2 processes x 2 page tables, 3 frames, 4 clusters, weak fairness; create, touch, delete | `KernelTypeOK`, `TablesOwned`, `MappingKept`, `ClusterBalance`, `DiskSuffices`, `FaultServed`, `NoStray`, `CallReturns` |
| `kernel_exit` | 2 processes x 2 page tables, 4 frames, 3 clusters; create, touch, disconnect, clone, exit | `LocksReleased`, `VictimFound`, `MappingKept`, `NoStray` |
| `shared_memory` | 2 processes, 2 places, 2 names, 1 frame, 2 clusters, 2 contents | `SharedTypeOK`, `UsersMatch`, `IndicesKept`, `NeverHalts`, `DummiesKept`, `RegistrySpec` and `CellsSpec`: implements `SharedRegistry` and `SharedCells` |
| `segment_table` | 6 pages, of which the mask reaches 3, 3 entries, any address | `SegmentTypeOK` whatever clients do, `TableTells` for those that were modest |
| `mutex_order` | 2 threads, all calls, one space too small at a time | `NoDeadlock`, `Ranked`, `NoRace` |

The code has defects (below) that break most properties of the kernel space, of
shared segments and of threads, so these are stated for clients that avoid
them. Each restriction is a constant of its module, named for what clients do:

| Constant | Module | Restriction when it is `FALSE` (`Careful`: when `TRUE`) |
|---|---|---|
| `Returning` | `KernelSpace` | nobody uses a process whose master table is on disk |
| `Spanning` | `KernelSpace` | segments that are deleted have one page table |
| `Orphaning` | `KernelSpace` | nobody goes on after a process has left page tables in memory |
| `Crowding` | `KernelSpace` | nobody disconnects from a segment whose page tables would need the frame of another table |
| `Twice` | `SharedSegments` | a process maps a shared segment at most once |
| `LeaveAttached` | `SharedSegments` | a process gives up its shared segments before it exits |
| `NotTheirs` | `SharedSegments` | a process disconnects from, and deletes, segments that it has and no others |
| `Careful` | `UserThreads` | calls overlap only where every page that is mapped, or about to be, has a frame |
| `Mixed` | `MutexOrder` | nobody loads or clones while page tables may be evicted |
| `SharedClones` | `MutexOrder` | nobody clones a process that has shared segments |

In `SegmentTable` the restriction is a variable: `modest` stays `TRUE` for a client
that uses pages below `LowPages` and deletes only what it has. The restrictions
are part of the result: they say under which use the component is right.

**Bounds and why they are enough.** In `user_paging` two frames for four pages
force an eviction on nearly every fault, and an eviction concerns one victim, one
requester and one bystander. With four clusters the disk never fills, with two,
in `user_job`, it fills in the middle of loads and clones. One content besides
`Junk` is enough there to tell apart a page that kept what was stored from one
that lost it or was created anew; that pages do not get each other's contents is
what the theorem `Refinement` shows for any set of contents.

In `user_threads` three pages for two frames make pages leave and the list of
empty pages become empty and fill again, while two of the threads overlap in
everything else; three clusters in words of two bits leave one bit of padding.
TLC compares states by `View`, which drops what nobody reads before writing it:
the table entries of frames that no page has and the content of vacant clusters.
This is sound for `Careful` clients only, as a victim of an overlapping call
could be a frame whose entry is out of date. The run without the view finds the
same, with about 3.9 million states.

In `kernel_tables` three frames with two processes are two master tables and one
page table, or one master table and the tables of one process: with four page
tables every kind of frame is evicted for every other, master tables included.
There are six tables, and four clusters are the fewest for which `Roomy` holds: with
three, all tables can exist with no cluster vacant and no frame empty, and a fault for
a table on disk has nowhere to put the one that would have to make way. (User pages
take clusters of the same partition, and need theirs besides.) In `kernel_exit` a clone needs four
frames, for two master tables and two page tables that are locked at once;
destroyed processes never give back the clusters of their page tables, which is
why it may end with a full disk.

In `shared_memory` two dummy pages compete for one frame, so that every change
between segments is an eviction; two contents tell an old store from a new one.
`MaxShared = 3` lets indices be used again, and both names can be deleted in
either order, which makes the list of empty indices two long. Two processes with
two places make lists of users with up to two entries.

In `segment_table` three low pages out of six are enough for the mask to confuse
two pages, three entries for a hole between two in use, and a page of two bytes
for the test that compares pages with addresses to differ from one that
does not.

In `mutex_order` two threads are enough for a cycle over two mutexes; that more
threads add nothing is the theorem `NoThreadsStuck`. Loops are unbounded: a thread that has gone round once is
where it was before. No run needs a state constraint: the models have finitely
many states, as every counter has the code's own bound, made small
(`MaxSegments`, `MaxShared`).

Runs that end in a violation, each a disagreement between the code and what its
tests, messages or notes say (`findings` in `PROJECT.json`):

| Run | Restriction lifted | What happens |
|---|---|---|
| `kernel_stale` | `Returning` | A master table that returns in another frame is read through the old `ptl1_ptr` (KP:115 does not update it). The old frame has the master table of another process by then, where the entry is unused: `page_fault`, called for a page that has a segment and a page table, ends the program with "Master table error." (KP:64), which says this cannot be. In `main.cpp` five processes share eighteen kernel pages, the reserved ones included, so their master tables and page tables do compete for frames |
| `kernel_parent` | `Spanning` | `delete_segment_ind` locks the table of the first page for all pages (KP:633) and reads a descriptor that is on disk |
| `shared_exit` | `LeaveAttached` | A process ends without disconnecting (KP:26); when its address is used again, deleting the segment halts |
| `mutex_cycle` | both spaces too small | A page fault that evicts a page table takes `mutex_usft` before `mutex_uslst`, one that evicts a user page takes them the other way round (KS:587): both wait for ever |

Other values of the constants show the following, which is listed with the
hazards:

* `Returning = TRUE` in `kernel_tables`: `NoStray` fails, as an entry that
  `master_table_evict_children` turned from unused into paged out, with no cluster,
  is followed (KP:244). In `kernel_stale` with three frames, if the end of the program in
  `page_fault` is not counted, `FaultServed` fails still: the old frame has an entry that
  is in use, and the access goes to a page of the other process.
* `Orphaning = TRUE` with two processes in `kernel_exit`: `LocksReleased` fails, as
  the destructor leaves page tables whose later eviction writes into another
  process's master table (KP:34).
* `Crowding = TRUE` in `kernel_exit`: `NoStray` fails, as `disconnect_shared_segment`
  does not lock the master table it works on (KP:969): bringing in a page table can
  evict it, and the entry is written to whatever took its frame.
* Three processes and clones in four frames with one page table each: the system
  comes to a stop, with all frames locked for sources of clones (KS:971).
* `Twice = TRUE`: `NeverHalts` fails, as the registry drops the wrong user (KS:935).
* `NotTheirs = TRUE`: `NeverHalts` fails. Disconnecting from a name the process is not
  connected to ends the program with "No match found." (KP:967, KS:947); so does, with
  "How did this even happen?", deleting an address again while the process has another
  segment, as the free entry matches (KP:592, 639).
* `Careful = FALSE`, without the view: `FramesAccounted` and `ClustersAccounted` fail
  in three steps and `FlatSpec` in seven, from the windows in `us_acquire_page` and
  `us_request_page` and before the descriptor is written (KS:537, 542, 715, KP:80, 556).
* `SharedClones = TRUE`: `NoDeadlock` fails, as `clone_process` asks for
  `mutex_sseg` with `mutex_pcbvec` locked and `create_shared_segment` for the
  latter with the former. `Mixed = TRUE`: it fails with the kernel space
  alone too small, as `us_load_page` and `clone_process` take `mutex_uslst` before
  `mutex_usft` and the eviction of a page table takes them the other way round.
* `Watched` with `sseg_vec` or `pcb_vec` (KS:1099, 1044), `ot` (KS:715) or, with both
  spaces too small, `rng` (KS:359, 576): `NoRace` fails.
* `SegmentTable` keeps only widths and ranges for clients that are not modest:
  load and delete keep ten bits of a page number (KP:455, 578), a segment of
  all pages has length 0, `delete_segment` takes entries that are free (KP:592).
* `sseg_count` is never decremented (KS:911): `CreateShared` has no step after
  `MaxShared` creations, whatever was deleted since.

**Fairness.** `FairSpec` of `UserSpace` and `KernelSpace` assumes weak fairness
of the steps inside a call only: the thread that runs `load_segment`,
`clone_process` or a kernel call goes on, because a loop in a running thread
does. Nothing is assumed about clients. `user_job` allows halting, where the
program exits. `JobEnds` and `CallReturns` would fail if some step of a call had
no frame to evict. `UserThreads` and `MutexOrder` assume no fairness: what the
mutexes owe the threads is not stated by the code, and `NoDeadlock` is about
waiting, not about being late.

## 4. What is proved

**Demand paging.** `UserSpaceProofs` holds for any number of processes, pages
(up to 1024), frames, clusters, contents and rights, under the assumptions of
`UserSpace`: `PagesAssumption`, `RightsAssumption` and `MarkersAssumption` (the
markers for no page, no cluster and an absent page are not pages, clusters or
contents). No number of frames is assumed; with none the system has no steps
that need one.

`THEOREM Invariance == Spec => []Inv`, where

    Inv == TypeOK /\ FrameOwnership /\ ClusterOwnership /\ CleanCopy
             /\ SegmentsMapped /\ JobSources

The parts lean on each other:

* `FrameOwnership` needs `SegmentsMapped`: a fault or a load installs a page
  only if it is not in memory, which for a load follows from the segment's pages
  being new.
* `ClusterOwnership` needs `FrameOwnership`: an eviction moves the origin
  cluster from the frame to the descriptor of its owner, so the owner must be
  the page that is in the frame, and no other.
* `CleanCopy` needs `ClusterOwnership`: writing a victim to its cluster leaves
  the copies of all others alone only if nobody else holds that cluster. It
  speaks of pages that are clean by the frame table or by their descriptor,
  since `us_get_victim` asks the former and `page_table_evict_children` the latter.
* `JobSources` is what a load or a clone in progress relies on: every page left
  is in a segment of its process, and the page it is copied from is mapped.
  It holds because no other call starts before the loop ends, and an eviction
  with a page table moves pages but unmaps none.

The steps are organised around `us_acquire_page`: `AcquireEmpty` and
`AcquireVictim` state what it leaves behind (`Acquired`: the accounts balance
apart from one frame), `InstallPage` that giving the frame to a page restores
the invariant and changes one cell of the flat memory, `ReleasePages` the same
for deleting a set of pages. `LoadPageStep`, `PageFaultStep` and
`ClonePageStep` are then short. Each step lemma also gives the action's effect
on contents (`Effect`), from which follow `ReadOnlyKept` and `Refinement`:

| Theorem | Statement |
|---|---|
| `TypeCorrect`, `FramesOwned`, `ClustersOwned`, `CopiesClean`, `SegmentsAgree` | the invariants of `user_paging`, always |
| `HaltMeansFull` | `HaltOnlyWhenFull`, always |
| `NeverStandsStill` | `JobGoesOn`, always, if there are two frames or more |
| `JobShrinks` | each step of a load or a clone leaves less to do or halts, and nobody adds to what is left |
| `ReadOnlyKept` | `ReadOnlyStable` |
| `Refinement` | `Spec => FlatSpec` |

`NeverStandsStill` and `JobShrinks` are what `JobEnds` rests on besides fairness: some
page of the loop can always be copied, and there are ever fewer. The two frames are
needed: with one, `us_get_victim` (KS:574-578) that may not take the frame of the page
being copied looks for another forever. With a second, `us_acquire_page` has an empty
frame, or a victim that keeps the cluster it came from or finds a vacant one, or no
victim has either, which is when the code halts.

**Lists and clusters.** The first part of `UserThreadsProofs` holds for any number of frames and any
sizes of the disk and of a word (`FramesAssumption`, `WordsAssumption`).
`Lists(l, link, S)` says that a list, followed through the links in the empty
pages, holds the pages of `S`, each once. `GetFirst` and `ReturnLast` say what
`lst_get_empty_page` and `lst_return_page` do to `S`, the list that has just become
empty included; `TableOK` that no bit behind the end of the disk is set, which is
what keeps `dvt_acquire_cluster` on the disk (`AcquireCluster`), where it finds a
cluster while one is vacant (`AcquireFinds`).

**Threads in the user space.** The rest of `UserThreadsProofs` holds for any number of threads,
pages, frames, clusters and contents, under the assumptions of `UserThreads` and
the hypothesis `Careful`: `FramesNeverLost` and `ClustersNeverLost`. The inductive
invariant says for each place in a call what the thread relies on there
(`Relies`), that every frame is in the list or with exactly one page (`FramesHad`,
where a page *has* a frame also when its thread has taken one for it), that the
frame table knows the page of a frame (`Owned`), that the holders of clusters and
the bits of the table agree (`ClustersHeld`), and what `Careful` is about: while
two threads are inside, all pages mapped or about to be have frames (`Crowd`). So
a thread that finds the list empty is alone inside (`AloneWhenFull`), and stays alone
until it has a frame.

`FlatThreads` is the refinement: `Spec => FlatSpec`. It needs in addition what lies in
frames and on clusters (`Contents`): the empty frames hold the links of their list
and nothing else; a thread that has copied a cluster, or filled a frame, but not yet
told the descriptor has the page's content in its hands (`Filled`); and a clean frame
agrees with the origin cluster it still has, unless its page is being deleted
(`CleanCopy`), since an eviction lets go of clean frames without writing them. There is
one lemma for each step of a call. Each also says what the step does to the flat
memory: it turns at most one cell (`Effect`), and that is a step of `FlatMemory`
(`EffectFlat`).

**Kernel space.** `KernelSpaceProofs` holds for any number of processes, kernel
frames and clusters and up to 64 entries of a master table, under the assumptions of
`KernelSpace` and the hypothesis

    Settled == ~Returning /\ ~Spanning /\ ~Orphaning /\ ~Crowding

which is what section 3 says clients must keep off; without it the properties
fail. The kernel space is a value, so most lemmas are about what a helper makes of
one: `Sound(s, A, H)` says that `s` is right for the processes `A` while the frames
`H` are in hand, taken from the list and not used yet. Its parts are

* `MastersOK`, `EntriesOK`: where a process has its master table, and that each L1
  entry says where its page table is. An entry that was unused when its master
  table left has become `PagedOut` without a cluster (KP:244), and is right too;
* `OwnersOK`: the owner of a page table in memory is the entry that points at it,
  if it lies in a master table at all: those a destroyed process left behind do not;
* `Apart`: no cluster is held twice; `FramesOK`: a frame is on the list, in use or in
  hand, and only frames in use are locked.

`Inv` adds what a call in progress relies on (`JobOK`), that the locked frames are the
master tables of the processes in calls and of sources of clones (`LockedFor`), and that
what an entry leads to is the page it should be, apart from the pages the call has
yet to change (`ContentsOK`). While no process is destroyed it adds `Tight`: no
cluster and no frame is lost. TLC checked `Inv` on two processes with three and four
frames before it was proved.

Most of the work is in evictions. `TableOutWorks` and `MasterOutWorks` say that
`ks_swap_out` keeps what all processes read; the latter needs the loop of
`master_table_evict_children`, a recursive function whose value for every entry is
`SweepExists`. It relies on `Loose`: a master table that is not locked has no locked page
tables, which is why a victim's children can leave with it. `AcquireWorks`,
`HaveTableWorks` and `NewProcessWorks` follow, and on them stand the steps: `DoneOK`
takes those that have changed one page, `EndOK` those that end a call. Between
`page_table_lock` of the two tables of a clone the first must stay where it is,
which holds because it is locked (`BothWork`).

| Theorem | Statement |
|---|---|
| `KernelTypes` | `KernelTypeOK`, always |
| `NoneStrays` | `NoStray`: no pointer dangles |
| `FaultsServed` | `FaultServed`: a fault finds its page table, and the access after it the descriptor |
| `MappingStays` | `MappingKept`: page tables come back as they left, through evictions, cloning and the end of others; a master table on disk still leads to them, though none comes back under `Settled` |
| `LocksBalance` | `LocksReleased`, clones and destructors included |
| `VictimsFound` | `VictimFound` if `NFrames > Cardinality(Procs) + 1` (`Spacious`): `ks_get_victim` ends |
| `DiskNeverFull` | `DiskSuffices` while no process is destroyed: if frames and clusters outnumber the tables there can be (`Roomy`), `ks_swap_out` does not halt with "Disk is full." (KS:424) |
| `FramesFound` | with both bounds, and while no process is destroyed, `ks_acquire_page` always has a frame to give |
| `NoneLeftBehind` | `Orphans` is empty while no process is destroyed |
| `CallShrinks` | every step while a call is in progress ends it or leaves it less to do |
| `OwnersAgree`, `ClustersBalance` | `TablesOwned` and `ClusterBalance` while no process is destroyed (`"exit" \notin Calls`): a destructor leaves the clusters of its page tables taken and its frame marked as a master table (KP:34) |

`VictimsFound` counts: in a call only master tables, one for each process at most, and
the first of the two page tables of a clone are locked, so one frame is not
(`LocksLeaveRoom`); if it holds a master table that is tied by page tables in memory,
one of those may leave (`UnlockedServes`). The bound is the least: `kernel_exit` has just the
four frames its two processes need, and with three, cloning a process with one page
table that had to leave looks for a frame for it forever (KS:385): both master tables
and the clone's page table are locked.

`DiskNeverFull` counts as well. A place is a frame or a cluster; a table lies at one place
at most (`OnePlace`), and where no frame is empty and no cluster vacant a table lies at
every place (`AllTaken`), so there would be no more places than tables (`RoomLeft`).
That needs every page table in memory to have its entry, which is what `NoneLeftBehind`
adds to `Inv`, and clusters that are not vacant to be held (`Tight`). This bound is the
least, too (section 3). So `FramesFound` and `CallShrinks` say what `CallReturns` needs
besides fairness of every instance without `"exit"`; processes that are destroyed use
up the disk.

**Segment table.** `SegmentTableProofs` holds for any widths, any number of entries
and anything in the entries never used. `SegmentTypes` is about all clients.
`ModestClient` needs more than `TableTells` says: no entry below a used one has its
start page, not even a free one (`EntriesTell`), as `delete_segment` does not look
at the kind of the entries it compares (KP:592). It holds because a new segment
gets the first free entry, and a deleted one keeps its start page.

**Shared segments.** `SharedSegmentsProofs` holds for any numbers of processes,
places, names, entries and indices, under the hypothesis

    Tidy == ~Twice /\ ~LeaveAttached /\ ~NotTheirs

`SharedNeverHalts` says by it: a process that gives up what it has is found among the
users, and each user that a deletion visits still has its entry, whatever was cloned,
connected and deleted before. The inductive invariant `SharedInv` has five parts: entries of a segment table and
places belong together one by one, and `seg_count` counts them (`Neat`, in
`TablesOK`; as `delete_segment` matches free entries, and entries never used, `Neat` also says
that no entry before one in use has its place or was never used); the users of a control block are the entries for its index, each once
(`BlocksOK`); the vector's links chain up its empty elements (`Vector`); an index
is in use by the one name the vector has for it, or empty (`IndicesOK`); nothing
has halted or gone astray (`ScalarsOK`). Two facts took most of the work. The
entries of a clone are filled from the first on, so the entries of source and
clone correspond as numbers do to their ranks (`Nth`). And `delete_shared_segment`
is a loop over users, each of which is erased from the table of its process:
`DeleteUserWorks` says what one round keeps, `DeleteAllWorks` that after the last
one nobody refers to the index. The loop is a recursive function on `0 .. Len(users)`;
that it has a value for every argument (`AfterExists`) is proved by induction over
the set of the numbers for which it has.

`ImplementsRegistry` is the refinement: the attachments of `SharedRegistry` are
the pairs of a process and a name that an entry and an index connect, and
every call of `SharedSegments` is a step of `SharedRegistry` or changes none.

**Shared memory.** `SharedMemoryProofs` joins two proofs. It instantiates
`UserSpaceProofs` for dummy processes of one page (`Proofs`), so that its lemmas
about creating and deleting a segment, faults, evictions and stores hold for them; what
`UserSpace` assumes of its constants follows from `MemoryAssumption`
(`UserAssumptions`). The invariant is `SharedInv`, the invariant of `UserSpace`, and
`DummiesOK`, which ties them together: a dummy process has its segment exactly while
its name has a control block. The hypothesis is `Tidy`, as before.

| Theorem | Statement |
|---|---|
| `MemoryImplementsShared` | `MemorySpec => Spec`: with memory behind them shared segments make the same steps, so the theorems about `SharedSegments` hold for `SharedMemory` |
| `DummiesStay` | `DummiesKept`, always |
| `ImplementsCells` | `MemorySpec => CellsSpec`: shared memory implements `SharedCells` |

For `ImplementsCells` each operation has a lemma that says what becomes of the cells
(`Turned`) and, in `SharedSegmentsProofs`, one that says what it is in the registry
(`CreateAttaches`, `DeleteDrops` and so on). A fault or a store goes to the page of
a name through an index; that the process is attached to that name is `Reached`.

**Mutexes.** `MutexOrderProofs` holds for any number of threads and any set of
calls, under the hypothesis `Orderly` (neither `Mixed` nor `SharedClones`, and at most
one of the spaces too small; without one of them `NoDeadlock` fails, see above).
A method is a set of ways, and a way a sequence of steps that may call methods
again, which may recur (`page_fault` and `access` go on with a dummy process,
a master table's children are evicted while one is acquired). `MayEnter(f, g)` says with which mutexes `g`
held method `f` may be called; `WaysFine` shows, method by method, that each way
through `f` gives back the mutexes it takes, takes only what is higher than all
that is held, touches guarded data under their mutex, and calls others as
`MayEnter` asks. What a thread has left to do therefore *runs* in order from what
it holds (`OrderInv`). From this follow

| Theorem | Statement |
|---|---|
| `TakenInOrder` | `Ranked`: mutexes are taken in the order of their ranks |
| `OrderedNoDeadlock`, `NoThreadsStuck` | `Ranked` implies `NoDeadlock`; so it always holds |
| `GuardedData` | `NoRace`, for the data that have a mutex (`Watched \subseteq Guarded`) |

For `OrderedNoDeadlock`: in a group whose members wait for each other, whoever
waits for a mutex waits for one of lower rank than some other member does
(`Higher`), because the one that has it wants another mutex and keeps the order.
There are eight ranks, so no such group can exist.

## 5. What is only model-checked

* Liveness (`JobEnds`, `CallReturns`): the prover does not do fairness. What they
  need besides fairness is proved (`NeverStandsStill` and `JobShrinks`, `FramesFound`
  and `CallShrinks`).

Every safety property of the passing runs has its theorem in section 4, some under the
restrictions on clients of section 3.

## 6. What is not modelled

* `Partition` is a library that is not in the repository; it is taken as an array
  of clusters that never fails.
* `Process` and `System` pass calls on; `diag`, `test`, `periodic_job`,
  `blockIfThrashing` and the `visited_page` hooks change no state. The test
  programs are clients.
* The operations of `ConsVec` that nobody calls (`shrink_to_fit`, `clear`,
  `reserve`, `mark_all_empty`), and its iterators.
* Constructors with spaces of no pages (KS:44, 87, 233): the models begin with at
  least one empty page in each space.
* Threads in the kernel space together with the lock flags of its pages (KP:34, 71,
  KS:385). `MutexOrder` has the sections of these calls, not their data.
* Two threads in `create_shared_segment` between its three sections (KP:864).
* Shared segments of more than one page, connecting with another size than the
  segment has (KP:888), access rights of shared pages, segments beyond the address
  space (KP:344), `access` asked for READ_WRITE (KS:1127).
* Kernel-space steps of `load_segment`, which are those of `create_segment`, and the
  tables of dummy processes, which are like those of any process.

## 7. Plan

Done: `FlatMemory`, `UserSpace`; `FreeSpace`, `UserThreads`;
`KernelSpace` with cloning; `SegmentTable`; `ConsVec`, `SharedRegistry`,
`SharedSegments`, `SharedCells`, `SharedMemory`; `MutexOrder`.

Proved: `UserSpace`, `FreeSpace`, `UserThreads`, `KernelSpace`,
`SegmentTable`, `SharedSegments`, `SharedMemory`, `MutexOrder`.

Next, in this order:

1. Threads in `KernelSpace`, with the lock flags of its frames.
