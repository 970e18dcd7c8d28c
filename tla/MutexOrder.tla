------------------------------ MODULE MutexOrder ------------------------------
(***************************************************************************)
(* The eight recursive mutexes of KernelSystem and the threads that take   *)
(* them.  A method is the set of ways through it, each a sequence of steps *)
(* that lock, unlock, call another method or touch shared data; a thread   *)
(* is the sequence of steps it has left.  What the data are is left out.   *)
(*                                                                         *)
(* Scope.  Every branch of a method that depends on data may be taken, and *)
(* every loop may end after any number of rounds.  The lock flags of       *)
(* kernel pages are not mutexes: setting one touches the frame table.      *)
(***************************************************************************)
EXTENDS Integers, Sequences

CONSTANTS
  Threads,
  Calls,       \* what clients call
  Pressures,   \* which spaces may be too small, together: sets of "user", "kernel"
  Mixed,       \* clients load and clone although tables may be evicted
  SharedClones,\* clients clone processes that have shared segments
  Watched,     \* the shared data of NoRace
  Nobody

Mutexes ==
  {"databus", "sseg", "pcbvec", "uslst", "usft", "kslst", "ksft", "dvt"}

Data == {"us_empty", "ks_empty", "us_ft", "ks_ft", "ot", "dvt", "sseg_map",
         "sseg_vec", "pcb_vec", "rng"}

\* The mutex under which data are touched that no method touches without one.
Guard ==
  [us_empty |-> "uslst", ks_empty |-> "kslst", us_ft |-> "usft", ks_ft |-> "ksft",
   dvt |-> "dvt", sseg_map |-> "sseg"]

Guarded == {"us_empty", "ks_empty", "us_ft", "ks_ft", "dvt", "sseg_map"}

\* What System and Process offer that takes a mutex.
Public ==
  {"page_fault", "access", "get_pa", "create_segment", "load_segment", "delete_segment",
   "create_process", "delete_process", "clone_process", "create_shared_segment",
   "disconnect_shared_segment", "delete_shared_segment"}

ASSUME CallsAssumption == Calls \subseteq Public
ASSUME PressuresAssumption == Pressures \subseteq SUBSET {"user", "kernel"}
ASSUME ClientsAssumption ==
  /\ Watched \subseteq Data
  /\ {Mixed, SharedClones} \subseteq BOOLEAN
ASSUME NobodyAssumption == Nobody \notin Threads

VARIABLES
  small,  \* the spaces that are too small for what is in them
  left,   \* left[t]: the steps thread t has left in its call
  owner,  \* the thread that has a mutex
  depth   \* how often it has locked it

vars == <<small, left, owner, depth>>

------------------------------------------------------------------------------
(* Ways through a method.                                                  *)

Lock(m)   == [op |-> "lock", arg |-> m]
Unlock(m) == [op |-> "unlock", arg |-> m]
Call(f)   == [op |-> "call", arg |-> f]

\* A section that touches data d and does nothing else under mutex m.
Section(m, d) == {<<[op |-> "section", arg |-> m, data |-> d]>>}

Touch(d)   == {<<[op |-> "touch", arg |-> d]>>}
Do(f)      == {<<Call(f)>>}
Nothing    == {<<>>}
Maybe(W)   == Nothing \cup W
Then(V, W) == {v \o w : v \in V, w \in W}

\* RaiiLock: mutex m is locked for the whole of W.
Within(m, W) == {<<Lock(m)>> \o w \o <<Unlock(m)>> : w \in W}

\* W any number of times, where f is the name of the loop.
Loop(W, f) == Maybe(Then(W, Do(f)))

------------------------------------------------------------------------------
(* KernelSystem.                                                           *)

DvtMark           == Section("dvt", "dvt")
DvtAcquireCluster == Section("dvt", "dvt")

KsLockPage   == Section("ksft", "ks_ft")
KsUnlockPage == Section("ksft", "ks_ft")
KsFtUpdate   == Section("ksft", "ks_ft")
KsFreePage   == Section("kslst", "ks_empty")
KsGetVictim  == Within("ksft", Then(Touch("rng"), Touch("ks_ft")))

\* ks_swap_out, which first evicts the children of the table it evicts.
KsSwapOut(children) ==
  Within("ksft", Then(Maybe(DvtAcquireCluster),
                      Then(Do(children), Then(Touch("ks_ft"), KsFreePage))))

KsAcquirePage ==
  LET evict == Then(KsGetVictim, Then(Do("ks_swap_out"), Touch("ks_empty")))
  IN  Then(Within("kslst", Then(Touch("ks_empty"),
                                IF "kernel" \in small THEN Maybe(evict) ELSE Nothing)),
           KsFtUpdate)

KsRequestPage == Then(KsAcquirePage, Maybe(DvtMark))
KsEvictPage   == Then(DvtAcquireCluster, KsSwapOut("page_table_evict_children"))

UsFtUpdate  == Section("usft", "us_ft")

\* Mutant: the list is not locked.
UsFreePageBare == Touch("us_empty")

UsFreePage  == Section("uslst", "us_empty")
UsGetVictim == Within("usft", Then(Touch("rng"), Then(Touch("us_ft"), Touch("ot"))))

UsSwapOut ==
  Within("usft", Then(Maybe(DvtAcquireCluster), Then(Touch("us_ft"), UsFreePage)))

UsAcquirePage ==
  LET evict == Then(UsGetVictim, Then(UsSwapOut, Touch("us_empty")))
  IN  Then(Within("uslst", Then(Touch("us_empty"),
                                IF "user" \in small THEN Maybe(evict) ELSE Nothing)),
           UsFtUpdate)

UsRequestPage == Then(Do("us_acquire_page"), Touch("ot"))
UsEvictPage   == Then(Touch("ot"), UsSwapOut)

\* Mutant: the mutexes in the other order.
UsLoadPageSwapped ==
  Within("usft", Within("uslst", Then(Do("us_acquire_page"), Touch("ot"))))

UsLoadPage  == Within("uslst", Within("usft", Then(Do("us_acquire_page"), Touch("ot"))))
UsClonePage == Within("uslst", Within("usft", Then(Do("us_acquire_page"), Touch("ot"))))

UsRelinquishPage  == Then(Touch("ot"), Then(Maybe(DvtMark), UsFreePage))
RelinquishCluster == DvtMark

CreateProcess ==
  Then(Section("pcbvec", "pcb_vec"),
       Then(Touch("pcb_vec"), Then(Do("ks_acquire_page"), KsFtUpdate)))

ProcessDeleted == Section("pcbvec", "pcb_vec")

\* Mutant: mutex_pcbvec is taken last.
CloneProcessLast ==
  Within("uslst", Within("usft", Within("pcbvec",
    Then(Touch("pcb_vec"),
         Then(Do("master_table_lock"),
              Then(Do("ks_acquire_page"), Then(Do("clone_segments"), KsFtUpdate)))))))

CloneProcess ==
  Within("pcbvec", Within("uslst", Within("usft",
    Then(Touch("pcb_vec"),
         Then(Do("master_table_lock"),
              Then(Do("ks_acquire_page"), Then(Do("clone_segments"), KsFtUpdate)))))))

SharedSegmentFind       == Section("sseg", "sseg_map")
ConnectSharedSegment    == Section("sseg", "sseg_vec")
DisconnectSharedSegment == Section("sseg", "sseg_vec")
SharedSegmentPf == Within("sseg", Then(Touch("sseg_vec"), Do("page_fault_of_dummy")))
SharedSegmentPa == Section("sseg", "sseg_vec")

CreateSharedSegment ==
  Within("sseg", Then(Touch("sseg_map"),
    Then(Do("create_process"), Then(Touch("sseg_vec"), Do("create_segment")))))

DeleteSharedSegment ==
  Within("sseg", Then(Touch("sseg_map"),
    Then(Do("delete_segments"), Then(Do("delete_process"), Touch("sseg_vec")))))

\* access: a page of the process, written or not, a page that is missing, or a
\* page of a shared segment, which is an access to the dummy process.
Access(vector, shared) ==
  Within("databus",
    Then(Touch(vector),
    Then(Do("master_table_lock"),
    Then(Maybe(Section("usft", "us_ft")) \cup shared, KsUnlockPage))))

------------------------------------------------------------------------------
(* KernelProcess.                                                          *)

\* master_table_lock and page_table_lock: a table on disk is requested, another
\* one is locked, which is repeated if it has left meanwhile.
TableLock(f) ==
  Do("ks_request_page") \cup KsLockPage
    \cup Then(KsLockPage, Then(KsUnlockPage, Do(f)))

\* A call on the tables of a process, with its master table locked.
Locked(W) == Then(Do("master_table_lock"), Then(W, KsUnlockPage))

\* The page table of one page, and what is done with the page.
OnPage(W) ==
  Then(Do("ks_request_page") \cup Do("page_table_lock"), Then(W, KsUnlockPage))

PageFault(shared) ==
  Locked(Then(Maybe(Do("ks_request_page")), Maybe(UsRequestPage) \cup shared))

MasterTableEvictChildren ==
  Loop(Then(Do("page_table_evict_children"), KsEvictPage), "master_table_evict_children")

CreatePages == Loop(OnPage(Nothing), "create_pages")
LoadPages   == Loop(OnPage(UsLoadPage), "load_pages")

DeletePages(shared) ==
  LET page == UsRelinquishPage \cup RelinquishCluster \cup Nothing \cup shared
  IN  Then(Do("page_table_lock"), Then(page, KsUnlockPage))

DeleteSegments == Loop(DeletePages(DisconnectSharedSegment), "delete_segments")

ClonePages ==
  LET shared == IF SharedClones THEN ConnectSharedSegment ELSE Nothing
      page   == Nothing \cup shared \cup UsRequestPage \cup UsClonePage
  IN  Loop(OnPage(Then(Do("page_table_lock"), Then(page, KsUnlockPage))),
           "clone_segments")

DeleteProcess ==
  Then(Do("master_table_lock"),
       Then(Do("delete_segments"), Then(KsFreePage, Then(KsUnlockPage, ProcessDeleted))))

CreateShared ==
  Locked(Then(SharedSegmentFind,
         Then(Maybe(Then(CreateSharedSegment, SharedSegmentFind)),
         Then(ConnectSharedSegment, Do("create_pages")))))

\* Neither locks the master table of the process.
DisconnectShared ==
  Then(SharedSegmentFind, Then(DisconnectSharedSegment, Do("delete_segments")))

DeleteShared == Then(SharedSegmentFind, DeleteSharedSegment)

\* The ways through each method, and through the loops in them.
Ways(f) ==
  CASE f = "ks_acquire_page"             -> KsAcquirePage
    [] f = "ks_request_page"             -> KsRequestPage
    [] f = "ks_swap_out"                 -> KsSwapOut("page_table_evict_children")
                                              \cup KsSwapOut("master_table_evict_children")
    [] f = "us_acquire_page"             -> UsAcquirePage
    [] f = "page_table_evict_children"   -> Loop(UsEvictPage, f)
    [] f = "master_table_evict_children" -> MasterTableEvictChildren
    [] f = "master_table_lock"           -> TableLock(f)
    [] f = "page_table_lock"             -> TableLock(f)
    [] f = "page_fault"                  -> PageFault(SharedSegmentPf)
    [] f = "page_fault_of_dummy"         -> PageFault({})
    [] f = "access"                      -> Access("pcb_vec", Do("access_to_dummy"))
    [] f = "access_to_dummy"             -> Access("sseg_vec", {})
    [] f = "get_pa"                      -> Maybe(SharedSegmentPa)
    [] f = "create_segment"              -> Locked(Do("create_pages"))
    [] f = "create_pages"                -> CreatePages
    [] f = "load_segment"                -> Locked(Do("load_pages"))
    [] f = "load_pages"                  -> LoadPages
    [] f = "delete_segment"              -> Locked(Do("delete_segments"))
    [] f = "delete_segments"             -> DeleteSegments
    [] f = "create_process"              -> CreateProcess
    [] f = "delete_process"              -> DeleteProcess
    [] f = "clone_process"               -> CloneProcess
    [] f = "clone_segments"              -> ClonePages
    [] f = "create_shared_segment"       -> CreateShared
    [] f = "disconnect_shared_segment"   -> DisconnectShared
    [] f = "delete_shared_segment"       -> DeleteShared

------------------------------------------------------------------------------
(* Threads.                                                                *)

Init ==
  /\ small \in Pressures
  /\ left = [t \in Threads |-> <<>>]
  /\ owner = [m \in Mutexes |-> Nobody]
  /\ depth = [m \in Mutexes |-> 0]

Begin(t, f) ==
  /\ left[t] = <<>>
  /\ f \in {"load_segment", "clone_process"} => Mixed \/ "kernel" \notin small
  /\ left' = [left EXCEPT ![t] = <<Call(f)>>]
  /\ UNCHANGED <<small, owner, depth>>

\* The step thread t takes next.
At(t, op) == left[t] # <<>> /\ left[t][1].op = op
Arg(t)    == left[t][1].arg
Advance(t) == left' = [left EXCEPT ![t] = Tail(@)]

Free(m, t) == owner[m] \in {Nobody, t}

Enter(t) ==
  /\ At(t, "call")
  /\ \E w \in Ways(Arg(t)) : left' = [left EXCEPT ![t] = w \o Tail(@)]
  /\ UNCHANGED <<small, owner, depth>>

Acquire(t) ==
  /\ At(t, "lock")
  /\ Free(Arg(t), t)
  /\ owner' = [owner EXCEPT ![Arg(t)] = t]
  /\ depth' = [depth EXCEPT ![Arg(t)] = @ + 1]
  /\ Advance(t)
  /\ UNCHANGED small

Release(t) ==
  /\ At(t, "unlock")
  /\ depth' = [depth EXCEPT ![Arg(t)] = @ - 1]
  /\ owner' = IF depth[Arg(t)] = 1 THEN [owner EXCEPT ![Arg(t)] = Nobody] ELSE owner
  /\ Advance(t)
  /\ UNCHANGED small

PassSection(t) ==
  /\ At(t, "section")
  /\ Free(Arg(t), t)
  /\ Advance(t)
  /\ UNCHANGED <<small, owner, depth>>

UseData(t) ==
  /\ At(t, "touch")
  /\ Advance(t)
  /\ UNCHANGED <<small, owner, depth>>

Next ==
  \E t \in Threads :
    \/ \E f \in Calls : Begin(t, f)
    \/ Enter(t) \/ Acquire(t) \/ Release(t) \/ PassSection(t) \/ UseData(t)

Spec == Init /\ [][Next]_vars

------------------------------------------------------------------------------
(* Properties.                                                             *)

\* A thread that waits for a mutex another thread has.
Waits(t) ==
  /\ At(t, "lock") \/ At(t, "section")
  /\ Arg(t) \in Mutexes /\ ~Free(Arg(t), t)

\* No threads wait for each other: "Thread safety: Yes" is said of every method.
NoDeadlock ==
  \A S \in (SUBSET Threads) \ {{}} : ~(\A t \in S : Waits(t) /\ owner[Arg(t)] \in S)

\* An order of the mutexes for each space that may be too small.
Rank ==
  IF "kernel" \in small
  THEN [databus |-> 1, sseg |-> 2, pcbvec |-> 3, kslst |-> 4, ksft |-> 5, usft |-> 6,
        uslst |-> 7, dvt |-> 8]
  ELSE [databus |-> 1, sseg |-> 2, pcbvec |-> 3, uslst |-> 4, usft |-> 5, kslst |-> 6,
        ksft |-> 7, dvt |-> 8]

\* A thread about to take a mutex it does not have, whoever has it.
Wants(t) == (At(t, "lock") \/ At(t, "section")) /\ owner[Arg(t)] # t

\* Mutexes are taken in that order, by everybody: also where nobody is in the way.
Ranked ==
  \A t \in Threads : Wants(t) =>
    \A m \in Mutexes : owner[m] = t => Rank[m] < Rank[Arg(t)]

\* Thread t is about to touch d, and nothing keeps it from doing so.
Touches(t, d) ==
  \/ At(t, "touch") /\ Arg(t) = d
  \/ At(t, "section") /\ left[t][1].data = d /\ Free(Arg(t), t)

\* Two threads never touch the same data at once, unless both take a mutex for it.
NoRace ==
  \A t, u \in Threads, d \in Watched :
    t # u /\ Touches(t, d) /\ Touches(u, d) => At(t, "section") /\ At(u, "section")
=============================================================================
