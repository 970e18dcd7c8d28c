--------------------------- MODULE SharedSegments ---------------------------
(***************************************************************************)
(* Shared segments: the registry sseg_map, the index vector sseg_vec, the  *)
(* control blocks with their lists of users, and in every process the      *)
(* entries of the segment table and the descriptors that refer to them.    *)
(*                                                                         *)
(* Scope.  Calls are serialised, no table leaves memory, and a process has *)
(* no segments but shared ones.  A segment is mapped at a place, one of a  *)
(* few disjoint ranges of pages whose descriptors change together.         *)
(* A call that meets a destroyed process or the entry of a segment table   *)
(* that was never used sets `wild': what follows is undefined.             *)
(***************************************************************************)
EXTENDS Integers, Sequences, FiniteSets, FiniteSetsExt, SequencesExt

CONSTANTS
  Procs,         \* process control blocks
  Places,        \* where a segment can be mapped
  Names,         \* names of shared segments
  MaxSegments,   \* KernelProcess::MAX_SEGMENTS
  MaxShared,     \* KernelSystem::MAX_SHARED_SEGMENTS
  Twice,         \* clients map a segment more than once in a process
  LeaveAttached, \* clients destroy processes that have shared segments
  NotTheirs,     \* clients disconnect or delete segments that the process does not have
  Nil            \* no place, no index, no control block

Entry == 0 .. MaxSegments - 1
Index == 0 .. MaxShared - 1

ASSUME LimitsAssumption == MaxSegments \in 1 .. 192 /\ MaxShared \in 1 .. 256
ASSUME ClientAssumption == {Twice, LeaveAttached, NotTheirs} \subseteq BOOLEAN
ASSUME NilAssumption ==
  /\ Nil \notin Places \cup Names \cup Int
  /\ Nil \notin [index : Index, users : Seq([pcb : Procs, entry : Entry])]

VARIABLES
  st,     \* segment tables: whether an entry is free, and its place
  pages,  \* the shared segment that the descriptors of a place refer to
  count,  \* seg_count of each process
  cb,     \* sseg_map: control block of each name, its index and users
  vec,    \* sseg_vec: the name behind an index
  shared, \* sseg_count
  alive,  \* processes that exist
  halted, \* HALT was reached
  wild    \* a destroyed process or an entry never used was met

Vec == INSTANCE ConsVec

vars == <<st, pages, count, cb, vec, shared, alive, halted, wild>>

FreeEntry == [free |-> TRUE, at |-> Nil]

\* A process as set_master_table leaves it.
Fresh == [st |-> [i \in Entry |-> FreeEntry], pages |-> [a \in Places |-> Nil], count |-> 0]

Init ==
  /\ st = [p \in Procs |-> Fresh.st]
  /\ pages = [p \in Procs |-> Fresh.pages]
  /\ count = [p \in Procs |-> 0]
  /\ cb = [n \in Names |-> Nil]
  /\ vec = Vec!New
  /\ shared = 0
  /\ alive = {}
  /\ halted = FALSE
  /\ wild = FALSE

------------------------------------------------------------------------------
(* Steps of a call, on a record of the state they change.                  *)

Now == [st |-> st, pages |-> pages, count |-> count, users |->
          [n \in Names |-> IF cb[n] = Nil THEN <<>> ELSE cb[n].users],
        halted |-> FALSE, wild |-> FALSE]

\* The segment behind an index; sseg_vec throws when there is none.
NameAt(index) == IF Vec!CanAt(vec, index) THEN vec.data[index] ELSE Nil

Stopped(s) == s.halted \/ s.wild

\* KernelSystem::disconnect_shared_segment: the first user with this process; with
\* none it halts, as it does, by an exception, for an index that is not in use.
Disconnect(s, p, n) ==
  IF n = Nil \/ \A u \in Range(s.users[n]) : u.pcb # p
  THEN [s EXCEPT !.halted = TRUE]
  ELSE [s EXCEPT !.users[n] = RemoveAt(@, SelectInSeq(@, LAMBDA u : u.pcb = p))]

\* Mutant: the control block is not told.
NeverRelease(release) == FALSE

\* delete_segment_ind asks to be disconnected unless its caller has seen to it.
Releases(release) == release

\* delete_segment_ind of entry i; "How did this even happen?" when the pages of
\* the entry are in no segment.  Of an entry never used, which holds whatever the
\* frame held before, anything can come.
DeleteInd(s, p, i, release) ==
  LET a == s.st[p][i].at
  IN  IF a = Nil THEN [s EXCEPT !.wild = TRUE]
      ELSE IF s.pages[p][a] = Nil THEN [s EXCEPT !.halted = TRUE]
      ELSE LET d == IF Releases(release) THEN Disconnect(s, p, NameAt(s.pages[p][a]))
                    ELSE s
           IN  [d EXCEPT !.pages[p][a] = Nil,
                         !.st[p][i].free = TRUE,
                         !.count[p] = @ - 1]

\* Mutant: the last user is forgotten.
AllButLast(users) == Front(users)

\* The users whose entry a deletion visits.
Visited(users) == users

\* What it does with one of them.
DeleteUser(s, u) ==
  IF Stopped(s) THEN s
  ELSE IF u.pcb \notin alive THEN [s EXCEPT !.wild = TRUE]
  ELSE DeleteInd(s, u.pcb, u.entry, FALSE)

\* delete_shared_segment deletes the entry of every user, one after another.
DeleteAll(s, n) ==
  LET users == Visited(s.users[n])
      after[k \in 0 .. Len(users)] ==
        IF k = 0 THEN s ELSE DeleteUser(after[k - 1], users[k])
  IN  after[Len(users)]

\* The state after s when the registry keeps its control blocks.
Keep(s) ==
  /\ st' = s.st
  /\ pages' = s.pages
  /\ count' = s.count
  /\ cb' = [n \in Names |-> IF cb[n] = Nil THEN Nil
                            ELSE [cb[n] EXCEPT !.users = s.users[n]]]
  /\ halted' = s.halted
  /\ wild' = s.wild
  /\ UNCHANGED <<vec, shared, alive>>

------------------------------------------------------------------------------
(* Operations of Process and System.                                       *)

Ready == ~halted /\ ~wild

CreateProcess(p) ==
  /\ Ready
  /\ p \notin alive
  /\ alive' = alive \cup {p}
  /\ st' = [st EXCEPT ![p] = Fresh.st]
  /\ pages' = [pages EXCEPT ![p] = Fresh.pages]
  /\ count' = [count EXCEPT ![p] = 0]
  /\ UNCHANGED <<cb, vec, shared, halted, wild>>

\* ~KernelProcess deletes the segments of kind Occupied only.
DeleteProcess(p) ==
  /\ Ready
  /\ p \in alive
  /\ LeaveAttached \/ \A i \in Entry : st[p][i].free
  /\ alive' = alive \ {p}
  /\ UNCHANGED <<st, pages, count, cb, vec, shared, halted, wild>>

\* Mutant: seg_count is not advanced.
MapUncounted(p, a, index) ==
  LET i == Min({i \in Entry : st[p][i].free})
  IN  /\ st' = [st EXCEPT ![p][i] = [free |-> FALSE, at |-> a]]
      /\ pages' = [pages EXCEPT ![p][a] = index]
      /\ count' = count

\* The entry and the descriptors of p refer to the segment from now on.
Map(p, a, index) ==
  LET i == Min({i \in Entry : st[p][i].free})
  IN  /\ st' = [st EXCEPT ![p][i] = [free |-> FALSE, at |-> a]]
      /\ pages' = [pages EXCEPT ![p][a] = index]
      /\ count' = [count EXCEPT ![p] = @ + 1]

User(p) == [pcb |-> p, entry |-> Min({i \in Entry : st[p][i].free})]

CanMap(p, a) ==
  /\ Ready
  /\ p \in alive
  /\ count[p] # MaxSegments
  /\ \A i \in Entry : st[p][i].free \/ st[p][i].at # a

\* create_shared_segment of a name that is not registered.
CreateShared(p, a, n) ==
  /\ CanMap(p, a)
  /\ cb[n] = Nil
  /\ shared # MaxShared
  /\ vec' = Vec!Insert(vec, n)
  /\ LET index == Vec!InsertAt(vec)
     IN  /\ cb' = [cb EXCEPT ![n] = [index |-> index, users |-> <<User(p)>>]]
         /\ Map(p, a, index)
  /\ shared' = shared + 1
  /\ UNCHANGED <<alive, halted, wild>>

\* create_shared_segment of a name that is registered.
ConnectShared(p, a, n) ==
  /\ CanMap(p, a)
  /\ cb[n] # Nil
  /\ Twice \/ \A b \in Places : pages[p][b] # cb[n].index
  /\ Map(p, a, cb[n].index)
  /\ cb' = [cb EXCEPT ![n].users = Append(@, User(p))]
  /\ UNCHANGED <<vec, shared, alive, halted, wild>>

\* Process::disconnectSharedSegment of a name that is registered; whether the process
\* has the segment nobody asks before the search of its users.
DisconnectShared(p, n) ==
  /\ Ready
  /\ p \in alive
  /\ cb[n] # Nil
  /\ NotTheirs \/ \E b \in Places : pages[p][b] = cb[n].index
  /\ LET first == SelectInSeq(cb[n].users, LAMBDA u : u.pcb = p)
         d     == Disconnect(Now, p, n)
     IN  Keep(IF d.halted THEN d ELSE DeleteInd(d, p, cb[n].users[first].entry, FALSE))

\* The entries that delete_segment may take for place a: the first that begins there,
\* free or not, and any never used before it, whose start page may be any.
Matches(p, a) ==
  {i \in Entry : /\ st[p][i].at \in {a, Nil}
                 /\ \A j \in 0 .. i - 1 : st[p][j].at # a}

\* Process::deleteSegment of a shared one, by its address.
DeleteSegment(p, a) ==
  /\ Ready
  /\ p \in alive
  /\ count[p] # 0
  /\ NotTheirs \/ pages[p][a] # Nil
  /\ \E i \in Matches(p, a) : Keep(DeleteInd(Now, p, i, TRUE))

\* delete_shared_segment: the users lose it, the name is erased; sseg_count stays.
DeleteShared(n) ==
  /\ Ready
  /\ cb[n] # Nil
  /\ LET s == DeleteAll(Now, n)
     IN  /\ st' = s.st
         /\ pages' = s.pages
         /\ count' = s.count
         /\ halted' = s.halted
         /\ wild' = s.wild
  /\ cb' = [cb EXCEPT ![n] = Nil]
  /\ vec' = Vec!MarkEmpty(vec, cb[n].index)
  /\ UNCHANGED <<shared, alive>>

\* Mutant: the clone is entered with the entry of its source.
UserAsSource(p, q, i) == [pcb |-> q, entry |-> i]

\* The user that clone_segment_from connects for entry i of p: the clone's entries
\* are filled from the first on.
CloneUser(p, q, i) ==
  [pcb |-> q, entry |-> Cardinality({j \in 0 .. i - 1 : ~st[p][j].free})]

\* The number in S that k others are below.
Nth(S, k) == CHOOSE i \in S : Cardinality({j \in S : j < i}) = k

\* clone_process: the clone maps what its source maps and joins the users.
CloneProcess(p, q) ==
  /\ Ready
  /\ p \in alive /\ q \notin alive
  /\ LET used   == {i \in Entry : ~st[p][i].free}
         of(n)  == {i \in used : pages[p][st[p][i].at] = cb[n].index}
         new(n) == [k \in 1 .. Cardinality(of(n)) |-> CloneUser(p, q, Nth(of(n), k - 1))]
     IN  /\ st' = [st EXCEPT ![q] = [i \in Entry |->
                     IF i < Cardinality(used) THEN st[p][Nth(used, i)] ELSE FreeEntry]]
         /\ pages' = [pages EXCEPT ![q] = pages[p]]
         /\ count' = [count EXCEPT ![q] = Cardinality(used)]
         /\ cb' = [n \in Names |-> IF cb[n] = Nil THEN Nil
                                   ELSE [cb[n] EXCEPT !.users = @ \o new(n)]]
  /\ alive' = alive \cup {q}
  /\ UNCHANGED <<vec, shared, halted, wild>>

Next ==
  \/ \E p \in Procs : CreateProcess(p) \/ DeleteProcess(p)
  \/ \E p, q \in Procs : CloneProcess(p, q)
  \/ \E p \in Procs, a \in Places, n \in Names :
       CreateShared(p, a, n) \/ ConnectShared(p, a, n)
  \/ \E p \in Procs, n \in Names : DisconnectShared(p, n)
  \/ \E p \in Procs, a \in Places : DeleteSegment(p, a)
  \/ \E n \in Names : DeleteShared(n)

Spec == Init /\ [][Next]_vars

------------------------------------------------------------------------------
(* Properties.                                                             *)

Users == [pcb : Procs, entry : Entry]

SharedTypeOK ==
  /\ st \in [Procs -> [Entry -> [free : BOOLEAN, at : Places \cup {Nil}]]]
  /\ pages \in [Procs -> [Places -> Index \cup {Nil}]]
  /\ count \in [Procs -> 0 .. MaxSegments]
  /\ \A n \in Names : cb[n] # Nil => cb[n].index \in Index /\ cb[n].users \in Seq(Users)
  /\ DOMAIN vec.data \subseteq Index \cup {0}
  /\ \A i \in DOMAIN vec.data : vec.data[i] \in Names \cup {Nil}
  /\ shared \in 0 .. MaxShared
  /\ alive \subseteq Procs
  /\ {halted, wild} \subseteq BOOLEAN

\* Registry and processes agree: the users of a control block are, each once, the
\* segment table entries whose descriptors carry its index, its index leads back
\* to it, and no descriptor carries an index that is not in use.
UsersMatch ==
  /\ \A n \in Names : cb[n] # Nil =>
       /\ NameAt(cb[n].index) = n
       /\ IsInjective(cb[n].users)
       /\ Range(cb[n].users) =
            {u \in Users : /\ u.pcb \in alive
                           /\ ~st[u.pcb][u.entry].free
                           /\ pages[u.pcb][st[u.pcb][u.entry].at] = cb[n].index}
  /\ \A p \in alive, a \in Places : pages[p][a] # Nil =>
       \E n \in Names : cb[n] # Nil /\ cb[n].index = pages[p][a]

\* What the processes are attached to, as the descriptors have it.
Attached ==
  UNION {{<<p, a, NameAt(pages[p][a])>> : a \in {a \in Places : pages[p][a] # Nil}}
           : p \in alive}

\* Shared segments are what the registry says: mapping one attaches the segment of
\* that name, nobody else's attachments change, and deleting it leaves no process
\* with a page that the next segment of that index would show through.
Registry == INSTANCE SharedRegistry WITH attached <- Attached

RegistrySpec == Registry!Spec

\* As long as clients give up only what their processes have, delete_segment_ind and
\* disconnect_shared_segment find what they look for: the HALTs "How did this even
\* happen?" and "No match found." are not reached, whoever else deleted or cloned
\* segments in between.
NeverHalts == ~halted

\* The empty elements of sseg_vec are linked: an index is given out again only after
\* its segment was deleted, and none is lost.
IndicesKept ==
  /\ Vec!WellLinked(vec)
  /\ {i \in DOMAIN vec.data : ~Vec!IsEmpty(vec, i)}
       = {cb[n].index : n \in {n \in Names : cb[n] # Nil}}
=============================================================================
