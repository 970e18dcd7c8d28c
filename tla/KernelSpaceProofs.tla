--------------------------- MODULE KernelSpaceProofs ---------------------------
(***************************************************************************)
(* For any number of processes, tables, frames and clusters, and clients   *)
(* that avoid what the kernel space gets wrong: owners, tables, clusters   *)
(* and locks stay right.                                                   *)
(*                                                                         *)
(* A kernel space is a value s, the processes that exist are a set A.      *)
(***************************************************************************)
EXTENDS KernelSpace, NumberFacts, SequenceTheorems

\* Clients that avoid what is wrong with master tables that return, segments of
\* several page tables, page tables left behind and masters that nobody locks.
Settled == ~Returning /\ ~Spanning /\ ~Orphaning /\ ~Crowding

Pcbs == [frame : Frame \cup {Nil}, ptl1 : Frame \cup {Nil}, valid : BOOLEAN,
         disk : Cluster \cup {Nil}]

Owner == Procs \cup (Frame \X Slot) \cup {Nil}

FtEntries == [type : {"Unused", "SegTable", "PageTable"}, locked : BOOLEAN, owner : Owner]

Spaces ==
  [pcb : [Procs -> Pcbs], ft : [Frame -> FtEntries], mem : [Frame -> Contents],
   disk : [Cluster -> Contents], free : SUBSET Cluster, empty : Seq(Frame),
   wild : BOOLEAN]

\* Process p exists and has its master table in memory.
In(s, A, p) == p \in A /\ s.pcb[p].valid

Out(s, A, p) == p \in A /\ ~s.pcb[p].valid

\* The L1 entry t of p, in its master table wherever that is.
Cell(s, p, t) ==
  IF s.pcb[p].valid THEN s.mem[s.pcb[p].frame].l1[t] ELSE s.disk[s.pcb[p].disk].l1[t]

\* What it leads to.
Leads(s, e) ==
  CASE e.status = "Present" -> s.mem[e.blk]
    [] e.status = "PagedOut" /\ e.blk # Nil -> s.disk[e.blk]
    [] OTHER -> Table(Nil)

Reads(s, p, t) == Leads(s, Cell(s, p, t))

\* Entry t of p is on disk in cluster c.
Stored(s, p, t, c) ==
  Cell(s, p, t).status = "PagedOut" /\ Cell(s, p, t).blk = c /\ c # Nil

MastersOK(s, A) ==
  /\ \A p \in Procs \ A : s.pcb[p] = NoPcb
  /\ \A p \in A : In(s, A, p) =>
       LET m == s.pcb[p].frame
       IN  /\ m \in Frame /\ s.pcb[p].ptl1 = m
           /\ s.ft[m].type = "SegTable" /\ s.ft[m].owner = p
           /\ s.mem[m].kind = "master"
  /\ \A p \in A : Out(s, A, p) =>
       s.pcb[p].disk \in Cluster \ s.free /\ s.disk[s.pcb[p].disk].kind = "master"

\* An entry is right: what it says is there.
EntryOK(s, p, t, e) ==
  \/ e.status = "Unused" /\ e.blk = Nil /\ s.pcb[p].valid
  \/ /\ e.status = "Present" /\ e.blk \in Frame /\ s.pcb[p].valid
     /\ s.ft[e.blk].type = "PageTable" /\ s.ft[e.blk].owner = <<s.pcb[p].frame, t>>
     /\ s.mem[e.blk].kind = "table"
  \/ e.status = "PagedOut" /\ e.blk \in Cluster \ s.free /\ s.disk[e.blk].kind = "table"
  \/ e.status = "PagedOut" /\ e.blk = Nil /\ ~s.pcb[p].valid

EntriesOK(s, A) == \A p \in A, t \in Slot : EntryOK(s, p, t, Cell(s, p, t))

\* No cluster is held twice.
Apart(s, A) ==
  /\ \A p, q \in A :
       Out(s, A, p) /\ Out(s, A, q) /\ s.pcb[p].disk = s.pcb[q].disk => p = q
  /\ \A p, q \in A, t, u \in Slot, c \in Cluster :
       Stored(s, p, t, c) /\ Stored(s, q, u, c) => p = q /\ t = u

\* Frame f is a page table or the master table of a process.
InUse(s, A, f) ==
  s.ft[f].type = "PageTable" \/ \E p \in A : In(s, A, p) /\ s.pcb[p].frame = f

Listed(e, f) == \E i \in 1 .. Len(e) : e[i] = f

\* Frames are on the list, in use or in hand, H.
FramesOK(s, A, H) ==
  /\ \A i, j \in 1 .. Len(s.empty) : s.empty[i] = s.empty[j] => i = j
  /\ \A f \in Frame : Listed(s.empty, f) => ~InUse(s, A, f) /\ f \notin H
  /\ \A f \in H : ~InUse(s, A, f)
  /\ \A f \in Frame : Listed(s.empty, f) \/ InUse(s, A, f) \/ f \in H
  /\ \A f \in Frame : s.ft[f].locked => InUse(s, A, f)

\* The owner of page table f is in a master table.
Parent(s, A, f) == \E p \in A : In(s, A, p) /\ s.ft[f].owner[1] = s.pcb[p].frame

\* Page table f is the one that entry t of p has in memory.
Child(s, p, t, f) ==
  s.ft[f].owner = <<s.pcb[p].frame, t>> /\ Cell(s, p, t) = [status |-> "Present", blk |-> f]

OwnersOK(s, A) ==
  \A f \in Frame : s.ft[f].type = "PageTable" /\ Parent(s, A, f) =>
    \E p \in A, t \in Slot : In(s, A, p) /\ Child(s, p, t, f)

Sound(s, A, H) ==
  /\ s \in Spaces /\ ~s.wild
  /\ MastersOK(s, A)
  /\ EntriesOK(s, A)
  /\ Apart(s, A)
  /\ FramesOK(s, A, H)
  /\ OwnersOK(s, A)

\* No page table has been left behind.
Parented(s, A) == \A f \in Frame : s.ft[f].type = "PageTable" => Parent(s, A, f)

\* The page tables of a master table that may leave are not locked.
Loose(s, A) ==
  \A p \in A, t \in Slot :
    In(s, A, p) /\ ~s.ft[s.pcb[p].frame].locked /\ Cell(s, p, t).status = "Present" =>
      ~s.ft[Cell(s, p, t).blk].locked

\* Cluster c is held.
Held(s, A, c) ==
  \/ \E p \in A : Out(s, A, p) /\ s.pcb[p].disk = c
  \/ \E p \in A, t \in Slot : Stored(s, p, t, c)

\* Clusters that are not vacant are held, and frames that nobody uses are marked so.
Tight(s, A) ==
  /\ \A c \in Cluster \ s.free : Held(s, A, c)
  /\ \A f \in Frame : InUse(s, A, f) \/ s.ft[f].type = "Unused"

\* Only the master tables of the processes in P are locked.
LockedFor(s, A, P) ==
  /\ P \in SUBSET A
  /\ \A p \in P : In(s, A, p) /\ s.pcb[p].frame \in Frame /\ s.ft[s.pcb[p].frame].locked
  /\ \A f \in Frame : s.ft[f].locked => \E p \in P : f = s.pcb[p].frame

------------------------------------------------------------------------------
(* The invariant.                                                          *)

\* Pages whose descriptors the call in progress has yet to change.
Pending == IF job.call = "touch" THEN {} ELSE job.todo \cup UNION job.left

Wanted(p, t) == Table(IF t \in UNION segs[p] THEN <<p, t>> ELSE Nil)

\* The processes whose master tables are locked.
Holding ==
  lent \cup CASE job.call \in {"create", "touch", "delete", "exit"} -> {job.proc}
              [] job.call = "clone" -> {job.proc, job.from}
              [] OTHER -> {}

Jobs ==
  [call  : {"none", "create", "touch", "delete", "disconnect", "exit", "clone"},
   proc  : Procs \cup {Nil}, from : Procs \cup {Nil}, first : Slot \cup {Nil},
   todo  : SUBSET Slot, left : SUBSET SUBSET Slot]

SegsOK ==
  /\ segs \in [Procs -> SUBSET SUBSET Slot]
  /\ \A p \in Procs \ alive : segs[p] = {}
  /\ \A p \in Procs : \A S, T \in segs[p] : S # {} /\ (S # T => S \cap T = {})

JobOK ==
  /\ job \in Jobs
  /\ job.call = "none" => job = NoCall
  /\ job.call # "none" => /\ job.proc \in alive /\ k.pcb[job.proc].valid
                          /\ Parented(k, alive)
  /\ job.call \in {"create", "touch"} => job.todo \subseteq UNION segs[job.proc]
  /\ job.call \in {"delete", "disconnect", "exit"} =>
       /\ job.todo = {} \/ (job.first \in Slot /\ job.todo = {job.first})
       /\ job.todo \cap UNION segs[job.proc] = {}
  /\ job.call \in {"create", "touch", "delete", "disconnect"} => job.left = {}
  /\ job.call = "disconnect" /\ job.todo # {} =>
       k.empty # <<>> \/ Cell(k, job.proc, job.first).status = "Present"
  /\ job.call = "exit" =>
       segs[job.proc] = {} /\ \A S \in job.left : \E t \in Slot : S = {t}
  /\ job.call = "clone" =>
       /\ job.from \in alive /\ k.pcb[job.from].valid /\ job.from # job.proc
       /\ segs[job.proc] = segs[job.from]
       /\ Pending \subseteq UNION segs[job.proc]
       /\ {} \notin job.left /\ job.proc \notin lent

LocksOK ==
  /\ lent \subseteq alive
  /\ LockedFor(k, alive, Holding)

ContentsOK ==
  \A p \in alive, t \in Slot :
    p # job.proc \/ t \notin Pending => Reads(k, p, t) = Wanted(p, t)

Inv ==
  /\ alive \subseteq Procs
  /\ Sound(k, alive, {})
  /\ served = TRUE
  /\ SegsOK
  /\ JobOK
  /\ LocksOK
  /\ ContentsOK
  /\ "exit" \notin Calls => Tight(k, alive) /\ job.call # "exit"

------------------------------------------------------------------------------
(* Numbers, lists, contents.                                               *)

LEMMA MinOf ==
  ASSUME NEW S \in SUBSET Nat, S # {}
  PROVE  Min(S) \in S
<1>1. PICK x \in S : \A y \in S : x <= y
  BY LeastExists
<1> QED
  BY <1>1 DEF Min

LEMMA ListTail ==
  ASSUME NEW e \in Seq(Frame), e # <<>>,
         \A i, j \in 1 .. Len(e) : e[i] = e[j] => i = j
  PROVE  /\ Head(e) \in Frame /\ Tail(e) \in Seq(Frame) /\ Listed(e, Head(e))
         /\ \A i, j \in 1 .. Len(Tail(e)) : Tail(e)[i] = Tail(e)[j] => i = j
         /\ \A f : Listed(Tail(e), f) <=> Listed(e, f) /\ f # Head(e)
<1>1. /\ Len(e) \in Nat /\ Len(e) >= 1 /\ Head(e) = e[1] /\ e[1] \in Frame
      /\ Tail(e) \in Seq(Frame) /\ Len(Tail(e)) = Len(e) - 1
      /\ \A i \in 1 .. Len(e) - 1 : Tail(e)[i] = e[i + 1] /\ i + 1 \in 1 .. Len(e)
  OBVIOUS
<1>2. \A i, j \in 1 .. Len(Tail(e)) : Tail(e)[i] = Tail(e)[j] => i = j
  BY <1>1
<1>3. ASSUME NEW f PROVE Listed(Tail(e), f) <=> Listed(e, f) /\ f # Head(e)
  <2>1. ASSUME Listed(Tail(e), f) PROVE Listed(e, f) /\ f # Head(e)
    <3>1. PICK i \in 1 .. Len(e) - 1 : e[i + 1] = f
      BY <1>1, <2>1 DEF Listed
    <3>2. i + 1 \in 1 .. Len(e) /\ 1 \in 1 .. Len(e) /\ i + 1 # 1
      BY <1>1
    <3> QED
      BY <1>1, <3>1, <3>2 DEF Listed
  <2>2. ASSUME Listed(e, f), f # Head(e) PROVE Listed(Tail(e), f)
    <3>1. PICK i \in 1 .. Len(e) : e[i] = f /\ i # 1
      BY <1>1, <2>2 DEF Listed
    <3>2. i - 1 \in 1 .. Len(e) - 1 /\ (i - 1) + 1 = i
      BY <1>1, <3>1
    <3> QED
      BY <1>1, <3>1, <3>2 DEF Listed
  <2> QED
    BY <2>1, <2>2
<1> QED
  BY <1>1, <1>2, <1>3 DEF Listed

LEMMA ListAppend ==
  ASSUME NEW e \in Seq(Frame), NEW f \in Frame, ~Listed(e, f),
         \A i, j \in 1 .. Len(e) : e[i] = e[j] => i = j
  PROVE  /\ Append(e, f) \in Seq(Frame) /\ Append(e, f) # <<>>
         /\ \A i, j \in 1 .. Len(Append(e, f)) :
              Append(e, f)[i] = Append(e, f)[j] => i = j
         /\ \A g : Listed(Append(e, f), g) <=> Listed(e, g) \/ g = f
<1>1. /\ Len(e) \in Nat /\ Append(e, f) \in Seq(Frame) /\ Len(Append(e, f)) = Len(e) + 1
      /\ \A i \in 1 .. Len(e) : Append(e, f)[i] = e[i]
      /\ Append(e, f)[Len(e) + 1] = f
  OBVIOUS
<1>2. \A i \in 1 .. Len(e) + 1 : i = Len(e) + 1 \/ i \in 1 .. Len(e)
  BY <1>1
<1>3. \A i \in 1 .. Len(e) : e[i] # f
  BY DEF Listed
<1>4. \A i, j \in 1 .. Len(e) + 1 : Append(e, f)[i] = Append(e, f)[j] => i = j
  BY <1>1, <1>2, <1>3
<1>5. ASSUME NEW g PROVE Listed(Append(e, f), g) <=> Listed(e, g) \/ g = f
  <2>1. Len(e) + 1 \in 1 .. Len(e) + 1 /\ \A i \in 1 .. Len(e) : i \in 1 .. Len(e) + 1
    BY <1>1
  <2> QED
    BY <1>1, <1>2, <2>1 DEF Listed
<1>6. Append(e, f) # <<>>
  <2>1. Len(<<>>) = 0 /\ Len(e) + 1 # 0
    BY <1>1
  <2> QED
    BY <1>1, <2>1
<1> QED
  BY <1>1, <1>4, <1>5, <1>6

LEMMA NilApart ==
  /\ Nil \notin Procs /\ Nil \notin Frame /\ Nil \notin Cluster /\ Nil \notin Slot
  /\ Nil \notin Procs \X Slot
  /\ NTables \in Nat \ {0} /\ NFrames \in Nat /\ NClusters \in Nat
  BY NilAssumption, SizesAssumption DEF Frame, Cluster, Slot

LEMMA ContentKinds ==
  /\ \A x \in Contents : x.kind = "master" => x.l1 \in [Slot -> Cells] /\ x = Master(x.l1)
  /\ \A x \in Contents : x.kind = "table" => x.page \in (Procs \X Slot) \cup {Nil}
                                             /\ x = Table(x.page)
  /\ \A l1 \in [Slot -> Cells] : Master(l1) \in Contents /\ Master(l1).kind = "master"
                                  /\ Master(l1).l1 = l1
  /\ \A q \in (Procs \X Slot) \cup {Nil} :
       Table(q) \in Contents /\ Table(q).kind = "table" /\ Table(q).page = q
  /\ Blank \in Contents
<1>1. \A l1 : Master(l1).kind = "master" /\ Master(l1).l1 = l1
  BY DEF Master
<1>2. \A q : Table(q).kind = "table" /\ Table(q).page = q
  BY DEF Table
<1>3. Blank.kind = "blank"
  BY DEF Blank
<1>4. \A x \in Contents : \/ \E l1 \in [Slot -> Cells] : x = Master(l1)
                          \/ \E q \in (Procs \X Slot) \cup {Nil} : x = Table(q)
                          \/ x = Blank
  BY DEF Contents
<1>5. \A x \in Contents : x.kind = "master" => \E l1 \in [Slot -> Cells] : x = Master(l1)
  BY <1>1, <1>2, <1>3, <1>4
<1>6. \A x \in Contents : x.kind = "table" =>
                         \E q \in (Procs \X Slot) \cup {Nil} : x = Table(q)
  BY <1>1, <1>2, <1>3, <1>4
<1>7. /\ \A l1 \in [Slot -> Cells] : Master(l1) \in Contents
      /\ \A q \in (Procs \X Slot) \cup {Nil} : Table(q) \in Contents
      /\ Blank \in Contents
  BY DEF Contents
<1> QED
  BY <1>1, <1>2, <1>5, <1>6, <1>7

------------------------------------------------------------------------------
(* Frames from the list, and tables that leave.                            *)

\* Master tables that are in memory are in different frames.
LEMMA OwnMaster ==
  ASSUME NEW s, NEW A, MastersOK(s, A), NEW p \in A, NEW q \in A, In(s, A, p), In(s, A, q),
         s.pcb[p].frame = s.pcb[q].frame
  PROVE  p = q
BY DEF MastersOK

\* A kernel space whose frames and clusters hold what they did.
LEMMA SameCells ==
  ASSUME NEW s, NEW n, n.pcb = s.pcb, n.mem = s.mem, n.disk = s.disk
  PROVE  /\ \A p, t : Cell(n, p, t) = Cell(s, p, t) /\ Reads(n, p, t) = Reads(s, p, t)
         /\ \A p, t, c : Stored(n, p, t, c) <=> Stored(s, p, t, c)
         /\ \A A, p : (In(n, A, p) <=> In(s, A, p)) /\ (Out(n, A, p) <=> Out(s, A, p))
<1>1. \A p, t : Cell(n, p, t) = Cell(s, p, t)
  BY DEF Cell
<1> QED
  BY <1>1 DEF Reads, Leads, Stored, In, Out

LEMMA PopWorks ==
  ASSUME NEW s, NEW A, Sound(s, A, {}), s.empty # <<>>,
         NEW g, NEW n, g = Pop(s).frame, n = Pop(s).s
  PROVE  /\ g \in Frame /\ Sound(n, A, {g}) /\ ~s.ft[g].locked
         /\ n.pcb = s.pcb /\ n.ft = s.ft /\ n.mem = s.mem /\ n.disk = s.disk
         /\ n.free = s.free
<1>0. s \in Spaces /\ ~s.wild /\ s.empty \in Seq(Frame)
  BY DEF Sound, Spaces
<1>1. g = Head(s.empty) /\ n = [s EXCEPT !.empty = Tail(s.empty)]
  BY DEF Pop
<1>2. /\ \A i, j \in 1 .. Len(s.empty) : s.empty[i] = s.empty[j] => i = j
      /\ \A f \in Frame : Listed(s.empty, f) => ~InUse(s, A, f)
      /\ \A f \in Frame : Listed(s.empty, f) \/ InUse(s, A, f)
      /\ \A f \in Frame : s.ft[f].locked => InUse(s, A, f)
  BY DEF Sound, FramesOK
<1>3. /\ g \in Frame /\ Tail(s.empty) \in Seq(Frame) /\ Listed(s.empty, g)
      /\ \A i, j \in 1 .. Len(Tail(s.empty)) : Tail(s.empty)[i] = Tail(s.empty)[j] => i = j
      /\ \A f : Listed(Tail(s.empty), f) <=> Listed(s.empty, f) /\ f # g
  BY <1>0, <1>1, <1>2, ListTail
<1>4. /\ n.pcb = s.pcb /\ n.ft = s.ft /\ n.mem = s.mem /\ n.disk = s.disk
      /\ n.free = s.free /\ n.empty = Tail(s.empty) /\ n.wild = s.wild /\ n \in Spaces
  BY <1>0, <1>1, <1>3 DEF Spaces
<1>5. /\ \A p, t : Cell(n, p, t) = Cell(s, p, t)
      /\ \A p, t, c : Stored(n, p, t, c) <=> Stored(s, p, t, c)
      /\ \A p : (In(n, A, p) <=> In(s, A, p)) /\ (Out(n, A, p) <=> Out(s, A, p))
  BY <1>4, SameCells
<1>6. MastersOK(n, A)
  <2>1. MastersOK(s, A)
    BY DEF Sound
  <2> QED
    BY <1>4, <1>5, <2>1 DEF MastersOK
<1>7. EntriesOK(n, A)
  <2>1. \A p, t, e : EntryOK(n, p, t, e) <=> EntryOK(s, p, t, e)
    BY <1>4 DEF EntryOK
  <2> QED
    BY <1>5, <2>1 DEF Sound, EntriesOK
<1>8. Apart(n, A)
  BY <1>4, <1>5 DEF Sound, Apart
<1>9. \A f : InUse(n, A, f) <=> InUse(s, A, f)
  BY <1>4, <1>5 DEF InUse
<1>10. FramesOK(n, A, {g})
  BY <1>2, <1>3, <1>4, <1>9 DEF FramesOK
<1>11. OwnersOK(n, A)
  BY <1>4, <1>5 DEF Sound, OwnersOK, Parent, Child
<1> QED
  BY <1>0, <1>2, <1>3, <1>4, <1>6, <1>7, <1>8, <1>10, <1>11 DEF Sound

\* What an eviction does: a frame becomes empty, and every process has what it had.
Evicted(s, A, n) ==
  /\ Sound(n, A, {}) /\ Parented(n, A) /\ n.empty # <<>>
  /\ \A f \in Frame : n.ft[f].locked = s.ft[f].locked
  /\ \A p \in A, t \in Slot : Reads(n, p, t) = Reads(s, p, t)
  /\ \A p \in A : In(s, A, p) /\ s.ft[s.pcb[p].frame].locked => n.pcb[p] = s.pcb[p]
  /\ \A p \in A, t \in Slot :
       In(s, A, p) /\ In(n, A, p) =>
         \/ Cell(n, p, t) = Cell(s, p, t)
         \/ Cell(s, p, t).status = "Present" /\ ~s.ft[Cell(s, p, t).blk].locked
  /\ Loose(n, A)
  /\ Tight(s, A) => Tight(n, A)

PagedOut(c) == [status |-> "PagedOut", blk |-> c]

Present(f) == [status |-> "Present", blk |-> f]

LEMMA CellForms ==
  /\ \A c \in Cluster : /\ PagedOut(c) \in Cells /\ PagedOut(c).status = "PagedOut"
                        /\ PagedOut(c).blk = c
  /\ \A f \in Frame : /\ Present(f) \in Cells /\ Present(f).status = "Present"
                      /\ Present(f).blk = f
BY DEF PagedOut, Present, Cells

\* The fields of a kernel space.
LEMMA SpaceTypes ==
  ASSUME NEW s \in Spaces
  PROVE  /\ s.pcb \in [Procs -> Pcbs] /\ s.ft \in [Frame -> FtEntries]
         /\ s.mem \in [Frame -> Contents] /\ s.disk \in [Cluster -> Contents]
         /\ s.free \in SUBSET Cluster /\ s.empty \in Seq(Frame)
BY DEF Spaces

\* n is s but for cell t of the master table in m, which is e.
CellSet(s, m, t, e, n) ==
  /\ n \in Spaces
  /\ n.pcb = s.pcb /\ n.ft = s.ft /\ n.disk = s.disk /\ n.free = s.free
  /\ n.empty = s.empty /\ n.wild = s.wild
  /\ \A g \in Frame \ {m} : n.mem[g] = s.mem[g]
  /\ n.mem[m].kind = "master" /\ n.mem[m].l1[t] = e
  /\ \A u \in Slot \ {t} : n.mem[m].l1[u] = s.mem[m].l1[u]

\* n is s with frame f written to cluster c and emptied.
FrameWritten(s, f, c, n) ==
  /\ n \in Spaces
  /\ n.pcb = s.pcb /\ n.mem = s.mem /\ n.wild = s.wild
  /\ n.free = s.free \ {c} /\ n.empty = Append(s.empty, f)
  /\ n.disk[c] = s.mem[f] /\ \A d \in Cluster \ {c} : n.disk[d] = s.disk[d]
  /\ n.ft[f].type = "Unused" /\ \A g \in Frame \ {f} : n.ft[g] = s.ft[g]
  /\ n.ft[f].owner = s.ft[f].owner /\ n.ft[f].locked = s.ft[f].locked

\* n is s with frame f given up, cluster c taken, with cell t of the master table in m
\* turned to PagedOut, or the process control block of p told that its master table
\* is in c, with what it had.
FrameLeft(s, f, n) ==
  /\ n.ft[f].type = "Unused" /\ \A g \in Frame \ {f} : n.ft[g] = s.ft[g]
  /\ n.ft[f].owner = s.ft[f].owner /\ n.ft[f].locked = s.ft[f].locked

ClusterTaken(s, c, n) ==
  n.free = s.free \ {c} /\ \A d \in Cluster \ {c} : n.disk[d] = s.disk[d]

CellTold(s, m, t, c, n) ==
  /\ \A g \in Frame \ {m} : n.mem[g] = s.mem[g]
  /\ n.mem[m].kind = "master" /\ n.mem[m].l1[t] = PagedOut(c)
  /\ \A u \in Slot \ {t} : n.mem[m].l1[u] = s.mem[m].l1[u]

PcbTold(s, p, c, n) ==
  ~n.pcb[p].valid /\ n.pcb[p].disk = c /\ \A q \in Procs \ {p} : n.pcb[q] = s.pcb[q]

MasterStored(s, p, c, n) ==
  /\ n.disk[c].kind = "master"
  /\ \A t \in Slot : n.disk[c].l1[t] = PagedOut(Cell(s, p, t).blk)

LEMMA SetCellIs ==
  ASSUME NEW s \in Spaces, NEW m \in Frame, s.mem[m].kind = "master", NEW t \in Slot,
         NEW e \in Cells, NEW n, n = SetCell(s, <<m, t>>, e)
  PROVE  CellSet(s, m, t, e, n)
<1>1. s.mem \in [Frame -> Contents] /\ s.mem[m] \in Contents
  BY SpaceTypes
<1>2. PICK l \in [Slot -> Cells] : s.mem[m] = Master(l)
  BY <1>1, ContentKinds
<1>3. PICK h \in [Slot -> Cells] : h = [l EXCEPT ![t] = e]
  OBVIOUS
<1>4. s.mem[m].l1 = l /\ [s.mem[m] EXCEPT !.l1 = h] = Master(h)
  BY <1>2 DEF Master
<1>5. PICK x \in [Frame -> Contents] : x = [s.mem EXCEPT ![m] = Master(h)]
  BY <1>1, ContentKinds
<1>6. n = [s EXCEPT !.mem = x]
  BY <1>2, <1>3, <1>4, <1>5 DEF SetCell
<1>7. /\ n \in Spaces /\ n.mem = x
      /\ n.pcb = s.pcb /\ n.ft = s.ft /\ n.disk = s.disk /\ n.free = s.free
      /\ n.empty = s.empty /\ n.wild = s.wild
  BY <1>6 DEF Spaces
<1>8. x[m] = Master(h) /\ \A g \in Frame \ {m} : x[g] = s.mem[g]
  BY <1>1, <1>5
<1>9. x[m].kind = "master" /\ x[m].l1 = h
  BY <1>8, ContentKinds
<1>10. h[t] = e /\ \A u \in Slot \ {t} : h[u] = l[u]
  BY <1>3
<1> QED
  BY <1>4, <1>7, <1>8, <1>9, <1>10 DEF CellSet

\* A page is written back and its frame emptied.
LEMMA WriteBackIs ==
  ASSUME NEW s \in Spaces, NEW f \in Frame, NEW c \in Cluster, NEW n, n = WriteBack(s, f, c)
  PROVE  FrameWritten(s, f, c, n)
<1>1. /\ s.ft \in [Frame -> FtEntries] /\ s.mem \in [Frame -> Contents]
      /\ s.disk \in [Cluster -> Contents] /\ s.free \in SUBSET Cluster /\ s.empty \in Seq(Frame)
  BY SpaceTypes
<1>2. PICK y : y = [s.ft[f] EXCEPT !.type = "Unused"]
  OBVIOUS
<1>3. /\ y \in FtEntries /\ y.type = "Unused"
      /\ y.owner = s.ft[f].owner /\ y.locked = s.ft[f].locked
  BY <1>1, <1>2 DEF FtEntries
<1>4. PICK x \in [Frame -> FtEntries] : x = [s.ft EXCEPT ![f] = y]
  BY <1>1, <1>3
<1>5. PICK d \in [Cluster -> Contents] : d = [s.disk EXCEPT ![c] = s.mem[f]]
  BY <1>1
<1>6. PICK e : e = Append(s.empty, f) /\ e \in Seq(Frame)
  <2>1. PICK l \in Seq(Frame) : l = s.empty
    BY <1>1
  <2>2. Append(l, f) \in Seq(Frame)
    OBVIOUS
  <2> QED
    BY <2>1, <2>2
<1>7. PICK r \in SUBSET Cluster : r = s.free \ {c}
  BY <1>1
<1>8. n = [s EXCEPT !.disk = d, !.free = r, !.ft = x, !.empty = e]
  BY <1>2, <1>4, <1>5, <1>6, <1>7 DEF WriteBack
<1>9. /\ n.pcb = s.pcb /\ n.mem = s.mem /\ n.wild = s.wild
      /\ n.free = r /\ n.empty = e /\ n.disk = d /\ n.ft = x
  BY <1>8 DEF Spaces
<1>10. n \in Spaces
  BY <1>4, <1>5, <1>6, <1>7, <1>8 DEF Spaces
<1>11. x[f] = y /\ (\A g \in Frame \ {f} : x[g] = s.ft[g])
       /\ d[c] = s.mem[f] /\ \A b \in Cluster \ {c} : d[b] = s.disk[b]
  BY <1>1, <1>4, <1>5
<1> QED
  BY <1>3, <1>6, <1>7, <1>9, <1>10, <1>11 DEF FrameWritten

\* ks_swap_out of a page table, for what follows: entry t of p had it.
LEMMA TableOutIs ==
  ASSUME NEW s, NEW A \in SUBSET Procs, Sound(s, A, {}), s.free # {},
         NEW p \in A, NEW t \in Slot, NEW f \in Frame,
         In(s, A, p), s.ft[f].type = "PageTable", Child(s, p, t, f),
         NEW c, c = Min(s.free), NEW m, m = s.pcb[p].frame, NEW n, n = TableOut(s, f)
  PROVE  /\ c \in s.free /\ c \in Cluster /\ m \in Frame /\ m # f
         /\ n \in Spaces /\ ~n.wild /\ n.pcb = s.pcb
         /\ n.empty = Append(s.empty, f) /\ n.disk[c] = s.mem[f]
         /\ ClusterTaken(s, c, n) /\ FrameLeft(s, f, n) /\ CellTold(s, m, t, c, n)
<1>1. s \in Spaces /\ ~s.wild /\ s.free \in SUBSET Nat /\ s.free \in SUBSET Cluster
  BY SpaceTypes, NilApart DEF Sound, Cluster
<1>2. c \in s.free /\ c \in Cluster
  BY <1>1, MinOf
<1>3. /\ m \in Frame /\ s.ft[m].type = "SegTable" /\ s.mem[m].kind = "master"
      /\ s.ft[f].owner = <<m, t>> /\ m # f
  BY DEF Sound, MastersOK, Child
<1>4. PICK e \in Cells : e = PagedOut(c) /\ e = [status |-> "PagedOut", blk |-> c]
  BY <1>2, CellForms DEF PagedOut
<1>5. PICK r : r = SetCell(s, <<m, t>>, e)
  OBVIOUS
<1>6. CellSet(s, m, t, e, r) /\ r \in Spaces
  <2>1. CellSet(s, m, t, e, r)
    BY <1>1, <1>3, <1>5, SetCellIs
  <2> QED
    BY <2>1 DEF CellSet
<1>7. n = WriteBack(r, f, c)
  BY <1>3, <1>4, <1>5 DEF TableOut
<1>8. FrameWritten(r, f, c, n)
  BY <1>2, <1>6, <1>7, WriteBackIs
<1>9. /\ r.pcb = s.pcb /\ r.ft = s.ft /\ r.disk = s.disk /\ r.free = s.free
      /\ r.empty = s.empty /\ r.wild = s.wild /\ r.mem[f] = s.mem[f]
  BY <1>3, <1>6 DEF CellSet
<1>10. /\ n \in Spaces /\ n.pcb = r.pcb /\ n.mem = r.mem /\ n.wild = r.wild
       /\ n.empty = Append(r.empty, f) /\ n.disk[c] = r.mem[f]
  BY <1>8 DEF FrameWritten
<1>11. ClusterTaken(s, c, n)
  BY <1>8, <1>9 DEF FrameWritten, ClusterTaken
<1>12. FrameLeft(s, f, n)
  BY <1>8, <1>9 DEF FrameWritten, FrameLeft
<1>13. CellTold(s, m, t, c, n)
  BY <1>4, <1>6, <1>10 DEF CellSet, CellTold
<1> QED
  BY <1>1, <1>2, <1>3, <1>9, <1>10, <1>11, <1>12, <1>13

LEMMA TableOutCells ==
  ASSUME NEW s, NEW A \in SUBSET Procs, Sound(s, A, {}),
         NEW p \in A, NEW t \in Slot, NEW f \in Frame,
         In(s, A, p), s.ft[f].type = "PageTable", Child(s, p, t, f),
         NEW c \in s.free, c \in Cluster, NEW m, m = s.pcb[p].frame,
         NEW n, n.pcb = s.pcb,
         ClusterTaken(s, c, n), CellTold(s, m, t, c, n)
  PROVE  /\ \A q \in A, u \in Slot :
              Cell(n, q, u) = IF q = p /\ u = t THEN PagedOut(c) ELSE Cell(s, q, u)
         /\ \A q \in A : (In(n, A, q) <=> In(s, A, q)) /\ (Out(n, A, q) <=> Out(s, A, q))
<1>1. ASSUME NEW q \in A, NEW u \in Slot
      PROVE  Cell(n, q, u) = IF q = p /\ u = t THEN PagedOut(c) ELSE Cell(s, q, u)
  <2>1. CASE Out(s, A, q)
    <3>1. s.pcb[q].disk \in Cluster \ {c} /\ ~s.pcb[q].valid /\ q # p
      BY <2>1 DEF Sound, MastersOK, Out, In
    <3> QED
      BY <3>1 DEF Cell, ClusterTaken
  <2>2. CASE In(s, A, q)
    <3>1. s.pcb[q].valid /\ s.pcb[q].frame \in Frame /\ (q # p => s.pcb[q].frame # m)
      BY <2>2, OwnMaster DEF Sound, MastersOK, In
    <3>2. CASE q = p
      BY <3>1, <3>2 DEF Cell, CellTold
    <3>3. CASE q # p
      <4>1. n.mem[s.pcb[q].frame] = s.mem[s.pcb[q].frame]
        BY <3>1, <3>3 DEF CellTold
      <4> QED
        BY <3>1, <3>3, <4>1 DEF Cell
    <3> QED
      BY <3>2, <3>3
  <2> QED
    BY <2>1, <2>2 DEF In, Out
<1> QED
  BY <1>1 DEF In, Out

LEMMA TableOutWorks ==
  ASSUME NEW s, NEW A \in SUBSET Procs, Sound(s, A, {}), Parented(s, A), Loose(s, A),
         s.free # {}, NEW f \in Frame, s.ft[f].type = "PageTable", ~s.ft[f].locked,
         NEW n, n = TableOut(s, f)
  PROVE  Evicted(s, A, n)
<1>1. PICK p \in A, t \in Slot : In(s, A, p) /\ Child(s, p, t, f)
  BY DEF Sound, OwnersOK, Parented
<1>2. PICK c, m : c = Min(s.free) /\ m = s.pcb[p].frame
  OBVIOUS
<1>3. /\ c \in s.free /\ c \in Cluster /\ m \in Frame /\ m # f
      /\ n \in Spaces /\ ~n.wild /\ n.pcb = s.pcb
      /\ n.empty = Append(s.empty, f) /\ n.disk[c] = s.mem[f]
      /\ ClusterTaken(s, c, n) /\ FrameLeft(s, f, n) /\ CellTold(s, m, t, c, n)
  BY <1>1, <1>2, TableOutIs
<1>a. c \in s.free /\ c \in Cluster /\ m \in Frame /\ m # f /\ n.pcb = s.pcb
  BY <1>3
<1>b. /\ n.disk[c] = s.mem[f] /\ n.free = s.free \ {c}
      /\ \A d \in Cluster \ {c} : n.disk[d] = s.disk[d]
  BY <1>3 DEF ClusterTaken
<1>c. /\ n.ft[f].type = "Unused" /\ \A g \in Frame \ {f} : n.ft[g] = s.ft[g]
      /\ n.ft[f].owner = s.ft[f].owner /\ n.ft[f].locked = s.ft[f].locked
  BY <1>3 DEF FrameLeft
<1>d. /\ \A g \in Frame \ {m} : n.mem[g] = s.mem[g]
      /\ n.mem[m].kind = "master"
  BY <1>3 DEF CellTold
<1>4. /\ \A q \in A, u \in Slot :
           Cell(n, q, u) = IF q = p /\ u = t THEN PagedOut(c) ELSE Cell(s, q, u)
      /\ \A q \in A : (In(n, A, q) <=> In(s, A, q)) /\ (Out(n, A, q) <=> Out(s, A, q))
  BY <1>1, <1>2, <1>3, TableOutCells
<1>5. /\ s \in Spaces /\ MastersOK(s, A) /\ EntriesOK(s, A) /\ Apart(s, A)
      /\ FramesOK(s, A, {}) /\ OwnersOK(s, A)
  BY DEF Sound
<1>6. /\ Cell(s, p, t).status = "Present" /\ Cell(s, p, t).blk = f
      /\ s.ft[f].owner = <<m, t>> /\ s.mem[f].kind = "table"
  BY <1>1, <1>2, <1>5 DEF Child, EntriesOK, EntryOK
<1>7. PagedOut(c).status = "PagedOut" /\ PagedOut(c).blk = c /\ c # Nil
  BY <1>a, CellForms, NilApart
\* The other entries say what they said, and it is there.
<1>8. ASSUME NEW q \in A, NEW u \in Slot, ~(q = p /\ u = t)
      PROVE  /\ Cell(n, q, u) = Cell(s, q, u) /\ EntryOK(n, q, u, Cell(s, q, u))
             /\ Reads(n, q, u) = Reads(s, q, u)
  <2>1. PICK e : e = Cell(s, q, u) /\ e = Cell(n, q, u)
    BY <1>4, <1>8
  <2>2. EntryOK(s, q, u, e)
    BY <1>5, <2>1 DEF EntriesOK
  <2>3. CASE e.status = "Unused"
    <3>1. EntryOK(n, q, u, e)
      BY <1>a, <2>2, <2>3 DEF EntryOK
    <3>2. Leads(n, e) = Table(Nil) /\ Leads(s, e) = Table(Nil)
      BY <2>3 DEF Leads
    <3> QED
      BY <2>1, <3>1, <3>2 DEF Reads
  <2>4. CASE e.status = "Present"
    <3>1. /\ e.blk \in Frame /\ s.pcb[q].valid
          /\ s.ft[e.blk].type = "PageTable" /\ s.ft[e.blk].owner = <<s.pcb[q].frame, u>>
          /\ s.mem[e.blk].kind = "table"
      BY <2>2, <2>4 DEF EntryOK
    <3>2. e.blk # f
      <4> SUFFICES ASSUME e.blk = f PROVE FALSE
        OBVIOUS
      <4>1. s.pcb[q].frame = m /\ u = t /\ In(s, A, q)
        BY <1>6, <3>1 DEF In
      <4> QED
        BY <1>1, <1>2, <1>5, <1>8, <4>1, OwnMaster
    <3>3. e.blk # m
      BY <1>1, <1>2, <1>5, <3>1 DEF MastersOK
    <3>4. n.ft[e.blk] = s.ft[e.blk] /\ n.mem[e.blk] = s.mem[e.blk]
      BY <1>c, <1>d, <3>1, <3>2, <3>3
    <3>5. EntryOK(n, q, u, e)
      BY <1>a, <2>4, <3>1, <3>4 DEF EntryOK
    <3>6. Leads(n, e) = Leads(s, e)
      BY <2>4, <3>4 DEF Leads
    <3> QED
      BY <2>1, <3>5, <3>6 DEF Reads
  <2>5. CASE e.status = "PagedOut"
    <3>1. CASE e.blk = Nil
      <4>1. EntryOK(n, q, u, e)
        BY <1>a, <2>2, <2>5, <3>1, NilApart DEF EntryOK
      <4>2. Leads(n, e) = Table(Nil) /\ Leads(s, e) = Table(Nil)
        BY <2>5, <3>1 DEF Leads
      <4> QED
        BY <2>1, <4>1, <4>2 DEF Reads
    <3>2. CASE e.blk # Nil
      <4>1. e.blk \in Cluster \ s.free /\ s.disk[e.blk].kind = "table"
        BY <2>2, <2>5, <3>2 DEF EntryOK
      <4>2. e.blk # c /\ n.disk[e.blk] = s.disk[e.blk]
        BY <1>a, <1>b, <4>1
      <4>3. EntryOK(n, q, u, e)
        BY <1>b, <2>5, <4>1, <4>2 DEF EntryOK
      <4>4. Leads(n, e) = Leads(s, e)
        BY <2>5, <4>2 DEF Leads
      <4> QED
        BY <2>1, <4>3, <4>4 DEF Reads
    <3> QED
      BY <3>1, <3>2
  <2> QED
    BY <2>2, <2>3, <2>4, <2>5 DEF EntryOK
<1>9. /\ Cell(n, p, t) = PagedOut(c) /\ EntryOK(n, p, t, PagedOut(c))
      /\ Reads(n, p, t) = Reads(s, p, t)
  <2>1. Cell(n, p, t) = PagedOut(c)
    BY <1>4
  <2>2. EntryOK(n, p, t, PagedOut(c))
    BY <1>a, <1>b, <1>6, <1>7 DEF EntryOK
  <2>3. Leads(n, PagedOut(c)) = s.mem[f]
    BY <1>b, <1>7 DEF Leads
  <2>4. Leads(s, Cell(s, p, t)) = s.mem[f]
    BY <1>6 DEF Leads
  <2> QED
    BY <2>1, <2>2, <2>3, <2>4 DEF Reads
<1>10. MastersOK(n, A)
  <2>1. \A q \in A : In(s, A, q) =>
          s.pcb[q].frame \in Frame /\ s.pcb[q].frame # f /\ n.mem[s.pcb[q].frame].kind = "master"
    BY <1>d, <1>5 DEF MastersOK
  <2>2. \A q \in A : Out(s, A, q) => s.pcb[q].disk \in Cluster \ {c}
    BY <1>a, <1>5 DEF MastersOK
  <2>3. ASSUME NEW q \in A, In(n, A, q)
        PROVE  LET b == n.pcb[q].frame
               IN  /\ b \in Frame /\ n.pcb[q].ptl1 = b
                   /\ n.ft[b].type = "SegTable" /\ n.ft[b].owner = q
                   /\ n.mem[b].kind = "master"
    <3>1. In(s, A, q)
      BY <1>4, <2>3
    <3>2. /\ s.pcb[q].ptl1 = s.pcb[q].frame
          /\ s.ft[s.pcb[q].frame].type = "SegTable" /\ s.ft[s.pcb[q].frame].owner = q
      BY <1>5, <3>1 DEF MastersOK
    <3>3. n.ft[s.pcb[q].frame] = s.ft[s.pcb[q].frame]
      BY <1>c, <2>1, <3>1
    <3> QED
      BY <1>a, <2>1, <3>1, <3>2, <3>3
  <2>4. ASSUME NEW q \in A, Out(n, A, q)
        PROVE  n.pcb[q].disk \in Cluster \ n.free /\ n.disk[n.pcb[q].disk].kind = "master"
    <3>1. Out(s, A, q)
      BY <1>4, <2>4
    <3>2. s.pcb[q].disk \in Cluster \ s.free /\ s.disk[s.pcb[q].disk].kind = "master"
      BY <1>5, <3>1 DEF MastersOK
    <3> QED
      BY <1>a, <1>b, <2>2, <3>1, <3>2
  <2>5. \A q \in Procs \ A : n.pcb[q] = NoPcb
    BY <1>a, <1>5 DEF MastersOK
  <2> QED
    BY <2>3, <2>4, <2>5 DEF MastersOK
<1>11. EntriesOK(n, A)
  BY <1>8, <1>9 DEF EntriesOK
<1>12. \A q \in A, u \in Slot, d \in Cluster :
         Stored(n, q, u, d) <=> IF q = p /\ u = t THEN d = c ELSE Stored(s, q, u, d)
  BY <1>4, <1>7, NilApart DEF Stored
<1>13. \A q \in A, u \in Slot : ~Stored(s, q, u, c)
  BY <1>a, <1>5, NilApart DEF Stored, EntriesOK, EntryOK
<1>14. Apart(n, A)
  <2>1. \A q, r \in A, u, v \in Slot, d \in Cluster :
          Stored(n, q, u, d) /\ Stored(n, r, v, d) => q = r /\ u = v
    BY <1>5, <1>12, <1>13 DEF Apart
  <2> QED
    BY <1>a, <1>4, <1>5, <2>1 DEF Apart
<1>15. \A g \in Frame : InUse(n, A, g) <=> InUse(s, A, g) /\ g # f
  <2>1. \A q \in A : In(s, A, q) => s.pcb[q].frame # f
    BY <1>5 DEF MastersOK
  <2> QED
    BY <1>a, <1>c, <1>4, <2>1 DEF InUse
<1>16. FramesOK(n, A, {}) /\ n.empty # <<>>
  <2>1. s.empty \in Seq(Frame) /\ ~Listed(s.empty, f)
    BY <1>5, SpaceTypes DEF FramesOK, InUse
  <2>a. \A i, j \in 1 .. Len(s.empty) : s.empty[i] = s.empty[j] => i = j
    BY <1>5 DEF FramesOK
  <2>2. /\ n.empty # <<>>
        /\ \A i, j \in 1 .. Len(n.empty) : n.empty[i] = n.empty[j] => i = j
        /\ \A g : Listed(n.empty, g) <=> Listed(s.empty, g) \/ g = f
    <3>1. PICK l \in Seq(Frame) : l = s.empty
      BY <2>1
    <3>2. /\ Append(l, f) # <<>>
          /\ \A i, j \in 1 .. Len(Append(l, f)) :
               Append(l, f)[i] = Append(l, f)[j] => i = j
          /\ \A g : Listed(Append(l, f), g) <=> Listed(l, g) \/ g = f
      BY <2>1, <2>a, <3>1, ListAppend
    <3>3. n.empty = Append(l, f)
      BY <1>3, <3>1
    <3> QED
      BY <3>1, <3>2, <3>3
  <2>3. \A g \in Frame : n.ft[g].locked = s.ft[g].locked
    BY <1>c
  <2> QED
    BY <1>5, <1>15, <2>2, <2>3 DEF FramesOK
<1>17. \A g \in Frame : n.ft[g].type = "PageTable" =>
         g # f /\ n.ft[g] = s.ft[g] /\ (Parent(n, A, g) <=> Parent(s, A, g))
  BY <1>a, <1>c, <1>4 DEF Parent
<1>18. OwnersOK(n, A)
  <2> SUFFICES ASSUME NEW g \in Frame, n.ft[g].type = "PageTable", Parent(n, A, g)
               PROVE  \E q \in A, u \in Slot : In(n, A, q) /\ Child(n, q, u, g)
    BY DEF OwnersOK
  <2>1. PICK q \in A, u \in Slot : In(s, A, q) /\ Child(s, q, u, g)
    BY <1>5, <1>17 DEF OwnersOK
  <2>2. ~(q = p /\ u = t)
    BY <1>6, <1>17, <2>1 DEF Child
  <2>3. Child(n, q, u, g)
    BY <1>a, <1>8, <1>17, <2>1, <2>2 DEF Child
  <2> QED
    BY <1>4, <2>1, <2>3
<1>19. Parented(n, A)
  BY <1>17 DEF Parented
<1>20. Loose(n, A)
  <2> SUFFICES ASSUME NEW q \in A, NEW u \in Slot, In(n, A, q),
                      ~n.ft[n.pcb[q].frame].locked, Cell(n, q, u).status = "Present"
               PROVE  ~n.ft[Cell(n, q, u).blk].locked
    BY DEF Loose
  <2>1. ~(q = p /\ u = t) /\ Cell(n, q, u) = Cell(s, q, u) /\ In(s, A, q)
    BY <1>4, <1>7, <1>8
  <2>2. s.pcb[q].frame \in Frame /\ Cell(s, q, u).blk \in Frame
    BY <1>5, <2>1 DEF MastersOK, EntriesOK, EntryOK
  <2>3. ~s.ft[s.pcb[q].frame].locked
    BY <1>a, <1>c, <2>2
  <2>4. ~s.ft[Cell(s, q, u).blk].locked
    BY <2>1, <2>3 DEF Loose
  <2> QED
    BY <1>a, <1>c, <2>1, <2>2, <2>4
<1>21. ASSUME Tight(s, A) PROVE Tight(n, A)
  <2>1. ASSUME NEW d \in Cluster \ n.free PROVE Held(n, A, d)
    <3>1. CASE d = c
      BY <1>a, <1>12, <3>1 DEF Held
    <3>2. CASE d # c
      <4>1. Held(s, A, d)
        BY <1>b, <1>21, <2>1, <3>2 DEF Tight
      <4>2. ~Stored(s, p, t, d)
        BY <1>6 DEF Stored
      <4> QED
        BY <1>a, <1>4, <1>12, <4>1, <4>2 DEF Held
    <3> QED
      BY <3>1, <3>2
  <2>2. \A g \in Frame : InUse(n, A, g) \/ n.ft[g].type = "Unused"
    BY <1>c, <1>15, <1>21 DEF Tight
  <2> QED
    BY <2>1, <2>2 DEF Tight
<1>22. Sound(n, A, {})
  BY <1>3, <1>10, <1>11, <1>14, <1>16, <1>18 DEF Sound
<1>23. \A q \in A, u \in Slot : Reads(n, q, u) = Reads(s, q, u)
  BY <1>8, <1>9
<1>24. \A q \in A, u \in Slot :
         \/ Cell(n, q, u) = Cell(s, q, u)
         \/ Cell(s, q, u).status = "Present" /\ ~s.ft[Cell(s, q, u).blk].locked
  BY <1>6, <1>8
<1>25. \A g \in Frame : n.ft[g].locked = s.ft[g].locked
  BY <1>c
<1>26. \A q \in A : In(s, A, q) /\ s.ft[s.pcb[q].frame].locked => n.pcb[q] = s.pcb[q]
  BY <1>a
<1>27. \A q \in A, u \in Slot :
         In(s, A, q) /\ In(n, A, q) =>
           \/ Cell(n, q, u) = Cell(s, q, u)
           \/ Cell(s, q, u).status = "Present" /\ ~s.ft[Cell(s, q, u).blk].locked
  BY <1>24
<1>28. n.empty # <<>>
  BY <1>16
<1> QED
  BY <1>19, <1>20, <1>21, <1>22, <1>23, <1>25, <1>26, <1>27, <1>28 DEF Evicted

\* n is s with the first i entries of the master table in m swept: PagedOut.
Swept(s, m, i, n) ==
  /\ n \in Spaces
  /\ n.pcb = s.pcb /\ n.ft = s.ft /\ n.disk = s.disk /\ n.free = s.free
  /\ n.empty = s.empty /\ n.wild = s.wild
  /\ \A g \in Frame \ {m} : n.mem[g] = s.mem[g]
  /\ n.mem[m].kind = "master"
  /\ \A t \in Slot : n.mem[m].l1[t] = IF t < i THEN PagedOut(s.mem[m].l1[t].blk)
                                      ELSE s.mem[m].l1[t]

\* A child that is not in memory is only marked.
LEMMA EvictChildIs ==
  ASSUME NEW s \in Spaces, NEW m \in Frame, s.mem[m].kind = "master", NEW t \in Slot,
         s.mem[m].l1[t].status # "Present",
         NEW e, e = PagedOut(s.mem[m].l1[t].blk), NEW n, n = EvictChild(s, m, t)
  PROVE  CellSet(s, m, t, e, n)
<1>1. s.mem[m] \in Contents /\ s.mem[m].l1 \in [Slot -> Cells]
  BY SpaceTypes, ContentKinds
<1>2. PICK y \in Cells : y = s.mem[m].l1[t]
  BY <1>1
<1>3. e = [status |-> "PagedOut", blk |-> y.blk] /\ y = [status |-> y.status, blk |-> y.blk]
  BY <1>2 DEF PagedOut, Cells
<1>4. e \in Cells /\ e = [y EXCEPT !.status = "PagedOut"]
  BY <1>3 DEF Cells
<1>5. n = [s EXCEPT !.mem[m].l1[t] = e]
  BY <1>2, <1>4 DEF EvictChild
<1>6. SetCell(s, <<m, t>>, e) = [s EXCEPT !.mem[m].l1[t] = e]
  BY DEF SetCell
<1> QED
  BY <1>4, <1>5, <1>6, SetCellIs

\* The kernel spaces f that EvictChildren goes through, from s on, up to entry i.
Sweep(f, s, m, i) ==
  f = [j \in 0 .. i |-> IF j = 0 THEN s ELSE EvictChild(f[j - 1], m, j - 1)]

LEMMA SweepExists ==
  ASSUME NEW s, NEW m, NEW i \in Nat
  PROVE  \E f : Sweep(f, s, m, i)
<1> DEFINE Steps(f, n) == Sweep(f, s, m, n)
           S == {n \in Nat : \E f : Steps(f, n)}
<1>1. 0 \in S
  <2>1. PICK f : f = [j \in 0 .. 0 |-> s]
    OBVIOUS
  <2>2. \A j \in 0 .. 0 : j = 0
    OBVIOUS
  <2>3. Steps(f, 0)
    BY <2>1, <2>2 DEF Sweep
  <2> QED
    BY <2>3
<1>2. ASSUME NEW n \in Nat, n \in S PROVE n + 1 \in S
  <2>1. PICK f : Steps(f, n)
    BY <1>2
  <2>2. PICK x : x = EvictChild(f[n], m, n)
    OBVIOUS
  <2>3. PICK g : g = [j \in 0 .. n + 1 |-> IF j = n + 1 THEN x ELSE f[j]]
    OBVIOUS
  <2>4. /\ \A j \in 0 .. n : j \in 0 .. n + 1 /\ j # n + 1
        /\ n + 1 \in 0 .. n + 1 /\ n \in 0 .. n /\ n + 1 # 0 /\ (n + 1) - 1 = n
        /\ \A j \in 0 .. n : j # 0 => j - 1 \in 0 .. n
        /\ \A j \in 0 .. n + 1 : j # n + 1 => j \in 0 .. n
    OBVIOUS
  <2>5. \A j \in 0 .. n : g[j] = f[j]
    BY <2>3, <2>4
  <2>6. g[n + 1] = x
    BY <2>3, <2>4
  <2>7. ASSUME NEW j \in 0 .. n + 1
        PROVE  g[j] = IF j = 0 THEN s ELSE EvictChild(g[j - 1], m, j - 1)
    <3>1. CASE j = n + 1
      BY <2>2, <2>4, <2>5, <2>6, <3>1
    <3>2. CASE j # n + 1
      <4>1. j \in 0 .. n
        BY <2>4, <3>2
      <4>2. f[j] = IF j = 0 THEN s ELSE EvictChild(f[j - 1], m, j - 1)
        BY <2>1, <4>1 DEF Sweep
      <4>3. j # 0 => g[j - 1] = f[j - 1]
        BY <2>4, <2>5, <4>1
      <4> QED
        BY <2>5, <4>1, <4>2, <4>3
    <3> QED
      BY <3>1, <3>2
  <2>8. Steps(g, n + 1)
    BY <2>3, <2>7 DEF Sweep
  <2> QED
    BY <2>8
<1>3. Nat \subseteq S
  <2> HIDE DEF S
  <2> QED
    BY <1>1, <1>2, Induction
<1> QED
  BY <1>3

\* A master table without page tables in memory is swept.
LEMMA EvictChildrenIs ==
  ASSUME NEW s \in Spaces, NEW p \in Procs, NEW m \in Frame, m = s.pcb[p].ptl1,
         s.mem[m].kind = "master", \A t \in Slot : s.mem[m].l1[t].status # "Present",
         NEW n, n = EvictChildren(s, p)
  PROVE  Swept(s, m, NTables, n)
<1>0. NTables \in Nat /\ Slot = 0 .. NTables - 1
  BY NilApart DEF Slot
<1>1. PICK f : /\ f = [j \in 0 .. NTables |->
                         IF j = 0 THEN s ELSE EvictChild(f[j - 1], m, j - 1)]
               /\ n = f[NTables]
  <2>1. \E f : Sweep(f, s, m, NTables)
    BY <1>0, SweepExists
  <2>2. PICK f : f = CHOOSE g :
                   g = [j \in 0 .. NTables |->
                          IF j = 0 THEN s ELSE EvictChild(g[j - 1], m, j - 1)]
    OBVIOUS
  <2>3. f = [j \in 0 .. NTables |-> IF j = 0 THEN s ELSE EvictChild(f[j - 1], m, j - 1)]
    BY <2>1, <2>2 DEF Sweep
  <2>4. n = f[NTables]
    BY <2>2 DEF EvictChildren
  <2> QED
    BY <2>3, <2>4
<1>2. f[0] = s /\ \A j \in 0 .. NTables - 1 : f[j + 1] = EvictChild(f[j], m, j)
  <2>1. \A j \in 0 .. NTables - 1 : j + 1 \in 0 .. NTables /\ j + 1 # 0 /\ (j + 1) - 1 = j
    BY <1>0
  <2>2. 0 \in 0 .. NTables
    BY <1>0
  <2> QED
    BY <1>1, <2>1, <2>2
<1> DEFINE S == {j \in Nat : j <= NTables => Swept(s, m, j, f[j])}
<1>3. 0 \in S
  <2>1. \A t \in Slot : ~(t < 0)
    BY <1>0
  <2> QED
    BY <1>2, <2>1 DEF Swept
<1>4. ASSUME NEW j \in Nat, j \in S PROVE j + 1 \in S
  <2> SUFFICES ASSUME j + 1 <= NTables PROVE Swept(s, m, j + 1, f[j + 1])
    OBVIOUS
  <2>1. PICK r, x : r = f[j] /\ x = f[j + 1]
    OBVIOUS
  <2>2. j \in 0 .. NTables - 1 /\ j \in Slot /\ ~(j < j) /\ j < j + 1
    BY <1>0
  <2>3. Swept(s, m, j, r) /\ x = EvictChild(r, m, j)
    <3>1. j <= NTables
      BY <1>0
    <3>2. Swept(s, m, j, f[j])
      BY <1>4, <3>1
    <3> QED
      BY <1>2, <2>1, <2>2, <3>2
  <2>4. /\ r \in Spaces /\ r.mem[m].kind = "master" /\ r.mem[m].l1[j] = s.mem[m].l1[j]
        /\ r.mem[m].l1[j].status # "Present"
    BY <2>2, <2>3 DEF Swept
  <2>5. CellSet(r, m, j, PagedOut(s.mem[m].l1[j].blk), x)
    BY <2>2, <2>3, <2>4, EvictChildIs
  <2>6. \A t \in Slot : /\ t # j => (t < j + 1 <=> t < j)
    BY <1>0
  <2>7. \A t \in Slot : x.mem[m].l1[t] = IF t < j + 1 THEN PagedOut(s.mem[m].l1[t].blk)
                                        ELSE s.mem[m].l1[t]
    <3> SUFFICES ASSUME NEW t \in Slot
                 PROVE  x.mem[m].l1[t] = IF t < j + 1 THEN PagedOut(s.mem[m].l1[t].blk)
                                         ELSE s.mem[m].l1[t]
      OBVIOUS
    <3>1. CASE t = j
      BY <2>2, <2>5, <3>1 DEF CellSet
    <3>2. CASE t # j
      <4>1. x.mem[m].l1[t] = r.mem[m].l1[t]
        BY <2>5, <3>2 DEF CellSet
      <4>2. r.mem[m].l1[t] = IF t < j THEN PagedOut(s.mem[m].l1[t].blk)
                             ELSE s.mem[m].l1[t]
        BY <2>3 DEF Swept
      <4> QED
        BY <2>6, <3>2, <4>1, <4>2
    <3> QED
      BY <3>1, <3>2
  <2>8. Swept(s, m, j + 1, x)
    <3>1. /\ r.pcb = s.pcb /\ r.ft = s.ft /\ r.disk = s.disk /\ r.free = s.free
          /\ r.empty = s.empty /\ r.wild = s.wild
          /\ \A g \in Frame \ {m} : r.mem[g] = s.mem[g]
      BY <2>3 DEF Swept
    <3>2. /\ x \in Spaces /\ x.pcb = r.pcb /\ x.ft = r.ft /\ x.disk = r.disk
          /\ x.free = r.free /\ x.empty = r.empty /\ x.wild = r.wild
          /\ \A g \in Frame \ {m} : x.mem[g] = r.mem[g]
          /\ x.mem[m].kind = "master"
      BY <2>5 DEF CellSet
    <3>3. \A g \in Frame \ {m} : x.mem[g] = s.mem[g]
      BY <3>1, <3>2
    <3> QED
      BY <2>7, <3>1, <3>2, <3>3 DEF Swept
  <2> QED
    BY <2>1, <2>8
<1>5. NTables \in S
  <2>1. Nat \subseteq S
    <3> HIDE DEF S
    <3> QED
      BY <1>3, <1>4, Induction
  <2> QED
    BY <1>0, <2>1
<1>6. Swept(s, m, NTables, f[NTables])
  BY <1>0, <1>5
<1>7. n = f[NTables]
  BY <1>1
<1> QED
  BY <1>6, <1>7

\* ks_swap_out of the master table of p, which has no page table in memory.
LEMMA MasterOutIs ==
  ASSUME NEW s, NEW A \in SUBSET Procs, Sound(s, A, {}), s.free # {},
         NEW p \in A, In(s, A, p), NEW f \in Frame, f = s.pcb[p].frame,
         \A t \in Slot : Cell(s, p, t).status # "Present",
         NEW c, c = Min(s.free), NEW n, n = MasterOut(s, f)
  PROVE  /\ c \in s.free /\ c \in Cluster
         /\ n \in Spaces /\ ~n.wild
         /\ n.empty = Append(s.empty, f)
         /\ PcbTold(s, p, c, n) /\ ClusterTaken(s, c, n) /\ MasterStored(s, p, c, n)
         /\ FrameLeft(s, f, n)
         /\ \A g \in Frame \ {f} : n.mem[g] = s.mem[g]
<1>1. s \in Spaces /\ ~s.wild /\ s.free \in SUBSET Nat /\ s.free \in SUBSET Cluster
  BY SpaceTypes, NilApart DEF Sound, Cluster
<1>2. c \in s.free /\ c \in Cluster /\ p \in Procs
  BY <1>1, MinOf
<1>3. /\ s.pcb[p].ptl1 = f /\ s.ft[f].owner = p /\ s.mem[f].kind = "master"
      /\ \A t \in Slot : Cell(s, p, t) = s.mem[f].l1[t]
  BY DEF Sound, MastersOK, Cell, In
<1>4. PICK a : a = [s EXCEPT !.free = s.free \ {c}]
  OBVIOUS
<1>5. /\ a \in Spaces /\ a.pcb = s.pcb /\ a.ft = s.ft /\ a.mem = s.mem /\ a.disk = s.disk
      /\ a.free = s.free \ {c} /\ a.empty = s.empty /\ a.wild = s.wild
  BY <1>1, <1>4 DEF Spaces
<1>6. PICK b : b = EvictChildren(a, p)
  OBVIOUS
<1>7. Swept(a, f, NTables, b)
  BY <1>2, <1>3, <1>5, <1>6, EvictChildrenIs
<1>8. /\ b \in Spaces /\ b.pcb = s.pcb /\ b.ft = s.ft /\ b.disk = s.disk
      /\ b.free = s.free \ {c} /\ b.empty = s.empty /\ b.wild = s.wild
      /\ \A g \in Frame \ {f} : b.mem[g] = s.mem[g]
      /\ b.mem[f].kind = "master"
      /\ \A t \in Slot : b.mem[f].l1[t] = PagedOut(s.mem[f].l1[t].blk)
  <2>1. \A t \in Slot : t < NTables
    BY NilApart DEF Slot
  <2> QED
    BY <1>5, <1>7, <2>1 DEF Swept
<1>9. PICK y : y = [s.pcb[p] EXCEPT !.disk = c, !.valid = FALSE]
  OBVIOUS
<1>10. y \in Pcbs /\ y.disk = c /\ ~y.valid
  <2>1. s.pcb[p] \in Pcbs
    BY <1>1, <1>2, SpaceTypes
  <2> QED
    BY <1>2, <1>9, <2>1 DEF Pcbs
<1>11. PICK x \in [Procs -> Pcbs] : x = [s.pcb EXCEPT ![p] = y]
  BY <1>1, <1>10, SpaceTypes
<1>12. x[p] = y /\ \A q \in Procs \ {p} : x[q] = s.pcb[q]
  BY <1>1, <1>2, <1>11, SpaceTypes
<1>13. PICK d : d = [b EXCEPT !.pcb = x]
  OBVIOUS
<1>14. /\ d \in Spaces /\ d.pcb = x /\ d.ft = b.ft /\ d.mem = b.mem /\ d.disk = b.disk
       /\ d.free = b.free /\ d.empty = b.empty /\ d.wild = b.wild
  BY <1>8, <1>13 DEF Spaces
<1>15. d = [b EXCEPT !.pcb[p].disk = c, !.pcb[p].valid = FALSE]
  <2>1. b.pcb[p] = s.pcb[p] /\ s.pcb \in [Procs -> Pcbs]
    BY <1>1, <1>8, SpaceTypes
  <2>2. PICK v, w : /\ v = [s.pcb EXCEPT ![p].disk = c]
                    /\ w = [v EXCEPT ![p].valid = FALSE]
    OBVIOUS
  <2>3. w = x
    BY <1>2, <1>9, <1>11, <2>1, <2>2 DEF Pcbs
  <2>4. [b EXCEPT !.pcb[p].disk = c] = [b EXCEPT !.pcb = v]
    BY <1>8, <2>2
  <2>5. [[b EXCEPT !.pcb = v] EXCEPT !.pcb[p].valid = FALSE] = [b EXCEPT !.pcb = w]
    BY <1>8, <2>2 DEF Spaces
  <2> QED
    BY <1>13, <2>3, <2>4, <2>5
<1>16. n = WriteBack(d, f, c)
  BY <1>3, <1>4, <1>6, <1>15 DEF MasterOut
<1>17. FrameWritten(d, f, c, n)
  BY <1>2, <1>14, <1>16, WriteBackIs
<1>18. /\ n \in Spaces /\ n.pcb = x /\ n.mem = b.mem /\ n.wild = s.wild
       /\ n.free = s.free \ {c} /\ n.empty = Append(s.empty, f)
  <2>1. (s.free \ {c}) \ {c} = s.free \ {c}
    OBVIOUS
  <2>2. /\ n \in Spaces /\ n.pcb = d.pcb /\ n.mem = d.mem /\ n.wild = d.wild
        /\ n.free = d.free \ {c} /\ n.empty = Append(d.empty, f)
    BY <1>17 DEF FrameWritten
  <2>3. /\ d.pcb = x /\ d.mem = b.mem /\ d.wild = s.wild /\ d.free = s.free \ {c}
        /\ d.empty = s.empty
    BY <1>8, <1>14
  <2> QED
    BY <2>1, <2>2, <2>3
<1>19. /\ n.ft[f].type = "Unused" /\ \A g \in Frame \ {f} : n.ft[g] = s.ft[g]
       /\ n.ft[f].owner = s.ft[f].owner /\ n.ft[f].locked = s.ft[f].locked
       /\ n.disk[c] = b.mem[f] /\ \A e \in Cluster \ {c} : n.disk[e] = s.disk[e]
  <2>1. /\ n.ft[f].type = "Unused" /\ \A g \in Frame \ {f} : n.ft[g] = d.ft[g]
        /\ n.ft[f].owner = d.ft[f].owner /\ n.ft[f].locked = d.ft[f].locked
        /\ n.disk[c] = d.mem[f] /\ \A e \in Cluster \ {c} : n.disk[e] = d.disk[e]
    BY <1>17 DEF FrameWritten
  <2>2. d.ft = s.ft /\ d.mem = b.mem /\ d.disk = s.disk
    BY <1>8, <1>14
  <2> QED
    BY <2>1, <2>2
<1>20. n.disk[c].kind = "master" /\ \A t \in Slot : n.disk[c].l1[t] = PagedOut(Cell(s, p, t).blk)
  BY <1>3, <1>8, <1>19
<1>21. ~n.pcb[p].valid /\ n.pcb[p].disk = c /\ \A q \in Procs \ {p} : n.pcb[q] = s.pcb[q]
  BY <1>10, <1>12, <1>18
<1>22. \A g \in Frame \ {f} : n.mem[g] = s.mem[g]
  BY <1>8, <1>18
<1>23. ~n.wild
  BY <1>1, <1>18
<1>24. PcbTold(s, p, c, n) /\ MasterStored(s, p, c, n)
  BY <1>20, <1>21 DEF PcbTold, MasterStored
<1>25. ClusterTaken(s, c, n)
  BY <1>18, <1>19 DEF ClusterTaken
<1>26. FrameLeft(s, f, n)
  BY <1>19 DEF FrameLeft
<1> QED
  BY <1>2, <1>18, <1>22, <1>23, <1>24, <1>25, <1>26

LEMMA MasterOutCells ==
  ASSUME NEW s, NEW A \in SUBSET Procs, Sound(s, A, {}),
         NEW p \in A, In(s, A, p), NEW f \in Frame, f = s.pcb[p].frame,
         NEW c \in s.free, c \in Cluster, NEW n,
         PcbTold(s, p, c, n), ClusterTaken(s, c, n), MasterStored(s, p, c, n),
         \A g \in Frame \ {f} : n.mem[g] = s.mem[g]
  PROVE  /\ \A q \in A, u \in Slot :
              Cell(n, q, u) = IF q = p THEN PagedOut(Cell(s, p, u).blk) ELSE Cell(s, q, u)
         /\ \A q \in A : /\ In(n, A, q) <=> In(s, A, q) /\ q # p
                         /\ Out(n, A, q) <=> Out(s, A, q) \/ q = p
<1>1. ASSUME NEW q \in A, NEW u \in Slot, q # p
      PROVE  Cell(n, q, u) = Cell(s, q, u)
  <2>0. n.pcb[q] = s.pcb[q]
    BY <1>1 DEF PcbTold
  <2>1. CASE Out(s, A, q)
    <3>1. s.pcb[q].disk \in Cluster \ {c} /\ ~s.pcb[q].valid
      BY <2>1 DEF Sound, MastersOK, Out, In
    <3> QED
      BY <2>0, <3>1 DEF Cell, ClusterTaken
  <2>2. CASE In(s, A, q)
    <3>1. s.pcb[q].valid /\ s.pcb[q].frame \in Frame \ {f}
      BY <1>1, <2>2, OwnMaster DEF Sound, MastersOK, In
    <3> QED
      BY <2>0, <3>1 DEF Cell
  <2> QED
    BY <2>1, <2>2 DEF In, Out
<1>2. \A u \in Slot : Cell(n, p, u) = PagedOut(Cell(s, p, u).blk)
  BY DEF Cell, PcbTold, MasterStored
<1>3. ~n.pcb[p].valid /\ \A q \in A \ {p} : n.pcb[q] = s.pcb[q]
  BY DEF PcbTold
<1> QED
  BY <1>1, <1>2, <1>3 DEF In, Out


LEMMA ChildOwner ==
  \A s, p, t, f : Child(s, p, t, f) => s.ft[f].owner[1] = s.pcb[p].frame
BY DEF Child

LEMMA MasterOutWorks ==
  ASSUME NEW s, NEW A \in SUBSET Procs, Sound(s, A, {}), Parented(s, A), Loose(s, A),
         s.free # {}, NEW p \in A, In(s, A, p), NEW f \in Frame, f = s.pcb[p].frame,
         ~s.ft[f].locked, \A t \in Slot : Cell(s, p, t).status # "Present",
         NEW n, n = MasterOut(s, f)
  PROVE  Evicted(s, A, n)
<1>2. PICK c : c = Min(s.free)
  OBVIOUS
<1>3. /\ c \in s.free /\ c \in Cluster
      /\ n \in Spaces /\ ~n.wild
      /\ n.empty = Append(s.empty, f)
      /\ PcbTold(s, p, c, n) /\ ClusterTaken(s, c, n) /\ MasterStored(s, p, c, n)
      /\ FrameLeft(s, f, n)
      /\ \A g \in Frame \ {f} : n.mem[g] = s.mem[g]
  BY <1>2, MasterOutIs
<1>b. /\ c \in s.free /\ c \in Cluster
      /\ ~n.pcb[p].valid /\ n.pcb[p].disk = c /\ \A q \in Procs \ {p} : n.pcb[q] = s.pcb[q]
  BY <1>3 DEF PcbTold
<1>c. /\ n.free = s.free \ {c} /\ \A d \in Cluster \ {c} : n.disk[d] = s.disk[d]
      /\ n.disk[c].kind = "master"
  BY <1>3 DEF ClusterTaken, MasterStored
<1>d. /\ n.ft[f].type = "Unused" /\ \A g \in Frame \ {f} : n.ft[g] = s.ft[g]
      /\ n.ft[f].owner = s.ft[f].owner /\ n.ft[f].locked = s.ft[f].locked
  BY <1>3 DEF FrameLeft
<1>e. \A g \in Frame \ {f} : n.mem[g] = s.mem[g]
  BY <1>3
<1>f. \A g \in Frame : n.ft[g].locked = s.ft[g].locked
  BY <1>d
<1>4. /\ \A q \in A, u \in Slot :
           Cell(n, q, u) = IF q = p THEN PagedOut(Cell(s, p, u).blk) ELSE Cell(s, q, u)
      /\ \A q \in A : /\ In(n, A, q) <=> In(s, A, q) /\ q # p
                      /\ Out(n, A, q) <=> Out(s, A, q) \/ q = p
  BY <1>3, MasterOutCells
<1>5. /\ s \in Spaces /\ MastersOK(s, A) /\ EntriesOK(s, A) /\ Apart(s, A)
      /\ FramesOK(s, A, {}) /\ OwnersOK(s, A)
  BY DEF Sound
<1>6. s.ft[f].type = "SegTable" /\ c # Nil /\ s.pcb[p].valid
  <2>1. c # Nil
    BY <1>b, NilApart
  <2> QED
    BY <1>5, <2>1 DEF MastersOK, In
<1>7. \A x : PagedOut(x).status = "PagedOut" /\ PagedOut(x).blk = x
  BY DEF PagedOut
<1>a. /\ \A q \in A : q # p => n.pcb[q] = s.pcb[q]
      /\ \A q \in Procs \ A : n.pcb[q] = s.pcb[q]
  <2>1. \A q \in A : q \in Procs
    OBVIOUS
  <2> QED
    BY <1>b, <2>1
\* The entries of the others say what they said, and it is there.
<1>8. ASSUME NEW q \in A, NEW u \in Slot, q # p
      PROVE  /\ Cell(n, q, u) = Cell(s, q, u) /\ EntryOK(n, q, u, Cell(s, q, u))
             /\ Reads(n, q, u) = Reads(s, q, u)
  <2>1. PICK e : e = Cell(s, q, u) /\ e = Cell(n, q, u)
    BY <1>4, <1>8
  <2>2. EntryOK(s, q, u, e) /\ n.pcb[q] = s.pcb[q]
    BY <1>a, <1>5, <1>8, <2>1 DEF EntriesOK
  <2>3. CASE e.status = "Unused"
    <3>1. EntryOK(n, q, u, e)
      BY <2>2, <2>3 DEF EntryOK
    <3>2. Leads(n, e) = Table(Nil) /\ Leads(s, e) = Table(Nil)
      BY <2>3 DEF Leads
    <3> QED
      BY <2>1, <3>1, <3>2 DEF Reads
  <2>4. CASE e.status = "Present"
    <3>1. /\ e.blk \in Frame /\ s.pcb[q].valid
          /\ s.ft[e.blk].type = "PageTable" /\ s.ft[e.blk].owner = <<s.pcb[q].frame, u>>
          /\ s.mem[e.blk].kind = "table"
      BY <2>2, <2>4 DEF EntryOK
    <3>2. n.ft[e.blk] = s.ft[e.blk] /\ n.mem[e.blk] = s.mem[e.blk]
      BY <1>d, <1>e, <1>6, <3>1
    <3>3. EntryOK(n, q, u, e)
      BY <2>2, <2>4, <3>1, <3>2 DEF EntryOK
    <3>4. Leads(n, e) = Leads(s, e)
      BY <2>4, <3>2 DEF Leads
    <3> QED
      BY <2>1, <3>3, <3>4 DEF Reads
  <2>5. CASE e.status = "PagedOut"
    <3>1. CASE e.blk = Nil
      <4>1. EntryOK(n, q, u, e)
        BY <1>b, <2>2, <2>5, <3>1, NilApart DEF EntryOK
      <4>2. Leads(n, e) = Table(Nil) /\ Leads(s, e) = Table(Nil)
        BY <2>5, <3>1 DEF Leads
      <4> QED
        BY <2>1, <4>1, <4>2 DEF Reads
    <3>2. CASE e.blk # Nil
      <4>1. e.blk \in Cluster \ s.free /\ s.disk[e.blk].kind = "table"
        BY <2>2, <2>5, <3>2 DEF EntryOK
      <4>2. e.blk # c /\ n.disk[e.blk] = s.disk[e.blk]
        BY <1>b, <1>c, <4>1
      <4>3. EntryOK(n, q, u, e)
        BY <1>c, <2>5, <4>1, <4>2 DEF EntryOK
      <4>4. Leads(n, e) = Leads(s, e)
        BY <2>5, <4>2 DEF Leads
      <4> QED
        BY <2>1, <4>3, <4>4 DEF Reads
    <3> QED
      BY <3>1, <3>2
  <2> QED
    BY <2>2, <2>3, <2>4, <2>5 DEF EntryOK
\* The entries of p are on disk or PagedOut with no cluster.
<1>9. ASSUME NEW u \in Slot
      PROVE  /\ EntryOK(n, p, u, Cell(n, p, u)) /\ Reads(n, p, u) = Reads(s, p, u)
             /\ Cell(n, p, u).status = "PagedOut" /\ Cell(n, p, u).blk = Cell(s, p, u).blk
             /\ Cell(s, p, u).status = "PagedOut" \/ Cell(s, p, u).blk = Nil
  <2>1. PICK e, b : /\ e = Cell(s, p, u) /\ b = Cell(n, p, u)
                    /\ b.status = "PagedOut" /\ b.blk = e.blk
    BY <1>4, <1>7
  <2>2. EntryOK(s, p, u, e) /\ e.status # "Present"
    BY <1>5, <2>1 DEF EntriesOK
  <2>3. CASE e.status = "Unused"
    <3>1. e.blk = Nil
      BY <2>2, <2>3 DEF EntryOK
    <3>2. EntryOK(n, p, u, b)
      BY <1>b, <2>1, <3>1 DEF EntryOK
    <3>3. Leads(n, b) = Table(Nil) /\ Leads(s, e) = Table(Nil)
      BY <2>1, <2>3, <3>1 DEF Leads
    <3> QED
      BY <2>1, <3>1, <3>2, <3>3 DEF Reads
  <2>4. CASE e.status = "PagedOut"
    <3>1. e.blk \in Cluster \ s.free /\ s.disk[e.blk].kind = "table"
      BY <1>6, <2>2, <2>4 DEF EntryOK
    <3>2. e.blk # c /\ n.disk[e.blk] = s.disk[e.blk] /\ e.blk # Nil
      BY <1>b, <1>c, <3>1, NilApart
    <3>3. EntryOK(n, p, u, b)
      BY <1>c, <2>1, <3>1, <3>2 DEF EntryOK
    <3>4. Leads(n, b) = Leads(s, e)
      BY <2>1, <2>4, <3>2 DEF Leads
    <3> QED
      BY <2>1, <2>4, <3>3, <3>4 DEF Reads
  <2> QED
    BY <2>2, <2>3, <2>4 DEF EntryOK
<1>10. MastersOK(n, A)
  <2>1. ASSUME NEW q \in A, In(s, A, q), q # p
        PROVE  /\ s.pcb[q].frame \in Frame /\ s.pcb[q].frame # f
               /\ n.mem[s.pcb[q].frame].kind = "master"
    <3>1. s.pcb[q].frame \in Frame /\ s.mem[s.pcb[q].frame].kind = "master"
      BY <1>5, <2>1 DEF MastersOK
    <3>2. s.pcb[q].frame # f
      BY <1>5, <2>1, OwnMaster
    <3> QED
      BY <1>e, <3>1, <3>2
  <2>2. \A q \in A : Out(s, A, q) => s.pcb[q].disk \in Cluster \ {c} /\ q # p
    BY <1>b, <1>5, <1>6 DEF MastersOK, Out
  <2>3. \A q \in Procs \ A : n.pcb[q] = NoPcb
    BY <1>a, <1>5 DEF MastersOK
  <2>4. ASSUME NEW q \in A, In(n, A, q)
        PROVE  LET m == n.pcb[q].frame
               IN  /\ m \in Frame /\ n.pcb[q].ptl1 = m
                   /\ n.ft[m].type = "SegTable" /\ n.ft[m].owner = q
                   /\ n.mem[m].kind = "master"
    <3>1. In(s, A, q) /\ q # p /\ n.pcb[q] = s.pcb[q]
      BY <1>b, <1>4, <2>4
    <3>2. /\ s.pcb[q].ptl1 = s.pcb[q].frame
          /\ s.ft[s.pcb[q].frame].type = "SegTable" /\ s.ft[s.pcb[q].frame].owner = q
      BY <1>5, <3>1 DEF MastersOK
    <3>3. n.ft[s.pcb[q].frame] = s.ft[s.pcb[q].frame]
      BY <1>d, <2>1, <3>1
    <3> QED
      BY <2>1, <3>1, <3>2, <3>3
  <2>5. ASSUME NEW q \in A, Out(n, A, q)
        PROVE  n.pcb[q].disk \in Cluster \ n.free /\ n.disk[n.pcb[q].disk].kind = "master"
    <3>1. CASE q = p
      BY <1>b, <1>c, <3>1
    <3>2. CASE q # p
      <4>1. Out(s, A, q) /\ n.pcb[q] = s.pcb[q]
        BY <1>b, <1>4, <2>5, <3>2
      <4>2. s.pcb[q].disk \in Cluster \ s.free /\ s.disk[s.pcb[q].disk].kind = "master"
        BY <1>5, <4>1 DEF MastersOK
      <4> QED
        BY <1>c, <2>2, <4>1, <4>2
    <3> QED
      BY <3>1, <3>2
  <2> QED
    BY <2>3, <2>4, <2>5 DEF MastersOK
<1>11. EntriesOK(n, A)
  BY <1>8, <1>9 DEF EntriesOK
<1>12. \A q \in A, u \in Slot, d \in Cluster : Stored(n, q, u, d) <=> Stored(s, q, u, d)
  BY <1>8, <1>9, NilApart DEF Stored
<1>14. Apart(n, A)
  <2>1. \A q, r \in A, u, v \in Slot, d \in Cluster :
          Stored(n, q, u, d) /\ Stored(n, r, v, d) => q = r /\ u = v
    BY <1>5, <1>12 DEF Apart
  <2>2. ASSUME NEW q \in A, Out(n, A, q), q # p
        PROVE  Out(s, A, q) /\ n.pcb[q].disk = s.pcb[q].disk /\ n.pcb[q].disk # c
    <3>1. Out(s, A, q) /\ n.pcb[q].disk = s.pcb[q].disk
      BY <1>a, <1>4, <2>2
    <3>2. s.pcb[q].disk \in Cluster \ s.free
      BY <1>5, <3>1 DEF MastersOK
    <3> QED
      BY <1>b, <3>1, <3>2
  <2>3. ASSUME NEW q \in A, NEW r \in A, Out(n, A, q), Out(n, A, r),
               n.pcb[q].disk = n.pcb[r].disk
        PROVE  q = r
    <3>1. CASE q = p \/ r = p
      <4>1. n.pcb[p].disk = c
        BY <1>b
      <4>2. (q # p => n.pcb[q].disk # c) /\ (r # p => n.pcb[r].disk # c)
        BY <2>2, <2>3
      <4> QED
        BY <2>3, <3>1, <4>1, <4>2
    <3>2. CASE q # p /\ r # p
      <4>1. Out(s, A, q) /\ Out(s, A, r) /\ s.pcb[q].disk = s.pcb[r].disk
        BY <2>2, <2>3, <3>2
      <4> QED
        BY <1>5, <4>1 DEF Apart
    <3> QED
      BY <3>1, <3>2
  <2> QED
    BY <2>1, <2>3 DEF Apart
<1>15. \A g \in Frame : InUse(n, A, g) <=> InUse(s, A, g) /\ g # f
  <2>1. \A q \in A : In(s, A, q) => (s.pcb[q].frame = f <=> q = p)
    BY OwnMaster, <1>5
  <2>2. \A q \in A : In(n, A, q) => n.pcb[q] = s.pcb[q]
    BY <1>b, <1>a, <1>4
  <2>3. \A g \in Frame : n.ft[g].type = "PageTable" <=> s.ft[g].type = "PageTable" /\ g # f
    BY <1>d
  <2>4. \A g \in Frame : (\E q \in A : In(n, A, q) /\ n.pcb[q].frame = g)
                           <=> (\E q \in A : In(s, A, q) /\ s.pcb[q].frame = g) /\ g # f
    BY <1>4, <2>1, <2>2
  <2> QED
    BY <1>6, <2>3, <2>4 DEF InUse
<1>16. FramesOK(n, A, {}) /\ n.empty # <<>>
  <2>1. s.empty \in Seq(Frame) /\ ~Listed(s.empty, f)
    BY <1>5, SpaceTypes DEF FramesOK, InUse
  <2>a. \A i, j \in 1 .. Len(s.empty) : s.empty[i] = s.empty[j] => i = j
    BY <1>5 DEF FramesOK
  <2>2. /\ n.empty # <<>>
        /\ \A i, j \in 1 .. Len(n.empty) : n.empty[i] = n.empty[j] => i = j
        /\ \A g : Listed(n.empty, g) <=> Listed(s.empty, g) \/ g = f
    <3>1. PICK l \in Seq(Frame) : l = s.empty
      BY <2>1
    <3>2. /\ Append(l, f) # <<>>
          /\ \A i, j \in 1 .. Len(Append(l, f)) :
               Append(l, f)[i] = Append(l, f)[j] => i = j
          /\ \A g : Listed(Append(l, f), g) <=> Listed(l, g) \/ g = f
      BY <2>1, <2>a, <3>1, ListAppend
    <3>3. n.empty = Append(l, f)
      BY <1>3, <3>1
    <3> QED
      BY <3>1, <3>2, <3>3
  <2> QED
    BY <1>5, <1>15, <1>f, <2>2 DEF FramesOK
\* Every page table belongs to another process.
<1>17. ASSUME NEW g \in Frame, n.ft[g].type = "PageTable"
       PROVE  /\ g # f /\ n.ft[g] = s.ft[g]
              /\ \E q \in A, u \in Slot : In(n, A, q) /\ Child(n, q, u, g)
  <2>1. g # f /\ n.ft[g] = s.ft[g]
    BY <1>d, <1>17
  <2>2. PICK q \in A, u \in Slot : In(s, A, q) /\ Child(s, q, u, g)
    BY <1>5, <1>17, <2>1 DEF OwnersOK, Parented
  <2>3. q # p
    BY <2>2 DEF Child
  <2>4. In(n, A, q) /\ Child(n, q, u, g)
    BY <1>a, <1>4, <1>8, <2>1, <2>2, <2>3 DEF Child
  <2> QED
    BY <2>1, <2>4
<1>18. OwnersOK(n, A)
  BY <1>17 DEF OwnersOK
<1>19. Parented(n, A)
  <2>1. \A g \in Frame, q \in A, u \in Slot :
          Child(n, q, u, g) => n.ft[g].owner[1] = n.pcb[q].frame
    BY ChildOwner
  <2> QED
    BY <1>17, <2>1 DEF Parented, Parent
<1>20. Loose(n, A)
  <2> SUFFICES ASSUME NEW q \in A, NEW u \in Slot, In(n, A, q),
                      ~n.ft[n.pcb[q].frame].locked, Cell(n, q, u).status = "Present"
               PROVE  ~n.ft[Cell(n, q, u).blk].locked
    BY DEF Loose
  <2>1. q # p /\ Cell(n, q, u) = Cell(s, q, u) /\ In(s, A, q) /\ n.pcb[q] = s.pcb[q]
    BY <1>a, <1>4, <1>8
  <2>2. s.pcb[q].frame \in Frame /\ Cell(s, q, u).blk \in Frame
    BY <1>5, <2>1 DEF MastersOK, EntriesOK, EntryOK
  <2>3. ~s.ft[s.pcb[q].frame].locked
    BY <1>f, <2>1, <2>2
  <2>4. ~s.ft[Cell(s, q, u).blk].locked
    BY <2>1, <2>3 DEF Loose
  <2> QED
    BY <1>f, <2>1, <2>2, <2>4
<1>21. ASSUME Tight(s, A) PROVE Tight(n, A)
  <2>1. ASSUME NEW d \in Cluster \ n.free PROVE Held(n, A, d)
    <3>1. CASE d = c
      BY <1>b, <1>4, <3>1 DEF Held
    <3>2. CASE d # c
      <4>1. Held(s, A, d)
        BY <1>c, <1>21, <2>1, <3>2 DEF Tight
      <4>2. \A q \in A : Out(s, A, q) => Out(n, A, q) /\ n.pcb[q] = s.pcb[q]
        BY <1>b, <1>4, <1>6 DEF Out
      <4> QED
        BY <1>12, <4>1, <4>2 DEF Held
    <3> QED
      BY <3>1, <3>2
  <2>2. \A g \in Frame : InUse(n, A, g) \/ n.ft[g].type = "Unused"
    BY <1>d, <1>15, <1>21 DEF Tight
  <2> QED
    BY <2>1, <2>2 DEF Tight
<1>22. Sound(n, A, {})
  BY <1>3, <1>10, <1>11, <1>14, <1>16, <1>18 DEF Sound
<1>23. \A q \in A, u \in Slot : Reads(n, q, u) = Reads(s, q, u)
  BY <1>8, <1>9
<1>24. \A q \in A : In(s, A, q) /\ s.ft[s.pcb[q].frame].locked => n.pcb[q] = s.pcb[q]
  BY <1>b
<1>25. \A q \in A, u \in Slot : In(n, A, q) => Cell(n, q, u) = Cell(s, q, u)
  BY <1>4, <1>8
<1> QED
  BY <1>16, <1>19, <1>20, <1>21, <1>22, <1>23, <1>24, <1>25, <1>f DEF Evicted


\* What ks_acquire_page does: frame g in hand, and every process has what it had.
Acquired(s, A, g, n) ==
  /\ g \in Frame /\ Sound(n, A, {g}) /\ Parented(n, A) /\ Loose(n, A)
  /\ ~n.ft[g].locked
  /\ \A f \in Frame : n.ft[f].locked = s.ft[f].locked
  /\ \A p \in A, t \in Slot : Reads(n, p, t) = Reads(s, p, t)
  /\ \A p \in A : In(s, A, p) /\ s.ft[s.pcb[p].frame].locked => n.pcb[p] = s.pcb[p]
  /\ \A p \in A, t \in Slot :
       In(s, A, p) /\ In(n, A, p) =>
         \/ Cell(n, p, t) = Cell(s, p, t)
         \/ Cell(s, p, t).status = "Present" /\ ~s.ft[Cell(s, p, t).blk].locked
  /\ Tight(s, A) => Tight(n, A)
  /\ s.empty # <<>> => n.pcb = s.pcb

LEMMA PopAcquires ==
  ASSUME NEW s, NEW A, Sound(s, A, {}), Parented(s, A), Loose(s, A), s.empty # <<>>,
         NEW a, a = Pop(s)
  PROVE  Acquired(s, A, a.frame, a.s) /\ a.s.pcb = s.pcb
<1>1. PICK g, n : g = a.frame /\ n = a.s /\ g = Pop(s).frame /\ n = Pop(s).s
  OBVIOUS
<1>0. \A h, m : h = Pop(s).frame /\ m = Pop(s).s =>
        /\ h \in Frame /\ Sound(m, A, {h}) /\ ~s.ft[h].locked
        /\ m.pcb = s.pcb /\ m.ft = s.ft /\ m.mem = s.mem /\ m.disk = s.disk
        /\ m.free = s.free
  BY PopWorks
<1>2. /\ g \in Frame /\ Sound(n, A, {g}) /\ ~s.ft[g].locked
      /\ n.pcb = s.pcb /\ n.ft = s.ft /\ n.mem = s.mem /\ n.disk = s.disk
      /\ n.free = s.free
  BY <1>0, <1>1
<1>3. /\ \A p, t : Cell(n, p, t) = Cell(s, p, t) /\ Reads(n, p, t) = Reads(s, p, t)
      /\ \A p, t, c : Stored(n, p, t, c) <=> Stored(s, p, t, c)
      /\ \A p : (In(n, A, p) <=> In(s, A, p)) /\ (Out(n, A, p) <=> Out(s, A, p))
  BY <1>2, SameCells
<1>4. Parented(n, A)
  BY <1>2, <1>3 DEF Parented, Parent
<1>5. Loose(n, A)
  BY <1>2, <1>3 DEF Loose
<1>6. Tight(s, A) => Tight(n, A)
  <2>1. \A c : Held(n, A, c) <=> Held(s, A, c)
    BY <1>2, <1>3 DEF Held
  <2>2. \A f : InUse(n, A, f) <=> InUse(s, A, f)
    BY <1>2, <1>3 DEF InUse
  <2> QED
    BY <1>2, <2>1, <2>2 DEF Tight
<1>7. Acquired(s, A, g, n)
  BY <1>2, <1>3, <1>4, <1>5, <1>6 DEF Acquired
<1> QED
  BY <1>1, <1>2, <1>7

\* A victim of ks_get_victim leaves.
LEMMA VictimLeaves ==
  ASSUME NEW s, NEW A \in SUBSET Procs, Sound(s, A, {}), Parented(s, A), Loose(s, A),
         s.empty = <<>>, s.free # {}, NEW f \in Victims(s), NEW n,
         n = IF s.ft[f].type = "PageTable" THEN TableOut(s, f) ELSE MasterOut(s, f)
  PROVE  Evicted(s, A, n)
<1>1. f \in Frame /\ ~s.ft[f].locked
  BY DEF Victims
<1>2. InUse(s, A, f)
  <2>1. ~Listed(s.empty, f)
    BY DEF Listed
  <2> QED
    BY <1>1, <2>1 DEF Sound, FramesOK
<1>3. CASE s.ft[f].type = "PageTable"
  BY <1>1, <1>3, TableOutWorks
<1>4. CASE s.ft[f].type # "PageTable"
  <2>1. PICK p \in A : In(s, A, p) /\ s.pcb[p].frame = f
    BY <1>2, <1>4 DEF InUse
  <2>2. s.ft[f].type = "SegTable" /\ \A t \in Slot : Cell(s, p, t) = s.mem[f].l1[t]
    BY <2>1 DEF Sound, MastersOK, Cell, In
  <2>3. ASSUME NEW t \in Slot, Cell(s, p, t).status = "Present" PROVE FALSE
    <3>1. s.ft[Cell(s, p, t).blk].locked
      BY <2>2, <2>3 DEF Victims
    <3>2. ~s.ft[Cell(s, p, t).blk].locked
      BY <1>1, <2>1, <2>3 DEF Loose
    <3> QED
      BY <3>1, <3>2
  <2> QED
    BY <1>1, <1>4, <2>1, <2>3, MasterOutWorks
<1> QED
  BY <1>3, <1>4

LEMMA AcquireWorks ==
  ASSUME NEW s, NEW A \in SUBSET Procs, Sound(s, A, {}), Parented(s, A), Loose(s, A),
         NEW a \in Acquire(s)
  PROVE  Acquired(s, A, a.frame, a.s)
<1>1. CASE s.empty # <<>>
  BY <1>1, PopAcquires DEF Acquire
<1>2. CASE s.empty = <<>>
  <2>1. PICK f \in Victims(s) :
          /\ s.free # {}
          /\ a = Pop(IF s.ft[f].type = "PageTable" THEN TableOut(s, f) ELSE MasterOut(s, f))
    BY <1>2 DEF Acquire
  <2>2. PICK e : e = IF s.ft[f].type = "PageTable" THEN TableOut(s, f) ELSE MasterOut(s, f)
    OBVIOUS
  <2>3. Evicted(s, A, e)
    BY <1>2, <2>1, <2>2, VictimLeaves
  <2>4. PICK g, n : g = a.frame /\ n = a.s
    OBVIOUS
  <2>5. Acquired(e, A, g, n) /\ n.pcb = e.pcb
    BY <2>1, <2>2, <2>3, <2>4, PopAcquires DEF Evicted
  <2>6. g \in Frame /\ Sound(n, A, {g}) /\ Parented(n, A) /\ Loose(n, A) /\ ~n.ft[g].locked
    BY <2>5 DEF Acquired
  <2>7. \A h \in Frame : n.ft[h].locked = s.ft[h].locked
    BY <2>3, <2>5 DEF Acquired, Evicted
  <2>8. \A p \in A, t \in Slot : Reads(n, p, t) = Reads(s, p, t)
    BY <2>3, <2>5 DEF Acquired, Evicted
  <2>9. \A p \in A : In(s, A, p) /\ s.ft[s.pcb[p].frame].locked => n.pcb[p] = s.pcb[p]
    BY <2>3, <2>5 DEF Evicted
  <2>10. ASSUME NEW p \in A, NEW t \in Slot, In(s, A, p), In(n, A, p)
         PROVE  \/ Cell(n, p, t) = Cell(s, p, t)
                \/ Cell(s, p, t).status = "Present" /\ ~s.ft[Cell(s, p, t).blk].locked
    <3>1. In(e, A, p)
      BY <2>5, <2>10 DEF In
    <3>2. \/ Cell(e, p, t) = Cell(s, p, t)
          \/ Cell(s, p, t).status = "Present" /\ ~s.ft[Cell(s, p, t).blk].locked
      BY <2>3, <2>10, <3>1 DEF Evicted
    <3>3. CASE Cell(e, p, t) = Cell(s, p, t)
      <4>1. \/ Cell(n, p, t) = Cell(e, p, t)
            \/ Cell(e, p, t).status = "Present" /\ ~e.ft[Cell(e, p, t).blk].locked
        BY <2>5, <2>10, <3>1 DEF Acquired
      <4>2. CASE Cell(e, p, t).status = "Present" /\ ~e.ft[Cell(e, p, t).blk].locked
        <5>1. Cell(e, p, t).blk \in Frame
          <6>1. EntryOK(e, p, t, Cell(e, p, t))
            BY <2>3 DEF Evicted, Sound, EntriesOK
          <6> QED
            BY <4>2, <6>1 DEF EntryOK
        <5>2. e.ft[Cell(e, p, t).blk].locked = s.ft[Cell(e, p, t).blk].locked
          BY <2>3, <5>1 DEF Evicted
        <5> QED
          BY <3>3, <4>2, <5>2
      <4> QED
        BY <3>3, <4>1, <4>2
    <3> QED
      BY <3>2, <3>3
  <2>11. Tight(s, A) => Tight(n, A)
    BY <2>3, <2>5 DEF Acquired, Evicted
  <2>12. Acquired(s, A, g, n)
    BY <1>2, <2>6, <2>7, <2>8, <2>9, <2>10, <2>11 DEF Acquired
  <2> QED
    BY <2>4, <2>12
<1> QED
  BY <1>1, <1>2


\* Nothing leads to a frame in hand.
LEMMA InHand ==
  ASSUME NEW s, NEW A, NEW g, Sound(s, A, {g})
  PROVE  /\ s.ft[g].type # "PageTable" /\ (Listed(s.empty, g) => g \notin Frame)
         /\ \A p \in A : In(s, A, p) => s.pcb[p].frame # g
         /\ \A p \in A, t \in Slot : Cell(s, p, t).status = "Present" => Cell(s, p, t).blk # g
<1>1. ~InUse(s, A, g) /\ (g \in Frame => ~Listed(s.empty, g))
  BY DEF Sound, FramesOK
<1>2. s.ft[g].type # "PageTable" /\ \A p \in A : In(s, A, p) => s.pcb[p].frame # g
  BY <1>1 DEF InUse
<1>3. ASSUME NEW p \in A, NEW t \in Slot, Cell(s, p, t).status = "Present"
      PROVE  Cell(s, p, t).blk # g
  <2>1. EntryOK(s, p, t, Cell(s, p, t))
    BY DEF Sound, EntriesOK
  <2> QED
    BY <1>2, <1>3, <2>1 DEF EntryOK
<1> QED
  BY <1>1, <1>2, <1>3

EmptyMaster == Master([t \in Slot |-> Unused])

\* n is s with an empty master table of process p in frame g.
MasterMade(s, g, p, locked, n) ==
  /\ n \in Spaces
  /\ n.pcb[p].frame = g /\ n.pcb[p].ptl1 = g /\ n.pcb[p].valid
  /\ \A q \in Procs \ {p} : n.pcb[q] = s.pcb[q]
  /\ n.ft[g] = Entry("SegTable", p, locked) /\ \A f \in Frame \ {g} : n.ft[f] = s.ft[f]
  /\ n.mem[g] = EmptyMaster /\ \A f \in Frame \ {g} : n.mem[f] = s.mem[f]
  /\ n.disk = s.disk /\ n.free = s.free /\ n.empty = s.empty /\ n.wild = s.wild

MakeMaster(s, g, p, locked) ==
  [s EXCEPT !.ft[g] = Entry("SegTable", p, locked),
            !.mem[g] = Master([t \in Slot |-> Unused]),
            !.pcb[p] = [NoPcb EXCEPT !.frame = g, !.ptl1 = g, !.valid = TRUE]]

LEMMA MasterMadeIs ==
  ASSUME NEW s \in Spaces, NEW g \in Frame, NEW p \in Procs, NEW locked \in BOOLEAN,
         NEW n, n = MakeMaster(s, g, p, locked)
  PROVE  MasterMade(s, g, p, locked, n)
<1>1. s.pcb \in [Procs -> Pcbs] /\ s.ft \in [Frame -> FtEntries] /\ s.mem \in [Frame -> Contents]
  BY SpaceTypes
<1>2. PICK y : y = [NoPcb EXCEPT !.frame = g, !.ptl1 = g, !.valid = TRUE]
  OBVIOUS
<1>a. y \in Pcbs /\ y.frame = g /\ y.ptl1 = g /\ y.valid
  <2>1. NoPcb \in Pcbs
    BY DEF NoPcb, Pcbs
  <2> QED
    BY <1>2, <2>1 DEF Pcbs
<1>3. PICK e \in FtEntries : e = Entry("SegTable", p, locked)
  BY DEF FtEntries, Entry, Owner
<1>4. PICK x \in Contents : x = EmptyMaster /\ x = Master([t \in Slot |-> Unused])
  <2>1. PICK l \in [Slot -> Cells] : l = [t \in Slot |-> Unused]
    BY DEF Cells, Unused
  <2>2. Master(l) \in Contents
    BY ContentKinds
  <2> QED
    BY <2>1, <2>2 DEF EmptyMaster
<1>5. PICK a \in [Procs -> Pcbs] : a = [s.pcb EXCEPT ![p] = y]
  BY <1>1, <1>a
<1>6. PICK b \in [Frame -> FtEntries] : b = [s.ft EXCEPT ![g] = e]
  BY <1>1
<1>7. PICK c \in [Frame -> Contents] : c = [s.mem EXCEPT ![g] = x]
  BY <1>1
<1>8. n = [s EXCEPT !.ft = b, !.mem = c, !.pcb = a]
  BY <1>2, <1>3, <1>4, <1>5, <1>6, <1>7 DEF MakeMaster
<1>9. /\ n.pcb = a /\ n.ft = b /\ n.mem = c
      /\ n.disk = s.disk /\ n.free = s.free /\ n.empty = s.empty /\ n.wild = s.wild
  BY <1>8 DEF Spaces
<1>10. n \in Spaces
  BY <1>8 DEF Spaces
<1>11. a[p] = y /\ b[g] = e /\ c[g] = x
  BY <1>1, <1>5, <1>6, <1>7
<1>12. /\ \A q \in Procs \ {p} : a[q] = s.pcb[q]
       /\ \A f \in Frame \ {g} : b[f] = s.ft[f] /\ c[f] = s.mem[f]
  BY <1>1, <1>5, <1>6, <1>7
<1> QED
  BY <1>a, <1>3, <1>4, <1>9, <1>10, <1>11, <1>12 DEF MasterMade

\* What becomes of the kernel space when process p appears, its master table in g.
Joined(s, A, g, p, locked, n) ==
  /\ Sound(n, A \cup {p}, {}) /\ Parented(n, A \cup {p})
  /\ n.pcb[p].valid /\ n.pcb[p].frame = g /\ \A q \in A : n.pcb[q] = s.pcb[q]
  /\ n.ft[g].locked = locked /\ \A f \in Frame \ {g} : n.ft[f].locked = s.ft[f].locked
  /\ \A q \in A, t \in Slot : Reads(n, q, t) = Reads(s, q, t)
  /\ \A t \in Slot : Reads(n, p, t) = Table(Nil)
  /\ Tight(s, A) => Tight(n, A \cup {p})

LEMMA NewMasterWorks ==
  ASSUME NEW s, NEW A \in SUBSET Procs, NEW g \in Frame, Sound(s, A, {g}), Parented(s, A),
         NEW p \in Procs, p \notin A, NEW locked \in BOOLEAN, NEW n,
         MasterMade(s, g, p, locked, n)
  PROVE  Joined(s, A, g, p, locked, n)
<1>1. /\ s \in Spaces /\ ~s.wild /\ MastersOK(s, A) /\ EntriesOK(s, A) /\ Apart(s, A)
      /\ FramesOK(s, A, {g}) /\ OwnersOK(s, A)
  BY DEF Sound
<1>2. /\ n \in Spaces
      /\ n.pcb[p].frame = g /\ n.pcb[p].ptl1 = g /\ n.pcb[p].valid
      /\ \A q \in Procs \ {p} : n.pcb[q] = s.pcb[q]
      /\ n.ft[g] = Entry("SegTable", p, locked) /\ \A f \in Frame \ {g} : n.ft[f] = s.ft[f]
      /\ n.mem[g] = EmptyMaster /\ \A f \in Frame \ {g} : n.mem[f] = s.mem[f]
      /\ n.disk = s.disk /\ n.free = s.free /\ n.empty = s.empty /\ n.wild = s.wild
  BY DEF MasterMade
<1>3. /\ n.pcb[p].frame = g /\ n.pcb[p].ptl1 = g /\ n.pcb[p].valid
      /\ n.ft[g].type = "SegTable" /\ n.ft[g].owner = p /\ n.ft[g].locked = locked
      /\ n.mem[g].kind = "master" /\ \A t \in Slot : n.mem[g].l1[t] = Unused
  BY <1>2 DEF Entry, EmptyMaster, Master
<1>4. /\ s.ft[g].type # "PageTable" /\ ~Listed(s.empty, g)
      /\ \A q \in A : In(s, A, q) => s.pcb[q].frame # g
      /\ \A q \in A, t \in Slot : Cell(s, q, t).status = "Present" => Cell(s, q, t).blk # g
  BY InHand
<1>5. /\ \A q \in A : q # p /\ n.pcb[q] = s.pcb[q]
      /\ \A q \in Procs \ (A \cup {p}) : n.pcb[q] = s.pcb[q] /\ q \notin A
  <2>1. \A q \in A : q \in Procs \ {p}
    OBVIOUS
  <2> QED
    BY <1>2, <2>1
<1> DEFINE B == A \cup {p}
<1>6. /\ \A q \in A : (In(n, B, q) <=> In(s, A, q)) /\ (Out(n, B, q) <=> Out(s, A, q))
      /\ In(n, B, p) /\ ~Out(n, B, p)
  BY <1>3, <1>5 DEF In, Out
<1>7. \A q \in A, t \in Slot : Cell(n, q, t) = Cell(s, q, t)
  <2> SUFFICES ASSUME NEW q \in A, NEW t \in Slot PROVE Cell(n, q, t) = Cell(s, q, t)
    OBVIOUS
  <2>1. CASE In(s, A, q)
    <3>1. s.pcb[q].frame \in Frame \ {g} /\ s.pcb[q].valid
      BY <1>1, <1>4, <2>1 DEF MastersOK, In
    <3> QED
      BY <1>2, <1>5, <3>1 DEF Cell
  <2>2. CASE ~In(s, A, q)
    <3>1. ~s.pcb[q].valid
      BY <2>2 DEF In
    <3> QED
      BY <1>2, <1>5, <3>1 DEF Cell
  <2> QED
    BY <2>1, <2>2
<1>8. \A t \in Slot : Cell(n, p, t) = Unused
  BY <1>3 DEF Cell
<1>9. Unused.status = "Unused" /\ Unused.blk = Nil
  BY DEF Unused
<1>10. MastersOK(n, B)
  <2>1. \A q \in Procs \ B : n.pcb[q] = NoPcb
    BY <1>1, <1>5 DEF MastersOK
  <2>2. ASSUME NEW q \in B, In(n, B, q)
        PROVE  LET m == n.pcb[q].frame
               IN  /\ m \in Frame /\ n.pcb[q].ptl1 = m
                   /\ n.ft[m].type = "SegTable" /\ n.ft[m].owner = q
                   /\ n.mem[m].kind = "master"
    <3>1. CASE q = p
      BY <1>3, <3>1
    <3>2. CASE q # p
      <4>1. q \in A /\ In(s, A, q) /\ n.pcb[q] = s.pcb[q]
        BY <1>5, <1>6, <2>2, <3>2
      <4>2. /\ s.pcb[q].frame \in Frame \ {g} /\ s.pcb[q].ptl1 = s.pcb[q].frame
            /\ s.ft[s.pcb[q].frame].type = "SegTable" /\ s.ft[s.pcb[q].frame].owner = q
            /\ s.mem[s.pcb[q].frame].kind = "master"
        BY <1>1, <1>4, <4>1 DEF MastersOK
      <4> QED
        BY <1>2, <4>1, <4>2
    <3> QED
      BY <3>1, <3>2
  <2>3. ASSUME NEW q \in B, Out(n, B, q)
        PROVE  n.pcb[q].disk \in Cluster \ n.free /\ n.disk[n.pcb[q].disk].kind = "master"
    <3>1. q \in A /\ Out(s, A, q) /\ n.pcb[q] = s.pcb[q]
      BY <1>5, <1>6, <2>3
    <3> QED
      BY <1>1, <1>2, <3>1 DEF MastersOK
  <2> QED
    BY <2>1, <2>2, <2>3 DEF MastersOK
<1>11. \A q \in A, t \in Slot :
         EntryOK(n, q, t, Cell(n, q, t)) /\ Reads(n, q, t) = Reads(s, q, t)
  <2> SUFFICES ASSUME NEW q \in A, NEW t \in Slot
               PROVE  EntryOK(n, q, t, Cell(n, q, t)) /\ Reads(n, q, t) = Reads(s, q, t)
    OBVIOUS
  <2>1. PICK e : e = Cell(s, q, t) /\ e = Cell(n, q, t)
    BY <1>7
  <2>2. EntryOK(s, q, t, e) /\ (e.status = "Present" => e.blk # g)
    BY <1>1, <1>4, <2>1 DEF EntriesOK
  <2>3. e.status = "Present" => n.ft[e.blk] = s.ft[e.blk] /\ n.mem[e.blk] = s.mem[e.blk]
    BY <1>2, <2>2 DEF EntryOK
  <2>4. EntryOK(n, q, t, e)
    BY <1>2, <1>5, <2>2, <2>3 DEF EntryOK
  <2>5. Leads(n, e) = Leads(s, e)
    BY <1>2, <2>3 DEF Leads
  <2> QED
    BY <2>1, <2>4, <2>5 DEF Reads
<1>12. EntriesOK(n, B)
  <2>1. \A t \in Slot : EntryOK(n, p, t, Cell(n, p, t))
    BY <1>3, <1>8, <1>9 DEF EntryOK
  <2> QED
    BY <1>11, <2>1 DEF EntriesOK
<1>13. \A q \in B, t \in Slot, c \in Cluster : Stored(n, q, t, c) <=> q \in A /\ Stored(s, q, t, c)
  <2>1. \A t \in Slot, c \in Cluster : ~Stored(n, p, t, c)
    BY <1>8, <1>9 DEF Stored
  <2>2. \A q \in A, t \in Slot, c \in Cluster : Stored(n, q, t, c) <=> Stored(s, q, t, c)
    BY <1>7 DEF Stored
  <2> QED
    BY <2>1, <2>2
<1>14. Apart(n, B)
  <2>1. \A q, r \in B, t, u \in Slot, c \in Cluster :
          Stored(n, q, t, c) /\ Stored(n, r, u, c) => q = r /\ t = u
    BY <1>1, <1>13 DEF Apart
  <2>2. \A q, r \in B :
          Out(n, B, q) /\ Out(n, B, r) /\ n.pcb[q].disk = n.pcb[r].disk => q = r
    BY <1>1, <1>5, <1>6 DEF Apart
  <2> QED
    BY <2>1, <2>2 DEF Apart
<1>15. \A f \in Frame : InUse(n, B, f) <=> InUse(s, A, f) \/ f = g
  <2>1. \A f \in Frame : n.ft[f].type = "PageTable" <=> s.ft[f].type = "PageTable"
    BY <1>2, <1>3, <1>4
  <2>2. \A f \in Frame : (\E q \in B : In(n, B, q) /\ n.pcb[q].frame = f)
                           <=> (\E q \in A : In(s, A, q) /\ s.pcb[q].frame = f) \/ f = g
    BY <1>3, <1>5, <1>6
  <2> QED
    BY <2>1, <2>2 DEF InUse
<1>16. FramesOK(n, B, {})
  <2>1. \A f \in Frame \ {g} : n.ft[f].locked = s.ft[f].locked
    BY <1>2
  <2>2. \A f \in Frame : n.ft[f].locked => InUse(n, B, f)
    BY <1>1, <1>15, <2>1 DEF FramesOK
  <2>3. \A f \in Frame : Listed(n.empty, f) => ~InUse(n, B, f)
    BY <1>1, <1>2, <1>4, <1>15 DEF FramesOK
  <2>4. \A f \in Frame : Listed(n.empty, f) \/ InUse(n, B, f)
    BY <1>1, <1>2, <1>15 DEF FramesOK
  <2>5. \A i, j \in 1 .. Len(n.empty) : n.empty[i] = n.empty[j] => i = j
    BY <1>1, <1>2 DEF FramesOK
  <2> QED
    BY <2>2, <2>3, <2>4, <2>5 DEF FramesOK
<1>17. ASSUME NEW f \in Frame, n.ft[f].type = "PageTable"
       PROVE  \E q \in B, t \in Slot : In(n, B, q) /\ Child(n, q, t, f)
  <2>1. f # g /\ n.ft[f] = s.ft[f]
    BY <1>2, <1>3, <1>17
  <2>2. PICK q \in A, t \in Slot : In(s, A, q) /\ Child(s, q, t, f)
    BY <1>1, <1>17, <2>1 DEF OwnersOK, Parented
  <2>3. In(n, B, q) /\ Child(n, q, t, f)
    BY <1>5, <1>6, <1>7, <2>1, <2>2 DEF Child
  <2> QED
    BY <2>3
<1>18. OwnersOK(n, B)
  BY <1>17 DEF OwnersOK
<1>19. Parented(n, B)
  <2>1. \A f \in Frame, q \in B, t \in Slot :
          Child(n, q, t, f) => n.ft[f].owner[1] = n.pcb[q].frame
    BY DEF Child
  <2> QED
    BY <1>17, <2>1 DEF Parented, Parent
<1>20. Sound(n, B, {})
  BY <1>1, <1>2, <1>10, <1>12, <1>14, <1>16, <1>18 DEF Sound
<1>21. \A t \in Slot : Reads(n, p, t) = Table(Nil)
  BY <1>8, <1>9 DEF Reads, Leads
<1>22. ASSUME Tight(s, A) PROVE Tight(n, B)
  <2>1. \A c \in Cluster : Held(s, A, c) => Held(n, B, c)
    BY <1>5, <1>6, <1>13 DEF Held
  <2>2. \A f \in Frame : InUse(n, B, f) \/ n.ft[f].type = "Unused"
    BY <1>2, <1>15, <1>22 DEF Tight
  <2> QED
    BY <1>2, <1>22, <2>1, <2>2 DEF Tight
<1>23. \A f \in Frame \ {g} : n.ft[f].locked = s.ft[f].locked
  BY <1>2
<1> QED
  BY <1>3, <1>5, <1>11, <1>19, <1>20, <1>21, <1>22, <1>23 DEF Joined


\* n is s with the page table of entry t of p, which was not in memory, in frame g.
TableBrought(s, g, p, t, locked, n) ==
  LET m == s.pcb[p].frame
  IN  /\ n \in Spaces
      /\ n.pcb = s.pcb /\ n.disk = s.disk /\ n.empty = s.empty /\ n.wild = s.wild
      /\ n.free = s.free \cup Freed(Cell(s, p, t))
      /\ n.ft[g] = Entry("PageTable", <<m, t>>, locked)
      /\ \A f \in Frame \ {g} : n.ft[f] = s.ft[f]
      /\ n.mem[g] = Leads(s, Cell(s, p, t))
      /\ n.mem[m].kind = "master" /\ n.mem[m].l1[t] = Present(g)
      /\ \A u \in Slot \ {t} : n.mem[m].l1[u] = s.mem[m].l1[u]
      /\ \A f \in Frame \ {g, m} : n.mem[f] = s.mem[f]

\* An entry of a master table in memory that is not Present leads to a page table.
LEMMA Absent ==
  ASSUME NEW s, NEW A, NEW H, Sound(s, A, H), NEW p \in A, NEW t \in Slot, In(s, A, p),
         NEW e, e = Cell(s, p, t), e.status # "Present"
  PROVE  /\ Leads(s, e) \in Contents /\ Leads(s, e).kind = "table"
         /\ Fetched(s, e) = Leads(s, e) /\ Freed(e) \in SUBSET (Cluster \ s.free)
         /\ \/ e.status = "Unused" /\ Freed(e) = {} /\ Leads(s, e) = Table(Nil)
            \/ /\ e.status = "PagedOut" /\ Freed(e) = {e.blk} /\ e.blk \in Cluster
               /\ Stored(s, p, t, e.blk) /\ Leads(s, e) = s.disk[e.blk]
<1>1. EntryOK(s, p, t, e) /\ s.pcb[p].valid /\ s.disk \in [Cluster -> Contents]
  BY SpaceTypes DEF Sound, EntriesOK, In
<1>2. CASE e.status = "Unused"
  BY <1>2, ContentKinds DEF Leads, Fetched, Freed
<1>3. CASE e.status = "PagedOut"
  <2>1. e.blk \in Cluster \ s.free /\ s.disk[e.blk].kind = "table" /\ e.blk # Nil
    BY <1>1, <1>3, NilApart DEF EntryOK
  <2>2. Leads(s, e) = s.disk[e.blk] /\ Fetched(s, e) = s.disk[e.blk] /\ Freed(e) = {e.blk}
    BY <1>3, <2>1 DEF Leads, Fetched, Freed
  <2>3. Stored(s, p, t, e.blk)
    BY <1>3, <2>1 DEF Stored
  <2> QED
    BY <1>1, <1>3, <2>1, <2>2, <2>3
<1> QED
  BY <1>1, <1>2, <1>3 DEF EntryOK

LEMMA BringTableIs ==
  ASSUME NEW s, NEW A \in SUBSET Procs, NEW g \in Frame, Sound(s, A, {g}),
         NEW p \in A, NEW t \in Slot, In(s, A, p), NEW e, e = Cell(s, p, t),
         e.status # "Present", NEW locked \in BOOLEAN,
         NEW n, n = BringTable(s, p, t, e, g, locked)
  PROVE  TableBrought(s, g, p, t, locked, n)
<1>1. /\ s \in Spaces /\ s.ft \in [Frame -> FtEntries] /\ s.mem \in [Frame -> Contents]
      /\ s.free \in SUBSET Cluster
  BY SpaceTypes DEF Sound
<1>2. /\ Leads(s, e) \in Contents /\ Fetched(s, e) = Leads(s, e)
      /\ Freed(e) \in SUBSET Cluster
  <2>1. Freed(e) \in SUBSET (Cluster \ s.free)
    BY Absent
  <2> QED
    BY <2>1, Absent
<1>3. PICK m \in Frame : /\ m = s.pcb[p].frame /\ m = s.pcb[p].ptl1 /\ m # g
                         /\ s.mem[m].kind = "master"
  <2>1. /\ s.pcb[p].frame \in Frame /\ s.pcb[p].ptl1 = s.pcb[p].frame
        /\ s.mem[s.pcb[p].frame].kind = "master"
    BY DEF Sound, MastersOK
  <2>2. s.pcb[p].frame # g
    BY InHand
  <2> QED
    BY <2>1, <2>2
<1>4. PICK y \in FtEntries : y = Entry("PageTable", <<m, t>>, locked)
  BY DEF FtEntries, Entry, Owner
<1>5. PICK b \in [Frame -> FtEntries] : b = [s.ft EXCEPT ![g] = y]
  BY <1>1
<1>6. PICK c \in [Frame -> Contents] : c = [s.mem EXCEPT ![g] = Fetched(s, e)]
  BY <1>1, <1>2
<1>7. PICK h \in SUBSET Cluster : h = s.free \cup Freed(e)
  BY <1>1, <1>2
<1>8. PICK r : r = [s EXCEPT !.ft = b, !.mem = c, !.free = h]
  OBVIOUS
<1>9. /\ r \in Spaces /\ r.ft = b /\ r.mem = c /\ r.free = h
      /\ r.pcb = s.pcb /\ r.disk = s.disk /\ r.empty = s.empty /\ r.wild = s.wild
  BY <1>1, <1>8 DEF Spaces
<1>10. PICK x \in Cells : x = Present(g) /\ x = [status |-> "Present", blk |-> g]
  BY CellForms DEF Present
<1>11. n = SetCell(r, <<m, t>>, x)
  <2>1. r = [s EXCEPT !.ft[g] = Entry("PageTable", <<m, t>>, locked),
                      !.mem[g] = Fetched(s, e), !.free = @ \cup Freed(e)]
    BY <1>4, <1>5, <1>6, <1>7, <1>8
  <2> QED
    BY <1>3, <1>10, <2>1 DEF BringTable
<1>12. /\ b[g] = y /\ c[g] = Leads(s, e) /\ c[m] = s.mem[m]
       /\ \A f \in Frame \ {g} : b[f] = s.ft[f] /\ c[f] = s.mem[f]
  BY <1>1, <1>2, <1>3, <1>5, <1>6
<1>13. r.mem[m].kind = "master"
  BY <1>3, <1>9, <1>12
<1>14. CellSet(r, m, t, x, n)
  BY <1>9, <1>11, <1>13, SetCellIs
<1>15. /\ n \in Spaces
       /\ n.pcb = s.pcb /\ n.disk = s.disk /\ n.empty = s.empty /\ n.wild = s.wild
       /\ n.free = h /\ n.ft = b
       /\ \A f \in Frame \ {m} : n.mem[f] = c[f]
       /\ n.mem[m].kind = "master" /\ n.mem[m].l1[t] = x
       /\ \A u \in Slot \ {t} : n.mem[m].l1[u] = c[m].l1[u]
  BY <1>9, <1>14 DEF CellSet
<1>16. n.mem[g] = Leads(s, e) /\ \A f \in Frame \ {g, m} : n.mem[f] = s.mem[f]
  BY <1>3, <1>12, <1>15
<1>17. n.ft[g] = y /\ \A f \in Frame \ {g} : n.ft[f] = s.ft[f]
  BY <1>12, <1>15
<1>18. /\ n.free = s.free \cup Freed(Cell(s, p, t)) /\ n.mem[g] = Leads(s, Cell(s, p, t))
       /\ n.mem[m].l1[t] = Present(g) /\ \A u \in Slot \ {t} : n.mem[m].l1[u] = s.mem[m].l1[u]
  BY <1>7, <1>10, <1>12, <1>15, <1>16
<1>19. n.ft[g] = Entry("PageTable", <<s.pcb[p].frame, t>>, locked)
  BY <1>3, <1>4, <1>17
<1>20. m = s.pcb[p].frame
  BY <1>3
<1> QED
  BY <1>15, <1>16, <1>17, <1>18, <1>19, <1>20 DEF TableBrought

\* What becomes of the kernel space when the page table of entry t of p is in frame g.
Mounted(s, A, g, p, t, locked, n) ==
  /\ Sound(n, A, {}) /\ Parented(n, A) /\ n.pcb = s.pcb
  /\ n.ft[g].locked = locked /\ \A f \in Frame \ {g} : n.ft[f].locked = s.ft[f].locked
  /\ \A q \in A, u \in Slot : Reads(n, q, u) = Reads(s, q, u)
  /\ \A q \in A, u \in Slot : Cell(n, q, u) = IF q = p /\ u = t THEN Present(g)
                                             ELSE Cell(s, q, u)
  /\ Tight(s, A) => Tight(n, A)

LEMMA TableInWorks ==
  ASSUME NEW s, NEW A \in SUBSET Procs, NEW g \in Frame, Sound(s, A, {g}), Parented(s, A),
         NEW p \in A, NEW t \in Slot, In(s, A, p), Cell(s, p, t).status # "Present",
         NEW locked \in BOOLEAN, NEW n, TableBrought(s, g, p, t, locked, n)
  PROVE  Mounted(s, A, g, p, t, locked, n)
<1>1. /\ s \in Spaces /\ ~s.wild /\ MastersOK(s, A) /\ EntriesOK(s, A) /\ Apart(s, A)
      /\ FramesOK(s, A, {g}) /\ OwnersOK(s, A)
  BY DEF Sound
<1>2. PICK m, e : m = s.pcb[p].frame /\ e = Cell(s, p, t)
  OBVIOUS
<1>3. /\ n \in Spaces
      /\ n.pcb = s.pcb /\ n.disk = s.disk /\ n.empty = s.empty /\ n.wild = s.wild
      /\ n.free = s.free \cup Freed(e)
      /\ n.ft[g] = Entry("PageTable", <<m, t>>, locked)
      /\ \A f \in Frame \ {g} : n.ft[f] = s.ft[f]
      /\ n.mem[g] = Leads(s, e)
      /\ n.mem[m].kind = "master" /\ n.mem[m].l1[t] = Present(g)
      /\ \A u \in Slot \ {t} : n.mem[m].l1[u] = s.mem[m].l1[u]
      /\ \A f \in Frame \ {g, m} : n.mem[f] = s.mem[f]
  BY <1>2 DEF TableBrought
<1>a. n.pcb = s.pcb /\ n.disk = s.disk /\ n.free = s.free \cup Freed(e)
  BY <1>3
<1>b. n.ft[g] = Entry("PageTable", <<m, t>>, locked) /\ \A f \in Frame \ {g} : n.ft[f] = s.ft[f]
  BY <1>3
<1>c. /\ n.mem[g] = Leads(s, e) /\ n.mem[m].kind = "master"
      /\ \A f \in Frame \ {g, m} : n.mem[f] = s.mem[f]
  BY <1>3
<1>4. /\ s.ft[g].type # "PageTable" /\ ~Listed(s.empty, g)
      /\ \A q \in A : In(s, A, q) => s.pcb[q].frame # g
      /\ \A q \in A, u \in Slot : Cell(s, q, u).status = "Present" => Cell(s, q, u).blk # g
  BY InHand
<1>5. /\ m \in Frame \ {g} /\ s.ft[m].type = "SegTable" /\ s.ft[m].owner = p
      /\ s.pcb[p].valid
  BY <1>1, <1>2, <1>4 DEF MastersOK, In
<1>6. /\ Leads(s, e).kind = "table" /\ Freed(e) \in SUBSET (Cluster \ s.free)
      /\ \/ e.status = "Unused" /\ Freed(e) = {}
         \/ /\ e.status = "PagedOut" /\ Freed(e) = {e.blk} /\ e.blk \in Cluster
            /\ Stored(s, p, t, e.blk) /\ Leads(s, e) = s.disk[e.blk]
  BY <1>2, Absent
<1>7. /\ n.ft[g].type = "PageTable" /\ n.ft[g].owner = <<m, t>> /\ n.ft[g].locked = locked
      /\ Present(g).status = "Present" /\ Present(g).blk = g
  BY <1>3, CellForms DEF Entry
<1>8. \A q \in A : (In(n, A, q) <=> In(s, A, q)) /\ (Out(n, A, q) <=> Out(s, A, q))
  BY <1>3 DEF In, Out
<1>9. ASSUME NEW q \in A, NEW u \in Slot
      PROVE  Cell(n, q, u) = IF q = p /\ u = t THEN Present(g) ELSE Cell(s, q, u)
  <2>1. CASE In(s, A, q)
    <3>1. s.pcb[q].valid /\ s.pcb[q].frame \in Frame \ {g}
      BY <1>1, <1>4, <2>1 DEF MastersOK, In
    <3>2. q # p => s.pcb[q].frame # m
      BY <1>1, <1>2, <2>1, OwnMaster
    <3>3. CASE q = p
      <4>1. Cell(n, q, u) = n.mem[m].l1[u] /\ Cell(s, q, u) = s.mem[m].l1[u]
        BY <1>2, <1>3, <3>1, <3>3 DEF Cell
      <4> QED
        BY <1>3, <3>3, <4>1
    <3>4. CASE q # p
      <4>1. n.mem[s.pcb[q].frame] = s.mem[s.pcb[q].frame]
        BY <1>c, <3>1, <3>2, <3>4
      <4> QED
        BY <1>a, <3>1, <3>4, <4>1 DEF Cell
    <3> QED
      BY <3>3, <3>4
  <2>2. CASE ~In(s, A, q)
    <3>1. ~s.pcb[q].valid /\ q # p
      BY <1>5, <2>2 DEF In
    <3> QED
      BY <1>3, <3>1 DEF Cell
  <2> QED
    BY <2>1, <2>2
\* The cluster given back was nobody else's.
<1>10. \A q \in A : Out(s, A, q) => s.pcb[q].disk \in Cluster \ n.free
  <2> SUFFICES ASSUME NEW q \in A, Out(s, A, q) PROVE s.pcb[q].disk \in Cluster \ n.free
    OBVIOUS
  <2>1. s.pcb[q].disk \in Cluster \ s.free /\ s.disk[s.pcb[q].disk].kind = "master"
    BY <1>1 DEF MastersOK
  <2>2. s.pcb[q].disk \notin Freed(e)
    BY <1>6, <2>1
  <2> QED
    BY <1>3, <2>1, <2>2
<1>11. \A q \in A, u \in Slot, c \in Cluster :
         Stored(s, q, u, c) /\ ~(q = p /\ u = t) => c \notin Freed(e)
  BY <1>1, <1>6 DEF Apart
<1>12. ASSUME NEW q \in A, NEW u \in Slot, ~(q = p /\ u = t)
       PROVE  EntryOK(n, q, u, Cell(n, q, u)) /\ Reads(n, q, u) = Reads(s, q, u)
  <2>1. PICK d : d = Cell(s, q, u) /\ d = Cell(n, q, u)
    BY <1>9, <1>12
  <2>2. EntryOK(s, q, u, d)
    BY <1>1, <2>1 DEF EntriesOK
  <2>3. CASE d.status = "Unused"
    <3>1. EntryOK(n, q, u, d)
      BY <1>3, <2>2, <2>3 DEF EntryOK
    <3>2. Leads(n, d) = Table(Nil) /\ Leads(s, d) = Table(Nil)
      BY <2>3 DEF Leads
    <3> QED
      BY <2>1, <3>1, <3>2 DEF Reads
  <2>4. CASE d.status = "Present"
    <3>1. /\ d.blk \in Frame /\ s.pcb[q].valid /\ d.blk # g
          /\ s.ft[d.blk].type = "PageTable" /\ s.ft[d.blk].owner = <<s.pcb[q].frame, u>>
          /\ s.mem[d.blk].kind = "table"
      BY <1>4, <2>1, <2>2, <2>4 DEF EntryOK
    <3>2. n.ft[d.blk] = s.ft[d.blk] /\ n.mem[d.blk] = s.mem[d.blk]
      BY <1>3, <1>5, <3>1
    <3>3. EntryOK(n, q, u, d)
      BY <1>3, <2>4, <3>1, <3>2 DEF EntryOK
    <3>4. Leads(n, d) = Leads(s, d)
      BY <2>4, <3>2 DEF Leads
    <3> QED
      BY <2>1, <3>3, <3>4 DEF Reads
  <2>5. CASE d.status = "PagedOut"
    <3>0. Leads(n, d) = Leads(s, d)
      BY <1>3, <2>5 DEF Leads
    <3>1. CASE d.blk = Nil
      <4>1. EntryOK(n, q, u, d)
        BY <1>3, <2>2, <2>5, <3>1, NilApart DEF EntryOK
      <4> QED
        BY <2>1, <3>0, <4>1 DEF Reads
    <3>2. CASE d.blk # Nil
      <4>1. d.blk \in Cluster \ s.free /\ s.disk[d.blk].kind = "table"
        BY <2>2, <2>5, <3>2 DEF EntryOK
      <4>2. Stored(s, q, u, d.blk)
        BY <2>1, <2>5, <3>2 DEF Stored
      <4>3. d.blk \notin Freed(e)
        BY <1>11, <1>12, <4>1, <4>2
      <4>4. EntryOK(n, q, u, d)
        BY <1>3, <2>5, <4>1, <4>3 DEF EntryOK
      <4> QED
        BY <2>1, <3>0, <4>4 DEF Reads
    <3> QED
      BY <3>1, <3>2
  <2> QED
    BY <2>2, <2>3, <2>4, <2>5 DEF EntryOK
<1>13. EntryOK(n, p, t, Cell(n, p, t)) /\ Reads(n, p, t) = Reads(s, p, t)
  <2>1. Cell(n, p, t) = Present(g)
    BY <1>9
  <2>2. EntryOK(n, p, t, Present(g))
    <3>1. n.ft[g].type = "PageTable" /\ n.ft[g].owner = <<n.pcb[p].frame, t>>
      BY <1>2, <1>a, <1>7
    <3>2. n.mem[g].kind = "table" /\ n.pcb[p].valid
      BY <1>a, <1>c, <1>5, <1>6
    <3> QED
      BY <1>7, <3>1, <3>2 DEF EntryOK
  <2>3. Leads(n, Present(g)) = Leads(s, e)
    BY <1>3, <1>7 DEF Leads
  <2> QED
    BY <1>2, <2>1, <2>2, <2>3 DEF Reads
<1>14. EntriesOK(n, A)
  BY <1>12, <1>13 DEF EntriesOK
<1>15. MastersOK(n, A)
  <2>1. \A q \in A : In(s, A, q) =>
          s.pcb[q].frame \in Frame \ {g} /\ n.mem[s.pcb[q].frame].kind = "master"
    BY <1>1, <1>3, <1>4 DEF MastersOK
  <2>2. ASSUME NEW q \in A, In(n, A, q)
        PROVE  LET b == n.pcb[q].frame
               IN  /\ b \in Frame /\ n.pcb[q].ptl1 = b
                   /\ n.ft[b].type = "SegTable" /\ n.ft[b].owner = q
                   /\ n.mem[b].kind = "master"
    <3>1. In(s, A, q)
      BY <1>8, <2>2
    <3>2. /\ s.pcb[q].ptl1 = s.pcb[q].frame
          /\ s.ft[s.pcb[q].frame].type = "SegTable" /\ s.ft[s.pcb[q].frame].owner = q
      BY <1>1, <3>1 DEF MastersOK
    <3>3. n.ft[s.pcb[q].frame] = s.ft[s.pcb[q].frame]
      BY <1>b, <2>1, <3>1
    <3> QED
      BY <1>a, <2>1, <3>1, <3>2, <3>3
  <2>3. ASSUME NEW q \in A, Out(n, A, q)
        PROVE  n.pcb[q].disk \in Cluster \ n.free /\ n.disk[n.pcb[q].disk].kind = "master"
    <3>1. Out(s, A, q)
      BY <1>8, <2>3
    <3>2. s.pcb[q].disk \in Cluster \ s.free /\ s.disk[s.pcb[q].disk].kind = "master"
      BY <1>1, <3>1 DEF MastersOK
    <3>3. s.pcb[q].disk \in Cluster \ n.free
      BY <1>10, <3>1
    <3> QED
      BY <1>a, <3>2, <3>3
  <2>4. \A q \in Procs \ A : n.pcb[q] = NoPcb
    BY <1>a, <1>1 DEF MastersOK
  <2> QED
    BY <2>2, <2>3, <2>4 DEF MastersOK
<1>16. \A q \in A, u \in Slot, c \in Cluster :
         Stored(n, q, u, c) <=> Stored(s, q, u, c) /\ ~(q = p /\ u = t)
  BY <1>7, <1>9 DEF Stored
<1>17. Apart(n, A)
  <2>1. \A q, r \in A, u, v \in Slot, c \in Cluster :
          Stored(n, q, u, c) /\ Stored(n, r, v, c) => q = r /\ u = v
    BY <1>1, <1>16 DEF Apart
  <2> QED
    BY <1>1, <1>3, <1>8, <2>1 DEF Apart
<1>18. \A f \in Frame : InUse(n, A, f) <=> InUse(s, A, f) \/ f = g
  <2>1. \A f \in Frame : n.ft[f].type = "PageTable" <=> s.ft[f].type = "PageTable" \/ f = g
    BY <1>3, <1>7
  <2> QED
    BY <1>3, <1>8, <2>1 DEF InUse
<1>19. FramesOK(n, A, {})
  <2>1. \A f \in Frame \ {g} : n.ft[f].locked = s.ft[f].locked
    BY <1>3
  <2>2. \A f \in Frame : n.ft[f].locked => InUse(n, A, f)
    BY <1>1, <1>18, <2>1 DEF FramesOK
  <2>3. \A f \in Frame : Listed(n.empty, f) => ~InUse(n, A, f)
    BY <1>1, <1>3, <1>4, <1>18 DEF FramesOK
  <2>4. \A f \in Frame : Listed(n.empty, f) \/ InUse(n, A, f)
    BY <1>1, <1>3, <1>18 DEF FramesOK
  <2>5. \A i, j \in 1 .. Len(n.empty) : n.empty[i] = n.empty[j] => i = j
    BY <1>1, <1>3 DEF FramesOK
  <2> QED
    BY <2>2, <2>3, <2>4, <2>5 DEF FramesOK
<1>20. ASSUME NEW f \in Frame, n.ft[f].type = "PageTable"
       PROVE  \E q \in A, u \in Slot : In(n, A, q) /\ Child(n, q, u, f)
  <2>1. CASE f = g
    <3>1. Child(n, p, t, f)
      <4>1. Cell(n, p, t) = Present(g)
        BY <1>9
      <4> QED
        BY <1>2, <1>3, <1>7, <2>1, <4>1 DEF Child, Present
    <3> QED
      BY <1>8, <3>1
  <2>2. CASE f # g
    <3>1. n.ft[f] = s.ft[f]
      BY <1>3, <2>2
    <3>2. PICK q \in A, u \in Slot : In(s, A, q) /\ Child(s, q, u, f)
      BY <1>1, <1>20, <3>1 DEF OwnersOK, Parented
    <3>3. ~(q = p /\ u = t)
      BY <3>2 DEF Child
    <3>4. Child(n, q, u, f)
      BY <1>3, <1>9, <3>1, <3>2, <3>3 DEF Child
    <3> QED
      BY <1>8, <3>2, <3>4
  <2> QED
    BY <2>1, <2>2
<1>21. OwnersOK(n, A)
  BY <1>20 DEF OwnersOK
<1>22. Parented(n, A)
  <2>1. \A f \in Frame, q \in A, u \in Slot :
          Child(n, q, u, f) => n.ft[f].owner[1] = n.pcb[q].frame
    BY DEF Child
  <2> QED
    BY <1>20, <2>1 DEF Parented, Parent
<1>23. Sound(n, A, {})
  BY <1>1, <1>3, <1>14, <1>15, <1>17, <1>19, <1>21 DEF Sound
<1>24. ASSUME Tight(s, A) PROVE Tight(n, A)
  <2>1. ASSUME NEW c \in Cluster \ n.free PROVE Held(n, A, c)
    <3>1. Held(s, A, c) /\ c \notin Freed(e)
      BY <1>3, <1>24, <2>1 DEF Tight
    <3>2. ~Stored(s, p, t, c)
      BY <1>2, <1>6, <3>1 DEF Stored
    <3> QED
      BY <1>3, <1>8, <1>16, <3>1, <3>2 DEF Held
  <2>2. \A f \in Frame : InUse(n, A, f) \/ n.ft[f].type = "Unused"
    BY <1>3, <1>18, <1>24 DEF Tight
  <2> QED
    BY <2>1, <2>2 DEF Tight
<1>25. \A f \in Frame \ {g} : n.ft[f].locked = s.ft[f].locked
  BY <1>3
<1>26. \A q \in A, u \in Slot : Reads(n, q, u) = Reads(s, q, u)
  BY <1>12, <1>13
<1> QED
  BY <1>3, <1>7, <1>9, <1>22, <1>23, <1>24, <1>25, <1>26 DEF Mounted


\* n is s but for what is locked.
Relock(s, n) ==
  /\ n \in Spaces
  /\ n.pcb = s.pcb /\ n.mem = s.mem /\ n.disk = s.disk /\ n.free = s.free
  /\ n.empty = s.empty /\ n.wild = s.wild
  /\ \A f \in Frame : n.ft[f].type = s.ft[f].type /\ n.ft[f].owner = s.ft[f].owner

Locking(s, f, v) == [s EXCEPT !.ft[f].locked = v]

\* n is s but for whether f is locked.
LockSet(s, f, v, n) ==
  /\ Relock(s, n) /\ n.ft[f].locked = v
  /\ \A g \in Frame \ {f} : n.ft[g].locked = s.ft[g].locked

LEMMA LockIs ==
  ASSUME NEW s \in Spaces, NEW f \in Frame, NEW v \in BOOLEAN
  PROVE  LockSet(s, f, v, Locking(s, f, v))
<1>0. PICK n : n = [s EXCEPT !.ft[f].locked = v] /\ n = Locking(s, f, v)
  BY DEF Locking
<1>1. s.ft \in [Frame -> FtEntries]
  BY SpaceTypes
<1>2. PICK y : y = [s.ft[f] EXCEPT !.locked = v]
  OBVIOUS
<1>3. /\ y \in FtEntries /\ y.type = s.ft[f].type /\ y.owner = s.ft[f].owner
      /\ y.locked = v
  BY <1>1, <1>2 DEF FtEntries
<1>4. PICK b \in [Frame -> FtEntries] : b = [s.ft EXCEPT ![f] = y]
  BY <1>1, <1>3
<1>5. b[f] = y /\ \A g \in Frame \ {f} : b[g] = s.ft[g]
  BY <1>1, <1>4
<1>6. n = [s EXCEPT !.ft = b]
  BY <1>0, <1>2, <1>4
<1>7. n \in Spaces
  BY <1>6 DEF Spaces
<1>8. /\ n.ft = b /\ n.pcb = s.pcb /\ n.mem = s.mem /\ n.disk = s.disk
      /\ n.free = s.free /\ n.empty = s.empty /\ n.wild = s.wild
  BY <1>6 DEF Spaces
<1> QED
  BY <1>0, <1>3, <1>5, <1>7, <1>8 DEF Relock, LockSet

\* What both forms of a step that moves nothing preserve.
Alike(s, A, n) ==
  /\ Sound(n, A, {}) /\ (Parented(s, A) => Parented(n, A)) /\ n.pcb = s.pcb
  /\ n.empty = s.empty
  /\ \A p \in A, t \in Slot : Cell(n, p, t) = Cell(s, p, t)
  /\ Tight(s, A) => Tight(n, A)

LEMMA RelockWorks ==
  ASSUME NEW s, NEW A, Sound(s, A, {}), NEW n, Relock(s, n),
         \A f \in Frame : n.ft[f].locked => InUse(s, A, f)
  PROVE  Alike(s, A, n) /\ \A p \in A, t \in Slot : Reads(n, p, t) = Reads(s, p, t)
<1>1. /\ s \in Spaces /\ ~s.wild /\ MastersOK(s, A) /\ EntriesOK(s, A) /\ Apart(s, A)
      /\ FramesOK(s, A, {}) /\ OwnersOK(s, A)
  BY DEF Sound
<1>2. /\ n \in Spaces
      /\ n.pcb = s.pcb /\ n.mem = s.mem /\ n.disk = s.disk /\ n.free = s.free
      /\ n.empty = s.empty /\ n.wild = s.wild
      /\ \A f \in Frame : n.ft[f].type = s.ft[f].type /\ n.ft[f].owner = s.ft[f].owner
  BY DEF Relock
<1>3. /\ \A p, t : Cell(n, p, t) = Cell(s, p, t) /\ Reads(n, p, t) = Reads(s, p, t)
      /\ \A p, t, c : Stored(n, p, t, c) <=> Stored(s, p, t, c)
      /\ \A p : (In(n, A, p) <=> In(s, A, p)) /\ (Out(n, A, p) <=> Out(s, A, p))
  BY <1>2, SameCells
<1>4. MastersOK(n, A)
  BY <1>1, <1>2, <1>3 DEF MastersOK
<1>5. EntriesOK(n, A)
  <2>1. \A p, t, e : EntryOK(s, p, t, e) => EntryOK(n, p, t, e)
    BY <1>2 DEF EntryOK
  <2> QED
    BY <1>1, <1>3, <2>1 DEF EntriesOK
<1>6. Apart(n, A)
  BY <1>1, <1>2, <1>3 DEF Apart
<1>7. \A f \in Frame : InUse(n, A, f) <=> InUse(s, A, f)
  BY <1>2, <1>3 DEF InUse
<1>8. FramesOK(n, A, {})
  BY <1>1, <1>2, <1>7 DEF FramesOK
<1>9. \A f \in Frame : Parent(n, A, f) <=> Parent(s, A, f)
  BY <1>2, <1>3 DEF Parent
<1>10. \A p, t, f : f \in Frame /\ Child(s, p, t, f) => Child(n, p, t, f)
  BY <1>2, <1>3 DEF Child
<1>11. OwnersOK(n, A)
  BY <1>1, <1>2, <1>3, <1>9, <1>10 DEF OwnersOK
<1>12. Parented(s, A) => Parented(n, A)
  BY <1>2, <1>9 DEF Parented
<1>13. Tight(s, A) => Tight(n, A)
  <2>1. \A c : Held(n, A, c) <=> Held(s, A, c)
    BY <1>2, <1>3 DEF Held
  <2> QED
    BY <1>2, <1>7, <2>1 DEF Tight
<1>14. Sound(n, A, {})
  BY <1>1, <1>2, <1>4, <1>5, <1>6, <1>8, <1>11 DEF Sound
<1> QED
  BY <1>2, <1>3, <1>12, <1>13, <1>14 DEF Alike

\* n is s but for the page table in f, which describes page x.
Written(s, f, x, n) ==
  /\ n \in Spaces
  /\ n.pcb = s.pcb /\ n.ft = s.ft /\ n.disk = s.disk /\ n.free = s.free
  /\ n.empty = s.empty /\ n.wild = s.wild
  /\ n.mem[f] = Table(x) /\ \A g \in Frame \ {f} : n.mem[g] = s.mem[g]

Writing(s, f, x) == [s EXCEPT !.mem[f] = Table(x)]

LEMMA WrittenIs ==
  ASSUME NEW s \in Spaces, NEW f \in Frame, NEW x \in (Procs \X Slot) \cup {Nil},
         NEW n, n = Writing(s, f, x)
  PROVE  Written(s, f, x, n)
<1>1. s.mem \in [Frame -> Contents]
  BY SpaceTypes
<1>2. PICK y \in Contents : y = Table(x)
  BY ContentKinds
<1>3. PICK b \in [Frame -> Contents] : b = [s.mem EXCEPT ![f] = y]
  BY <1>1
<1>4. b[f] = y /\ \A g \in Frame \ {f} : b[g] = s.mem[g]
  BY <1>1, <1>3
<1>5. n = [s EXCEPT !.mem = b]
  BY <1>2, <1>3 DEF Writing
<1>6. n \in Spaces
  BY <1>5 DEF Spaces
<1>7. /\ n.mem = b /\ n.pcb = s.pcb /\ n.ft = s.ft /\ n.disk = s.disk
      /\ n.free = s.free /\ n.empty = s.empty /\ n.wild = s.wild
  BY <1>5 DEF Spaces
<1> QED
  BY <1>2, <1>4, <1>6, <1>7 DEF Written

\* Only the page table of entry t of p reads differently: it describes page x.
Changed(s, A, p, t, x, n) ==
  /\ Alike(s, A, n) /\ Reads(n, p, t) = Table(x)
  /\ \A q \in A, u \in Slot : ~(q = p /\ u = t) => Reads(n, q, u) = Reads(s, q, u)

LEMMA WrittenWorks ==
  ASSUME NEW s, NEW A \in SUBSET Procs, Sound(s, A, {}), NEW p \in A, NEW t \in Slot,
         In(s, A, p), Cell(s, p, t).status = "Present",
         NEW x, NEW n, Written(s, Cell(s, p, t).blk, x, n)
  PROVE  Changed(s, A, p, t, x, n)
<1>0. PICK f : f = Cell(s, p, t).blk
  OBVIOUS
<1>1. /\ s \in Spaces /\ ~s.wild /\ MastersOK(s, A) /\ EntriesOK(s, A) /\ Apart(s, A)
      /\ FramesOK(s, A, {}) /\ OwnersOK(s, A)
  BY DEF Sound
<1>2. /\ n \in Spaces
      /\ n.pcb = s.pcb /\ n.ft = s.ft /\ n.disk = s.disk /\ n.free = s.free
      /\ n.empty = s.empty /\ n.wild = s.wild
      /\ n.mem[f] = Table(x) /\ \A g \in Frame \ {f} : n.mem[g] = s.mem[g]
  BY <1>0 DEF Written
<1>3. /\ f \in Frame /\ s.ft[f].type = "PageTable" /\ s.ft[f].owner = <<s.pcb[p].frame, t>>
      /\ s.pcb[p].valid
  <2>1. EntryOK(s, p, t, Cell(s, p, t))
    BY <1>1 DEF EntriesOK
  <2> QED
    BY <1>0, <2>1 DEF EntryOK
<1>4. Table(x).kind = "table"
  BY DEF Table
<1>5. \A q \in A : (In(n, A, q) <=> In(s, A, q)) /\ (Out(n, A, q) <=> Out(s, A, q))
  BY <1>2 DEF In, Out
<1>6. \A q \in A : In(s, A, q) => s.pcb[q].frame \in Frame \ {f}
  BY <1>1, <1>3 DEF MastersOK
<1>7. ASSUME NEW q \in A, NEW u \in Slot PROVE Cell(n, q, u) = Cell(s, q, u)
  <2>1. CASE In(s, A, q)
    BY <1>2, <1>6, <2>1 DEF Cell, In
  <2>2. CASE ~In(s, A, q)
    BY <1>2, <2>2 DEF Cell, In
  <2> QED
    BY <2>1, <2>2
\* No other entry leads to f.
<1>8. ASSUME NEW q \in A, NEW u \in Slot, Cell(s, q, u).status = "Present",
             Cell(s, q, u).blk = f
      PROVE  q = p /\ u = t
  <2>1. EntryOK(s, q, u, Cell(s, q, u))
    BY <1>1 DEF EntriesOK
  <2>2. s.pcb[q].valid /\ <<s.pcb[q].frame, u>> = <<s.pcb[p].frame, t>>
    BY <1>3, <1>8, <2>1 DEF EntryOK
  <2>3. s.pcb[q].frame = s.pcb[p].frame /\ u = t /\ In(s, A, q)
    BY <2>2 DEF In
  <2> QED
    BY <1>1, <2>3, OwnMaster
<1>9. ASSUME NEW q \in A, NEW u \in Slot
      PROVE  /\ EntryOK(n, q, u, Cell(n, q, u))
             /\ Reads(n, q, u) = IF q = p /\ u = t THEN Table(x) ELSE Reads(s, q, u)
  <2>1. PICK e : e = Cell(s, q, u) /\ e = Cell(n, q, u)
    BY <1>7
  <2>2. EntryOK(s, q, u, e)
    BY <1>1, <2>1 DEF EntriesOK
  <2>3. CASE e.status = "Present"
    <3>1. CASE q = p /\ u = t
      <4>1. e.blk = f
        BY <1>0, <2>1, <3>1
      <4>2. EntryOK(n, q, u, e)
        BY <1>2, <1>4, <2>2, <2>3, <4>1 DEF EntryOK
      <4>3. Leads(n, e) = Table(x)
        BY <1>2, <2>3, <4>1 DEF Leads
      <4> QED
        BY <2>1, <3>1, <4>2, <4>3 DEF Reads
    <3>2. CASE ~(q = p /\ u = t)
      <4>1. e.blk \in Frame \ {f}
        BY <1>8, <2>1, <2>2, <2>3, <3>2 DEF EntryOK
      <4>2. n.mem[e.blk] = s.mem[e.blk]
        BY <1>2, <4>1
      <4>3. EntryOK(n, q, u, e)
        BY <1>2, <2>2, <2>3, <4>1, <4>2 DEF EntryOK
      <4>4. Leads(n, e) = Leads(s, e)
        BY <2>3, <4>2 DEF Leads
      <4> QED
        BY <2>1, <3>2, <4>3, <4>4 DEF Reads
    <3> QED
      BY <3>1, <3>2
  <2>4. CASE e.status # "Present"
    <3>1. ~(q = p /\ u = t)
      BY <2>1, <2>4
    <3>2. EntryOK(n, q, u, e)
      BY <1>2, <2>2, <2>4 DEF EntryOK
    <3>3. Leads(n, e) = Leads(s, e)
      BY <1>2, <2>4 DEF Leads
    <3> QED
      BY <2>1, <3>1, <3>2, <3>3 DEF Reads
  <2> QED
    BY <2>3, <2>4
<1>10. EntriesOK(n, A)
  BY <1>9 DEF EntriesOK
<1>11. MastersOK(n, A)
  <2>1. \A q \in A : In(s, A, q) => n.mem[s.pcb[q].frame] = s.mem[s.pcb[q].frame]
    BY <1>2, <1>6
  <2>2. ASSUME NEW q \in A, In(n, A, q)
        PROVE  LET b == n.pcb[q].frame
               IN  /\ b \in Frame /\ n.pcb[q].ptl1 = b
                   /\ n.ft[b].type = "SegTable" /\ n.ft[b].owner = q
                   /\ n.mem[b].kind = "master"
    <3>1. In(s, A, q)
      BY <1>5, <2>2
    <3>2. /\ s.pcb[q].frame \in Frame /\ s.pcb[q].ptl1 = s.pcb[q].frame
          /\ s.ft[s.pcb[q].frame].type = "SegTable" /\ s.ft[s.pcb[q].frame].owner = q
          /\ s.mem[s.pcb[q].frame].kind = "master"
      BY <1>1, <3>1 DEF MastersOK
    <3> QED
      BY <1>2, <2>1, <3>1, <3>2
  <2>3. ASSUME NEW q \in A, Out(n, A, q)
        PROVE  n.pcb[q].disk \in Cluster \ n.free /\ n.disk[n.pcb[q].disk].kind = "master"
    BY <1>1, <1>2, <1>5, <2>3 DEF MastersOK
  <2>4. \A q \in Procs \ A : n.pcb[q] = NoPcb
    BY <1>1, <1>2 DEF MastersOK
  <2> QED
    BY <2>2, <2>3, <2>4 DEF MastersOK
<1>12. \A q \in A, u \in Slot : \A c : Stored(n, q, u, c) <=> Stored(s, q, u, c)
  BY <1>7 DEF Stored
<1>13. Apart(n, A)
  BY <1>1, <1>2, <1>5, <1>12 DEF Apart
<1>14. \A g : InUse(n, A, g) <=> InUse(s, A, g)
  BY <1>2, <1>5 DEF InUse
<1>15. FramesOK(n, A, {})
  BY <1>1, <1>2, <1>14 DEF FramesOK
<1>16. \A g : Parent(n, A, g) <=> Parent(s, A, g)
  BY <1>2, <1>5 DEF Parent
<1>17. \A q \in A, u \in Slot : \A g : Child(s, q, u, g) => Child(n, q, u, g)
  BY <1>2, <1>7 DEF Child
<1>18. OwnersOK(n, A)
  BY <1>1, <1>2, <1>5, <1>16, <1>17 DEF OwnersOK
<1>19. Parented(s, A) => Parented(n, A)
  BY <1>2, <1>16 DEF Parented
<1>20. Tight(s, A) => Tight(n, A)
  <2>1. \A c : Held(n, A, c) <=> Held(s, A, c)
    BY <1>2, <1>5, <1>12 DEF Held
  <2> QED
    BY <1>2, <1>14, <2>1 DEF Tight
<1>21. Sound(n, A, {})
  BY <1>1, <1>2, <1>10, <1>11, <1>13, <1>15, <1>18 DEF Sound
<1> QED
  BY <1>2, <1>7, <1>9, <1>19, <1>20, <1>21 DEF Alike, Changed


\* What becomes of the kernel space when a call has the page table of entry t of p.
Had(s, A, p, t, locked, n) ==
  /\ Sound(n, A, {}) /\ Parented(n, A)
  /\ In(n, A, p) /\ n.pcb[p] = s.pcb[p]
  /\ Cell(n, p, t).status = "Present" /\ Cell(n, p, t).blk \in Frame
  /\ n.ft[Cell(n, p, t).blk].type = "PageTable"
  /\ n.ft[Cell(n, p, t).blk].owner = <<n.pcb[p].frame, t>>
  /\ \A f \in Frame :
       n.ft[f].locked <=> s.ft[f].locked \/ (locked /\ f = Cell(n, p, t).blk)
  /\ \A q \in A, u \in Slot : Reads(n, q, u) = Reads(s, q, u)
  /\ \A q \in A : In(s, A, q) /\ s.ft[s.pcb[q].frame].locked => n.pcb[q] = s.pcb[q]
  /\ \A q \in A, u \in Slot :
       In(s, A, q) /\ In(n, A, q) =>
         \/ Cell(n, q, u) = Cell(s, q, u)
         \/ Cell(s, q, u).status = "Present" /\ ~s.ft[Cell(s, q, u).blk].locked
         \/ q = p /\ u = t /\ Cell(s, q, u).status # "Present"
  /\ Tight(s, A) => Tight(n, A)

\* The L1 table that a process in memory goes through is its own.
LEMMA L1Is ==
  ASSUME NEW s, NEW A, NEW H, Sound(s, A, H), NEW p \in A, In(s, A, p), NEW t \in Slot
  PROVE  L1(s, p, t) = Cell(s, p, t) /\ ~Astray(s, p, t)
<1>1. /\ s.pcb[p].ptl1 = s.pcb[p].frame /\ s.mem[s.pcb[p].frame].kind = "master"
      /\ s.pcb[p].valid
  BY DEF Sound, MastersOK, In
<1>2. L1(s, p, t) = Cell(s, p, t)
  BY <1>1 DEF L1, Cell
<1>3. EntryOK(s, p, t, Cell(s, p, t))
  BY DEF Sound, EntriesOK
<1>4. Cell(s, p, t).status # "Unused" => Cell(s, p, t).blk # Nil
  BY <1>1, <1>3, NilApart DEF EntryOK
<1> QED
  BY <1>1, <1>2, <1>4 DEF Astray

\* Frame f holds the page table of entry t of p.
TableAt(s, A, p, t, f) ==
  /\ f \in Frame /\ s.pcb[p].valid
  /\ s.ft[f].type = "PageTable" /\ s.ft[f].owner = <<s.pcb[p].frame, t>>
  /\ s.mem[f].kind = "table" /\ InUse(s, A, f)

LEMMA PresentIs ==
  ASSUME NEW s, NEW A, Sound(s, A, {}), NEW p \in A, NEW t \in Slot,
         Cell(s, p, t).status = "Present"
  PROVE  TableAt(s, A, p, t, Cell(s, p, t).blk)
<1>1. EntryOK(s, p, t, Cell(s, p, t))
  BY DEF Sound, EntriesOK
<1> QED
  BY <1>1 DEF EntryOK, InUse, TableAt

LEMMA HaveTableWorks ==
  ASSUME NEW s, NEW A \in SUBSET Procs, Sound(s, A, {}), Parented(s, A), Loose(s, A),
         NEW p \in A, In(s, A, p), NEW t \in Slot,
         \/ s.ft[s.pcb[p].frame].locked
         \/ s.empty # <<>>
         \/ Cell(s, p, t).status = "Present",
         NEW locked \in BOOLEAN, NEW n \in HaveTable(s, p, t, locked)
  PROVE  Had(s, A, p, t, locked, n)
<1>1. PICK e : e = Cell(s, p, t) /\ e = L1(s, p, t) /\ ~Astray(s, p, t)
  BY L1Is
<1>2. CASE e.status = "Present" /\ locked
  <2>0. PICK g : g = e.blk /\ g = Cell(s, p, t).blk
    BY <1>1
  <2>1. n = [s EXCEPT !.ft[g].locked = TRUE]
    BY <1>1, <1>2, <2>0 DEF HaveTable
  <2>2. /\ g \in Frame
        /\ s.ft[g].type = "PageTable" /\ s.ft[g].owner = <<s.pcb[p].frame, t>>
        /\ InUse(s, A, g)
    <3>1. Cell(s, p, t).status = "Present"
      BY <1>1, <1>2
    <3>2. TableAt(s, A, p, t, Cell(s, p, t).blk)
      BY <3>1, PresentIs
    <3> QED
      BY <2>0, <3>2 DEF TableAt
  <2>3. s \in Spaces
    BY DEF Sound
  <2>4. /\ Relock(s, n) /\ n.ft[g].locked
        /\ \A f \in Frame \ {g} : n.ft[f].locked = s.ft[f].locked
    <3>1. n = Locking(s, g, TRUE)
      BY <2>1 DEF Locking
    <3>2. LockSet(s, g, TRUE, n)
      BY <2>2, <2>3, <3>1, LockIs
    <3> QED
      BY <3>2 DEF LockSet
  <2>5. \A f \in Frame : n.ft[f].locked => InUse(s, A, f)
    BY <2>2, <2>4 DEF Sound, FramesOK
  <2>6. Alike(s, A, n) /\ \A q \in A, u \in Slot : Reads(n, q, u) = Reads(s, q, u)
    BY <2>4, <2>5, RelockWorks
  <2>7. /\ Sound(n, A, {}) /\ Parented(n, A) /\ n.pcb = s.pcb /\ In(n, A, p)
        /\ \A q \in A, u \in Slot : Cell(n, q, u) = Cell(s, q, u)
        /\ Tight(s, A) => Tight(n, A)
    BY <2>6 DEF Alike, In
  <2>8. /\ n.ft[g].type = "PageTable" /\ n.ft[g].owner = <<n.pcb[p].frame, t>>
        /\ Cell(n, p, t) = e
    BY <1>1, <2>2, <2>4, <2>7 DEF Relock
  <2>9. \A f \in Frame : n.ft[f].locked <=> s.ft[f].locked \/ (locked /\ f = g)
    BY <1>2, <2>4
  <2> QED
    BY <1>2, <2>0, <2>2, <2>6, <2>7, <2>8, <2>9 DEF Had
<1>3. CASE e.status = "Present" /\ ~locked
  <2>1. n = s
    BY <1>1, <1>3 DEF HaveTable
  <2>2. /\ e.blk \in Frame
        /\ s.ft[e.blk].type = "PageTable" /\ s.ft[e.blk].owner = <<s.pcb[p].frame, t>>
    <3>1. PICK g : g = e.blk /\ g = Cell(s, p, t).blk
      BY <1>1
    <3>2. g \in Frame /\ s.ft[g].type = "PageTable" /\ s.ft[g].owner = <<s.pcb[p].frame, t>>
      <4>1. Cell(s, p, t).status = "Present"
        BY <1>1, <1>3
      <4>2. TableAt(s, A, p, t, Cell(s, p, t).blk)
        BY <4>1, PresentIs
      <4> QED
        BY <3>1, <4>2 DEF TableAt
    <3> QED
      BY <3>1, <3>2
  <2> QED
    BY <1>1, <1>3, <2>1, <2>2 DEF Had
<1>4. CASE e.status # "Present"
  <2>1. PICK a \in Acquire(s) : n = BringTable(a.s, p, t, e, a.frame, locked)
    BY <1>1, <1>4 DEF HaveTable
  <2>2. PICK g, m : g = a.frame /\ m = a.s
    OBVIOUS
  <2>3. Acquired(s, A, g, m)
    BY <2>2, AcquireWorks
  <2>4. g \in Frame /\ Sound(m, A, {g}) /\ Parented(m, A) /\ ~m.ft[g].locked
    BY <2>3 DEF Acquired
  <2>5. m.pcb[p] = s.pcb[p]
    BY <1>1, <1>4, <2>3 DEF Acquired
  <2>6. In(m, A, p) /\ Cell(m, p, t) = e
    BY <1>1, <1>4, <2>3, <2>5 DEF Acquired, In
  <2>7. TableBrought(m, g, p, t, locked, n)
    <3>1. n = BringTable(m, p, t, e, g, locked)
      BY <2>1, <2>2
    <3> QED
      BY <1>4, <2>4, <2>6, <3>1, BringTableIs
  <2>8. Mounted(m, A, g, p, t, locked, n)
    BY <1>4, <2>4, <2>6, <2>7, TableInWorks
  <2>9. /\ Sound(n, A, {}) /\ Parented(n, A) /\ n.pcb = m.pcb /\ In(n, A, p)
        /\ Cell(n, p, t) = Present(g)
    BY <2>6, <2>8 DEF Mounted, In
  <2>10. /\ Present(g).status = "Present" /\ Present(g).blk = g
         /\ n.ft[g].type = "PageTable" /\ n.ft[g].owner = <<n.pcb[p].frame, t>>
    <3>1. Present(g).status = "Present" /\ Present(g).blk = g
      BY <2>4, CellForms
    <3>2. Cell(n, p, t).status = "Present" /\ g = Cell(n, p, t).blk
      BY <2>9, <3>1
    <3>3. n.ft[g].type = "PageTable" /\ n.ft[g].owner = <<n.pcb[p].frame, t>>
      <4>1. TableAt(n, A, p, t, Cell(n, p, t).blk)
        BY <2>9, <3>2, PresentIs
      <4> QED
        BY <3>2, <4>1 DEF TableAt
    <3> QED
      BY <3>1, <3>3
  <2>11. \A f \in Frame : n.ft[f].locked <=> s.ft[f].locked \/ (locked /\ f = g)
    <3>1. n.ft[g].locked = locked /\ \A f \in Frame \ {g} : n.ft[f].locked = m.ft[f].locked
      BY <2>8 DEF Mounted
    <3>2. ~s.ft[g].locked /\ \A f \in Frame : m.ft[f].locked = s.ft[f].locked
      BY <2>3, <2>4 DEF Acquired
    <3> QED
      BY <3>1, <3>2
  <2>12. \A q \in A, u \in Slot : Reads(n, q, u) = Reads(s, q, u)
    BY <2>3, <2>8 DEF Acquired, Mounted
  <2>13. \A q \in A : In(s, A, q) /\ s.ft[s.pcb[q].frame].locked => n.pcb[q] = s.pcb[q]
    BY <2>3, <2>9 DEF Acquired
  <2>14. ASSUME NEW q \in A, NEW u \in Slot, In(s, A, q), In(n, A, q)
         PROVE  \/ Cell(n, q, u) = Cell(s, q, u)
                \/ Cell(s, q, u).status = "Present" /\ ~s.ft[Cell(s, q, u).blk].locked
                \/ q = p /\ u = t /\ Cell(s, q, u).status # "Present"
    <3>1. CASE q = p /\ u = t
      BY <1>1, <1>4, <3>1
    <3>2. CASE ~(q = p /\ u = t)
      <4>1. In(m, A, q)
        BY <2>9, <2>14 DEF In
      <4>2. Cell(n, q, u) = Cell(m, q, u)
        BY <2>8, <3>2 DEF Mounted
      <4> QED
        BY <2>3, <2>14, <4>1, <4>2 DEF Acquired
    <3> QED
      BY <3>1, <3>2
  <2>15. Tight(s, A) => Tight(n, A)
    BY <2>3, <2>8 DEF Acquired, Mounted
  <2> QED
    BY <2>4, <2>5, <2>9, <2>10, <2>11, <2>12, <2>13, <2>14, <2>15 DEF Had
<1> QED
  BY <1>2, <1>3, <1>4


\* What becomes of the kernel space when process p is made.
Created(s, A, p, locked, n) ==
  /\ Sound(n, A \cup {p}, {}) /\ Parented(n, A \cup {p}) /\ n.pcb[p].valid
  /\ \A f \in Frame : n.ft[f].locked <=> s.ft[f].locked \/ (locked /\ f = n.pcb[p].frame)
  /\ \A q \in A : In(s, A, q) /\ s.ft[s.pcb[q].frame].locked => n.pcb[q] = s.pcb[q]
  /\ \A q \in A, t \in Slot : Reads(n, q, t) = Reads(s, q, t)
  /\ \A t \in Slot : Reads(n, p, t) = Table(Nil)
  /\ Tight(s, A) => Tight(n, A \cup {p})

LEMMA NewProcessWorks ==
  ASSUME NEW s, NEW A \in SUBSET Procs, Sound(s, A, {}), Parented(s, A), Loose(s, A),
         NEW p \in Procs, p \notin A, NEW locked \in BOOLEAN,
         NEW n \in NewProcess(s, p, locked)
  PROVE  Created(s, A, p, locked, n)
<1>1. PICK a \in Acquire(s) : n = MakeMaster(a.s, a.frame, p, locked)
  BY DEF NewProcess, MakeMaster
<1>2. PICK g, m : g = a.frame /\ m = a.s
  OBVIOUS
<1>3. Acquired(s, A, g, m)
  BY <1>2, AcquireWorks
<1>4. g \in Frame /\ Sound(m, A, {g}) /\ Parented(m, A) /\ ~m.ft[g].locked /\ m \in Spaces
  BY <1>3 DEF Acquired, Sound
<1>5. n = MakeMaster(m, g, p, locked)
  BY <1>1, <1>2
<1>6. MasterMade(m, g, p, locked, n)
  BY <1>4, <1>5, MasterMadeIs
<1>7. Joined(m, A, g, p, locked, n)
  BY <1>4, <1>6, NewMasterWorks
<1>8. /\ Sound(n, A \cup {p}, {}) /\ Parented(n, A \cup {p})
      /\ n.pcb[p].valid /\ n.pcb[p].frame = g /\ \A q \in A : n.pcb[q] = m.pcb[q]
  BY <1>7 DEF Joined
<1>9. \A f \in Frame : n.ft[f].locked <=> s.ft[f].locked \/ (locked /\ f = g)
  <2>1. n.ft[g].locked = locked /\ \A f \in Frame \ {g} : n.ft[f].locked = m.ft[f].locked
    BY <1>7 DEF Joined
  <2>2. ~s.ft[g].locked /\ \A f \in Frame : m.ft[f].locked = s.ft[f].locked
    BY <1>3, <1>4 DEF Acquired
  <2> QED
    BY <2>1, <2>2
<1>10. \A q \in A : In(s, A, q) /\ s.ft[s.pcb[q].frame].locked => n.pcb[q] = s.pcb[q]
  BY <1>3, <1>8 DEF Acquired
<1>11. /\ \A q \in A, t \in Slot : Reads(n, q, t) = Reads(s, q, t)
       /\ \A t \in Slot : Reads(n, p, t) = Table(Nil)
       /\ Tight(s, A) => Tight(n, A \cup {p})
  BY <1>3, <1>7 DEF Acquired, Joined
<1> QED
  BY <1>8, <1>9, <1>10, <1>11 DEF Created

\* Locked page tables are those of locked master tables.
LEMMA LooseIf ==
  ASSUME NEW s, NEW A, Sound(s, A, {}),
         \A f \in Frame : s.ft[f].locked /\ s.ft[f].type = "PageTable" =>
                            s.ft[s.ft[f].owner[1]].locked
  PROVE  Loose(s, A)
<1> SUFFICES ASSUME NEW p \in A, NEW t \in Slot, In(s, A, p),
                    ~s.ft[s.pcb[p].frame].locked, Cell(s, p, t).status = "Present"
             PROVE  ~s.ft[Cell(s, p, t).blk].locked
  BY DEF Loose
<1>1. TableAt(s, A, p, t, Cell(s, p, t).blk)
  BY PresentIs
<1> QED
  BY <1>1 DEF TableAt

\* n is s with the page table in f unlocked and describing page x.
Marked(s, f, x, n) ==
  /\ n \in Spaces
  /\ n.pcb = s.pcb /\ n.disk = s.disk /\ n.free = s.free
  /\ n.empty = s.empty /\ n.wild = s.wild
  /\ n.mem[f] = Table(x) /\ \A g \in Frame \ {f} : n.mem[g] = s.mem[g]
  /\ \A g \in Frame : n.ft[g].type = s.ft[g].type /\ n.ft[g].owner = s.ft[g].owner
  /\ \A g \in Frame : n.ft[g].locked <=> s.ft[g].locked /\ g # f

LEMMA MarkedIs ==
  ASSUME NEW s \in Spaces, NEW f \in Frame, NEW x \in (Procs \X Slot) \cup {Nil}
  PROVE  /\ Marked(s, f, x, Unlock(Writing(s, f, x), f))
         /\ Marked(s, f, x, Writing(Unlock(s, f), f, x))
<1>1. \A m \in Spaces : LockSet(m, f, FALSE, Unlock(m, f)) /\ Unlock(m, f) \in Spaces
  <2> SUFFICES ASSUME NEW m \in Spaces
               PROVE  LockSet(m, f, FALSE, Unlock(m, f)) /\ Unlock(m, f) \in Spaces
    OBVIOUS
  <2>1. LockSet(m, f, FALSE, Locking(m, f, FALSE))
    BY LockIs
  <2>2. Locking(m, f, FALSE) = Unlock(m, f)
    BY DEF Locking, Unlock
  <2> QED
    BY <2>1, <2>2 DEF LockSet, Relock
<1>2. \A m \in Spaces : Written(m, f, x, Writing(m, f, x)) /\ Writing(m, f, x) \in Spaces
  BY WrittenIs DEF Written
<1>3. PICK m, n : m = Writing(s, f, x) /\ n = Unlock(m, f)
  OBVIOUS
<1>4. Written(s, f, x, m) /\ LockSet(m, f, FALSE, n)
  BY <1>1, <1>2, <1>3
<1>5. Marked(s, f, x, n)
  BY <1>4 DEF Written, LockSet, Relock, Marked
<1>6. PICK a, b : a = Unlock(s, f) /\ b = Writing(a, f, x)
  OBVIOUS
<1>7. LockSet(s, f, FALSE, a) /\ Written(a, f, x, b)
  BY <1>1, <1>2, <1>6
<1>8. Marked(s, f, x, b)
  BY <1>7 DEF Written, LockSet, Relock, Marked
<1> QED
  BY <1>3, <1>5, <1>6, <1>8

LEMMA MarkedWorks ==
  ASSUME NEW s, NEW A \in SUBSET Procs, Sound(s, A, {}), NEW p \in A, NEW t \in Slot,
         In(s, A, p), Cell(s, p, t).status = "Present",
         NEW x \in (Procs \X Slot) \cup {Nil}, NEW n, Marked(s, Cell(s, p, t).blk, x, n)
  PROVE  Changed(s, A, p, t, x, n)
<1>0. PICK f \in Frame : f = Cell(s, p, t).blk /\ s \in Spaces
  <2>1. TableAt(s, A, p, t, Cell(s, p, t).blk)
    BY PresentIs
  <2> QED
    BY <2>1 DEF TableAt, Sound
<1>1. PICK m : m = Writing(s, f, x)
  OBVIOUS
<1>2. Written(s, f, x, m)
  BY <1>0, <1>1, WrittenIs
<1>3. Changed(s, A, p, t, x, m) /\ Alike(s, A, m) /\ m.ft = s.ft
  <2>1. Changed(s, A, p, t, x, m)
    BY <1>0, <1>2, WrittenWorks
  <2> QED
    BY <1>2, <2>1 DEF Changed, Written
<1>4. Relock(m, n)
  <2>1. /\ n \in Spaces /\ m \in Spaces
        /\ \A g \in Frame : n.mem[g] = m.mem[g]
    BY <1>0, <1>2 DEF Marked, Written
  <2>2. n.mem = m.mem
    <3>1. n.mem \in [Frame -> Contents] /\ m.mem \in [Frame -> Contents]
      BY <2>1, SpaceTypes
    <3> QED
      BY <2>1, <3>1
  <2> QED
    BY <1>0, <1>2, <1>3, <2>1, <2>2 DEF Marked, Written, Relock
<1>5. Sound(m, A, {})
  BY <1>3 DEF Alike
<1>6. \A g \in Frame : n.ft[g].locked => InUse(m, A, g)
  BY <1>0, <1>3, <1>5 DEF Sound, FramesOK, Marked
<1>7. Alike(m, A, n) /\ \A q \in A, u \in Slot : Reads(n, q, u) = Reads(m, q, u)
  BY <1>4, <1>5, <1>6, RelockWorks
<1>8. Alike(s, A, n)
  BY <1>3, <1>7 DEF Alike
<1> QED
  BY <1>3, <1>7, <1>8 DEF Changed


LEMMA LockedForLoose ==
  ASSUME NEW s, NEW A, Sound(s, A, {}), NEW P, LockedFor(s, A, P)
  PROVE  Loose(s, A) /\ \A f \in Frame : s.ft[f].locked => s.ft[f].type = "SegTable"
<1>1. \A f \in Frame : s.ft[f].locked => s.ft[f].type = "SegTable"
  BY DEF LockedFor, Sound, MastersOK
<1> QED
  BY <1>1, LooseIf

\* What becomes of the kernel space when a call has changed the page table of
\* entry t of p so that it describes page x.
Done(s, A, p, t, x, P, n) ==
  /\ Sound(n, A, {}) /\ Parented(n, A) /\ In(n, A, p)
  /\ Reads(n, p, t) = Table(x)
  /\ \A q \in A, u \in Slot : ~(q = p /\ u = t) => Reads(n, q, u) = Reads(s, q, u)
  /\ LockedFor(n, A, P) /\ \A q \in P : n.pcb[q] = s.pcb[q]
  /\ Tight(s, A) => Tight(n, A)

LEMMA PageDone ==
  ASSUME NEW s, NEW A \in SUBSET Procs, Sound(s, A, {}), NEW P, LockedFor(s, A, P),
         NEW p \in A, NEW t \in Slot, NEW m, Had(s, A, p, t, TRUE, m),
         NEW x \in (Procs \X Slot) \cup {Nil}, NEW n, Marked(m, Cell(m, p, t).blk, x, n)
  PROVE  Done(s, A, p, t, x, P, n)
<1>1. PICK f : f = Cell(m, p, t).blk
  OBVIOUS
<1>2. /\ Sound(m, A, {}) /\ Parented(m, A)
      /\ In(m, A, p) /\ m.pcb[p] = s.pcb[p]
      /\ Cell(m, p, t).status = "Present" /\ f \in Frame
      /\ m.ft[f].type = "PageTable"
      /\ \A g \in Frame : m.ft[g].locked <=> s.ft[g].locked \/ g = f
      /\ \A q \in A, u \in Slot : Reads(m, q, u) = Reads(s, q, u)
      /\ \A q \in A : In(s, A, q) /\ s.ft[s.pcb[q].frame].locked => m.pcb[q] = s.pcb[q]
      /\ Tight(s, A) => Tight(m, A)
  BY <1>1 DEF Had
<1>3. Changed(m, A, p, t, x, n)
  BY <1>2, MarkedWorks
<1>4. /\ Sound(n, A, {}) /\ Parented(n, A) /\ n.pcb = m.pcb
      /\ Tight(m, A) => Tight(n, A)
      /\ Reads(n, p, t) = Table(x)
      /\ \A q \in A, u \in Slot : ~(q = p /\ u = t) => Reads(n, q, u) = Reads(m, q, u)
  BY <1>2, <1>3 DEF Changed, Alike
<1>5. /\ \A q \in P : /\ q \in A /\ In(s, A, q) /\ s.pcb[q].frame \in Frame
                      /\ s.ft[s.pcb[q].frame].locked
      /\ \A g \in Frame : s.ft[g].locked => \E q \in P : g = s.pcb[q].frame
  BY DEF LockedFor
<1>6. \A q \in P : n.pcb[q] = s.pcb[q] /\ m.pcb[q] = s.pcb[q] /\ In(n, A, q) /\ In(m, A, q)
  BY <1>2, <1>4, <1>5 DEF In
<1>7. \A q \in P : s.pcb[q].frame # f
  <2>1. MastersOK(m, A)
    BY <1>2 DEF Sound
  <2>2. \A q \in P : m.ft[s.pcb[q].frame].type = "SegTable"
    BY <1>5, <1>6, <2>1 DEF MastersOK
  <2> QED
    BY <1>2, <2>2
<1>8. \A g \in Frame : n.ft[g].locked <=> s.ft[g].locked /\ g # f
  BY <1>1, <1>2 DEF Marked
<1>9. LockedFor(n, A, P)
  <2>1. \A q \in P : n.pcb[q].frame \in Frame /\ n.ft[n.pcb[q].frame].locked
    BY <1>5, <1>6, <1>7, <1>8
  <2>2. \A g \in Frame : n.ft[g].locked => \E q \in P : g = n.pcb[q].frame
    BY <1>5, <1>6, <1>8
  <2>3. P \in SUBSET A
    BY DEF LockedFor
  <2> QED
    BY <1>6, <2>1, <2>2, <2>3 DEF LockedFor
<1>10. In(n, A, p)
  BY <1>2, <1>4 DEF In
<1> QED
  BY <1>2, <1>4, <1>6, <1>9, <1>10 DEF Done

LEMMA LockMasterWorks ==
  ASSUME NEW s, NEW A \in SUBSET Procs, Sound(s, A, {}), NEW P, LockedFor(s, A, P),
         NEW p \in A, s.pcb[p].valid, NEW n \in LockMaster(s, p)
  PROVE  /\ Alike(s, A, n) /\ LockedFor(n, A, P \cup {p})
         /\ \A q \in A, t \in Slot : Reads(n, q, t) = Reads(s, q, t)
<1>1. PICK f : f = s.pcb[p].frame
  OBVIOUS
<1>2. f \in Frame /\ s \in Spaces /\ In(s, A, p)
  BY <1>1 DEF Sound, MastersOK, In
<1>3. n = Locking(s, f, TRUE)
  BY <1>1 DEF LockMaster, Locking
<1>4. LockSet(s, f, TRUE, n)
  BY <1>2, <1>3, LockIs
<1>5. /\ Relock(s, n)
      /\ \A g \in Frame : n.ft[g].locked <=> s.ft[g].locked \/ g = f
  BY <1>4 DEF LockSet
<1>6. \A g \in Frame : n.ft[g].locked => InUse(s, A, g)
  BY <1>1, <1>2, <1>5 DEF Sound, FramesOK, InUse
<1>7. Alike(s, A, n) /\ \A q \in A, t \in Slot : Reads(n, q, t) = Reads(s, q, t)
  BY <1>5, <1>6, RelockWorks
<1>8. n.pcb = s.pcb
  BY <1>7 DEF Alike
<1>9. LockedFor(n, A, P \cup {p})
  <2>1. P \cup {p} \in SUBSET A
    BY DEF LockedFor
  <2>2. \A q \in P \cup {p} : In(n, A, q) /\ n.pcb[q].frame \in Frame /\ n.ft[n.pcb[q].frame].locked
    BY <1>1, <1>2, <1>5, <1>8 DEF LockedFor, In
  <2>3. \A g \in Frame : n.ft[g].locked => \E q \in P \cup {p} : g = n.pcb[q].frame
    BY <1>1, <1>5, <1>8 DEF LockedFor
  <2> QED
    BY <2>1, <2>2, <2>3 DEF LockedFor
<1> QED
  BY <1>7, <1>9


------------------------------------------------------------------------------
(* Steps that begin a call.                                                *)

\* Between calls.
LEMMA AtRest ==
  ASSUME Inv, Ready, Settled
  PROVE  /\ job = NoCall /\ served = TRUE
         /\ Sound(k, alive, {}) /\ Parented(k, alive) /\ Loose(k, alive)
         /\ LockedFor(k, alive, lent)
         /\ \A p \in alive, t \in Slot : Reads(k, p, t) = Wanted(p, t)
<1>1. job = NoCall /\ Sound(k, alive, {}) /\ served = TRUE
  BY DEF Ready, Inv
<1>2. Parented(k, alive)
  <2>1. Orphans = {}
    BY DEF Ready, Settled
  <2> QED
    BY <2>1 DEF Orphans, Parented, Parent, In
<1>3. job.call = "none" /\ job.proc = Nil /\ job.todo = {} /\ job.left = {}
  BY <1>1 DEF NoCall
<1>4. Holding = lent
  BY <1>3 DEF Holding
<1>5. LockedFor(k, alive, lent)
  BY <1>4 DEF Inv, LocksOK
<1>6. Loose(k, alive)
  BY <1>1, <1>5, LockedForLoose
<1>7. Pending = {}
  BY <1>3 DEF Pending
<1>8. \A p \in alive, t \in Slot : Reads(k, p, t) = Wanted(p, t)
  BY <1>7 DEF Inv, ContentsOK
<1> QED
  BY <1>1, <1>2, <1>5, <1>6, <1>8

\* No call is in progress after the step.
LEMMA NoCallOK ==
  ASSUME job' = NoCall
  PROVE  JobOK' /\ Holding' = lent' /\ Pending' = {} /\ job'.call = "none"
<1>1. /\ job'.call = "none" /\ job'.proc = Nil /\ job'.todo = {} /\ job'.left = {}
      /\ job' \in Jobs
  BY DEF NoCall, Jobs
<1> QED
  BY <1>1 DEF JobOK, Holding, Pending

LEMMA CreateProcessStep ==
  ASSUME Inv, Settled, NEW p \in Procs, CreateProcess(p)
  PROVE  Inv'
<1>1. /\ Ready /\ p \notin alive /\ alive' = alive \cup {p} /\ k' \in NewProcess(k, p, FALSE)
      /\ segs' = segs /\ job' = job /\ lent' = lent /\ served' = served
  BY DEF CreateProcess
<1>2. /\ job = NoCall /\ served = TRUE
      /\ Sound(k, alive, {}) /\ Parented(k, alive) /\ Loose(k, alive)
      /\ LockedFor(k, alive, lent)
      /\ \A q \in alive, t \in Slot : Reads(k, q, t) = Wanted(q, t)
  BY <1>1, AtRest
<1>3. alive \in SUBSET Procs /\ SegsOK /\ lent \subseteq alive
  BY DEF Inv, LocksOK
<1>4. PICK s, n, A : s = k /\ n = k' /\ A = alive
  OBVIOUS
<1>5. Created(s, A, p, FALSE, n)
  BY <1>1, <1>2, <1>3, <1>4, NewProcessWorks
<1>6. /\ Sound(n, A \cup {p}, {}) /\ Parented(n, A \cup {p}) /\ n.pcb[p].valid
      /\ \A f \in Frame : n.ft[f].locked <=> s.ft[f].locked
      /\ \A q \in A : In(s, A, q) /\ s.ft[s.pcb[q].frame].locked => n.pcb[q] = s.pcb[q]
      /\ \A q \in A, t \in Slot : Reads(n, q, t) = Reads(s, q, t)
      /\ \A t \in Slot : Reads(n, p, t) = Table(Nil)
      /\ Tight(s, A) => Tight(n, A \cup {p})
  BY <1>5 DEF Created
<1>7. JobOK' /\ Holding' = lent' /\ Pending' = {} /\ job'.call = "none"
  BY <1>1, <1>2, NoCallOK
<1>8. LocksOK'
  <2>1. LockedFor(s, A, lent)
    BY <1>2, <1>4
  <2>2. \A q \in lent : n.pcb[q] = s.pcb[q] /\ In(n, A \cup {p}, q)
    BY <1>6, <2>1 DEF LockedFor, In
  <2>3. /\ \A q \in lent : s.pcb[q].frame \in Frame /\ s.ft[s.pcb[q].frame].locked
        /\ \A f \in Frame : s.ft[f].locked => \E q \in lent : f = s.pcb[q].frame
        /\ lent \in SUBSET (A \cup {p})
    BY <2>1 DEF LockedFor
  <2>4. \A f \in Frame : n.ft[f].locked <=> s.ft[f].locked
    BY <1>6
  <2>5. LockedFor(n, A \cup {p}, lent)
    BY <2>2, <2>3, <2>4 DEF LockedFor
  <2> QED
    BY <1>1, <1>3, <1>4, <1>7, <2>5 DEF LocksOK
<1>9. segs[p] = {}
  BY <1>1, <1>3 DEF SegsOK
<1>10. ContentsOK'
  <2>1. \A t \in Slot : Wanted(p, t) = Table(Nil)
    BY <1>9 DEF Wanted
  <2>2. \A q \in alive', t \in Slot : Wanted(q, t)' = Wanted(q, t)
    BY <1>1 DEF Wanted
  <2>3. \A q \in alive', t \in Slot : Reads(k', q, t) = Wanted(q, t)
    BY <1>1, <1>2, <1>4, <1>6, <2>1
  <2> QED
    BY <1>1, <2>2, <2>3 DEF ContentsOK
<1>11. SegsOK'
  BY <1>1, <1>3 DEF SegsOK
<1>12. "exit" \notin Calls => Tight(k', alive')
  BY <1>1, <1>4, <1>6 DEF Inv
<1>13. Sound(k', alive', {}) /\ alive' \subseteq Procs
  BY <1>1, <1>3, <1>4, <1>6
<1> QED
  BY <1>1, <1>2, <1>7, <1>8, <1>10, <1>11, <1>12, <1>13 DEF Inv


\* What a call of process p on entries T has done when it begins.
Begun(p, call, T, rest) ==
  /\ job = NoCall
  /\ p \in alive /\ alive' = alive /\ lent' = lent /\ served' = TRUE
  /\ Sound(k', alive, {}) /\ Parented(k', alive) /\ k'.pcb = k.pcb /\ k.pcb[p].valid
  /\ \A q \in alive, t \in Slot : Reads(k', q, t) = Wanted(q, t)
  /\ LockedFor(k', alive, lent \cup {p})
  /\ Tight(k, alive) => Tight(k', alive)
  /\ job'.call = call /\ job'.proc = p /\ job'.from = Nil /\ job'.todo = T
  /\ job'.left = rest /\ job'.first = IF T = {} THEN Nil ELSE Min(T)

LEMMA CallBegins ==
  ASSUME Inv, Settled, NEW p, NEW call, NEW T, NEW rest, Call(p, call, T, rest)
  PROVE  Begun(p, call, T, rest)
<1>1. /\ Ready /\ call \in Calls /\ p \in alive /\ k.pcb[p].valid
      /\ k' \in LockMaster(k, p)
      /\ job' = [call |-> call, proc |-> p, from |-> Nil,
                 first |-> IF T = {} THEN Nil ELSE Min(T), todo |-> T, left |-> rest]
      /\ alive' = alive /\ lent' = lent /\ served' = served
  BY DEF Call, Settled
<1>2. /\ job = NoCall /\ served = TRUE
      /\ Sound(k, alive, {}) /\ Parented(k, alive)
      /\ LockedFor(k, alive, lent)
      /\ \A q \in alive, t \in Slot : Reads(k, q, t) = Wanted(q, t)
  BY <1>1, AtRest
<1>3. alive \in SUBSET Procs
  BY DEF Inv
<1>4. PICK s, n, A, P : s = k /\ n = k' /\ A = alive /\ P = lent
  OBVIOUS
<1>5. /\ Alike(s, A, n) /\ LockedFor(n, A, P \cup {p})
      /\ \A q \in A, t \in Slot : Reads(n, q, t) = Reads(s, q, t)
  BY <1>1, <1>2, <1>3, <1>4, LockMasterWorks
<1>6. /\ Sound(n, A, {}) /\ Parented(n, A) /\ n.pcb = s.pcb
      /\ Tight(s, A) => Tight(n, A)
  BY <1>2, <1>4, <1>5 DEF Alike
<1>7. \A q \in alive, t \in Slot : Reads(k', q, t) = Wanted(q, t)
  BY <1>2, <1>4, <1>5
<1>8. /\ job'.call = call /\ job'.proc = p /\ job'.from = Nil /\ job'.todo = T
      /\ job'.left = rest /\ job'.first = IF T = {} THEN Nil ELSE Min(T)
  BY <1>1
<1> QED
  BY <1>1, <1>2, <1>4, <1>5, <1>6, <1>7, <1>8 DEF Begun

\* What is left to show of a call that has begun.
LEMMA BegunOK ==
  ASSUME Inv, NEW p, NEW call \in {"create", "touch", "delete", "exit"},
         NEW T, NEW rest, Begun(p, call, T, rest), SegsOK', JobOK',
         \A q \in alive, t \in Slot : q # p \/ t \notin Pending' =>
            Wanted(q, t)' = Wanted(q, t),
         call # "exit" \/ "exit" \in Calls
  PROVE  Inv'
<1>1. /\ p \in alive /\ alive' = alive /\ lent' = lent /\ served' = TRUE
      /\ Sound(k', alive, {})
      /\ \A q \in alive, t \in Slot : Reads(k', q, t) = Wanted(q, t)
      /\ LockedFor(k', alive, lent \cup {p})
      /\ Tight(k, alive) => Tight(k', alive)
      /\ job'.call = call /\ job'.proc = p
  BY DEF Begun
<1>2. Holding' = lent \cup {p}
  BY <1>1 DEF Holding
<1>3. LocksOK'
  BY <1>1, <1>2 DEF Inv, LocksOK
<1>4. ContentsOK'
  BY <1>1 DEF ContentsOK
<1>5. "exit" \notin Calls => Tight(k', alive') /\ job'.call # "exit"
  BY <1>1 DEF Inv
<1> QED
  BY <1>1, <1>3, <1>4, <1>5 DEF Inv

LEMMA IntervalIs == \A T \in Interval : T # {} /\ T \in SUBSET Slot /\ T \in SUBSET Nat
<1>1. Slot \in SUBSET Nat
  BY NilApart DEF Slot
<1>2. \A a, b \in Slot : a .. b \in SUBSET Slot
  BY NilApart DEF Slot
<1> QED
  BY <1>1, <1>2 DEF Interval

LEMMA CreateSegmentStep ==
  ASSUME Inv, Settled, NEW p \in Procs, NEW T \in Interval, CreateSegment(p, T)
  PROVE  Inv'
<1>1. /\ \A S \in segs[p] : S \cap T = {}
      /\ Begun(p, "create", T, {})
      /\ segs' = [segs EXCEPT ![p] = @ \cup {T}]
  BY CallBegins DEF CreateSegment
<1>2. /\ p \in alive /\ alive' = alive /\ alive \in SUBSET Procs
      /\ Parented(k', alive) /\ k'.pcb = k.pcb /\ k.pcb[p].valid
      /\ job'.call = "create" /\ job'.proc = p /\ job'.from = Nil /\ job'.todo = T
      /\ job'.left = {} /\ job'.first = IF T = {} THEN Nil ELSE Min(T)
  BY <1>1 DEF Begun, Inv
<1>3. T # {} /\ T \in SUBSET Slot /\ Min(T) \in Slot
  BY IntervalIs, MinOf
<1>4. SegsOK
  BY DEF Inv
<1>5. /\ segs' \in [Procs -> SUBSET SUBSET Slot] /\ segs'[p] = segs[p] \cup {T}
      /\ \A q \in Procs \ {p} : segs'[q] = segs[q]
  BY <1>1, <1>3, <1>4 DEF SegsOK
<1>6. SegsOK'
  <2>1. \A S, U \in segs'[p] : S # {} /\ (S # U => S \cap U = {})
    BY <1>1, <1>3, <1>4, <1>5 DEF SegsOK
  <2>2. \A q \in Procs \ alive : segs'[q] = {}
    BY <1>2, <1>4, <1>5 DEF SegsOK
  <2>3. \A q \in Procs : \A S, U \in segs'[q] : S # {} /\ (S # U => S \cap U = {})
    BY <1>4, <1>5, <2>1 DEF SegsOK
  <2> QED
    BY <1>2, <1>5, <2>2, <2>3 DEF SegsOK
<1>7. JobOK'
  <2>1. job' \in Jobs
    <3>1. job' = [call |-> "create", proc |-> p, from |-> Nil,
                  first |-> Min(T), todo |-> T, left |-> {}]
      BY <1>1, <1>3 DEF CreateSegment, Call
    <3> QED
      BY <1>3, <3>1 DEF Jobs
  <2>2. T \subseteq UNION segs'[p]
    BY <1>5
  <2> QED
    BY <1>2, <2>1, <2>2 DEF JobOK
<1>8. Pending' = T
  BY <1>2 DEF Pending
<1>9. ASSUME NEW q \in alive, NEW t \in Slot, q # p \/ t \notin Pending'
      PROVE  Wanted(q, t)' = Wanted(q, t)
  <2>1. t \in UNION segs'[q] <=> t \in UNION segs[q]
    BY <1>2, <1>5, <1>8, <1>9
  <2> QED
    BY <2>1 DEF Wanted
<1> QED
  BY <1>1, <1>6, <1>7, <1>9, BegunOK

LEMMA TouchStep ==
  ASSUME Inv, Settled, NEW p \in Procs, NEW t \in Slot, Touch(p, t)
  PROVE  Inv'
<1>1. /\ \E S \in segs[p] : t \in S
      /\ Begun(p, "touch", {t}, {})
      /\ segs' = segs
  BY CallBegins DEF Touch
<1>2. /\ p \in alive /\ alive' = alive
      /\ Parented(k', alive) /\ k'.pcb = k.pcb /\ k.pcb[p].valid
      /\ job'.call = "touch" /\ job'.proc = p /\ job'.from = Nil /\ job'.todo = {t}
      /\ job'.left = {}
  BY <1>1 DEF Begun
<1>3. Min({t}) \in Slot
  <2>1. {t} \in SUBSET Nat /\ {t} # {}
    BY NilApart DEF Slot
  <2> QED
    BY <2>1, MinOf
<1>4. SegsOK'
  BY <1>1, <1>2 DEF Inv, SegsOK
<1>5. JobOK'
  <2>1. job' \in Jobs
    <3>1. job' = [call |-> "touch", proc |-> p, from |-> Nil,
                  first |-> IF {t} = {} THEN Nil ELSE Min({t}), todo |-> {t}, left |-> {}]
      BY DEF Touch, Call
    <3> QED
      BY <1>3, <3>1 DEF Jobs
  <2>2. {t} \subseteq UNION segs'[p]
    BY <1>1
  <2> QED
    BY <1>2, <2>1, <2>2 DEF JobOK
<1>6. \A q \in alive, u \in Slot : Wanted(q, u)' = Wanted(q, u)
  BY <1>1 DEF Wanted
<1> QED
  BY <1>1, <1>4, <1>5, <1>6, BegunOK


\* Segments of one page table.
LEMMA OneTable ==
  ASSUME NEW T \in SUBSET Slot, Cardinality(T) = 1
  PROVE  \E t \in Slot : T = {t} /\ Min(T) = t
<1>1. IsFiniteSet(T)
  <2>1. IsFiniteSet(0 .. NTables - 1)
    <3>1. 0 \in Int /\ NTables - 1 \in Int
      BY NilApart
    <3> QED
      BY <3>1, FS_Interval
  <2> QED
    BY <2>1, FS_Subset DEF Slot
<1>2. PICK t : T = {t}
  BY <1>1, FS_Singleton
<1>3. t \in Slot /\ T \in SUBSET Nat /\ T # {}
  BY <1>2, NilApart DEF Slot
<1>4. Min(T) \in T
  BY <1>3, MinOf
<1> QED
  BY <1>2, <1>3, <1>4

LEMMA DeleteSegmentStep ==
  ASSUME Inv, Settled, NEW p \in Procs, NEW T \in Interval, DeleteSegment(p, T)
  PROVE  Inv'
<1>1. /\ T \in segs[p] /\ Cardinality(T) = 1
      /\ Begun(p, "delete", T, {})
      /\ segs' = [segs EXCEPT ![p] = @ \ {T}]
  BY CallBegins DEF DeleteSegment, Settled
<1>2. /\ p \in alive /\ alive' = alive
      /\ Parented(k', alive) /\ k'.pcb = k.pcb /\ k.pcb[p].valid
      /\ job'.call = "delete" /\ job'.proc = p /\ job'.from = Nil /\ job'.todo = T
      /\ job'.left = {} /\ job'.first = IF T = {} THEN Nil ELSE Min(T)
  BY <1>1 DEF Begun
<1>3. PICK x \in Slot : T = {x} /\ Min(T) = x
  BY <1>1, IntervalIs, OneTable
<1>4. SegsOK
  BY DEF Inv
<1>5. /\ segs' \in [Procs -> SUBSET SUBSET Slot] /\ segs'[p] = segs[p] \ {T}
      /\ \A q \in Procs \ {p} : segs'[q] = segs[q]
  BY <1>1, <1>4 DEF SegsOK
<1>6. SegsOK'
  BY <1>2, <1>4, <1>5 DEF SegsOK
<1>7. JobOK'
  <2>1. job' \in Jobs
    <3>1. job' = [call |-> "delete", proc |-> p, from |-> Nil,
                  first |-> x, todo |-> {x}, left |-> {}]
      BY <1>3 DEF DeleteSegment, Call
    <3> QED
      BY <3>1 DEF Jobs
  <2>2. T \cap UNION segs'[p] = {}
    <3>1. \A S \in segs[p] : S # T => S \cap T = {}
      BY <1>1, <1>4 DEF SegsOK
    <3> QED
      BY <1>5, <3>1
  <2>3. job'.first \in Slot /\ job'.todo = {job'.first}
    BY <1>2, <1>3
  <2> QED
    BY <1>2, <2>1, <2>2, <2>3 DEF JobOK
<1>8. Pending' = T
  BY <1>2 DEF Pending
<1>9. ASSUME NEW q \in alive, NEW t \in Slot, q # p \/ t \notin Pending'
      PROVE  Wanted(q, t)' = Wanted(q, t)
  <2>0. q \in Procs
    BY DEF Inv
  <2>1. t \in UNION segs'[q] <=> t \in UNION segs[q]
    BY <1>2, <1>5, <1>8, <1>9, <2>0
  <2> QED
    BY <2>1 DEF Wanted
<1> QED
  BY <1>1, <1>6, <1>7, <1>9, BegunOK

LEMMA DeleteProcessStep ==
  ASSUME Inv, Settled, NEW p \in Procs, DeleteProcess(p)
  PROVE  Inv'
<1>1. /\ \A S \in segs[p] : Cardinality(S) = 1
      /\ Begun(p, "exit", {}, segs[p]) /\ "exit" \in Calls
      /\ segs' = [segs EXCEPT ![p] = {}]
  BY CallBegins DEF DeleteProcess, Settled, Call
<1>2. /\ p \in alive /\ alive' = alive
      /\ Parented(k', alive) /\ k'.pcb = k.pcb /\ k.pcb[p].valid
      /\ job'.call = "exit" /\ job'.proc = p /\ job'.from = Nil /\ job'.todo = {}
      /\ job'.left = segs[p] /\ job'.first = Nil
  BY <1>1 DEF Begun
<1>4. SegsOK
  BY DEF Inv
<1>5. /\ segs' \in [Procs -> SUBSET SUBSET Slot] /\ segs'[p] = {}
      /\ \A q \in Procs \ {p} : segs'[q] = segs[q]
  BY <1>1, <1>4 DEF SegsOK
<1>6. SegsOK'
  BY <1>2, <1>4, <1>5 DEF SegsOK
<1>7. JobOK'
  <2>1. job' \in Jobs
    <3>1. job' = [call |-> "exit", proc |-> p, from |-> Nil,
                  first |-> Nil, todo |-> {}, left |-> segs[p]]
      BY DEF DeleteProcess, Call
    <3> QED
      BY <1>4, <3>1 DEF Jobs, SegsOK
  <2>2. \A S \in segs[p] : \E t \in Slot : S = {t}
    BY <1>1, <1>4, OneTable DEF SegsOK
  <2> QED
    BY <1>2, <1>5, <2>1, <2>2 DEF JobOK
<1>8. Pending' = UNION segs[p]
  BY <1>2 DEF Pending
<1>9. ASSUME NEW q \in alive, NEW t \in Slot, q # p \/ t \notin Pending'
      PROVE  Wanted(q, t)' = Wanted(q, t)
  <2>0. q \in Procs
    BY DEF Inv
  <2>1. t \in UNION segs'[q] <=> t \in UNION segs[q]
    BY <1>2, <1>5, <1>8, <1>9, <2>0
  <2> QED
    BY <2>1 DEF Wanted
<1> QED
  BY <1>1, <1>6, <1>7, <1>9, BegunOK

LEMMA DisconnectStep ==
  ASSUME Inv, Settled, NEW p \in Procs, NEW T \in Interval, Disconnect(p, T)
  PROVE  Inv'
<1>1. /\ Ready /\ p \in alive /\ T \in segs[p] /\ Cardinality(T) = 1 /\ Fits(p, T)
      /\ segs' = [segs EXCEPT ![p] = @ \ {T}]
      /\ job' = [NoCall EXCEPT !.call = "disconnect", !.proc = p, !.first = Min(T),
                               !.todo = T]
      /\ k' = k /\ alive' = alive /\ lent' = lent /\ served' = served
  BY DEF Disconnect, Settled
<1>2. /\ job = NoCall /\ served = TRUE
      /\ Sound(k, alive, {}) /\ Parented(k, alive) /\ LockedFor(k, alive, lent)
      /\ \A q \in alive, t \in Slot : Reads(k, q, t) = Wanted(q, t)
  BY <1>1, AtRest
<1>3. PICK x \in Slot : T = {x} /\ Min(T) = x
  BY <1>1, IntervalIs, OneTable
<1>4. SegsOK /\ lent \subseteq alive /\ alive \subseteq Procs
      /\ ("exit" \notin Calls => Tight(k, alive))
  BY DEF Inv, LocksOK
<1>5. /\ segs' \in [Procs -> SUBSET SUBSET Slot] /\ segs'[p] = segs[p] \ {T}
      /\ \A q \in Procs \ {p} : segs'[q] = segs[q]
  BY <1>1, <1>4 DEF SegsOK
<1>6. SegsOK'
  BY <1>1, <1>4, <1>5 DEF SegsOK
<1>7. job' = [call |-> "disconnect", proc |-> p, from |-> Nil, first |-> x,
              todo |-> {x}, left |-> {}]
  BY <1>1, <1>3 DEF NoCall
<1>8. /\ job'.call = "disconnect" /\ job'.proc = p /\ job'.first = x /\ job'.todo = {x}
      /\ job'.left = {} /\ job' \in Jobs
  <2>1. /\ job'.call = "disconnect" /\ job'.proc = p /\ job'.first = x /\ job'.todo = {x}
        /\ job'.left = {}
    BY <1>7
  <2>2. job' \in Jobs
    BY <1>7 DEF Jobs
  <2> QED
    BY <2>1, <2>2
<1>9. k.empty # <<>> \/ Cell(k, p, x).status = "Present"
  <2> SUFFICES ASSUME k.empty = <<>>, Cell(k, p, x).status # "Present" PROVE FALSE
    OBVIOUS
  <2>1. k.pcb[p].valid /\ Cardinality({t \in T : L1(k, p, t).status # "Present"}) <= Len(k.empty)
    BY <1>1 DEF Fits
  <2>2. L1(k, p, x) = Cell(k, p, x)
    BY <1>1, <1>2, <2>1, L1Is DEF In
  <2>3. {t \in T : L1(k, p, t).status # "Present"} = {x}
    BY <1>3, <2>2
  <2>4. Cardinality({x}) = 1 /\ Len(k.empty) = 0
    BY FS_Singleton
  <2>5. Cardinality({x}) <= Len(k.empty)
    BY <2>1, <2>3, Zenon
  <2> QED
    BY <2>4, <2>5
<1>10. JobOK'
  <2>1. {x} \cap UNION segs'[p] = {}
    <3>1. \A S \in segs[p] : S # T => S \cap T = {}
      BY <1>1, <1>4 DEF SegsOK
    <3> QED
      BY <1>3, <1>5, <3>1
  <2>2. k.pcb[p].valid
    BY <1>1 DEF Fits
  <2> QED
    BY <1>1, <1>2, <1>8, <1>9, <2>1, <2>2 DEF JobOK
<1>11. Holding' = lent /\ Pending' = {x}
  BY <1>1, <1>8 DEF Holding, Pending
<1>12. LocksOK'
  BY <1>1, <1>2, <1>4, <1>11 DEF LocksOK
<1>13. ContentsOK'
  <2> SUFFICES ASSUME NEW q \in alive, NEW t \in Slot, q # p \/ t # x
               PROVE  Reads(k', q, t) = Wanted(q, t)'
    BY <1>1, <1>8, <1>11 DEF ContentsOK
  <2>0. q \in Procs
    BY <1>4
  <2>1. t \in UNION segs'[q] <=> t \in UNION segs[q]
    BY <1>3, <1>5, <2>0
  <2>2. Wanted(q, t)' = Wanted(q, t)
    BY <2>1 DEF Wanted
  <2> QED
    BY <1>1, <1>2, <2>2
<1> QED
  BY <1>1, <1>2, <1>4, <1>6, <1>8, <1>10, <1>12, <1>13 DEF Inv

LEMMA CloneProcessStep ==
  ASSUME Inv, Settled, NEW p \in Procs, NEW q \in Procs, CloneProcess(p, q)
  PROVE  Inv'
<1>1. /\ Ready /\ p \in alive /\ q \notin alive /\ k.pcb[p].valid
      /\ \E s \in LockMaster(k, p) : k' \in NewProcess(s, q, TRUE)
      /\ alive' = alive \cup {q}
      /\ segs' = [segs EXCEPT ![q] = segs[p]]
      /\ job' = [NoCall EXCEPT !.call = "clone", !.proc = q, !.from = p, !.left = segs[p]]
      /\ lent' = lent /\ served' = served
  BY DEF CloneProcess, Settled
<1>2. /\ job = NoCall /\ served = TRUE
      /\ Sound(k, alive, {}) /\ Parented(k, alive)
      /\ LockedFor(k, alive, lent)
      /\ \A r \in alive, t \in Slot : Reads(k, r, t) = Wanted(r, t)
  BY <1>1, AtRest
<1>3. /\ alive \in SUBSET Procs /\ SegsOK /\ lent \subseteq alive
      /\ "exit" \notin Calls => Tight(k, alive)
  BY DEF Inv, LocksOK
<1>4. PICK s, n, A, P : s = k /\ n = k' /\ A = alive /\ P = lent
  OBVIOUS
<1>5. PICK m \in LockMaster(s, p) : n \in NewProcess(m, q, TRUE)
  BY <1>1, <1>4
<1>6. /\ Alike(s, A, m) /\ LockedFor(m, A, P \cup {p})
      /\ \A r \in A, t \in Slot : Reads(m, r, t) = Reads(s, r, t)
  BY <1>1, <1>2, <1>3, <1>4, <1>5, LockMasterWorks
<1>7. /\ Sound(m, A, {}) /\ Parented(m, A) /\ m.pcb = s.pcb
      /\ Tight(s, A) => Tight(m, A)
  BY <1>2, <1>4, <1>6 DEF Alike
<1>8. Loose(m, A)
  BY <1>6, <1>7, LockedForLoose
<1>9. Created(m, A, q, TRUE, n)
  BY <1>1, <1>3, <1>4, <1>5, <1>7, <1>8, NewProcessWorks
<1>10. /\ Sound(n, A \cup {q}, {}) /\ Parented(n, A \cup {q}) /\ n.pcb[q].valid
       /\ \A f \in Frame : n.ft[f].locked <=> m.ft[f].locked \/ f = n.pcb[q].frame
       /\ \A r \in A : In(m, A, r) /\ m.ft[m.pcb[r].frame].locked => n.pcb[r] = m.pcb[r]
       /\ \A r \in A, t \in Slot : Reads(n, r, t) = Reads(m, r, t)
       /\ \A t \in Slot : Reads(n, q, t) = Table(Nil)
       /\ Tight(m, A) => Tight(n, A \cup {q})
  BY <1>9 DEF Created
<1>11. \A r \in P \cup {p} : n.pcb[r] = s.pcb[r] /\ In(n, A \cup {q}, r) /\ In(m, A, r)
  BY <1>6, <1>7, <1>10 DEF LockedFor, In
<1>12. LockedFor(n, A \cup {q}, P \cup {q, p})
  <2>1. In(n, A \cup {q}, q) /\ n.pcb[q].frame \in Frame
    BY <1>10 DEF In, Sound, MastersOK
  <2>2. \A r \in P \cup {p} : n.pcb[r].frame \in Frame /\ n.ft[n.pcb[r].frame].locked
    BY <1>6, <1>7, <1>10, <1>11 DEF LockedFor
  <2>3. \A f \in Frame : n.ft[f].locked => \E r \in P \cup {q, p} : f = n.pcb[r].frame
    BY <1>6, <1>7, <1>10, <1>11 DEF LockedFor
  <2>4. P \cup {q, p} \in SUBSET (A \cup {q})
    BY <1>1, <1>3, <1>4
  <2> QED
    BY <1>10, <1>11, <2>1, <2>2, <2>3, <2>4 DEF LockedFor
<1>13. /\ segs' \in [Procs -> SUBSET SUBSET Slot] /\ segs'[q] = segs[p]
       /\ \A r \in Procs \ {q} : segs'[r] = segs[r]
  BY <1>1, <1>3 DEF SegsOK
<1>14. p # q
  BY <1>1
<1>15. SegsOK'
  BY <1>1, <1>3, <1>13 DEF SegsOK
<1>16. job' = [call |-> "clone", proc |-> q, from |-> p, first |-> Nil,
               todo |-> {}, left |-> segs[p]]
  BY <1>1 DEF NoCall
<1>17. /\ job'.call = "clone" /\ job'.proc = q /\ job'.from = p /\ job'.todo = {}
       /\ job'.left = segs[p] /\ job' \in Jobs
  <2>1. /\ job'.call = "clone" /\ job'.proc = q /\ job'.from = p /\ job'.todo = {}
        /\ job'.left = segs[p]
    BY <1>16
  <2>2. job' \in Jobs
    BY <1>3, <1>16 DEF Jobs, SegsOK
  <2> QED
    BY <2>1, <2>2
<1>18. Pending' = UNION segs[p] /\ Holding' = lent \cup {q, p}
  BY <1>1, <1>17 DEF Pending, Holding
<1>19. JobOK'
  <2>1. k'.pcb[q].valid /\ k'.pcb[p].valid /\ Parented(k', alive')
    BY <1>1, <1>4, <1>10, <1>11
  <2>2. segs'[q] = segs'[p] /\ Pending' \subseteq UNION segs'[q] /\ {} \notin segs[p]
    BY <1>3, <1>13, <1>14, <1>18 DEF SegsOK
  <2>3. q \notin lent'
    BY <1>1, <1>3
  <2> QED
    BY <1>1, <1>14, <1>17, <2>1, <2>2, <2>3 DEF JobOK
<1>20. LocksOK'
  BY <1>1, <1>3, <1>4, <1>12, <1>18 DEF LocksOK
<1>21. ContentsOK'
  <2> SUFFICES ASSUME NEW r \in alive', NEW t \in Slot, r # q \/ t \notin Pending'
               PROVE  Reads(k', r, t) = Wanted(r, t)'
    BY <1>17 DEF ContentsOK
  <2>1. CASE r = q
    <3>1. Wanted(r, t)' = Table(Nil)
      BY <1>13, <1>18, <2>1 DEF Wanted
    <3> QED
      BY <1>4, <1>10, <2>1, <3>1
  <2>2. CASE r # q
    <3>1. r \in alive /\ Wanted(r, t)' = Wanted(r, t)
      BY <1>1, <1>3, <1>13, <2>2 DEF Wanted
    <3> QED
      BY <1>2, <1>4, <1>6, <1>10, <3>1
  <2> QED
    BY <2>1, <2>2
<1>22. Sound(k', alive', {}) /\ alive' \subseteq Procs /\ served' = TRUE
  BY <1>1, <1>2, <1>3, <1>4, <1>10
<1>23. "exit" \notin Calls => Tight(k', alive') /\ job'.call # "exit"
  BY <1>1, <1>3, <1>4, <1>7, <1>10, <1>17
<1> QED
  BY <1>15, <1>19, <1>20, <1>21, <1>22, <1>23 DEF Inv


------------------------------------------------------------------------------
(* Steps of a call.                                                        *)

LEMMA InCall ==
  ASSUME Inv, job.call # "none"
  PROVE  /\ alive \in SUBSET Procs /\ job.proc \in alive /\ In(k, alive, job.proc)
         /\ Sound(k, alive, {}) /\ Parented(k, alive) /\ Loose(k, alive)
         /\ LockedFor(k, alive, Holding)
         /\ job.todo \in SUBSET Slot /\ job.todo \in SUBSET Nat
         /\ job.todo # {} => Next1 \in job.todo /\ Next1 \in Slot
<1>1. /\ alive \in SUBSET Procs /\ job.proc \in alive /\ In(k, alive, job.proc)
      /\ Sound(k, alive, {}) /\ Parented(k, alive)
      /\ LockedFor(k, alive, Holding) /\ job \in Jobs
  BY DEF Inv, JobOK, LocksOK, In
<1>2. Loose(k, alive)
  BY <1>1, LockedForLoose
<1>3. job.todo \in SUBSET Slot /\ job.todo \in SUBSET Nat
  BY <1>1, NilApart DEF Jobs, Slot
<1>4. job.todo # {} => Next1 \in job.todo
  BY <1>3, MinOf DEF Next1
<1> QED
  BY <1>1, <1>2, <1>3, <1>4

\* The call has done one more page.
LEMMA DoneOK ==
  ASSUME Inv, job.call \in {"create", "delete", "disconnect", "exit", "clone"},
         job.todo # {}, NEW x, Table(x) = Wanted(job.proc, Next1),
         Done(k, alive, job.proc, Next1, x, Holding, k'),
         job' = [job EXCEPT !.todo = Rest],
         alive' = alive, segs' = segs, lent' = lent, served' = served
  PROVE  Inv'
<1>1. PICK p, t : p = job.proc /\ t = Next1
  OBVIOUS
<1>2. /\ alive \in SUBSET Procs /\ p \in alive
      /\ Sound(k, alive, {}) /\ job.todo \in SUBSET Slot /\ t \in job.todo /\ t \in Slot
  BY <1>1, InCall
<1>3. /\ Sound(k', alive, {}) /\ Parented(k', alive) /\ In(k', alive, p)
      /\ Reads(k', p, t) = Table(x)
      /\ \A q \in alive, u \in Slot : ~(q = p /\ u = t) => Reads(k', q, u) = Reads(k, q, u)
      /\ LockedFor(k', alive, Holding)
      /\ Tight(k, alive) => Tight(k', alive)
  BY <1>1 DEF Done
<1>4. job \in Jobs /\ JobOK /\ SegsOK
  BY DEF Inv, JobOK
<1>5. /\ job'.call = job.call /\ job'.proc = p /\ job'.from = job.from
      /\ job'.first = job.first /\ job'.todo = job.todo \ {t} /\ job'.left = job.left
  BY <1>1, <1>4 DEF Rest, Jobs
<1>6. job' \in Jobs
  <2>1. Rest \in SUBSET Slot
    BY <1>2 DEF Rest
  <2> QED
    BY <1>4, <2>1 DEF Jobs
<1>7. Holding' = Holding
  BY <1>1, <1>5 DEF Holding
<1>8. Pending = job.todo \cup UNION job.left /\ Pending' = (job.todo \ {t}) \cup UNION job.left
  BY <1>5 DEF Pending
<1>9. JobOK'
  <2>1. job'.call # "none" => /\ job'.proc \in alive' /\ k'.pcb[job'.proc].valid
                              /\ Parented(k', alive')
    BY <1>2, <1>3, <1>5 DEF In
  <2>2. job'.call \in {"create", "touch"} => job'.todo \subseteq UNION segs'[job'.proc]
    BY <1>1, <1>4, <1>5 DEF JobOK
  <2>3. job'.call \in {"delete", "disconnect", "exit"} => job'.todo = {}
    BY <1>2, <1>4, <1>5 DEF JobOK
  <2>4. job'.call \in {"create", "touch", "delete", "disconnect"} => job'.left = {}
    BY <1>4, <1>5 DEF JobOK
  <2>5. job'.call = "exit" =>
          segs'[job'.proc] = {} /\ \A S \in job'.left : \E u \in Slot : S = {u}
    BY <1>1, <1>4, <1>5 DEF JobOK
  <2>6. ASSUME job'.call = "clone"
        PROVE  /\ job'.from \in alive' /\ k'.pcb[job'.from].valid /\ job'.from # job'.proc
               /\ segs'[job'.proc] = segs'[job'.from]
               /\ Pending' \subseteq UNION segs'[job'.proc]
               /\ {} \notin job'.left /\ job'.proc \notin lent'
    <3>1. job.from \in Holding
      BY <1>5, <2>6 DEF Holding
    <3>2. In(k', alive, job.from)
      BY <1>3, <3>1 DEF LockedFor
    <3>3. /\ job.from # p /\ segs[p] = segs[job.from] /\ Pending \subseteq UNION segs[p]
          /\ {} \notin job.left /\ p \notin lent
      BY <1>1, <1>4, <1>5, <2>6 DEF JobOK
    <3>4. Pending' \subseteq Pending
      BY <1>8
    <3> QED
      BY <1>5, <3>2, <3>3, <3>4 DEF In
  <2>7. job'.call # "none"
    BY <1>5
  <2> QED
    BY <1>6, <2>1, <2>2, <2>3, <2>4, <2>5, <2>6, <2>7 DEF JobOK
<1>10. LocksOK'
  BY <1>3, <1>7 DEF Inv, LocksOK
<1>11. ContentsOK'
  <2> SUFFICES ASSUME NEW q \in alive, NEW u \in Slot, q # p \/ u \notin Pending'
               PROVE  Reads(k', q, u) = Wanted(q, u)'
    BY <1>5 DEF ContentsOK
  <2>1. Wanted(q, u)' = Wanted(q, u)
    BY DEF Wanted
  <2>2. CASE q = p /\ u = t
    BY <1>1, <1>3, <2>1, <2>2
  <2>3. CASE ~(q = p /\ u = t)
    <3>1. q # p \/ u \notin Pending
      BY <1>8, <2>3
    <3>2. Reads(k, q, u) = Wanted(q, u)
      BY <1>1, <3>1 DEF Inv, ContentsOK
    <3> QED
      BY <1>3, <2>1, <2>3, <3>2
  <2> QED
    BY <2>2, <2>3
<1>12. SegsOK'
  BY <1>4 DEF SegsOK
<1> QED
  BY <1>3, <1>5, <1>9, <1>10, <1>11, <1>12 DEF Inv

LEMMA CreatePageStep ==
  ASSUME Inv, Settled, CreatePage
  PROVE  Inv'
<1>1. PICK p, t : p = job.proc /\ t = Next1
  OBVIOUS
<1>2. job.call = "create" /\ job.todo # {}
  BY DEF CreatePage, Running
<1>3. /\ alive \in SUBSET Procs /\ p \in alive /\ In(k, alive, p)
      /\ Sound(k, alive, {}) /\ Parented(k, alive) /\ Loose(k, alive)
      /\ LockedFor(k, alive, Holding) /\ t \in job.todo /\ t \in Slot
  BY <1>1, <1>2, InCall
<1>4. k.ft[k.pcb[p].frame].locked
  BY <1>1, <1>2, <1>3 DEF Holding, LockedFor
<1>5. PICK s \in HaveTable(k, p, t, TRUE) :
        k' = IF s.wild THEN s
             ELSE LET f == L1(s, p, t).blk
                  IN  Unlock([s EXCEPT !.mem[f] = Table(<<p, t>>)], f)
  BY <1>1 DEF CreatePage
<1>6. Had(k, alive, p, t, TRUE, s)
  BY <1>3, <1>4, HaveTableWorks
<1>7. /\ Sound(s, alive, {}) /\ ~s.wild /\ s \in Spaces /\ In(s, alive, p)
      /\ Cell(s, p, t).blk \in Frame
  BY <1>6 DEF Had, Sound
<1>8. L1(s, p, t) = Cell(s, p, t)
  BY <1>3, <1>7, L1Is
<1>9. PICK f \in Frame : f = Cell(s, p, t).blk
  BY <1>7
<1>10. k' = Unlock(Writing(s, f, <<p, t>>), f)
  BY <1>5, <1>7, <1>8, <1>9 DEF Writing
<1>11. <<p, t>> \in (Procs \X Slot) \cup {Nil}
  BY <1>3
<1>12. Marked(s, Cell(s, p, t).blk, <<p, t>>, k')
  BY <1>7, <1>9, <1>10, <1>11, MarkedIs
<1>13. Done(k, alive, p, t, <<p, t>>, Holding, k')
  BY <1>3, <1>6, <1>11, <1>12, PageDone
<1>14. Table(<<p, t>>) = Wanted(p, t)
  BY <1>1, <1>2, <1>3 DEF Inv, JobOK, Wanted
<1>15. /\ job' = [job EXCEPT !.todo = Rest]
       /\ alive' = alive /\ segs' = segs /\ lent' = lent /\ served' = served
  BY DEF CreatePage
<1> QED
  BY <1>1, <1>2, <1>13, <1>14, <1>15, DoneOK


LEMMA DeletePageStep ==
  ASSUME Inv, Settled, DeletePage
  PROVE  Inv'
<1>1. PICK p, t : p = job.proc /\ t = Next1
  OBVIOUS
<1>2. job.call \in {"delete", "disconnect", "exit"} /\ job.todo # {}
  BY DEF DeletePage
<1>3. /\ alive \in SUBSET Procs /\ p \in alive /\ In(k, alive, p)
      /\ Sound(k, alive, {}) /\ Parented(k, alive) /\ Loose(k, alive)
      /\ LockedFor(k, alive, Holding) /\ t \in job.todo /\ t \in Slot
  BY <1>1, <1>2, InCall
<1>4. job.first = t /\ t \notin UNION segs[p]
  BY <1>1, <1>2, <1>3 DEF Inv, JobOK
<1>5. \/ k.ft[k.pcb[p].frame].locked
      \/ k.empty # <<>>
      \/ Cell(k, p, t).status = "Present"
  <2>1. CASE job.call = "disconnect"
    BY <1>1, <1>2, <1>4, <2>1 DEF Inv, JobOK
  <2>2. CASE job.call \in {"delete", "exit"}
    BY <1>1, <1>3, <2>2 DEF Holding, LockedFor
  <2> QED
    BY <1>2, <2>1, <2>2
<1>6. PICK s \in HaveTable(k, p, t, TRUE) :
        k' = IF s.wild THEN s
             ELSE LET e == L1(s, p, t)
                      n == Unlock(s, L1(s, p, t).blk)
                  IN  IF e.status = "Present" THEN [n EXCEPT !.mem[e.blk] = Table(Nil)]
                      ELSE [n EXCEPT !.wild = TRUE]
  BY <1>1, <1>4 DEF DeletePage
<1>7. Had(k, alive, p, t, TRUE, s)
  BY <1>3, <1>5, HaveTableWorks
<1>8. /\ Sound(s, alive, {}) /\ ~s.wild /\ s \in Spaces /\ In(s, alive, p)
      /\ Cell(s, p, t).blk \in Frame /\ Cell(s, p, t).status = "Present"
  BY <1>7 DEF Had, Sound
<1>9. L1(s, p, t) = Cell(s, p, t)
  BY <1>3, <1>8, L1Is
<1>10. PICK f \in Frame : f = Cell(s, p, t).blk
  BY <1>8
<1>11. k' = Writing(Unlock(s, f), f, Nil)
  BY <1>6, <1>8, <1>9, <1>10 DEF Writing
<1>12. Marked(s, Cell(s, p, t).blk, Nil, k')
  BY <1>8, <1>10, <1>11, MarkedIs
<1>13. Done(k, alive, p, t, Nil, Holding, k')
  BY <1>3, <1>7, <1>12, PageDone
<1>14. Table(Nil) = Wanted(p, t)
  BY <1>4 DEF Wanted
<1>15. /\ job' = [job EXCEPT !.todo = Rest]
       /\ alive' = alive /\ segs' = segs /\ lent' = lent /\ served' = served
  BY DEF DeletePage
<1> QED
  BY <1>1, <1>2, <1>13, <1>14, <1>15, DoneOK


LEMMA ServeStep ==
  ASSUME Inv, Settled, Serve
  PROVE  Inv'
<1>1. PICK p, t : p = job.proc /\ t = Next1
  OBVIOUS
<1>2. job.call = "touch" /\ job.todo # {}
  BY DEF Serve, Running
<1>3. /\ alive \in SUBSET Procs /\ p \in alive /\ In(k, alive, p)
      /\ Sound(k, alive, {}) /\ Parented(k, alive) /\ Loose(k, alive)
      /\ LockedFor(k, alive, Holding) /\ t \in job.todo /\ t \in Slot
  BY <1>1, <1>2, InCall
<1>4. k.ft[k.pcb[p].frame].locked
  BY <1>1, <1>2, <1>3 DEF Holding, LockedFor
<1>5. Pending = {} /\ \A q \in alive, u \in Slot : Reads(k, q, u) = Wanted(q, u)
  <2>1. Pending = {}
    BY <1>2 DEF Pending
  <2> QED
    BY <2>1 DEF Inv, ContentsOK
<1>6. Reads(k, p, t) = Table(<<p, t>>)
  <2>1. t \in UNION segs[p]
    BY <1>1, <1>2, <1>3 DEF Inv, JobOK
  <2> QED
    BY <1>3, <1>5, <2>1 DEF Wanted
<1>7. ~Astray(k, p, t) /\ L1(k, p, t).status # "Unused"
  <2>1. L1(k, p, t) = Cell(k, p, t) /\ ~Astray(k, p, t)
    BY <1>3, L1Is
  <2>2. ASSUME Cell(k, p, t).status = "Unused"
        PROVE  FALSE
    <3>1. Reads(k, p, t) = Table(Nil)
      BY <2>2 DEF Reads, Leads
    <3>2. <<p, t>> = Nil
      BY <1>6, <3>1 DEF Table
    <3> QED
      BY <1>3, <3>2, NilAssumption
  <2> QED
    BY <2>1, <2>2
<1>8. PICK s \in HaveTable(k, p, t, FALSE) :
        k' = s /\ served' = (s.wild \/ s.mem[L1(s, p, t).blk] = Table(<<p, t>>))
  BY <1>1, <1>7 DEF Serve
<1>9. Had(k, alive, p, t, FALSE, s)
  BY <1>3, <1>4, HaveTableWorks
<1>10. /\ Sound(s, alive, {}) /\ Parented(s, alive) /\ In(s, alive, p)
       /\ Cell(s, p, t).status = "Present"
       /\ \A f \in Frame : s.ft[f].locked <=> k.ft[f].locked
       /\ \A q \in alive, u \in Slot : Reads(s, q, u) = Reads(k, q, u)
       /\ \A q \in alive : In(k, alive, q) /\ k.ft[k.pcb[q].frame].locked =>
                             s.pcb[q] = k.pcb[q]
       /\ Tight(k, alive) => Tight(s, alive)
  BY <1>9 DEF Had
<1>11. served' = TRUE
  <2>1. L1(s, p, t) = Cell(s, p, t)
    BY <1>3, <1>10, L1Is
  <2>2. Reads(s, p, t) = s.mem[Cell(s, p, t).blk]
    BY <1>10 DEF Reads, Leads
  <2>3. s.mem[L1(s, p, t).blk] = Table(<<p, t>>)
    BY <1>3, <1>6, <1>10, <2>1, <2>2
  <2> QED
    BY <1>8, <2>3
<1>12. LockedFor(s, alive, Holding)
  <2>1. /\ \A q \in Holding : /\ q \in alive /\ In(k, alive, q) /\ k.pcb[q].frame \in Frame
                              /\ k.ft[k.pcb[q].frame].locked
        /\ \A f \in Frame : k.ft[f].locked => \E q \in Holding : f = k.pcb[q].frame
        /\ Holding \in SUBSET alive
    BY <1>3 DEF LockedFor
  <2>2. \A q \in Holding : s.pcb[q] = k.pcb[q] /\ In(s, alive, q)
    BY <1>10, <2>1 DEF In
  <2> QED
    BY <1>10, <2>1, <2>2 DEF LockedFor
<1>13. job \in Jobs /\ JobOK /\ SegsOK
  BY DEF Inv, JobOK
<1>14. /\ job' = [job EXCEPT !.todo = {}]
       /\ alive' = alive /\ segs' = segs /\ lent' = lent
  BY DEF Serve
<1>15. /\ job'.call = "touch" /\ job'.proc = p /\ job'.from = job.from
       /\ job'.todo = {} /\ job'.left = {}
  BY <1>1, <1>2, <1>13, <1>14 DEF Jobs, JobOK
<1>16. job' \in Jobs
  BY <1>13, <1>14 DEF Jobs
<1>17. JobOK'
  BY <1>3, <1>8, <1>10, <1>14, <1>15, <1>16 DEF JobOK, In
<1>18. LocksOK'
  <2>1. Holding' = Holding
    BY <1>1, <1>2, <1>14, <1>15 DEF Holding
  <2> QED
    BY <1>8, <1>12, <1>14, <2>1 DEF Inv, LocksOK
<1>19. ContentsOK'
  <2>1. \A q \in alive, u \in Slot : Wanted(q, u)' = Wanted(q, u)
    BY <1>14 DEF Wanted
  <2> QED
    BY <1>5, <1>8, <1>10, <1>14, <2>1 DEF ContentsOK
<1>20. SegsOK'
  BY <1>13, <1>14 DEF SegsOK
<1> QED
  BY <1>3, <1>8, <1>10, <1>11, <1>14, <1>15, <1>17, <1>18, <1>19, <1>20 DEF Inv


\* The page table of a process whose master table is locked, with another page
\* table locked: both are in memory.
Both(s, A, p, r, t, P, n) ==
  /\ Sound(n, A, {}) /\ Parented(n, A) /\ In(n, A, p) /\ In(n, A, r)
  /\ Cell(n, p, t).status = "Present" /\ Cell(n, r, t).status = "Present"
  /\ Cell(n, p, t).blk \in Frame /\ Cell(n, r, t).blk \in Frame
  /\ n.ft[Cell(n, p, t).blk].type = "PageTable" /\ n.ft[Cell(n, r, t).blk].type = "PageTable"
  /\ \A f \in Frame :
       n.ft[f].locked <=>
         s.ft[f].locked \/ f = Cell(n, p, t).blk \/ f = Cell(n, r, t).blk
  /\ \A q \in A, u \in Slot : Reads(n, q, u) = Reads(s, q, u)
  /\ \A q \in P : n.pcb[q] = s.pcb[q]
  /\ Tight(s, A) => Tight(n, A)

LEMMA FirstOfTwo ==
  ASSUME NEW s, NEW A \in SUBSET Procs, Sound(s, A, {}), NEW P, LockedFor(s, A, P),
         NEW p \in P, NEW t \in Slot, NEW d, Had(s, A, p, t, TRUE, d)
  PROVE  /\ Loose(d, A) /\ \A q \in P : /\ d.pcb[q] = s.pcb[q] /\ In(d, A, q)
                                        /\ d.ft[d.pcb[q].frame].locked
         /\ d.ft[Cell(d, p, t).blk].locked
<1>1. /\ \A q \in P : /\ q \in A /\ In(s, A, q) /\ s.pcb[q].frame \in Frame
                      /\ s.ft[s.pcb[q].frame].locked
      /\ \A f \in Frame : s.ft[f].locked => \E q \in P : f = s.pcb[q].frame
  BY DEF LockedFor
<1>2. PICK f : f = Cell(d, p, t).blk
  OBVIOUS
<1>3. /\ Sound(d, A, {}) /\ f \in Frame /\ d.ft[f].owner = <<d.pcb[p].frame, t>>
      /\ \A g \in Frame : d.ft[g].locked <=> s.ft[g].locked \/ g = f
      /\ \A q \in A : In(s, A, q) /\ s.ft[s.pcb[q].frame].locked => d.pcb[q] = s.pcb[q]
  BY <1>2 DEF Had
<1>4. \A q \in P : /\ d.pcb[q] = s.pcb[q] /\ In(d, A, q)
                   /\ d.ft[d.pcb[q].frame].locked
  <2>1. \A q \in P : d.pcb[q] = s.pcb[q]
    BY <1>1, <1>3
  <2> QED
    BY <1>1, <1>3, <2>1 DEF In
<1>5. \A g \in Frame : d.ft[g].locked /\ d.ft[g].type = "PageTable" => g = f
  <2> SUFFICES ASSUME NEW g \in Frame, s.ft[g].locked, d.ft[g].type = "PageTable"
               PROVE  FALSE
    BY <1>3
  <2>1. PICK q \in P : g = s.pcb[q].frame
    BY <1>1
  <2>2. In(d, A, q) /\ d.pcb[q].frame = g /\ q \in A
    BY <1>1, <1>4, <2>1
  <2> QED
    BY <1>3, <2>2 DEF Sound, MastersOK
<1>6. d.ft[d.ft[f].owner[1]].locked
  BY <1>3, <1>4
<1>7. Loose(d, A)
  BY <1>3, <1>5, <1>6, LooseIf
<1> QED
  BY <1>2, <1>3, <1>4, <1>7

LEMMA BothWork ==
  ASSUME NEW s, NEW A \in SUBSET Procs, Sound(s, A, {}), NEW P, LockedFor(s, A, P),
         NEW p \in P, NEW r \in P, p # r, NEW t \in Slot,
         NEW d, Had(s, A, p, t, TRUE, d), NEW n, Had(d, A, r, t, TRUE, n)
  PROVE  Both(s, A, p, r, t, P, n)
<1>1. /\ \A q \in P : /\ d.pcb[q] = s.pcb[q] /\ In(d, A, q)
                      /\ d.ft[d.pcb[q].frame].locked
      /\ d.ft[Cell(d, p, t).blk].locked
  BY FirstOfTwo
<1>2. P \in SUBSET A /\ p \in A /\ r \in A
  BY DEF LockedFor
<1>3. /\ \A f \in Frame : d.ft[f].locked <=> s.ft[f].locked \/ f = Cell(d, p, t).blk
      /\ Cell(d, p, t).status = "Present"
      /\ \A q \in A, u \in Slot : Reads(d, q, u) = Reads(s, q, u)
      /\ Tight(s, A) => Tight(d, A)
  BY DEF Had
<1>4. /\ Sound(n, A, {}) /\ Parented(n, A) /\ In(n, A, r)
      /\ Cell(n, r, t).status = "Present" /\ Cell(n, r, t).blk \in Frame
      /\ n.ft[Cell(n, r, t).blk].type = "PageTable"
      /\ \A f \in Frame : n.ft[f].locked <=> d.ft[f].locked \/ f = Cell(n, r, t).blk
      /\ \A q \in A, u \in Slot : Reads(n, q, u) = Reads(d, q, u)
      /\ \A q \in A : In(d, A, q) /\ d.ft[d.pcb[q].frame].locked => n.pcb[q] = d.pcb[q]
      /\ \A q \in A, u \in Slot :
           In(d, A, q) /\ In(n, A, q) =>
             \/ Cell(n, q, u) = Cell(d, q, u)
             \/ Cell(d, q, u).status = "Present" /\ ~d.ft[Cell(d, q, u).blk].locked
             \/ q = r /\ u = t /\ Cell(d, q, u).status # "Present"
      /\ Tight(d, A) => Tight(n, A)
  BY DEF Had
<1>5. \A q \in P : n.pcb[q] = d.pcb[q] /\ n.pcb[q] = s.pcb[q]
  BY <1>1, <1>2, <1>4
<1>6. In(n, A, p)
  BY <1>1, <1>2, <1>5 DEF In
<1>7. Cell(n, p, t) = Cell(d, p, t)
  BY <1>1, <1>2, <1>4, <1>6
<1>8. TableAt(n, A, p, t, Cell(n, p, t).blk)
  BY <1>2, <1>3, <1>4, <1>7, PresentIs
<1>9. Cell(n, p, t).blk \in Frame /\ n.ft[Cell(n, p, t).blk].type = "PageTable"
  BY <1>8 DEF TableAt
<1>10. \A f \in Frame :
         n.ft[f].locked <=>
           s.ft[f].locked \/ f = Cell(n, p, t).blk \/ f = Cell(n, r, t).blk
  BY <1>3, <1>4, <1>7
<1>11. \A q \in A, u \in Slot : Reads(n, q, u) = Reads(s, q, u)
  BY <1>3, <1>4
<1> QED
  BY <1>3, <1>4, <1>5, <1>6, <1>7, <1>9, <1>10, <1>11 DEF Both


\* The first table describes page x, then both are unlocked.
LEMMA TwoUnlocked ==
  ASSUME NEW s, NEW A \in SUBSET Procs, Sound(s, A, {}), NEW P, LockedFor(s, A, P),
         NEW p \in A, NEW r \in A, NEW t \in Slot, NEW m, Both(s, A, p, r, t, P, m),
         NEW x \in (Procs \X Slot) \cup {Nil}, NEW n,
         n = Unlock(Unlock(Writing(m, Cell(m, p, t).blk, x), Cell(m, r, t).blk),
                    Cell(m, p, t).blk)
  PROVE  Done(s, A, p, t, x, P, n)
<1>1. PICK f, g : f = Cell(m, p, t).blk /\ g = Cell(m, r, t).blk
  OBVIOUS
<1>2. /\ Sound(m, A, {}) /\ Parented(m, A) /\ In(m, A, p)
      /\ Cell(m, p, t).status = "Present" /\ f \in Frame /\ g \in Frame
      /\ m.ft[f].type = "PageTable" /\ m.ft[g].type = "PageTable"
      /\ \A h \in Frame : m.ft[h].locked <=> s.ft[h].locked \/ h = f \/ h = g
      /\ \A q \in A, u \in Slot : Reads(m, q, u) = Reads(s, q, u)
      /\ \A q \in P : m.pcb[q] = s.pcb[q]
      /\ Tight(s, A) => Tight(m, A)
      /\ m \in Spaces
  BY <1>1 DEF Both, Sound
<1>3. PICK a, b : a = Writing(m, f, x) /\ b = Locking(a, g, FALSE)
  OBVIOUS
<1>4. n = Locking(b, f, FALSE)
  BY <1>1, <1>3 DEF Unlock, Locking
<1>5. Written(m, f, x, a)
  BY <1>2, <1>3, WrittenIs
<1>6. Changed(m, A, p, t, x, a) /\ a \in Spaces /\ a.ft = m.ft
  <2>1. Written(m, Cell(m, p, t).blk, x, a)
    BY <1>1, <1>5
  <2>2. Changed(m, A, p, t, x, a)
    BY <1>2, <2>1, WrittenWorks
  <2> QED
    BY <1>5, <2>2 DEF Written
<1>7. LockSet(a, g, FALSE, b) /\ b \in Spaces
  <2>1. LockSet(a, g, FALSE, b)
    BY <1>2, <1>3, <1>6, LockIs
  <2> QED
    BY <2>1 DEF LockSet, Relock
<1>8. LockSet(b, f, FALSE, n)
  BY <1>2, <1>4, <1>7, LockIs
<1>9. Relock(a, n) /\ \A h \in Frame : n.ft[h].locked <=> m.ft[h].locked /\ h # f /\ h # g
  <2>1. Relock(a, n)
    BY <1>7, <1>8 DEF LockSet, Relock
  <2>2. \A h \in Frame : a.ft[h] = m.ft[h]
    BY <1>6
  <2>3. b.ft[g].locked = FALSE /\ \A h \in Frame \ {g} : b.ft[h].locked = a.ft[h].locked
    BY <1>7 DEF LockSet
  <2>4. n.ft[f].locked = FALSE /\ \A h \in Frame \ {f} : n.ft[h].locked = b.ft[h].locked
    BY <1>8 DEF LockSet
  <2> QED
    BY <2>1, <2>2, <2>3, <2>4
<1>10. /\ Alike(m, A, a) /\ Reads(a, p, t) = Table(x) /\ Sound(a, A, {})
       /\ \A q \in A, u \in Slot : ~(q = p /\ u = t) => Reads(a, q, u) = Reads(m, q, u)
  BY <1>6 DEF Changed, Alike
<1>11. \A h \in Frame : n.ft[h].locked => InUse(a, A, h)
  BY <1>6, <1>9, <1>10 DEF Sound, FramesOK
<1>12. Alike(a, A, n) /\ \A q \in A, u \in Slot : Reads(n, q, u) = Reads(a, q, u)
  BY <1>9, <1>10, <1>11, RelockWorks
<1>13. Sound(n, A, {}) /\ Parented(n, A) /\ n.pcb = m.pcb /\ (Tight(m, A) => Tight(n, A))
  BY <1>2, <1>10, <1>12 DEF Alike
<1>14. /\ \A q \in P : /\ q \in A /\ In(s, A, q) /\ s.pcb[q].frame \in Frame
                       /\ s.ft[s.pcb[q].frame].locked
       /\ \A h \in Frame : s.ft[h].locked => \E q \in P : h = s.pcb[q].frame
       /\ P \in SUBSET A
  BY DEF LockedFor
<1>15. \A q \in P : n.pcb[q] = s.pcb[q] /\ m.pcb[q] = s.pcb[q] /\ In(n, A, q) /\ In(m, A, q)
  BY <1>2, <1>13, <1>14 DEF In
<1>16. \A q \in P : s.pcb[q].frame # f /\ s.pcb[q].frame # g
  <2>1. MastersOK(m, A)
    BY <1>2 DEF Sound
  <2>2. ASSUME NEW q \in P PROVE m.ft[s.pcb[q].frame].type = "SegTable"
    <3>1. q \in A /\ In(m, A, q) /\ m.pcb[q] = s.pcb[q]
      BY <1>14, <1>15
    <3> QED
      BY <2>1, <3>1 DEF MastersOK
  <2> QED
    BY <1>2, <2>2
<1>17. LockedFor(n, A, P)
  <2>1. \A h \in Frame : n.ft[h].locked <=> s.ft[h].locked /\ h # f /\ h # g
    BY <1>2, <1>9
  <2>2. \A q \in P : n.pcb[q].frame \in Frame /\ n.ft[n.pcb[q].frame].locked
    BY <1>14, <1>15, <1>16, <2>1
  <2>3. \A h \in Frame : n.ft[h].locked => \E q \in P : h = n.pcb[q].frame
    BY <1>14, <1>15, <2>1
  <2> QED
    BY <1>14, <1>15, <2>2, <2>3 DEF LockedFor
<1>18. In(n, A, p)
  BY <1>2, <1>13 DEF In
<1>19. /\ Reads(n, p, t) = Table(x)
       /\ \A q \in A, u \in Slot : ~(q = p /\ u = t) => Reads(n, q, u) = Reads(s, q, u)
  BY <1>2, <1>10, <1>12
<1> QED
  BY <1>2, <1>13, <1>15, <1>17, <1>18, <1>19 DEF Done

LEMMA ClonePageStep ==
  ASSUME Inv, Settled, ClonePage
  PROVE  Inv'
<1>1. PICK p, r, t : p = job.proc /\ r = job.from /\ t = Next1
  OBVIOUS
<1>2. job.call = "clone" /\ job.todo # {}
  BY DEF ClonePage, Running
<1>3. /\ alive \in SUBSET Procs /\ p \in alive /\ In(k, alive, p)
      /\ Sound(k, alive, {}) /\ Parented(k, alive) /\ Loose(k, alive)
      /\ LockedFor(k, alive, Holding) /\ t \in job.todo /\ t \in Slot
  BY <1>1, <1>2, InCall
<1>4. /\ r \in alive /\ p # r /\ segs[p] = segs[r] /\ Pending \subseteq UNION segs[p]
      /\ p \in Holding /\ r \in Holding
  BY <1>1, <1>2 DEF Inv, JobOK, Holding
<1>5. t \in UNION segs[p] /\ t \in UNION segs[r]
  <2>1. t \in Pending
    BY <1>2, <1>3 DEF Pending
  <2> QED
    BY <1>4, <2>1
<1>6. Reads(k, r, t) = Table(<<r, t>>)
  <2>1. Reads(k, r, t) = Wanted(r, t)
    BY <1>1, <1>3, <1>4 DEF Inv, ContentsOK
  <2> QED
    BY <1>5, <2>1 DEF Wanted
<1>7. k.ft[k.pcb[p].frame].locked
  BY <1>3, <1>4 DEF LockedFor
<1>8. PICK d \in HaveTable(k, p, t, TRUE) :
        LET lost == d.wild \/ Astray(d, r, t) \/ L1(d, r, t).status = "Unused"
        IN  \E s \in (IF lost THEN {[d EXCEPT !.wild = TRUE]} ELSE HaveTable(d, r, t, TRUE)) :
              LET to   == L1(s, p, t).blk
                  from == L1(s, r, t).blk
              IN  k' = IF s.wild THEN s
                       ELSE Unlock(Unlock([s EXCEPT !.mem[to] =
                              Table(Copied(s.mem[from].page, p))], from), to)
  BY <1>1 DEF ClonePage
<1>9. Had(k, alive, p, t, TRUE, d)
  BY <1>3, <1>7, HaveTableWorks
<1>10. /\ Sound(d, alive, {}) /\ Parented(d, alive) /\ ~d.wild
       /\ Reads(d, r, t) = Table(<<r, t>>)
  BY <1>3, <1>4, <1>6, <1>9 DEF Had, Sound
<1>11. Loose(d, alive) /\ In(d, alive, r) /\ d.ft[d.pcb[r].frame].locked
  BY <1>3, <1>4, <1>9, FirstOfTwo
<1>12. ~Astray(d, r, t) /\ L1(d, r, t).status # "Unused"
  <2>1. L1(d, r, t) = Cell(d, r, t) /\ ~Astray(d, r, t)
    BY <1>3, <1>4, <1>10, <1>11, L1Is
  <2>2. ASSUME Cell(d, r, t).status = "Unused"
        PROVE  FALSE
    <3>1. Reads(d, r, t) = Table(Nil)
      BY <2>2 DEF Reads, Leads
    <3>2. <<r, t>> = Nil
      BY <1>10, <3>1 DEF Table
    <3> QED
      BY <1>3, <1>4, <3>2, NilAssumption
  <2> QED
    BY <2>1, <2>2
<1>13. PICK s \in HaveTable(d, r, t, TRUE) :
         k' = IF s.wild THEN s
              ELSE Unlock(Unlock([s EXCEPT !.mem[L1(s, p, t).blk] =
                     Table(Copied(s.mem[L1(s, r, t).blk].page, p))], L1(s, r, t).blk),
                     L1(s, p, t).blk)
  BY <1>8, <1>10, <1>12
<1>14. Had(d, alive, r, t, TRUE, s)
  BY <1>3, <1>4, <1>10, <1>11, HaveTableWorks
<1>15. Both(k, alive, p, r, t, Holding, s)
  BY <1>3, <1>4, <1>9, <1>14, BothWork
<1>16. /\ Sound(s, alive, {}) /\ ~s.wild /\ In(s, alive, p) /\ In(s, alive, r)
       /\ Cell(s, r, t).status = "Present" /\ Reads(s, r, t) = Table(<<r, t>>)
  BY <1>3, <1>4, <1>6, <1>15 DEF Both, Sound
<1>17. L1(s, p, t) = Cell(s, p, t) /\ L1(s, r, t) = Cell(s, r, t)
  BY <1>3, <1>4, <1>16, L1Is
<1>18. Copied(s.mem[Cell(s, r, t).blk].page, p) = <<p, t>>
  <2>1. s.mem[Cell(s, r, t).blk] = Table(<<r, t>>)
    BY <1>16 DEF Reads, Leads
  <2>2. Table(<<r, t>>).page = <<r, t>>
    BY DEF Table
  <2>3. <<r, t>> # Nil
    BY <1>3, <1>4, NilAssumption
  <2> QED
    BY <2>1, <2>2, <2>3 DEF Copied
<1>19. k' = Unlock(Unlock(Writing(s, Cell(s, p, t).blk, <<p, t>>), Cell(s, r, t).blk),
                   Cell(s, p, t).blk)
  BY <1>13, <1>16, <1>17, <1>18 DEF Writing
<1>20. <<p, t>> \in (Procs \X Slot) \cup {Nil}
  BY <1>3
<1>21. Done(k, alive, p, t, <<p, t>>, Holding, k')
  BY <1>3, <1>4, <1>15, <1>19, <1>20, TwoUnlocked
<1>22. Table(<<p, t>>) = Wanted(p, t)
  BY <1>5 DEF Wanted
<1>23. /\ job' = [job EXCEPT !.todo = Rest]
       /\ alive' = alive /\ segs' = segs /\ lent' = lent /\ served' = served
  BY DEF ClonePage
<1> QED
  BY <1>1, <1>2, <1>21, <1>22, <1>23, DoneOK


LEMMA NextSegmentStep ==
  ASSUME Inv, Settled, NextSegment
  PROVE  Inv'
<1>1. PICK p, T : p = job.proc /\ T \in job.left /\
        job' = [job EXCEPT !.first = Min(T), !.todo = T, !.left = job.left \ {T}]
  BY DEF NextSegment
<1>2. /\ job.call \in {"exit", "clone"} /\ job.todo = {}
      /\ k' = k /\ alive' = alive /\ segs' = segs /\ lent' = lent /\ served' = served
  BY DEF NextSegment
<1>3. job \in Jobs /\ JobOK /\ SegsOK
  BY DEF Inv, JobOK
<1>4. T \in SUBSET Slot /\ T \in SUBSET Nat /\ job.left \in SUBSET SUBSET Slot
  BY <1>1, <1>3, NilApart DEF Jobs, Slot
<1>5. job.call = "exit" => \E u \in Slot : T = {u}
  BY <1>1, <1>3 DEF JobOK
<1>6. job.call = "clone" => {} \notin job.left
  BY <1>3 DEF JobOK
<1>7. T # {}
  BY <1>1, <1>2, <1>5, <1>6
<1>8. PICK f : f = Min(T)
  OBVIOUS
<1>9. f \in T /\ f \in Slot
  BY <1>4, <1>7, <1>8, MinOf
<1>10. /\ job'.call = job.call /\ job'.proc = p /\ job'.from = job.from
       /\ job'.first = f /\ job'.todo = T /\ job'.left = job.left \ {T}
  BY <1>1, <1>3, <1>8 DEF Jobs
<1>11. job' \in Jobs
  <2>1. job.left \ {T} \in SUBSET SUBSET Slot
    BY <1>4
  <2> QED
    BY <1>1, <1>3, <1>4, <1>8, <1>9, <2>1 DEF Jobs
<1>12. Pending = UNION job.left /\ Pending' = Pending
  <2>1. Pending = UNION job.left
    BY <1>2 DEF Pending
  <2>2. Pending' = T \cup UNION (job.left \ {T})
    BY <1>2, <1>10 DEF Pending
  <2> QED
    BY <1>1, <2>1, <2>2
<1>13. Holding' = Holding
  BY <1>1, <1>2, <1>10 DEF Holding
<1>14. JobOK'
  <2>1. /\ job'.proc \in alive' /\ k'.pcb[job'.proc].valid
        /\ Parented(k', alive')
    BY <1>1, <1>2, <1>3, <1>10 DEF JobOK
  <2>2. ASSUME job'.call = "exit"
        PROVE  /\ job'.first \in Slot /\ job'.todo = {job'.first}
               /\ segs'[job'.proc] = {} /\ job'.todo \cap UNION segs'[job'.proc] = {}
               /\ \A S \in job'.left : \E t \in Slot : S = {t}
    <3>1. segs'[job'.proc] = {} /\ \A S \in job'.left : \E t \in Slot : S = {t}
      BY <1>1, <1>2, <1>3, <1>10, <2>2 DEF JobOK
    <3>2. T = {f}
      BY <1>5, <1>9, <1>10, <2>2
    <3>3. T \cap UNION segs'[job'.proc] = {}
      BY <3>1
    <3> QED
      BY <1>9, <1>10, <3>1, <3>2, <3>3
  <2>3. ASSUME job'.call = "clone"
        PROVE  /\ job'.from \in alive' /\ k'.pcb[job'.from].valid /\ job'.from # job'.proc
               /\ segs'[job'.proc] = segs'[job'.from]
               /\ Pending' \subseteq UNION segs'[job'.proc]
               /\ {} \notin job'.left /\ job'.proc \notin lent'
    BY <1>1, <1>2, <1>3, <1>10, <1>12, <2>3 DEF JobOK
  <2>4. job'.call \in {"exit", "clone"}
    BY <1>2, <1>10
  <2> QED
    BY <1>11, <2>1, <2>2, <2>3, <2>4 DEF JobOK
<1>15. LocksOK'
  BY <1>2, <1>13 DEF Inv, LocksOK
<1>16. ContentsOK'
  <2>1. \A q \in alive, u \in Slot : Wanted(q, u)' = Wanted(q, u)
    BY <1>2 DEF Wanted
  <2> QED
    BY <1>1, <1>2, <1>10, <1>12, <2>1 DEF Inv, ContentsOK
<1>17. SegsOK'
  BY <1>2, <1>3 DEF SegsOK
<1> QED
  BY <1>2, <1>10, <1>14, <1>15, <1>16, <1>17 DEF Inv


------------------------------------------------------------------------------
(* Steps that end a call.                                                  *)

LEMMA EntryUnlocked ==
  \A x, y, l, d : [Entry(x, y, l) EXCEPT !.locked = d] = Entry(x, y, d)
BY DEF Entry

\* A master table is unlocked.
LEMMA UnlockMasterWorks ==
  ASSUME NEW s, NEW A \in SUBSET Procs, Sound(s, A, {}), NEW P, LockedFor(s, A, P),
         NEW p \in P, NEW n, n = Locking(s, s.pcb[p].frame, FALSE)
  PROVE  /\ LockSet(s, s.pcb[p].frame, FALSE, n) /\ LockedFor(n, A, P \ {p})
         /\ \A f \in Frame : n.ft[f].locked => InUse(s, A, f)
<1>1. PICK f : f = s.pcb[p].frame
  OBVIOUS
<1>2. /\ \A q \in P : /\ q \in A /\ In(s, A, q) /\ s.pcb[q].frame \in Frame
                      /\ s.ft[s.pcb[q].frame].locked
      /\ \A g \in Frame : s.ft[g].locked => \E q \in P : g = s.pcb[q].frame
      /\ P \in SUBSET A
  BY DEF LockedFor
<1>3. f \in Frame /\ s \in Spaces /\ MastersOK(s, A)
  BY <1>1, <1>2 DEF Sound
<1>4. LockSet(s, f, FALSE, n)
  BY <1>1, <1>3, LockIs
<1>5. n.pcb = s.pcb /\ \A g \in Frame : n.ft[g].locked <=> s.ft[g].locked /\ g # f
  <2>1. n.ft[f].locked = FALSE /\ \A g \in Frame \ {f} : n.ft[g].locked = s.ft[g].locked
    BY <1>4 DEF LockSet
  <2> QED
    BY <1>4, <2>1 DEF LockSet, Relock
<1>6. \A q \in P \ {p} : s.pcb[q].frame # f
  <2> SUFFICES ASSUME NEW q \in P, q # p, s.pcb[q].frame = f
               PROVE  FALSE
    OBVIOUS
  <2>1. q \in A /\ p \in A /\ In(s, A, q) /\ In(s, A, p)
    BY <1>2
  <2> QED
    BY <1>1, <1>3, <2>1, OwnMaster
<1>7. LockedFor(n, A, P \ {p})
  <2>1. \A q \in P \ {p} : In(n, A, q) /\ n.pcb[q].frame \in Frame /\ n.ft[n.pcb[q].frame].locked
    BY <1>2, <1>5, <1>6 DEF In
  <2>2. ASSUME NEW g \in Frame, n.ft[g].locked
        PROVE  \E q \in P \ {p} : g = n.pcb[q].frame
    <3>1. s.ft[g].locked /\ g # f
      BY <1>5, <2>2
    <3>2. PICK q \in P : g = s.pcb[q].frame
      BY <1>2, <3>1
    <3>3. q # p
      BY <1>1, <3>1, <3>2
    <3> QED
      BY <1>5, <3>2, <3>3
  <2> QED
    BY <1>2, <2>1, <2>2 DEF LockedFor
<1>8. \A g \in Frame : n.ft[g].locked => InUse(s, A, g)
  BY <1>5 DEF Sound, FramesOK
<1> QED
  BY <1>1, <1>4, <1>7, <1>8

\* A call has ended and nothing has moved.
LEMMA EndOK ==
  ASSUME Inv, job' = NoCall, Pending = {}, Relock(k, k'),
         \A f \in Frame : k'.ft[f].locked => InUse(k, alive, f),
         LockedFor(k', alive, lent'), alive' = alive, segs' = segs, served' = served
  PROVE  Inv'
<1>1. Sound(k, alive, {}) /\ SegsOK
  BY DEF Inv
<1>2. Alike(k, alive, k') /\ \A p \in alive, t \in Slot : Reads(k', p, t) = Reads(k, p, t)
  BY <1>1, RelockWorks
<1>3. Sound(k', alive, {}) /\ (Tight(k, alive) => Tight(k', alive))
  BY <1>2 DEF Alike
<1>4. JobOK' /\ Holding' = lent' /\ Pending' = {} /\ job'.call = "none"
  BY NoCallOK
<1>5. LocksOK'
  BY <1>4 DEF LocksOK, LockedFor
<1>6. ContentsOK'
  <2>1. \A p \in alive, t \in Slot : Reads(k, p, t) = Wanted(p, t)
    BY DEF Inv, ContentsOK
  <2>2. \A p \in alive, t \in Slot : Wanted(p, t)' = Wanted(p, t)
    BY DEF Wanted
  <2> QED
    BY <1>2, <2>1, <2>2 DEF ContentsOK
<1>7. SegsOK'
  BY <1>1 DEF SegsOK
<1> QED
  BY <1>3, <1>4, <1>5, <1>6, <1>7 DEF Inv

LEMMA ReturnStep ==
  ASSUME Inv, Settled, Return
  PROVE  Inv' /\ Relock(k, k') /\ alive' = alive
<1>1. PICK p : p = job.proc
  OBVIOUS
<1>2. /\ job.call \in {"create", "touch", "delete"} /\ job.todo = {}
      /\ k' = Unlock(k, k.pcb[p].frame) /\ job' = NoCall /\ lent' = lent \ {p}
      /\ alive' = alive /\ segs' = segs /\ served' = served
  BY <1>1 DEF Return
<1>3. alive \in SUBSET Procs /\ Sound(k, alive, {}) /\ LockedFor(k, alive, Holding)
  BY <1>2, InCall
<1>4. Holding = lent \cup {p} /\ Pending = {}
  BY <1>1, <1>2 DEF Holding, Pending, Inv, JobOK
<1>5. p \in Holding /\ Holding \ {p} = lent'
  BY <1>2, <1>4
<1>6. k' = Locking(k, k.pcb[p].frame, FALSE)
  BY <1>2 DEF Unlock, Locking
<1>7. /\ LockSet(k, k.pcb[p].frame, FALSE, k') /\ LockedFor(k', alive, Holding \ {p})
      /\ \A f \in Frame : k'.ft[f].locked => InUse(k, alive, f)
  BY <1>3, <1>5, <1>6, UnlockMasterWorks
<1>8. Relock(k, k') /\ LockedFor(k', alive, lent')
  BY <1>5, <1>7 DEF LockSet
<1> QED
  BY <1>2, <1>4, <1>7, <1>8, EndOK

LEMMA DisconnectedStep ==
  ASSUME Inv, Settled, Disconnected
  PROVE  Inv' /\ Relock(k, k') /\ alive' = alive
<1>1. /\ job.call = "disconnect" /\ job.todo = {}
      /\ k' = k /\ job' = NoCall /\ lent' = lent
      /\ alive' = alive /\ segs' = segs /\ served' = served
  BY DEF Disconnected, Running
<1>2. Sound(k, alive, {}) /\ LockedFor(k, alive, Holding)
  BY <1>1, InCall
<1>3. Holding = lent /\ Pending = {}
  BY <1>1 DEF Holding, Pending, Inv, JobOK
<1>4. Relock(k, k')
  BY <1>1, <1>2 DEF Relock, Sound
<1>5. \A f \in Frame : k'.ft[f].locked => InUse(k, alive, f)
  BY <1>1, <1>2 DEF Sound, FramesOK
<1>6. LockedFor(k', alive, lent')
  BY <1>1, <1>2, <1>3
<1> QED
  BY <1>1, <1>3, <1>4, <1>5, <1>6, EndOK

LEMMA ClonedStep ==
  ASSUME Inv, Settled, Cloned
  PROVE  Inv' /\ Relock(k, k') /\ alive' = alive
<1>1. PICK p, r, f : p = job.proc /\ r = job.from /\ f = k.pcb[p].frame
  OBVIOUS
<1>2. /\ job.call = "clone" /\ job.todo = {} /\ job.left = {}
      /\ k' = [k EXCEPT !.ft[f] = Entry("SegTable", p, FALSE)]
      /\ job' = NoCall /\ lent' = lent \cup {r}
      /\ alive' = alive /\ segs' = segs /\ served' = served
  BY <1>1 DEF Cloned, Running
<1>3. /\ alive \in SUBSET Procs /\ Sound(k, alive, {}) /\ LockedFor(k, alive, Holding)
      /\ p \in alive /\ In(k, alive, p)
  BY <1>1, <1>2, InCall
<1>4. Holding = lent \cup {p, r} /\ Pending = {}
  BY <1>1, <1>2 DEF Holding, Pending
<1>5. p # r /\ p \notin lent
  BY <1>1, <1>2 DEF Inv, JobOK
<1>6. p \in Holding /\ Holding \ {p} = lent'
  BY <1>2, <1>4, <1>5
<1>7. k' = Locking(k, k.pcb[p].frame, FALSE)
  <2>1. /\ f \in Frame /\ k.ft[f].type = "SegTable" /\ k.ft[f].owner = p
        /\ k \in Spaces
    BY <1>1, <1>3 DEF Sound, MastersOK
  <2>2. PICK e \in FtEntries : e = k.ft[f]
    BY <2>1, SpaceTypes
  <2>3. [e EXCEPT !.locked = FALSE] = Entry("SegTable", p, FALSE)
    <3>1. e.type = "SegTable" /\ e.owner = p
      BY <2>1, <2>2
    <3>2. PICK l \in BOOLEAN : e = [type |-> "SegTable", locked |-> l, owner |-> p]
      BY <3>1 DEF FtEntries
    <3>3. e = Entry("SegTable", p, l)
      BY <3>2 DEF Entry
    <3>4. PICK d : d = FALSE
      OBVIOUS
    <3>5. [e EXCEPT !.locked = d] = Entry("SegTable", p, d)
      BY <3>3, EntryUnlocked
    <3> QED
      BY <3>4, <3>5, Zenon
  <2>4. k' = [k EXCEPT !.ft[f] = [e EXCEPT !.locked = FALSE]]
    BY <1>2, <2>3
  <2>5. k' = [k EXCEPT !.ft[f].locked = FALSE]
    BY <2>2, <2>4
  <2> QED
    BY <1>1, <2>5 DEF Locking
<1>8. /\ LockSet(k, k.pcb[p].frame, FALSE, k') /\ LockedFor(k', alive, Holding \ {p})
      /\ \A g \in Frame : k'.ft[g].locked => InUse(k, alive, g)
  BY <1>3, <1>6, <1>7, UnlockMasterWorks
<1>9. Relock(k, k') /\ LockedFor(k', alive, lent')
  BY <1>6, <1>8 DEF LockSet
<1> QED
  BY <1>2, <1>4, <1>8, <1>9, EndOK


\* Process p is gone and the frame f of its master table is on the list.
Ended(s, p, f, n) ==
  /\ n \in Spaces
  /\ n.ft = s.ft /\ n.mem = s.mem /\ n.disk = s.disk /\ n.free = s.free /\ n.wild = s.wild
  /\ n.pcb[p] = NoPcb /\ \A q \in Procs \ {p} : n.pcb[q] = s.pcb[q]
  /\ n.empty = Append(s.empty, f)

Ending(s, p, f) == [s EXCEPT !.empty = Append(@, f), !.pcb[p] = NoPcb]

LEMMA EndedIs ==
  ASSUME NEW s \in Spaces, NEW f \in Frame, NEW p \in Procs
  PROVE  Ended(s, p, f, Ending(s, p, f))
<1>1. s.pcb \in [Procs -> Pcbs] /\ s.empty \in Seq(Frame)
  BY SpaceTypes
<1>2. PICK y \in Pcbs : y = NoPcb
  BY DEF NoPcb, Pcbs
<1>3. PICK b \in [Procs -> Pcbs] : b = [s.pcb EXCEPT ![p] = y]
  BY <1>1
<1>4. b[p] = y /\ \A q \in Procs \ {p} : b[q] = s.pcb[q]
  BY <1>1, <1>3
<1>5. PICK l \in Seq(Frame) : l = Append(s.empty, f)
  <2>1. PICK e \in Seq(Frame) : e = s.empty
    BY <1>1
  <2>2. Append(e, f) \in Seq(Frame)
    OBVIOUS
  <2> QED
    BY <2>1, <2>2
<1>6. PICK n : n = [s EXCEPT !.empty = l, !.pcb = b]
  OBVIOUS
<1>7. Ending(s, p, f) = n
  BY <1>2, <1>3, <1>5, <1>6 DEF Ending
<1>8. n \in Spaces
  BY <1>6 DEF Spaces
<1>9. /\ n.pcb = b /\ n.ft = s.ft /\ n.mem = s.mem /\ n.disk = s.disk
      /\ n.free = s.free /\ n.empty = l /\ n.wild = s.wild
  BY <1>6 DEF Spaces
<1> QED
  BY <1>2, <1>4, <1>5, <1>7, <1>8, <1>9 DEF Ended

\* What becomes of the kernel space when process p is gone.
Vacated(s, A, p, n) ==
  /\ Sound(n, A \ {p}, {})
  /\ \A q \in A \ {p} : n.pcb[q] = s.pcb[q]
  /\ \A q \in A \ {p}, t \in Slot : Reads(n, q, t) = Reads(s, q, t)

LEMMA EndedWorks ==
  ASSUME NEW s, NEW A \in SUBSET Procs, Sound(s, A, {}), NEW p \in A, In(s, A, p),
         ~s.ft[s.pcb[p].frame].locked, NEW n, Ended(s, p, s.pcb[p].frame, n)
  PROVE  Vacated(s, A, p, n)
<1>0. PICK f : f = s.pcb[p].frame /\ ~s.ft[f].locked /\ Ended(s, p, f, n)
  OBVIOUS
<1>1. /\ s \in Spaces /\ ~s.wild /\ MastersOK(s, A) /\ EntriesOK(s, A) /\ Apart(s, A)
      /\ FramesOK(s, A, {}) /\ OwnersOK(s, A)
  BY DEF Sound
<1>2. f \in Frame /\ s.ft[f].type = "SegTable" /\ InUse(s, A, f)
  BY <1>0, <1>1 DEF MastersOK, InUse
<1>3. PICK B : B = A \ {p}
  OBVIOUS
<1>4. /\ n.ft = s.ft /\ n.mem = s.mem /\ n.disk = s.disk /\ n.free = s.free /\ n.wild = s.wild
      /\ n.pcb[p] = NoPcb /\ \A q \in B : n.pcb[q] = s.pcb[q]
      /\ \A q \in Procs \ A : n.pcb[q] = s.pcb[q]
      /\ n \in Spaces /\ B \subseteq A /\ p \notin B
  BY <1>0, <1>3 DEF Ended
<1>5. /\ \A q \in B, t \in Slot : Cell(n, q, t) = Cell(s, q, t)
      /\ \A q \in B : (In(n, B, q) <=> In(s, A, q)) /\ (Out(n, B, q) <=> Out(s, A, q))
  BY <1>4 DEF Cell, In, Out
<1>6. \A q \in B, t \in Slot : Reads(n, q, t) = Reads(s, q, t)
  BY <1>4, <1>5 DEF Reads, Leads
<1>7. \A q \in B, t \in Slot : \A c : Stored(n, q, t, c) <=> Stored(s, q, t, c)
  BY <1>5 DEF Stored
<1>8. MastersOK(n, B)
  <2>1. \A q \in Procs \ B : n.pcb[q] = NoPcb
    BY <1>1, <1>3, <1>4 DEF MastersOK
  <2>2. ASSUME NEW q \in B
        PROVE  /\ In(n, B, q) => LET m == n.pcb[q].frame
                                 IN  /\ m \in Frame /\ n.pcb[q].ptl1 = m
                                     /\ n.ft[m].type = "SegTable" /\ n.ft[m].owner = q
                                     /\ n.mem[m].kind = "master"
               /\ Out(n, B, q) => n.pcb[q].disk \in Cluster \ n.free
                                   /\ n.disk[n.pcb[q].disk].kind = "master"
    BY <1>1, <1>4, <1>5 DEF MastersOK
  <2> QED
    BY <2>1, <2>2 DEF MastersOK
<1>9. EntriesOK(n, B)
  <2>1. \A q \in B, t \in Slot : \A e : EntryOK(s, q, t, e) => EntryOK(n, q, t, e)
    BY <1>4 DEF EntryOK
  <2> QED
    BY <1>1, <1>4, <1>5, <2>1 DEF EntriesOK
<1>10. Apart(n, B)
  BY <1>1, <1>4, <1>5, <1>7 DEF Apart
<1>11. \A g \in Frame : InUse(n, B, g) <=> InUse(s, A, g) /\ g # f
  <2>1. \A q \in A : In(s, A, q) /\ s.pcb[q].frame = f => q = p
    BY <1>0, <1>1, OwnMaster
  <2> SUFFICES ASSUME NEW g \in Frame
               PROVE  InUse(n, B, g) <=> InUse(s, A, g) /\ g # f
    OBVIOUS
  <2>2. (\E q \in B : In(n, B, q) /\ n.pcb[q].frame = g)
          <=> (\E q \in A : In(s, A, q) /\ s.pcb[q].frame = g) /\ g # f
    <3>1. ASSUME NEW q \in B, In(n, B, q), n.pcb[q].frame = g
          PROVE  (\E r \in A : In(s, A, r) /\ s.pcb[r].frame = g) /\ g # f
      BY <1>4, <1>5, <2>1, <3>1
    <3>2. ASSUME NEW q \in A, In(s, A, q), s.pcb[q].frame = g, g # f
          PROVE  \E r \in B : In(n, B, r) /\ n.pcb[r].frame = g
      <4>1. q \in B
        BY <1>0, <1>3, <3>2
      <4> QED
        BY <1>4, <1>5, <3>2, <4>1
    <3> QED
      BY <3>1, <3>2
  <2>3. (n.ft[g].type = "PageTable") <=> (s.ft[g].type = "PageTable" /\ g # f)
    BY <1>2, <1>4
  <2> QED
    BY <2>2, <2>3 DEF InUse
<1>12. FramesOK(n, B, {})
  <2>1. PICK e \in Seq(Frame) : e = s.empty
    BY <1>1, SpaceTypes
  <2>2. /\ \A i, j \in 1 .. Len(e) : e[i] = e[j] => i = j
        /\ \A g \in Frame : Listed(e, g) => ~InUse(s, A, g)
        /\ \A g \in Frame : Listed(e, g) \/ InUse(s, A, g)
        /\ \A g \in Frame : s.ft[g].locked => InUse(s, A, g)
    BY <1>1, <2>1 DEF FramesOK
  <2>3. ~Listed(e, f)
    BY <1>2, <2>2
  <2>4. /\ \A i, j \in 1 .. Len(Append(e, f)) : Append(e, f)[i] = Append(e, f)[j] => i = j
        /\ \A g : Listed(Append(e, f), g) <=> Listed(e, g) \/ g = f
    BY <1>2, <2>2, <2>3, ListAppend
  <2>5. PICK l : l = Append(e, f) /\ n.empty = l
    BY <1>0, <2>1 DEF Ended
  <2>6. \A g \in Frame : n.ft[g].locked => InUse(n, B, g)
    BY <1>0, <1>4, <1>11, <2>2
  <2>7. /\ \A g \in Frame : Listed(l, g) => ~InUse(n, B, g)
        /\ \A g \in Frame : Listed(l, g) \/ InUse(n, B, g)
    BY <1>11, <2>2, <2>4, <2>5
  <2>8. \A i, j \in 1 .. Len(l) : l[i] = l[j] => i = j
    BY <2>4, <2>5
  <2> QED
    BY <2>5, <2>6, <2>7, <2>8 DEF FramesOK
<1>13. OwnersOK(n, B)
  <2> SUFFICES ASSUME NEW g \in Frame, n.ft[g].type = "PageTable", Parent(n, B, g)
               PROVE  \E q \in B, t \in Slot : In(n, B, q) /\ Child(n, q, t, g)
    BY DEF OwnersOK
  <2>1. PICK r \in B : In(n, B, r) /\ n.ft[g].owner[1] = n.pcb[r].frame
    BY DEF Parent
  <2>2. r \in A /\ In(s, A, r) /\ s.ft[g].owner[1] = s.pcb[r].frame /\ s.ft[g].type = "PageTable"
    BY <1>4, <1>5, <2>1
  <2>3. Parent(s, A, g)
    BY <2>2 DEF Parent
  <2>4. PICK q \in A, t \in Slot : In(s, A, q) /\ Child(s, q, t, g)
    BY <1>1, <2>2, <2>3 DEF OwnersOK
  <2>5. s.pcb[q].frame = s.pcb[r].frame
    BY <2>2, <2>4 DEF Child
  <2>6. q = r
    BY <1>1, <2>2, <2>4, <2>5, OwnMaster
  <2>7. In(n, B, q) /\ Child(n, q, t, g) /\ q \in B
    BY <1>4, <1>5, <2>1, <2>4, <2>6 DEF Child
  <2> QED
    BY <2>7
<1>14. Sound(n, B, {})
  BY <1>1, <1>4, <1>8, <1>9, <1>10, <1>12, <1>13 DEF Sound
<1> QED
  BY <1>3, <1>4, <1>6, <1>14 DEF Vacated

LEMMA GoneStep ==
  ASSUME Inv, Settled, Gone
  PROVE  Inv'
<1>1. PICK p, f : p = job.proc /\ f = k.pcb[p].frame
  OBVIOUS
<1>2. /\ job.call = "exit" /\ job.todo = {} /\ job.left = {}
      /\ k' = [Unlock(k, f) EXCEPT !.empty = Append(@, f), !.pcb[p] = NoPcb]
      /\ alive' = alive \ {p} /\ lent' = lent \ {p} /\ job' = NoCall
      /\ segs' = segs /\ served' = served
  BY <1>1 DEF Gone, Running
<1>3. /\ alive \in SUBSET Procs /\ Sound(k, alive, {}) /\ LockedFor(k, alive, Holding)
      /\ p \in alive /\ In(k, alive, p) /\ p \in Procs
  BY <1>1, <1>2, InCall
<1>4. Holding = lent \cup {p} /\ Pending = {}
  BY <1>1, <1>2 DEF Holding, Pending
<1>5. p \in Holding /\ Holding \ {p} = lent'
  BY <1>2, <1>4
<1>6. PICK m : m = Unlock(k, f) /\ m = Locking(k, k.pcb[p].frame, FALSE)
  BY <1>1 DEF Unlock, Locking
<1>7. /\ LockSet(k, k.pcb[p].frame, FALSE, m) /\ LockedFor(m, alive, Holding \ {p})
      /\ \A g \in Frame : m.ft[g].locked => InUse(k, alive, g)
  BY <1>3, <1>5, <1>6, UnlockMasterWorks
<1>8. Relock(k, m) /\ ~m.ft[f].locked /\ m \in Spaces /\ LockedFor(m, alive, lent')
  BY <1>1, <1>5, <1>7 DEF LockSet, Relock
<1>9. Alike(k, alive, m) /\ \A q \in alive, t \in Slot : Reads(m, q, t) = Reads(k, q, t)
  BY <1>3, <1>7, <1>8, RelockWorks
<1>10. Sound(m, alive, {}) /\ m.pcb = k.pcb /\ In(m, alive, p) /\ f = m.pcb[p].frame
       /\ f \in Frame
  BY <1>1, <1>3, <1>9 DEF Alike, In, Sound, MastersOK
<1>11. Ended(m, p, f, k')
  <2>1. k' = Ending(m, p, f)
    BY <1>2, <1>6 DEF Ending
  <2> QED
    BY <1>3, <1>8, <1>10, <2>1, EndedIs
<1>12. /\ Sound(k', alive \ {p}, {})
       /\ \A q \in alive \ {p} : k'.pcb[q] = m.pcb[q]
       /\ \A q \in alive \ {p}, t \in Slot : Reads(k', q, t) = Reads(m, q, t)
  <2>1. ~m.ft[m.pcb[p].frame].locked /\ Ended(m, p, m.pcb[p].frame, k')
    BY <1>8, <1>10, <1>11
  <2>2. Vacated(m, alive, p, k')
    BY <1>3, <1>10, <2>1, EndedWorks
  <2> QED
    BY <2>2 DEF Vacated
<1>13. JobOK' /\ Holding' = lent' /\ Pending' = {} /\ job'.call = "none"
  BY <1>2, NoCallOK
<1>14. LocksOK'
  <2>1. k'.ft = m.ft
    BY <1>11 DEF Ended
  <2>2. /\ \A q \in lent' : /\ q \in alive /\ In(m, alive, q) /\ m.pcb[q].frame \in Frame
                            /\ m.ft[m.pcb[q].frame].locked
        /\ \A g \in Frame : m.ft[g].locked => \E q \in lent' : g = m.pcb[q].frame
    BY <1>8 DEF LockedFor
  <2>3. \A q \in lent' : q \in alive' /\ k'.pcb[q] = m.pcb[q]
    BY <1>2, <1>12, <2>2
  <2>4. \A q \in lent' : /\ In(k', alive', q) /\ k'.pcb[q].frame \in Frame
                         /\ k'.ft[k'.pcb[q].frame].locked
    BY <2>1, <2>2, <2>3 DEF In
  <2>5. \A g \in Frame : k'.ft[g].locked => \E q \in lent' : g = k'.pcb[q].frame
    BY <2>1, <2>2, <2>3
  <2>6. lent' \in SUBSET alive'
    BY <2>3
  <2> QED
    BY <1>13, <2>4, <2>5, <2>6 DEF LocksOK, LockedFor
<1>15. ContentsOK'
  <2>1. \A q \in alive, t \in Slot : q # p => Reads(k, q, t) = Wanted(q, t)
    BY <1>1 DEF Inv, ContentsOK
  <2>2. \A q \in alive, t \in Slot : Wanted(q, t)' = Wanted(q, t)
    BY <1>2 DEF Wanted
  <2>3. \A q \in alive', t \in Slot : q \in alive \ {p} /\ q # p
    BY <1>2
  <2>4. \A q \in alive', t \in Slot : Reads(k', q, t) = Wanted(q, t)'
    BY <1>9, <1>12, <2>1, <2>2, <2>3
  <2> QED
    BY <2>4 DEF ContentsOK
<1>16. SegsOK'
  <2>1. segs[p] = {} /\ SegsOK
    BY <1>1, <1>2 DEF Inv, JobOK
  <2> QED
    BY <1>2, <2>1 DEF SegsOK
<1>17. "exit" \in Calls
  BY <1>2 DEF Inv
<1>18. served' = TRUE /\ Sound(k', alive', {}) /\ alive' \subseteq Procs
  BY <1>2, <1>3, <1>12 DEF Inv
<1> QED
  BY <1>13, <1>14, <1>15, <1>16, <1>17, <1>18 DEF Inv



------------------------------------------------------------------------------
(* The invariant holds.                                                    *)

LEMMA InvInit ==
  ASSUME Init
  PROVE  Inv
<1>1. PICK e : e = [i \in 1 .. NFrames |-> i - 1]
  OBVIOUS
<1>2. /\ k.pcb = [p \in Procs |-> NoPcb] /\ k.ft = [f \in Frame |-> NoFrame]
      /\ k.mem = [f \in Frame |-> Blank] /\ k.disk = [c \in Cluster |-> Blank]
      /\ k.free = Cluster /\ k.empty = e /\ k.wild = FALSE
      /\ alive = {} /\ segs = [p \in Procs |-> {}] /\ job = NoCall /\ lent = {} /\ served = TRUE
  BY <1>1 DEF Init
<1>3. e \in Seq(Frame) /\ Len(e) = NFrames /\ \A i \in 1 .. NFrames : e[i] = i - 1
  <2>1. NFrames \in Nat /\ \A i \in 1 .. NFrames : i - 1 \in Frame
    BY NilApart DEF Frame
  <2> QED
    BY <1>1, <2>1
<1>4. /\ \A i, j \in 1 .. Len(e) : e[i] = e[j] => i = j
      /\ \A f \in Frame : Listed(e, f)
  <2>1. NFrames \in Nat
    BY NilApart
  <2>2. \A i, j \in 1 .. NFrames : i - 1 = j - 1 => i = j
    BY <2>1
  <2>3. \A f \in Frame : f + 1 \in 1 .. NFrames /\ (f + 1) - 1 = f
    BY <2>1 DEF Frame
  <2>4. \A f \in Frame : Listed(e, f)
    BY <1>3, <2>3 DEF Listed
  <2> QED
    BY <1>3, <2>2, <2>4
<1>5. k \in Spaces
  <2>1. k = [pcb |-> k.pcb, ft |-> k.ft, mem |-> k.mem, disk |-> k.disk, free |-> k.free,
             empty |-> k.empty, wild |-> k.wild]
    BY DEF Init
  <2>2. k.pcb \in [Procs -> Pcbs]
    BY <1>2 DEF NoPcb, Pcbs
  <2>3. k.ft \in [Frame -> FtEntries]
    BY <1>2 DEF NoFrame, FtEntries, Owner
  <2>4. k.mem \in [Frame -> Contents] /\ k.disk \in [Cluster -> Contents]
    BY <1>2, ContentKinds
  <2> QED
    BY <1>2, <1>3, <2>1, <2>2, <2>3, <2>4 DEF Spaces
<1>6. \A f \in Frame : k.ft[f].type = "Unused" /\ ~k.ft[f].locked
  BY <1>2 DEF NoFrame
<1>7. \A f \in Frame : ~InUse(k, {}, f)
  BY <1>6 DEF InUse
<1>8. Sound(k, {}, {})
  <2>1. MastersOK(k, {})
    BY <1>2 DEF MastersOK
  <2>2. EntriesOK(k, {}) /\ Apart(k, {})
    BY DEF EntriesOK, Apart
  <2>3. FramesOK(k, {}, {})
    BY <1>2, <1>4, <1>6, <1>7 DEF FramesOK
  <2>4. OwnersOK(k, {})
    BY <1>6 DEF OwnersOK
  <2> QED
    BY <1>2, <1>5, <2>1, <2>2, <2>3, <2>4 DEF Sound
<1>9. SegsOK
  BY <1>2 DEF SegsOK
<1>10. job.call = "none" /\ job.proc = Nil /\ job.todo = {} /\ job.left = {} /\ job \in Jobs
  BY <1>2 DEF NoCall, Jobs
<1>11. JobOK
  BY <1>2, <1>10 DEF JobOK
<1>12. LocksOK
  <2>1. Holding = {}
    BY <1>2, <1>10 DEF Holding
  <2> QED
    BY <1>2, <1>6, <2>1 DEF LocksOK, LockedFor
<1>13. ContentsOK
  BY <1>2 DEF ContentsOK
<1>14. Tight(k, alive)
  BY <1>2, <1>6 DEF Tight
<1> QED
  BY <1>2, <1>8, <1>9, <1>10, <1>11, <1>12, <1>13, <1>14 DEF Inv

LEMMA InvStutter ==
  ASSUME Inv, UNCHANGED vars
  PROVE  Inv'
<1>1. /\ k' = k /\ alive' = alive /\ segs' = segs /\ job' = job /\ lent' = lent
      /\ served' = served
  BY DEF vars
<1>2. JobOK'
  <2>1. JobOK /\ Pending' = Pending
    BY <1>1 DEF Inv, Pending
  <2> QED
    BY <1>1, <2>1 DEF JobOK
<1>3. LocksOK'
  <2>1. LocksOK /\ Holding' = Holding
    BY <1>1 DEF Inv, Holding
  <2> QED
    BY <1>1, <2>1 DEF LocksOK
<1>4. ContentsOK'
  <2>1. ContentsOK /\ Pending' = Pending /\ \A p \in alive, t \in Slot : Wanted(p, t)' = Wanted(p, t)
    BY <1>1 DEF Inv, Pending, Wanted
  <2> QED
    BY <1>1, <2>1 DEF ContentsOK
<1>5. SegsOK'
  BY <1>1 DEF Inv, SegsOK
<1> QED
  BY <1>1, <1>2, <1>3, <1>4, <1>5 DEF Inv

LEMMA InvNext ==
  ASSUME Inv, Settled, [Next]_vars
  PROVE  Inv'
<1>1. CASE UNCHANGED vars
  BY <1>1, InvStutter
<1>2. CASE \E p \in Procs : CreateProcess(p) \/ DeleteProcess(p)
  BY <1>2, CreateProcessStep, DeleteProcessStep
<1>3. CASE \E p, q \in Procs : CloneProcess(p, q)
  BY <1>3, CloneProcessStep
<1>4. CASE \E p \in Procs, T \in Interval :
             CreateSegment(p, T) \/ DeleteSegment(p, T) \/ Disconnect(p, T)
  BY <1>4, CreateSegmentStep, DeleteSegmentStep, DisconnectStep
<1>5. CASE \E p \in Procs, t \in Slot : Touch(p, t)
  BY <1>5, TouchStep
<1>6. CASE CreatePage
  BY <1>6, CreatePageStep
<1>7. CASE Serve
  BY <1>7, ServeStep
<1>8. CASE DeletePage
  BY <1>8, DeletePageStep
<1>9. CASE ClonePage
  BY <1>9, ClonePageStep
<1>10. CASE NextSegment
  BY <1>10, NextSegmentStep
<1>11. CASE Return
  BY <1>11, ReturnStep
<1>12. CASE Disconnected
  BY <1>12, DisconnectedStep
<1>13. CASE Cloned
  BY <1>13, ClonedStep
<1>14. CASE Gone
  BY <1>14, GoneStep
<1> QED
  BY <1>1, <1>2, <1>3, <1>4, <1>5, <1>6, <1>7, <1>8, <1>9, <1>10, <1>11, <1>12, <1>13, <1>14
  DEF Next

\* Whatever the calls of such clients, the inductive invariant holds always.
THEOREM KernelInductive ==
  ASSUME Settled
  PROVE  Spec => []Inv
<1>1. Init => Inv
  BY InvInit
<1>2. Inv /\ [Next]_vars => Inv'
  BY InvNext
<1> QED
  BY <1>1, <1>2, PTL DEF Spec


\* What the entries and pages of the model's properties are.
LEMMA ReadsIs ==
  \A p, t : EntryOf(p, t) = Cell(k, p, t) /\ Mapped(p, t) = Reads(k, p, t)
<1>1. \A p, t : EntryOf(p, t) = Cell(k, p, t)
  BY DEF EntryOf, Cell
<1> QED
  BY <1>1 DEF Mapped, OnDisk, Reads, Leads

LEMMA InvTypes ==
  ASSUME Inv
  PROVE  KernelTypeOK
<1>1. k \in Spaces /\ ~k.wild /\ served = TRUE /\ alive \subseteq Procs /\ SegsOK /\ LocksOK
  BY DEF Inv, Sound
<1>2. /\ k.pcb \in [Procs -> Pcbs] /\ k.ft \in [Frame -> FtEntries]
      /\ k.mem \in [Frame -> Contents] /\ k.disk \in [Cluster -> Contents]
      /\ k.free \in SUBSET Cluster /\ k.empty \in Seq(Frame) /\ k.wild \in BOOLEAN
  BY <1>1 DEF Spaces
<1>3. \A p \in Procs : segs[p] \subseteq SUBSET Slot
  BY <1>1 DEF SegsOK
<1>4. lent \subseteq alive
  BY <1>1 DEF LocksOK
<1>5. k.pcb \in [Procs -> [frame : Frame \cup {Nil}, ptl1 : Frame \cup {Nil},
                           valid : BOOLEAN, disk : Cluster \cup {Nil}]]
  BY <1>2 DEF Pcbs
<1>6. k.ft \in [Frame -> [type : {"Unused", "SegTable", "PageTable"}, locked : BOOLEAN,
                          owner : Procs \cup (Frame \X Slot) \cup {Nil}]]
  BY <1>2 DEF FtEntries, Owner
<1> QED
  BY <1>1, <1>2, <1>3, <1>4, <1>5, <1>6 DEF KernelTypeOK

LEMMA InvMapping ==
  ASSUME Inv
  PROVE  MappingKept
<1> SUFFICES ASSUME NEW p \in alive, job.proc # p \/ job.call = "touch", NEW t \in Slot
             PROVE  Mapped(p, t) = Table(IF t \in UNION segs[p] THEN <<p, t>> ELSE Nil)
  BY DEF MappingKept
<1>1. job.call = "touch" => Pending = {}
  BY DEF Pending
<1>2. Reads(k, p, t) = Wanted(p, t)
  BY <1>1 DEF Inv, ContentsOK
<1> QED
  BY <1>2, ReadsIs DEF Wanted

LEMMA InvLocks ==
  ASSUME Inv
  PROVE  LocksReleased
<1> SUFFICES ASSUME job = NoCall
             PROVE  {f \in Frame : k.ft[f].locked} = {k.pcb[p].frame : p \in lent}
  BY DEF LocksReleased
<1>1. job.call = "none"
  BY DEF NoCall
<1>2. Holding = lent
  BY <1>1 DEF Holding
<1>3. LockedFor(k, alive, lent)
  BY <1>2 DEF Inv, LocksOK
<1> QED
  BY <1>3 DEF LockedFor

LEMMA InvOwned ==
  ASSUME Inv, "exit" \notin Calls
  PROVE  TablesOwned
<1>1. /\ MastersOK(k, alive) /\ EntriesOK(k, alive) /\ FramesOK(k, alive, {})
      /\ Tight(k, alive) /\ k \in Spaces
  BY DEF Inv, Sound
<1>2. ASSUME NEW p \in alive, k.pcb[p].valid
      PROVE  LET m == k.pcb[p].frame
             IN  /\ k.pcb[p].ptl1 = m
                 /\ k.ft[m].type = "SegTable" /\ k.ft[m].owner = p
                 /\ \A t \in Slot : k.mem[m].l1[t].status = "Present" =>
                      LET f == k.mem[m].l1[t].blk
                      IN  k.ft[f].type = "PageTable" /\ k.ft[f].owner = <<m, t>>
  <2>1. \A t \in Slot : EntryOK(k, p, t, k.mem[k.pcb[p].frame].l1[t])
    BY <1>1, <1>2 DEF EntriesOK, Cell
  <2>2. \A t \in Slot : k.mem[k.pcb[p].frame].l1[t].status = "Present" =>
          LET f == k.mem[k.pcb[p].frame].l1[t].blk
          IN  k.ft[f].type = "PageTable" /\ k.ft[f].owner = <<k.pcb[p].frame, t>>
    BY <2>1 DEF EntryOK
  <2>3. /\ k.pcb[p].ptl1 = k.pcb[p].frame
        /\ k.ft[k.pcb[p].frame].type = "SegTable" /\ k.ft[k.pcb[p].frame].owner = p
    BY <1>1, <1>2 DEF MastersOK, In
  <2> QED
    BY <2>2, <2>3
<1>3. ASSUME NEW i \in 1 .. Len(k.empty)
      PROVE  k.ft[k.empty[i]].type = "Unused"
  <2>1. PICK e \in Seq(Frame) : e = k.empty
    BY <1>1, SpaceTypes
  <2>2. e[i] \in Frame /\ Listed(e, e[i])
    BY <1>3, <2>1 DEF Listed
  <2> QED
    BY <1>1, <2>1, <2>2 DEF FramesOK, Tight
<1> QED
  BY <1>2, <1>3 DEF TablesOwned

\* As many values as arguments.
LEMMA ImageCardinality ==
  ASSUME NEW S, NEW D, IsFiniteSet(D), NEW f \in [S -> D],
         \A x, y \in S : f[x] = f[y] => x = y
  PROVE  /\ IsFiniteSet({f[x] : x \in S})
         /\ Cardinality({f[x] : x \in S}) = Cardinality(S)
<1>1. f \in Injection(S, D)
  BY DEF Injection, IsInjective
<1>2. IsFiniteSet(S)
  BY <1>1, FS_Injection
<1>3. PICK T : T = {f[x] : x \in S}
  OBVIOUS
<1>4. f \in Bijection(S, T)
  BY <1>3 DEF Bijection, Injection, Surjection, IsInjective
<1>5. IsFiniteSet(T) /\ Cardinality(T) = Cardinality(S)
  BY <1>2, <1>4, FS_Bijection DEF ExistsBijection
<1> QED
  BY <1>3, <1>5


LEMMA InvBalance ==
  ASSUME Inv, "exit" \notin Calls
  PROVE  ClusterBalance
<1>1. /\ MastersOK(k, alive) /\ EntriesOK(k, alive) /\ Apart(k, alive) /\ Tight(k, alive)
      /\ k.free \subseteq Cluster
  BY SpaceTypes DEF Inv, Sound
<1>2. PICK M, T : /\ M = {p \in alive : ~k.pcb[p].valid}
                  /\ T = {q \in alive \X Slot : OnDisk(q[1], q[2])}
  OBVIOUS
<1>3. PICK m, g : /\ m = [p \in M |-> k.pcb[p].disk]
                  /\ g = [q \in T |-> EntryOf(q[1], q[2]).blk]
  OBVIOUS
<1>4. \A p \in M : p \in alive /\ Out(k, alive, p) /\ m[p] = k.pcb[p].disk
  BY <1>2, <1>3 DEF Out
<1>5. \A q \in T : /\ q[1] \in alive /\ q[2] \in Slot /\ q = <<q[1], q[2]>>
                   /\ g[q] = Cell(k, q[1], q[2]).blk
                   /\ Stored(k, q[1], q[2], g[q])
  BY <1>2, <1>3, ReadsIs DEF OnDisk, Stored
<1>6. \A p \in M : m[p] \in Cluster \ k.free /\ k.disk[m[p]].kind = "master"
  BY <1>1, <1>4 DEF MastersOK
<1>7. \A q \in T : g[q] \in Cluster \ k.free /\ k.disk[g[q]].kind = "table"
  <2> SUFFICES ASSUME NEW q \in T
               PROVE  g[q] \in Cluster \ k.free /\ k.disk[g[q]].kind = "table"
    OBVIOUS
  <2>1. PICK e : e = Cell(k, q[1], q[2])
    OBVIOUS
  <2>2. EntryOK(k, q[1], q[2], e)
    BY <1>1, <1>5, <2>1 DEF EntriesOK
  <2>3. e.status = "PagedOut" /\ e.blk # Nil /\ g[q] = e.blk
    BY <1>5, <2>1 DEF Stored
  <2> QED
    BY <2>2, <2>3 DEF EntryOK
<1>8. m \in [M -> Cluster] /\ g \in [T -> Cluster]
  BY <1>3, <1>6, <1>7
<1>9. \A p, q \in M : m[p] = m[q] => p = q
  BY <1>1, <1>4 DEF Apart
<1>10. \A q, r \in T : g[q] = g[r] => q = r
  <2> SUFFICES ASSUME NEW q \in T, NEW r \in T, g[q] = g[r]
               PROVE  q = r
    OBVIOUS
  <2>1. /\ Stored(k, q[1], q[2], g[q]) /\ Stored(k, r[1], r[2], g[q]) /\ g[q] \in Cluster
        /\ q[1] \in alive /\ r[1] \in alive /\ q[2] \in Slot /\ r[2] \in Slot
    BY <1>5, <1>7
  <2>2. q[1] = r[1] /\ q[2] = r[2]
    BY <1>1, <2>1 DEF Apart
  <2> QED
    BY <1>5, <2>2
<1>11. IsFiniteSet(Cluster)
  <2>1. 0 \in Int /\ NClusters - 1 \in Int
    BY NilApart
  <2> QED
    BY <2>1, FS_Interval DEF Cluster
<1>12. PICK X, Y : X = {m[p] : p \in M} /\ Y = {g[q] : q \in T}
  OBVIOUS
<1>13. IsFiniteSet(X) /\ Cardinality(X) = Cardinality(M)
  BY <1>8, <1>9, <1>11, <1>12, ImageCardinality
<1>14. IsFiniteSet(Y) /\ Cardinality(Y) = Cardinality(T)
  <2>1. g \in [T -> Cluster] /\ \A x, y \in T : g[x] = g[y] => x = y
    BY <1>8, <1>10
  <2>2. /\ IsFiniteSet({g[x] : x \in T})
        /\ Cardinality({g[x] : x \in T}) = Cardinality(T)
    BY <1>11, <2>1, ImageCardinality
  <2> QED
    BY <1>12, <2>2
<1>15. X \cap Y = {}
  BY <1>6, <1>7, <1>12
<1>16. Cardinality(X \cup Y) = Cardinality(M) + Cardinality(T)
  <2>1. Cardinality(X \cup Y) = Cardinality(X) + Cardinality(Y) - Cardinality({})
    BY <1>13, <1>14, <1>15, FS_Union
  <2>2. Cardinality({}) = 0 /\ Cardinality(X) \in Nat /\ Cardinality(Y) \in Nat
    BY <1>13, <1>14, FS_EmptySet, FS_CardinalityType
  <2> QED
    BY <1>13, <1>14, <2>1, <2>2
<1>17. X \cup Y = Cluster \ k.free
  <2>1. X \cup Y \subseteq Cluster \ k.free
    BY <1>6, <1>7, <1>12
  <2>2. ASSUME NEW c \in Cluster \ k.free
        PROVE  c \in X \cup Y
    <3>1. Held(k, alive, c)
      BY <1>1 DEF Tight
    <3>2. ASSUME NEW p \in alive, Out(k, alive, p), k.pcb[p].disk = c
          PROVE  c \in X
      <4>1. p \in M
        BY <1>2, <3>2 DEF Out
      <4> QED
        BY <1>4, <1>12, <3>2, <4>1
    <3>3. ASSUME NEW p \in alive, NEW t \in Slot, Stored(k, p, t, c)
          PROVE  c \in Y
      <4>1. PICK q : q = <<p, t>>
        OBVIOUS
      <4>2. q \in alive \X Slot /\ q[1] = p /\ q[2] = t
        BY <4>1
      <4>3. OnDisk(p, t) /\ Cell(k, p, t).blk = c
        BY <3>3, ReadsIs DEF OnDisk, Stored
      <4>4. q \in T
        BY <1>2, <4>2, <4>3
      <4>5. g[q] = c
        BY <1>5, <4>2, <4>3, <4>4
      <4> QED
        BY <1>12, <4>4, <4>5
    <3> QED
      BY <3>1, <3>2, <3>3 DEF Held
  <2> QED
    BY <2>1, <2>2
<1>18. /\ X = {k.pcb[p].disk : p \in M} /\ Y = {EntryOf(q[1], q[2]).blk : q \in T}
  BY <1>3, <1>12
<1>19. /\ {k.pcb[p].disk : p \in M} \cup {EntryOf(q[1], q[2]).blk : q \in T} = Cluster \ k.free
       /\ Cardinality({k.pcb[p].disk : p \in M} \cup {EntryOf(q[1], q[2]).blk : q \in T})
            = Cardinality(M) + Cardinality(T)
  BY <1>16, <1>17, <1>18
<1> QED
  BY <1>2, <1>19 DEF ClusterBalance

------------------------------------------------------------------------------
(* Theorems.                                                               *)

\* The state keeps its types.
THEOREM KernelTypes ==
  ASSUME Settled
  PROVE  Spec => []KernelTypeOK
<1>1. Inv => KernelTypeOK
  BY InvTypes
<1> QED
  BY <1>1, KernelInductive, PTL

\* No pointer into the kernel space dangles: ptl1_ptr, the owner pointers of the frame
\* table and the block numbers of the L1 entries lead to the tables they are taken for.
THEOREM NoneStrays ==
  ASSUME Settled
  PROVE  Spec => []NoStray
<1>1. Inv => NoStray
  BY DEF Inv, Sound, NoStray
<1> QED
  BY <1>1, KernelInductive, PTL

\* The access that is tried again after a page fault finds the descriptor of its page.
THEOREM FaultsServed ==
  ASSUME Settled
  PROVE  Spec => []FaultServed
<1>1. Inv => FaultServed
  BY DEF Inv, FaultServed
<1> QED
  BY <1>1, KernelInductive, PTL

\* Outside the calls that map and unmap, the pages of the segments of a process, and no
\* others, have descriptors, wherever its page tables are.  Page tables come and go; a
\* master table that has left stays on disk, as none is brought back (~Returning), and
\* its entries there lead to the descriptors still.
THEOREM MappingStays ==
  ASSUME Settled
  PROVE  Spec => []MappingKept
<1>1. Inv => MappingKept
  BY InvMapping
<1> QED
  BY <1>1, KernelInductive, PTL

\* Between calls only the master tables that clone_process left locked are locked.
THEOREM LocksBalance ==
  ASSUME Settled
  PROVE  Spec => []LocksReleased
<1>1. Inv => LocksReleased
  BY InvLocks
<1> QED
  BY <1>1, KernelInductive, PTL

\* While no process is destroyed, frame table and tables agree on who owns what.
THEOREM OwnersAgree ==
  ASSUME Settled, "exit" \notin Calls
  PROVE  Spec => []TablesOwned
<1>1. Inv => TablesOwned
  BY InvOwned
<1> QED
  BY <1>1, KernelInductive, PTL

\* While no process is destroyed, a cluster that is not vacant holds one table.
THEOREM ClustersBalance ==
  ASSUME Settled, "exit" \notin Calls
  PROVE  Spec => []ClusterBalance
<1>1. Inv => ClusterBalance
  BY InvBalance
<1> QED
  BY <1>1, KernelInductive, PTL

------------------------------------------------------------------------------
(* What makes calls end.                                                   *)

\* An unlocked frame is a victim, or it is that of a master table, one of whose page
\* tables is.
LEMMA UnlockedServes ==
  ASSUME NEW s, NEW A \in SUBSET Procs, Sound(s, A, {}), s.free # {},
         NEW f \in Frame, ~s.ft[f].locked
  PROVE  Acquire(s) # {}
<1>1. CASE s.empty # <<>>
  BY <1>1 DEF Acquire
<1>2. CASE s.empty = <<>>
  <2>1. Victims(s) # {}
    <3>1. CASE f \in Victims(s)
      BY <3>1
    <3>2. CASE f \notin Victims(s)
      <4>1. PICK t \in Slot : /\ s.ft[f].type = "SegTable"
                              /\ s.mem[f].l1[t].status = "Present"
                              /\ ~s.ft[s.mem[f].l1[t].blk].locked
        BY <3>2 DEF Victims
      <4>2. ~Listed(s.empty, f)
        BY <1>2 DEF Listed
      <4>3. PICK p \in A : In(s, A, p) /\ s.pcb[p].frame = f
        BY <4>1, <4>2 DEF Sound, FramesOK, InUse
      <4>4. Cell(s, p, t) = s.mem[f].l1[t]
        BY <4>3 DEF In, Cell
      <4>5. EntryOK(s, p, t, Cell(s, p, t))
        BY DEF Sound, EntriesOK
      <4>6. PICK g : g = Cell(s, p, t).blk
        OBVIOUS
      <4>7. g \in Frame /\ s.ft[g].type = "PageTable" /\ ~s.ft[g].locked
        BY <4>1, <4>4, <4>5, <4>6 DEF EntryOK
      <4> QED
        BY <4>7 DEF Victims
    <3> QED
      BY <3>1, <3>2
  <2> QED
    BY <1>2, <2>1 DEF Acquire
<1> QED
  BY <1>1, <1>2

\* With two frames more than processes the master tables and one page table cannot
\* take them all.
Spacious == IsFiniteSet(Procs) /\ NFrames > Cardinality(Procs) + 1

\* Frame f is g or one of the frames of the processes in P.
OneOf(f, g, P, h) == f = g \/ \E p \in P : f = h[p]

LEMMA SomeFrameLeft ==
  ASSUME Spacious, NEW P \in SUBSET Procs, NEW h, NEW g
  PROVE  \E f \in Frame : ~OneOf(f, g, P, h)
<1> SUFFICES ASSUME \A f \in Frame : f = g \/ \E p \in P : f = h[p]
             PROVE  FALSE
  BY DEF OneOf
<1>1. PICK D : D = Procs \cup {Nil}
  OBVIOUS
<1>2. /\ IsFiniteSet(D) /\ Cardinality(D) = Cardinality(Procs) + 1
      /\ Cardinality(Procs) \in Nat
  <2>1. Nil \notin Procs
    BY NilAssumption
  <2> QED
    BY <1>1, <2>1, FS_AddElement, FS_CardinalityType DEF Spacious
<1>3. PICK w : w = [f \in Frame |-> IF f = g THEN Nil ELSE CHOOSE p \in P : f = h[p]]
  OBVIOUS
<1>4. \A f \in Frame : f # g => w[f] \in P /\ f = h[w[f]]
  BY <1>3
<1>5. \A f \in Frame : f = g => w[f] = Nil
  BY <1>3
<1>6. w \in [Frame -> D]
  BY <1>1, <1>3, <1>4, <1>5
<1>7. \A e, f \in Frame : w[e] = w[f] => e = f
  <2>1. Nil \notin P
    BY NilAssumption
  <2> QED
    BY <1>4, <1>5, <2>1
<1>8. Cardinality({w[f] : f \in Frame}) = Cardinality(Frame)
  BY <1>2, <1>6, <1>7, ImageCardinality
<1>9. {w[f] : f \in Frame} \in SUBSET D
  BY <1>6
<1>10. Cardinality({w[f] : f \in Frame}) =< Cardinality(D)
  BY <1>2, <1>9, FS_Subset
<1>11. Cardinality(Frame) = NFrames
  BY SizesAssumption, FS_Interval DEF Frame
<1> QED
  BY <1>2, <1>8, <1>10, <1>11, SizesAssumption DEF Spacious

\* So some frame is not locked when the master tables of P and frame g may be.
LEMMA LocksLeaveRoom ==
  ASSUME Spacious, NEW s, NEW A \in SUBSET Procs, Sound(s, A, {}), s.free # {},
         NEW P \in SUBSET Procs, NEW h, NEW g,
         \A f \in Frame : s.ft[f].locked => OneOf(f, g, P, h)
  PROVE  Acquire(s) # {}
<1>1. PICK f \in Frame : ~OneOf(f, g, P, h)
  BY SomeFrameLeft
<1>2. ~s.ft[f].locked
  BY <1>1
<1> QED
  BY <1>2, UnlockedServes

\* The kernel space when clone_segment_from has locked the clone's page table.
LEMMA FirstHad ==
  ASSUME Inv, Running("clone"), job.todo # {},
         NEW s \in HaveTable(k, job.proc, Next1, TRUE)
  PROVE  Had(k, alive, job.proc, Next1, TRUE, s)
<1>1. PICK p, t : p = job.proc /\ t = Next1
  OBVIOUS
<1>2. job.call = "clone"
  BY DEF Running
<1>3. /\ alive \in SUBSET Procs /\ Sound(k, alive, {}) /\ LockedFor(k, alive, Holding)
      /\ p \in alive /\ In(k, alive, p) /\ Parented(k, alive) /\ Loose(k, alive)
      /\ t \in Slot
  BY <1>1, <1>2, InCall
<1>4. k.ft[k.pcb[p].frame].locked
  BY <1>1, <1>2, <1>3 DEF LockedFor, Holding
<1> QED
  BY <1>1, <1>3, <1>4, HaveTableWorks

LEMMA InvVictim ==
  ASSUME Inv, Settled, Spacious
  PROVE  VictimFound
<1>1. /\ alive \in SUBSET Procs /\ Sound(k, alive, {}) /\ LockedFor(k, alive, Holding)
  BY DEF Inv, LocksOK
<1>2. PICK h : h = [p \in Procs |-> k.pcb[p].frame]
  OBVIOUS
<1>3. Holding \in SUBSET Procs /\ Holding \in SUBSET alive
  BY <1>1 DEF LockedFor
<1>4. \A g, f : f \in Frame /\ k.ft[f].locked => OneOf(f, g, Holding, h)
  BY <1>1, <1>2, <1>3 DEF LockedFor, OneOf
<1>5. k.free # {} => Acquire(k) # {}
  <2>1. \A f \in Frame : k.ft[f].locked => OneOf(f, Nil, Holding, h)
    BY <1>4
  <2> QED
    BY <1>1, <1>3, <2>1, LocksLeaveRoom
<1>6. ASSUME Running("clone"), job.todo # {}, NEW s \in HaveTable(k, job.proc, Next1, TRUE),
             s.free # {}
      PROVE  Acquire(s) # {}
  <2>1. PICK p, t : p = job.proc /\ t = Next1
    OBVIOUS
  <2>2. Had(k, alive, p, t, TRUE, s)
    BY <1>6, <2>1, FirstHad
  <2>3. PICK g : g = Cell(s, p, t).blk
    OBVIOUS
  <2>4. Sound(s, alive, {}) /\ \A f \in Frame : s.ft[f].locked => k.ft[f].locked \/ f = g
    BY <2>2, <2>3 DEF Had
  <2>5. \A f \in Frame : s.ft[f].locked => OneOf(f, g, Holding, h)
    BY <1>4, <2>4 DEF OneOf
  <2> QED
    BY <1>1, <1>3, <1>6, <2>4, <2>5, LocksLeaveRoom
<1> QED
  BY <1>5, <1>6 DEF VictimFound

\* ks_get_victim ends for clients that are Settled, if there are two frames more than
\* processes: never do locks keep every frame from leaving.
THEOREM VictimsFound ==
  ASSUME Settled, Spacious
  PROVE  Spec => []VictimFound
<1>1. Inv => VictimFound
  BY InvVictim
<1> QED
  BY <1>1, KernelInductive, PTL

\* The call has ended, or there is less to do of the segment, or a segment less.
LessToDo ==
  \/ job' = NoCall
  \/ job'.left = job.left /\ job'.todo \subseteq job.todo /\ job'.todo # job.todo
  \/ job.todo = {} /\ job'.left \subseteq job.left /\ job'.left # job.left

LEMMA StepShrinks ==
  ASSUME Inv, Next, job # NoCall
  PROVE  LessToDo
<1>1. job.call # "none" /\ job \in Jobs
  BY DEF Inv, JobOK
<1>2. job.todo # {} => Next1 \in job.todo
  BY <1>1, InCall
<1>3. ASSUME job.todo # {}, job' = [job EXCEPT !.todo = Rest]
      PROVE  LessToDo
  <2>1. job'.todo = job.todo \ {Next1} /\ job'.left = job.left
    BY <1>1, <1>3 DEF Rest, Jobs
  <2> QED
    BY <1>2, <1>3, <2>1 DEF LessToDo
<1>4. CASE CreatePage \/ DeletePage \/ ClonePage
  <2>1. job.todo # {} /\ job' = [job EXCEPT !.todo = Rest]
    BY <1>4 DEF CreatePage, DeletePage, ClonePage
  <2> QED
    BY <1>3, <2>1
<1>5. CASE Serve
  <2>1. job.todo # {} /\ job' = [job EXCEPT !.todo = {}]
    BY <1>5 DEF Serve
  <2>2. job'.todo = {} /\ job'.left = job.left
    BY <1>1, <2>1 DEF Jobs
  <2> QED
    BY <2>1, <2>2 DEF LessToDo
<1>6. CASE NextSegment
  <2>1. PICK T \in job.left :
          job' = [job EXCEPT !.first = Min(T), !.todo = T, !.left = @ \ {T}]
    BY <1>6 DEF NextSegment
  <2>2. job'.left = job.left \ {T} /\ job.todo = {}
    BY <1>1, <1>6, <2>1 DEF NextSegment, Jobs
  <2> QED
    BY <2>2 DEF LessToDo
<1>7. CASE Return \/ Disconnected \/ Cloned \/ Gone
  BY <1>7 DEF Return, Disconnected, Cloned, Gone, LessToDo
<1>8. CASE \/ \E p \in Procs : CreateProcess(p) \/ DeleteProcess(p)
           \/ \E p, q \in Procs : CloneProcess(p, q)
           \/ \E p \in Procs, T \in Interval :
                CreateSegment(p, T) \/ DeleteSegment(p, T) \/ Disconnect(p, T)
           \/ \E p \in Procs, t \in Slot : Touch(p, t)
  <2>1. Ready
    BY <1>8 DEF CreateProcess, DeleteProcess, CloneProcess, CreateSegment, DeleteSegment,
                Disconnect, Touch, Call
  <2> QED
    BY <2>1 DEF Ready
<1> QED
  BY <1>4, <1>5, <1>6, <1>7, <1>8 DEF Next

\* Every step while a call is in progress ends it or leaves it less to do.
THEOREM CallShrinks ==
  ASSUME Settled
  PROVE  Spec => [][job # NoCall => LessToDo]_vars
<1>1. Inv /\ [Next]_vars => [job # NoCall => LessToDo]_vars
  BY StepShrinks
<1> QED
  BY <1>1, KernelInductive, PTL DEF Spec

------------------------------------------------------------------------------
(* No page table is left behind, and the disk has room.                    *)

\* A step that ends a call, but for a destructor, moves no table.
LEMMA RelockParented ==
  ASSUME NEW s, NEW A, Parented(s, A), NEW n, Relock(s, n)
  PROVE  Parented(n, A)
<1>1. /\ n.pcb = s.pcb
      /\ \A f \in Frame : n.ft[f].type = s.ft[f].type /\ n.ft[f].owner = s.ft[f].owner
  BY DEF Relock
<1>2. \A f \in Frame : Parent(n, A, f) <=> Parent(s, A, f)
  BY <1>1 DEF Parent, In
<1> QED
  BY <1>1, <1>2 DEF Parented

\* Steps after which a call is in progress.
LEMMA StaysInCall ==
  ASSUME Inv, job.call # "none", NEW x, NEW y, NEW z,
         \/ job' = [job EXCEPT !.todo = x]
         \/ job' = [job EXCEPT !.first = y, !.todo = x, !.left = z]
  PROVE  job'.call # "none"
<1>1. job \in Jobs
  BY DEF Inv, JobOK
<1> QED
  BY <1>1 DEF Jobs

\* Page tables have their master tables, from one state to the next.
LEMMA ParentedNext ==
  ASSUME Inv, Inv', Settled, "exit" \notin Calls, Parented(k, alive), [Next]_vars
  PROVE  Parented(k', alive')
<1>1. CASE job'.call # "none"
  BY <1>1 DEF Inv, JobOK
<1>2. CASE UNCHANGED vars
  BY <1>2 DEF vars
<1>3. ASSUME NEW p \in Procs, CreateProcess(p) PROVE Parented(k', alive')
  <2>1. /\ Ready /\ p \notin alive /\ alive' = alive \cup {p} /\ k' \in NewProcess(k, p, FALSE)
    BY <1>3 DEF CreateProcess
  <2>2. alive \in SUBSET Procs /\ Sound(k, alive, {}) /\ Parented(k, alive) /\ Loose(k, alive)
    BY <2>1, AtRest DEF Inv
  <2>3. Created(k, alive, p, FALSE, k')
    BY <2>1, <2>2, NewProcessWorks
  <2> QED
    BY <2>1, <2>3 DEF Created
<1>4. CASE Return \/ Disconnected \/ Cloned
  <2>1. Relock(k, k') /\ alive' = alive
    BY <1>4, ReturnStep, DisconnectedStep, ClonedStep
  <2> QED
    BY <2>1, RelockParented
<1>5. ~Gone
  BY DEF Gone, Running, Inv
<1>6. ASSUME NEW p, NEW call \in Calls, NEW T, NEW rest, Call(p, call, T, rest)
      PROVE  job'.call # "none"
  BY <1>6, CallsAssumption DEF Call
<1>7. CASE \E p \in Procs : DeleteProcess(p)
  BY <1>1, <1>6, <1>7 DEF DeleteProcess, Call
<1>8. CASE \E p, q \in Procs : CloneProcess(p, q)
  BY <1>1, <1>8 DEF CloneProcess, NoCall
<1>9. CASE \E p \in Procs, T \in Interval :
             CreateSegment(p, T) \/ DeleteSegment(p, T) \/ Disconnect(p, T)
  BY <1>1, <1>9 DEF CreateSegment, DeleteSegment, Disconnect, Call, NoCall
<1>10. CASE \E p \in Procs, t \in Slot : Touch(p, t)
  BY <1>1, <1>10 DEF Touch, Call
<1>11. CASE CreatePage \/ Serve \/ DeletePage \/ ClonePage
  <2>1. job.call # "none" /\ \E x : job' = [job EXCEPT !.todo = x]
    BY <1>11 DEF CreatePage, Serve, DeletePage, ClonePage, Running
  <2> QED
    BY <1>1, <2>1, StaysInCall
<1>12. CASE NextSegment
  <2>1. /\ job.call # "none"
        /\ \E x, y, z : job' = [job EXCEPT !.first = y, !.todo = x, !.left = z]
    BY <1>12 DEF NextSegment
  <2> QED
    BY <1>1, <2>1, StaysInCall
<1> QED
  BY <1>2, <1>3, <1>4, <1>5, <1>7, <1>8, <1>9, <1>10, <1>11, <1>12 DEF Next

\* The invariant while no process is destroyed.
Whole == Inv /\ Parented(k, alive)

LEMMA WholeInductive ==
  ASSUME Settled, "exit" \notin Calls
  PROVE  Spec => []Whole
<1>1. Init => Whole
  <2> SUFFICES ASSUME Init PROVE Parented(k, alive)
    BY InvInit DEF Whole
  <2>1. k.ft = [f \in Frame |-> NoFrame]
    BY DEF Init
  <2> QED
    BY <2>1 DEF Parented, NoFrame
<1>2. Whole /\ [Next]_vars => Whole'
  BY InvNext, ParentedNext DEF Whole
<1> QED
  BY <1>1, <1>2, PTL DEF Spec

\* While no process is destroyed no page table loses its master table: Orphaning then
\* holds clients back from nothing.
THEOREM NoneLeftBehind ==
  ASSUME Settled, "exit" \notin Calls
  PROVE  Spec => [](Orphans = {})
<1>1. Whole => Orphans = {}
  BY DEF Whole, Orphans, Parented, Parent, In
<1> QED
  BY <1>1, WholeInductive, PTL

\* A place is a frame or, after them, a cluster. Table t of process p lies at place x;
\* its master table is the one after the last of its page tables.
LiesAt(s, A, p, t, x) ==
  \/ t = NTables /\ In(s, A, p) /\ s.pcb[p].frame = x
  \/ t = NTables /\ Out(s, A, p) /\ s.pcb[p].disk + NFrames = x
  \/ t \in Slot /\ p \in A /\ Cell(s, p, t).status = "Present" /\ Cell(s, p, t).blk = x
  \/ t \in Slot /\ p \in A /\ Cell(s, p, t).status = "PagedOut"
       /\ Cell(s, p, t).blk # Nil /\ Cell(s, p, t).blk + NFrames = x

\* In a sound kernel space every table lies at one place.
LEMMA OnePlace ==
  ASSUME NEW s, NEW A \in SUBSET Procs, Sound(s, A, {}),
         NEW p, NEW t, NEW x, NEW y, LiesAt(s, A, p, t, x), LiesAt(s, A, p, t, y)
  PROVE  x = y
<1>1. NTables \notin Slot
  BY NilApart DEF Slot
<1> QED
  BY <1>1 DEF LiesAt, In, Out

\* Where no frame is empty and no cluster vacant, there is a table at every place.
LEMMA AllTaken ==
  ASSUME NEW s, NEW A \in SUBSET Procs, Sound(s, A, {}), Parented(s, A), Tight(s, A),
         s.empty = <<>>, s.free = {}, NEW x \in 0 .. NFrames + NClusters - 1
  PROVE  \E p \in Procs, t \in 0 .. NTables : LiesAt(s, A, p, t, x)
<1>1. /\ NTables \in Nat /\ NFrames \in Nat /\ NClusters \in Nat
      /\ NTables \in 0 .. NTables /\ Slot \subseteq 0 .. NTables
  BY NilApart DEF Slot
<1>2. CASE x < NFrames
  <2>1. x \in Frame
    BY <1>1, <1>2 DEF Frame
  <2>2. InUse(s, A, x)
    BY <2>1 DEF Sound, FramesOK, Listed
  <2>3. CASE \E p \in A : In(s, A, p) /\ s.pcb[p].frame = x
    BY <1>1, <2>3 DEF LiesAt
  <2>4. CASE s.ft[x].type = "PageTable"
    <3>1. PICK p \in A, t \in Slot : In(s, A, p) /\ Child(s, p, t, x)
      BY <2>1, <2>4 DEF Sound, OwnersOK, Parented
    <3>2. Cell(s, p, t).status = "Present" /\ Cell(s, p, t).blk = x
      BY <3>1 DEF Child
    <3> QED
      BY <1>1, <3>2 DEF LiesAt
  <2> QED
    BY <2>2, <2>3, <2>4 DEF InUse
<1>3. CASE ~(x < NFrames)
  <2>1. PICK c \in Cluster : c + NFrames = x
    <3>1. x - NFrames \in Cluster /\ (x - NFrames) + NFrames = x
      BY <1>1, <1>3 DEF Cluster
    <3> QED
      BY <3>1
  <2>2. Held(s, A, c)
    BY DEF Tight
  <2>3. CASE \E p \in A : Out(s, A, p) /\ s.pcb[p].disk = c
    BY <1>1, <2>1, <2>3 DEF LiesAt
  <2>4. CASE \E p \in A, t \in Slot : Stored(s, p, t, c)
    BY <1>1, <2>1, <2>4 DEF LiesAt, Stored
  <2> QED
    BY <2>2, <2>3, <2>4 DEF Held
<1> QED
  BY <1>2, <1>3

\* There are more places than tables, so one of them is free.
LEMMA RoomLeft ==
  ASSUME IsFiniteSet(Procs), Roomy, NEW s, NEW A \in SUBSET Procs,
         Sound(s, A, {}), Parented(s, A), Tight(s, A), s.empty = <<>>
  PROVE  s.free # {}
<1> SUFFICES ASSUME s.free = {} PROVE FALSE
  OBVIOUS
<1>1. PICK D, X : D = Procs \X (0 .. NTables) /\ X = 0 .. NFrames + NClusters - 1
  OBVIOUS
<1>2. /\ NTables \in Nat /\ NFrames \in Nat \ {0} /\ NClusters \in Nat \ {0}
  BY SizesAssumption
<1>3. IsFiniteSet(D) /\ Cardinality(D) = Cardinality(Procs) * (NTables + 1)
  <2>1. IsFiniteSet(0 .. NTables) /\ Cardinality(0 .. NTables) = NTables + 1
    BY <1>2, FS_Interval
  <2> QED
    BY <1>1, <2>1, FS_Product
<1>4. IsFiniteSet(X) /\ Cardinality(X) = NFrames + NClusters
  <2>1. NFrames + NClusters - 1 \in Int /\ ~(0 > NFrames + NClusters - 1)
    BY <1>2
  <2> QED
    BY <1>1, <1>2, <2>1, FS_Interval
<1>5. Cardinality(D) < Cardinality(X)
  BY <1>3, <1>4 DEF Roomy
<1>6. \A x \in X : \E d \in D : LiesAt(s, A, d[1], d[2], x)
  <2> SUFFICES ASSUME NEW x \in X PROVE \E d \in D : LiesAt(s, A, d[1], d[2], x)
    OBVIOUS
  <2>1. PICK p \in Procs, t \in 0 .. NTables : LiesAt(s, A, p, t, x)
    BY <1>1, AllTaken
  <2>2. <<p, t>> \in D /\ <<p, t>>[1] = p /\ <<p, t>>[2] = t
    BY <1>1
  <2> QED
    BY <2>1, <2>2
<1>7. PICK w : w = [x \in X |-> CHOOSE d \in D : LiesAt(s, A, d[1], d[2], x)]
  OBVIOUS
<1>8. \A x \in X : w[x] \in D /\ LiesAt(s, A, w[x][1], w[x][2], x)
  BY <1>6, <1>7
<1>9. w \in [X -> D]
  BY <1>7, <1>8
<1>10. PICK x, y \in X : x # y /\ w[x] = w[y]
  BY <1>3, <1>4, <1>5, <1>9, FS_PigeonHole
<1> QED
  BY <1>8, <1>10, OnePlace

LEMMA WholeRoom ==
  ASSUME Whole, "exit" \notin Calls, IsFiniteSet(Procs)
  PROVE  DiskSuffices
<1>1. alive \in SUBSET Procs /\ Sound(k, alive, {}) /\ Parented(k, alive) /\ Tight(k, alive)
  BY DEF Whole, Inv
<1> QED
  BY <1>1, RoomLeft DEF DiskSuffices

\* ks_swap_out never halts for want of a cluster, while no process is destroyed, if
\* frames and clusters outnumber the tables there can be.
THEOREM DiskNeverFull ==
  ASSUME Settled, "exit" \notin Calls, IsFiniteSet(Procs)
  PROVE  Spec => []DiskSuffices
<1>1. Whole => DiskSuffices
  BY WholeRoom
<1> QED
  BY <1>1, WholeInductive, PTL

\* ks_acquire_page has an answer, for the second table of clone_segment_from too.
FrameFound ==
  /\ Acquire(k) # {}
  /\ Running("clone") /\ job.todo # {} =>
       \A s \in HaveTable(k, job.proc, Next1, TRUE) : Acquire(s) # {}

LEMMA WholeFrame ==
  ASSUME Whole, Settled, Spacious, Roomy, "exit" \notin Calls
  PROVE  FrameFound
<1>1. /\ VictimFound /\ IsFiniteSet(Procs) /\ Inv
      /\ alive \in SUBSET Procs /\ Sound(k, alive, {}) /\ Parented(k, alive) /\ Tight(k, alive)
  BY InvVictim DEF Whole, Spacious, Inv
<1>2. \A s : s.empty # <<>> => Acquire(s) # {}
  BY DEF Acquire
<1>3. Acquire(k) # {}
  <2>1. CASE k.empty # <<>>
    BY <1>2, <2>1
  <2>2. CASE k.empty = <<>>
    <3>1. k.free # {}
      BY <1>1, <2>2, RoomLeft
    <3> QED
      BY <1>1, <3>1 DEF VictimFound
  <2> QED
    BY <2>1, <2>2
<1>4. ASSUME Running("clone"), job.todo # {}, NEW s \in HaveTable(k, job.proc, Next1, TRUE)
      PROVE  Acquire(s) # {}
  <2>1. CASE s.empty # <<>>
    BY <1>2, <2>1
  <2>2. CASE s.empty = <<>>
    <3>1. Had(k, alive, job.proc, Next1, TRUE, s)
      BY <1>1, <1>4, FirstHad
    <3>2. Sound(s, alive, {}) /\ Parented(s, alive) /\ Tight(s, alive)
      BY <1>1, <3>1 DEF Had
    <3>3. s.free # {}
      BY <1>1, <2>2, <3>2, RoomLeft
    <3> QED
      BY <1>1, <1>4, <3>3 DEF VictimFound
  <2> QED
    BY <2>1, <2>2
<1> QED
  BY <1>3, <1>4 DEF FrameFound

\* While no process is destroyed, no call waits for a frame for ever or halts for want
\* of a cluster, if there is room: two frames more than processes, and more frames and
\* clusters than tables.
THEOREM FramesFound ==
  ASSUME Settled, Spacious, Roomy, "exit" \notin Calls
  PROVE  Spec => []FrameFound
<1>1. Whole => FrameFound
  BY WholeFrame
<1> QED
  BY <1>1, WholeInductive, PTL
=============================================================================
