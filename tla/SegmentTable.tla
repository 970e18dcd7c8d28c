---------------------------- MODULE SegmentTable ----------------------------
(***************************************************************************)
(* The segment table of a process: how create_segment, load_segment and    *)
(* delete_segment turn addresses and sizes into entries of the table, and  *)
(* the InSeg flags of the pages.  Numbers keep their widths: a start page  *)
(* and a length have as many bits as a page number, and two of the three   *)
(* operations keep only the lower bits of the page number of an address.   *)
(*                                                                         *)
(* Scope.  One process, all tables in memory, addresses inside the address *)
(* space.  What clients were told OK for and have not deleted is           *)
(* `granted'; `modest' says how they have behaved so far.                  *)
(***************************************************************************)
EXTENDS Integers, FiniteSets, FiniteSetsExt

CONSTANTS
  NPages,      \* pages of an address space, 2^14
  LowPages,    \* pages that the mask 0x03FF tells apart, 2^10
  PAGE_SIZE,   \* bytes of a page, 2^10
  MaxSegments, \* KernelProcess::MAX_SEGMENTS
  Leftover     \* numbers that entries hold before they are used

ASSUME WidthsAssumption ==
  /\ {NPages, LowPages, PAGE_SIZE, MaxSegments} \subseteq Nat \ {0}
  /\ NPages % LowPages = 0 /\ LowPages < NPages
  /\ Leftover \subseteq 0 .. NPages - 1

PageNo == 0 .. NPages - 1
Entry  == 0 .. MaxSegments - 1

VARIABLES
  st,        \* the table: whether an entry is free, its start page and length
  seg_count, \* segments in the table
  inseg,     \* pages whose descriptor has the InSeg flag
  granted,   \* segments the client has, as long as it is modest
  modest,    \* the client has used pages below LowPages only, and deleted what it had
  outcome    \* running, or halted by HALT, or wild after an uninitialised entry was used

vars == <<st, seg_count, inseg, granted, modest, outcome>>

\* set_master_table sets the kind of the entries; the rest of an entry is what the
\* frame held before.
Init ==
  /\ st \in [Entry -> [free : {TRUE}, start : Leftover, length : Leftover]]
  /\ seg_count = 0
  /\ inseg = {}
  /\ granted = {}
  /\ modest = TRUE
  /\ outcome = "running"

\* The pages that access_ptl1 and access_ptl2 find for a range of addresses.
Covered(first, size) == {(first + i) % NPages : i \in 0 .. size - 1}

\* The last page of an entry; start and length 0 wrap around in a size_t.
Last(e) == IF e.start + e.length = 0 THEN NPages * PAGE_SIZE ELSE e.start + e.length - 1

\* Mutant: the length has all the bits of a size.
WholeLength(size) == size

\* SegTableEntry::set_length keeps 14 bits.
Length(size) == size % NPages

\* Mutant: an entry may end where the next one begins.
Overtouch(e, ordinal, page, size) ==
  ~(Last(e) <= ordinal \/ e.start > page * PAGE_SIZE + size - 1)

\* The overlap test, with a page number on one side and an address on the other.
Overlaps(e, ordinal, page, size) ==
  ~(Last(e) < ordinal \/ e.start > page * PAGE_SIZE + size - 1)

CanPlace(page, ordinal, size) ==
  /\ outcome = "running"
  /\ seg_count # MaxSegments
  /\ \A i \in Entry : st[i].free \/ ~Overlaps(st[i], ordinal, page, size)

\* create_segment and load_segment of an aligned address, which differ in what
\* they take for the page number.
Place(page, ordinal, size) ==
  /\ CanPlace(page, ordinal, size)
  /\ \E i \in Entry : st[i].free
  /\ LET i == Min({i \in Entry : st[i].free})
     IN  st' = [st EXCEPT ![i] = [free   |-> FALSE,
                                  start  |-> ordinal,
                                  length |-> Length(size)]]
  /\ seg_count' = seg_count + 1
  /\ inseg' = inseg \cup Covered(page, size)
  /\ modest' = (modest /\ page + size <= LowPages)
  /\ granted' = IF modest' THEN granted \cup {[first |-> page, size |-> size]} ELSE {}
  /\ UNCHANGED outcome

\* There are fewer segments by seg_count than entries in use, and `entry' is used
\* without a value.
Stray(page, ordinal, size) ==
  /\ CanPlace(page, ordinal, size)
  /\ \A i \in Entry : ~st[i].free
  /\ outcome' = "wild"
  /\ UNCHANGED <<st, seg_count, inseg, granted, modest>>

CreateSegment(page, size) == Place(page, page, size) \/ Stray(page, page, size)

LoadSegment(page, size) ==
  LET ordinal == page % LowPages
  IN  Place(page, ordinal, size) \/ Stray(page, ordinal, size)

Freed(i) == [st EXCEPT ![i].free = TRUE]

\* delete_segment_ind: it halts at a page that is in no segment.
DeleteInd(i) ==
  LET gone == Covered(st[i].start, st[i].length)
  IN  IF gone \subseteq inseg
      THEN /\ inseg' = inseg \ gone
           /\ st' = Freed(i)
           /\ seg_count' = seg_count - 1
           /\ UNCHANGED outcome
      ELSE /\ outcome' = "halted"
           /\ UNCHANGED <<st, seg_count, inseg>>

\* delete_segment: the lowest entry with the start page, free or not.
DeleteSegment(page) ==
  LET found == {i \in Entry : st[i].start = page % LowPages}
  IN  /\ outcome = "running"
      /\ seg_count # 0
      /\ found # {}
      /\ DeleteInd(Min(found))
      /\ modest' = (modest /\ \E g \in granted : g.first = page)
      /\ granted' = IF modest' THEN {g \in granted : g.first # page} ELSE {}

Next ==
  \/ \E page \in PageNo :
       \/ \E size \in 1 .. NPages - page : CreateSegment(page, size) \/ LoadSegment(page, size)
       \/ DeleteSegment(page)

Spec == Init /\ [][Next]_vars

------------------------------------------------------------------------------
(* Properties.                                                             *)

SegmentTypeOK ==
  /\ st \in [Entry -> [free : BOOLEAN, start : PageNo, length : PageNo]]
  /\ seg_count \in 0 .. MaxSegments
  /\ inseg \subseteq PageNo
  /\ granted \subseteq [first : PageNo, size : 1 .. NPages]
  /\ modest \in BOOLEAN
  /\ outcome \in {"running", "halted", "wild"}

\* For a modest client the table is what it was told: an entry in use for each
\* segment it has, the entries are counted, segments do not overlap, the pages in a
\* segment are theirs, and no HALT and no entry without a value is reached.
TableTells ==
  modest =>
    /\ {[first |-> st[i].start, size |-> st[i].length] : i \in {i \in Entry : ~st[i].free}}
         = granted
    /\ seg_count = Cardinality(granted)
    /\ inseg = UNION {Covered(g.first, g.size) : g \in granted}
    /\ \A g, h \in granted :
         g # h => Covered(g.first, g.size) \cap Covered(h.first, h.size) = {}
    /\ outcome = "running"
=============================================================================
