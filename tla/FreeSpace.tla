------------------------------ MODULE FreeSpace ------------------------------
(***************************************************************************)
(* How KernelSystem keeps what is free: empty pages are a list, linked     *)
(* through the pages themselves, and vacant clusters are bits of the words *)
(* of the disk vacancy table, the highest bit first.                       *)
(*                                                                         *)
(* A list is [head, tail, count]; the links are what the empty pages have  *)
(* as content.  A word is the set of its bits that are set.                *)
(***************************************************************************)
EXTENDS Integers, Sequences

CONSTANTS
  NFrames,    \* pages that are linked
  DiskSize,   \* clusters of the disk
  DVTE_SIZE,  \* bits of a word
  Nil         \* the null pointer

Frame   == 0 .. NFrames - 1
Cluster == 0 .. DiskSize - 1

ASSUME FramesAssumption == NFrames \in Nat \ {0} /\ Nil \notin Frame
ASSUME WordsAssumption  == DiskSize \in Nat /\ DVTE_SIZE \in Nat \ {0}

------------------------------------------------------------------------------
(* Lists of empty pages.                                                   *)

\* lst_link_empty_space: every page is linked to the one behind it.
LinkedList  == [head |-> 0, tail |-> NFrames - 1, count |-> NFrames]
LinkedPages == [f \in Frame |-> IF f + 1 \in Frame THEN f + 1 ELSE Nil]

\* What lst_get_empty_page leaves of a list whose count is not 0; it returns the
\* head.
LstGetEmptyPage(l, link) ==
  [head  |-> IF l.head # l.tail THEN link[l.head] ELSE Nil,
   tail  |-> IF l.head # l.tail THEN l.tail ELSE Nil,
   count |-> l.count - 1]

\* Mutant: the tail stays where it was.
TailStays(l, f) ==
  [head |-> IF l.head = Nil THEN f ELSE l.head,
   tail |-> IF l.head = Nil THEN f ELSE l.tail, count |-> l.count + 1]

\* lst_return_page: the list with page f, and the links.
LstReturnPage(l, f) ==
  [head |-> IF l.head = Nil THEN f ELSE l.head, tail |-> f, count |-> l.count + 1]

LinksOfReturn(l, link, f) ==
  IF l.head = Nil THEN [link EXCEPT ![f] = Nil]
  ELSE [link EXCEPT ![l.tail] = f, ![f] = Nil]

\* The list holds the pages of s, in this order.
Represents(l, link, s) ==
  /\ l.count = Len(s)
  /\ \A i, j \in DOMAIN s : s[i] = s[j] => i = j
  /\ \A i \in DOMAIN s : i < Len(s) => link[s[i]] = s[i + 1]
  /\ IF s = <<>> THEN l.head = Nil
     ELSE l.head = s[1] /\ l.tail = s[Len(s)]

------------------------------------------------------------------------------
(* The disk vacancy table.                                                 *)

Words == 0 .. (DiskSize + DVTE_SIZE - 1) \div DVTE_SIZE - 1
Bits  == 0 .. DVTE_SIZE - 1

\* The cluster of a bit, and the word and the bit of a cluster.
ClusterOf(w, b) == w * DVTE_SIZE + (DVTE_SIZE - b - 1)
WordOf(c) == c \div DVTE_SIZE
BitOf(c)  == DVTE_SIZE - (c % DVTE_SIZE) - 1

\* The constructor sets every bit and clears those behind the end of the disk,
\* the lowest ones of the last word.
InitialDvt ==
  LET unused == IF DiskSize % DVTE_SIZE # 0 THEN DVTE_SIZE - (DiskSize % DVTE_SIZE) ELSE 0
  IN  [w \in Words |-> IF w + 1 \in Words THEN Bits ELSE Bits \ (0 .. unused - 1)]

DvtMark(dvt, c, vacant) ==
  [dvt EXCEPT ![WordOf(c)] = IF vacant THEN @ \cup {BitOf(c)} ELSE @ \ {BitOf(c)}]

\* dvt_acquire_cluster takes the highest bit b of the first word w that is not 0.
Found(dvt, w, b) ==
  /\ \A v \in Words : v < w => dvt[v] = {}
  /\ b \in dvt[w]
  /\ \A a \in dvt[w] : a <= b

DvtAcquireCluster(dvt) ==
  UNION {{[cluster |-> ClusterOf(w, b), dvt |-> [dvt EXCEPT ![w] = @ \ {b}]] :
           b \in {a \in Bits : Found(dvt, w, a)}} : w \in Words}

\* The clusters the table says are vacant.
Vacant(dvt) == {c \in Cluster : BitOf(c) \in dvt[WordOf(c)]}

\* Only clusters of the disk have bits that are set.
NoPadding(dvt) == \A w \in Words : \A b \in dvt[w] : ClusterOf(w, b) \in Cluster
=============================================================================
