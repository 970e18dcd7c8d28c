-------------------------- MODULE UserThreadsProofs --------------------------
(***************************************************************************)
(* Machine-checked proofs about UserThreads and the lists and clusters of  *)
(* FreeSpace it uses.  For any number of threads, pages, frames and        *)
(* clusters, clients that let calls overlap only where no page has to      *)
(* leave lose no frame, no cluster and no content.                         *)
(***************************************************************************)
EXTENDS UserThreads, SequenceTheorems, NumberFacts, TLAPS

------------------------------------------------------------------------------
(* Lists and clusters, for any number of pages, any disk and any width of  *)
(* the words of the disk vacancy table.                                    *)

(* Numbers.                                                                *)

\* Division by a word's width.
LEMMA Division ==
  ASSUME NEW c \in Nat
  PROVE  \E q \in Nat, r \in 0 .. DVTE_SIZE - 1 :
           /\ q = c \div DVTE_SIZE
           /\ r = c % DVTE_SIZE
           /\ c = q * DVTE_SIZE + r
<1>0. DVTE_SIZE \in Nat /\ DVTE_SIZE > 0
  BY WordsAssumption
<1>1. PICK q, r \in Int : q = c \div DVTE_SIZE /\ r = c % DVTE_SIZE /\ c = q * DVTE_SIZE + r
  BY <1>0, Z3
<1>2. c % DVTE_SIZE \in 0 .. DVTE_SIZE - 1
  BY <1>0
<1>3. c \div DVTE_SIZE \in Nat
  BY <1>0
<1> QED
  BY <1>1, <1>2, <1>3

LEMMA Quotient ==
  ASSUME NEW w \in Nat, NEW r \in 0 .. DVTE_SIZE - 1
  PROVE  /\ (w * DVTE_SIZE + r) \div DVTE_SIZE = w
         /\ (w * DVTE_SIZE + r) % DVTE_SIZE = r
BY WordsAssumption

LEMMA Monotone ==
  ASSUME NEW v \in Nat, NEW w \in Nat, v < w
  PROVE  v * DVTE_SIZE + DVTE_SIZE =< w * DVTE_SIZE
BY WordsAssumption

\* The number of words is enough for the disk, and no word is too many.
LEMMA WordCount ==
  \E n \in Nat : /\ Words = 0 .. n - 1
                /\ n * DVTE_SIZE >= DiskSize
                /\ n * DVTE_SIZE < DiskSize + DVTE_SIZE
<1>0. DVTE_SIZE \in Nat /\ DVTE_SIZE > 0 /\ DiskSize \in Nat
  BY WordsAssumption
<1>1. DiskSize + DVTE_SIZE - 1 \in Nat
  BY <1>0
<1>2. PICK n \in Nat, r \in 0 .. DVTE_SIZE - 1 :
        /\ n = (DiskSize + DVTE_SIZE - 1) \div DVTE_SIZE
        /\ DiskSize + DVTE_SIZE - 1 = n * DVTE_SIZE + r
  BY <1>1, Division
<1>3. n * DVTE_SIZE \in Nat
  BY <1>0
<1> QED
  BY <1>0, <1>2, <1>3 DEF Words

------------------------------------------------------------------------------
(* The disk vacancy table.                                                 *)

\* Word and bit of a cluster are those of the cluster of the word and bit.
LEMMA ClusterOfBit ==
  ASSUME NEW w \in Words, NEW b \in Bits
  PROVE  /\ ClusterOf(w, b) \in Nat
         /\ WordOf(ClusterOf(w, b)) = w
         /\ BitOf(ClusterOf(w, b)) = b
<1>0. DVTE_SIZE \in Nat /\ DVTE_SIZE > 0
  BY WordsAssumption
<1>1. w \in Nat /\ DVTE_SIZE - b - 1 \in 0 .. DVTE_SIZE - 1
  BY <1>0, WordCount DEF Bits
<1>2. w * DVTE_SIZE \in Nat
  BY <1>0, <1>1
<1>3. /\ ClusterOf(w, b) \div DVTE_SIZE = w
      /\ ClusterOf(w, b) % DVTE_SIZE = DVTE_SIZE - b - 1
  BY <1>1, Quotient DEF ClusterOf
<1>4. DVTE_SIZE - (DVTE_SIZE - b - 1) - 1 = b
  BY <1>0 DEF Bits
<1> QED
  BY <1>1, <1>2, <1>3, <1>4 DEF WordOf, BitOf, ClusterOf

\* Every cluster has a bit of a word.
LEMMA BitOfCluster ==
  ASSUME NEW c \in Cluster
  PROVE  /\ WordOf(c) \in Words /\ BitOf(c) \in Bits
         /\ ClusterOf(WordOf(c), BitOf(c)) = c
<1>0. DVTE_SIZE \in Nat /\ DVTE_SIZE > 0 /\ DiskSize \in Nat /\ c \in Nat /\ c < DiskSize
  BY WordsAssumption DEF Cluster
<1>1. PICK q \in Nat, r \in 0 .. DVTE_SIZE - 1 :
        q = c \div DVTE_SIZE /\ r = c % DVTE_SIZE /\ c = q * DVTE_SIZE + r
  BY <1>0, Division
<1>2. PICK n \in Nat : Words = 0 .. n - 1 /\ n * DVTE_SIZE >= DiskSize
  BY WordCount
<1>3. WordOf(c) = q /\ BitOf(c) = DVTE_SIZE - r - 1
  BY <1>1 DEF WordOf, BitOf
<1>4. q < n
  <2>1. CASE q = n
    BY <1>0, <1>1, <1>2, <2>1
  <2>2. CASE q > n
    <3>1. n * DVTE_SIZE + DVTE_SIZE =< q * DVTE_SIZE
      BY <2>2, Monotone
    <3>2. n * DVTE_SIZE \in Nat /\ q * DVTE_SIZE \in Nat
      BY <1>0
    <3> QED
      BY <1>0, <1>1, <1>2, <3>1, <3>2
  <2> QED
    BY <2>1, <2>2
<1>5. BitOf(c) \in Bits /\ DVTE_SIZE - BitOf(c) - 1 = r
  BY <1>0, <1>1, <1>3 DEF Bits
<1> QED
  BY <1>1, <1>2, <1>3, <1>4, <1>5 DEF ClusterOf

\* A table of words, none with a bit behind the end of the disk.
TableOK(words) == words \in [Words -> SUBSET Bits] /\ NoPadding(words)

\* Which clusters are vacant is which bits are set.
LEMMA VacantBits ==
  ASSUME NEW words, TableOK(words), NEW w \in Words, NEW b \in Bits
  PROVE  /\ b \in words[w] <=> ClusterOf(w, b) \in Vacant(words)
         /\ b \in words[w] => ClusterOf(w, b) \in Cluster
BY ClusterOfBit DEF TableOK, NoPadding, Vacant

\* The constructor leaves every cluster of the disk vacant and sets no other bit.
LEMMA InitialTable ==
  TableOK(InitialDvt) /\ Vacant(InitialDvt) = Cluster
<1> DEFINE unused == IF DiskSize % DVTE_SIZE # 0 THEN DVTE_SIZE - (DiskSize % DVTE_SIZE) ELSE 0
<1>0. DVTE_SIZE \in Nat /\ DVTE_SIZE > 0 /\ DiskSize \in Nat
  BY WordsAssumption
<1>1. PICK n \in Nat : /\ Words = 0 .. n - 1
                       /\ n * DVTE_SIZE >= DiskSize
                       /\ n * DVTE_SIZE < DiskSize + DVTE_SIZE
  BY WordCount
<1>2. n * DVTE_SIZE - DiskSize = unused
  <2>1. PICK q \in Nat, r \in 0 .. DVTE_SIZE - 1 :
          r = DiskSize % DVTE_SIZE /\ DiskSize = q * DVTE_SIZE + r
    BY <1>0, Division
  <2>2. q * DVTE_SIZE \in Nat /\ n * DVTE_SIZE \in Nat
    BY <1>0
  <2>3. CASE r = 0
    <3>1. n = q
      <4>1. ~(n < q)
        BY <1>0, <1>1, <2>1, <2>2, <2>3, Monotone
      <4>2. ~(q < n)
        BY <1>0, <1>1, <2>1, <2>2, <2>3, Monotone
      <4> QED
        BY <4>1, <4>2
    <3> QED
      BY <2>1, <2>2, <2>3, <3>1
  <2>4. CASE r # 0
    <3>1. (q + 1) * DVTE_SIZE = q * DVTE_SIZE + DVTE_SIZE
      BY <1>0
    <3>2. n = q + 1
      <4>1. ~(n < q + 1)
        BY <1>0, <1>1, <2>1, <2>2, <2>4, <3>1, Monotone
      <4>2. ~(q + 1 < n)
        BY <1>0, <1>1, <2>1, <2>2, <2>4, <3>1, Monotone
      <4> QED
        BY <4>1, <4>2
    <3> QED
      BY <1>0, <2>1, <2>2, <2>4, <3>1, <3>2
  <2> QED
    BY <2>3, <2>4
<1>3. InitialDvt = [w \in Words |-> IF w + 1 \in Words THEN Bits ELSE Bits \ (0 .. unused - 1)]
  BY DEF InitialDvt
<1> HIDE DEF unused
<1>4. unused \in Nat
  BY <1>0, <1>1, <1>2
<1>5. \A w \in Words, b \in Bits :
        b \in InitialDvt[w] <=> ClusterOf(w, b) \in Cluster
  <2> TAKE w \in Words, b \in Bits
  <2>1. w \in Nat /\ b \in Nat /\ b < DVTE_SIZE /\ w * DVTE_SIZE \in Nat /\ n * DVTE_SIZE \in Nat
    BY <1>0, <1>1 DEF Bits
  <2>2. ClusterOf(w, b) \in Cluster <=> w * DVTE_SIZE + DVTE_SIZE - b - 1 < DiskSize
    BY <1>0, <2>1 DEF ClusterOf, Cluster
  <2>3. CASE w + 1 \in Words
    <3>1. w + 1 < n
      BY <1>1, <2>1, <2>3
    <3>2. (w + 1) * DVTE_SIZE + DVTE_SIZE =< n * DVTE_SIZE
      BY <2>1, <3>1, Monotone
    <3>3. (w + 1) * DVTE_SIZE = w * DVTE_SIZE + DVTE_SIZE
      BY <1>0, <2>1
    <3>4. w * DVTE_SIZE + DVTE_SIZE - b - 1 < DiskSize
      BY <1>0, <1>1, <2>1, <3>2, <3>3
    <3> QED
      BY <1>3, <2>2, <2>3, <3>4
  <2>4. CASE w + 1 \notin Words
    <3>1. w + 1 = n
      BY <1>1, <2>1, <2>4
    <3>2. n * DVTE_SIZE = w * DVTE_SIZE + DVTE_SIZE
      BY <1>0, <2>1, <3>1
    <3>3. b \in InitialDvt[w] <=> b >= unused
      BY <1>3, <1>4, <2>1, <2>4
    <3> QED
      BY <1>0, <1>2, <2>1, <2>2, <3>2, <3>3
  <2> QED
    BY <2>3, <2>4
<1>6. InitialDvt \in [Words -> SUBSET Bits]
  BY <1>3
<1>7. NoPadding(InitialDvt)
  BY <1>5, <1>6 DEF NoPadding
<1>8. Vacant(InitialDvt) = Cluster
  BY <1>5, BitOfCluster DEF Vacant
<1> QED
  BY <1>6, <1>7, <1>8 DEF TableOK

\* Marking a cluster sets or clears the bit of this cluster and no other.
LEMMA MarkCluster ==
  ASSUME NEW words, TableOK(words), NEW c \in Cluster, NEW vacant \in BOOLEAN
  PROVE  /\ TableOK(DvtMark(words, c, vacant))
         /\ Vacant(DvtMark(words, c, vacant))
              = IF vacant THEN Vacant(words) \cup {c} ELSE Vacant(words) \ {c}
<1> DEFINE w == WordOf(c)
           b == BitOf(c)
           d == DvtMark(words, c, vacant)
<1>0. w \in Words /\ b \in Bits /\ ClusterOf(w, b) = c
  BY BitOfCluster
<1>1. d = [words EXCEPT ![w] = IF vacant THEN words[w] \cup {b} ELSE words[w] \ {b}]
  BY DEF DvtMark
<1>2. words \in [Words -> SUBSET Bits]
  BY DEF TableOK
<1> HIDE DEF w, b, d
<1>3. d \in [Words -> SUBSET Bits]
  BY <1>0, <1>1, <1>2
<1>4. \A v \in Words, a \in Bits :
        a \in d[v] <=> IF v = w /\ a = b THEN vacant ELSE a \in words[v]
  BY <1>0, <1>1, <1>2
<1>5. NoPadding(d)
  BY <1>0, <1>3, <1>4 DEF TableOK, NoPadding
<1>6. \A e \in Cluster : WordOf(e) = w /\ BitOf(e) = b <=> e = c
  BY <1>0, BitOfCluster DEF w, b
<1>7. \A e \in Cluster : e \in Vacant(d) <=> IF e = c THEN vacant ELSE e \in Vacant(words)
  BY <1>4, <1>6, BitOfCluster DEF Vacant
<1> QED
  BY <1>3, <1>5, <1>7 DEF TableOK, Vacant, d

\* dvt_acquire_cluster returns a vacant cluster of the disk, and clears its bit and
\* no other.
THEOREM AcquireCluster ==
  ASSUME NEW words, TableOK(words), NEW to \in DvtAcquireCluster(words)
  PROVE  /\ to.cluster \in Vacant(words)
         /\ TableOK(to.dvt)
         /\ Vacant(to.dvt) = Vacant(words) \ {to.cluster}
<1>1. PICK w \in Words, b \in Bits :
        /\ Found(words, w, b)
        /\ to = [cluster |-> ClusterOf(w, b), dvt |-> [words EXCEPT ![w] = @ \ {b}]]
  BY DEF DvtAcquireCluster
<1>2. b \in words[w]
  BY <1>1 DEF Found
<1>3. ClusterOf(w, b) \in Vacant(words) /\ ClusterOf(w, b) \in Cluster
  BY <1>2, VacantBits
<1>4. to.dvt = DvtMark(words, ClusterOf(w, b), FALSE)
  <2>1. WordOf(ClusterOf(w, b)) = w /\ BitOf(ClusterOf(w, b)) = b
    BY ClusterOfBit
  <2>2. to.dvt = [words EXCEPT ![w] = words[w] \ {b}]
    BY <1>1
  <2>3. DvtMark(words, ClusterOf(w, b), FALSE) = [words EXCEPT ![w] = words[w] \ {b}]
    BY <2>1 DEF DvtMark
  <2> QED
    BY <2>2, <2>3
<1>5. to.cluster = ClusterOf(w, b) /\ to.cluster \in Cluster
  BY <1>1, <1>3
<1>6. /\ TableOK(DvtMark(words, to.cluster, FALSE))
      /\ Vacant(DvtMark(words, to.cluster, FALSE)) = Vacant(words) \ {to.cluster}
  BY <1>5, MarkCluster
<1> QED
  BY <1>3, <1>4, <1>5, <1>6

\* As long as a cluster is vacant, dvt_acquire_cluster finds one.
THEOREM AcquireFinds ==
  ASSUME NEW words, TableOK(words), Vacant(words) # {}
  PROVE  DvtAcquireCluster(words) # {}
<1> DEFINE W == {w \in Words : words[w] # {}}
<1>1. W \in SUBSET Nat /\ W # {}
  <2>1. PICK c \in Cluster : BitOf(c) \in words[WordOf(c)]
    BY DEF Vacant
  <2>2. WordOf(c) \in W
    BY <2>1, BitOfCluster
  <2>3. Words \subseteq Nat
    BY WordCount
  <2> QED
    BY <2>2, <2>3
<1>2. PICK w \in W : \A v \in W : w =< v
  BY <1>1, LeastExists
<1>3. words[w] # {} /\ words[w] \in SUBSET Nat /\ \A a \in words[w] : a \in Bits /\ a =< DVTE_SIZE
  BY <1>2, WordsAssumption DEF TableOK, Bits
<1>4. PICK b \in words[w] : \A a \in words[w] : a =< b
  BY <1>3, GreatestExists, WordsAssumption
<1>5. \A v \in Words : v < w => words[v] = {}
  <2> SUFFICES ASSUME NEW v \in Words, v < w, words[v] # {} PROVE FALSE
    OBVIOUS
  <2>1. w =< v /\ v \in Nat /\ w \in Nat
    BY <1>1, <1>2
  <2> QED
    BY <2>1
<1>6. Found(words, w, b) /\ w \in Words /\ b \in Bits
  BY <1>2, <1>3, <1>4, <1>5 DEF Found
<1>7. \E r : r \in {[cluster |-> ClusterOf(w, a), dvt |-> [words EXCEPT ![w] = @ \ {a}]] :
                      a \in {a \in Bits : Found(words, w, a)}}
  BY <1>6
<1> QED
  BY <1>6, <1>7 DEF DvtAcquireCluster

------------------------------------------------------------------------------
(* Lists of empty pages.                                                   *)

\* Page f is one of the pages s.
Among(f, s) == \E i \in DOMAIN s : s[i] = f

\* Represents, of the pages s with indices up to n.
Listed(l, link, n, s) ==
  /\ l.count = n
  /\ \A i, j \in 1 .. n : s[i] = s[j] => i = j
  /\ \A i \in 1 .. n : i < n => link[s[i]] = s[i + 1]
  /\ n = 0 => l.head = Nil
  /\ n # 0 => l.head = s[1] /\ l.tail = s[n]

LEMMA ListedForm ==
  ASSUME NEW n \in Nat, NEW s \in [1 .. n -> Frame], NEW l, NEW link
  PROVE  Represents(l, link, s) <=> Listed(l, link, n, s)
<1>1. s \in Seq(Frame) /\ Len(s) = n /\ DOMAIN s = 1 .. n
  BY SeqDef, LenProperties
<1>2. s = <<>> <=> n = 0
  BY <1>1, EmptySeq
<1> QED
  BY <1>1, <1>2 DEF Represents, Listed

\* The pages that lst_link_empty_space links are in the list, each of them once.
LEMMA LinkedPagesListed ==
  /\ [i \in 1 .. NFrames |-> i - 1] \in [1 .. NFrames -> Frame]
  /\ Represents(LinkedList, LinkedPages, [i \in 1 .. NFrames |-> i - 1])
<1> DEFINE s == [i \in 1 .. NFrames |-> i - 1]
<1>0. NFrames \in Nat /\ NFrames # 0
  BY FramesAssumption
<1>1. s \in [1 .. NFrames -> Frame]
  BY <1>0 DEF Frame
<1>2. Listed(LinkedList, LinkedPages, NFrames, s)
  <2>1. \A i \in 1 .. NFrames : i < NFrames => LinkedPages[s[i]] = s[i + 1]
    BY <1>0 DEF LinkedPages, Frame
  <2>2. \A i, j \in 1 .. NFrames : s[i] = s[j] => i = j
    BY <1>0
  <2>3. s[1] = 0 /\ s[NFrames] = NFrames - 1
    BY <1>0
  <2> HIDE DEF s
  <2> QED
    BY <1>0, <2>1, <2>2, <2>3 DEF Listed, LinkedList
<1> QED
  BY <1>0, <1>1, <1>2, ListedForm

\* lst_get_empty_page takes the first page off the list, of the pages in their order.
LEMMA GetFirstOf ==
  ASSUME NEW n \in Nat \ {0}, NEW s \in [1 .. n -> Frame], NEW l, NEW link,
         Represents(l, link, s)
  PROVE  \E r \in [1 .. n - 1 -> Frame] :
           /\ Represents(LstGetEmptyPage(l, link), link, r)
           /\ \A f \in Frame : Among(f, r) <=> f # l.head /\ Among(f, s)
           /\ l.head = s[1] /\ LstGetEmptyPage(l, link).count = n - 1
<1> DEFINE r == [i \in 1 .. n - 1 |-> s[i + 1]]
           g == LstGetEmptyPage(l, link)
<1>1. Listed(l, link, n, s)
  BY ListedForm
<1>2. r \in [1 .. n - 1 -> Frame] /\ DOMAIN r = 1 .. n - 1 /\ \A i \in 1 .. n - 1 : r[i] = s[i + 1]
  OBVIOUS
<1>3. l.head = s[1] /\ l.tail = s[n] /\ l.count = n
  BY <1>1 DEF Listed
<1>4. l.head = l.tail <=> n = 1
  BY <1>1, <1>3 DEF Listed
<1>5. /\ g.count = n - 1
      /\ g.head = IF n = 1 THEN Nil ELSE link[l.head]
      /\ g.tail = IF n = 1 THEN Nil ELSE l.tail
  BY <1>3, <1>4 DEF LstGetEmptyPage
<1> HIDE DEF r, g
<1>6. Listed(g, link, n - 1, r)
  <2>1. \A i, j \in 1 .. n - 1 : r[i] = r[j] => i = j
    BY <1>1, <1>2 DEF Listed
  <2>2. \A i \in 1 .. n - 1 : i < n - 1 => link[r[i]] = r[i + 1]
    BY <1>1, <1>2 DEF Listed
  <2>3. n - 1 # 0 => g.head = r[1] /\ g.tail = r[n - 1]
    <3> SUFFICES ASSUME n # 1 PROVE g.head = r[1] /\ g.tail = r[n - 1]
      OBVIOUS
    <3>1. link[s[1]] = s[2]
      BY <1>1 DEF Listed
    <3> QED
      BY <1>2, <1>3, <1>5, <3>1
  <2> QED
    BY <1>5, <2>1, <2>2, <2>3 DEF Listed
<1>7. Represents(g, link, r)
  BY <1>2, <1>6, ListedForm
<1>8. \A f \in Frame : Among(f, r) <=> f # l.head /\ Among(f, s)
  <2> TAKE f \in Frame
  <2>1. ASSUME NEW i \in 1 .. n - 1, r[i] = f
        PROVE  f # l.head /\ \E j \in 1 .. n : s[j] = f
    BY <1>1, <1>2, <1>3, <2>1 DEF Listed
  <2>2. ASSUME f # l.head, NEW j \in 1 .. n, s[j] = f
        PROVE  \E i \in 1 .. n - 1 : r[i] = f
    <3>1. j - 1 \in 1 .. n - 1 /\ r[j - 1] = s[j]
      BY <1>2, <1>3, <2>2
    <3> QED
      BY <2>2, <3>1
  <2> QED
    BY <1>2, <2>1, <2>2 DEF Among
<1> QED
  BY <1>2, <1>3, <1>5, <1>7, <1>8 DEF g

\* lst_return_page puts a page behind the last one.
LEMMA ReturnBehind ==
  ASSUME NEW n \in Nat, NEW s \in [1 .. n -> Frame], NEW l, NEW X, NEW link \in [Frame -> X],
         Represents(l, link, s),
         NEW f \in Frame, ~Among(f, s)
  PROVE  \E r \in [1 .. n + 1 -> Frame] :
           /\ Represents(LstReturnPage(l, f), LinksOfReturn(l, link, f), r)
           /\ \A g \in Frame : Among(g, r) <=> g = f \/ Among(g, s)
           /\ LstReturnPage(l, f).count = n + 1
<1> DEFINE r == [i \in 1 .. n + 1 |-> IF i = n + 1 THEN f ELSE s[i]]
           g == LstReturnPage(l, f)
           k == LinksOfReturn(l, link, f)
<1>1. Listed(l, link, n, s)
  BY ListedForm
<1>2. /\ r \in [1 .. n + 1 -> Frame] /\ DOMAIN r = 1 .. n + 1
      /\ r[n + 1] = f /\ \A i \in 1 .. n : r[i] = s[i]
  OBVIOUS
<1>3. l.head = Nil <=> n = 0
  BY <1>1, FramesAssumption DEF Listed
<1>4. g.count = n + 1 /\ g.tail = f /\ g.head = IF n = 0 THEN f ELSE l.head
  BY <1>1, <1>3 DEF LstReturnPage, Listed
<1>5. \A e \in Frame : k[e] = IF e = f THEN Nil
                              ELSE IF n # 0 /\ e = l.tail THEN f ELSE link[e]
  BY <1>3 DEF LinksOfReturn
<1> HIDE DEF r, g, k
<1>6. Listed(g, k, n + 1, r)
  <2>1. \A i, j \in 1 .. n + 1 : r[i] = r[j] => i = j
    <3>1. \A i \in 1 .. n : s[i] # f
      BY DEF Among
    <3> QED
      BY <1>1, <1>2, <3>1 DEF Listed
  <2>2. \A i \in 1 .. n + 1 : i < n + 1 => k[r[i]] = r[i + 1]
    <3> SUFFICES ASSUME NEW i \in 1 .. n PROVE k[s[i]] = r[i + 1]
      BY <1>2
    <3>1. s[i] # f /\ s[i] \in Frame
      BY DEF Among
    <3>2. CASE i = n
      BY <1>1, <1>2, <1>5, <3>1, <3>2 DEF Listed
    <3>3. CASE i # n
      <4>1. s[i] # l.tail /\ i + 1 \in 1 .. n /\ link[s[i]] = s[i + 1]
        BY <1>1, <3>3 DEF Listed
      <4> QED
        BY <1>2, <1>5, <3>1, <4>1
    <3> QED
      BY <3>2, <3>3
  <2>3. g.head = r[1] /\ g.tail = r[n + 1]
    BY <1>1, <1>2, <1>4 DEF Listed
  <2> QED
    BY <1>4, <2>1, <2>2, <2>3 DEF Listed
<1>7. Represents(g, k, r)
  BY <1>2, <1>6, ListedForm
<1>8. \A e \in Frame : Among(e, r) <=> e = f \/ Among(e, s)
  <2> TAKE e \in Frame
  <2>1. \A i \in 1 .. n + 1 : i \in 1 .. n \/ i = n + 1
    OBVIOUS
  <2>2. 1 .. n \subseteq 1 .. n + 1 /\ n + 1 \in 1 .. n + 1
    OBVIOUS
  <2> QED
    BY <1>2, <2>1, <2>2 DEF Among
<1> QED
  BY <1>2, <1>4, <1>7, <1>8 DEF g, k

\* The list is well formed and holds the pages of S, each of them once.
Lists(l, link, S) ==
  \E s \in [1 .. l.count -> Frame] :
    /\ Represents(l, link, s)
    /\ \A f \in Frame : Among(f, s) <=> f \in S

\* At first it holds all of them.
LEMMA AllListed ==
  LinkedList.count \in Nat /\ Lists(LinkedList, LinkedPages, Frame)
<1> DEFINE s == [i \in 1 .. NFrames |-> i - 1]
<1>0. NFrames \in Nat /\ LinkedList.count = NFrames
  BY FramesAssumption DEF LinkedList
<1>1. s \in [1 .. LinkedList.count -> Frame] /\ Represents(LinkedList, LinkedPages, s)
  BY <1>0, LinkedPagesListed
<1>2. \A f \in Frame : f + 1 \in DOMAIN s /\ s[f + 1] = f
  BY <1>0 DEF Frame
<1> QED
  BY <1>0, <1>1, <1>2 DEF Lists, Among

\* A list with pages gives its first one, which it no longer holds.
THEOREM GetFirst ==
  ASSUME NEW l, NEW link, NEW S, Lists(l, link, S), l.count \in Nat \ {0}
  PROVE  /\ l.head \in S \cap Frame
         /\ Lists(LstGetEmptyPage(l, link), link, S \ {l.head})
         /\ LstGetEmptyPage(l, link).count = l.count - 1
<1>1. PICK s \in [1 .. l.count -> Frame] :
        /\ Represents(l, link, s)
        /\ \A f \in Frame : Among(f, s) <=> f \in S
  BY DEF Lists
<1>2. PICK r \in [1 .. l.count - 1 -> Frame] :
        /\ Represents(LstGetEmptyPage(l, link), link, r)
        /\ \A f \in Frame : Among(f, r) <=> f # l.head /\ Among(f, s)
        /\ l.head = s[1] /\ LstGetEmptyPage(l, link).count = l.count - 1
  BY <1>1, GetFirstOf
<1>3. 1 \in DOMAIN s /\ s[1] \in Frame
  BY <1>1
<1>4. \A f \in Frame : Among(f, r) <=> f \in S \ {l.head}
  BY <1>1, <1>2
<1>5. l.head \in S
  BY <1>1, <1>2, <1>3 DEF Among
<1> QED
  BY <1>2, <1>3, <1>4, <1>5 DEF Lists

\* A page that is returned is in the list.
THEOREM ReturnLast ==
  ASSUME NEW l, NEW X, NEW link \in [Frame -> X], NEW S,
         Lists(l, link, S), l.count \in Nat, NEW f \in Frame \ S
  PROVE  /\ Lists(LstReturnPage(l, f), LinksOfReturn(l, link, f), S \cup {f})
         /\ LstReturnPage(l, f).count = l.count + 1
<1>1. PICK s \in [1 .. l.count -> Frame] :
        /\ Represents(l, link, s)
        /\ \A e \in Frame : Among(e, s) <=> e \in S
  BY DEF Lists
<1>2. PICK r \in [1 .. l.count + 1 -> Frame] :
        /\ Represents(LstReturnPage(l, f), LinksOfReturn(l, link, f), r)
        /\ \A g \in Frame : Among(g, r) <=> g = f \/ Among(g, s)
        /\ LstReturnPage(l, f).count = l.count + 1
  <2>1. ~Among(f, s)
    BY <1>1
  <2> QED
    BY <1>1, <2>1, ReturnBehind
<1>3. \A g \in Frame : Among(g, r) <=> g \in S \cup {f}
  BY <1>1, <1>2
<1> QED
  BY <1>2, <1>3 DEF Lists

\* Only what is in its pages makes the list.
LEMMA SameLinks ==
  ASSUME NEW l, NEW link, NEW k, NEW S, Lists(l, link, S), l.count \in Nat,
         \A f \in S \cap Frame : k[f] = link[f]
  PROVE  Lists(l, k, S)
<1>1. PICK s \in [1 .. l.count -> Frame] :
        /\ Represents(l, link, s)
        /\ \A f \in Frame : Among(f, s) <=> f \in S
  BY DEF Lists
<1>2. Listed(l, link, l.count, s)
  BY <1>1, ListedForm
<1>3. \A i \in 1 .. l.count : k[s[i]] = link[s[i]]
  BY <1>1 DEF Among
<1>4. Listed(l, k, l.count, s)
  BY <1>2, <1>3 DEF Listed
<1>5. Represents(l, k, s)
  BY <1>4, ListedForm
<1> QED
  BY <1>1, <1>5 DEF Lists

\* The list is empty if its count is 0.
LEMMA EmptyList ==
  ASSUME NEW l, NEW link, NEW S \in SUBSET Frame, Lists(l, link, S), l.count \in Nat
  PROVE  l.count = 0 <=> S = {}
<1>1. PICK s \in [1 .. l.count -> Frame] :
        \A f \in Frame : Among(f, s) <=> f \in S
  BY DEF Lists
<1>2. l.count # 0 => 1 \in DOMAIN s /\ s[1] \in Frame
  BY <1>1
<1> QED
  BY <1>1, <1>2 DEF Among

------------------------------------------------------------------------------
(* Threads.                                                                *)

Stored == Frame \cup {Nil} \cup Data \cup {Junk}

Descriptor ==
  [inseg : BOOLEAN, valid : BOOLEAN, tbc : BOOLEAN, blk : Frame \cup Cluster \cup {NoFrame}]

Local ==
  [pc      : {"idle", "victim", "evict", "update", "request", "serve", "loaded", "store",
              "return", "forget"},
   page    : Page \cup {NoPage},
   frame   : Frame \cup {NoFrame},
   cluster : Cluster \cup {NoCluster},
   dirty   : BOOLEAN]

TypeOK ==
  /\ ft \in [Frame -> [owner : Page \cup {NoPage}, used : BOOLEAN, dirty : BOOLEAN]]
  /\ ot \in [Frame -> Cluster \cup {NoCluster}]
  /\ pte \in [Page -> Descriptor]
  /\ mem \in [Frame -> Stored]
  /\ disk \in [Cluster -> Stored]
  /\ at \in [Threads -> Local]

\* A descriptor says where the page is: in a frame, on the disk, or nowhere yet.
PtesOK ==
  \A q \in Page :
    /\ pte[q].valid => pte[q].inseg /\ ~pte[q].tbc /\ pte[q].blk \in Frame
    /\ pte[q].inseg /\ ~pte[q].valid /\ ~pte[q].tbc => pte[q].blk \in Cluster

\* Page q has frame f: it is mapped there, or its thread brings it there.
Has(q, f) ==
  \/ Mapped(q, f)
  \/ \E t \in Threads : at[t].page = q /\ InHand(t, f)

\* What a thread in the middle of a call relies on.
Relies(t) ==
  LET q == at[t].page
      f == at[t].frame
      In(pcs) == at[t].pc \in pcs
  IN  /\ In({"idle"}) => at[t] = Idle
      /\ ~In({"idle"}) => q \in Page /\ q[1] = t
      /\ In({"victim", "evict"}) => list.count = 0 /\ Alone(t)
      /\ In({"victim", "evict", "update", "request", "serve"}) => pte[q].inseg /\ ~pte[q].valid
      /\ In({"evict", "update", "request", "serve", "loaded", "store"}) => f \in Frame
      /\ In({"evict"}) => at[t].cluster = ot[f] /\ at[t].dirty = ft[f].dirty
      /\ In({"request", "serve", "loaded"}) => ft[f].used /\ ft[f].owner = q
      /\ In({"serve"}) => ot[f] = IF pte[q].tbc THEN NoCluster ELSE pte[q].blk
      /\ In({"loaded"}) => ~pte[q].inseg /\ ot[f] = NoCluster
      /\ In({"store"}) => pte[q].valid /\ pte[q].blk = f
      /\ In({"return", "forget"}) => pte[q].inseg
      /\ In({"return"}) => f = IF pte[q].valid THEN pte[q].blk ELSE NoFrame

\* The pages that are mapped or about to be.
Touched == {r \in Page : pte[r].inseg \/ \E u \in Threads : at[u].page = r}

\* While several threads are inside, there is a frame for each of these pages.
Crowd ==
  /\ IsFiniteSet(Touched)
  /\ \A t, u \in Threads :
       t # u /\ at[t].pc # "idle" /\ at[u].pc # "idle" => Cardinality(Touched) <= NFrames

\* Frames without a page.
Unhad == {f \in Frame : \A q \in Page : ~Has(q, f)}

\* The frames without a page are the list, and no two pages have one frame.
FramesHad ==
  /\ list.count \in Nat
  /\ Lists(list, mem, Unhad)
  /\ \A q, r \in Page, f \in Frame : Has(q, f) /\ Has(r, f) => q = r

\* The frame table knows the page of a frame.
Owned ==
  \A q \in Page, f \in Frame : Mapped(q, f) => ft[f].used /\ ft[f].owner = q

ClustersHeld ==
  /\ TableOK(dvt)
  /\ \A c \in Cluster : c \in Vacant(dvt) <=> \A q \in Page : ~Holds(q, c)
  /\ \A q, r \in Page, c \in Cluster : Holds(q, c) /\ Holds(r, c) => q = r

Inv ==
  /\ TypeOK
  /\ PtesOK
  /\ \A t \in Threads : Relies(t)
  /\ Crowd
  /\ FramesHad
  /\ Owned
  /\ ClustersHeld

------------------------------------------------------------------------------
(* Who can be inside a call at the same time.                              *)

\* Threads work on pages of their own.
LEMMA OwnPages ==
  ASSUME \A t \in Threads : Relies(t), NEW t \in Threads, NEW u \in Threads,
         at[t].page \in Page, at[t].page = at[u].page
  PROVE  t = u /\ at[t].pc # "idle"
BY ContentsAssumption DEF Relies, Idle

\* The same of the page a call begins with.
LEMMA OwnPage ==
  ASSUME \A t \in Threads : Relies(t), NEW t \in Threads, at[t].pc = "idle",
         NEW q \in Page, q[1] = t
  PROVE  \A u \in Threads : at[u].page # q
BY ContentsAssumption DEF Relies, Idle

LEMMA HasTouched ==
  ASSUME PtesOK, NEW q \in Page, NEW f, Has(q, f)
  PROVE  q \in Touched
BY DEF Has, Mapped, PtesOK, Touched

\* A page has one frame at most: the one its thread has in hand before the descriptor
\* is told.
LEMMA OneFrame ==
  ASSUME PtesOK, \A t \in Threads : Relies(t),
         NEW q \in Page, NEW e \in Frame, NEW f \in Frame, Has(q, e), Has(q, f)
  PROVE  e = f
<1>1. ASSUME NEW t \in Threads, at[t].page = q, NEW g, InHand(t, g)
      PROVE  ~pte[q].valid /\ g = at[t].frame
  BY <1>1 DEF InHand, Relies, PtesOK
<1>2. \A t, u \in Threads : at[t].page = q /\ at[u].page = q => t = u
  BY OwnPages
<1> QED
  BY <1>1, <1>2 DEF Has, Mapped

\* When no page is empty, more pages than there are frames are mapped or about to be
\* as soon as one of them has no frame.
LEMMA Full ==
  ASSUME Inv, list.count = 0,
         NEW S, IsFiniteSet(S), Touched \subseteq S,
         NEW q \in S, \A f \in Frame : ~Has(q, f)
  PROVE  ~(Cardinality(S) <= NFrames)
<1> DEFINE g == [f \in Frame |-> CHOOSE r \in Page : Has(r, f)]
<1>1. \A f \in Frame : \E r \in Page : Has(r, f)
  BY EmptyList DEF Inv, FramesHad, Unhad
<1>2. \A f \in Frame : g[f] \in Page /\ Has(g[f], f)
  BY <1>1
<1> HIDE DEF g
<1>3. \A f \in Frame : g[f] \in S \ {q}
  BY <1>2, HasTouched DEF Inv
<1>4. g \in [Frame -> S \ {q}]
  BY <1>3 DEF g
<1>5. \A e, f \in Frame : g[e] = g[f] => e = f
  BY <1>2, OneFrame DEF Inv
<1>6. g \in Injection(Frame, S \ {q})
  BY <1>4, <1>5 DEF Injection, IsInjective
<1>7. IsFiniteSet(S \ {q}) /\ Cardinality(S \ {q}) = Cardinality(S) - 1
  BY FS_RemoveElement
<1>8. Cardinality(Frame) <= Cardinality(S) - 1
  BY <1>6, <1>7, FS_Injection
<1>9. Cardinality(Frame) = NFrames /\ NFrames \in Nat
  <2>1. NFrames \in Nat /\ 0 \in Int /\ NFrames - 1 \in Int /\ ~(0 > NFrames - 1)
    BY FramesAssumption
  <2>2. Cardinality(0 .. NFrames - 1) = NFrames - 1 - 0 + 1
    BY <2>1, FS_Interval
  <2> QED
    BY <2>1, <2>2 DEF Frame
<1>10. Cardinality(S) \in Nat
  BY FS_CardinalityType
<1> QED
  BY <1>8, <1>9, <1>10

\* The page a call is about has no frame if it is not valid and nobody works on it.
LEMMA NoFrameYet ==
  ASSUME \A t \in Threads : Relies(t),
         NEW t \in Threads, NEW q \in Page, ~pte[q].valid,
         \/ at[t].page = q /\ at[t].pc \in {"victim", "evict"}
         \/ at[t].pc = "idle" /\ q[1] = t
  PROVE  \A f \in Frame : ~Has(q, f)
<1>1. \A u \in Threads : at[u].page = q => at[u].pc \in {"victim", "evict"}
  BY OwnPage, OwnPages
<1> QED
  BY <1>1 DEF Has, Mapped, InHand

LEMMA TouchedBy ==
  ASSUME Inv, NEW q \in Page
  PROVE  /\ IsFiniteSet(Touched \cup {q})
         /\ Roomy(q) <=> Cardinality(Touched \cup {q}) <= NFrames
<1>1. IsFiniteSet(Touched \cup {q})
  BY FS_AddElement DEF Inv, Crowd
<1>2. {r \in Page : r = q \/ pte[r].inseg \/ \E u \in Threads : at[u].page = r}
        = Touched \cup {q}
  BY DEF Touched
<1> QED
  BY <1>1, <1>2 DEF Roomy

\* A thread that finds no empty page is alone: its page has no frame, so there is
\* not a frame for every page.
LEMMA AloneWhenFull ==
  ASSUME Inv, Careful, list.count = 0,
         NEW t \in Threads, NEW q \in Page, q[1] = t, MayCall(t, q), ~pte[q].valid
  PROVE  Alone(t)
<1>1. \A f \in Frame : ~Has(q, f)
  BY NoFrameYet DEF Inv, MayCall
<1>2. ~Roomy(q)
  BY <1>1, TouchedBy, Full
<1> QED
  BY <1>2 DEF MayCall

\* While a thread looks for a victim nobody else does anything.
LEMMA NobodyElse ==
  ASSUME Inv, Careful, NEW t \in Threads, at[t].pc \in {"victim", "evict"},
         NEW u \in Threads, u # t
  PROVE  at[u].pc = "idle" /\ \A q \in Page : ~MayCall(u, q)
<1> DEFINE p == at[t].page
<1>1. list.count = 0 /\ Alone(t) /\ p \in Page /\ pte[p].inseg /\ ~pte[p].valid
  BY DEF Inv, Relies
<1>2. \A f \in Frame : ~Has(p, f)
  BY <1>1, NoFrameYet DEF Inv
<1>3. p \in Touched
  BY <1>1 DEF Touched
<1>4. \A q \in Page : ~Roomy(q)
  BY <1>1, <1>2, <1>3, TouchedBy, Full
<1> QED
  BY <1>1, <1>4 DEF MayCall, Alone

------------------------------------------------------------------------------
(* What steps leave of each part of the invariant.                         *)

\* The other threads stay where they are.
Others(t) == \A u \in Threads \ {t} : at'[u] = at[u]

LEMMA CrowdContinues ==
  ASSUME Inv, NEW t \in Threads, at[t].pc # "idle", Others(t), Touched' \subseteq Touched
  PROVE  Crowd'
<1>1. IsFiniteSet(Touched') /\ Cardinality(Touched') <= Cardinality(Touched)
  BY FS_Subset DEF Inv, Crowd
<1>2. Cardinality(Touched') \in Nat /\ Cardinality(Touched) \in Nat
  BY <1>1, FS_CardinalityType DEF Inv, Crowd
<1>3. NFrames \in Nat
  BY FramesAssumption
<1>4. ASSUME NEW u \in Threads, NEW v \in Threads, u # v,
             at'[u].pc # "idle", at'[v].pc # "idle"
      PROVE  Cardinality(Touched) <= NFrames
  BY <1>4 DEF Inv, Crowd, Others
<1> QED
  BY <1>1, <1>2, <1>3, <1>4 DEF Crowd

LEMMA CrowdBegins ==
  ASSUME Inv, Careful, NEW t \in Threads, NEW q \in Page, MayCall(t, q),
         Others(t), Touched' \subseteq Touched \cup {q}
  PROVE  Crowd'
<1>1. /\ IsFiniteSet(Touched')
      /\ Cardinality(Touched') <= Cardinality(Touched \cup {q})
  BY TouchedBy, FS_Subset
<1>2. Cardinality(Touched') \in Nat /\ Cardinality(Touched \cup {q}) \in Nat
  BY <1>1, TouchedBy, FS_CardinalityType
<1>3. NFrames \in Nat
  BY FramesAssumption
<1>4. ASSUME NEW u \in Threads, NEW v \in Threads, u # v,
             at'[u].pc # "idle", at'[v].pc # "idle"
      PROVE  Cardinality(Touched \cup {q}) <= NFrames
  <2>1. ~Alone(t)
    BY <1>4 DEF Alone, Others
  <2> QED
    BY <2>1, TouchedBy DEF MayCall
<1> QED
  BY <1>1, <1>2, <1>3, <1>4 DEF Crowd

\* Another thread can go on relying on what the step does not touch.
LEMMA OthersRely ==
  ASSUME Inv, Careful, NEW t \in Threads, NEW u \in Threads, u # t, Others(t),
         \/ at[u].pc = "idle"
         \/ /\ at[t].pc # "idle" \/ \E q \in Page : MayCall(t, q)
            /\ pte'[at[u].page] = pte[at[u].page]
            /\ InHand(u, at[u].frame) =>
                 /\ ot'[at[u].frame] = ot[at[u].frame]
                 /\ at[u].pc # "update" =>
                      /\ ft'[at[u].frame].used = ft[at[u].frame].used
                      /\ ft'[at[u].frame].owner = ft[at[u].frame].owner
  PROVE  Relies(u)'
<1>1. at'[u] = at[u]
  BY DEF Others
<1>2. CASE at[u].pc = "idle"
  BY <1>1, <1>2 DEF Inv, Relies
<1>3. CASE at[u].pc # "idle"
  <2>1. at[u].pc \notin {"victim", "evict"}
    BY <1>3, NobodyElse
  <2>2. Relies(u)
    BY DEF Inv
  <2> QED
    BY <1>1, <1>3, <2>1, <2>2 DEF Relies, InHand
<1> QED
  BY <1>2, <1>3

\* The frames stay with their pages, and nothing is written to the empty ones.
LEMMA FramesStay ==
  ASSUME FramesHad,
         \A q \in Page, f \in Frame : Has(q, f)' <=> Has(q, f),
         list' = list,
         \A f \in Unhad : mem'[f] = mem[f]
  PROVE  FramesHad'
<1>1. Unhad' = Unhad
  BY DEF Unhad
<1>2. Lists(list, mem', Unhad)
  BY SameLinks DEF FramesHad
<1> QED
  BY <1>1, <1>2 DEF FramesHad

\* A page gets the frame that lst_get_empty_page takes off the list.
LEMMA FramesTaken ==
  ASSUME FramesHad, list.count # 0,
         NEW p \in Page,
         \A q \in Page, f \in Frame : Has(q, f)' <=> Has(q, f) \/ (q = p /\ f = list.head),
         list' = LstGetEmptyPage(list, mem),
         \A f \in Unhad \ {list.head} : mem'[f] = mem[f]
  PROVE  FramesHad'
<1>1. /\ list.head \in Unhad \cap Frame
      /\ Lists(list', mem, Unhad \ {list.head})
      /\ list'.count = list.count - 1
  BY GetFirst DEF FramesHad
<1>2. list'.count \in Nat
  BY <1>1 DEF FramesHad
<1>3. Unhad' = Unhad \ {list.head}
  BY <1>1 DEF Unhad
<1>4. Lists(list', mem', Unhad \ {list.head})
  BY <1>1, <1>2, SameLinks
<1>5. \A q, r \in Page, f \in Frame : Has(q, f)' /\ Has(r, f)' => q = r
  BY <1>1 DEF FramesHad, Unhad
<1> QED
  BY <1>2, <1>3, <1>4, <1>5 DEF FramesHad

\* lst_return_page puts the frame of a page back on the list.
LEMMA FramesReturned ==
  ASSUME TypeOK, FramesHad,
         NEW p \in Page, NEW e \in Frame, Has(p, e),
         \A q \in Page, f \in Frame : Has(q, f)' <=> Has(q, f) /\ f # e,
         list' = LstReturnPage(list, e),
         mem' = LinksOfReturn(list, mem, e)
  PROVE  FramesHad'
<1>1. mem \in [Frame -> Stored] /\ e \in Frame \ Unhad /\ list.count \in Nat
  BY DEF TypeOK, Unhad, FramesHad
<1>2. /\ Lists(list', mem', Unhad \cup {e})
      /\ list'.count = list.count + 1
  BY <1>1, ReturnLast DEF FramesHad
<1>3. Unhad' = Unhad \cup {e}
  BY DEF Unhad
<1>4. list'.count \in Nat
  BY <1>1, <1>2
<1>5. \A q, r \in Page, f \in Frame : Has(q, f)' /\ Has(r, f)' => q = r
  BY DEF FramesHad
<1> QED
  BY <1>2, <1>3, <1>4, <1>5 DEF FramesHad

\* A page gets the frame of another one, which went through the list.
LEMMA FramesPassed ==
  ASSUME TypeOK, FramesHad, list.count = 0,
         NEW p \in Page, NEW e \in Frame,
         \A q \in Page, f \in Frame :
           Has(q, f)' <=> (Has(q, f) /\ f # e) \/ (q = p /\ f = e),
         list' = LstGetEmptyPage(LstReturnPage(list, e), LinksOfReturn(list, mem, e))
  PROVE  FramesHad'
<1> DEFINE l == LstReturnPage(list, e)
           k == LinksOfReturn(list, mem, e)
<1>1. Unhad = {} /\ mem \in [Frame -> Stored] /\ Lists(list, mem, {})
  <2>1. Unhad \in SUBSET Frame
    BY DEF Unhad
  <2>2. Unhad = {}
    BY <2>1, EmptyList DEF FramesHad
  <2> QED
    BY <2>2 DEF FramesHad, TypeOK
<1>2. Lists(l, k, {e}) /\ l.count = 1
  <2>1. list.count \in Nat /\ e \in Frame \ {} /\ {} \cup {e} = {e}
    OBVIOUS
  <2>2. Lists(l, k, {} \cup {e}) /\ l.count = list.count + 1
    BY <1>1, <2>1, ReturnLast
  <2> QED
    BY <2>1, <2>2
<1> HIDE DEF l, k
<1>3. l.head = e /\ Lists(LstGetEmptyPage(l, k), k, {e} \ {l.head})
      /\ LstGetEmptyPage(l, k).count = 0
  <2>1. l.count \in Nat \ {0}
    BY <1>2
  <2>2. /\ l.head \in {e} \cap Frame
        /\ Lists(LstGetEmptyPage(l, k), k, {e} \ {l.head})
        /\ LstGetEmptyPage(l, k).count = l.count - 1
    BY <1>2, <2>1, GetFirst
  <2> QED
    BY <1>2, <2>2
<1>4. list'.count = 0 /\ Lists(list', k, {})
  <2>1. {e} \ {l.head} = {}
    BY <1>3
  <2> QED
    BY <1>3, <2>1 DEF l, k
<1>5. Lists(list', mem', {})
  BY <1>4, SameLinks
<1>6. Unhad' = {}
  BY <1>1 DEF Unhad
<1>7. \A q, r \in Page, f \in Frame : Has(q, f)' /\ Has(r, f)' => q = r
  BY DEF FramesHad
<1> QED
  BY <1>4, <1>5, <1>6, <1>7 DEF FramesHad

\* The clusters stay with their pages.
LEMMA ClustersStay ==
  ASSUME ClustersHeld, dvt' = dvt, \A q \in Page, c \in Cluster : Holds(q, c)' <=> Holds(q, c)
  PROVE  ClustersHeld'
BY DEF ClustersHeld

\* A page gets a cluster that was vacant.
LEMMA ClustersAcquired ==
  ASSUME ClustersHeld, NEW to \in DvtAcquireCluster(dvt), dvt' = to.dvt,
         NEW o \in Page,
         \A q \in Page, c \in Cluster : Holds(q, c)' <=> Holds(q, c) \/ (q = o /\ c = to.cluster)
  PROVE  ClustersHeld'
<1>1. /\ to.cluster \in Vacant(dvt)
      /\ TableOK(dvt')
      /\ Vacant(dvt') = Vacant(dvt) \ {to.cluster}
  BY AcquireCluster DEF ClustersHeld
<1>2. to.cluster \in Cluster /\ \A q \in Page : ~Holds(q, to.cluster)
  BY <1>1 DEF ClustersHeld, Vacant
<1>3. \A c \in Cluster : c \in Vacant(dvt') <=> \A q \in Page : ~Holds(q, c)'
  BY <1>1, <1>2 DEF ClustersHeld
<1>4. \A q, r \in Page, c \in Cluster : Holds(q, c)' /\ Holds(r, c)' => q = r
  BY <1>2 DEF ClustersHeld
<1> QED
  BY <1>1, <1>3, <1>4 DEF ClustersHeld

\* A page gives back the cluster it holds.
LEMMA ClustersReleased ==
  ASSUME ClustersHeld, NEW p \in Page, NEW e \in Cluster, Holds(p, e),
         dvt' = DvtMark(dvt, e, TRUE),
         \A q \in Page, c \in Cluster : Holds(q, c)' <=> Holds(q, c) /\ c # e
  PROVE  ClustersHeld'
<1>1. TableOK(dvt') /\ Vacant(dvt') = Vacant(dvt) \cup {e}
  BY MarkCluster DEF ClustersHeld
<1> QED
  BY <1>1 DEF ClustersHeld

------------------------------------------------------------------------------
(* What a page has and holds, told by its descriptor and its thread.       *)

Forms ==
  \A q \in Page :
    LET t == q[1]
        At(pcs) == at[t].page = q /\ at[t].pc \in pcs
    IN  /\ t \in Threads
        /\ \A u \in Threads : at[u].page = q => u = t
        /\ \A f \in Frame : Mapped(q, f) <=> pte[q].valid /\ pte[q].blk = f /\ ~At({"forget"})
        /\ \A f \in Frame : Has(q, f) <=>
             Mapped(q, f) \/ (At({"update", "request", "serve", "loaded"}) /\ at[t].frame = f)
        /\ \A c \in Cluster : Holds(q, c) <=>
             ~At({"return", "forget"}) /\ pte[q].inseg /\ ClusterHeld(q) = c

LEMMA FormsHold == (\A t \in Threads : Relies(t)) => Forms
<1> SUFFICES ASSUME \A t \in Threads : Relies(t), NEW q \in Page
             PROVE  LET t == q[1]
                        At(pcs) == at[t].page = q /\ at[t].pc \in pcs
                    IN  /\ t \in Threads
                        /\ \A u \in Threads : at[u].page = q => u = t
                        /\ \A f \in Frame :
                             Mapped(q, f) <=> pte[q].valid /\ pte[q].blk = f /\ ~At({"forget"})
                        /\ \A f \in Frame : Has(q, f) <=>
                             Mapped(q, f) \/ (At({"update", "request", "serve", "loaded"})
                                               /\ at[t].frame = f)
                        /\ \A c \in Cluster : Holds(q, c) <=>
                             ~At({"return", "forget"}) /\ pte[q].inseg /\ ClusterHeld(q) = c
  BY DEF Forms
<1>1. q[1] \in Threads
  BY ThreadsAssumption
<1>2. \A u \in Threads : at[u].page = q => u = q[1]
  BY ContentsAssumption DEF Relies, Idle
<1>3. \A f \in Frame : Mapped(q, f) <=>
        pte[q].valid /\ pte[q].blk = f /\ ~(at[q[1]].page = q /\ at[q[1]].pc = "forget")
  BY <1>1, <1>2 DEF Mapped
<1>4. \A f \in Frame : Has(q, f) <=>
        \/ Mapped(q, f)
        \/ /\ at[q[1]].page = q /\ at[q[1]].pc \in {"update", "request", "serve", "loaded"}
           /\ at[q[1]].frame = f
  BY <1>1, <1>2 DEF Has, InHand
<1>5. \A c \in Cluster : Holds(q, c) <=>
        /\ ~(at[q[1]].page = q /\ at[q[1]].pc \in {"return", "forget"})
        /\ pte[q].inseg /\ ClusterHeld(q) = c
  BY <1>1, <1>2 DEF Holds
<1> QED
  BY <1>1, <1>2, <1>3, <1>4, <1>5

LEMMA FormsNext == (\A t \in Threads : Relies(t))' => Forms'
  BY FormsHold, PTL

\* Pages the step is not about keep what they have.
LEMMA Elsewhere ==
  ASSUME Forms, Forms', NEW t \in Threads, Others(t),
         NEW S, at[t].page \in S \cup {NoPage}, at'[t].page \in S \cup {NoPage},
         \A q \in Page \ S : pte'[q] = pte[q]
  PROVE  /\ \A q \in Page \ S, f \in Frame : Mapped(q, f)' <=> Mapped(q, f)
         /\ \A q \in Page \ S, f \in Frame : Has(q, f)' <=> Has(q, f)
<1> SUFFICES ASSUME NEW q \in Page \ S, NEW f \in Frame
             PROVE  (Mapped(q, f)' <=> Mapped(q, f)) /\ (Has(q, f)' <=> Has(q, f))
  OBVIOUS
<1> DEFINE u == q[1]
<1>1. u \in Threads /\ (at'[u].page = q <=> at[u].page = q) /\ (u # t => at'[u] = at[u])
      /\ (u = t => at[u].page # q /\ at'[u].page # q)
  BY ContentsAssumption DEF Others, Forms
<1>2. Mapped(q, f)' <=> Mapped(q, f)
  BY <1>1 DEF Forms
<1>3. Has(q, f)' <=> Has(q, f)
  BY <1>1, <1>2 DEF Forms
<1> QED
  BY <1>2, <1>3

LEMMA HeldElsewhere ==
  ASSUME Forms, Forms', NEW t \in Threads, Others(t),
         NEW S, at[t].page \in S \cup {NoPage}, at'[t].page \in S \cup {NoPage},
         \A q \in Page \ S : pte'[q] = pte[q],
         \A q \in Page \ S : pte[q].valid /\ Mapped(q, pte[q].blk)
                            => ot'[pte[q].blk] = ot[pte[q].blk],
         PtesOK
  PROVE  \A q \in Page \ S, c \in Cluster : Holds(q, c)' <=> Holds(q, c)
<1> SUFFICES ASSUME NEW q \in Page \ S, NEW c \in Cluster
             PROVE  Holds(q, c)' <=> Holds(q, c)
  OBVIOUS
<1> DEFINE u == q[1]
<1>1. u \in Threads /\ (at'[u].page = q <=> at[u].page = q) /\ (u # t => at'[u] = at[u])
      /\ (u = t => at[u].page # q /\ at'[u].page # q)
  BY ContentsAssumption DEF Others, Forms
<1>2. CASE at[u].page = q /\ at[u].pc \in {"return", "forget"}
  BY <1>1, <1>2 DEF Forms
<1>3. CASE ~(at[u].page = q /\ at[u].pc \in {"return", "forget"})
  <2>1. pte[q].valid => pte[q].blk \in Frame
    BY DEF PtesOK
  <2>2. pte[q].valid => Mapped(q, pte[q].blk)
    BY <1>3, <2>1 DEF Forms
  <2>3. ClusterHeld(q)' = ClusterHeld(q)
    BY <2>2 DEF ClusterHeld
  <2> QED
    BY <1>1, <1>3, <2>3 DEF Forms
<1> QED
  BY <1>2, <1>3

------------------------------------------------------------------------------
(* Where threads go.                                                       *)

LEMMA Becomes ==
  ASSUME TypeOK, NEW t \in Threads,
         NEW pc \in {"update", "request", "serve", "forget"}, Become(t, pc)
  PROVE  /\ at' \in [Threads -> Local] /\ Others(t)
         /\ at'[t].pc = pc /\ at'[t].page = at[t].page /\ at'[t].frame = at[t].frame
<1>1. at[t] \in Local /\ at' = [at EXCEPT ![t] = [at[t] EXCEPT !.pc = pc]]
  BY DEF TypeOK, Become
<1>2. [at[t] EXCEPT !.pc = pc] \in Local
  BY <1>1 DEF Local
<1> QED
  BY <1>1, <1>2 DEF TypeOK, Others, Local

LEMMA IdleType == Idle \in Local
BY DEF Idle, Local

LEMMA Finishes ==
  ASSUME TypeOK, NEW t \in Threads, Finish(t)
  PROVE  at' \in [Threads -> Local] /\ Others(t) /\ at'[t] = Idle
BY IdleType DEF TypeOK, Finish, Others

\* Thread t begins a call: it stands at pc, on page q with frame f.
Starts(t, pc, q, f) ==
  at' = [at EXCEPT ![t] = [Idle EXCEPT !.pc = pc, !.page = q, !.frame = f]]

Started(t, pc, q, f) ==
  /\ at' \in [Threads -> Local] /\ Others(t)
  /\ at'[t].pc = pc /\ at'[t].page = q /\ at'[t].frame = f

LEMMA Begins ==
  ASSUME TypeOK, NEW t \in Threads, NEW q \in Page,
         NEW pc \in {"victim", "update", "loaded", "store", "return"},
         NEW f \in Frame \cup {NoFrame}, Starts(t, pc, q, f)
  PROVE  Started(t, pc, q, f)
<1>1. PICK x : x = [Idle EXCEPT !.pc = pc, !.page = q, !.frame = f]
  OBVIOUS
<1>2. x \in Local /\ x.pc = pc /\ x.page = q /\ x.frame = f
  BY <1>1 DEF Idle, Local
<1>3. at' = [at EXCEPT ![t] = x] /\ at \in [Threads -> Local]
  BY <1>1 DEF Starts, TypeOK
<1> QED
  BY <1>2, <1>3 DEF Started, Others

------------------------------------------------------------------------------
(* Steps.                                                                  *)

\* A step that moves no frame and no cluster.
LEMMA Quiet ==
  ASSUME Inv, TypeOK', PtesOK', \A u \in Threads : Relies(u)', Crowd', Owned',
         list' = list, dvt' = dvt, \A f \in Unhad : mem'[f] = mem[f],
         \A q \in Page, f \in Frame : Has(q, f)' <=> Has(q, f),
         \A q \in Page, c \in Cluster : Holds(q, c)' <=> Holds(q, c)
  PROVE  Inv'
<1>1. FramesHad'
  BY FramesStay DEF Inv
<1>2. ClustersHeld'
  BY ClustersStay DEF Inv
<1> QED
  BY <1>1, <1>2 DEF Inv

LEMMA InvForms == Inv => Forms
  BY FormsHold DEF Inv

LEMMA NoDescriptorType == NoDescriptor \in Descriptor
BY DEF NoDescriptor, Descriptor

\* A page is mapped, and is nowhere yet.
LEMMA CreateSegmentStep ==
  ASSUME Inv, Careful, NEW t \in Threads, NEW p \in Page, p[1] = t, CreateSegment(t, p)
  PROVE  Inv'
<1> DEFINE d == [inseg |-> TRUE, valid |-> FALSE, tbc |-> TRUE, blk |-> NoFrame]
<1>0. at[t].pc = "idle" /\ at[t] = Idle /\ MayCall(t, p)
  BY DEF CreateSegment, MayCall, Inv, Relies
<1>1. d \in Descriptor /\ pte' = [pte EXCEPT ![p] = d] /\ ~pte[p].inseg /\ ~pte[p].valid
  BY DEF Descriptor, CreateSegment, Inv, PtesOK
<1>2. d.inseg /\ ~d.valid /\ d.tbc
  OBVIOUS
<1> HIDE DEF d
<1>3. \A q \in Page : pte'[q] = IF q = p THEN d ELSE pte[q]
  BY <1>1 DEF Inv, TypeOK
<1>4. UNCHANGED <<list, holder, dvt, ft, ot, mem, disk, at>>
  BY DEF CreateSegment
<1>5. TypeOK'
  BY <1>1, <1>4 DEF Inv, TypeOK
<1>6. PtesOK'
  BY <1>2, <1>3 DEF Inv, PtesOK
<1>7. \A u \in Threads : at[u].page # p
  BY <1>0, OwnPage DEF Inv
<1>8. \A u \in Threads : Relies(u)'
  <2> TAKE u \in Threads
  <2>1. CASE u = t
    BY <1>0, <1>4, <2>1 DEF Relies, Idle
  <2>2. CASE u # t
    <3>1. Others(t)
      BY <1>4 DEF Others
    <3>2. at[u].pc = "idle" \/ pte'[at[u].page] = pte[at[u].page]
      BY <1>3, <1>7 DEF Inv, Relies
    <3> QED
      BY <1>0, <1>4, <2>2, <3>1, <3>2, OthersRely
  <2> QED
    BY <2>1, <2>2
<1>9. Forms /\ Forms'
  BY <1>8, InvForms, FormsNext
<1>10. Crowd'
  <2>1. Touched' \subseteq Touched \cup {p}
    BY <1>3, <1>4 DEF Touched
  <2> QED
    BY <1>0, <1>4, <2>1, CrowdBegins DEF Others
<1>11. /\ \A q \in Page \ {p}, f \in Frame : Mapped(q, f)' <=> Mapped(q, f)
       /\ \A q \in Page \ {p}, f \in Frame : Has(q, f)' <=> Has(q, f)
       /\ \A q \in Page \ {p}, c \in Cluster : Holds(q, c)' <=> Holds(q, c)
  <2>1. at[t].page = NoPage /\ at'[t].page = NoPage /\ ot' = ot /\ Others(t)
    BY <1>0, <1>4 DEF Idle, Others
  <2>2. \A q \in Page \ {p} : pte'[q] = pte[q]
    BY <1>3
  <2> QED
    BY <1>9, <2>1, <2>2, Elsewhere, HeldElsewhere DEF Inv
<1>12. /\ \A f \in Frame : ~Mapped(p, f)' /\ ~Has(p, f) /\ ~Has(p, f)'
       /\ \A c \in Cluster : ~Holds(p, c) /\ ~Holds(p, c)'
  <2>1. ClusterHeld(p)' = NoCluster
    BY <1>2, <1>3 DEF ClusterHeld
  <2> QED
    BY <1>1, <1>2, <1>3, <1>4, <1>7, <1>9, <2>1, ContentsAssumption DEF Forms
<1>13. /\ \A q \in Page, f \in Frame : Has(q, f)' <=> Has(q, f)
       /\ \A q \in Page, c \in Cluster : Holds(q, c)' <=> Holds(q, c)
  <2>1. \A q \in Page, f \in Frame : Has(q, f)' <=> Has(q, f)
    BY <1>11, <1>12
  <2>2. \A q \in Page, c \in Cluster : Holds(q, c)' <=> Holds(q, c)
    BY <1>11, <1>12
  <2> QED
    BY <2>1, <2>2
<1>14. Owned'
  BY <1>4, <1>11, <1>12 DEF Inv, Owned
<1> QED
  BY <1>4, <1>5, <1>6, <1>8, <1>10, <1>13, <1>14, Quiet

\* A frame in hand is nobody else's, and it is not empty.
LEMMA ApartInHand ==
  ASSUME Inv, NEW t \in Threads, at[t].pc \in {"update", "request", "serve", "loaded"}
  PROVE  /\ at[t].page \in Page /\ at[t].frame \in Frame
         /\ Has(at[t].page, at[t].frame) /\ at[t].frame \notin Unhad
         /\ ~pte[at[t].page].valid
         /\ \A u \in Threads \ {t} :
              InHand(u, at[u].frame) => at[u].frame \in Frame /\ at[u].frame # at[t].frame
         /\ \A q \in Page, f \in Frame : Mapped(q, f) => f # at[t].frame
<1> DEFINE p == at[t].page
           e == at[t].frame
<1>1. p \in Page /\ e \in Frame /\ ~pte[p].valid
  BY DEF Inv, Relies, PtesOK
<1>2. Has(p, e)
  BY DEF Has, InHand
<1>6. \A u \in Threads : InHand(u, at[u].frame) => at[u].frame \in Frame
  BY DEF Inv, Relies, InHand
<1>3. ASSUME NEW u \in Threads \ {t}, InHand(u, at[u].frame), at[u].frame = e
      PROVE  FALSE
  <2>1. at[u].page \in Page /\ Has(at[u].page, e)
    BY <1>3 DEF Inv, Relies, InHand, Has
  <2>2. at[u].page = p
    BY <1>1, <1>2, <2>1 DEF Inv, FramesHad
  <2> QED
    BY <1>1, <1>3, <2>2, OwnPages DEF Inv
<1>4. ASSUME NEW q \in Page, Mapped(q, e)
      PROVE  FALSE
  <2>1. q = p
    BY <1>1, <1>2, <1>4 DEF Inv, FramesHad, Has
  <2> QED
    BY <1>1, <1>4, <2>1 DEF Mapped
<1>5. e \notin Unhad
  BY <1>1, <1>2 DEF Unhad
<1> QED
  BY <1>1, <1>2, <1>3, <1>4, <1>5, <1>6

\* Looking for a victim changes nothing but what the thread knows.
LEMMA GetVictimStep ==
  ASSUME Inv, Careful, NEW t \in Threads, GetVictim(t)
  PROVE  Inv'
<1>0. at[t].pc = "victim" /\ at[t] \in Local /\ at[t].page \in Page
  BY DEF GetVictim, Inv, Relies, TypeOK
<1>1. PICK f \in Frame :
        at' = [at EXCEPT ![t] = [pc |-> "evict", page |-> at[t].page, frame |-> f,
                                 cluster |-> ot[f], dirty |-> ft[f].dirty]]
  <2>1. PICK v \in Victims :
          at' = [at EXCEPT ![t] = [pc |-> "evict", page |-> at[t].page, frame |-> v.frame,
                                   cluster |-> v.cluster, dirty |-> v.dirty]]
    BY DEF GetVictim
  <2>2. PICK f \in Frame : v = VictimAt(f)
    BY DEF Victims
  <2>3. v.frame = f /\ v.cluster = ot[f] /\ v.dirty = ft[f].dirty
    BY <2>2 DEF VictimAt
  <2> QED
    BY <2>1, <2>3
<1>2. UNCHANGED <<list, holder, dvt, ft, ot, pte, mem, disk>>
  BY DEF GetVictim
<1> DEFINE a == [pc |-> "evict", page |-> at[t].page, frame |-> f,
                 cluster |-> ot[f], dirty |-> ft[f].dirty]
<1>3. a \in Local
  BY <1>0 DEF Local, Inv, TypeOK
<1>4. at' \in [Threads -> Local] /\ at'[t] = a /\ Others(t)
  BY <1>1, <1>3 DEF Inv, TypeOK, Others
<1>5. a.pc = "evict" /\ a.page = at[t].page /\ a.frame = f /\ a.cluster = ot[f]
      /\ a.dirty = ft[f].dirty
  OBVIOUS
<1> HIDE DEF a
<1>6. TypeOK' /\ PtesOK'
  BY <1>2, <1>4 DEF Inv, TypeOK, PtesOK
<1>7. \A u \in Threads : Relies(u)'
  <2> TAKE u \in Threads
  <2>1. CASE u = t
    <3>1. Relies(t)
      BY DEF Inv
    <3>2. Alone(t)'
      BY <1>0, <1>4, <3>1 DEF Relies, Alone, Others
    <3> QED
      BY <1>0, <1>2, <1>4, <1>5, <2>1, <3>1, <3>2 DEF Relies
  <2>2. CASE u # t
    <3>1. at[u].pc = "idle"
      BY <1>0, <2>2, NobodyElse
    <3> QED
      BY <1>4, <2>2, <3>1, OthersRely
  <2> QED
    BY <2>1, <2>2
<1>8. Forms /\ Forms'
  BY <1>7, InvForms, FormsNext
<1>9. Crowd'
  <2>1. Touched' \subseteq Touched
    BY <1>0, <1>2, <1>4, <1>5 DEF Touched, Others
  <2> QED
    BY <1>0, <1>4, <2>1, CrowdContinues
<1>10. /\ \A q \in Page, f1 \in Frame : Mapped(q, f1)' <=> Mapped(q, f1)
       /\ \A q \in Page, f1 \in Frame : Has(q, f1)' <=> Has(q, f1)
       /\ \A q \in Page, c \in Cluster : Holds(q, c)' <=> Holds(q, c)
  <2>1. \A u \in Threads : /\ at'[u].page = at[u].page
                          /\ \/ at'[u] = at[u]
                             \/ at[u].pc = "victim" /\ at'[u].pc = "evict"
    BY <1>0, <1>4, <1>5 DEF Others
  <2>2. \A q \in Page : ClusterHeld(q)' = ClusterHeld(q)
    BY <1>2 DEF ClusterHeld
  <2> QED
    BY <1>2, <1>8, <2>1, <2>2 DEF Forms
<1>11. Owned'
  BY <1>2, <1>10 DEF Inv, Owned
<1> QED
  BY <1>2, <1>6, <1>7, <1>9, <1>10, <1>11, Quiet

\* The frame table is told about a frame in hand.
LEMMA UsFtUpdateStep ==
  ASSUME Inv, Careful, NEW t \in Threads, UsFtUpdate(t)
  PROVE  Inv'
<1>00. at[t].pc = "update" /\ TypeOK /\ Relies(t)
  BY DEF UsFtUpdate, Inv
<1>01. PICK p \in Page, e \in Frame : p = at[t].page /\ e = at[t].frame
  BY <1>00, ApartInHand
<1> DEFINE g == [owner |-> p, used |-> TRUE, dirty |-> FALSE]
<1>0. at[t].pc = "update" /\ TypeOK /\ Relies(t) /\ p = at[t].page /\ e = at[t].frame
  BY <1>00, <1>01
<1>1. p \in Page /\ e \in Frame /\ pte[p].inseg /\ ~pte[p].valid
  BY <1>0, ApartInHand DEF Relies
<1>2. UNCHANGED <<list, holder, dvt, ot, pte, mem, disk>> /\ ft' = [ft EXCEPT ![e] = g]
      /\ Become(t, "request")
  BY <1>0 DEF UsFtUpdate
<1>3. /\ at' \in [Threads -> Local] /\ Others(t)
      /\ at'[t].pc = "request" /\ at'[t].page = p /\ at'[t].frame = e
  BY <1>0, <1>2, Becomes
<1>4. \A f \in Frame : ft'[f] = IF f = e THEN g ELSE ft[f]
  BY <1>0, <1>2 DEF TypeOK
<1>5. g.owner = p /\ g.used
  OBVIOUS
<1>6. TypeOK' /\ PtesOK'
  BY <1>1, <1>2, <1>3 DEF Inv, TypeOK, PtesOK
<1> HIDE DEF g
<1>7. \A u \in Threads : Relies(u)'
  <2> TAKE u \in Threads
  <2>1. CASE u = t
    BY <1>0, <1>1, <1>2, <1>3, <1>4, <1>5, <2>1 DEF Relies
  <2>2. CASE u # t
    <3>1. InHand(u, at[u].frame) => at[u].frame \in Frame /\ at[u].frame # e
      BY <1>0, <2>2, ApartInHand
    <3> QED
      BY <1>0, <1>2, <1>3, <1>4, <2>2, <3>1, OthersRely
  <2> QED
    BY <2>1, <2>2
<1>8. Forms /\ Forms'
  BY <1>7, InvForms, FormsNext
<1>9. Crowd'
  <2>1. pte' = pte /\ \A u \in Threads : at'[u].page = at[u].page
    BY <1>0, <1>2, <1>3 DEF Others
  <2>2. Touched' \subseteq Touched
    BY <2>1 DEF Touched
  <2> QED
    BY <1>0, <1>3, <2>2, CrowdContinues
<1>10. /\ \A q \in Page, f \in Frame : Mapped(q, f)' <=> Mapped(q, f)
       /\ \A q \in Page, f \in Frame : Has(q, f)' <=> Has(q, f)
       /\ \A q \in Page, c \in Cluster : Holds(q, c)' <=> Holds(q, c)
  <2>1. \A u \in Threads : /\ at'[u].page = at[u].page /\ at'[u].frame = at[u].frame
                          /\ \/ at'[u] = at[u]
                             \/ at[u].pc = "update" /\ at'[u].pc = "request"
    BY <1>0, <1>3 DEF Others
  <2>2. \A q \in Page : ClusterHeld(q)' = ClusterHeld(q)
    BY <1>2 DEF ClusterHeld
  <2> QED
    BY <1>2, <1>8, <2>1, <2>2 DEF Forms
<1>11. Owned'
  BY <1>0, <1>4, <1>10, ApartInHand DEF Inv, Owned
<1> QED
  BY <1>2, <1>6, <1>7, <1>9, <1>10, <1>11, Quiet

\* The origin of the page is noted, and its content read.
LEMMA UsRequestPageStep ==
  ASSUME Inv, Careful, NEW t \in Threads, UsRequestPage(t)
  PROVE  Inv'
<1>00. at[t].pc = "request" /\ TypeOK /\ Relies(t)
  BY DEF UsRequestPage, Inv
<1>01. PICK p \in Page, e \in Frame : p = at[t].page /\ e = at[t].frame
  BY <1>00, ApartInHand
<1> DEFINE o == IF pte[p].tbc THEN NoCluster ELSE pte[p].blk
<1>0. at[t].pc = "request" /\ TypeOK /\ Relies(t) /\ p = at[t].page /\ e = at[t].frame
  BY <1>00, <1>01
<1>1. p \in Page /\ e \in Frame /\ pte[p].inseg /\ ~pte[p].valid /\ e \notin Unhad
      /\ ft[e].used /\ ft[e].owner = p
  BY <1>0, ApartInHand DEF Relies
<1>2. /\ UNCHANGED <<list, holder, dvt, ft, pte, disk>> /\ ot' = [ot EXCEPT ![e] = o]
      /\ mem' = IF pte[p].tbc THEN mem ELSE [mem EXCEPT ![e] = disk[pte[p].blk]]
      /\ Become(t, "serve")
  BY <1>0 DEF UsRequestPage
<1>3. /\ at' \in [Threads -> Local] /\ Others(t)
      /\ at'[t].pc = "serve" /\ at'[t].page = p /\ at'[t].frame = e
  BY <1>0, <1>2, Becomes
<1>4. ~pte[p].tbc => pte[p].blk \in Cluster
  BY <1>1 DEF Inv, PtesOK
<1>5. o \in Cluster \cup {NoCluster} /\ \A f \in Frame : ot'[f] = IF f = e THEN o ELSE ot[f]
  BY <1>0, <1>2, <1>4 DEF TypeOK
<1>6. mem' \in [Frame -> Stored] /\ \A f \in Frame \ {e} : mem'[f] = mem[f]
  BY <1>0, <1>1, <1>2, <1>4 DEF TypeOK
<1>14. TypeOK' /\ PtesOK'
  BY <1>0, <1>2, <1>3, <1>5, <1>6 DEF Inv, TypeOK, PtesOK
<1>7. \A u \in Threads : Relies(u)'
  <2> TAKE u \in Threads
  <2>1. CASE u = t
    BY <1>0, <1>1, <1>2, <1>3, <1>5, <2>1 DEF Relies
  <2>2. CASE u # t
    <3>1. InHand(u, at[u].frame) => at[u].frame \in Frame /\ at[u].frame # e
      BY <1>0, <2>2, ApartInHand
    <3> QED
      BY <1>0, <1>2, <1>3, <1>5, <2>2, <3>1, OthersRely
  <2> QED
    BY <2>1, <2>2
<1>8. Forms /\ Forms'
  BY <1>7, InvForms, FormsNext
<1>9. Crowd'
  <2>1. pte' = pte /\ \A u \in Threads : at'[u].page = at[u].page
    BY <1>0, <1>2, <1>3 DEF Others
  <2>2. Touched' \subseteq Touched
    BY <2>1 DEF Touched
  <2> QED
    BY <1>0, <1>3, <2>2, CrowdContinues
<1>10. /\ \A q \in Page, f \in Frame : Mapped(q, f)' <=> Mapped(q, f)
       /\ \A q \in Page, f \in Frame : Has(q, f)' <=> Has(q, f)
  <2>1. \A u \in Threads : /\ at'[u].page = at[u].page /\ at'[u].frame = at[u].frame
                          /\ \/ at'[u] = at[u]
                             \/ at[u].pc = "request" /\ at'[u].pc = "serve"
    BY <1>0, <1>3 DEF Others
  <2> QED
    BY <1>2, <1>8, <2>1 DEF Forms
<1>11. \A q \in Page, c \in Cluster : Holds(q, c)' <=> Holds(q, c)
  <2>1. \A q \in Page : Mapped(q, pte[q].blk) /\ pte[q].valid
                          => ot'[pte[q].blk] = ot[pte[q].blk]
    BY <1>0, <1>5, ApartInHand DEF Inv, PtesOK
  <2>2. \A q \in Page \ {p}, c \in Cluster : Holds(q, c)' <=> Holds(q, c)
    <3>1. at[t].page \in {p} \cup {NoPage} /\ at'[t].page \in {p} \cup {NoPage}
      BY <1>0, <1>3
    <3>2. \A q \in Page \ {p} : pte'[q] = pte[q]
      BY <1>2
    <3>3. \A q \in Page \ {p} : pte[q].valid /\ Mapped(q, pte[q].blk)
                                => ot'[pte[q].blk] = ot[pte[q].blk]
      BY <2>1
    <3> QED
      BY <1>3, <1>8, <3>1, <3>2, <3>3, HeldElsewhere DEF Inv
  <2>3. ClusterHeld(p)' = ClusterHeld(p)
    BY <1>1, <1>2 DEF ClusterHeld
  <2>4. \A c \in Cluster : Holds(p, c)' <=> Holds(p, c)
    BY <1>0, <1>1, <1>2, <1>3, <1>8, <2>3 DEF Forms
  <2> QED
    BY <2>2, <2>4
<1>12. Owned'
  BY <1>2, <1>10 DEF Inv, Owned
<1>13. \A f \in Unhad : mem'[f] = mem[f]
  BY <1>1, <1>6 DEF Unhad
<1> QED
  BY <1>2, <1>14, <1>7, <1>9, <1>10, <1>11, <1>12, <1>13, Quiet


\* A page changes in what the thread knows of it, and the others keep theirs.
LEMMA PageKeeps ==
  ASSUME Inv, NEW t \in Threads, NEW p \in Page, Others(t), Forms',
         at[t].page \in {p} \cup {NoPage}, at'[t].page \in {p} \cup {NoPage},
         \A q \in Page \ {p} : pte'[q] = pte[q], ot' = ot,
         \A f \in Frame : Has(p, f)' <=> Has(p, f),
         \A c \in Cluster : Holds(p, c)' <=> Holds(p, c)
  PROVE  /\ \A q \in Page \ {p}, f \in Frame : Mapped(q, f)' <=> Mapped(q, f)
         /\ \A q \in Page, f \in Frame : Has(q, f)' <=> Has(q, f)
         /\ \A q \in Page, c \in Cluster : Holds(q, c)' <=> Holds(q, c)
<1>1. /\ \A q \in Page \ {p}, f \in Frame : Mapped(q, f)' <=> Mapped(q, f)
      /\ \A q \in Page \ {p}, f \in Frame : Has(q, f)' <=> Has(q, f)
  BY InvForms, Elsewhere
<1>2. \A q \in Page \ {p} : pte[q].valid /\ Mapped(q, pte[q].blk)
                            => ot'[pte[q].blk] = ot[pte[q].blk]
  OBVIOUS
<1>3. \A q \in Page \ {p}, c \in Cluster : Holds(q, c)' <=> Holds(q, c)
  BY <1>2, InvForms, HeldElsewhere DEF Inv
<1> QED
  BY <1>1, <1>3

\* The descriptor is told the frame that was in hand.
LEMMA ToldStep ==
  ASSUME Inv, Careful, NEW t \in Threads, at[t].pc \in {"serve", "loaded"},
         NEW p \in Page, NEW e \in Frame, p = at[t].page, e = at[t].frame,
         NEW d, d.inseg, d.valid, ~d.tbc, d.blk = e,
         pte' \in [Page -> Descriptor], \A q \in Page : pte'[q] = IF q = p THEN d ELSE pte[q],
         Finish(t), UNCHANGED <<list, holder, dvt, ft, ot, mem, disk>>
  PROVE  Inv'
<1>0. TypeOK /\ Relies(t) /\ ~pte[p].valid
  BY ApartInHand DEF Inv
<1>1. pte'[p] = d
  OBVIOUS
<1>2. at' \in [Threads -> Local] /\ Others(t) /\ at'[t] = Idle
  BY <1>0, Finishes
<1>3. TypeOK'
  BY <1>2 DEF Inv, TypeOK
<1>4. PtesOK'
  BY <1>1 DEF Inv, PtesOK
<1>5. \A u \in Threads \ {t} : at[u].page # p
  BY OwnPages DEF Inv
<1>6. \A u \in Threads : Relies(u)'
  <2> TAKE u \in Threads
  <2>1. CASE u = t
    BY <1>2, <2>1 DEF Relies, Idle
  <2>2. CASE u # t
    <3>1. at[u].pc = "idle" \/ pte'[at[u].page] = pte[at[u].page]
      BY <1>5, <2>2 DEF Inv, Relies
    <3> QED
      BY <1>2, <2>2, <3>1, OthersRely
  <2> QED
    BY <2>1, <2>2
<1>7. Forms /\ Forms'
  BY <1>6, InvForms, FormsNext
<1>8. Crowd'
  <2>1. Touched' \subseteq Touched
    BY <1>2, ContentsAssumption DEF Touched, Others, Idle
  <2> QED
    BY <1>2, <2>1, CrowdContinues
<1>9. p[1] = t /\ at'[t].page # p
  BY <1>0, <1>2, ContentsAssumption DEF Relies, Idle
<1>10. \A f \in Frame : Mapped(p, f)' <=> f = e
  BY <1>1, <1>7, <1>9 DEF Forms
<1>11. \A f \in Frame : Has(p, f)' <=> Has(p, f)
  BY <1>0, <1>7, <1>9, <1>10 DEF Forms
<1>12. \A c \in Cluster : Holds(p, c)' <=> Holds(p, c)
  <2>1. ClusterHeld(p)' = ot[e]
    BY <1>1 DEF ClusterHeld
  <2>2. pte[p].inseg => ClusterHeld(p) = ot[e]
    BY <1>0 DEF Relies, ClusterHeld
  <2>3. ~pte[p].inseg => ot[e] = NoCluster
    BY <1>0 DEF Relies
  <2> QED
    BY <1>0, <1>1, <1>7, <1>9, <2>1, <2>2, <2>3, ContentsAssumption DEF Forms
<1>13. /\ \A q \in Page \ {p}, f \in Frame : Mapped(q, f)' <=> Mapped(q, f)
       /\ \A q \in Page, f \in Frame : Has(q, f)' <=> Has(q, f)
       /\ \A q \in Page, c \in Cluster : Holds(q, c)' <=> Holds(q, c)
  <2>1. at[t].page \in {p} \cup {NoPage} /\ at'[t].page \in {p} \cup {NoPage}
    BY <1>2 DEF Idle
  <2>2. \A q \in Page \ {p} : pte'[q] = pte[q]
    OBVIOUS
  <2> QED
    BY <1>2, <1>7, <1>11, <1>12, <2>1, <2>2, PageKeeps
<1>14. Owned'
  <2>1. ft[e].used /\ ft[e].owner = p
    BY <1>0 DEF Relies
  <2> QED
    BY <1>10, <1>13, <2>1 DEF Inv, Owned
<1> QED
  BY <1>3, <1>4, <1>6, <1>8, <1>13, <1>14, Quiet

LEMMA ServeStep ==
  ASSUME Inv, Careful, NEW t \in Threads, Serve(t)
  PROVE  Inv'
<1>1. at[t].pc = "serve" /\ Relies(t) /\ TypeOK
  BY DEF Serve, Inv
<1>2. PICK p \in Page, e \in Frame : p = at[t].page /\ e = at[t].frame
  BY <1>1, ApartInHand
<1>3. PICK d : d = [pte[p] EXCEPT !.blk = e, !.valid = TRUE, !.tbc = FALSE]
  OBVIOUS
<1>4. pte[p].inseg /\ pte[p] \in Descriptor
  BY <1>1, <1>2 DEF Relies, TypeOK
<1>5. d.inseg /\ d.valid /\ ~d.tbc /\ d.blk = e /\ d \in Descriptor
  BY <1>3, <1>4 DEF Descriptor
<1>6. pte' = [pte EXCEPT ![p] = d]
  BY <1>2, <1>3 DEF Serve
<1>7. pte' \in [Page -> Descriptor] /\ \A q \in Page : pte'[q] = IF q = p THEN d ELSE pte[q]
  BY <1>1, <1>5, <1>6 DEF TypeOK
<1>8. Finish(t) /\ UNCHANGED <<list, holder, dvt, ft, ot, mem, disk>>
  BY DEF Serve
<1>9. at[t].pc \in {"serve", "loaded"}
  BY <1>1
<1> QED
  BY <1>2, <1>5, <1>7, <1>8, <1>9, ToldStep

LEMMA LoadedStep ==
  ASSUME Inv, Careful, NEW t \in Threads, Loaded(t)
  PROVE  Inv'
<1>1. at[t].pc = "loaded" /\ Relies(t) /\ TypeOK
  BY DEF Loaded, Inv
<1>2. PICK p \in Page, e \in Frame : p = at[t].page /\ e = at[t].frame
  BY <1>1, ApartInHand
<1>3. PICK d : d = [inseg |-> TRUE, valid |-> TRUE, tbc |-> FALSE, blk |-> e]
  OBVIOUS
<1>4. d.inseg /\ d.valid /\ ~d.tbc /\ d.blk = e /\ d \in Descriptor
  BY <1>3 DEF Descriptor
<1>5. pte' = [pte EXCEPT ![p] = d]
  BY <1>2, <1>3 DEF Loaded
<1>6. \A q \in Page : pte'[q] = IF q = p THEN d ELSE pte[q]
  BY <1>1, <1>5 DEF TypeOK
<1>7. pte' \in [Page -> Descriptor]
  BY <1>1, <1>4, <1>5 DEF TypeOK
<1>8. Finish(t) /\ UNCHANGED <<list, holder, dvt, ft, ot, mem, disk>>
  BY DEF Loaded
<1>9. at[t].pc \in {"serve", "loaded"}
  BY <1>1
<1> QED
  BY <1>2, <1>4, <1>6, <1>7, <1>8, <1>9, ToldStep

\* The descriptor of a page that was deleted is cleared.
LEMMA ForgetStep ==
  ASSUME Inv, Careful, NEW t \in Threads, Forget(t)
  PROVE  Inv'
<1>00. at[t].pc = "forget" /\ Relies(t) /\ TypeOK
  BY DEF Forget, Inv
<1>01. PICK p \in Page : p = at[t].page
  BY <1>00 DEF Relies
<1>0. at[t].pc = "forget" /\ Relies(t) /\ TypeOK /\ p = at[t].page
  BY <1>00, <1>01
<1>1. /\ pte' = [pte EXCEPT ![p] = NoDescriptor] /\ Finish(t)
      /\ UNCHANGED <<list, holder, dvt, ft, ot, mem, disk>>
  BY <1>0 DEF Forget
<1>2. at' \in [Threads -> Local] /\ Others(t) /\ at'[t] = Idle
  BY <1>0, <1>1, Finishes
<1>3. \A q \in Page : pte'[q] = IF q = p THEN NoDescriptor ELSE pte[q]
  BY <1>0, <1>1 DEF TypeOK
<1>4. ~NoDescriptor.inseg /\ ~NoDescriptor.valid
  BY DEF NoDescriptor
<1>5. TypeOK'
  BY <1>1, <1>2, NoDescriptorType DEF Inv, TypeOK
<1>6. PtesOK'
  BY <1>3, <1>4 DEF Inv, PtesOK
<1>7. \A u \in Threads \ {t} : at[u].page # p
  BY <1>0, OwnPages DEF Inv
<1>8. \A u \in Threads : Relies(u)'
  <2> TAKE u \in Threads
  <2>1. CASE u = t
    BY <1>2, <2>1 DEF Relies, Idle
  <2>2. CASE u # t
    <3>1. at[u].pc = "idle" \/ pte'[at[u].page] = pte[at[u].page]
      BY <1>3, <1>7, <2>2 DEF Inv, Relies
    <3> QED
      BY <1>0, <1>1, <1>2, <2>2, <3>1, OthersRely
  <2> QED
    BY <2>1, <2>2
<1>9. Forms /\ Forms'
  BY <1>8, InvForms, FormsNext
<1>10. Crowd'
  <2>1. Touched' \subseteq Touched
    BY <1>2, <1>3, <1>4, ContentsAssumption DEF Touched, Others, Idle
  <2> QED
    BY <1>0, <1>2, <2>1, CrowdContinues
<1>11. p[1] = t /\ at'[t].page # p
  BY <1>0, <1>2, ContentsAssumption DEF Relies, Idle
<1>12. /\ \A f \in Frame : ~Mapped(p, f)' /\ ~Has(p, f) /\ ~Has(p, f)'
       /\ \A c \in Cluster : ~Holds(p, c) /\ ~Holds(p, c)'
  BY <1>0, <1>3, <1>4, <1>9, <1>11 DEF Forms
<1>13. /\ \A q \in Page \ {p}, f \in Frame : Mapped(q, f)' <=> Mapped(q, f)
       /\ \A q \in Page, f \in Frame : Has(q, f)' <=> Has(q, f)
       /\ \A q \in Page, c \in Cluster : Holds(q, c)' <=> Holds(q, c)
  <2>1. at[t].page \in {p} \cup {NoPage} /\ at'[t].page \in {p} \cup {NoPage}
    BY <1>0, <1>2 DEF Idle
  <2>2. \A q \in Page \ {p} : pte'[q] = pte[q]
    BY <1>3
  <2> QED
    BY <1>1, <1>2, <1>9, <1>12, <2>1, <2>2, PageKeeps
<1>14. Owned'
  BY <1>1, <1>12, <1>13 DEF Inv, Owned
<1> QED
  BY <1>1, <1>5, <1>6, <1>8, <1>10, <1>13, <1>14, Quiet


\* A call on a page that is mapped and that nobody works on.
LEMMA CallsMapped ==
  ASSUME Inv, NEW t \in Threads, NEW p \in Page, p[1] = t, MayCall(t, p), pte[p].inseg
  PROVE  /\ at[t].pc = "idle" /\ at[t] = Idle /\ at[t].page = NoPage
         /\ \A u \in Threads : at[u].page # p
         /\ pte[p].valid => pte[p].blk \in Frame
         /\ \A f \in Frame : Mapped(p, f) <=> pte[p].valid /\ pte[p].blk = f
         /\ \A f \in Frame : Has(p, f) <=> Mapped(p, f)
         /\ \A c \in Cluster : Holds(p, c) <=> ClusterHeld(p) = c
<1>1. at[t].pc = "idle" /\ at[t] = Idle /\ at[t].page = NoPage
  <2>1. at[t].pc = "idle" /\ at[t] = Idle
    BY DEF MayCall, Inv, Relies
  <2> QED
    BY <2>1 DEF Idle
<1>2. \A u \in Threads : at[u].page # p
  BY <1>1, OwnPage DEF Inv
<1> QED
  BY <1>1, <1>2, InvForms DEF Forms, Inv, PtesOK

\* The others rely on nothing that a call on another page begins with.
LEMMA OthersRelyOnCall ==
  ASSUME Inv, Careful, NEW t \in Threads, NEW p \in Page, MayCall(t, p), Others(t),
         UNCHANGED <<pte, ot>>,
         \A f \in Frame : ft'[f].used = ft[f].used /\ ft'[f].owner = ft[f].owner
  PROVE  \A u \in Threads \ {t} : Relies(u)'
<1> TAKE u \in Threads \ {t}
<1>1. InHand(u, at[u].frame) => at[u].frame \in Frame
  BY DEF Inv, Relies, InHand
<1> QED
  BY <1>1, OthersRely

\* access grants the frame of a page that is valid.
LEMMA AccessStep ==
  ASSUME Inv, Careful, NEW t \in Threads, NEW p \in Page, p[1] = t, Access(t, p)
  PROVE  Inv'
<1>0. MayCall(t, p) /\ pte[p].valid /\ pte[p].inseg /\ TypeOK
  BY DEF Access, Inv, PtesOK
<1>1. PICK e \in Frame : e = pte[p].blk
  BY <1>0, CallsMapped
<1>2. /\ UNCHANGED <<list, holder, dvt, ot, pte, mem, disk>>
      /\ ft' = [ft EXCEPT ![e].dirty = TRUE]
      /\ at' = [at EXCEPT ![t] = [Idle EXCEPT !.pc = "store", !.page = p, !.frame = e]]
  BY <1>1 DEF Access
<1>3. /\ at' \in [Threads -> Local] /\ Others(t)
      /\ at'[t].pc = "store" /\ at'[t].page = p /\ at'[t].frame = e
  <2>1. Starts(t, "store", p, e)
    BY <1>2 DEF Starts
  <2>2. Started(t, "store", p, e)
    <3>1. TypeOK /\ e \in Frame \cup {NoFrame}
      BY <1>0
    <3> QED
      BY <2>1, <3>1, Begins
  <2> QED
    BY <2>2 DEF Started
<1>4. /\ ft' \in [Frame -> [owner : Page \cup {NoPage}, used : BOOLEAN, dirty : BOOLEAN]]
      /\ \A f \in Frame : ft'[f].used = ft[f].used /\ ft'[f].owner = ft[f].owner
  BY <1>0, <1>2 DEF TypeOK
<1>5. TypeOK' /\ PtesOK'
  BY <1>2, <1>3, <1>4 DEF Inv, TypeOK, PtesOK
<1>6. \A u \in Threads : Relies(u)'
  <2>1. Relies(t)'
    BY <1>0, <1>1, <1>2, <1>3 DEF Relies
  <2> QED
    BY <1>0, <1>2, <1>3, <1>4, <2>1, OthersRelyOnCall
<1>7. Forms /\ Forms'
  BY <1>6, InvForms, FormsNext
<1>8. Crowd'
  <2>1. Touched' \subseteq Touched \cup {p}
    BY <1>2, <1>3 DEF Touched, Others
  <2> QED
    BY <1>0, <1>3, <2>1, CrowdBegins
<1>9. \A f \in Frame : (Mapped(p, f)' <=> Mapped(p, f)) /\ (Has(p, f)' <=> Has(p, f))
  <2>1. \A f \in Frame : Mapped(p, f)' <=> Mapped(p, f)
    BY <1>0, <1>2, <1>3, <1>7, CallsMapped DEF Forms
  <2>2. \A f \in Frame : Has(p, f)' <=> Has(p, f)
    BY <1>0, <1>3, <1>7, <2>1, CallsMapped DEF Forms
  <2> QED
    BY <2>1, <2>2
<1>10. \A c \in Cluster : Holds(p, c)' <=> Holds(p, c)
  <2>1. ClusterHeld(p)' = ClusterHeld(p)
    BY <1>2 DEF ClusterHeld
  <2> QED
    BY <1>0, <1>2, <1>3, <1>7, <2>1, CallsMapped DEF Forms
<1>11. /\ \A q \in Page \ {p}, f \in Frame : Mapped(q, f)' <=> Mapped(q, f)
       /\ \A q \in Page, f \in Frame : Has(q, f)' <=> Has(q, f)
       /\ \A q \in Page, c \in Cluster : Holds(q, c)' <=> Holds(q, c)
  <2>1. at[t].page \in {p} \cup {NoPage} /\ at'[t].page \in {p} \cup {NoPage}
    BY <1>0, <1>3, CallsMapped
  <2>2. \A q \in Page \ {p} : pte'[q] = pte[q]
    BY <1>2
  <2> QED
    BY <1>2, <1>3, <1>7, <1>9, <1>10, <2>1, <2>2, PageKeeps
<1>12. Owned'
  BY <1>4, <1>9, <1>11 DEF Inv, Owned
<1> QED
  BY <1>2, <1>5, <1>6, <1>8, <1>11, <1>12, Quiet

\* The client stores through the address it was granted.
LEMMA StoreStep ==
  ASSUME Inv, Careful, NEW t \in Threads, NEW d \in Data, Store(t, d)
  PROVE  Inv'
<1>00. at[t].pc = "store" /\ Relies(t) /\ TypeOK
  BY DEF Store, Inv
<1>01. PICK p \in Page, e \in Frame : p = at[t].page /\ e = at[t].frame
  BY <1>00 DEF Relies
<1>0. at[t].pc = "store" /\ p = at[t].page /\ e = at[t].frame /\ p[1] = t
      /\ pte[p].valid /\ pte[p].blk = e
  BY <1>00, <1>01 DEF Relies
<1>1. /\ UNCHANGED <<list, holder, dvt, ft, ot, pte, disk>>
      /\ mem' = [mem EXCEPT ![e] = d] /\ Finish(t)
  BY <1>0 DEF Store
<1>2. at' \in [Threads -> Local] /\ Others(t) /\ at'[t] = Idle
  BY <1>00, <1>1, Finishes
<1>3. TypeOK' /\ PtesOK'
  BY <1>1, <1>2 DEF Inv, TypeOK, PtesOK, Stored
<1>4. \A u \in Threads : Relies(u)'
  <2> TAKE u \in Threads
  <2>1. CASE u = t
    BY <1>2, <2>1 DEF Relies, Idle
  <2>2. CASE u # t
    BY <1>0, <1>1, <1>2, <2>2, OthersRely
  <2> QED
    BY <2>1, <2>2
<1>5. Forms /\ Forms'
  BY <1>4, InvForms, FormsNext
<1>6. Crowd'
  <2>1. Touched' \subseteq Touched
    BY <1>1, <1>2, ContentsAssumption DEF Touched, Others, Idle
  <2> QED
    BY <1>0, <1>2, <2>1, CrowdContinues
<1>7. at'[t].page = NoPage
  BY <1>2 DEF Idle
<1>8. \A f \in Frame : (Mapped(p, f)' <=> Mapped(p, f)) /\ (Has(p, f)' <=> Has(p, f))
  <2>1. \A f \in Frame : Mapped(p, f)' <=> Mapped(p, f)
    BY <1>0, <1>1, <1>5, <1>7, ContentsAssumption DEF Forms
  <2>2. \A f \in Frame : Has(p, f)' <=> Has(p, f)
    BY <1>0, <1>5, <1>7, <2>1, ContentsAssumption DEF Forms
  <2> QED
    BY <2>1, <2>2
<1>9. \A c \in Cluster : Holds(p, c)' <=> Holds(p, c)
  <2>1. ClusterHeld(p)' = ClusterHeld(p)
    BY <1>1 DEF ClusterHeld
  <2> QED
    BY <1>0, <1>1, <1>5, <1>7, <2>1, ContentsAssumption DEF Forms
<1>10. /\ \A q \in Page \ {p}, f \in Frame : Mapped(q, f)' <=> Mapped(q, f)
       /\ \A q \in Page, f \in Frame : Has(q, f)' <=> Has(q, f)
       /\ \A q \in Page, c \in Cluster : Holds(q, c)' <=> Holds(q, c)
  <2>1. at[t].page \in {p} \cup {NoPage} /\ at'[t].page \in {p} \cup {NoPage}
    BY <1>0, <1>7
  <2>2. \A q \in Page \ {p} : pte'[q] = pte[q]
    BY <1>1
  <2> QED
    BY <1>1, <1>2, <1>5, <1>8, <1>9, <2>1, <2>2, PageKeeps
<1>11. Owned'
  BY <1>1, <1>8, <1>10 DEF Inv, Owned
<1>12. \A f \in Unhad : mem'[f] = mem[f]
  <2>1. Has(p, e)
    BY <1>0, <1>5 DEF Forms
  <2>2. e \notin Unhad
    BY <2>1 DEF Unhad
  <2> QED
    BY <1>1, <2>2, <1>00 DEF TypeOK, Unhad
<1> QED
  BY <1>1, <1>3, <1>4, <1>6, <1>10, <1>11, <1>12, Quiet


\* The cluster of a page that is deleted is marked vacant.
LEMMA DeleteSegmentStep ==
  ASSUME Inv, Careful, NEW t \in Threads, NEW p \in Page, p[1] = t, DeleteSegment(t, p)
  PROVE  Inv'
<1>0. MayCall(t, p) /\ pte[p].inseg /\ TypeOK
  BY DEF DeleteSegment, Inv
<1>1. PICK e \in Frame \cup {NoFrame} : e = IF pte[p].valid THEN pte[p].blk ELSE NoFrame
  BY <1>0, CallsMapped
<1>2. /\ UNCHANGED <<list, holder, ft, ot, pte, mem, disk>>
      /\ dvt' = IF ClusterHeld(p) = NoCluster THEN dvt
                ELSE DvtMark(dvt, ClusterHeld(p), TRUE)
      /\ at' = [at EXCEPT ![t] = [Idle EXCEPT !.pc = "return", !.page = p, !.frame = e]]
  BY <1>1 DEF DeleteSegment
<1>3. /\ at' \in [Threads -> Local] /\ Others(t)
      /\ at'[t].pc = "return" /\ at'[t].page = p /\ at'[t].frame = e
  <2>1. Starts(t, "return", p, e)
    BY <1>2 DEF Starts
  <2>2. Started(t, "return", p, e)
    <3>1. TypeOK /\ e \in Frame \cup {NoFrame}
      BY <1>0
    <3> QED
      BY <2>1, <3>1, Begins
  <2> QED
    BY <2>2 DEF Started
<1>4. TypeOK' /\ PtesOK'
  BY <1>2, <1>3 DEF Inv, TypeOK, PtesOK
<1>5. \A u \in Threads : Relies(u)'
  <2>1. Relies(t)'
    BY <1>0, <1>1, <1>2, <1>3 DEF Relies
  <2> QED
    BY <1>0, <1>2, <1>3, <2>1, OthersRelyOnCall
<1>6. Forms /\ Forms'
  BY <1>5, InvForms, FormsNext
<1>7. Crowd'
  <2>1. Touched' \subseteq Touched \cup {p}
    BY <1>2, <1>3 DEF Touched, Others
  <2> QED
    BY <1>0, <1>3, <2>1, CrowdBegins
<1>8. \A f \in Frame : (Mapped(p, f)' <=> Mapped(p, f)) /\ (Has(p, f)' <=> Has(p, f))
  <2>1. \A f \in Frame : Mapped(p, f)' <=> Mapped(p, f)
    BY <1>0, <1>2, <1>3, <1>6, CallsMapped DEF Forms
  <2>2. \A f \in Frame : Has(p, f)' <=> Has(p, f)
    BY <1>0, <1>3, <1>6, <2>1, CallsMapped DEF Forms
  <2> QED
    BY <2>1, <2>2
<1>9. at[t].page \in {p} \cup {NoPage} /\ at'[t].page \in {p} \cup {NoPage}
      /\ \A q \in Page \ {p} : pte'[q] = pte[q]
  BY <1>0, <1>2, <1>3, CallsMapped
<1>10. /\ \A q \in Page \ {p}, f \in Frame : Mapped(q, f)' <=> Mapped(q, f)
       /\ \A q \in Page \ {p}, f \in Frame : Has(q, f)' <=> Has(q, f)
       /\ \A q \in Page \ {p}, c \in Cluster : Holds(q, c)' <=> Holds(q, c)
  <2>1. \A q \in Page \ {p} : pte[q].valid /\ Mapped(q, pte[q].blk)
                              => ot'[pte[q].blk] = ot[pte[q].blk]
    BY <1>2
  <2> QED
    BY <1>3, <1>6, <1>9, <2>1, Elsewhere, HeldElsewhere DEF Inv
<1>11. \A q \in Page, f \in Frame : Has(q, f)' <=> Has(q, f)
  BY <1>8, <1>10
<1>12. FramesHad'
  BY <1>2, <1>11, FramesStay DEF Inv
<1>13. Owned'
  BY <1>2, <1>8, <1>10 DEF Inv, Owned
<1>14. /\ \A c \in Cluster : ~Holds(p, c)'
       /\ \A c \in Cluster : Holds(p, c) <=> ClusterHeld(p) = c
  <2>1. \A c \in Cluster : ~Holds(p, c)'
    BY <1>0, <1>3, <1>6, CallsMapped DEF Forms
  <2>2. \A c \in Cluster : Holds(p, c) <=> ClusterHeld(p) = c
    BY <1>0, CallsMapped
  <2> QED
    BY <2>1, <2>2
<1>15. ClustersHeld'
  <2>1. CASE ClusterHeld(p) = NoCluster
    <3>1. \A c \in Cluster : ~Holds(p, c)
      BY <1>14, <2>1, ContentsAssumption
    <3>2. \A q \in Page, c \in Cluster : Holds(q, c)' <=> Holds(q, c)
      BY <1>10, <1>14, <3>1
    <3> QED
      BY <1>2, <2>1, <3>2, ClustersStay DEF Inv
  <2>2. CASE ClusterHeld(p) # NoCluster
    <3>1. ClusterHeld(p) \in Cluster
      <4>1. pte[p].valid => pte[p].blk \in Frame
        BY <1>0, CallsMapped
      <4>2. ~pte[p].valid /\ ~pte[p].tbc => pte[p].blk \in Cluster
        BY <1>0 DEF Inv, PtesOK
      <4> QED
        BY <1>0, <2>2, <4>1, <4>2 DEF ClusterHeld, TypeOK
    <3>2. PICK e1 \in Cluster : e1 = ClusterHeld(p)
      BY <3>1
    <3>3. Holds(p, e1)
      BY <1>14, <3>2
    <3>4. \A q \in Page, c \in Cluster : Holds(q, c)' <=> Holds(q, c) /\ c # e1
      BY <1>10, <1>14, <3>2, <3>3 DEF Inv, ClustersHeld
    <3> QED
      BY <1>2, <2>2, <3>2, <3>3, <3>4, ClustersReleased DEF Inv
  <2> QED
    BY <2>1, <2>2
<1> QED
  BY <1>4, <1>5, <1>7, <1>12, <1>13, <1>15 DEF Inv

\* The frame of a page that is deleted goes back to the list.
LEMMA UsFreePageStep ==
  ASSUME Inv, Careful, NEW t \in Threads, UsFreePage(t)
  PROVE  Inv'
<1>00. at[t].pc = "return" /\ Relies(t) /\ TypeOK
  BY DEF UsFreePage, Inv
<1>01. PICK p \in Page, e \in Frame \cup {NoFrame} : p = at[t].page /\ e = at[t].frame
  BY <1>00 DEF Relies, Inv, PtesOK
<1>0. at[t].pc = "return" /\ p = at[t].page /\ e = at[t].frame /\ p[1] = t /\ pte[p].inseg
      /\ e = (IF pte[p].valid THEN pte[p].blk ELSE NoFrame)
  BY <1>00, <1>01 DEF Relies
<1>1. /\ UNCHANGED <<holder, dvt, ft, ot, pte, disk>> /\ Become(t, "forget")
      /\ e = NoFrame => UNCHANGED <<list, mem>>
      /\ e # NoFrame => /\ list' = LstReturnPage(list, e)
                        /\ mem' = LinksOfReturn(list, mem, e)
  BY <1>0 DEF UsFreePage
<1>2. /\ at' \in [Threads -> Local] /\ Others(t)
      /\ at'[t].pc = "forget" /\ at'[t].page = p
  BY <1>00, <1>0, <1>1, Becomes
<1>3. mem' \in [Frame -> Stored]
  <2>1. e # NoFrame => e \in Frame
    OBVIOUS
  <2>2. e # NoFrame => LinksOfReturn(list, mem, e) \in [Frame -> Stored]
    BY <1>00, <2>1 DEF TypeOK, LinksOfReturn, Stored
  <2> QED
    BY <1>00, <1>1, <2>2 DEF TypeOK
<1>4. TypeOK' /\ PtesOK'
  BY <1>1, <1>2, <1>3 DEF Inv, TypeOK, PtesOK
<1>5. \A u \in Threads : Relies(u)'
  <2> TAKE u \in Threads
  <2>1. CASE u = t
    BY <1>0, <1>1, <1>2, <2>1 DEF Relies
  <2>2. CASE u # t
    BY <1>0, <1>1, <1>2, <2>2, OthersRely
  <2> QED
    BY <2>1, <2>2
<1>6. Forms /\ Forms'
  BY <1>5, InvForms, FormsNext
<1>7. Crowd'
  <2>1. pte' = pte /\ \A u \in Threads : at'[u].page = at[u].page
    BY <1>0, <1>1, <1>2 DEF Others
  <2>2. Touched' \subseteq Touched
    BY <2>1 DEF Touched
  <2> QED
    BY <1>0, <1>2, <2>2, CrowdContinues
<1>8. \A f \in Frame : ~Mapped(p, f)' /\ ~Has(p, f)'
  BY <1>0, <1>2, <1>6 DEF Forms
<1>9. \A f \in Frame : Has(p, f) <=> f = e
  <2>1. NoFrame \notin Frame
    BY ContentsAssumption
  <2> QED
    BY <1>0, <1>6, <2>1 DEF Forms, Inv, PtesOK
<1>10. \A c \in Cluster : ~Holds(p, c) /\ ~Holds(p, c)'
  BY <1>0, <1>2, <1>6 DEF Forms
<1>11. /\ \A q \in Page \ {p}, f \in Frame : Mapped(q, f)' <=> Mapped(q, f)
       /\ \A q \in Page \ {p}, f \in Frame : Has(q, f)' <=> Has(q, f)
       /\ \A q \in Page \ {p}, c \in Cluster : Holds(q, c)' <=> Holds(q, c)
  <2>1. \A q \in Page \ {p} : pte[q].valid /\ Mapped(q, pte[q].blk)
                              => ot'[pte[q].blk] = ot[pte[q].blk]
    BY <1>1
  <2>2. at[t].page \in {p} \cup {NoPage} /\ at'[t].page \in {p} \cup {NoPage}
        /\ \A q \in Page \ {p} : pte'[q] = pte[q]
    BY <1>0, <1>1, <1>2
  <2> QED
    BY <1>2, <1>6, <2>1, <2>2, Elsewhere, HeldElsewhere DEF Inv
<1>12. FramesHad'
  <2>1. CASE e = NoFrame
    <3>1. \A q \in Page, f \in Frame : Has(q, f)' <=> Has(q, f)
      BY <1>8, <1>9, <1>11, <2>1, ContentsAssumption
    <3> QED
      BY <1>1, <2>1, <3>1, FramesStay DEF Inv
  <2>2. CASE e # NoFrame
    <3>1. e \in Frame /\ Has(p, e)
      BY <1>9, <2>2
    <3>2. \A q \in Page, f \in Frame : Has(q, f)' <=> Has(q, f) /\ f # e
      BY <1>8, <1>9, <1>11, <3>1 DEF Inv, FramesHad
    <3> QED
      BY <1>1, <2>2, <3>1, <3>2, FramesReturned DEF Inv
  <2> QED
    BY <2>1, <2>2
<1>13. \A q \in Page, c \in Cluster : Holds(q, c)' <=> Holds(q, c)
  BY <1>10, <1>11
<1>14. ClustersHeld'
  BY <1>1, <1>13, ClustersStay DEF Inv
<1>15. Owned'
  BY <1>1, <1>8, <1>11 DEF Inv, Owned
<1> QED
  BY <1>4, <1>5, <1>7, <1>12, <1>14, <1>15 DEF Inv


\* A page gets the first empty frame.
LEMMA PageFaultPops ==
  ASSUME Inv, Careful, NEW t \in Threads, NEW p \in Page, p[1] = t, PageFault(t, p),
         list.count # 0
  PROVE  Inv'
<1>0. MayCall(t, p) /\ pte[p].inseg /\ ~pte[p].valid /\ TypeOK
  BY DEF PageFault, Inv
<1>1. PICK e \in Frame : e = list.head /\ e \in Unhad
  <2>1. list.count \in Nat \ {0} /\ Lists(list, mem, Unhad)
    BY DEF Inv, FramesHad
  <2>2. list.head \in Unhad \cap Frame
    BY <2>1, GetFirst
  <2> QED
    BY <2>2
<1>2. /\ UNCHANGED <<holder, dvt, ft, ot, pte, mem, disk>>
      /\ list' = LstGetEmptyPage(list, mem)
      /\ at' = [at EXCEPT ![t] = [Idle EXCEPT !.pc = "update", !.page = p, !.frame = e]]
  BY <1>1 DEF PageFault, Take, Popped
<1>3. /\ at' \in [Threads -> Local] /\ Others(t)
      /\ at'[t].pc = "update" /\ at'[t].page = p /\ at'[t].frame = e
  <2>1. Starts(t, "update", p, e)
    BY <1>2 DEF Starts
  <2>2. Started(t, "update", p, e)
    <3>1. TypeOK /\ e \in Frame \cup {NoFrame}
      BY <1>0
    <3> QED
      BY <2>1, <3>1, Begins
  <2> QED
    BY <2>2 DEF Started
<1>4. TypeOK' /\ PtesOK'
  BY <1>2, <1>3 DEF Inv, TypeOK, PtesOK
<1>5. \A u \in Threads : Relies(u)'
  <2>1. Relies(t)'
    BY <1>0, <1>2, <1>3 DEF Relies
  <2> QED
    BY <1>0, <1>2, <1>3, <2>1, OthersRelyOnCall
<1>6. Forms /\ Forms'
  BY <1>5, InvForms, FormsNext
<1>7. Crowd'
  <2>1. Touched' \subseteq Touched \cup {p}
    BY <1>2, <1>3 DEF Touched, Others
  <2> QED
    BY <1>0, <1>3, <2>1, CrowdBegins
<1>8. \A f \in Frame : ~Mapped(p, f) /\ ~Mapped(p, f)' /\ ~Has(p, f) /\ (Has(p, f)' <=> f = e)
  <2>1. \A f \in Frame : ~Mapped(p, f) /\ ~Has(p, f)
    BY <1>0, CallsMapped
  <2>2. \A f \in Frame : ~Mapped(p, f)'
    BY <1>0, <1>2, <1>6 DEF Forms
  <2>3. \A f \in Frame : Has(p, f)' <=> f = e
    BY <1>3, <1>6, <2>2 DEF Forms
  <2> QED
    BY <2>1, <2>2, <2>3
<1>9. \A c \in Cluster : Holds(p, c)' <=> Holds(p, c)
  <2>1. ClusterHeld(p)' = ClusterHeld(p)
    BY <1>2 DEF ClusterHeld
  <2> QED
    BY <1>0, <1>2, <1>3, <1>6, <2>1, CallsMapped DEF Forms
<1>10. at[t].page \in {p} \cup {NoPage} /\ at'[t].page \in {p} \cup {NoPage}
       /\ \A q \in Page \ {p} : pte'[q] = pte[q]
  BY <1>0, <1>2, <1>3, CallsMapped
<1>11. /\ \A q \in Page \ {p}, f \in Frame : Mapped(q, f)' <=> Mapped(q, f)
       /\ \A q \in Page \ {p}, f \in Frame : Has(q, f)' <=> Has(q, f)
       /\ \A q \in Page \ {p}, c \in Cluster : Holds(q, c)' <=> Holds(q, c)
  <2>1. \A q \in Page \ {p} : pte[q].valid /\ Mapped(q, pte[q].blk)
                              => ot'[pte[q].blk] = ot[pte[q].blk]
    BY <1>2
  <2> QED
    BY <1>3, <1>6, <1>10, <2>1, Elsewhere, HeldElsewhere DEF Inv
<1>12. FramesHad'
  <2>1. \A q \in Page, f \in Frame :
          Has(q, f)' <=> Has(q, f) \/ (q = p /\ f = list.head)
    BY <1>1, <1>8, <1>11
  <2> QED
    BY <1>2, <2>1, FramesTaken DEF Inv
<1>13. ClustersHeld'
  <2>1. \A q \in Page, c \in Cluster : Holds(q, c)' <=> Holds(q, c)
    BY <1>9, <1>11
  <2> QED
    BY <1>2, <2>1, ClustersStay DEF Inv
<1>14. Owned'
  BY <1>2, <1>8, <1>11 DEF Inv, Owned
<1> QED
  BY <1>4, <1>5, <1>7, <1>12, <1>13, <1>14 DEF Inv

\* No page is empty: the thread keeps the list and looks for a victim, alone.
LEMMA PageFaultWaits ==
  ASSUME Inv, Careful, NEW t \in Threads, NEW p \in Page, p[1] = t, PageFault(t, p),
         list.count = 0
  PROVE  Inv'
<1>0. MayCall(t, p) /\ pte[p].inseg /\ ~pte[p].valid /\ TypeOK
  BY DEF PageFault, Inv
<1>1. Alone(t)
  BY <1>0, AloneWhenFull
<1>2. UNCHANGED <<list, dvt, ft, ot, pte, mem, disk>>
      /\ at' = [at EXCEPT ![t] = [Idle EXCEPT !.pc = "victim", !.page = p]]
  BY DEF PageFault
<1>3. /\ at' \in [Threads -> Local] /\ Others(t)
      /\ at'[t].pc = "victim" /\ at'[t].page = p
  <2>1. [Idle EXCEPT !.pc = "victim", !.page = p] \in Local
    BY DEF Idle, Local
  <2> QED
    BY <1>0, <1>2, <2>1 DEF TypeOK, Others, Idle
<1>4. TypeOK' /\ PtesOK'
  BY <1>2, <1>3 DEF Inv, TypeOK, PtesOK
<1>5. \A u \in Threads : Relies(u)'
  <2>1. Relies(t)'
    <3>1. Alone(t)'
      BY <1>1, <1>3 DEF Alone, Others
    <3> QED
      BY <1>0, <1>2, <1>3, <3>1 DEF Relies
  <2> QED
    BY <1>0, <1>2, <1>3, <2>1, OthersRelyOnCall
<1>6. Forms /\ Forms'
  BY <1>5, InvForms, FormsNext
<1>7. Crowd'
  <2>1. Touched' \subseteq Touched \cup {p}
    BY <1>2, <1>3 DEF Touched, Others
  <2> QED
    BY <1>0, <1>3, <2>1, CrowdBegins
<1>8. \A f \in Frame : ~Mapped(p, f) /\ ~Mapped(p, f)' /\ ~Has(p, f) /\ ~Has(p, f)'
  <2>1. \A f \in Frame : ~Mapped(p, f) /\ ~Has(p, f)
    BY <1>0, CallsMapped
  <2>2. \A f \in Frame : ~Mapped(p, f)'
    BY <1>0, <1>2, <1>6 DEF Forms
  <2>3. \A f \in Frame : ~Has(p, f)'
    BY <1>3, <1>6, <2>2 DEF Forms
  <2> QED
    BY <2>1, <2>2, <2>3
<1>9. \A c \in Cluster : Holds(p, c)' <=> Holds(p, c)
  <2>1. ClusterHeld(p)' = ClusterHeld(p)
    BY <1>2 DEF ClusterHeld
  <2> QED
    BY <1>0, <1>2, <1>3, <1>6, <2>1, CallsMapped DEF Forms
<1>10. /\ \A q \in Page \ {p}, f \in Frame : Mapped(q, f)' <=> Mapped(q, f)
       /\ \A q \in Page, f \in Frame : Has(q, f)' <=> Has(q, f)
       /\ \A q \in Page, c \in Cluster : Holds(q, c)' <=> Holds(q, c)
  <2>1. at[t].page \in {p} \cup {NoPage} /\ at'[t].page \in {p} \cup {NoPage}
    BY <1>0, <1>3, CallsMapped
  <2>2. \A q \in Page \ {p} : pte'[q] = pte[q]
    BY <1>2
  <2>3. \A f \in Frame : Has(p, f)' <=> Has(p, f)
    BY <1>8
  <2> QED
    BY <1>2, <1>3, <1>6, <1>9, <2>1, <2>2, <2>3, PageKeeps
<1>11. Owned'
  BY <1>2, <1>8, <1>10 DEF Inv, Owned
<1> QED
  BY <1>2, <1>4, <1>5, <1>7, <1>10, <1>11, Quiet


\* When no page is empty and nobody has frame e in hand, a page is mapped there: the
\* one the frame table names.
LEMMA VictimOwned ==
  ASSUME Inv, list.count = 0, NEW e \in Frame, \A u \in Threads : ~InHand(u, e)
  PROVE  \E o \in Page : Mapped(o, e) /\ ft[e].owner = o /\ pte[o].valid /\ pte[o].blk = e
<1>1. Lists(list, mem, Unhad) /\ Unhad \in SUBSET Frame /\ list.count \in Nat
  BY DEF Inv, FramesHad, Unhad
<1>2. Unhad = {}
  BY <1>1, EmptyList
<1>3. PICK o \in Page : Has(o, e)
  BY <1>2 DEF Unhad
<1>4. Mapped(o, e)
  BY <1>3 DEF Has
<1> QED
  BY <1>4 DEF Inv, Owned, Mapped

\* The cluster a victim is swapped out to, and what becomes of the vacancy table.
Cleared(e, c, table) ==
  \/ ot[e] = c /\ table = dvt
  \/ ot[e] = NoCluster /\ \E to \in DvtAcquireCluster(dvt) : c = to.cluster /\ table = to.dvt

\* The disk after the content of frame e was saved in cluster c, if there is a need.
Saved(e, c, dirty, d) ==
  \A k \in Cluster :
    d[k] = IF k = c /\ (dirty \/ ot[e] = NoCluster) THEN mem[e] ELSE disk[k]

\* What us_swap_out does to page o in frame e.
SwapsTo(e, o, dirty, r) ==
  /\ r.frame = e
  /\ r.list = LstGetEmptyPage(LstReturnPage(list, e), LinksOfReturn(list, mem, e))
  /\ r.ft = [ft EXCEPT ![e].used = FALSE]
  /\ r.mem = LinksOfReturn(list, mem, e)
  /\ r.disk \in [Cluster -> Stored]
  /\ \E c \in Cluster : /\ r.pte = [pte EXCEPT ![o] = SwappedOut(pte[o], c)]
                        /\ Cleared(e, c, r.dvt)
                        /\ Saved(e, c, dirty, r.disk)

LEMMA Swapped ==
  ASSUME Inv, NEW e \in Frame, NEW o \in Page, ft[e].owner = o, NEW dirty,
         NEW r \in SwapOut([frame |-> e, cluster |-> ot[e], dirty |-> dirty])
  PROVE  SwapsTo(e, o, dirty, r)
<1> DEFINE v == [frame |-> e, cluster |-> ot[e], dirty |-> dirty]
<1>1. PICK to \in IF v.cluster = NoCluster THEN DvtAcquireCluster(dvt)
                  ELSE {[cluster |-> v.cluster, dvt |-> dvt]} :
        r = [frame |-> v.frame,
             list  |-> LstGetEmptyPage(LstReturnPage(list, v.frame),
                                       LinksOfReturn(list, mem, v.frame)),
             ft    |-> [ft EXCEPT ![v.frame].used = FALSE],
             pte   |-> [pte EXCEPT ![ft[v.frame].owner] = SwappedOut(@, to.cluster)],
             mem   |-> LinksOfReturn(list, mem, v.frame),
             disk  |-> IF Written(v) THEN [disk EXCEPT ![to.cluster] = mem[v.frame]]
                       ELSE disk,
             dvt   |-> to.dvt]
  BY DEF SwapOut
<1>2. v.frame = e /\ v.cluster = ot[e]
  OBVIOUS
<1>9. Written(v) <=> dirty \/ ot[e] = NoCluster
  BY DEF Written
<1> HIDE DEF v
<1>3. PICK x : x = IF Written(v) THEN [disk EXCEPT ![to.cluster] = mem[e]] ELSE disk
  OBVIOUS
<1>4. r = [frame |-> e,
           list  |-> LstGetEmptyPage(LstReturnPage(list, e), LinksOfReturn(list, mem, e)),
           ft    |-> [ft EXCEPT ![e].used = FALSE],
           pte   |-> [pte EXCEPT ![o] = SwappedOut(pte[o], to.cluster)],
           mem   |-> LinksOfReturn(list, mem, e), disk |-> x, dvt |-> to.dvt]
  BY <1>1, <1>2, <1>3
<1>5. TypeOK /\ ot[e] \in Cluster \cup {NoCluster}
  BY DEF Inv, TypeOK
<1>6. to.cluster \in Cluster /\ Cleared(e, to.cluster, to.dvt)
  <2>1. CASE ot[e] = NoCluster
    <3>1. to \in DvtAcquireCluster(dvt)
      BY <1>1, <1>2, <2>1
    <3>2. to.cluster \in Vacant(dvt)
      BY <3>1, AcquireCluster DEF Inv, ClustersHeld
    <3> QED
      BY <2>1, <3>1, <3>2 DEF Cleared, Vacant
  <2>2. CASE ot[e] # NoCluster
    <3>1. to = [cluster |-> ot[e], dvt |-> dvt]
      BY <1>1, <1>2, <2>2
    <3>2. to.cluster = ot[e] /\ to.dvt = dvt
      BY <3>1
    <3> QED
      BY <1>5, <2>2, <3>2 DEF Cleared
  <2> QED
    BY <2>1, <2>2
<1>7. x \in [Cluster -> Stored]
  BY <1>3, <1>5, <1>6 DEF TypeOK
<1>8. /\ r.frame = e
      /\ r.list = LstGetEmptyPage(LstReturnPage(list, e), LinksOfReturn(list, mem, e))
      /\ r.ft = [ft EXCEPT ![e].used = FALSE]
      /\ r.pte = [pte EXCEPT ![o] = SwappedOut(pte[o], to.cluster)]
      /\ r.mem = LinksOfReturn(list, mem, e) /\ r.disk = x /\ r.dvt = to.dvt
  BY <1>4
<1>10. Saved(e, to.cluster, dirty, r.disk)
  BY <1>3, <1>5, <1>6, <1>8, <1>9 DEF Saved, TypeOK
<1> QED
  BY <1>6, <1>7, <1>8, <1>10 DEF SwapsTo

\* The frame of page o goes to page p while no page is empty, and o to a cluster.
LEMMA Replaced ==
  ASSUME Inv, Forms', NEW t \in Threads, NEW p \in Page, p[1] = t,
         NEW e \in Frame, NEW o \in Page, NEW c \in Cluster,
         list.count = 0, Others(t), \A u \in Threads \ {t} : at[u].pc = "idle",
         at[t].pc \in {"idle", "evict"}, at[t].page \in {p} \cup {NoPage},
         at'[t].pc \in {"update", "loaded"}, at'[t].page = p, at'[t].frame = e,
         ~pte[p].valid, Mapped(o, e), pte[o].valid, pte[o].blk = e,
         \A q \in Page : pte'[q] = IF q = o THEN SwappedOut(pte[o], c) ELSE pte[q],
         \A f \in Frame \ {e} : ot'[f] = ot[f],
         list' = LstGetEmptyPage(LstReturnPage(list, e), LinksOfReturn(list, mem, e)),
         Cleared(e, c, dvt')
  PROVE  /\ FramesHad' /\ ClustersHeld' /\ PtesOK' /\ o # p
         /\ pte'[p] = pte[p]
         /\ \A q \in Page, f \in Frame : Mapped(q, f)' => Mapped(q, f) /\ f # e
<1>1. o # p
  OBVIOUS
<1>2. /\ pte'[o].inseg = pte[o].inseg /\ pte'[o].tbc = pte[o].tbc
      /\ ~pte'[o].valid /\ pte'[o].blk = c
  BY DEF SwappedOut, Inv, TypeOK, Descriptor
<1>3. PtesOK'
  BY <1>2 DEF Inv, PtesOK
<1>4. Forms
  BY InvForms
<1>5. at[t].page \in {p, o} \cup {NoPage} /\ at'[t].page \in {p, o} \cup {NoPage}
      /\ \A q \in Page \ {p, o} : pte'[q] = pte[q]
  OBVIOUS
<1>6. \A q \in Page \ {p, o}, f \in Frame : Has(q, f) => f # e
  BY DEF Inv, FramesHad, Has
<1>7. \A q \in Page \ {p, o} : pte[q].valid /\ Mapped(q, pte[q].blk)
                               => ot'[pte[q].blk] = ot[pte[q].blk]
  BY <1>6 DEF Inv, PtesOK, Has
<1>8. /\ \A q \in Page \ {p, o}, f \in Frame : Mapped(q, f)' <=> Mapped(q, f)
      /\ \A q \in Page \ {p, o}, f \in Frame : Has(q, f)' <=> Has(q, f)
      /\ \A q \in Page \ {p, o}, d \in Cluster : Holds(q, d)' <=> Holds(q, d)
  BY <1>4, <1>5, <1>7, Elsewhere, HeldElsewhere DEF Inv
<1>9. o[1] \in Threads /\ at[o[1]].page # o /\ at'[o[1]].page # o
  <2>1. \A u \in Threads : at[u].page # o
    BY <1>1, ContentsAssumption DEF Inv, Relies, Idle
  <2> QED
    BY <1>1, <1>4, <2>1 DEF Others, Forms
<1>10. \A f \in Frame : ~Mapped(p, f) /\ ~Mapped(p, f)' /\ ~Has(p, f) /\ (Has(p, f)' <=> f = e)
  <2>1. \A f \in Frame : ~Mapped(p, f) /\ ~Mapped(p, f)'
    BY <1>1, <1>4 DEF Forms
  <2>2. \A f \in Frame : ~Has(p, f)
    BY <1>4, <2>1 DEF Forms
  <2>3. \A f \in Frame : Has(p, f)' <=> f = e
    BY <2>1 DEF Forms
  <2> QED
    BY <2>1, <2>2, <2>3
<1>11. \A f \in Frame : ~Mapped(o, f)' /\ ~Has(o, f)' /\ (Has(o, f) <=> f = e)
  <2>1. \A f \in Frame : ~Mapped(o, f)'
    BY <1>2 DEF Forms
  <2>2. \A f \in Frame : ~Has(o, f)'
    BY <1>9, <2>1 DEF Forms
  <2>3. \A f \in Frame : Has(o, f) <=> f = e
    BY <1>4, <1>9 DEF Forms
  <2> QED
    BY <2>1, <2>2, <2>3
<1>12. FramesHad'
  <2>1. \A q \in Page, f \in Frame :
          Has(q, f)' <=> (Has(q, f) /\ f # e) \/ (q = p /\ f = e)
    BY <1>1, <1>6, <1>8, <1>10, <1>11
  <2> QED
    BY <2>1, FramesPassed DEF Inv
<1>13. \A d \in Cluster : Holds(p, d)' <=> Holds(p, d)
  <2>1. pte'[p] = pte[p]
    BY <1>1
  <2>2. ClusterHeld(p)' = ClusterHeld(p)
    BY <2>1 DEF ClusterHeld
  <2> QED
    BY <1>4, <2>1, <2>2 DEF Forms
<1>14. \A d \in Cluster : (Holds(o, d) <=> ot[e] = d) /\ (Holds(o, d)' <=> c = d)
  <2>1. pte[o].inseg /\ ~pte[o].tbc
    BY DEF Inv, PtesOK
  <2>2. ClusterHeld(o) = ot[e] /\ ClusterHeld(o)' = c
    BY <1>2, <2>1 DEF ClusterHeld
  <2>3. \A d \in Cluster : Holds(o, d) <=> ot[e] = d
    BY <1>4, <1>9, <2>1, <2>2 DEF Forms
  <2>4. \A d \in Cluster : Holds(o, d)' <=> c = d
    <3>1. ~(at'[o[1]].page = o /\ at'[o[1]].pc \in {"return", "forget"})
      BY <1>9
    <3>2. \A d \in Cluster : Holds(o, d)' <=> pte'[o].inseg /\ ClusterHeld(o)' = d
      BY <3>1 DEF Forms
    <3>3. pte'[o].inseg
      BY <1>2, <2>1
    <3> QED
      BY <2>2, <3>2, <3>3
  <2> QED
    BY <2>3, <2>4
<1>15. ClustersHeld'
  <2>1. CASE ot[e] = c /\ dvt' = dvt
    <3>1. \A q \in Page, d \in Cluster : Holds(q, d)' <=> Holds(q, d)
      BY <1>8, <1>13, <1>14, <2>1
    <3> QED
      BY <2>1, <3>1, ClustersStay DEF Inv
  <2>2. CASE ot[e] = NoCluster /\ \E to \in DvtAcquireCluster(dvt) :
                                    c = to.cluster /\ dvt' = to.dvt
    <3>1. PICK to \in DvtAcquireCluster(dvt) : c = to.cluster /\ dvt' = to.dvt
      BY <2>2
    <3>2. \A q \in Page, d \in Cluster :
            Holds(q, d)' <=> Holds(q, d) \/ (q = o /\ d = to.cluster)
      BY <1>8, <1>13, <1>14, <2>2, <3>1, ContentsAssumption
    <3> QED
      BY <3>1, <3>2, ClustersAcquired DEF Inv
  <2> QED
    BY <2>1, <2>2 DEF Cleared
<1>16. \A q \in Page, f \in Frame : Mapped(q, f)' => Mapped(q, f) /\ f # e
  BY <1>6, <1>8, <1>10, <1>11 DEF Has
<1> QED
  BY <1>1, <1>3, <1>12, <1>15, <1>16


\* The rest of us_acquire_page, where the victim is swapped out.
LEMMA EvictStep ==
  ASSUME Inv, Careful, NEW t \in Threads, Evict(t)
  PROVE  Inv'
<1>00. at[t].pc = "evict" /\ Relies(t) /\ TypeOK
  BY DEF Evict, Inv
<1>01. PICK p \in Page, e \in Frame : p = at[t].page /\ e = at[t].frame
  BY <1>00 DEF Relies
<1>0. /\ at[t].pc = "evict" /\ p = at[t].page /\ e = at[t].frame /\ p[1] = t
      /\ list.count = 0 /\ pte[p].inseg /\ ~pte[p].valid /\ at[t].cluster = ot[e]
  BY <1>00, <1>01 DEF Relies
<1>1. \A u \in Threads \ {t} : at[u].pc = "idle"
  BY <1>0, NobodyElse
<1>2. \A u \in Threads : ~InHand(u, e)
  BY <1>0, <1>1 DEF InHand
<1>3. PICK o \in Page : Mapped(o, e) /\ ft[e].owner = o /\ pte[o].valid /\ pte[o].blk = e
  BY <1>0, <1>2, VictimOwned
<1>18. PICK dirty : dirty = at[t].dirty
  OBVIOUS
<1>4. PICK r \in SwapOut([frame |-> e, cluster |-> ot[e], dirty |-> dirty]) :
        Take(r) /\ ft' = r.ft /\ mem' = r.mem
  BY <1>0, <1>18 DEF Evict
<1>5. Become(t, "update") /\ ot' = ot
  BY DEF Evict
<1>6. SwapsTo(e, o, dirty, r)
  BY <1>3, Swapped
<1>7. PICK c \in Cluster : /\ r.pte = [pte EXCEPT ![o] = SwappedOut(pte[o], c)]
                           /\ Cleared(e, c, r.dvt)
  BY <1>6 DEF SwapsTo
<1>8. /\ list' = LstGetEmptyPage(LstReturnPage(list, e), LinksOfReturn(list, mem, e))
      /\ ft' = [ft EXCEPT ![e].used = FALSE]
      /\ mem' = LinksOfReturn(list, mem, e)
      /\ disk' \in [Cluster -> Stored]
      /\ pte' = [pte EXCEPT ![o] = SwappedOut(pte[o], c)]
      /\ Cleared(e, c, dvt')
  BY <1>4, <1>6, <1>7 DEF Take, SwapsTo
<1>9. /\ at' \in [Threads -> Local] /\ Others(t)
      /\ at'[t].pc = "update" /\ at'[t].page = p /\ at'[t].frame = e
  BY <1>00, <1>0, <1>5, Becomes
<1>10. \A q \in Page : pte'[q] = IF q = o THEN SwappedOut(pte[o], c) ELSE pte[q]
  BY <1>00, <1>8 DEF TypeOK
<1>11. TypeOK'
  <2>1. SwappedOut(pte[o], c) \in Descriptor
    BY <1>00 DEF TypeOK, SwappedOut, Descriptor
  <2>2. pte' \in [Page -> Descriptor]
    BY <1>00, <1>8, <2>1 DEF TypeOK
  <2>3. mem' \in [Frame -> Stored]
    BY <1>00, <1>8 DEF TypeOK, LinksOfReturn, Stored
  <2>4. ft' \in [Frame -> [owner : Page \cup {NoPage}, used : BOOLEAN, dirty : BOOLEAN]]
    BY <1>00, <1>8 DEF TypeOK
  <2> QED
    BY <1>00, <1>5, <1>8, <1>9, <2>2, <2>3, <2>4 DEF TypeOK
<1>12. pte'[p] = pte[p] /\ o # p
  BY <1>0, <1>3, <1>10
<1>13. \A u \in Threads : Relies(u)'
  <2> TAKE u \in Threads
  <2>1. CASE u = t
    BY <1>0, <1>9, <1>12, <2>1 DEF Relies
  <2>2. CASE u # t
    BY <1>1, <1>9, <2>2, OthersRely
  <2> QED
    BY <2>1, <2>2
<1>14. Forms'
  BY <1>13, FormsNext
<1>15. /\ FramesHad' /\ ClustersHeld' /\ PtesOK'
       /\ \A q \in Page, f \in Frame : Mapped(q, f)' => Mapped(q, f) /\ f # e
  <2>1. at[t].pc \in {"idle", "evict"} /\ at[t].page \in {p} \cup {NoPage}
        /\ at'[t].pc \in {"update", "loaded"}
    BY <1>0, <1>9
  <2>2. \A f \in Frame \ {e} : ot'[f] = ot[f]
    BY <1>5
  <2> QED
    BY <1>0, <1>1, <1>3, <1>8, <1>9, <1>10, <1>14, <2>1, <2>2, Replaced
<1>16. Crowd'
  <2>1. \A u \in Threads : at'[u].page = at[u].page
    BY <1>0, <1>9 DEF Others
  <2>2. \A q \in Page : pte'[q].inseg = pte[q].inseg
    <3>1. SwappedOut(pte[o], c).inseg = pte[o].inseg
      BY <1>00 DEF TypeOK, SwappedOut, Descriptor
    <3> QED
      BY <1>10, <3>1
  <2>3. Touched' \subseteq Touched
    BY <2>1, <2>2 DEF Touched
  <2> QED
    BY <1>0, <1>9, <2>3, CrowdContinues
<1>17. Owned'
  <2>1. \A f \in Frame \ {e} : ft'[f] = ft[f]
    BY <1>00, <1>8 DEF TypeOK
  <2> QED
    BY <1>15, <2>1 DEF Inv, Owned
<1> QED
  BY <1>11, <1>13, <1>15, <1>16, <1>17 DEF Inv

\* What both ways to a frame for a page that is loaded have in common.
LEMMA LoadedBegins ==
  ASSUME Inv, Careful, NEW t \in Threads, NEW p \in Page, p[1] = t, MayCall(t, p),
         ~pte[p].inseg, NEW e \in Frame,
         pte'[p] = pte[p], ft'[e].used, ft'[e].owner = p, ot'[e] = NoCluster, Others(t),
         at'[t].pc = "loaded", at'[t].page = p, at'[t].frame = e,
         \A q \in Page : pte'[q].inseg = pte[q].inseg
  PROVE  /\ at[t].pc = "idle" /\ at[t].page = NoPage
         /\ \A u \in Threads : at[u].page # p
         /\ Relies(t)' /\ Crowd'
<1>1. at[t].pc = "idle" /\ at[t].page = NoPage
  BY DEF MayCall, Inv, Relies, Idle
<1>2. \A u \in Threads : at[u].page # p
  BY <1>1, OwnPage DEF Inv
<1>3. Relies(t)'
  BY DEF Relies
<1>4. Crowd'
  <2>1. Touched' \subseteq Touched \cup {p}
    BY DEF Touched, Others
  <2> QED
    BY <2>1, CrowdBegins
<1> QED
  BY <1>1, <1>2, <1>3, <1>4

\* load_segment where a page is empty.
LEMMA UsLoadPagePops ==
  ASSUME Inv, Careful, NEW t \in Threads, NEW p \in Page, p[1] = t, NEW d \in Data,
         UsLoadPage(t, p, d), list.count # 0
  PROVE  Inv'
<1>0. MayCall(t, p) /\ ~pte[p].inseg /\ ~pte[p].valid /\ TypeOK
  BY DEF UsLoadPage, Inv, PtesOK
<1>1. PICK e \in Frame : e = list.head /\ e \in Unhad
  <2>1. list.count \in Nat \ {0} /\ Lists(list, mem, Unhad)
    BY DEF Inv, FramesHad
  <2>2. list.head \in Unhad \cap Frame
    BY <2>1, GetFirst
  <2> QED
    BY <2>2
<1> DEFINE g == [owner |-> p, used |-> TRUE, dirty |-> FALSE]
<1>2. /\ UNCHANGED <<holder, dvt, pte, disk>>
      /\ list' = LstGetEmptyPage(list, mem)
      /\ ft' = [ft EXCEPT ![e] = g]
      /\ ot' = [ot EXCEPT ![e] = NoCluster]
      /\ mem' = [mem EXCEPT ![e] = d]
      /\ at' = [at EXCEPT ![t] = [Idle EXCEPT !.pc = "loaded", !.page = p, !.frame = e]]
  <2>1. PICK r \in {Popped} :
          /\ Take(r)
          /\ ft' = [r.ft EXCEPT ![r.frame] = [owner |-> p, used |-> TRUE, dirty |-> FALSE]]
          /\ ot' = [ot EXCEPT ![r.frame] = NoCluster]
          /\ mem' = [r.mem EXCEPT ![r.frame] = d]
          /\ at' = [at EXCEPT ![t] = [Idle EXCEPT !.pc = "loaded", !.page = p,
                                                  !.frame = r.frame]]
    BY DEF UsLoadPage
  <2>2. /\ r.frame = e /\ r.list = LstGetEmptyPage(list, mem)
        /\ r.ft = ft /\ r.pte = pte /\ r.mem = mem /\ r.disk = disk /\ r.dvt = dvt
    BY <1>1, <2>1 DEF Popped
  <2>3. holder' = holder
    BY DEF UsLoadPage
  <2> QED
    BY <2>1, <2>2, <2>3 DEF Take
<1>3. /\ \A f \in Frame : ft'[f] = IF f = e THEN g ELSE ft[f]
      /\ \A f \in Frame : ot'[f] = IF f = e THEN NoCluster ELSE ot[f]
      /\ \A f \in Frame : f # e => mem'[f] = mem[f]
  BY <1>0, <1>2 DEF TypeOK
<1>4. g.used /\ g.owner = p
  OBVIOUS
<1>16. /\ at' \in [Threads -> Local] /\ Others(t)
       /\ at'[t].pc = "loaded" /\ at'[t].page = p /\ at'[t].frame = e
  <2>1. Starts(t, "loaded", p, e)
    BY <1>2 DEF Starts
  <2>2. Started(t, "loaded", p, e)
    <3>1. TypeOK /\ e \in Frame \cup {NoFrame}
      BY <1>0
    <3> QED
      BY <2>1, <3>1, Begins
  <2> QED
    BY <2>2 DEF Started
<1>5. /\ at[t].pc = "idle" /\ at[t].page = NoPage
      /\ at' \in [Threads -> Local] /\ Others(t)
      /\ at'[t].pc = "loaded" /\ at'[t].page = p /\ at'[t].frame = e
      /\ \A u \in Threads : at[u].page # p
      /\ Relies(t)' /\ Crowd'
  <2>1. ft'[e].used /\ ft'[e].owner = p /\ ot'[e] = NoCluster
    BY <1>3, <1>4
  <2>2. pte'[p] = pte[p] /\ \A q \in Page : pte'[q].inseg = pte[q].inseg
    BY <1>2
  <2> QED
    BY <1>0, <1>16, <2>1, <2>2, LoadedBegins
<1>6. TypeOK' /\ PtesOK'
  BY <1>0, <1>2, <1>5 DEF Inv, TypeOK, PtesOK, Stored
<1> HIDE DEF g
<1>7. \A q \in Page : ~Has(q, e)
  BY <1>1 DEF Unhad
<1>8. \A u \in Threads : Relies(u)'
  <2> TAKE u \in Threads
  <2>1. CASE u # t
    <3>1. InHand(u, at[u].frame) =>
            at[u].frame \in Frame /\ at[u].page \in Page /\ Has(at[u].page, at[u].frame)
      BY DEF Inv, Relies, InHand, Has
    <3> QED
      BY <1>0, <1>2, <1>3, <1>5, <1>7, <2>1, <3>1, OthersRely
  <2> QED
    BY <1>5, <2>1
<1>9. Forms /\ Forms'
  BY <1>8, InvForms, FormsNext
<1>10. \A f \in Frame : ~Mapped(p, f)' /\ ~Has(p, f) /\ (Has(p, f)' <=> f = e)
  <2>1. \A f \in Frame : ~Mapped(p, f) /\ ~Mapped(p, f)'
    BY <1>0, <1>2, <1>9 DEF Forms
  <2>2. \A f \in Frame : ~Has(p, f)
    BY <1>5, <1>9, <2>1 DEF Forms
  <2>3. \A f \in Frame : Has(p, f)' <=> f = e
    BY <1>5, <1>9, <2>1 DEF Forms
  <2> QED
    BY <2>1, <2>2, <2>3
<1>11. \A c \in Cluster : ~Holds(p, c) /\ ~Holds(p, c)'
  BY <1>0, <1>2, <1>9 DEF Forms
<1>12. /\ \A q \in Page \ {p}, f \in Frame : Mapped(q, f)' <=> Mapped(q, f)
       /\ \A q \in Page \ {p}, f \in Frame : Has(q, f)' <=> Has(q, f)
       /\ \A q \in Page \ {p}, c \in Cluster : Holds(q, c)' <=> Holds(q, c)
  <2>1. \A q \in Page \ {p} : pte[q].valid /\ Mapped(q, pte[q].blk)
                              => ot'[pte[q].blk] = ot[pte[q].blk]
    BY <1>3, <1>7 DEF Has, Inv, PtesOK
  <2>2. at[t].page \in {p} \cup {NoPage} /\ at'[t].page \in {p} \cup {NoPage}
        /\ \A q \in Page \ {p} : pte'[q] = pte[q]
    BY <1>2, <1>5
  <2> QED
    BY <1>5, <1>9, <2>1, <2>2, Elsewhere, HeldElsewhere DEF Inv
<1>13. FramesHad'
  <2>1. \A q \in Page, f \in Frame :
          Has(q, f)' <=> Has(q, f) \/ (q = p /\ f = list.head)
    BY <1>1, <1>10, <1>12
  <2>2. \A f \in Unhad \ {list.head} : mem'[f] = mem[f]
    BY <1>1, <1>3 DEF Unhad
  <2> QED
    BY <1>2, <2>1, <2>2, FramesTaken DEF Inv
<1>14. ClustersHeld'
  <2>1. \A q \in Page, c \in Cluster : Holds(q, c)' <=> Holds(q, c)
    BY <1>11, <1>12
  <2> QED
    BY <1>2, <2>1, ClustersStay DEF Inv
<1>15. Owned'
  BY <1>3, <1>7, <1>10, <1>12 DEF Inv, Owned, Has
<1> QED
  BY <1>5, <1>6, <1>8, <1>13, <1>14, <1>15 DEF Inv


\* load_segment where a page is swapped out: the thread is alone, as in page_fault.
LEMMA UsLoadPageSwaps ==
  ASSUME Inv, Careful, NEW t \in Threads, NEW p \in Page, p[1] = t, NEW d \in Data,
         UsLoadPage(t, p, d), list.count = 0
  PROVE  Inv'
<1>0. MayCall(t, p) /\ ~pte[p].inseg /\ ~pte[p].valid /\ TypeOK
  BY DEF UsLoadPage, Inv, PtesOK
<1>1. at[t].pc = "idle" /\ \A u \in Threads \ {t} : at[u].pc = "idle"
  BY <1>0, AloneWhenFull DEF Alone, MayCall
<1>2. PICK r \in UNION {SwapOut(v) : v \in Victims} :
        /\ Take(r)
        /\ ft' = [r.ft EXCEPT ![r.frame] = [owner |-> p, used |-> TRUE, dirty |-> FALSE]]
        /\ ot' = [ot EXCEPT ![r.frame] = NoCluster]
        /\ mem' = [r.mem EXCEPT ![r.frame] = d]
        /\ at' = [at EXCEPT ![t] = [Idle EXCEPT !.pc = "loaded", !.page = p,
                                                !.frame = r.frame]]
  BY DEF UsLoadPage
<1>3. PICK e \in Frame : r \in SwapOut(VictimAt(e))
  BY <1>2 DEF Victims
<1>4. PICK dirty : dirty = ft[e].dirty
  OBVIOUS
<1>5. r \in SwapOut([frame |-> e, cluster |-> ot[e], dirty |-> dirty])
  <2>1. VictimAt(e) = [frame |-> e, cluster |-> ot[e], dirty |-> dirty]
    BY <1>4 DEF VictimAt
  <2> QED
    BY <1>3, <2>1
<1>6. \A u \in Threads : ~InHand(u, e)
  BY <1>1 DEF InHand
<1>7. PICK o \in Page : Mapped(o, e) /\ ft[e].owner = o /\ pte[o].valid /\ pte[o].blk = e
  BY <1>6, VictimOwned
<1>8. SwapsTo(e, o, dirty, r)
  <2>1. ft[e].owner = o
    BY <1>7
  <2> QED
    BY <1>5, <2>1, Swapped
<1>9. PICK c \in Cluster : /\ r.pte = [pte EXCEPT ![o] = SwappedOut(pte[o], c)]
                           /\ Cleared(e, c, r.dvt)
  BY <1>8 DEF SwapsTo
<1> DEFINE g == [owner |-> p, used |-> TRUE, dirty |-> FALSE]
<1>10. /\ list' = LstGetEmptyPage(LstReturnPage(list, e), LinksOfReturn(list, mem, e))
       /\ ft' = [[ft EXCEPT ![e].used = FALSE] EXCEPT ![e] = g]
       /\ ot' = [ot EXCEPT ![e] = NoCluster]
       /\ mem' = [LinksOfReturn(list, mem, e) EXCEPT ![e] = d]
       /\ disk' \in [Cluster -> Stored]
       /\ pte' = [pte EXCEPT ![o] = SwappedOut(pte[o], c)]
       /\ Cleared(e, c, dvt')
  BY <1>2, <1>8, <1>9 DEF Take, SwapsTo
<1>11. at' = [at EXCEPT ![t] = [Idle EXCEPT !.pc = "loaded", !.page = p, !.frame = e]]
  BY <1>2, <1>8 DEF SwapsTo
<1>12. g.used /\ g.owner = p
       /\ g \in [owner : Page \cup {NoPage}, used : BOOLEAN, dirty : BOOLEAN]
  OBVIOUS
<1> HIDE DEF g
<1>13. /\ at' \in [Threads -> Local] /\ Others(t)
       /\ at'[t].pc = "loaded" /\ at'[t].page = p /\ at'[t].frame = e
  <2>1. Starts(t, "loaded", p, e)
    BY <1>11 DEF Starts
  <2>2. Started(t, "loaded", p, e)
    <3>1. TypeOK /\ e \in Frame \cup {NoFrame}
      BY <1>0
    <3> QED
      BY <2>1, <3>1, Begins
  <2> QED
    BY <2>2 DEF Started
<1>14. \A q \in Page : pte'[q] = IF q = o THEN SwappedOut(pte[o], c) ELSE pte[q]
  BY <1>0, <1>10 DEF TypeOK
<1>15. o # p
  BY <1>0, <1>7
<1>16. /\ ft' \in [Frame -> [owner : Page \cup {NoPage}, used : BOOLEAN, dirty : BOOLEAN]]
       /\ ft'[e] = g
       /\ \A f \in Frame \ {e} : ft'[f] = ft[f]
       /\ ot' \in [Frame -> Cluster \cup {NoCluster}]
       /\ ot'[e] = NoCluster
       /\ \A f \in Frame \ {e} : ot'[f] = ot[f]
  BY <1>0, <1>10, <1>12 DEF TypeOK
<1>17. TypeOK'
  <2>1. SwappedOut(pte[o], c) \in Descriptor
    <3>1. PICK x \in Descriptor : x = pte[o]
      BY <1>0 DEF TypeOK
    <3>2. [x EXCEPT !.blk = c, !.valid = FALSE] \in Descriptor
      BY <1>0 DEF Descriptor
    <3> QED
      BY <3>1, <3>2 DEF SwappedOut
  <2>2. pte' \in [Page -> Descriptor]
    BY <1>0, <1>10, <2>1 DEF TypeOK
  <2>3. mem' \in [Frame -> Stored]
    BY <1>0, <1>10 DEF TypeOK, LinksOfReturn, Stored
  <2> QED
    BY <1>0, <1>10, <1>13, <1>16, <2>2, <2>3 DEF TypeOK
<1>18. /\ at[t].pc = "idle" /\ at[t].page = NoPage
       /\ \A u \in Threads : at[u].page # p
       /\ Relies(t)' /\ Crowd'
  <2>1. ft'[e].used /\ ft'[e].owner = p /\ ot'[e] = NoCluster
    BY <1>12, <1>16
  <2>2. \A q \in Page : pte'[q].inseg = pte[q].inseg
    <3>1. SwappedOut(pte[o], c).inseg = pte[o].inseg
      BY <1>0 DEF TypeOK, SwappedOut, Descriptor
    <3> QED
      BY <1>14, <3>1
  <2>3. pte'[p] = pte[p]
    BY <1>14, <1>15
  <2> QED
    BY <1>0, <1>13, <2>1, <2>2, <2>3, LoadedBegins
<1>19. \A u \in Threads : Relies(u)'
  <2> TAKE u \in Threads
  <2>1. CASE u # t
    BY <1>1, <1>13, <2>1, OthersRely
  <2> QED
    BY <1>18, <2>1
<1>20. Forms'
  BY <1>19, FormsNext
<1>21. /\ FramesHad' /\ ClustersHeld' /\ PtesOK'
       /\ \A q \in Page, f \in Frame : Mapped(q, f)' => Mapped(q, f) /\ f # e
  <2>1. at[t].pc \in {"idle", "evict"} /\ at[t].page \in {p} \cup {NoPage}
        /\ at'[t].pc \in {"update", "loaded"}
    BY <1>13, <1>18
  <2> QED
    BY <1>0, <1>1, <1>7, <1>10, <1>13, <1>14, <1>16, <1>20, <2>1, Replaced
<1>22. Owned'
  BY <1>16, <1>21 DEF Inv, Owned
<1> QED
  BY <1>17, <1>18, <1>19, <1>21, <1>22 DEF Inv

------------------------------------------------------------------------------
(* The invariant, and what it says of the properties the runs check.       *)

LEMMA InvInit == Init => Inv
<1> SUFFICES ASSUME Init PROVE Inv
  OBVIOUS
<1>1. /\ Idle.pc = "idle" /\ Idle.page = NoPage
      /\ ~NoDescriptor.inseg /\ ~NoDescriptor.valid
  BY DEF Idle, NoDescriptor
<1>2. /\ \A t \in Threads : at[t] = Idle
      /\ \A q \in Page : pte[q] = NoDescriptor
      /\ list = LinkedList /\ mem = LinkedPages /\ dvt = InitialDvt
  BY DEF Init
<1>3. TypeOK
  <2>1. ft \in [Frame -> [owner : Page \cup {NoPage}, used : BOOLEAN, dirty : BOOLEAN]]
        /\ ot \in [Frame -> Cluster \cup {NoCluster}]
    BY DEF Init
  <2>2. pte \in [Page -> Descriptor] /\ at \in [Threads -> Local]
    BY IdleType, NoDescriptorType DEF Init
  <2>3. mem \in [Frame -> Stored] /\ disk \in [Cluster -> Stored]
    BY DEF Init, LinkedPages, Stored
  <2> QED
    BY <2>1, <2>2, <2>3 DEF TypeOK
<1>4. PtesOK
  BY <1>1, <1>2 DEF PtesOK
<1>5. \A t \in Threads : Relies(t)
  BY <1>1, <1>2 DEF Relies
<1>6. Crowd
  <2>1. Touched = {}
    BY <1>1, <1>2, ContentsAssumption DEF Touched
  <2> QED
    BY <1>1, <1>2, <2>1, FS_EmptySet DEF Crowd
<1>7. \A q \in Page : /\ \A f \in Frame : ~Mapped(q, f) /\ ~Has(q, f)
                      /\ \A c \in Cluster : ~Holds(q, c)
  BY <1>1, <1>2 DEF Mapped, Has, InHand, Holds
<1>8. FramesHad
  <2>1. Unhad = Frame
    BY <1>7 DEF Unhad
  <2> QED
    BY <1>2, <1>7, <2>1, AllListed DEF FramesHad
<1>9. ClustersHeld
  BY <1>2, <1>7, InitialTable DEF ClustersHeld
<1>10. Owned
  BY <1>7 DEF Owned
<1> QED
  BY <1>3, <1>4, <1>5, <1>6, <1>8, <1>9, <1>10 DEF Inv

LEMMA InvNext == Careful /\ Inv /\ [Next]_vars => Inv'
<1> SUFFICES ASSUME Careful, Inv, [Next]_vars
             PROVE  Inv'
  OBVIOUS
<1>1. CASE UNCHANGED vars
  <2>1. UNCHANGED <<list, holder, dvt, ft, ot, pte, mem, disk, at>>
    BY <1>1 DEF vars
  <2>2. TypeOK' /\ PtesOK'
    BY <2>1 DEF Inv, TypeOK, PtesOK
  <2>3. \A u \in Threads : Relies(u)'
    BY <2>1 DEF Inv, Relies, Alone
  <2>4. Crowd'
    BY <2>1 DEF Inv, Crowd, Touched
  <2>5. /\ \A q \in Page, f \in Frame : Mapped(q, f)' <=> Mapped(q, f)
        /\ \A q \in Page, f \in Frame : Has(q, f)' <=> Has(q, f)
        /\ \A q \in Page, c \in Cluster : Holds(q, c)' <=> Holds(q, c)
    BY <2>1 DEF Has, Mapped, InHand, Holds, ClusterHeld
  <2>6. Owned'
    BY <2>1, <2>5 DEF Inv, Owned
  <2> QED
    BY <2>1, <2>2, <2>3, <2>4, <2>5, <2>6, Quiet
<1>2. ASSUME NEW t \in Threads, Begin(t) PROVE Inv'
  <2>1. PICK p \in {q \in Page : q[1] = t} :
          \/ CreateSegment(t, p) \/ DeleteSegment(t, p) \/ PageFault(t, p) \/ Access(t, p)
          \/ \E d \in Data : UsLoadPage(t, p, d)
    BY <1>2 DEF Begin
  <2>2. p \in Page /\ p[1] = t
    OBVIOUS
  <2>3. CASE CreateSegment(t, p)
    BY <2>2, <2>3, CreateSegmentStep
  <2>4. CASE DeleteSegment(t, p)
    BY <2>2, <2>4, DeleteSegmentStep
  <2>5. CASE PageFault(t, p)
    BY <2>2, <2>5, PageFaultPops, PageFaultWaits
  <2>6. CASE Access(t, p)
    BY <2>2, <2>6, AccessStep
  <2>7. ASSUME NEW d \in Data, UsLoadPage(t, p, d) PROVE Inv'
    BY <2>2, <2>7, UsLoadPagePops, UsLoadPageSwaps
  <2> QED
    BY <2>1, <2>3, <2>4, <2>5, <2>6, <2>7
<1>3. ASSUME NEW t \in Threads, Continue(t) PROVE Inv'
  <2>1. CASE GetVictim(t)
    BY <2>1, GetVictimStep
  <2>2. CASE Evict(t)
    BY <2>2, EvictStep
  <2>3. CASE UsFtUpdate(t)
    BY <2>3, UsFtUpdateStep
  <2>4. CASE UsRequestPage(t)
    BY <2>4, UsRequestPageStep
  <2>5. CASE Serve(t)
    BY <2>5, ServeStep
  <2>6. CASE Loaded(t)
    BY <2>6, LoadedStep
  <2>7. CASE UsFreePage(t)
    BY <2>7, UsFreePageStep
  <2>8. CASE Forget(t)
    BY <2>8, ForgetStep
  <2>9. ASSUME NEW d \in Data, Store(t, d) PROVE Inv'
    BY <2>9, StoreStep
  <2> QED
    BY <1>3, <2>1, <2>2, <2>3, <2>4, <2>5, <2>6, <2>7, <2>8, <2>9 DEF Continue
<1> QED
  BY <1>1, <1>2, <1>3 DEF Next

LEMMA Inductive ==
  ASSUME Careful
  PROVE  Spec => []Inv
<1>1. Inv /\ [Next]_vars => Inv'
  BY InvNext
<1> QED
  BY <1>1, InvInit, PTL DEF Spec

LEMMA InvFrames == Inv => FramesAccounted
<1> SUFFICES ASSUME Inv PROVE FramesAccounted
  OBVIOUS
<1>1. ASSUME NEW t \in Threads, NEW f \in Frame, InHand(t, f)
      PROVE  at[t].page \in Page /\ Has(at[t].page, f) /\ ~pte[at[t].page].valid
  BY <1>1 DEF Inv, Relies, InHand, Has, PtesOK
<1>2. \A f \in Frame : f \in Unhad <=> /\ \A t \in Threads : ~InHand(t, f)
                                       /\ \A q \in Page : ~Mapped(q, f)
  BY <1>1 DEF Unhad, Has
<1>3. PICK s \in [1 .. list.count -> Frame] :
        /\ Represents(list, mem, s)
        /\ \A f \in Frame : Among(f, s) <=> f \in Unhad
  BY DEF Inv, FramesHad, Lists
<1>4. \A f \in Frame : (\E i \in DOMAIN s : s[i] = f) <=>
                         /\ \A t \in Threads : ~InHand(t, f)
                         /\ \A q \in Page : ~Mapped(q, f)
  BY <1>2, <1>3 DEF Among
<1>5. ASSUME NEW f \in Frame
      PROVE  Cardinality({t \in Threads : InHand(t, f)} \cup {q \in Page : Mapped(q, f)}) <= 1
  <2> DEFINE S == {t \in Threads : InHand(t, f)} \cup {q \in Page : Mapped(q, f)}
  <2>1. \A q, r \in Page : Has(q, f) /\ Has(r, f) => q = r
    BY DEF Inv, FramesHad
  <2>2. \A t, u \in Threads : InHand(t, f) /\ InHand(u, f) => t = u
    BY <1>1, <2>1, OwnPages DEF Inv
  <2>3. \A q, r \in Page : Mapped(q, f) /\ Mapped(r, f) => q = r
    BY <2>1 DEF Has
  <2>4. \A t \in Threads, q \in Page : ~(InHand(t, f) /\ Mapped(q, f))
    BY <1>1, <2>1 DEF Has, Mapped
  <2>5. \A x, y \in S : x = y
    BY <2>2, <2>3, <2>4
  <2>6. S = {} \/ \E x : S = {x}
    BY <2>5
  <2> HIDE DEF S
  <2>7. S = {} => Cardinality(S) = 0
    BY FS_EmptySet
  <2>8. ASSUME NEW x, S = {x} PROVE Cardinality(S) = 1
    BY <2>8, FS_Singleton
  <2>9. Cardinality(S) <= 1
    <3>1. Cardinality(S) = 0 \/ Cardinality(S) = 1
      BY <2>6, <2>7, <2>8, Zenon
    <3> QED
      BY <3>1
  <2> QED
    BY <2>9 DEF S
<1> QED
  BY <1>3, <1>4, <1>5 DEF FramesAccounted

LEMMA InvClusters == Inv => ClustersAccounted
BY DEF Inv, ClustersHeld, TableOK, ClustersAccounted

\* Clients that let calls overlap only where no page has to leave lose no frame and
\* share none, in any interleaving of page_fault, load_segment, delete_segment and
\* access, whose sections the mutexes make atomic: the list of empty pages stays well
\* formed and holds exactly the frames that are neither mapped nor in a thread's hands.
THEOREM FramesNeverLost ==
  ASSUME Careful
  PROVE  Spec => []FramesAccounted
BY Inductive, InvFrames, PTL

\* For the same clients the disk vacancy table is right: the clusters whose bits are
\* set are those no page holds, and no two pages hold one cluster.
THEOREM ClustersNeverLost ==
  ASSUME Careful
  PROVE  Spec => []ClustersAccounted
BY Inductive, InvClusters, PTL


------------------------------------------------------------------------------
(* What the pages contain, wherever they are.                              *)

Leaving(q) == \E t \in Threads : at[t].page = q /\ at[t].pc \in {"return", "forget"}

\* What a thread in the middle of a call relies on about contents: a frame is clean
\* until its page can be written, and gets its content before the descriptor is told.
Filled(t) ==
  LET q == at[t].page
      f == at[t].frame
      In(pcs) == at[t].pc \in pcs
  IN  /\ In({"update", "request"}) => mem[f] \notin Data
      /\ In({"request", "serve"}) => ~ft[f].dirty
      /\ In({"serve"}) => IF pte[q].tbc THEN mem[f] \notin Data ELSE mem[f] = disk[pte[q].blk]
      /\ In({"loaded"}) => mem[f] \in Data
      /\ In({"store"}) => ft[f].dirty

\* The cluster of a page in a frame still has its content while the frame is clean.
CleanCopy(q) ==
  LET f == pte[q].blk
  IN  pte[q].valid /\ ~Leaving(q) /\ ~ft[f].dirty /\ ot[f] # NoCluster
        => disk[ot[f]] = mem[f]

\* Empty frames hold links, which no process takes for its data.
Contents ==
  /\ \A f \in Unhad : mem[f] \notin Data
  /\ \A t \in Threads : Filled(t)
  /\ \A q \in Page : CleanCopy(q)


\* What the flat memory sees of a step.
Turns(p, x) == \A q \in Page : Content(q)' = IF q = p THEN x ELSE Content(q)

Effect ==
  \/ \A q \in Page : Content(q)' = Content(q)
  \/ \E p \in Page : Content(p) = Absent /\ Turns(p, Junk)
  \/ \E p \in Page : Content(p) # Absent /\ Turns(p, Absent)
  \/ \E p \in Page, d \in Data : Content(p) = Absent /\ Turns(p, d)
  \/ \E p \in Page, d \in Data : Content(p) # Absent /\ Turns(p, d)

\* The frame a thread works on belongs to its page.
LEMMA FrameAtWork ==
  ASSUME Inv, NEW u \in Threads,
         at[u].pc \in {"update", "request", "serve", "loaded", "store"}
  PROVE  at[u].page \in Page /\ at[u].frame \in Frame /\ Has(at[u].page, at[u].frame)
<1>1. Relies(u)
  BY DEF Inv
<1>2. at[u].page \in Page /\ at[u].page[1] = u /\ at[u].frame \in Frame
  BY <1>1 DEF Relies
<1>3. CASE at[u].pc = "store"
  <2>1. pte[at[u].page].valid /\ pte[at[u].page].blk = at[u].frame
    BY <1>1, <1>3 DEF Relies
  <2>2. Mapped(at[u].page, at[u].frame)
    BY <1>2, <1>3, <2>1, InvForms DEF Forms
  <2> QED
    BY <1>2, <2>2 DEF Has
<1>4. CASE at[u].pc # "store"
  BY <1>2, <1>4 DEF Has, InHand
<1> QED
  BY <1>3, <1>4

\* A page that stays has the frame its descriptor names.
LEMMA FrameMapped ==
  ASSUME Inv, NEW q \in Page, pte[q].valid
  PROVE  /\ pte[q].inseg /\ ~pte[q].tbc /\ pte[q].blk \in Frame
         /\ ~Leaving(q) => Has(q, pte[q].blk)
<1>1. pte[q].inseg /\ ~pte[q].tbc /\ pte[q].blk \in Frame
  BY DEF Inv, PtesOK
<1>2. ~Leaving(q) => Mapped(q, pte[q].blk)
  BY <1>1 DEF Leaving, Mapped
<1> QED
  BY <1>1, <1>2 DEF Has

\* What a step leaves of the pages and threads it is not about.
Spared(t, p) ==
  /\ \A u \in Threads \ {t} : Filled(u)'
  /\ \A q \in Page \ {p} : CleanCopy(q)' /\ Content(q)' = Content(q)

LEMMA StepsApart ==
  ASSUME Inv, Contents, NEW t \in Threads, NEW p \in Page, p[1] = t, Others(t),
         at[t].page \in {p, NoPage}, at'[t].page \in {p, NoPage},
         \A q \in Page \ {p} : pte'[q] = pte[q],
         disk' = disk,
         \A q \in Page \ {p}, f \in Frame : Has(q, f) =>
           mem'[f] = mem[f] /\ ft'[f].dirty = ft[f].dirty /\ ot'[f] = ot[f]
  PROVE  Spared(t, p)
<1>1. ASSUME NEW u \in Threads \ {t} PROVE Filled(u)'
  <2>1. at'[u] = at[u] /\ Filled(u)
    BY DEF Others, Contents
  <2>2. CASE at[u].pc \in {"update", "request", "serve", "loaded", "store"}
    <3>1. at[u].page \in Page /\ at[u].frame \in Frame /\ Has(at[u].page, at[u].frame)
      BY <2>2, FrameAtWork
    <3>2. at[u].page # p
      BY <2>2 DEF Inv, Relies
    <3> QED
      BY <2>1, <3>1, <3>2 DEF Filled
  <2>3. CASE at[u].pc \notin {"update", "request", "serve", "loaded", "store"}
    BY <2>1, <2>3 DEF Filled
  <2> QED
    BY <2>2, <2>3
<1>2. ASSUME NEW q \in Page \ {p} PROVE CleanCopy(q)' /\ Content(q)' = Content(q)
  <2>1. Leaving(q)' <=> Leaving(q)
    BY ContentsAssumption DEF Leaving, Others
  <2>2. CASE pte[q].valid /\ ~Leaving(q)
    <3>1. pte[q].blk \in Frame /\ Has(q, pte[q].blk)
      BY <2>2, FrameMapped
    <3>2. pte'[q] = pte[q] /\ CleanCopy(q)
      BY DEF Contents
    <3> QED
      BY <2>1, <2>2, <3>1, <3>2 DEF CleanCopy, Content, Leaving
  <2>3. CASE ~(pte[q].valid /\ ~Leaving(q))
    BY <2>1, <2>3 DEF CleanCopy, Content, Leaving
  <2> QED
    BY <2>2, <2>3
<1> QED
  BY <1>1, <1>2 DEF Spared

\* No page loses its frame, and nobody writes to an empty one.
LEMMA EmptyStay ==
  ASSUME Contents,
         \A q \in Page, f \in Frame : Has(q, f) => Has(q, f)',
         \A f \in Unhad : mem'[f] = mem[f]
  PROVE  \A f \in Unhad' : mem'[f] \notin Data
BY DEF Contents, Unhad

\* The rest is about the thread that steps and its page.
LEMMA ContentsAfter ==
  ASSUME NEW t \in Threads, NEW p \in Page, Spared(t, p),
         \A f \in Unhad' : mem'[f] \notin Data,
         Filled(t)', CleanCopy(p)'
  PROVE  Contents'
BY DEF Contents, Spared

LEMMA IdleFilled ==
  ASSUME NEW t \in Threads, at'[t].pc \in {"idle", "victim", "evict", "return", "forget"}
  PROVE  Filled(t)'
BY DEF Filled


LEMMA InvFormsNext == Inv' => Forms'
BY InvForms, PTL

\* The page a step is about keeps its frame, the others are not touched.
LEMMA EmptyKept ==
  ASSUME Inv, Inv', Contents, NEW t \in Threads, NEW p \in Page, Others(t),
         at[t].page \in {p, NoPage}, at'[t].page \in {p, NoPage},
         \A q \in Page \ {p} : pte'[q] = pte[q],
         \A f \in Frame : Has(p, f) => Has(p, f)',
         \A f \in Unhad : mem'[f] = mem[f]
  PROVE  \A f \in Unhad' : mem'[f] \notin Data
<1>1. \A q \in Page \ {p}, f \in Frame : Has(q, f)' <=> Has(q, f)
  <2>1. at[t].page \in {p} \cup {NoPage} /\ at'[t].page \in {p} \cup {NoPage}
    OBVIOUS
  <2> QED
    BY <2>1, InvForms, InvFormsNext, Elsewhere
<1>2. \A q \in Page, f \in Frame : Has(q, f) => Has(q, f)'
  BY <1>1
<1> QED
  BY <1>2, EmptyStay

\* A segment that is created holds indeterminate bytes.
LEMMA CreateSegmentContents ==
  ASSUME Inv, Inv', Contents, NEW t \in Threads, NEW p \in Page, p[1] = t,
         CreateSegment(t, p)
  PROVE  Contents' /\ Effect
<1>1. /\ at[t].pc = "idle" /\ at[t] = Idle /\ at[t].page = NoPage /\ MayCall(t, p)
      /\ ~pte[p].inseg /\ ~pte[p].valid
  <2>1. at[t].pc = "idle" /\ at[t] = Idle /\ MayCall(t, p) /\ ~pte[p].inseg
    BY DEF CreateSegment, MayCall, Inv, Relies
  <2>2. at[t].page = NoPage
    BY <2>1 DEF Idle
  <2> QED
    BY <2>1, <2>2 DEF Inv, PtesOK
<1>2. /\ UNCHANGED <<list, holder, dvt, ft, ot, mem, disk, at>> /\ Others(t)
      /\ \A q \in Page \ {p} : pte'[q] = pte[q]
      /\ pte'[p].inseg /\ ~pte'[p].valid /\ pte'[p].tbc
  BY DEF CreateSegment, Inv, TypeOK, Others
<1>3. \A u \in Threads : at[u].page # p
  BY <1>1, OwnPage DEF Inv
<1>4. Spared(t, p)
  BY <1>1, <1>2, StepsApart
<1>5. \A f \in Frame : ~Has(p, f)
  BY <1>1, NoFrameYet DEF Inv
<1>6. Contents'
  <2>1. \A f \in Unhad' : mem'[f] \notin Data
    BY <1>1, <1>2, <1>5, EmptyKept
  <2>2. Filled(t)' /\ CleanCopy(p)'
    BY <1>1, <1>2 DEF Filled, CleanCopy
  <2> QED
    BY <1>4, <2>1, <2>2, ContentsAfter
<1>7. Content(p) = Absent /\ Content(p)' = Junk
  BY <1>1, <1>2, <1>3, ContentsAssumption DEF Content
<1>8. Turns(p, Junk)
  BY <1>4, <1>7 DEF Turns, Spared
<1> QED
  BY <1>6, <1>7, <1>8 DEF Effect

\* What the owner sees of a page does not change if its own page does not either.
LEMMA NothingSeen ==
  ASSUME NEW t \in Threads, NEW p \in Page, Spared(t, p), Content(p)' = Content(p)
  PROVE  Effect
BY DEF Effect, Spared

LEMMA GetVictimContents ==
  ASSUME Inv, Inv', Contents, NEW t \in Threads, GetVictim(t)
  PROVE  Contents' /\ Effect
<1>1. PICK p \in Page : p = at[t].page /\ p[1] = t /\ ~pte[p].valid
  BY DEF GetVictim, Inv, Relies
<1>2. PICK v \in Victims :
        at' = [at EXCEPT ![t] = [pc |-> "evict", page |-> @.page, frame |-> v.frame,
                                cluster |-> v.cluster, dirty |-> v.dirty]]
  BY DEF GetVictim
<1>3. /\ UNCHANGED <<list, holder, dvt, ft, ot, pte, mem, disk>> /\ at[t].pc = "victim"
      /\ Others(t) /\ at'[t].pc = "evict" /\ at'[t].page = p
  BY <1>1, <1>2 DEF GetVictim, Others, Inv, TypeOK
<1>4. Spared(t, p)
  BY <1>1, <1>3, StepsApart
<1>5. \A f \in Frame : ~Has(p, f)
  BY <1>1, <1>3, NoFrameYet DEF Inv
<1>6. Contents'
  <2>1. \A f \in Unhad' : mem'[f] \notin Data
    BY <1>1, <1>3, <1>5, EmptyKept
  <2>2. Filled(t)' /\ CleanCopy(p)'
    BY <1>1, <1>3 DEF Filled, CleanCopy
  <2> QED
    BY <1>4, <2>1, <2>2, ContentsAfter
<1>7. Content(p)' = Content(p)
  BY <1>1, <1>3 DEF Content, Others
<1> QED
  BY <1>4, <1>6, <1>7, NothingSeen

LEMMA PageFaultWaitsContents ==
  ASSUME Inv, Inv', Contents, NEW t \in Threads, NEW p \in Page, p[1] = t,
         PageFault(t, p), list.count = 0
  PROVE  Contents' /\ Effect
<1>1. /\ at[t].pc = "idle" /\ at[t].page = NoPage /\ ~pte[p].valid
  BY DEF PageFault, MayCall, Inv, Relies, PtesOK, Idle
<1>2. /\ UNCHANGED <<list, dvt, ft, ot, pte, mem, disk>>
      /\ Others(t) /\ at'[t].pc = "victim" /\ at'[t].page = p
  <2>1. at' = [at EXCEPT ![t] = [Idle EXCEPT !.pc = "victim", !.page = p]]
    BY DEF PageFault
  <2>2. Others(t) /\ at'[t] = [Idle EXCEPT !.pc = "victim", !.page = p]
    BY <2>1 DEF Others, Inv, TypeOK
  <2>3. at'[t].pc = "victim" /\ at'[t].page = p
    BY <2>2 DEF Idle
  <2>4. UNCHANGED <<list, dvt, ft, ot, pte, mem, disk>>
    BY DEF PageFault
  <2> QED
    BY <2>2, <2>3, <2>4
<1>3. \A u \in Threads : at[u].page # p
  BY <1>1, OwnPage DEF Inv
<1>4. Spared(t, p)
  BY <1>1, <1>2, StepsApart
<1>5. \A f \in Frame : ~Has(p, f)
  BY <1>1, NoFrameYet DEF Inv
<1>6. Contents'
  <2>1. \A f \in Unhad' : mem'[f] \notin Data
    BY <1>1, <1>2, <1>5, EmptyKept
  <2>2. Filled(t)' /\ CleanCopy(p)'
    BY <1>1, <1>2 DEF Filled, CleanCopy
  <2> QED
    BY <1>4, <2>1, <2>2, ContentsAfter
<1>7. Content(p)' = Content(p)
  BY <1>2, <1>3 DEF Content, Others
<1> QED
  BY <1>4, <1>6, <1>7, NothingSeen


\* A thread that works on a frame has it for itself.
Works(t, p, e) ==
  /\ p = at[t].page /\ e = at[t].frame /\ p[1] = t
  /\ \A u \in Threads \ {t} : at[u].page # p
  /\ Has(p, e) /\ e \notin Unhad
  /\ \A f \in Frame : Has(p, f) => f = e
  /\ \A q \in Page \ {p} : ~Has(q, e)

LEMMA AtWork ==
  ASSUME Inv, NEW t \in Threads,
         at[t].pc \in {"update", "request", "serve", "loaded", "store"}
  PROVE  \E p \in Page, e \in Frame : Works(t, p, e)
<1>1. PICK p \in Page, e \in Frame : p = at[t].page /\ e = at[t].frame /\ Has(p, e)
  BY FrameAtWork
<1>2. \A u \in Threads \ {t} : at[u].page # p
  BY <1>1, OwnPages DEF Inv
<1>3. \A f \in Frame : Has(p, f) => f = e
  BY <1>1, OneFrame DEF Inv
<1>4. e \notin Unhad /\ \A q \in Page \ {p} : ~Has(q, e)
  BY <1>1 DEF Inv, FramesHad, Unhad
<1>5. p[1] = t
  BY <1>1 DEF Inv, Relies
<1> QED
  BY <1>1, <1>2, <1>3, <1>4, <1>5 DEF Works

WorkersHave ==
  \A u \in Threads : at[u].pc \in {"update", "request", "serve", "loaded", "store"}
                     => Has(at[u].page, at[u].frame)

LEMMA WorksNext == Inv' => WorkersHave'
<1>1. Inv => WorkersHave
  BY FrameAtWork DEF WorkersHave
<1> QED
  BY <1>1, PTL

LEMMA UsFtUpdateContents ==
  ASSUME Inv, Inv', Contents, NEW t \in Threads, UsFtUpdate(t)
  PROVE  Contents' /\ Effect
<1>1. at[t].pc = "update" /\ TypeOK
  BY DEF UsFtUpdate, Inv
<1>2. PICK p \in Page, e \in Frame : Works(t, p, e)
  BY <1>1, AtWork
<1>3. /\ UNCHANGED <<list, holder, dvt, ot, pte, mem, disk>> /\ Become(t, "request")
      /\ \A f \in Frame \ {e} : ft'[f] = ft[f]
      /\ ~ft'[e].dirty
  BY <1>1, <1>2 DEF UsFtUpdate, TypeOK, Works
<1>4. /\ at' \in [Threads -> Local] /\ Others(t)
      /\ at'[t].pc = "request" /\ at'[t].page = p /\ at'[t].frame = e
  BY <1>1, <1>2, <1>3, Becomes DEF Works
<1>5. Spared(t, p)
  BY <1>2, <1>3, <1>4, StepsApart DEF Works
<1>6. Contents'
  <2>1. Has(p, e)'
    BY <1>4, WorksNext DEF WorkersHave
  <2>2. \A f \in Unhad' : mem'[f] \notin Data
    BY <1>2, <1>3, <1>4, <2>1, EmptyKept DEF Works
  <2>3. ~pte[p].valid /\ mem[e] \notin Data
    BY <1>1, <1>2 DEF Works, Inv, Relies, Contents, Filled
  <2>4. Filled(t)' /\ CleanCopy(p)'
    BY <1>3, <1>4, <2>3 DEF Filled, CleanCopy
  <2> QED
    BY <1>5, <2>2, <2>4, ContentsAfter
<1>7. Content(p)' = Content(p)
  <2>1. ~pte[p].valid
    BY <1>1, <1>2 DEF Works, Inv, Relies
  <2> QED
    BY <1>1, <1>2, <1>3, <1>4, <2>1 DEF Content, Others, Works
<1> QED
  BY <1>5, <1>6, <1>7, NothingSeen

LEMMA UsRequestPageContents ==
  ASSUME Inv, Inv', Contents, NEW t \in Threads, UsRequestPage(t)
  PROVE  Contents' /\ Effect
<1>1. at[t].pc = "request" /\ TypeOK
  BY DEF UsRequestPage, Inv
<1>2. PICK p \in Page, e \in Frame : Works(t, p, e)
  BY <1>1, AtWork
<1>3. /\ UNCHANGED <<list, holder, dvt, ft, pte, disk>> /\ Become(t, "serve")
      /\ \A f \in Frame \ {e} : ot'[f] = ot[f] /\ mem'[f] = mem[f]
      /\ mem'[e] = IF pte[p].tbc THEN mem[e] ELSE disk[pte[p].blk]
  BY <1>1, <1>2 DEF UsRequestPage, TypeOK, Works
<1>4. /\ at' \in [Threads -> Local] /\ Others(t)
      /\ at'[t].pc = "serve" /\ at'[t].page = p /\ at'[t].frame = e
  BY <1>1, <1>2, <1>3, Becomes DEF Works
<1>5. Spared(t, p)
  BY <1>2, <1>3, <1>4, StepsApart DEF Works
<1>8. ~pte[p].valid /\ mem[e] \notin Data /\ ~ft[e].dirty
  BY <1>1, <1>2 DEF Works, Inv, Relies, Contents, Filled
<1>6. Contents'
  <2>1. Has(p, e)'
    BY <1>4, WorksNext DEF WorkersHave
  <2>2. \A f \in Unhad' : mem'[f] \notin Data
    <3>1. \A f \in Unhad : mem'[f] = mem[f]
      BY <1>2, <1>3 DEF Works, Unhad
    <3> QED
      BY <1>2, <1>3, <1>4, <2>1, <3>1, EmptyKept DEF Works
  <2>4. Filled(t)' /\ CleanCopy(p)'
    BY <1>3, <1>4, <1>8 DEF Filled, CleanCopy
  <2> QED
    BY <1>5, <2>2, <2>4, ContentsAfter
<1>7. Content(p)' = Content(p)
  BY <1>1, <1>2, <1>3, <1>4, <1>8 DEF Content, Others, Works
<1> QED
  BY <1>5, <1>6, <1>7, NothingSeen

\* The page is where its thread has put it.
LEMMA ServeContents ==
  ASSUME Inv, Inv', Contents, NEW t \in Threads, Serve(t)
  PROVE  Contents' /\ Effect
<1>1. at[t].pc = "serve" /\ TypeOK
  BY DEF Serve, Inv
<1>2. PICK p \in Page, e \in Frame : Works(t, p, e)
  BY <1>1, AtWork
<1>3. /\ UNCHANGED <<list, holder, dvt, ft, ot, mem, disk>> /\ Finish(t)
      /\ \A q \in Page \ {p} : pte'[q] = pte[q]
      /\ pte'[p].blk = e /\ pte'[p].valid /\ ~pte'[p].tbc /\ pte'[p].inseg = pte[p].inseg
  BY <1>1, <1>2 DEF Serve, TypeOK, Works, Descriptor
<1>4. Others(t) /\ at'[t] = Idle
  BY <1>1, <1>3, Finishes
<1>5. at'[t].page = NoPage /\ at'[t].pc = "idle"
  BY <1>4 DEF Idle
<1>6. Spared(t, p)
  BY <1>2, <1>3, <1>4, <1>5, StepsApart DEF Works
<1>7. /\ pte[p].inseg /\ ~pte[p].valid /\ ~ft[e].dirty
      /\ ot[e] = IF pte[p].tbc THEN NoCluster ELSE pte[p].blk
      /\ IF pte[p].tbc THEN mem[e] \notin Data ELSE mem[e] = disk[pte[p].blk]
  BY <1>1, <1>2 DEF Works, Inv, Relies, Contents, Filled
<1>8. \A u \in Threads : at'[u].page # p
  BY <1>2, <1>4, <1>5, ContentsAssumption DEF Works, Others
<1>9. Contents'
  <2>1. Has(p, e)'
    BY <1>3, <1>8 DEF Has, Mapped
  <2>2. \A f \in Unhad' : mem'[f] \notin Data
    BY <1>2, <1>3, <1>4, <1>5, <2>1, EmptyKept DEF Works
  <2>3. Filled(t)'
    BY <1>5, IdleFilled
  <2>4. CleanCopy(p)'
    BY <1>3, <1>7 DEF CleanCopy
  <2> QED
    BY <1>6, <2>2, <2>3, <2>4, ContentsAfter
<1>10. Content(p)' = Content(p)
  <2>1. \A u \in Threads : at[u].page = p => at[u].pc = "serve"
    BY <1>1, <1>2 DEF Works
  <2> QED
    BY <1>3, <1>7, <1>8, <2>1 DEF Content
<1> QED
  BY <1>6, <1>9, <1>10, NothingSeen

\* The segment is there with the content the client gave.
LEMMA LoadedContents ==
  ASSUME Inv, Inv', Contents, NEW t \in Threads, Loaded(t)
  PROVE  Contents' /\ Effect
<1>1. at[t].pc = "loaded" /\ TypeOK
  BY DEF Loaded, Inv
<1>2. PICK p \in Page, e \in Frame : Works(t, p, e)
  BY <1>1, AtWork
<1>3. /\ UNCHANGED <<list, holder, dvt, ft, ot, mem, disk>> /\ Finish(t)
      /\ \A q \in Page \ {p} : pte'[q] = pte[q]
      /\ pte'[p].blk = e /\ pte'[p].valid /\ ~pte'[p].tbc /\ pte'[p].inseg
  BY <1>1, <1>2 DEF Loaded, TypeOK, Works, Descriptor
<1>4. Others(t) /\ at'[t] = Idle
  BY <1>1, <1>3, Finishes
<1>5. at'[t].page = NoPage /\ at'[t].pc = "idle"
  BY <1>4 DEF Idle
<1>6. Spared(t, p)
  BY <1>2, <1>3, <1>4, <1>5, StepsApart DEF Works
<1>7. ~pte[p].inseg /\ ot[e] = NoCluster /\ mem[e] \in Data
  BY <1>1, <1>2 DEF Works, Inv, Relies, Contents, Filled
<1>8. \A u \in Threads : at'[u].page # p
  BY <1>2, <1>4, <1>5, ContentsAssumption DEF Works, Others
<1>9. Contents'
  <2>1. Has(p, e)'
    BY <1>3, <1>8 DEF Has, Mapped
  <2>2. \A f \in Unhad' : mem'[f] \notin Data
    BY <1>2, <1>3, <1>4, <1>5, <2>1, EmptyKept DEF Works
  <2>3. Filled(t)'
    BY <1>5, IdleFilled
  <2>4. CleanCopy(p)'
    BY <1>3, <1>7 DEF CleanCopy
  <2> QED
    BY <1>6, <2>2, <2>3, <2>4, ContentsAfter
<1>10. Content(p) = Absent /\ Content(p)' = mem[e]
  BY <1>3, <1>7, <1>8 DEF Content
<1>11. Turns(p, mem[e])
  BY <1>6, <1>10 DEF Turns, Spared
<1> QED
  BY <1>7, <1>9, <1>10, <1>11 DEF Effect


\* The client stores through the address: what it gave is what it finds.
LEMMA StoreContents ==
  ASSUME Inv, Inv', Contents, NEW t \in Threads, NEW d \in Data, Store(t, d)
  PROVE  Contents' /\ Effect
<1>1. at[t].pc = "store" /\ TypeOK
  BY DEF Store, Inv
<1>2. PICK p \in Page, e \in Frame : Works(t, p, e)
  BY <1>1, AtWork
<1>3. /\ UNCHANGED <<list, holder, dvt, ft, ot, pte, disk>> /\ Finish(t)
      /\ \A f \in Frame \ {e} : mem'[f] = mem[f]
      /\ mem'[e] = d
  BY <1>1, <1>2 DEF Store, TypeOK, Works
<1>4. Others(t) /\ at'[t] = Idle
  BY <1>1, <1>3, Finishes
<1>5. at'[t].page = NoPage /\ at'[t].pc = "idle"
  BY <1>4 DEF Idle
<1>6. Spared(t, p)
  BY <1>2, <1>3, <1>4, <1>5, StepsApart DEF Works
<1>7. pte[p].inseg /\ pte[p].valid /\ pte[p].blk = e /\ ft[e].dirty
  BY <1>1, <1>2 DEF Works, Inv, Relies, PtesOK, Contents, Filled
<1>8. \A u \in Threads : at'[u].page # p
  BY <1>2, <1>4, <1>5, ContentsAssumption DEF Works, Others
<1>9. Contents'
  <2>1. Has(p, e)'
    BY <1>3, <1>7, <1>8 DEF Has, Mapped
  <2>2. \A f \in Unhad' : mem'[f] \notin Data
    <3>1. \A f \in Unhad : mem'[f] = mem[f]
      BY <1>2, <1>3 DEF Works, Unhad
    <3> QED
      BY <1>2, <1>3, <1>4, <1>5, <2>1, <3>1, EmptyKept DEF Works
  <2>3. Filled(t)'
    BY <1>5, IdleFilled
  <2>4. CleanCopy(p)'
    BY <1>3, <1>7 DEF CleanCopy
  <2> QED
    BY <1>6, <2>2, <2>3, <2>4, ContentsAfter
<1>10. Content(p) # Absent /\ Content(p)' = d
  <2>1. \A u \in Threads : at[u].page = p => at[u].pc = "store"
    BY <1>1, <1>2 DEF Works
  <2> QED
    BY <1>3, <1>7, <1>8, <2>1, ContentsAssumption DEF Content
<1>11. Turns(p, d)
  BY <1>6, <1>10 DEF Turns, Spared
<1> QED
  BY <1>9, <1>10, <1>11 DEF Effect

LEMMA AccessContents ==
  ASSUME Inv, Inv', Contents, NEW t \in Threads, NEW p \in Page, p[1] = t, Access(t, p)
  PROVE  Contents' /\ Effect
<1>1. MayCall(t, p) /\ pte[p].valid /\ pte[p].inseg /\ TypeOK
  BY DEF Access, Inv, PtesOK
<1>2. PICK e \in Frame : e = pte[p].blk
  BY <1>1, CallsMapped
<1>3. /\ UNCHANGED <<list, holder, dvt, ot, pte, mem, disk>>
      /\ \A f \in Frame \ {e} : ft'[f] = ft[f]
      /\ ft'[e].dirty
  BY <1>1, <1>2 DEF Access, TypeOK
<1>4. Others(t) /\ at'[t].pc = "store" /\ at'[t].page = p /\ at'[t].frame = e
  <2>1. Starts(t, "store", p, e)
    BY <1>2 DEF Access, Starts
  <2>2. Started(t, "store", p, e)
    <3>1. TypeOK /\ e \in Frame \cup {NoFrame}
      BY <1>1
    <3> QED
      BY <2>1, <3>1, Begins
  <2> QED
    BY <2>2 DEF Started
<1>5. /\ at[t].page = NoPage /\ \A u \in Threads : at[u].page # p
      /\ \A f \in Frame : Has(p, f) <=> f = e
  BY <1>1, <1>2, CallsMapped
<1>6. \A q \in Page \ {p} : ~Has(q, e)
  BY <1>5 DEF Inv, FramesHad
<1>7. Spared(t, p)
  BY <1>3, <1>4, <1>5, <1>6, StepsApart
<1>8. Contents'
  <2>1. Has(p, e)'
    BY <1>4, WorksNext DEF WorkersHave
  <2>2. \A f \in Unhad' : mem'[f] \notin Data
    BY <1>3, <1>4, <1>5, <2>1, EmptyKept
  <2>3. Filled(t)' /\ CleanCopy(p)'
    BY <1>2, <1>3, <1>4 DEF Filled, CleanCopy
  <2> QED
    BY <1>7, <2>2, <2>3, ContentsAfter
<1>9. Content(p)' = Content(p)
  BY <1>3, <1>4, <1>5 DEF Content, Others
<1> QED
  BY <1>7, <1>8, <1>9, NothingSeen

\* From here on the page is absent, although its descriptor still names a frame.
LEMMA DeleteSegmentContents ==
  ASSUME Inv, Inv', Contents, NEW t \in Threads, NEW p \in Page, p[1] = t,
         DeleteSegment(t, p)
  PROVE  Contents' /\ Effect
<1>1. MayCall(t, p) /\ pte[p].inseg /\ TypeOK
  BY DEF DeleteSegment, Inv
<1>2. PICK e \in Frame \cup {NoFrame} : e = IF pte[p].valid THEN pte[p].blk ELSE NoFrame
  BY <1>1, CallsMapped
<1>3. /\ UNCHANGED <<list, holder, ft, ot, pte, mem, disk>>
      /\ at' = [at EXCEPT ![t] = [Idle EXCEPT !.pc = "return", !.page = p, !.frame = e]]
  BY <1>2 DEF DeleteSegment
<1>4. Others(t) /\ at'[t].pc = "return" /\ at'[t].page = p /\ at'[t].frame = e
  <2>1. Starts(t, "return", p, e)
    BY <1>3 DEF Starts
  <2>2. Started(t, "return", p, e)
    <3>1. TypeOK /\ e \in Frame \cup {NoFrame}
      BY <1>1
    <3> QED
      BY <2>1, <3>1, Begins
  <2> QED
    BY <2>2 DEF Started
<1>5. /\ at[t].page = NoPage /\ \A u \in Threads : at[u].page # p
      /\ \A f \in Frame : Has(p, f) <=> pte[p].valid /\ pte[p].blk = f
  BY <1>1, CallsMapped
<1>6. Spared(t, p)
  BY <1>3, <1>4, <1>5, StepsApart
<1>7. Contents'
  <2>1. \A f \in Frame : Has(p, f) => Has(p, f)'
    BY <1>3, <1>4, <1>5 DEF Has, Mapped, Others
  <2>2. \A f \in Unhad' : mem'[f] \notin Data
    BY <1>3, <1>4, <1>5, <2>1, EmptyKept
  <2>3. Filled(t)' /\ CleanCopy(p)'
    BY <1>4 DEF Filled, CleanCopy, Leaving
  <2> QED
    BY <1>6, <2>2, <2>3, ContentsAfter
<1>8. Content(p) # Absent /\ Content(p)' = Absent
  BY <1>1, <1>4, <1>5, ContentsAssumption DEF Content
<1>9. Turns(p, Absent)
  BY <1>6, <1>8 DEF Turns, Spared
<1> QED
  BY <1>7, <1>8, <1>9 DEF Effect

\* Links are no data.
LEMMA LinksNoData ==
  ASSUME NEW l, NEW m \in [Frame -> Stored], NEW e \in Frame, NEW f \in Frame
  PROVE  \/ LinksOfReturn(l, m, e)[f] \notin Data
         \/ f # e /\ LinksOfReturn(l, m, e)[f] = m[f]
BY ContentsAssumption DEF LinksOfReturn

\* The links are written to the frame that is returned and to an empty one.
LEMMA LinksElsewhere ==
  ASSUME Inv, NEW e \in Frame, e \notin Unhad, NEW f \in Frame \ Unhad, f # e
  PROVE  LinksOfReturn(list, mem, e)[f] = mem[f]
<1>1. PICK s \in [1 .. list.count -> Frame] :
        /\ Represents(list, mem, s)
        /\ \A g \in Frame : Among(g, s) <=> g \in Unhad
  BY DEF Inv, FramesHad, Lists
<1>2. list.head # Nil => list.tail \in Unhad
  <2>1. list.count \in Nat /\ Len(s) = list.count /\ DOMAIN s = 1 .. list.count
    BY <1>1 DEF Inv, FramesHad, Represents
  <2>2. ASSUME list.head # Nil PROVE list.tail = s[list.count] /\ list.count \in DOMAIN s
    BY <1>1, <2>1, <2>2 DEF Represents
  <2> QED
    BY <1>1, <2>1, <2>2 DEF Among
<1> QED
  BY <1>2 DEF LinksOfReturn, Inv, TypeOK

LEMMA UsFreePageContents ==
  ASSUME Inv, Inv', Contents, NEW t \in Threads, UsFreePage(t)
  PROVE  Contents' /\ Effect
<1>1. at[t].pc = "return" /\ Relies(t) /\ TypeOK
  BY DEF UsFreePage, Inv
<1>2. PICK p \in Page, e \in Frame \cup {NoFrame} : p = at[t].page /\ e = at[t].frame
  BY <1>1 DEF Relies, Inv, PtesOK
<1>3. /\ p[1] = t /\ pte[p].inseg
      /\ e = (IF pte[p].valid THEN pte[p].blk ELSE NoFrame)
  BY <1>1, <1>2 DEF Relies
<1>4. /\ UNCHANGED <<holder, dvt, ft, ot, pte, disk>> /\ Become(t, "forget")
      /\ e = NoFrame => UNCHANGED <<list, mem>>
      /\ e # NoFrame => mem' = LinksOfReturn(list, mem, e)
  BY <1>2 DEF UsFreePage
<1>5. Others(t) /\ at'[t].pc = "forget" /\ at'[t].page = p
  BY <1>1, <1>2, <1>4, Becomes
<1>6. \A f \in Frame : Has(p, f) <=> f = e
  <2>1. NoFrame \notin Frame
    BY ContentsAssumption
  <2> QED
    BY <1>1, <1>2, <1>3, <2>1, InvForms DEF Forms, Inv, PtesOK
<1>7. \A q \in Page \ {p}, f \in Frame : Has(q, f) => f # e /\ mem'[f] = mem[f]
  <2> TAKE q \in Page \ {p}, f \in Frame
  <2> HAVE Has(q, f)
  <2>1. f # e /\ f \notin Unhad
    BY <1>6 DEF Inv, FramesHad, Unhad
  <2>2. e # NoFrame => e \in Frame \ Unhad
    BY <1>6 DEF Unhad
  <2> QED
    BY <1>4, <2>1, <2>2, LinksElsewhere
<1>8. Spared(t, p)
  BY <1>2, <1>3, <1>4, <1>5, <1>7, StepsApart
<1>9. Contents'
  <2>1. \A q \in Page \ {p}, f \in Frame : Has(q, f)' <=> Has(q, f)
    <3>1. at[t].page \in {p} \cup {NoPage} /\ at'[t].page \in {p} \cup {NoPage}
          /\ \A q \in Page \ {p} : pte'[q] = pte[q]
      BY <1>2, <1>4, <1>5
    <3> QED
      BY <1>5, <3>1, InvForms, InvFormsNext, Elsewhere
  <2>2. ASSUME NEW f \in Unhad' PROVE mem'[f] \notin Data
    <3>1. f \in Frame /\ (f # e => f \in Unhad)
      BY <1>6, <2>1 DEF Unhad
    <3>2. CASE e = NoFrame
      BY <1>4, <3>1, <3>2, ContentsAssumption DEF Contents
    <3>3. CASE e # NoFrame
      BY <1>1, <1>4, <3>1, <3>3, LinksNoData DEF Contents, TypeOK
    <3> QED
      BY <3>2, <3>3
  <2>3. Filled(t)'
    BY <1>5, IdleFilled
  <2>4. CleanCopy(p)'
    BY <1>5 DEF CleanCopy, Leaving
  <2> QED
    BY <1>8, <2>2, <2>3, <2>4, ContentsAfter
<1>10. Content(p)' = Content(p)
  BY <1>1, <1>2, <1>5 DEF Content
<1> QED
  BY <1>8, <1>9, <1>10, NothingSeen

LEMMA ForgetContents ==
  ASSUME Inv, Inv', Contents, NEW t \in Threads, Forget(t)
  PROVE  Contents' /\ Effect
<1>1. at[t].pc = "forget" /\ Relies(t) /\ TypeOK
  BY DEF Forget, Inv
<1>2. PICK p \in Page : p = at[t].page /\ p[1] = t
  BY <1>1 DEF Relies
<1>3. /\ UNCHANGED <<list, holder, dvt, ft, ot, mem, disk>> /\ Finish(t)
      /\ \A q \in Page \ {p} : pte'[q] = pte[q]
      /\ ~pte'[p].inseg /\ ~pte'[p].valid
  BY <1>1, <1>2 DEF Forget, TypeOK, NoDescriptor
<1>4. Others(t) /\ at'[t] = Idle
  BY <1>1, <1>3, Finishes
<1>5. at'[t].page = NoPage /\ at'[t].pc = "idle"
  BY <1>4 DEF Idle
<1>6. Spared(t, p)
  BY <1>2, <1>3, <1>4, <1>5, StepsApart
<1>7. \A f \in Frame : ~Has(p, f)
  BY <1>1, <1>2, InvForms DEF Forms
<1>8. Contents'
  <2>1. \A f \in Unhad' : mem'[f] \notin Data
    BY <1>2, <1>3, <1>4, <1>5, <1>7, EmptyKept
  <2>2. Filled(t)' /\ CleanCopy(p)'
    BY <1>3, <1>5, IdleFilled DEF CleanCopy
  <2> QED
    BY <1>6, <2>1, <2>2, ContentsAfter
<1>9. Content(p)' = Content(p)
  BY <1>1, <1>2, <1>3 DEF Content
<1> QED
  BY <1>6, <1>8, <1>9, NothingSeen


LEMMA PageFaultPopsContents ==
  ASSUME Inv, Inv', Contents, NEW t \in Threads, NEW p \in Page, p[1] = t,
         PageFault(t, p), list.count # 0
  PROVE  Contents' /\ Effect
<1>1. /\ at[t].pc = "idle" /\ at[t].page = NoPage /\ ~pte[p].valid /\ TypeOK
  <2>1. at[t].pc = "idle" /\ at[t] = Idle /\ ~pte[p].valid
    BY DEF PageFault, MayCall, Inv, Relies
  <2> QED
    BY <2>1 DEF Idle, Inv
<1>2. PICK e \in Frame : e = list.head /\ e \in Unhad
  BY GetFirst DEF Inv, FramesHad
<1>3. UNCHANGED <<ft, ot, pte, mem, disk>>
  BY DEF PageFault, Take, Popped
<1>4. Others(t) /\ at'[t].pc = "update" /\ at'[t].page = p /\ at'[t].frame = e
  <2>1. Starts(t, "update", p, e)
    BY <1>2 DEF PageFault, Starts
  <2>2. Started(t, "update", p, e)
    <3>1. TypeOK /\ e \in Frame \cup {NoFrame}
      BY <1>1
    <3> QED
      BY <2>1, <3>1, Begins
  <2> QED
    BY <2>2 DEF Started
<1>5. \A u \in Threads : at[u].page # p
  BY <1>1, OwnPage DEF Inv
<1>6. Spared(t, p)
  BY <1>1, <1>3, <1>4, StepsApart
<1>7. \A f \in Frame : ~Has(p, f)
  BY <1>1, NoFrameYet DEF Inv
<1>8. Contents'
  <2>1. \A f \in Unhad' : mem'[f] \notin Data
    BY <1>1, <1>3, <1>4, <1>7, EmptyKept
  <2>2. mem[e] \notin Data
    BY <1>2 DEF Contents
  <2>3. Filled(t)' /\ CleanCopy(p)'
    BY <1>1, <1>3, <1>4, <2>2 DEF Filled, CleanCopy
  <2> QED
    BY <1>6, <2>1, <2>3, ContentsAfter
<1>9. Content(p)' = Content(p)
  BY <1>3, <1>4, <1>5 DEF Content, Others
<1> QED
  BY <1>6, <1>8, <1>9, NothingSeen

LEMMA UsLoadPagePopsContents ==
  ASSUME Inv, Inv', Contents, NEW t \in Threads, NEW p \in Page, p[1] = t, NEW d \in Data,
         UsLoadPage(t, p, d), list.count # 0
  PROVE  Contents' /\ Effect
<1>1. /\ at[t].pc = "idle" /\ at[t].page = NoPage /\ ~pte[p].valid /\ ~pte[p].inseg /\ TypeOK
  <2>1. at[t].pc = "idle" /\ at[t] = Idle /\ ~pte[p].inseg
    BY DEF UsLoadPage, MayCall, Inv, Relies
  <2> QED
    BY <2>1 DEF Idle, Inv, PtesOK
<1>2. PICK e \in Frame : e = list.head /\ e \in Unhad
  BY GetFirst DEF Inv, FramesHad
<1>3. PICK r \in {Popped} :
        /\ Take(r)
        /\ ft' = [r.ft EXCEPT ![r.frame] = [owner |-> p, used |-> TRUE, dirty |-> FALSE]]
        /\ ot' = [ot EXCEPT ![r.frame] = NoCluster]
        /\ mem' = [r.mem EXCEPT ![r.frame] = d]
        /\ at' = [at EXCEPT ![t] = [Idle EXCEPT !.pc = "loaded", !.page = p,
                                                !.frame = r.frame]]
  BY DEF UsLoadPage
<1>4. r.frame = e /\ r.ft = ft /\ r.pte = pte /\ r.mem = mem /\ r.disk = disk
  BY <1>2, <1>3 DEF Popped
<1>5. /\ pte' = pte /\ disk' = disk
      /\ \A f \in Frame \ {e} : ft'[f] = ft[f] /\ ot'[f] = ot[f] /\ mem'[f] = mem[f]
      /\ mem'[e] = d
  BY <1>1, <1>3, <1>4 DEF Take, TypeOK
<1>6. Others(t) /\ at'[t].pc = "loaded" /\ at'[t].page = p /\ at'[t].frame = e
  <2>1. Starts(t, "loaded", p, e)
    BY <1>3, <1>4 DEF Starts
  <2>2. Started(t, "loaded", p, e)
    <3>1. TypeOK /\ e \in Frame \cup {NoFrame}
      BY <1>1
    <3> QED
      BY <2>1, <3>1, Begins
  <2> QED
    BY <2>2 DEF Started
<1>7. \A u \in Threads : at[u].page # p
  BY <1>1, OwnPage DEF Inv
<1>8. Spared(t, p)
  <2>1. \A q \in Page \ {p}, f \in Frame : Has(q, f) => f # e
    BY <1>2 DEF Unhad
  <2> QED
    BY <1>1, <1>5, <1>6, <2>1, StepsApart
<1>9. Contents'
  <2>1. \A q \in Page \ {p}, f \in Frame : Has(q, f)' <=> Has(q, f)
    <3>1. at[t].page \in {p} \cup {NoPage} /\ at'[t].page \in {p} \cup {NoPage}
          /\ \A q \in Page \ {p} : pte'[q] = pte[q]
      BY <1>1, <1>5, <1>6
    <3> QED
      BY <1>6, <3>1, InvForms, InvFormsNext, Elsewhere
  <2>2. Has(p, e)' /\ \A f \in Frame : ~Has(p, f)
    BY <1>1, <1>6, WorksNext, NoFrameYet DEF Inv, WorkersHave
  <2>3. \A f \in Unhad' : f \in Unhad /\ f # e
    BY <2>1, <2>2 DEF Unhad
  <2>4. \A f \in Unhad' : mem'[f] \notin Data
    BY <1>5, <2>3 DEF Contents, Unhad
  <2>5. Filled(t)' /\ CleanCopy(p)'
    BY <1>1, <1>5, <1>6 DEF Filled, CleanCopy
  <2> QED
    BY <1>8, <2>4, <2>5, ContentsAfter
<1>10. Content(p)' = Content(p)
  BY <1>1, <1>5 DEF Content
<1> QED
  BY <1>8, <1>9, <1>10, NothingSeen

\* A page leaves its frame for a cluster no other page needs, with its content.
LEMMA ReplacedContents ==
  ASSUME Inv, Inv', Contents, NEW t \in Threads, NEW p \in Page, p[1] = t,
         NEW e \in Frame, NEW o \in Page, NEW c \in Cluster,
         list.count = 0, Others(t), \A u \in Threads \ {t} : at[u].pc = "idle",
         at[t].pc \in {"idle", "evict"}, at[t].page \in {p, NoPage},
         at'[t].pc \in {"update", "loaded"}, at'[t].page = p, at'[t].frame = e,
         ~pte[p].valid, Mapped(o, e), pte[o].valid, pte[o].blk = e,
         \A q \in Page : pte'[q] = IF q = o THEN SwappedOut(pte[o], c) ELSE pte[q],
         \A f \in Frame \ {e} : ot'[f] = ot[f] /\ ft'[f] = ft[f] /\ mem'[f] = mem[f],
         Cleared(e, c, dvt'), Saved(e, c, ft[e].dirty, disk'),
         Filled(t)'
  PROVE  Contents' /\ Effect
<1>1. /\ pte'[o].inseg /\ pte[o].inseg /\ ~pte'[o].tbc /\ ~pte[o].tbc
      /\ ~pte'[o].valid /\ pte'[o].blk = c
  <2>1. PICK x \in Descriptor : x = pte[o]
    BY DEF Inv, TypeOK
  <2>2. x.inseg /\ ~x.tbc
    BY <2>1 DEF Inv, PtesOK
  <2>3. PICK y : y = [x EXCEPT !.blk = c, !.valid = FALSE]
    OBVIOUS
  <2>4. y.inseg = x.inseg /\ y.tbc = x.tbc /\ ~y.valid /\ y.blk = c
    BY <2>3 DEF Descriptor
  <2>5. pte'[o] = y
    BY <2>1, <2>3 DEF SwappedOut
  <2> QED
    BY <2>1, <2>2, <2>4, <2>5
<1>2. \A q \in Page : ~Leaving(q) /\ ~Leaving(q)'
  BY DEF Leaving, Others
<1>3. \A q \in Page, f \in Frame : q # o /\ Has(q, f) => f # e
  BY DEF Inv, FramesHad, Has
<1>4. ot[e] # NoCluster => Holds(o, ot[e])
  BY <1>1, <1>2 DEF Holds, ClusterHeld, Leaving
<1>5. \A q \in Page \ {o} : ~Holds(q, c)
  <2>1. CASE ot[e] = c
    BY <1>4, <2>1, ContentsAssumption DEF Inv, ClustersHeld
  <2>2. CASE \E to \in DvtAcquireCluster(dvt) : c = to.cluster /\ dvt' = to.dvt
    <3>1. c \in Vacant(dvt)
      BY <2>2, AcquireCluster DEF Inv, ClustersHeld
    <3> QED
      BY <3>1 DEF Inv, ClustersHeld
  <2> QED
    BY <2>1, <2>2 DEF Cleared
<1>6. disk'[c] = mem[e]
  <2>1. CASE ft[e].dirty \/ ot[e] = NoCluster
    BY <2>1 DEF Saved
  <2>2. CASE ~ft[e].dirty /\ ot[e] # NoCluster
    <3>1. disk[ot[e]] = mem[e]
      BY <1>2, <2>2 DEF Contents, CleanCopy
    <3> QED
      BY <2>2, <3>1 DEF Saved, Cleared
  <2> QED
    BY <2>1, <2>2
<1>7. \A k \in Cluster : k # c => disk'[k] = disk[k]
  BY DEF Saved
<1>8. ASSUME NEW q \in Page, q # o PROVE CleanCopy(q)' /\ Content(q)' = Content(q)
  <2>1. pte'[q] = pte[q]
    BY <1>8
  <2>2. \A k \in Cluster : pte[q].inseg /\ ClusterHeld(q) = k => disk'[k] = disk[k]
    <3>1. \A k \in Cluster : pte[q].inseg /\ ClusterHeld(q) = k => Holds(q, k)
      BY <1>2 DEF Holds, Leaving
    <3> QED
      BY <1>5, <1>7, <1>8, <3>1
  <2>3. CASE pte[q].valid
    <3>1. pte[q].inseg /\ pte[q].blk \in Frame /\ Has(q, pte[q].blk)
      BY <1>2, <2>3, FrameMapped
    <3>2. PICK f \in Frame : f = pte[q].blk
      BY <3>1
    <3>3. ot'[f] = ot[f] /\ ft'[f] = ft[f] /\ mem'[f] = mem[f]
      BY <1>3, <1>8, <3>1, <3>2
    <3>4. ClusterHeld(q) = ot[f]
      BY <2>3, <3>2 DEF ClusterHeld
    <3>5. ot[f] \in Cluster \cup {NoCluster}
      BY DEF Inv, TypeOK
    <3>6. CleanCopy(q)'
      BY <1>2, <2>1, <2>2, <2>3, <3>1, <3>2, <3>3, <3>4, <3>5 DEF Contents, CleanCopy
    <3>7. Content(q)' = Content(q)
      BY <1>2, <2>1, <2>3, <3>2, <3>3 DEF Content, Leaving
    <3> QED
      BY <3>6, <3>7
  <2>4. CASE ~pte[q].valid /\ pte[q].inseg /\ ~pte[q].tbc
    <3>1. pte[q].blk \in Cluster /\ ClusterHeld(q) = pte[q].blk
      BY <2>4 DEF Inv, PtesOK, ClusterHeld
    <3>2. disk'[pte[q].blk] = disk[pte[q].blk]
      BY <2>2, <2>4, <3>1
    <3> QED
      BY <1>2, <2>1, <2>4, <3>2 DEF CleanCopy, Content, Leaving
  <2>5. CASE ~pte[q].valid /\ (~pte[q].inseg \/ pte[q].tbc)
    BY <1>2, <2>1, <2>5 DEF CleanCopy, Content, Leaving
  <2> QED
    BY <2>3, <2>4, <2>5
<1>9. CleanCopy(o)' /\ Content(o)' = Content(o)
  BY <1>1, <1>2, <1>6 DEF CleanCopy, Content, Leaving
<1>10. \A f \in Unhad' : mem'[f] \notin Data
  <2>1. list.count \in Nat /\ Lists(list, mem, Unhad) /\ Unhad \in SUBSET Frame
    BY DEF Inv, FramesHad, Unhad
  <2>2. Unhad = {}
    BY <2>1, EmptyList
  <2>3. Has(p, e)'
    BY WorksNext DEF WorkersHave
  <2>4. ASSUME NEW f \in Frame, f # e PROVE \E q \in Page : Has(q, f)'
    <3>1. PICK q \in Page : Has(q, f)
      BY <2>2 DEF Unhad
    <3>2. \A u \in Threads : ~InHand(u, f)
      BY DEF InHand
    <3>3. pte[q].valid /\ pte[q].blk = f
      BY <3>1, <3>2 DEF Has, Mapped
    <3>4. pte'[q] = pte[q]
      BY <2>4, <3>3
    <3>5. Mapped(q, f)'
      BY <1>2, <3>3, <3>4 DEF Mapped, Leaving
    <3> QED
      BY <3>5 DEF Has
  <2> QED
    BY <2>3, <2>4 DEF Unhad
<1>11. \A u \in Threads \ {t} : Filled(u)'
  BY DEF Filled, Others
<1>12. Spared(t, p) /\ CleanCopy(p)' /\ Content(p)' = Content(p)
  BY <1>8, <1>9, <1>11 DEF Spared
<1> QED
  BY <1>10, <1>12, ContentsAfter, NothingSeen

LEMMA EvictContents ==
  ASSUME Inv, Inv', Contents, Careful, NEW t \in Threads, Evict(t)
  PROVE  Contents' /\ Effect
<1>1. at[t].pc = "evict" /\ Relies(t) /\ TypeOK
  BY DEF Evict, Inv
<1>2. PICK p \in Page, e \in Frame : p = at[t].page /\ e = at[t].frame
  BY <1>1 DEF Relies
<1>3. /\ p[1] = t /\ list.count = 0 /\ ~pte[p].valid
      /\ at[t].cluster = ot[e] /\ at[t].dirty = ft[e].dirty
  BY <1>1, <1>2 DEF Relies
<1>4. \A u \in Threads \ {t} : at[u].pc = "idle"
  BY <1>1, NobodyElse
<1>5. \A u \in Threads : ~InHand(u, e)
  BY <1>1, <1>4 DEF InHand
<1>6. PICK o \in Page : Mapped(o, e) /\ ft[e].owner = o /\ pte[o].valid /\ pte[o].blk = e
  BY <1>3, <1>5, VictimOwned
<1>7. PICK dirty : dirty = ft[e].dirty
  OBVIOUS
<1>8. PICK r \in SwapOut([frame |-> e, cluster |-> ot[e], dirty |-> dirty]) :
        Take(r) /\ ft' = r.ft /\ mem' = r.mem
  BY <1>2, <1>3, <1>7 DEF Evict
<1>9. Become(t, "update") /\ ot' = ot
  BY DEF Evict
<1>10. SwapsTo(e, o, dirty, r)
  BY <1>6, Swapped
<1>11. PICK c \in Cluster : /\ r.pte = [pte EXCEPT ![o] = SwappedOut(pte[o], c)]
                            /\ Cleared(e, c, r.dvt)
                            /\ Saved(e, c, dirty, r.disk)
  BY <1>10 DEF SwapsTo
<1>12. /\ ft' = [ft EXCEPT ![e].used = FALSE] /\ mem' = LinksOfReturn(list, mem, e)
       /\ pte' = [pte EXCEPT ![o] = SwappedOut(pte[o], c)]
       /\ Cleared(e, c, dvt') /\ Saved(e, c, ft[e].dirty, disk')
  BY <1>7, <1>8, <1>10, <1>11 DEF Take, SwapsTo
<1>13. /\ at' \in [Threads -> Local] /\ Others(t)
       /\ at'[t].pc = "update" /\ at'[t].page = p /\ at'[t].frame = e
  BY <1>1, <1>2, <1>9, Becomes
<1>14. \A q \in Page : pte'[q] = IF q = o THEN SwappedOut(pte[o], c) ELSE pte[q]
  BY <1>1, <1>12 DEF TypeOK
<1>15. Unhad = {} /\ e \notin Unhad
  <2>1. Unhad \in SUBSET Frame /\ list.count \in Nat /\ Lists(list, mem, Unhad)
    BY DEF Inv, FramesHad, Unhad
  <2> QED
    BY <1>3, <2>1, EmptyList
<1>16. \A f \in Frame \ {e} : ot'[f] = ot[f] /\ ft'[f] = ft[f] /\ mem'[f] = mem[f]
  <2>1. \A f \in Frame \ {e} : mem'[f] = mem[f]
    BY <1>12, <1>15, LinksElsewhere
  <2> QED
    BY <1>1, <1>9, <1>12, <2>1 DEF TypeOK
<1>17. Filled(t)'
  <2>1. mem'[e] \notin Data
    BY <1>1, <1>12, LinksNoData DEF TypeOK
  <2> QED
    BY <1>13, <2>1 DEF Filled
<1>18. at[t].page \in {p, NoPage} /\ at[t].pc \in {"idle", "evict"}
       /\ at'[t].pc \in {"update", "loaded"}
  BY <1>1, <1>2, <1>13
<1> QED
  BY <1>3, <1>4, <1>6, <1>12, <1>13, <1>14, <1>16, <1>17, <1>18, ReplacedContents

LEMMA UsLoadPageSwapsContents ==
  ASSUME Inv, Inv', Contents, Careful, NEW t \in Threads, NEW p \in Page, p[1] = t,
         NEW d \in Data, UsLoadPage(t, p, d), list.count = 0
  PROVE  Contents' /\ Effect
<1>1. MayCall(t, p) /\ ~pte[p].inseg /\ ~pte[p].valid /\ TypeOK
  BY DEF UsLoadPage, Inv, PtesOK
<1>2. at[t].pc = "idle" /\ \A u \in Threads \ {t} : at[u].pc = "idle"
  BY <1>1, AloneWhenFull DEF Alone, MayCall
<1>3. PICK r \in UNION {SwapOut(v) : v \in Victims} :
        /\ Take(r)
        /\ ft' = [r.ft EXCEPT ![r.frame] = [owner |-> p, used |-> TRUE, dirty |-> FALSE]]
        /\ ot' = [ot EXCEPT ![r.frame] = NoCluster]
        /\ mem' = [r.mem EXCEPT ![r.frame] = d]
        /\ at' = [at EXCEPT ![t] = [Idle EXCEPT !.pc = "loaded", !.page = p,
                                                !.frame = r.frame]]
  BY DEF UsLoadPage
<1>4. PICK e \in Frame : r \in SwapOut(VictimAt(e))
  BY <1>3 DEF Victims
<1>5. PICK dirty : dirty = ft[e].dirty
  OBVIOUS
<1>6. r \in SwapOut([frame |-> e, cluster |-> ot[e], dirty |-> dirty])
  <2>1. VictimAt(e) = [frame |-> e, cluster |-> ot[e], dirty |-> dirty]
    BY <1>5 DEF VictimAt
  <2> QED
    BY <1>4, <2>1
<1>7. \A u \in Threads : ~InHand(u, e)
  BY <1>2 DEF InHand
<1>8. PICK o \in Page : Mapped(o, e) /\ ft[e].owner = o /\ pte[o].valid /\ pte[o].blk = e
  BY <1>7, VictimOwned
<1>9. SwapsTo(e, o, dirty, r)
  <2>1. ft[e].owner = o
    BY <1>8
  <2> QED
    BY <1>6, <2>1, Swapped
<1>10. PICK c \in Cluster : /\ r.pte = [pte EXCEPT ![o] = SwappedOut(pte[o], c)]
                            /\ Cleared(e, c, r.dvt)
                            /\ Saved(e, c, dirty, r.disk)
  BY <1>9 DEF SwapsTo
<1> DEFINE g == [owner |-> p, used |-> TRUE, dirty |-> FALSE]
<1>11. /\ ft' = [[ft EXCEPT ![e].used = FALSE] EXCEPT ![e] = g]
       /\ ot' = [ot EXCEPT ![e] = NoCluster]
       /\ mem' = [LinksOfReturn(list, mem, e) EXCEPT ![e] = d]
       /\ pte' = [pte EXCEPT ![o] = SwappedOut(pte[o], c)]
       /\ Cleared(e, c, dvt') /\ Saved(e, c, ft[e].dirty, disk')
  BY <1>3, <1>5, <1>9, <1>10 DEF Take, SwapsTo
<1> HIDE DEF g
<1>12. /\ Others(t) /\ at'[t].pc = "loaded" /\ at'[t].page = p /\ at'[t].frame = e
  <2>1. Starts(t, "loaded", p, e)
    BY <1>3, <1>9 DEF SwapsTo, Starts
  <2>2. Started(t, "loaded", p, e)
    <3>1. TypeOK /\ e \in Frame \cup {NoFrame}
      BY <1>1
    <3> QED
      BY <2>1, <3>1, Begins
  <2> QED
    BY <2>2 DEF Started
<1>13. \A q \in Page : pte'[q] = IF q = o THEN SwappedOut(pte[o], c) ELSE pte[q]
  BY <1>1, <1>11 DEF TypeOK
<1>14. e \notin Unhad /\ \A f \in Frame : f \notin Unhad
  <2>1. Unhad \in SUBSET Frame /\ list.count \in Nat /\ Lists(list, mem, Unhad)
    BY DEF Inv, FramesHad, Unhad
  <2> QED
    BY <2>1, EmptyList
<1>15. LinksOfReturn(list, mem, e) \in [Frame -> Stored]
  BY <1>1 DEF TypeOK, LinksOfReturn, Stored
<1>16. \A f \in Frame \ {e} : ot'[f] = ot[f] /\ ft'[f] = ft[f] /\ mem'[f] = mem[f]
  <2>1. \A f \in Frame \ {e} : LinksOfReturn(list, mem, e)[f] = mem[f]
    BY <1>14, LinksElsewhere
  <2> QED
    BY <1>1, <1>11, <1>15, <2>1 DEF TypeOK
<1>17. Filled(t)'
  <2>1. mem'[e] = d
    BY <1>11, <1>15
  <2> QED
    BY <1>12, <2>1 DEF Filled
<1>18. at[t].page \in {p, NoPage} /\ at[t].pc \in {"idle", "evict"}
       /\ at'[t].pc \in {"update", "loaded"}
  <2>1. at[t] = Idle
    BY <1>2 DEF Inv, Relies
  <2> QED
    BY <1>2, <1>12, <2>1 DEF Idle
<1> QED
  <2>1. Cleared(e, c, dvt') /\ Saved(e, c, ft[e].dirty, disk')
    BY <1>11
  <2>2. Mapped(o, e) /\ pte[o].valid /\ pte[o].blk = e /\ ~pte[p].valid
    BY <1>1, <1>8
  <2>3. \A u \in Threads \ {t} : at[u].pc = "idle"
    BY <1>2
  <2> QED
    BY <1>12, <1>13, <1>16, <1>17, <1>18, <2>1, <2>2, <2>3, ReplacedContents


------------------------------------------------------------------------------
(* Threads that page at the same time implement flat memory.               *)

Whole == Inv /\ Contents

LEMMA WholeInit == Init => Whole
<1> SUFFICES ASSUME Init PROVE Contents
  BY InvInit DEF Whole
<1>1. \A f \in Frame : mem[f] \notin Data
  <2>1. \A f \in Frame : mem[f] \in Frame \cup {Nil}
    BY DEF Init, LinkedPages
  <2> QED
    BY <2>1, ContentsAssumption
<1>2. \A t \in Threads : at[t].pc = "idle"
  BY DEF Init, Idle
<1>3. \A q \in Page : ~pte[q].valid
  BY DEF Init, NoDescriptor
<1> QED
  BY <1>1, <1>2, <1>3 DEF Contents, Unhad, Filled, CleanCopy

LEMMA WholeStutters ==
  ASSUME Whole, UNCHANGED vars
  PROVE  Contents' /\ Effect
<1>1. UNCHANGED <<list, holder, dvt, ft, ot, pte, mem, disk, at>>
  BY DEF vars
<1>2. \A q \in Page, f \in Frame : Has(q, f)' <=> Has(q, f)
  BY <1>1 DEF Has, Mapped, InHand
<1>3. \A f \in Unhad' : mem'[f] \notin Data
  BY <1>1, <1>2 DEF Whole, Contents, Unhad
<1>4. \A t \in Threads : Filled(t)'
  BY <1>1 DEF Whole, Contents, Filled
<1>5. \A q \in Page : CleanCopy(q)' /\ Content(q)' = Content(q)
  BY <1>1 DEF Whole, Contents, CleanCopy, Leaving, Content
<1> QED
  BY <1>3, <1>4, <1>5 DEF Contents, Effect

LEMMA WholeNext ==
  ASSUME Careful, Whole, [Next]_vars
  PROVE  Whole' /\ Effect
<1>0. Inv /\ Inv' /\ Contents
  BY InvNext DEF Whole
<1> SUFFICES Contents' /\ Effect
  BY <1>0 DEF Whole
<1>1. CASE UNCHANGED vars
  BY <1>1, WholeStutters
<1>2. ASSUME NEW t \in Threads, Begin(t) PROVE Contents' /\ Effect
  <2>1. PICK p \in {q \in Page : q[1] = t} :
          \/ CreateSegment(t, p) \/ DeleteSegment(t, p) \/ PageFault(t, p) \/ Access(t, p)
          \/ \E d \in Data : UsLoadPage(t, p, d)
    BY <1>2 DEF Begin
  <2>2. p \in Page /\ p[1] = t
    OBVIOUS
  <2>3. CASE CreateSegment(t, p)
    BY <1>0, <2>2, <2>3, CreateSegmentContents
  <2>4. CASE DeleteSegment(t, p)
    BY <1>0, <2>2, <2>4, DeleteSegmentContents
  <2>5. CASE PageFault(t, p)
    BY <1>0, <2>2, <2>5, PageFaultPopsContents, PageFaultWaitsContents
  <2>6. CASE Access(t, p)
    BY <1>0, <2>2, <2>6, AccessContents
  <2>7. ASSUME NEW d \in Data, UsLoadPage(t, p, d) PROVE Contents' /\ Effect
    BY <1>0, <2>2, <2>7, UsLoadPagePopsContents, UsLoadPageSwapsContents
  <2> QED
    BY <2>1, <2>3, <2>4, <2>5, <2>6, <2>7
<1>3. ASSUME NEW t \in Threads, Continue(t) PROVE Contents' /\ Effect
  <2>1. CASE GetVictim(t)
    BY <1>0, <2>1, GetVictimContents
  <2>2. CASE Evict(t)
    BY <1>0, <2>2, EvictContents
  <2>3. CASE UsFtUpdate(t)
    BY <1>0, <2>3, UsFtUpdateContents
  <2>4. CASE UsRequestPage(t)
    BY <1>0, <2>4, UsRequestPageContents
  <2>5. CASE Serve(t)
    BY <1>0, <2>5, ServeContents
  <2>6. CASE Loaded(t)
    BY <1>0, <2>6, LoadedContents
  <2>7. CASE UsFreePage(t)
    BY <1>0, <2>7, UsFreePageContents
  <2>8. CASE Forget(t)
    BY <1>0, <2>8, ForgetContents
  <2>9. ASSUME NEW d \in Data, Store(t, d) PROVE Contents' /\ Effect
    BY <1>0, <2>9, StoreContents
  <2> QED
    BY <1>3, <2>1, <2>2, <2>3, <2>4, <2>5, <2>6, <2>7, <2>8, <2>9 DEF Continue
<1> QED
  BY <1>1, <1>2, <1>3 DEF Next

\* Every effect is a step of the flat memory, or none.
LEMMA EffectFlat ==
  ASSUME Effect
  PROVE  [Flat!Next]_([q \in Page |-> Content(q)])
<1> DEFINE m == [q \in Page |-> Content(q)]
<1>1. \A q \in Page : m[q] = Content(q)
  OBVIOUS
<1>2. CASE \A q \in Page : Content(q)' = Content(q)
  <2>1. m' = m
    BY <1>2
  <2> QED
    BY <2>1
<1>3. ASSUME NEW p \in Page, NEW x, Turns(p, x)
      PROVE  /\ m' = [m EXCEPT ![p] = x]
             /\ m' = [q \in Page |-> IF q \in {p} THEN x ELSE m[q]]
  BY <1>3 DEF Turns
<1> HIDE DEF m
<1>4. ASSUME NEW p \in Page, Content(p) = Absent, Turns(p, Junk)
      PROVE  Flat!Next
  <2>1. Flat!Map({p})
    BY <1>1, <1>3, <1>4 DEF Flat!Map, m
  <2> QED
    BY <2>1 DEF Flat!Next
<1>5. ASSUME NEW p \in Page, Content(p) # Absent, Turns(p, Absent)
      PROVE  Flat!Next
  <2>1. Flat!Unmap({p})
    BY <1>1, <1>3, <1>5 DEF Flat!Unmap, m
  <2> QED
    BY <2>1 DEF Flat!Next
<1>6. ASSUME NEW p \in Page, NEW d \in Data, Content(p) = Absent, Turns(p, d)
      PROVE  Flat!Next
  <2>1. Flat!Load(p, d)
    BY <1>1, <1>3, <1>6 DEF Flat!Load, m
  <2> QED
    BY <2>1 DEF Flat!Next
<1>7. ASSUME NEW p \in Page, NEW d \in Data, Content(p) # Absent, Turns(p, d)
      PROVE  Flat!Next
  <2>1. Flat!Store(p, d)
    BY <1>1, <1>3, <1>7 DEF Flat!Store, m
  <2> QED
    BY <2>1 DEF Flat!Next
<1> QED
  BY <1>2, <1>4, <1>5, <1>6, <1>7 DEF Effect

\* For clients that let calls overlap only where no page has to leave, threads that
\* fault, load, store and delete at the same time see what flat memory would give
\* them: page_fault, us_swap_out, us_request_page and the list of empty pages never
\* show a process the data of another page, nor lose what it stored.
THEOREM FlatThreads ==
  ASSUME Careful
  PROVE  Spec => FlatSpec
<1>1. Init => Flat!Init
  BY DEF Init, Flat!Init, Content, NoDescriptor
<1>2. Whole /\ [Next]_vars => Whole' /\ [Flat!Next]_([q \in Page |-> Content(q)])
  BY WholeNext, EffectFlat
<1> QED
  BY <1>1, <1>2, WholeInit, PTL DEF Spec, FlatSpec, Flat!Spec
=============================================================================
