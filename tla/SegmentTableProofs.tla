------------------------- MODULE SegmentTableProofs -------------------------
(***************************************************************************)
(* Machine-checked proofs about SegmentTable, for any widths of numbers,   *)
(* any number of entries and whatever the entries hold at first.           *)
(***************************************************************************)
EXTENDS SegmentTable, NumberFacts, TLAPS

Used == {i \in Entry : ~st[i].free}

\* The pages from first on.
Pages(first, size) == first .. first + size - 1

Held(i) == Pages(st[i].start, st[i].length)

\* What an entry in use tells.
Told(i) == [first |-> st[i].start, size |-> st[i].length]

\* Of a modest client: segments in the low pages, none over another, and no entry
\* below a used one with its start page, not even one that is free: the entry
\* delete_segment finds first is the one in use.
EntriesTell ==
  modest =>
    /\ outcome = "running"
    /\ \A i \in Used : st[i].length >= 1 /\ st[i].start + st[i].length <= LowPages
    /\ \A i, k \in Used : i # k => Held(i) \cap Held(k) = {}
    /\ \A i \in Used : \A k \in Entry : k < i => st[k].start # st[i].start
    /\ seg_count = Cardinality(Used)
    /\ granted = {Told(i) : i \in Used}
    /\ inseg = UNION {Held(i) : i \in Used}

Inv == SegmentTypeOK /\ EntriesTell

------------------------------------------------------------------------------
(* Numbers.                                                                *)

\* Min of a set of natural numbers that is not empty is its least element.
LEMMA MinIsLeast ==
  ASSUME NEW S \in SUBSET Nat, S # {}
  PROVE  Min(S) \in S /\ \A y \in S : Min(S) =< y
BY LeastExists DEF Min

\* A range of pages below the end of the address space does not wrap around.
LEMMA CoveredPages ==
  ASSUME NEW first \in Nat, NEW size \in Nat, first + size =< NPages
  PROVE  Covered(first, size) = Pages(first, size) /\ Pages(first, size) \subseteq PageNo
<1>1. \A i \in 0 .. size - 1 : (first + i) % NPages = first + i
  BY WidthsAssumption
<1>2. \A p \in Pages(first, size) : p - first \in 0 .. size - 1 /\ p = first + (p - first)
  BY DEF Pages
<1>3. Covered(first, size) \subseteq Pages(first, size)
  BY <1>1 DEF Covered, Pages
<1>4. Pages(first, size) \subseteq Covered(first, size)
  BY <1>1, <1>2 DEF Covered
<1>5. Pages(first, size) \subseteq PageNo
  BY WidthsAssumption DEF Pages, PageNo
<1> QED
  BY <1>3, <1>4, <1>5

\* Whatever the sizes, pages are pages of the address space.
LEMMA CoveredType ==
  ASSUME NEW first \in Nat, NEW size \in Int
  PROVE  Covered(first, size) \subseteq PageNo
BY WidthsAssumption DEF Covered, PageNo

------------------------------------------------------------------------------
(* Types.                                                                  *)

LEMMA PlaceType ==
  ASSUME SegmentTypeOK,
         NEW page \in PageNo, NEW ordinal \in PageNo, NEW size \in 1 .. NPages - page,
         Place(page, ordinal, size)
  PROVE  SegmentTypeOK'
<1> DEFINE i == Min({i \in Entry : st[i].free})
           e == [free |-> FALSE, start |-> ordinal, length |-> Length(size)]
<1>1. Length(size) \in PageNo
  BY WidthsAssumption DEF Length, PageNo
<1>2. e \in [free : BOOLEAN, start : PageNo, length : PageNo]
  BY <1>1
<1>3. st' = [st EXCEPT ![i] = e]
  BY DEF Place
<1> HIDE DEF i, e
<1>4. st' \in [Entry -> [free : BOOLEAN, start : PageNo, length : PageNo]]
  BY <1>2, <1>3 DEF SegmentTypeOK
<1>5. seg_count' \in 0 .. MaxSegments
  BY WidthsAssumption DEF Place, CanPlace, SegmentTypeOK
<1>6. inseg' \subseteq PageNo
  <2>1. Covered(page, size) \subseteq PageNo
    BY CoveredType DEF PageNo
  <2> QED
    BY <2>1 DEF Place, SegmentTypeOK
<1>7. modest' \in BOOLEAN
  BY DEF Place, SegmentTypeOK
<1>8. granted' \subseteq [first : PageNo, size : 1 .. NPages]
  <2>1. [first |-> page, size |-> size] \in [first : PageNo, size : 1 .. NPages]
    BY WidthsAssumption DEF PageNo
  <2> QED
    BY <2>1 DEF Place, SegmentTypeOK
<1> QED
  BY <1>4, <1>5, <1>6, <1>7, <1>8 DEF Place, SegmentTypeOK

LEMMA DeleteType ==
  ASSUME SegmentTypeOK, NEW page \in PageNo, DeleteSegment(page)
  PROVE  SegmentTypeOK'
<1> DEFINE i == Min({i \in Entry : st[i].start = page % LowPages})
<1>0. DeleteInd(i) /\ seg_count # 0
  BY DEF DeleteSegment
<1> HIDE DEF i
<1>1. st' \in [Entry -> [free : BOOLEAN, start : PageNo, length : PageNo]]
  BY <1>0 DEF DeleteInd, Freed, SegmentTypeOK
<1>2. seg_count' \in 0 .. MaxSegments
  BY <1>0, WidthsAssumption DEF DeleteInd, SegmentTypeOK
<1>3. inseg' \subseteq PageNo /\ outcome' \in {"running", "halted", "wild"}
  BY <1>0 DEF DeleteInd, SegmentTypeOK
<1>4. modest' \in BOOLEAN /\ granted' \subseteq [first : PageNo, size : 1 .. NPages]
  BY DEF DeleteSegment, SegmentTypeOK
<1> QED
  BY <1>1, <1>2, <1>3, <1>4 DEF SegmentTypeOK

\* The page number that create_segment and load_segment keep of an address.
LEMMA OrdinalOfPage ==
  ASSUME NEW page \in PageNo
  PROVE  /\ page % LowPages \in PageNo
         /\ page < LowPages => page % LowPages = page
BY WidthsAssumption DEF PageNo

LEMMA TypeStep == SegmentTypeOK /\ [Next]_vars => SegmentTypeOK'
<1> SUFFICES ASSUME SegmentTypeOK, [Next]_vars PROVE SegmentTypeOK'
  OBVIOUS
<1>1. CASE UNCHANGED vars
  BY <1>1 DEF vars, SegmentTypeOK
<1>2. ASSUME NEW page \in PageNo, NEW size \in 1 .. NPages - page,
             CreateSegment(page, size) \/ LoadSegment(page, size)
      PROVE  SegmentTypeOK'
  <2>1. CASE Place(page, page, size) \/ Place(page, page % LowPages, size)
    BY <2>1, PlaceType, OrdinalOfPage
  <2>2. CASE Stray(page, page, size) \/ Stray(page, page % LowPages, size)
    BY <2>2 DEF Stray, SegmentTypeOK
  <2> QED
    BY <1>2, <2>1, <2>2 DEF CreateSegment, LoadSegment
<1>3. ASSUME NEW page \in PageNo, DeleteSegment(page)
      PROVE  SegmentTypeOK'
  BY <1>3, DeleteType
<1> QED
  BY <1>1, <1>2, <1>3 DEF Next

LEMMA TypeInit == Init => SegmentTypeOK
<1> SUFFICES ASSUME Init PROVE SegmentTypeOK
  OBVIOUS
<1>1. Leftover \subseteq PageNo
  BY WidthsAssumption DEF PageNo
<1>2. [free : {TRUE}, start : Leftover, length : Leftover]
        \subseteq [free : BOOLEAN, start : PageNo, length : PageNo]
  BY <1>1
<1>3. seg_count \in 0 .. MaxSegments
  BY WidthsAssumption DEF Init
<1> QED
  BY <1>2, <1>3 DEF Init, SegmentTypeOK

------------------------------------------------------------------------------
(* The table of a modest client.                                           *)

LEMMA UsedFinite == IsFiniteSet(Used) /\ IsFiniteSet(Entry) /\ Cardinality(Entry) = MaxSegments
<1>1. IsFiniteSet(Entry) /\ Cardinality(Entry) = MaxSegments
  <2>1. MaxSegments \in Nat \ {0}
    BY WidthsAssumption
  <2>2. 0 \in Int /\ MaxSegments - 1 \in Int /\ ~(0 > MaxSegments - 1)
    BY <2>1
  <2>3. IsFiniteSet(0 .. MaxSegments - 1)
        /\ Cardinality(0 .. MaxSegments - 1) = MaxSegments - 1 - 0 + 1
    BY <2>2, FS_Interval
  <2> QED
    BY <2>1, <2>3 DEF Entry
<1>2. Used \in SUBSET Entry
  BY DEF Used
<1> QED
  BY <1>1, <1>2, FS_Subset

\* A segment of the low pages that the overlap test lets through lies over no other,
\* although the test compares a page number with an address.
LEMMA PlacedApart ==
  ASSUME Inv, modest,
         NEW page \in PageNo, NEW size \in 1 .. NPages - page,
         CanPlace(page, page, size), NEW k \in Used
  PROVE  Held(k) \cap Pages(page, size) = {}
<1>1. /\ k \in Entry /\ ~st[k].free
      /\ st[k].start \in Nat /\ st[k].length \in Nat /\ st[k].length >= 1
  BY DEF Inv, SegmentTypeOK, EntriesTell, Used, PageNo
<1>2. Last(st[k]) = st[k].start + st[k].length - 1
  BY <1>1 DEF Last
<1>3. Last(st[k]) < page \/ st[k].start > page * PAGE_SIZE + size - 1
  BY <1>1 DEF CanPlace, Overlaps
<1>4. page * PAGE_SIZE >= page
  BY WidthsAssumption DEF PageNo
<1>5. page \in Nat /\ size \in Nat /\ page * PAGE_SIZE \in Nat
  BY WidthsAssumption DEF PageNo
<1> QED
  BY <1>1, <1>2, <1>3, <1>4, <1>5 DEF Held, Pages

\* A segment goes to the lowest free entry, and the table tells what was granted.
LEMMA PlaceTells ==
  ASSUME Inv, modest',
         NEW page \in PageNo, NEW size \in 1 .. NPages - page,
         Place(page, page, size)
  PROVE  EntriesTell'
<1> DEFINE F == {k \in Entry : st[k].free}
           e == [free |-> FALSE, start |-> page, length |-> Length(size)]
<1>0. PICK i \in Entry : i = Min(F) /\ i \in F /\ \A k \in F : i =< k
  <2>1. F \in SUBSET Nat /\ F # {}
    BY WidthsAssumption DEF Place, Entry
  <2> QED
    BY <2>1, MinIsLeast
<1>1. modest /\ page + size <= LowPages
  BY DEF Place, Inv, SegmentTypeOK
<1>2. st[i].free /\ \A k \in Entry : k < i => k \in Used
  <2>1. \A k \in Entry : k < i => k \notin F
    BY <1>0 DEF Entry
  <2> QED
    BY <1>0, <2>1 DEF Used
<1>3. e.length = size
  <2>1. size \in Nat /\ NPages \in Nat /\ size < NPages
    BY <1>1, WidthsAssumption DEF PageNo
  <2> QED
    BY <2>1 DEF Length
<1>4. st' = [st EXCEPT ![i] = e]
  BY <1>0 DEF Place
<1>5. ~e.free /\ e.start = page
  OBVIOUS
<1> HIDE DEF F, e
<1>6. \A k \in Entry : st'[k] = IF k = i THEN e ELSE st[k]
  BY <1>4 DEF Inv, SegmentTypeOK
<1>7. Used' = Used \cup {i} /\ i \notin Used
  BY <1>2, <1>5, <1>6 DEF Used
<1>8. \A k \in Used : st'[k] = st[k] /\ Held(k)' = Held(k) /\ Told(k)' = Told(k)
  BY <1>6, <1>7 DEF Used, Held, Told
<1>9. Held(i)' = Pages(page, size) /\ Told(i)' = [first |-> page, size |-> size]
  BY <1>2, <1>3, <1>5, <1>6 DEF Held, Told
<1>10. \A k \in Used : Held(k) \cap Pages(page, size) = {}
  BY <1>1, PlacedApart DEF Place
<1>11. outcome' = "running"
  BY <1>1 DEF Place, Inv, EntriesTell
<1>12. \A k \in Used' : st'[k].length >= 1 /\ st'[k].start + st'[k].length <= LowPages
  BY <1>1, <1>2, <1>3, <1>5, <1>6, <1>7, <1>8 DEF Inv, EntriesTell
<1>13. \A k, l \in Used' : k # l => Held(k)' \cap Held(l)' = {}
  BY <1>1, <1>7, <1>8, <1>9, <1>10 DEF Inv, EntriesTell
<1>14. \A k \in Used : st[k].start \in Held(k)
  BY <1>1 DEF Inv, EntriesTell, SegmentTypeOK, Held, Pages, Used, PageNo
<1>15. page \in Pages(page, size)
  BY DEF Pages, PageNo
<1>16. \A k \in Used' : \A l \in Entry : l < k => st'[l].start # st'[k].start
  <2> SUFFICES ASSUME NEW k \in Used', NEW l \in Entry, l < k
               PROVE  st'[l].start # st'[k].start
    OBVIOUS
  <2>0. k \in Entry /\ k # l
    BY WidthsAssumption DEF Used, Entry
  <2>1. CASE k = i
    <3>1. l \in Used
      BY <1>2, <2>1
    <3> QED
      BY <1>2, <1>5, <1>6, <1>8, <1>10, <1>14, <1>15, <2>1, <3>1
  <2>2. CASE l = i
    BY <1>2, <1>5, <1>6, <1>7, <1>8, <1>10, <1>14, <1>15, <2>0, <2>2
  <2>3. CASE k # i /\ l # i
    BY <1>1, <1>6, <1>7, <2>0, <2>3 DEF Inv, EntriesTell
  <2> QED
    BY <2>1, <2>2, <2>3
<1>17. seg_count' = Cardinality(Used')
  <2>1. Cardinality(Used \cup {i}) = Cardinality(Used) + 1
    BY <1>7, UsedFinite, FS_AddElement
  <2> QED
    BY <1>1, <1>7, <2>1 DEF Place, Inv, EntriesTell
<1>18. granted' = {Told(k)' : k \in Used'}
  <2>1. granted' = granted \cup {[first |-> page, size |-> size]}
    BY DEF Place
  <2> QED
    BY <1>1, <1>7, <1>8, <1>9, <2>1 DEF Inv, EntriesTell
<1>19. inseg' = UNION {Held(k)' : k \in Used'}
  <2>1. inseg' = inseg \cup Pages(page, size)
    BY CoveredPages, <1>1, WidthsAssumption DEF Place, PageNo
  <2>2. inseg = UNION {Held(k) : k \in Used}
    BY <1>1 DEF Inv, EntriesTell
  <2>3. {Held(k)' : k \in Used'} = {Held(k) : k \in Used} \cup {Pages(page, size)}
    BY <1>7, <1>8, <1>9
  <2> QED
    BY <2>1, <2>2, <2>3
<1> QED
  BY <1>11, <1>12, <1>13, <1>16, <1>17, <1>18, <1>19 DEF EntriesTell

\* A modest client that may place a segment finds an entry without one.
LEMMA NoStray ==
  ASSUME Inv, modest, NEW page, NEW ordinal, NEW size, Stray(page, ordinal, size)
  PROVE  FALSE
<1>1. Used = Entry
  BY DEF Stray, Used
<1> QED
  BY <1>1, UsedFinite DEF Stray, CanPlace, Inv, EntriesTell

\* What a modest client deletes is the segment in use that starts at the page, the
\* first entry with that start; the other segments keep their pages.
LEMMA DeleteTells ==
  ASSUME Inv, modest', NEW page \in PageNo, DeleteSegment(page)
  PROVE  EntriesTell'
<1> DEFINE F == {k \in Entry : st[k].start = page % LowPages}
<1>1. modest /\ \E g \in granted : g.first = page
  BY DEF DeleteSegment, Inv, SegmentTypeOK
<1>2. PICK j \in Used : st[j].start = page
  BY <1>1 DEF Inv, EntriesTell, Told
<1>3. /\ \A k \in Used : /\ k \in Entry /\ ~st[k].free
                         /\ st[k].start \in PageNo /\ st[k].length \in PageNo
                         /\ st[k].length >= 1 /\ st[k].start + st[k].length <= LowPages
      /\ \A k, l \in Used : k # l => Held(k) \cap Held(l) = {}
      /\ inseg = UNION {Held(k) : k \in Used}
      /\ granted = {Told(k) : k \in Used}
  BY <1>1 DEF Inv, EntriesTell, SegmentTypeOK, Used
<1>4. \A k \in Used : st[k].start \in Held(k)
  BY <1>3 DEF Held, Pages, PageNo
<1>5. page % LowPages = page
  <2>1. page < LowPages
    BY <1>2, <1>3, WidthsAssumption DEF PageNo
  <2> QED
    BY <2>1, OrdinalOfPage
<1>6. Min(F) = j
  <2>1. F \in SUBSET Nat /\ j \in F
    BY <1>2, <1>3, <1>5, WidthsAssumption DEF Entry
  <2>2. Min(F) \in F /\ Min(F) =< j
    BY <2>1, MinIsLeast
  <2>3. \A k \in Entry : k < j => k \notin F
    BY <1>1, <1>2, <1>5 DEF Inv, EntriesTell
  <2>4. F \subseteq Entry
    OBVIOUS
  <2> HIDE DEF F
  <2>5. ~(Min(F) < j) /\ Min(F) \in Nat /\ j \in Nat
    BY <2>1, <2>2, <2>3, <2>4
  <2> QED
    BY <2>2, <2>5
<1>7. DeleteInd(j)
  BY <1>6 DEF DeleteSegment
<1>8. Covered(st[j].start, st[j].length) = Held(j)
  BY <1>2, <1>3, CoveredPages, WidthsAssumption DEF Held, PageNo
<1>9. Held(j) \subseteq inseg
  BY <1>2, <1>3
<1>10. /\ inseg' = inseg \ Held(j)
       /\ st' = [st EXCEPT ![j].free = TRUE]
       /\ seg_count' = seg_count - 1
       /\ outcome' = outcome
  BY <1>7, <1>8, <1>9 DEF DeleteInd, Freed
<1>11. \A k \in Entry : /\ st'[k].start = st[k].start /\ st'[k].length = st[k].length
                         /\ st'[k].free = (k = j \/ st[k].free)
  <2>1. st \in [Entry -> [free : BOOLEAN, start : PageNo, length : PageNo]]
    BY DEF Inv, SegmentTypeOK
  <2>2. ASSUME NEW k \in Entry, k # j
        PROVE  st'[k] = st[k]
    BY <1>10, <2>1, <2>2
  <2>3. st'[j] = [st[j] EXCEPT !.free = TRUE]
    BY <1>3, <1>10, <2>1
  <2>4. st'[j].start = st[j].start /\ st'[j].length = st[j].length /\ st'[j].free = TRUE
    BY <1>3, <2>1, <2>3
  <2> QED
    BY <2>1, <2>2, <2>4
<1>12. Used' = Used \ {j}
  BY <1>11 DEF Used
<1>13. \A k \in Used : Held(k)' = Held(k) /\ Told(k)' = Told(k)
  BY <1>3, <1>11 DEF Held, Told
<1>14. \A k \in Used' : st'[k].length >= 1 /\ st'[k].start + st'[k].length <= LowPages
  BY <1>3, <1>11, <1>12
<1>15. \A k, l \in Used' : k # l => Held(k)' \cap Held(l)' = {}
  BY <1>3, <1>12, <1>13
<1>16. \A k \in Used' : \A l \in Entry : l < k => st'[l].start # st'[k].start
  BY <1>1, <1>3, <1>11, <1>12 DEF Inv, EntriesTell
<1>17. seg_count' = Cardinality(Used')
  <2>1. Cardinality(Used \ {j}) = Cardinality(Used) - 1
    BY <1>2, UsedFinite, FS_RemoveElement
  <2> QED
    BY <1>1, <1>10, <1>12, <2>1 DEF Inv, EntriesTell
<1>18. granted' = {Told(k)' : k \in Used'}
  <2>1. granted' = {g \in granted : g.first # page}
    BY DEF DeleteSegment
  <2>2. \A k \in Used : Told(k).first # page <=> k # j
    BY <1>2, <1>3, <1>4 DEF Told
  <2>3. {Told(k)' : k \in Used'} = {Told(k) : k \in Used \ {j}}
    BY <1>12, <1>13
  <2> QED
    BY <1>3, <2>1, <2>2, <2>3
<1>19. inseg' = UNION {Held(k)' : k \in Used'}
  <2>1. {Held(k)' : k \in Used'} = {Held(k) : k \in Used \ {j}}
    BY <1>12, <1>13
  <2>2. inseg \ Held(j) = UNION {Held(k) : k \in Used \ {j}}
    BY <1>2, <1>3
  <2> QED
    BY <1>10, <2>1, <2>2
<1>20. outcome' = "running"
  BY <1>1, <1>10 DEF Inv, EntriesTell
<1> QED
  BY <1>14, <1>15, <1>16, <1>17, <1>18, <1>19, <1>20 DEF EntriesTell

LEMMA InvStep == Inv /\ [Next]_vars => Inv'
<1> SUFFICES ASSUME Inv, [Next]_vars PROVE EntriesTell'
  BY TypeStep DEF Inv
<1>1. CASE UNCHANGED vars
  BY <1>1 DEF vars, Inv, EntriesTell, Used, Told, Held
<1>2. ASSUME NEW page \in PageNo, NEW size \in 1 .. NPages - page,
             CreateSegment(page, size) \/ LoadSegment(page, size)
      PROVE  EntriesTell'
  <2> SUFFICES ASSUME modest' PROVE EntriesTell'
    BY DEF EntriesTell
  <2>1. ASSUME NEW ordinal, Place(page, ordinal, size),
               ordinal = page \/ ordinal = page % LowPages
        PROVE  EntriesTell'
    <3>0. page + size <= LowPages
      BY <2>1 DEF Place, Inv, SegmentTypeOK
    <3>1. page < LowPages
      BY <3>0, WidthsAssumption DEF PageNo
    <3>2. ordinal = page
      BY <2>1, <3>1, OrdinalOfPage
    <3> QED
      BY <2>1, <3>2, PlaceTells
  <2>2. ASSUME NEW ordinal, Stray(page, ordinal, size)
        PROVE  EntriesTell'
    BY <2>2, NoStray DEF Stray
  <2> QED
    BY <1>2, <2>1, <2>2 DEF CreateSegment, LoadSegment
<1>3. ASSUME NEW page \in PageNo, DeleteSegment(page)
      PROVE  EntriesTell'
  BY <1>3, DeleteTells DEF EntriesTell
<1> QED
  BY <1>1, <1>2, <1>3 DEF Next

LEMMA InvInit == Init => Inv
<1> SUFFICES ASSUME Init PROVE EntriesTell
  BY TypeInit DEF Inv
<1>1. Used = {}
  BY DEF Init, Used
<1> QED
  BY <1>1, FS_EmptySet DEF Init, EntriesTell

\* What the invariant means for the client: the table tells what it was told.
LEMMA InvTells == Inv => TableTells
<1> SUFFICES ASSUME Inv, modest PROVE TableTells
  BY DEF TableTells
<1>1. granted = {Told(i) : i \in Used} /\ outcome = "running"
  BY DEF Inv, EntriesTell
<1>2. \A i \in Used : /\ st[i].start \in PageNo /\ st[i].length \in PageNo
                       /\ st[i].length >= 1 /\ st[i].start + st[i].length <= LowPages
  BY DEF Inv, EntriesTell, SegmentTypeOK, Used
<1>3. \A i \in Used : Covered(Told(i).first, Told(i).size) = Held(i)
  BY <1>2, CoveredPages, WidthsAssumption DEF Told, Held, PageNo
<1>4. \A i, k \in Used : i # k => Held(i) \cap Held(k) = {} /\ Told(i) # Told(k)
  <2>1. \A i \in Used : st[i].start \in Held(i)
    BY <1>2 DEF Held, Pages, PageNo
  <2> QED
    BY <1>2, <2>1 DEF Inv, EntriesTell, Told
<1>5. seg_count = Cardinality(granted)
  <2> DEFINE f == [i \in Used |-> Told(i)]
  <2>1. f \in Bijection(Used, granted)
    BY <1>1, <1>4 DEF Bijection, Injection, Surjection, IsInjective
  <2>2. Cardinality(granted) = Cardinality(Used)
    BY <2>1, UsedFinite, FS_Bijection DEF ExistsBijection
  <2> QED
    BY <2>2 DEF Inv, EntriesTell
<1>6. inseg = UNION {Covered(g.first, g.size) : g \in granted}
  <2>1. {Covered(g.first, g.size) : g \in granted} = {Held(i) : i \in Used}
    BY <1>1, <1>3
  <2> QED
    BY <2>1 DEF Inv, EntriesTell
<1>7. \A g, h \in granted :
        g # h => Covered(g.first, g.size) \cap Covered(h.first, h.size) = {}
  BY <1>1, <1>3, <1>4
<1>8. {[first |-> st[i].start, size |-> st[i].length] : i \in {i \in Entry : ~st[i].free}}
        = granted
  BY <1>1 DEF Told, Used
<1> QED
  BY <1>1, <1>5, <1>6, <1>7, <1>8 DEF TableTells

------------------------------------------------------------------------------
\* Whatever clients do, numbers keep their widths: no start page and no length has
\* more bits than a page number, and the count of the segments stays in range.
THEOREM SegmentTypes == Spec => []SegmentTypeOK
  BY TypeInit, TypeStep, PTL DEF Spec

\* A client that keeps to the low pages and deletes what it has is told the truth:
\* an entry in use for each segment it has, none over another, the flags of the
\* pages theirs, and no HALT and no entry without a value.
THEOREM ModestClient == Spec => []TableTells
<1>1. Init => Inv
  BY InvInit
<1>2. Inv /\ [Next]_vars => Inv'
  BY InvStep
<1>3. Inv => TableTells
  BY InvTells
<1> QED
  BY <1>1, <1>2, <1>3, PTL DEF Spec
=============================================================================
