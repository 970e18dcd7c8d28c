--------------------------- MODULE MutexOrderProofs ---------------------------
(***************************************************************************)
(* For any number of threads and whatever they call: the mutexes are taken *)
(* in one order, which keeps threads from waiting for each other, and data *)
(* are touched under the mutex that guards them.                           *)
(*                                                                         *)
(* The argument.  Every way through a method gives back the mutexes it     *)
(* takes, and takes only what is higher than all that is held, if it       *)
(* begins with mutexes that allow it (MayEnter, WaysFine).  So what a      *)
(* thread has left, from what it holds, runs in order (OrderInv).          *)
(***************************************************************************)
EXTENDS MutexOrder, SequenceTheorems, TLAPS

\* The ranks are small numbers.
LEMMA Ranks == \A m \in Mutexes : Rank[m] \in 1..8
  BY DEF Rank, Mutexes

\* In a group whose members all wait for each other, whoever waits for a mutex
\* waits for one that is lower than another one waited for in the group.
LEMMA Higher ==
  ASSUME Ranked, NEW S \in SUBSET Threads,
         \A t \in S : Waits(t) /\ owner[Arg(t)] \in S,
         NEW t \in S
  PROVE  \E u \in S : Rank[Arg(t)] < Rank[Arg(u)]
<1> DEFINE u == owner[Arg(t)]
<1>1. u \in S /\ Arg(t) \in Mutexes
  BY DEF Waits
<1>2. Waits(u)
  BY <1>1
<1>3. Wants(u)
  BY <1>2 DEF Waits, Wants, Free
<1>4. Rank[Arg(t)] < Rank[Arg(u)]
  BY <1>1, <1>3 DEF Ranked
<1> QED
  BY <1>1, <1>4

\* If every mutex is taken in the order of the ranks, no threads wait for each
\* other: the highest mutex they wait for would have to be lower than another.
THEOREM OrderedNoDeadlock == Ranked => NoDeadlock
<1> SUFFICES ASSUME Ranked, NEW S \in (SUBSET Threads) \ {{}},
                    \A t \in S : Waits(t) /\ owner[Arg(t)] \in S
             PROVE  FALSE
  BY DEF NoDeadlock
<1> DEFINE Below(n) == \A t \in S : Rank[Arg(t)] < n
<1>1. \A t \in S : Rank[Arg(t)] \in 1..8
  BY Ranks DEF Waits
<1>2. \A t \in S : \E u \in S : Rank[Arg(t)] < Rank[Arg(u)]
  BY Higher
<1> HIDE DEF Below
<1>3. \A n \in 1..7 : Below(n + 1) => Below(n)
  <2> SUFFICES ASSUME NEW n \in 1..7, Below(n + 1), NEW t \in S
               PROVE  Rank[Arg(t)] < n
    BY DEF Below
  <2>1. PICK u \in S : Rank[Arg(t)] < Rank[Arg(u)]
    BY <1>2
  <2>2. Rank[Arg(u)] < n + 1
    BY DEF Below
  <2> QED
    BY <1>1, <2>1, <2>2
<1>4. Below(8)
  BY <1>1, <1>2 DEF Below
<1>5. Below(5)
  <2>1. Below(7)
    BY <1>3, <1>4
  <2>2. Below(6)
    BY <1>3, <2>1
  <2> QED
    BY <1>3, <2>2
<1>6. Below(3)
  <2>1. Below(4)
    BY <1>3, <1>5
  <2> QED
    BY <1>3, <2>1
<1>7. Below(1)
  <2>1. Below(2)
    BY <1>3, <1>6
  <2> QED
    BY <1>3, <2>1
<1> QED
  BY <1>1, <1>7 DEF Below

------------------------------------------------------------------------------
(* Ways through methods, by the mutexes held on the way.                   *)

\* How often a thread has locked each mutex.
Depths == [Mutexes -> Nat]

NoneHeld == [m \in Mutexes |-> 0]

Plus(g, m) == [g EXCEPT ![m] = @ + 1]

\* Every mutex held is below m.
Under(g, m) == \A k \in Mutexes : g[k] > 0 => Rank[k] < Rank[m]

\* Mutex m may be locked: it is held, or higher than every mutex that is.
May(g, m) == g[m] > 0 \/ Under(g, m)

\* Whether a way may begin a call of f; what the methods of each kind rely on.
MayEnter(f, g) ==
  LET kernel == "kernel" \in small
      frames == Under(g, "kslst") /\ (g["usft"] > 0 => g["uslst"] > 0)
  IN  \/ f \in {"access", "access_to_dummy"} /\ Under(g, "sseg")
      \/ /\ f \in {"page_fault", "page_fault_of_dummy", "get_pa", "create_segment",
                   "create_pages", "delete_segment", "delete_segments", "create_process",
                   "delete_process", "create_shared_segment", "disconnect_shared_segment",
                   "delete_shared_segment"}
         /\ Under(g, "pcbvec")
      \/ f \in {"load_segment", "load_pages", "clone_process"} /\ ~kernel /\ Under(g, "pcbvec")
      \/ /\ f \in {"master_table_lock", "page_table_lock", "ks_acquire_page",
                   "ks_request_page"}
         /\ Under(g, "kslst")
      \/ f \in {"us_acquire_page", "clone_segments"} /\ ~kernel /\ frames
      \/ f = "us_acquire_page" /\ kernel /\ Under(g, "usft")
      \/ f = "ks_swap_out" /\ kernel /\ Under(g, "ksft") /\ g["kslst"] > 0
      \/ f = "page_table_evict_children" /\ kernel /\ Under(g, "usft")
      \/ /\ f = "master_table_evict_children" /\ kernel /\ Under(g, "usft")
         /\ g["kslst"] > 0 /\ g["ksft"] > 0

Methods ==
  Public \cup
  {"ks_acquire_page", "ks_request_page", "ks_swap_out", "us_acquire_page",
   "page_table_evict_children", "master_table_evict_children", "master_table_lock",
   "page_table_lock", "page_fault_of_dummy", "access_to_dummy", "create_pages",
   "load_pages", "delete_segments", "clone_segments"}

Instructions ==
  [op : {"call", "lock", "unlock", "touch"}, arg : Methods \cup Mutexes \cup Data]
    \cup [op : {"section"}, arg : Mutexes, data : Data]

\* Instruction x leads from g to h, and takes no mutex out of order.
Fits(x, g, h) ==
  \/ x.op = "lock" /\ x.arg \in Mutexes /\ May(g, x.arg) /\ h = Plus(g, x.arg)
  \/ x.op = "unlock" /\ x.arg \in Mutexes /\ g = Plus(h, x.arg)
  \/ /\ x.op = "section" /\ x.arg \in Mutexes /\ May(g, x.arg) /\ h = g
     /\ x.data \in Guarded => x.arg = Guard[x.data]
  \/ /\ x.op = "touch" /\ h = g
     /\ x.arg \in Guarded => g[Guard[x.arg]] > 0
  \/ x.op = "call" /\ h = g /\ MayEnter(x.arg, g)

\* The bags b are held along w.
Along(w, b) ==
  /\ b \in [1 .. Len(w) + 1 -> Depths]
  /\ \A i \in 1 .. Len(w) : Fits(w[i], b[i], b[i + 1])

\* A thread with g that does w has h in the end.
Runs(w, g, h) ==
  /\ w \in Seq(Instructions)
  /\ \E b \in [1 .. Len(w) + 1 -> Depths] : Along(w, b) /\ b[1] = g /\ b[Len(w) + 1] = h

LEMMA RunsEmpty == \A g, h \in Depths : Runs(<<>>, g, h) <=> g = h
<1> SUFFICES ASSUME NEW g \in Depths, NEW h \in Depths
             PROVE  Runs(<<>>, g, h) <=> g = h
  OBVIOUS
<1>0. <<>> \in Seq(Instructions) /\ Len(<<>>) = 0
  BY EmptySeq
<1>1. ASSUME Runs(<<>>, g, h) PROVE g = h
  BY <1>0, <1>1 DEF Runs
<1>2. ASSUME g = h PROVE Runs(<<>>, g, h)
  <2> DEFINE b == [i \in 1 .. 1 |-> g]
  <2>1. b \in [1 .. 1 -> Depths] /\ b[1] = g
    OBVIOUS
  <2>2. Along(<<>>, b)
    BY <1>0, <2>1 DEF Along
  <2> QED
    BY <1>0, <1>2, <2>1, <2>2 DEF Runs
<1> QED
  BY <1>1, <1>2

LEMMA RunsOne ==
  ASSUME NEW x \in Instructions, NEW g \in Depths, NEW h \in Depths, Fits(x, g, h)
  PROVE  Runs(<<x>>, g, h)
<1> DEFINE b == [i \in 1 .. 2 |-> IF i = 1 THEN g ELSE h]
<1>1. <<x>> \in Seq(Instructions) /\ Len(<<x>>) = 1 /\ <<x>>[1] = x
  OBVIOUS
<1>2. b \in [1 .. 2 -> Depths] /\ b[1] = g /\ b[2] = h
  OBVIOUS
<1> HIDE DEF b
<1>3. Along(<<x>>, b)
  BY <1>1, <1>2 DEF Along
<1> QED
  BY <1>1, <1>2, <1>3 DEF Runs

\* One way after another.
LEMMA RunsThen ==
  ASSUME NEW v, NEW w, NEW f \in Depths, NEW g \in Depths, NEW h \in Depths,
         Runs(v, f, g), Runs(w, g, h)
  PROVE  Runs(v \o w, f, h)
<1>1. v \in Seq(Instructions) /\ w \in Seq(Instructions)
  BY DEF Runs
<1>2. PICK n, m \in Nat : n = Len(v) /\ m = Len(w)
  BY <1>1
<1>3. PICK c \in [1 .. n + 1 -> Depths] : Along(v, c) /\ c[1] = f /\ c[n + 1] = g
  BY <1>2 DEF Runs
<1>4. PICK d \in [1 .. m + 1 -> Depths] : Along(w, d) /\ d[1] = g /\ d[m + 1] = h
  BY <1>2 DEF Runs
<1>5. /\ v \o w \in Seq(Instructions)
      /\ Len(v \o w) = n + m
      /\ \A i \in 1 .. n + m : (v \o w)[i] = IF i <= n THEN v[i] ELSE w[i - n]
  BY <1>1, <1>2, ConcatProperties
<1> DEFINE b == [i \in 1 .. n + m + 1 |-> IF i <= n THEN c[i] ELSE d[i - n]]
<1>6. b \in [1 .. n + m + 1 -> Depths]
  <2> SUFFICES ASSUME NEW i \in 1 .. n + m + 1
               PROVE  (IF i <= n THEN c[i] ELSE d[i - n]) \in Depths
    OBVIOUS
  <2>1. CASE i <= n
    BY <1>3, <2>1
  <2>2. CASE ~(i <= n)
    <3>1. i - n \in 1 .. m + 1
      BY <2>2
    <3> QED
      BY <1>4, <2>2, <3>1
  <2> QED
    BY <2>1, <2>2
<1>7. \A i \in 1 .. n + m + 1 : b[i] = IF i <= n THEN c[i] ELSE d[i - n]
  OBVIOUS
<1> HIDE DEF b
<1>8. b[1] = f /\ b[n + m + 1] = h /\ \A i \in 1 .. n + 1 : b[i] = c[i]
  <2>1. \A i \in 1 .. n + 1 : b[i] = c[i]
    BY <1>3, <1>4, <1>7
  <2> QED
    BY <1>3, <1>4, <1>7, <2>1
<1>9. ASSUME NEW i \in 1 .. n + m PROVE Fits((v \o w)[i], b[i], b[i + 1])
  <2>1. CASE i <= n
    <3>1. b[i] = c[i] /\ b[i + 1] = c[i + 1]
      BY <1>8, <2>1
    <3>2. (v \o w)[i] = v[i]
      BY <1>5, <2>1
    <3> QED
      BY <1>2, <1>3, <2>1, <3>1, <3>2 DEF Along
  <2>2. CASE ~(i <= n)
    <3>1. i - n \in 1 .. m /\ i + 1 - n = (i - n) + 1
      BY <2>2
    <3>2. i \in 1 .. n + m + 1 /\ i + 1 \in 1 .. n + m + 1 /\ ~(i + 1 <= n)
      BY <2>2
    <3>3. b[i] = d[i - n] /\ b[i + 1] = d[i + 1 - n]
      BY <1>7, <2>2, <3>2
    <3>4. (v \o w)[i] = w[i - n]
      BY <1>5, <2>2
    <3> QED
      BY <1>2, <1>4, <3>1, <3>3, <3>4 DEF Along
  <2> QED
    BY <2>1, <2>2
<1>10. Along(v \o w, b)
  BY <1>5, <1>6, <1>9 DEF Along
<1> QED
  BY <1>5, <1>6, <1>8, <1>10 DEF Runs

\* What is left after the first instruction.
LEMMA RunsRest ==
  ASSUME NEW w, w # <<>>, NEW g \in Depths, NEW h \in Depths, Runs(w, g, h)
  PROVE  /\ w[1] \in Instructions
         /\ \E e \in Depths : Fits(w[1], g, e) /\ Runs(Tail(w), e, h)
<1>1. w \in Seq(Instructions)
  BY DEF Runs
<1>2. PICK n \in Nat : Len(w) = n + 1
  <2>1. Len(w) \in Nat \ {0}
    BY <1>1, EmptySeq
  <2>2. Len(w) = (Len(w) - 1) + 1 /\ Len(w) - 1 \in Nat
    BY <2>1
  <2> QED
    BY <2>2
<1>3. PICK b \in [1 .. n + 2 -> Depths] : Along(w, b) /\ b[1] = g /\ b[n + 2] = h
  <2>1. (n + 1) + 1 = n + 2
    OBVIOUS
  <2> QED
    BY <1>2, <2>1 DEF Runs
<1>4. /\ w[1] \in Instructions
      /\ Tail(w) \in Seq(Instructions)
      /\ Len(Tail(w)) = n
      /\ \A i \in 1 .. n : Tail(w)[i] = w[i + 1]
  BY <1>1, <1>2, HeadTailProperties, ElementOfSeq
<1> DEFINE c == [i \in 1 .. n + 1 |-> b[i + 1]]
<1>5. c \in [1 .. n + 1 -> Depths] /\ \A i \in 1 .. n + 1 : c[i] = b[i + 1]
  OBVIOUS
<1> HIDE DEF c
<1>6. c[1] = b[2] /\ c[n + 1] = h /\ b[2] \in Depths
  BY <1>3, <1>5
<1>7. Fits(w[1], g, b[2])
  BY <1>2, <1>3 DEF Along
<1>8. ASSUME NEW i \in 1 .. n PROVE Fits(Tail(w)[i], c[i], c[i + 1])
  <2>1. i + 1 \in 1 .. n + 1 /\ i \in 1 .. n + 1
    OBVIOUS
  <2>2. Fits(w[i + 1], b[i + 1], b[(i + 1) + 1])
    BY <1>2, <1>3, <2>1 DEF Along
  <2>3. c[i] = b[i + 1] /\ c[i + 1] = b[(i + 1) + 1]
    BY <1>5, <2>1
  <2> QED
    BY <1>4, <2>2, <2>3
<1>9. Along(Tail(w), c)
  BY <1>4, <1>5, <1>8 DEF Along
<1>10. Runs(Tail(w), b[2], h)
  BY <1>4, <1>5, <1>6, <1>9 DEF Runs
<1> QED
  BY <1>4, <1>6, <1>7, <1>10

\* Every way of W gives back what it takes, in order.
Fine(W, g) == \A w \in W : Runs(w, g, g)

LEMMA PlusType ==
  ASSUME NEW g \in Depths, NEW m \in Mutexes
  PROVE  /\ Plus(g, m) \in Depths
         /\ \A k \in Mutexes : Plus(g, m)[k] = IF k = m THEN g[k] + 1 ELSE g[k]
BY DEF Plus, Depths

LEMMA FineNothing == \A g \in Depths : Fine(Nothing, g)
BY RunsEmpty DEF Fine, Nothing

LEMMA FineUnion ==
  ASSUME NEW g \in Depths, NEW V, NEW W, Fine(V, g), Fine(W, g)
  PROVE  Fine(V \cup W, g)
BY DEF Fine

LEMMA FineMaybe ==
  ASSUME NEW g \in Depths, NEW W, Fine(W, g)
  PROVE  Fine(Maybe(W), g)
BY FineNothing DEF Fine, Maybe

LEMMA FineThen ==
  ASSUME NEW g \in Depths, NEW V, NEW W, Fine(V, g), Fine(W, g)
  PROVE  Fine(Then(V, W), g)
<1> SUFFICES ASSUME NEW x \in Then(V, W)
             PROVE  Runs(x, g, g)
  BY DEF Fine
<1>1. PICK v \in V, w \in W : x = v \o w
  BY DEF Then
<1>2. Runs(v, g, g) /\ Runs(w, g, g)
  BY DEF Fine
<1> QED
  BY <1>1, <1>2, RunsThen

LEMMA FineWithin ==
  ASSUME NEW g \in Depths, NEW m \in Mutexes, NEW W, May(g, m), Fine(W, Plus(g, m))
  PROVE  Fine(Within(m, W), g)
<1> SUFFICES ASSUME NEW w \in W
             PROVE  Runs(<<Lock(m)>> \o w \o <<Unlock(m)>>, g, g)
  BY DEF Fine, Within
<1>1. Plus(g, m) \in Depths
  BY PlusType
<1>2. Lock(m) \in Instructions /\ Unlock(m) \in Instructions
  BY DEF Lock, Unlock, Instructions
<1>3. Fits(Lock(m), g, Plus(g, m)) /\ Fits(Unlock(m), Plus(g, m), g)
  BY DEF Fits, Lock, Unlock
<1>4. Runs(<<Lock(m)>>, g, Plus(g, m)) /\ Runs(<<Unlock(m)>>, Plus(g, m), g)
  BY <1>1, <1>2, <1>3, RunsOne
<1>5. Runs(w, Plus(g, m), Plus(g, m))
  BY DEF Fine
<1>6. Runs(<<Lock(m)>> \o w, g, Plus(g, m))
  BY <1>1, <1>4, <1>5, RunsThen
<1> QED
  BY <1>1, <1>4, <1>6, RunsThen

LEMMA FineSection ==
  ASSUME NEW g \in Depths, NEW m \in Mutexes, NEW d \in Data, May(g, m),
         d \in Guarded => m = Guard[d]
  PROVE  Fine(Section(m, d), g)
<1> DEFINE x == [op |-> "section", arg |-> m, data |-> d]
<1>1. x \in Instructions
  BY DEF Instructions
<1>2. Fits(x, g, g)
  BY DEF Fits
<1>3. Runs(<<x>>, g, g)
  BY <1>1, <1>2, RunsOne
<1> QED
  BY <1>3 DEF Fine, Section

LEMMA FineTouch ==
  ASSUME NEW g \in Depths, NEW d \in Data, d \in Guarded => g[Guard[d]] > 0
  PROVE  Fine(Touch(d), g)
<1> DEFINE x == [op |-> "touch", arg |-> d]
<1>1. x \in Instructions
  BY DEF Instructions
<1>2. Fits(x, g, g)
  BY DEF Fits
<1>3. Runs(<<x>>, g, g)
  BY <1>1, <1>2, RunsOne
<1> QED
  BY <1>3 DEF Fine, Touch

LEMMA FineDo ==
  ASSUME NEW g \in Depths, NEW f \in Methods, MayEnter(f, g)
  PROVE  Fine(Do(f), g)
<1>1. Call(f) \in Instructions
  BY DEF Call, Instructions
<1>2. Fits(Call(f), g, g)
  BY DEF Fits, Call
<1>3. Runs(<<Call(f)>>, g, g)
  BY <1>1, <1>2, RunsOne
<1> QED
  BY <1>3 DEF Fine, Do

LEMMA FineLoop ==
  ASSUME NEW g \in Depths, NEW W, NEW f \in Methods, Fine(W, g), MayEnter(f, g)
  PROVE  Fine(Loop(W, f), g)
BY FineMaybe, FineThen, FineDo DEF Loop

------------------------------------------------------------------------------
(* Which mutexes may be taken.                                             *)

\* The ranks, one by one.
LEMMA RankOf ==
  /\ Rank["databus"] = 1 /\ Rank["sseg"] = 2 /\ Rank["pcbvec"] = 3 /\ Rank["dvt"] = 8
  /\ "kernel" \in small => /\ Rank["kslst"] = 4 /\ Rank["ksft"] = 5
                           /\ Rank["usft"] = 6 /\ Rank["uslst"] = 7
  /\ "kernel" \notin small => /\ Rank["uslst"] = 4 /\ Rank["usft"] = 5
                              /\ Rank["kslst"] = 6 /\ Rank["ksft"] = 7
BY DEF Rank

LEMMA GuardOf ==
  /\ Guard["us_empty"] = "uslst" /\ Guard["ks_empty"] = "kslst" /\ Guard["us_ft"] = "usft"
  /\ Guard["ks_ft"] = "ksft" /\ Guard["dvt"] = "dvt" /\ Guard["sseg_map"] = "sseg"
BY DEF Guard

\* Below a mutex one is also below a higher one.
LEMMA UnderHigher ==
  ASSUME NEW g \in Depths, NEW l \in Mutexes, NEW m \in Mutexes,
         Under(g, l), Rank[l] <= Rank[m]
  PROVE  Under(g, m) /\ May(g, m)
BY Ranks DEF Under, May

LEMMA UnderPlus ==
  ASSUME NEW g \in Depths, NEW l \in Mutexes, NEW m \in Mutexes,
         Under(g, l), Rank[m] < Rank[l]
  PROVE  Under(Plus(g, m), l) /\ Plus(g, m)[m] > 0 /\ May(Plus(g, m), m)
BY Ranks, PlusType DEF Under, May, Depths

LEMMA Known ==
  /\ {"databus", "sseg", "pcbvec", "uslst", "usft", "kslst", "ksft", "dvt"} = Mutexes
  /\ {"us_empty", "ks_empty", "us_ft", "ks_ft", "ot", "dvt", "sseg_map",
      "sseg_vec", "pcb_vec", "rng"} = Data
BY DEF Mutexes, Data

------------------------------------------------------------------------------
(* Methods of KernelSystem.                                                *)

LEMMA Sections ==
  ASSUME NEW g \in Depths
  PROVE  /\ May(g, "dvt") => Fine(DvtMark, g) /\ Fine(DvtAcquireCluster, g)
         /\ May(g, "ksft") => Fine(KsLockPage, g) /\ Fine(KsUnlockPage, g) /\ Fine(KsFtUpdate, g)
         /\ May(g, "kslst") => Fine(KsFreePage, g)
         /\ May(g, "usft") => Fine(UsFtUpdate, g) /\ Fine(Section("usft", "us_ft"), g)
         /\ May(g, "uslst") => Fine(UsFreePage, g)
         /\ May(g, "pcbvec") => Fine(Section("pcbvec", "pcb_vec"), g)
         /\ May(g, "sseg") => /\ Fine(Section("sseg", "sseg_map"), g)
                              /\ Fine(Section("sseg", "sseg_vec"), g)
<1>1. May(g, "dvt") => Fine(Section("dvt", "dvt"), g)
  BY FineSection, Known, GuardOf
<1>2. May(g, "ksft") => Fine(Section("ksft", "ks_ft"), g)
  BY FineSection, Known, GuardOf
<1>3. May(g, "kslst") => Fine(Section("kslst", "ks_empty"), g)
  BY FineSection, Known, GuardOf
<1>4. May(g, "usft") => Fine(Section("usft", "us_ft"), g)
  BY FineSection, Known, GuardOf
<1>5. May(g, "uslst") => Fine(Section("uslst", "us_empty"), g)
  BY FineSection, Known, GuardOf
<1>6. May(g, "pcbvec") => Fine(Section("pcbvec", "pcb_vec"), g)
  BY FineSection, Known DEF Guarded
<1>7. May(g, "sseg") => Fine(Section("sseg", "sseg_map"), g)
  BY FineSection, Known, GuardOf
<1>8. May(g, "sseg") => Fine(Section("sseg", "sseg_vec"), g)
  BY FineSection, Known DEF Guarded
<1> QED
  BY <1>1, <1>2, <1>3, <1>4, <1>5, <1>6, <1>7, <1>8
     DEF DvtMark, DvtAcquireCluster, KsLockPage, KsUnlockPage, KsFtUpdate, KsFreePage,
         UsFtUpdate, UsFreePage

LEMMA Touched ==
  ASSUME NEW g \in Depths
  PROVE  /\ g["kslst"] > 0 => Fine(Touch("ks_empty"), g)
         /\ g["uslst"] > 0 => Fine(Touch("us_empty"), g)
         /\ g["usft"] > 0 => Fine(Touch("us_ft"), g)
         /\ g["ksft"] > 0 => Fine(Touch("ks_ft"), g)
         /\ g["sseg"] > 0 => Fine(Touch("sseg_map"), g)
         /\ Fine(Touch("rng"), g) /\ Fine(Touch("ot"), g) /\ Fine(Touch("pcb_vec"), g)
         /\ Fine(Touch("sseg_vec"), g)
<1>1. g["kslst"] > 0 => Fine(Touch("ks_empty"), g)
  BY FineTouch, Known, GuardOf
<1>2. g["uslst"] > 0 => Fine(Touch("us_empty"), g)
  BY FineTouch, Known, GuardOf
<1>3. g["usft"] > 0 => Fine(Touch("us_ft"), g)
  BY FineTouch, Known, GuardOf
<1>4. g["ksft"] > 0 => Fine(Touch("ks_ft"), g)
  BY FineTouch, Known, GuardOf
<1>5. g["sseg"] > 0 => Fine(Touch("sseg_map"), g)
  BY FineTouch, Known, GuardOf
<1>6. \A d \in {"rng", "ot", "pcb_vec", "sseg_vec"} : d \in Data \ Guarded
  BY Known DEF Guarded
<1>7. Fine(Touch("rng"), g) /\ Fine(Touch("ot"), g) /\ Fine(Touch("pcb_vec"), g)
      /\ Fine(Touch("sseg_vec"), g)
  BY <1>6, FineTouch
<1> QED
  BY <1>1, <1>2, <1>3, <1>4, <1>5, <1>7

\* us_swap_out, wherever mutex_usft and then mutex_uslst may be taken.
LEMMA UsSwapOutFine ==
  ASSUME NEW g \in Depths, May(g, "usft"), Under(g, "dvt"),
         May(Plus(g, "usft"), "uslst")
  PROVE  Fine(UsSwapOut, g)
<1> DEFINE h == Plus(g, "usft")
<1>1. h \in Depths /\ h["usft"] > 0 /\ May(h, "dvt")
  BY PlusType, UnderPlus, RankOf, Ranks, Known DEF May
<1> HIDE DEF h
<1>2. Fine(DvtAcquireCluster, h) /\ Fine(Touch("us_ft"), h) /\ Fine(UsFreePage, h)
  BY <1>1, Sections, Touched DEF h
<1>3. Fine(Then(Maybe(DvtAcquireCluster), Then(Touch("us_ft"), UsFreePage)), h)
  BY <1>1, <1>2, FineMaybe, FineThen
<1> QED
  BY <1>3, FineWithin, Known DEF UsSwapOut, h

\* us_get_victim.
LEMMA UsGetVictimFine ==
  ASSUME NEW g \in Depths, May(g, "usft")
  PROVE  Fine(UsGetVictim, g)
<1> DEFINE h == Plus(g, "usft")
<1>1. h \in Depths /\ h["usft"] > 0
  BY PlusType, Known DEF Depths
<1> HIDE DEF h
<1>2. Fine(Touch("rng"), h) /\ Fine(Touch("us_ft"), h) /\ Fine(Touch("ot"), h)
  BY <1>1, Touched
<1>3. Fine(Then(Touch("rng"), Then(Touch("us_ft"), Touch("ot"))), h)
  BY <1>1, <1>2, FineThen
<1> QED
  BY <1>3, FineWithin, Known DEF UsGetVictim, h

\* ks_swap_out while the kernel space is too small and mutex_kslst is held.
LEMMA KsSwapOutFine ==
  ASSUME NEW g \in Depths, "kernel" \in small, Under(g, "usft"), May(g, "ksft"),
         g["kslst"] > 0,
         NEW children \in {"page_table_evict_children", "master_table_evict_children"}
  PROVE  Fine(KsSwapOut(children), g)
<1> DEFINE h == Plus(g, "ksft")
<1>0. Rank["ksft"] < Rank["usft"]
  BY RankOf
<1>1. h \in Depths /\ Under(h, "usft") /\ h["ksft"] > 0 /\ h["kslst"] > 0
  <2>1. h \in Depths /\ h["kslst"] > 0
    BY PlusType, Known
  <2>2. Under(h, "usft") /\ h["ksft"] > 0
    BY <1>0, UnderPlus, Known
  <2> QED
    BY <2>1, <2>2
<1> HIDE DEF h
<1>2. May(h, "dvt") /\ May(h, "kslst")
  BY <1>1, UnderHigher, RankOf, Known DEF May
<1>3. MayEnter(children, h) /\ children \in Methods
  BY <1>1 DEF MayEnter, Methods
<1>4. Fine(DvtAcquireCluster, h) /\ Fine(Touch("ks_ft"), h) /\ Fine(KsFreePage, h)
      /\ Fine(Do(children), h)
  BY <1>1, <1>2, <1>3, Sections, Touched, FineDo
<1>5. Fine(Then(Maybe(DvtAcquireCluster),
                Then(Do(children), Then(Touch("ks_ft"), KsFreePage))), h)
  BY <1>1, <1>4, FineMaybe, FineThen
<1> QED
  BY <1>5, FineWithin, Known DEF KsSwapOut, h

\* ks_acquire_page.
LEMMA KsAcquirePageFine ==
  ASSUME NEW g \in Depths, Under(g, "kslst")
  PROVE  Fine(KsAcquirePage, g)
<1> DEFINE h == Plus(g, "kslst")
           k == Plus(h, "ksft")
           evict == Then(KsGetVictim, Then(Do("ks_swap_out"), Touch("ks_empty")))
<1>0. Rank["kslst"] < Rank["ksft"]
  BY RankOf
<1>1. May(g, "kslst") /\ May(g, "ksft") /\ Under(g, "ksft")
  BY <1>0, UnderHigher, Known, Ranks
<1>2. h \in Depths /\ Under(h, "ksft") /\ h["kslst"] > 0 /\ May(h, "ksft")
  BY <1>0, <1>1, PlusType, UnderPlus, Known DEF May
<1> HIDE DEF h
<1>3. k \in Depths /\ k["ksft"] > 0
  BY <1>2, PlusType, Known DEF Depths
<1> HIDE DEF k
<1>4. Fine(KsGetVictim, h)
  <2>1. Fine(Then(Touch("rng"), Touch("ks_ft")), k)
    BY <1>3, Touched, FineThen
  <2> QED
    BY <1>2, <2>1, FineWithin, Known DEF KsGetVictim, k
<1>5. Fine(Touch("ks_empty"), h)
  BY <1>2, Touched
<1>6. "kernel" \in small => Fine(evict, h)
  <2>1. "kernel" \in small => MayEnter("ks_swap_out", h)
    BY <1>2 DEF MayEnter
  <2>2. "kernel" \in small => Fine(Do("ks_swap_out"), h)
    BY <1>2, <2>1, FineDo DEF Methods
  <2> QED
    BY <1>2, <1>4, <1>5, <2>2, FineThen
<1>7. Fine(IF "kernel" \in small THEN Maybe(evict) ELSE Nothing, h)
  BY <1>2, <1>6, FineMaybe, FineNothing
<1> HIDE DEF evict
<1>8. Fine(Then(Touch("ks_empty"), IF "kernel" \in small THEN Maybe(evict) ELSE Nothing), h)
  BY <1>2, <1>5, <1>7, FineThen
<1>9. Fine(Within("kslst", Then(Touch("ks_empty"),
                                IF "kernel" \in small THEN Maybe(evict) ELSE Nothing)), g)
  BY <1>1, <1>8, FineWithin, Known DEF h
<1>10. Fine(KsFtUpdate, g)
  BY <1>1, Sections
<1> QED
  BY <1>9, <1>10, FineThen DEF KsAcquirePage, evict

\* What the calls on user frames rely on while the kernel space is big enough.
LEMMA FramesFree ==
  ASSUME NEW g \in Depths, "kernel" \notin small, Under(g, "kslst"),
         g["usft"] > 0 => g["uslst"] > 0
  PROVE  /\ May(g, "uslst") /\ May(g, "usft")
         /\ \A h \in {Plus(g, "uslst"), Plus(Plus(g, "uslst"), "usft")} :
              /\ h \in Depths /\ Under(h, "kslst") /\ h["uslst"] > 0 /\ May(h, "usft")
         /\ Plus(Plus(g, "uslst"), "usft")["usft"] > 0
<1>0. /\ Rank["uslst"] = 4 /\ Rank["usft"] = 5 /\ Rank["kslst"] = 6 /\ Rank["ksft"] = 7
      /\ Rank["dvt"] = 8 /\ Rank["databus"] = 1 /\ Rank["sseg"] = 2 /\ Rank["pcbvec"] = 3
  BY RankOf
<1>1. g["kslst"] = 0 /\ g["ksft"] = 0 /\ g["dvt"] = 0
  BY <1>0, Known DEF Under, Depths
<1>2. g["usft"] = 0 => Under(g, "usft")
  BY <1>0, <1>1, Known DEF Under, Depths, Mutexes
<1>3. g["uslst"] = 0 => Under(g, "uslst")
  BY <1>0, <1>1, Known DEF Under, Depths, Mutexes
<1>4. May(g, "uslst") /\ May(g, "usft")
  BY <1>2, <1>3, Known DEF May, Depths
<1> DEFINE h == Plus(g, "uslst")
           k == Plus(h, "usft")
<1>5. h \in Depths /\ Under(h, "kslst") /\ h["uslst"] > 0
  BY <1>0, PlusType, UnderPlus, Known
<1>6. \A m \in Mutexes : h[m] = IF m = "uslst" THEN g[m] + 1 ELSE g[m]
  BY PlusType, Known
<1> HIDE DEF h
<1>7. May(h, "usft")
  <2>1. CASE g["usft"] = 0
    <3>1. Under(h, "usft")
      BY <1>0, <1>1, <1>6, <2>1, Known DEF Under, Depths, Mutexes
    <3> QED
      BY <3>1 DEF May
  <2>2. CASE g["usft"] # 0
    <3>1. h["usft"] = g["usft"] /\ g["usft"] > 0
      BY <1>6, <2>2, Known DEF Depths
    <3> QED
      BY <3>1 DEF May
  <2> QED
    BY <2>1, <2>2
<1>8. k \in Depths /\ Under(k, "kslst") /\ k["usft"] > 0 /\ May(k, "usft")
  BY <1>0, <1>5, PlusType, UnderPlus, Known
<1>9. k["uslst"] > 0
  BY <1>5, PlusType, Known
<1> HIDE DEF k
<1>10. \A x \in {h, k} : x \in Depths /\ Under(x, "kslst") /\ x["uslst"] > 0 /\ May(x, "usft")
  BY <1>5, <1>7, <1>8, <1>9
<1> QED
  BY <1>4, <1>8, <1>10 DEF h, k

\* us_acquire_page; at most one space is too small.
LEMMA UsAcquirePageFine ==
  ASSUME NEW g \in Depths, MayEnter("us_acquire_page", g),
         ~("user" \in small /\ "kernel" \in small)
  PROVE  Fine(UsAcquirePage, g)
<1> DEFINE h == Plus(g, "uslst")
           evict == Then(UsGetVictim, Then(UsSwapOut, Touch("us_empty")))
           inner == IF "user" \in small THEN Maybe(evict) ELSE Nothing
<1>1. h \in Depths /\ h["uslst"] > 0 /\ May(g, "uslst") /\ May(g, "usft")
  <2>1. CASE "kernel" \in small
    <3>1. Under(g, "usft") /\ Rank["usft"] < Rank["uslst"]
      BY <2>1, RankOf DEF MayEnter
    <3>2. May(g, "uslst") /\ May(g, "usft")
      BY <3>1, UnderHigher, Known, Ranks
    <3> QED
      BY <3>2, PlusType, Known DEF Depths
  <2>2. CASE "kernel" \notin small
    BY <2>2, FramesFree DEF MayEnter
  <2> QED
    BY <2>1, <2>2
<1>2. "user" \in small => Under(h, "kslst") /\ May(h, "usft") /\ Under(h, "dvt")
  <2>1. "user" \in small => Under(h, "kslst") /\ May(h, "usft")
    BY FramesFree DEF MayEnter
  <2>2. Rank["kslst"] <= Rank["dvt"]
    BY RankOf
  <2> QED
    BY <1>1, <2>1, <2>2, UnderHigher, Known
<1> HIDE DEF h
<1>3. Fine(Touch("us_empty"), h)
  BY <1>1, Touched
<1>4. "user" \in small => Fine(evict, h)
  <2>1. May(Plus(h, "usft"), "uslst")
    BY <1>1, PlusType, Known DEF May
  <2>2. "user" \in small => Fine(UsGetVictim, h) /\ Fine(UsSwapOut, h)
    BY <1>1, <1>2, <2>1, UsGetVictimFine, UsSwapOutFine
  <2> QED
    BY <1>1, <1>3, <2>2, FineThen
<1> HIDE DEF evict
<1>5. Fine(inner, h)
  BY <1>1, <1>4, FineMaybe, FineNothing
<1> HIDE DEF inner
<1>6. Fine(Within("uslst", Then(Touch("us_empty"), inner)), g)
  <2>1. Fine(Then(Touch("us_empty"), inner), h)
    BY <1>1, <1>3, <1>5, FineThen
  <2> QED
    BY <1>1, <2>1, FineWithin, Known DEF h
<1>7. Fine(UsFtUpdate, g)
  BY <1>1, Sections
<1> QED
  BY <1>6, <1>7, FineThen DEF UsAcquirePage, inner, evict

\* us_load_page and us_clone_page have mutex_uslst and mutex_usft all the time.
LEMMA UsLoadPageFine ==
  ASSUME NEW g \in Depths, "kernel" \notin small, Under(g, "kslst"),
         g["usft"] > 0 => g["uslst"] > 0
  PROVE  Fine(UsLoadPage, g) /\ Fine(UsClonePage, g)
<1> DEFINE h == Plus(g, "uslst")
           k == Plus(h, "usft")
<1>1. May(g, "uslst") /\ May(h, "usft") /\ h \in Depths /\ k \in Depths
      /\ Under(k, "kslst") /\ k["uslst"] > 0
  BY FramesFree
<1> HIDE DEF h, k
<1>2. MayEnter("us_acquire_page", k) /\ "us_acquire_page" \in Methods
  BY <1>1 DEF MayEnter, Methods
<1>3. Fine(Then(Do("us_acquire_page"), Touch("ot")), k)
  BY <1>1, <1>2, FineDo, Touched, FineThen
<1>4. Fine(Within("usft", Then(Do("us_acquire_page"), Touch("ot"))), h)
  BY <1>1, <1>3, FineWithin, Known DEF k
<1>5. Fine(Within("uslst", Within("usft", Then(Do("us_acquire_page"), Touch("ot")))), g)
  BY <1>1, <1>4, FineWithin, Known DEF h
<1> QED
  BY <1>5 DEF UsLoadPage, UsClonePage

\* us_request_page.
LEMMA UsRequestPageFine ==
  ASSUME NEW g \in Depths, MayEnter("us_acquire_page", g)
  PROVE  Fine(UsRequestPage, g)
BY FineDo, Touched, FineThen DEF UsRequestPage, Methods

\* us_evict_page and us_relinquish_page.
LEMMA UsEvictPageFine ==
  ASSUME NEW g \in Depths, "kernel" \in small, Under(g, "usft")
  PROVE  Fine(UsEvictPage, g)
<1>0. Rank["usft"] < Rank["uslst"] /\ Rank["uslst"] < Rank["dvt"] /\ Rank["usft"] < Rank["dvt"]
  BY RankOf
<1>1. May(g, "usft") /\ Under(g, "dvt") /\ Under(g, "uslst")
  BY <1>0, UnderHigher, Known, Ranks
<1>2. May(Plus(g, "usft"), "uslst")
  BY <1>0, <1>1, UnderPlus, Known DEF May
<1> QED
  BY <1>1, <1>2, UsSwapOutFine, Touched, FineThen DEF UsEvictPage

LEMMA RelinquishFine ==
  ASSUME NEW g \in Depths, Under(g, "pcbvec")
  PROVE  Fine(UsRelinquishPage, g) /\ Fine(RelinquishCluster, g)
<1>1. May(g, "dvt") /\ May(g, "uslst")
  <2>1. Rank["pcbvec"] <= Rank["dvt"] /\ Rank["pcbvec"] <= Rank["uslst"]
    BY RankOf
  <2> QED
    BY <2>1, UnderHigher, Known
<1> QED
  BY <1>1, Sections, Touched, FineMaybe, FineThen DEF UsRelinquishPage, RelinquishCluster

------------------------------------------------------------------------------
(* Methods of KernelProcess.                                               *)

\* What may be taken while every mutex held is below mutex_kslst.
LEMMA TablesFree ==
  ASSUME NEW g \in Depths, Under(g, "kslst")
  PROVE  /\ May(g, "ksft") /\ May(g, "kslst") /\ May(g, "dvt")
         /\ \A f \in {"master_table_lock", "page_table_lock", "ks_acquire_page",
                      "ks_request_page"} : MayEnter(f, g) /\ Fine(Do(f), g)
<1>1. Rank["kslst"] <= Rank["ksft"] /\ Rank["kslst"] <= Rank["dvt"]
  BY RankOf
<1>2. May(g, "ksft") /\ May(g, "kslst") /\ May(g, "dvt")
  BY <1>1, UnderHigher, Known DEF May
<1>3. \A f \in {"master_table_lock", "page_table_lock", "ks_acquire_page",
                "ks_request_page"} : MayEnter(f, g) /\ f \in Methods
  BY DEF MayEnter, Methods
<1> QED
  BY <1>2, <1>3, FineDo

\* The same below mutex_pcbvec.
LEMMA AllFree ==
  ASSUME NEW g \in Depths, Under(g, "pcbvec")
  PROVE  /\ Under(g, "kslst") /\ Under(g, "usft")
         /\ g["usft"] = 0 /\ g["uslst"] = 0
         /\ May(g, "sseg") /\ May(g, "pcbvec")
<1>1. Rank["pcbvec"] <= Rank["kslst"] /\ Rank["pcbvec"] <= Rank["usft"]
  BY RankOf
<1>2. Under(g, "kslst") /\ Under(g, "usft") /\ May(g, "pcbvec")
  BY <1>1, UnderHigher, Known DEF May
<1>3. ~(Rank["usft"] < Rank["pcbvec"]) /\ ~(Rank["uslst"] < Rank["pcbvec"])
  BY RankOf
<1>4. g["usft"] = 0 /\ g["uslst"] = 0
  BY <1>3, Known DEF Under, Depths
<1>5. May(g, "sseg")
  <2>1. CASE g["sseg"] > 0
    BY <2>1 DEF May
  <2>2. CASE ~(g["sseg"] > 0)
    <3>1. \A m \in Mutexes : Rank[m] < 3 => m = "sseg" \/ Rank[m] < 2
      BY RankOf DEF Mutexes
    <3>2. Under(g, "sseg")
      BY <2>2, <3>1, RankOf DEF Under
    <3> QED
      BY <3>2 DEF May
  <2> QED
    BY <2>1, <2>2
<1> QED
  BY <1>2, <1>4, <1>5

LEMMA TableLockFine ==
  ASSUME NEW g \in Depths, Under(g, "kslst"),
         NEW f \in {"master_table_lock", "page_table_lock"}
  PROVE  Fine(TableLock(f), g)
<1>1. Fine(Do("ks_request_page"), g) /\ Fine(Do(f), g) /\ May(g, "ksft")
  BY TablesFree
<1>2. Fine(KsLockPage, g) /\ Fine(KsUnlockPage, g)
  BY <1>1, Sections
<1>3. Fine(Then(KsLockPage, Then(KsUnlockPage, Do(f))), g)
  BY <1>1, <1>2, FineThen
<1> QED
  BY <1>1, <1>2, <1>3, FineUnion DEF TableLock

\* A call with its master table locked, and a page with its page table locked.
LEMMA LockedFine ==
  ASSUME NEW g \in Depths, Under(g, "kslst"), NEW W, Fine(W, g)
  PROVE  Fine(Locked(W), g) /\ Fine(OnPage(W), g)
<1>1. Fine(Do("ks_request_page"), g) /\ Fine(Do("master_table_lock"), g)
      /\ Fine(Do("page_table_lock"), g) /\ May(g, "ksft")
  BY TablesFree
<1>2. Fine(KsUnlockPage, g)
  BY <1>1, Sections
<1>3. Fine(Then(W, KsUnlockPage), g)
  BY <1>2, FineThen
<1>4. Fine(Do("ks_request_page") \cup Do("page_table_lock"), g)
  BY <1>1, FineUnion
<1>5. Fine(Then(Do("ks_request_page") \cup Do("page_table_lock"), Then(W, KsUnlockPage)), g)
  BY <1>3, <1>4, FineThen
<1>6. Fine(Then(Do("master_table_lock"), Then(W, KsUnlockPage)), g)
  BY <1>1, <1>3, FineThen
<1> QED
  BY <1>5, <1>6 DEF Locked, OnPage

\* ks_request_page.
LEMMA KsRequestPageFine ==
  ASSUME NEW g \in Depths, Under(g, "kslst")
  PROVE  Fine(KsRequestPage, g)
<1>1. Fine(KsAcquirePage, g)
  BY KsAcquirePageFine
<1>2. Fine(DvtMark, g)
  BY TablesFree, Sections
<1> QED
  BY <1>1, <1>2, FineMaybe, FineThen DEF KsRequestPage

\* page_table_evict_children.
LEMMA PageTableEvictFine ==
  ASSUME NEW g \in Depths, MayEnter("page_table_evict_children", g)
  PROVE  Fine(Loop(UsEvictPage, "page_table_evict_children"), g)
<1>1. "kernel" \in small /\ Under(g, "usft")
  BY DEF MayEnter
<1>2. Fine(UsEvictPage, g)
  BY <1>1, UsEvictPageFine
<1> QED
  BY <1>2, FineLoop DEF Methods

\* master_table_evict_children, which evicts page tables with ks_evict_page.
LEMMA MasterTableEvictFine ==
  ASSUME NEW g \in Depths, MayEnter("master_table_evict_children", g)
  PROVE  Fine(MasterTableEvictChildren, g)
<1>1. "kernel" \in small /\ Under(g, "usft") /\ g["kslst"] > 0 /\ g["ksft"] > 0
  BY DEF MayEnter
<1>2. May(g, "ksft")
  BY <1>1 DEF May
<1>3. May(g, "dvt")
  <2>1. Rank["usft"] <= Rank["dvt"]
    BY RankOf
  <2> QED
    BY <1>1, <2>1, UnderHigher, Known
<1>4. Fine(KsSwapOut("page_table_evict_children"), g)
  BY <1>1, <1>2, KsSwapOutFine
<1>5. Fine(KsEvictPage, g)
  BY <1>3, <1>4, Sections, FineThen DEF KsEvictPage
<1>6. MayEnter("page_table_evict_children", g) /\ "page_table_evict_children" \in Methods
  BY <1>1 DEF MayEnter, Methods
<1>7. Fine(Then(Do("page_table_evict_children"), KsEvictPage), g)
  BY <1>5, <1>6, FineDo, FineThen
<1> QED
  BY <1>7, FineLoop DEF MasterTableEvictChildren, Methods

\* create_segment and delete_segment, page by page.
LEMMA CreatePagesFine ==
  ASSUME NEW g \in Depths, Under(g, "pcbvec")
  PROVE  Fine(CreatePages, g)
<1>1. Fine(OnPage(Nothing), g)
  BY AllFree, LockedFine, FineNothing
<1>2. MayEnter("create_pages", g) /\ "create_pages" \in Methods
  BY DEF MayEnter, Methods
<1> QED
  BY <1>1, <1>2, FineLoop DEF CreatePages

LEMMA DeleteSegmentsFine ==
  ASSUME NEW g \in Depths, Under(g, "pcbvec")
  PROVE  Fine(DeleteSegments, g)
<1> DEFINE page == UsRelinquishPage \cup RelinquishCluster \cup Nothing
                     \cup DisconnectSharedSegment
<1>1. Under(g, "kslst") /\ May(g, "sseg")
  BY AllFree
<1>2. Fine(DisconnectSharedSegment, g)
  BY <1>1, Sections DEF DisconnectSharedSegment
<1>3. Fine(UsRelinquishPage \cup RelinquishCluster \cup Nothing, g)
  BY RelinquishFine, FineNothing, FineUnion
<1>4. Fine(page, g)
  BY <1>2, <1>3, FineUnion
<1>5. Fine(Do("page_table_lock"), g) /\ Fine(KsUnlockPage, g)
  BY <1>1, TablesFree, Sections
<1> HIDE DEF page
<1>6. Fine(Then(Do("page_table_lock"), Then(page, KsUnlockPage)), g)
  BY <1>4, <1>5, FineThen
<1>7. Fine(DeletePages(DisconnectSharedSegment), g)
  BY <1>6 DEF DeletePages, page
<1>8. MayEnter("delete_segments", g) /\ "delete_segments" \in Methods
  BY DEF MayEnter, Methods
<1> QED
  BY <1>7, <1>8, FineLoop DEF DeleteSegments

\* load_segment, page by page.
LEMMA LoadPagesFine ==
  ASSUME NEW g \in Depths, MayEnter("load_pages", g)
  PROVE  Fine(LoadPages, g)
<1>1. "kernel" \notin small /\ Under(g, "pcbvec")
  BY DEF MayEnter
<1>2. Under(g, "kslst") /\ g["usft"] = 0
  BY <1>1, AllFree
<1>3. Fine(UsLoadPage, g)
  BY <1>1, <1>2, UsLoadPageFine
<1>4. Fine(OnPage(UsLoadPage), g)
  BY <1>2, <1>3, LockedFine
<1> QED
  BY <1>4, FineLoop DEF LoadPages, Methods

\* clone_process, page by page: mutex_uslst and mutex_usft are held meanwhile.
LEMMA ClonePagesFine ==
  ASSUME NEW g \in Depths, MayEnter("clone_segments", g), ~SharedClones
  PROVE  Fine(ClonePages, g)
<1> DEFINE shared == IF SharedClones THEN ConnectSharedSegment ELSE Nothing
           page   == Nothing \cup shared \cup UsRequestPage \cup UsClonePage
<1>1. /\ "kernel" \notin small /\ Under(g, "kslst") /\ (g["usft"] > 0 => g["uslst"] > 0)
      /\ MayEnter("us_acquire_page", g)
  BY DEF MayEnter
<1>2. Fine(UsRequestPage, g) /\ Fine(UsClonePage, g)
  BY <1>1, UsRequestPageFine, UsLoadPageFine
<1>3. Fine(shared, g) /\ Fine(Nothing, g)
  BY FineNothing
<1> HIDE DEF shared
<1>4. Fine(Nothing \cup shared \cup UsRequestPage, g)
  <2>1. Fine(Nothing \cup shared, g)
    BY <1>3, FineUnion
  <2> QED
    BY <1>2, <2>1, FineUnion
<1>5. Fine(page, g)
  BY <1>2, <1>4, FineUnion
<1> HIDE DEF page
<1>6. Fine(Do("page_table_lock"), g) /\ Fine(KsUnlockPage, g)
  BY <1>1, TablesFree, Sections
<1>7. Fine(Then(Do("page_table_lock"), Then(page, KsUnlockPage)), g)
  BY <1>5, <1>6, FineThen
<1>8. Fine(OnPage(Then(Do("page_table_lock"), Then(page, KsUnlockPage))), g)
  BY <1>1, <1>7, LockedFine
<1>9. Fine(Loop(OnPage(Then(Do("page_table_lock"), Then(page, KsUnlockPage))),
                "clone_segments"), g)
  BY <1>8, FineLoop DEF Methods
<1> QED
  BY <1>9 DEF ClonePages, page, shared

\* clone_process.
LEMMA CloneProcessFine ==
  ASSUME NEW g \in Depths, MayEnter("clone_process", g)
  PROVE  Fine(CloneProcess, g)
<1> DEFINE a == Plus(g, "pcbvec")
           b == Plus(a, "uslst")
           c == Plus(b, "usft")
<1>0. /\ Rank["pcbvec"] < Rank["uslst"] /\ Rank["uslst"] < Rank["usft"]
      /\ Rank["usft"] < Rank["kslst"] /\ Rank["pcbvec"] < Rank["kslst"]
      /\ Rank["uslst"] < Rank["kslst"] /\ Rank["pcbvec"] < Rank["usft"]
      /\ "kernel" \notin small /\ Under(g, "pcbvec")
  BY RankOf DEF MayEnter
<1>1. Under(g, "uslst") /\ Under(g, "usft") /\ Under(g, "kslst") /\ May(g, "pcbvec")
  BY <1>0, UnderHigher, Known, Ranks DEF May
<1>2. a \in Depths /\ Under(a, "uslst") /\ Under(a, "usft") /\ Under(a, "kslst")
  BY <1>0, <1>1, PlusType, UnderPlus, Known
<1> HIDE DEF a
<1>3. b \in Depths /\ Under(b, "usft") /\ Under(b, "kslst") /\ b["uslst"] > 0
  BY <1>0, <1>2, PlusType, UnderPlus, Known
<1> HIDE DEF b
<1>4. c \in Depths /\ Under(c, "kslst") /\ c["uslst"] > 0
  BY <1>0, <1>3, PlusType, UnderPlus, Known
<1> HIDE DEF c
<1>5. MayEnter("clone_segments", c) /\ "clone_segments" \in Methods
  BY <1>0, <1>4 DEF MayEnter, Methods
<1>6. Fine(Do("master_table_lock"), c) /\ Fine(Do("ks_acquire_page"), c)
      /\ Fine(KsFtUpdate, c) /\ Fine(Do("clone_segments"), c) /\ Fine(Touch("pcb_vec"), c)
  BY <1>4, <1>5, TablesFree, Sections, FineDo, Touched
<1>7. Fine(Then(Do("ks_acquire_page"), Then(Do("clone_segments"), KsFtUpdate)), c)
  BY <1>4, <1>6, FineThen
<1>8. Fine(Then(Touch("pcb_vec"), Then(Do("master_table_lock"),
        Then(Do("ks_acquire_page"), Then(Do("clone_segments"), KsFtUpdate)))), c)
  BY <1>4, <1>6, <1>7, FineThen
<1>9. Fine(Within("usft", Then(Touch("pcb_vec"), Then(Do("master_table_lock"),
        Then(Do("ks_acquire_page"), Then(Do("clone_segments"), KsFtUpdate))))), b)
  BY <1>3, <1>8, FineWithin, Known DEF c, May
<1>10. Fine(Within("uslst", Within("usft", Then(Touch("pcb_vec"), Then(Do("master_table_lock"),
        Then(Do("ks_acquire_page"), Then(Do("clone_segments"), KsFtUpdate)))))), a)
  BY <1>2, <1>9, FineWithin, Known DEF b, May
<1> QED
  BY <1>1, <1>10, FineWithin, Known DEF CloneProcess, a

\* create_process and delete_process.
LEMMA CreateProcessFine ==
  ASSUME NEW g \in Depths, Under(g, "pcbvec")
  PROVE  Fine(CreateProcess, g)
<1>1. May(g, "pcbvec") /\ Under(g, "kslst")
  BY AllFree
<1>2. May(g, "ksft") /\ Fine(Do("ks_acquire_page"), g)
  BY <1>1, TablesFree
<1>3. Fine(Section("pcbvec", "pcb_vec"), g) /\ Fine(KsFtUpdate, g) /\ Fine(Touch("pcb_vec"), g)
  BY <1>1, <1>2, Sections, Touched
<1>4. Fine(Then(Do("ks_acquire_page"), KsFtUpdate), g)
  BY <1>2, <1>3, FineThen
<1>5. Fine(Then(Touch("pcb_vec"), Then(Do("ks_acquire_page"), KsFtUpdate)), g)
  BY <1>3, <1>4, FineThen
<1> QED
  BY <1>3, <1>5, FineThen DEF CreateProcess

LEMMA DeleteProcessFine ==
  ASSUME NEW g \in Depths, Under(g, "pcbvec")
  PROVE  Fine(DeleteProcess, g)
<1>1. May(g, "pcbvec") /\ Under(g, "kslst")
  BY AllFree
<1>2. May(g, "ksft") /\ May(g, "kslst") /\ Fine(Do("master_table_lock"), g)
  BY <1>1, TablesFree
<1>3. Fine(KsFreePage, g) /\ Fine(KsUnlockPage, g) /\ Fine(ProcessDeleted, g)
  BY <1>1, <1>2, Sections DEF ProcessDeleted
<1>4. MayEnter("delete_segments", g) /\ "delete_segments" \in Methods
  BY DEF MayEnter, Methods
<1>5. Fine(Do("delete_segments"), g)
  BY <1>4, FineDo
<1>6. Fine(Then(KsFreePage, Then(KsUnlockPage, ProcessDeleted)), g)
  BY <1>3, FineThen
<1>7. Fine(Then(Do("delete_segments"), Then(KsFreePage, Then(KsUnlockPage, ProcessDeleted))), g)
  BY <1>5, <1>6, FineThen
<1> QED
  BY <1>2, <1>7, FineThen DEF DeleteProcess

\* page_fault: the missing page is one of the process, or a way of shared.
LEMMA PageFaultFine ==
  ASSUME NEW g \in Depths, Under(g, "pcbvec"), NEW shared, Fine(shared, g)
  PROVE  Fine(PageFault(shared), g)
<1>1. Under(g, "kslst") /\ Under(g, "usft") /\ g["usft"] = 0
  BY AllFree
<1>2. MayEnter("us_acquire_page", g)
  BY <1>1 DEF MayEnter
<1>3. Fine(UsRequestPage, g)
  BY <1>2, UsRequestPageFine
<1>4. Fine(Maybe(UsRequestPage), g)
  BY <1>3, FineMaybe
<1>5. Fine(Maybe(UsRequestPage) \cup shared, g)
  BY <1>4, FineUnion
<1>6. Fine(Do("ks_request_page"), g)
  BY <1>1, TablesFree
<1>7. Fine(Maybe(Do("ks_request_page")), g)
  BY <1>6, FineMaybe
<1>8. Fine(Then(Maybe(Do("ks_request_page")), Maybe(UsRequestPage) \cup shared), g)
  BY <1>5, <1>7, FineThen
<1> QED
  BY <1>1, <1>8, LockedFine DEF PageFault

\* access: mutex_databus is held meanwhile.
LEMMA AccessFine ==
  ASSUME NEW g \in Depths, Under(g, "sseg"), NEW vector \in {"pcb_vec", "sseg_vec"},
         NEW shared, Fine(shared, Plus(g, "databus"))
  PROVE  Fine(Access(vector, shared), g)
<1> DEFINE h == Plus(g, "databus")
<1>0. Rank["databus"] < Rank["sseg"] /\ Rank["sseg"] <= Rank["kslst"]
      /\ Rank["sseg"] <= Rank["usft"]
  BY RankOf
<1>1. h \in Depths /\ Under(h, "sseg")
  BY <1>0, PlusType, UnderPlus, Known
<1>2. May(g, "databus")
  <2>1. CASE g["databus"] > 0
    BY <2>1 DEF May
  <2>2. CASE ~(g["databus"] > 0)
    <3>1. \A m \in Mutexes : Rank[m] < 2 => m = "databus"
      BY RankOf DEF Mutexes
    <3>2. Under(g, "databus")
      BY <2>2, <3>1, RankOf DEF Under
    <3> QED
      BY <3>2 DEF May
  <2> QED
    BY <2>1, <2>2
<1> HIDE DEF h
<1>3. Under(h, "kslst") /\ May(h, "usft")
  BY <1>0, <1>1, UnderHigher, Known
<1>4. May(h, "ksft") /\ Fine(Do("master_table_lock"), h)
  BY <1>1, <1>3, TablesFree
<1>5. Fine(Section("usft", "us_ft"), h) /\ Fine(KsUnlockPage, h) /\ Fine(Touch(vector), h)
  BY <1>1, <1>3, <1>4, Sections, Touched
<1>6. Fine(Maybe(Section("usft", "us_ft")), h)
  BY <1>1, <1>5, FineMaybe
<1>7. Fine(Maybe(Section("usft", "us_ft")) \cup shared, h)
  BY <1>1, <1>6, FineUnion DEF h
<1>8. Fine(Then(Maybe(Section("usft", "us_ft")) \cup shared, KsUnlockPage), h)
  BY <1>1, <1>5, <1>7, FineThen
<1>9. Fine(Then(Do("master_table_lock"),
             Then(Maybe(Section("usft", "us_ft")) \cup shared, KsUnlockPage)), h)
  BY <1>1, <1>4, <1>8, FineThen
<1>10. Fine(Then(Touch(vector), Then(Do("master_table_lock"),
             Then(Maybe(Section("usft", "us_ft")) \cup shared, KsUnlockPage))), h)
  BY <1>1, <1>5, <1>9, FineThen
<1> QED
  BY <1>2, <1>10, FineWithin, Known DEF Access, h

------------------------------------------------------------------------------
(* Shared segments.                                                        *)

\* What a way holds while it has mutex_sseg.
LEMMA SharedFree ==
  ASSUME NEW g \in Depths, Under(g, "pcbvec")
  PROVE  /\ May(g, "sseg") /\ Plus(g, "sseg") \in Depths
         /\ Under(Plus(g, "sseg"), "pcbvec") /\ Plus(g, "sseg")["sseg"] > 0
         /\ \A f \in {"create_process", "create_segment", "delete_segments",
                      "delete_process", "page_fault_of_dummy"} :
              Fine(Do(f), Plus(g, "sseg"))
<1> DEFINE h == Plus(g, "sseg")
<1>0. Rank["sseg"] < Rank["pcbvec"]
  BY RankOf
<1>1. h \in Depths /\ Under(h, "pcbvec") /\ h["sseg"] > 0
  BY <1>0, PlusType, UnderPlus, Known
<1> HIDE DEF h
<1>2. \A f \in {"create_process", "create_segment", "delete_segments",
                "delete_process", "page_fault_of_dummy"} : MayEnter(f, h) /\ f \in Methods
  BY <1>1 DEF MayEnter, Methods, Public
<1>3. \A f \in {"create_process", "create_segment", "delete_segments",
                "delete_process", "page_fault_of_dummy"} : Fine(Do(f), h)
  BY <1>1, <1>2, FineDo
<1>4. May(g, "sseg")
  BY AllFree
<1> QED
  BY <1>1, <1>3, <1>4 DEF h

LEMMA SharedFine ==
  ASSUME NEW g \in Depths, Under(g, "pcbvec")
  PROVE  /\ Fine(SharedSegmentPf, g) /\ Fine(SharedSegmentPa, g)
         /\ Fine(CreateSharedSegment, g) /\ Fine(DeleteSharedSegment, g)
         /\ Fine(SharedSegmentFind, g) /\ Fine(ConnectSharedSegment, g)
         /\ Fine(DisconnectSharedSegment, g)
<1> DEFINE h == Plus(g, "sseg")
<1>1. /\ May(g, "sseg") /\ h \in Depths /\ h["sseg"] > 0
      /\ Fine(Do("create_process"), h) /\ Fine(Do("create_segment"), h)
      /\ Fine(Do("delete_segments"), h) /\ Fine(Do("delete_process"), h)
      /\ Fine(Do("page_fault_of_dummy"), h)
  BY SharedFree
<1> HIDE DEF h
<1>2. Fine(Touch("sseg_vec"), h) /\ Fine(Touch("sseg_map"), h)
  BY <1>1, Touched
<1>3. Fine(Then(Touch("sseg_vec"), Do("page_fault_of_dummy")), h)
  BY <1>1, <1>2, FineThen
<1>4. Fine(SharedSegmentPf, g)
  BY <1>1, <1>3, FineWithin, Known DEF SharedSegmentPf, h
<1>5. Fine(Then(Touch("sseg_map"),
             Then(Do("create_process"), Then(Touch("sseg_vec"), Do("create_segment")))), h)
  <2>1. Fine(Then(Touch("sseg_vec"), Do("create_segment")), h)
    BY <1>1, <1>2, FineThen
  <2>2. Fine(Then(Do("create_process"), Then(Touch("sseg_vec"), Do("create_segment"))), h)
    BY <1>1, <2>1, FineThen
  <2> QED
    BY <1>1, <1>2, <2>2, FineThen
<1>6. Fine(CreateSharedSegment, g)
  BY <1>1, <1>5, FineWithin, Known DEF CreateSharedSegment, h
<1>7. Fine(Then(Touch("sseg_map"),
             Then(Do("delete_segments"), Then(Do("delete_process"), Touch("sseg_vec")))), h)
  <2>1. Fine(Then(Do("delete_process"), Touch("sseg_vec")), h)
    BY <1>1, <1>2, FineThen
  <2>2. Fine(Then(Do("delete_segments"), Then(Do("delete_process"), Touch("sseg_vec"))), h)
    BY <1>1, <2>1, FineThen
  <2> QED
    BY <1>1, <1>2, <2>2, FineThen
<1>8. Fine(DeleteSharedSegment, g)
  BY <1>1, <1>7, FineWithin, Known DEF DeleteSharedSegment, h
<1>9. Fine(Section("sseg", "sseg_map"), g) /\ Fine(Section("sseg", "sseg_vec"), g)
  BY <1>1, Sections
<1> QED
  BY <1>4, <1>6, <1>8, <1>9
     DEF SharedSegmentPa, SharedSegmentFind, ConnectSharedSegment, DisconnectSharedSegment

\* The calls of a process on its shared segments.
LEMMA SharedCallsFine ==
  ASSUME NEW g \in Depths, Under(g, "pcbvec")
  PROVE  Fine(CreateShared, g) /\ Fine(DisconnectShared, g) /\ Fine(DeleteShared, g)
<1>0. Under(g, "kslst")
  BY AllFree
<1>1. \A f \in {"create_pages", "delete_segments"} : MayEnter(f, g) /\ f \in Methods
  BY DEF MayEnter, Methods
<1>2. Fine(Do("create_pages"), g) /\ Fine(Do("delete_segments"), g)
  BY <1>1, FineDo
<1>3. /\ Fine(CreateSharedSegment, g) /\ Fine(DeleteSharedSegment, g)
      /\ Fine(SharedSegmentFind, g) /\ Fine(ConnectSharedSegment, g)
      /\ Fine(DisconnectSharedSegment, g)
  BY SharedFine
<1>4. Fine(Then(ConnectSharedSegment, Do("create_pages")), g)
  BY <1>2, <1>3, FineThen
<1>5. Fine(Then(CreateSharedSegment, SharedSegmentFind), g)
  BY <1>3, FineThen
<1>6. Fine(Maybe(Then(CreateSharedSegment, SharedSegmentFind)), g)
  BY <1>5, FineMaybe
<1>7. Fine(Then(Maybe(Then(CreateSharedSegment, SharedSegmentFind)),
             Then(ConnectSharedSegment, Do("create_pages"))), g)
  BY <1>4, <1>6, FineThen
<1>8. Fine(Then(SharedSegmentFind,
             Then(Maybe(Then(CreateSharedSegment, SharedSegmentFind)),
               Then(ConnectSharedSegment, Do("create_pages")))), g)
  BY <1>3, <1>7, FineThen
<1>9. Fine(CreateShared, g)
  BY <1>0, <1>8, LockedFine DEF CreateShared
<1>10. Fine(Then(DisconnectSharedSegment, Do("delete_segments")), g)
  BY <1>2, <1>3, FineThen
<1>11. Fine(DisconnectShared, g) /\ Fine(DeleteShared, g)
  BY <1>3, <1>10, FineThen DEF DisconnectShared, DeleteShared
<1> QED
  BY <1>9, <1>11

------------------------------------------------------------------------------
(* All the methods.                                                        *)

\* At most one space is too small, and clients who load and clone, or clone
\* shared segments, do not do it where the order cannot be kept.
Orderly ==
  /\ ~Mixed /\ ~SharedClones
  /\ \A P \in Pressures : ~({"user", "kernel"} \subseteq P)

OneSmall == ~("user" \in small /\ "kernel" \in small)

\* Methods that take locks in the kernel space only.
LEMMA KernelWays ==
  ASSUME NEW g \in Depths, NEW f \in Methods, MayEnter(f, g),
         f \in {"ks_acquire_page", "ks_request_page", "ks_swap_out",
                "page_table_evict_children", "master_table_evict_children",
                "master_table_lock", "page_table_lock"}
  PROVE  Fine(Ways(f), g)
<1>1. CASE f = "ks_acquire_page"
  <2>1. Under(g, "kslst")
    BY <1>1 DEF MayEnter
  <2>2. Ways(f) = KsAcquirePage
    BY <1>1 DEF Ways
  <2> QED
    BY <2>1, <2>2, KsAcquirePageFine
<1>2. CASE f = "ks_request_page"
  <2>1. Under(g, "kslst")
    BY <1>2 DEF MayEnter
  <2>2. Ways(f) = KsRequestPage
    BY <1>2 DEF Ways
  <2> QED
    BY <2>1, <2>2, KsRequestPageFine
<1>3. CASE f = "ks_swap_out"
  <2>1. "kernel" \in small /\ Under(g, "ksft") /\ g["kslst"] > 0
    BY <1>3 DEF MayEnter
  <2>2. Rank["ksft"] <= Rank["usft"]
    BY <2>1, RankOf
  <2>3. Under(g, "usft") /\ May(g, "ksft")
    BY <2>1, <2>2, UnderHigher, Known DEF May
  <2>4. Fine(KsSwapOut("page_table_evict_children"), g)
        /\ Fine(KsSwapOut("master_table_evict_children"), g)
    BY <2>1, <2>3, KsSwapOutFine
  <2>5. Ways(f) = KsSwapOut("page_table_evict_children")
                    \cup KsSwapOut("master_table_evict_children")
    BY <1>3 DEF Ways
  <2> QED
    BY <2>4, <2>5, FineUnion
<1>4. CASE f = "page_table_evict_children"
  <2>1. Ways(f) = Loop(UsEvictPage, "page_table_evict_children")
    BY <1>4 DEF Ways
  <2> QED
    BY <1>4, <2>1, PageTableEvictFine
<1>5. CASE f = "master_table_evict_children"
  <2>1. Ways(f) = MasterTableEvictChildren
    BY <1>5 DEF Ways
  <2> QED
    BY <1>5, <2>1, MasterTableEvictFine
<1>6. CASE f \in {"master_table_lock", "page_table_lock"}
  <2>1. Under(g, "kslst")
    BY <1>6 DEF MayEnter
  <2>2. Ways(f) = TableLock(f)
    BY <1>6 DEF Ways
  <2> QED
    BY <1>6, <2>1, <2>2, TableLockFine
<1> QED
  BY <1>1, <1>2, <1>3, <1>4, <1>5, <1>6

\* Methods that may only begin below mutex_pcbvec.
LEMMA ProcessWays ==
  ASSUME NEW g \in Depths, NEW f \in Methods, Under(g, "pcbvec"),
         f \in {"page_fault", "page_fault_of_dummy", "get_pa", "create_segment",
                "create_pages", "delete_segment", "delete_segments", "create_process",
                "delete_process"}
  PROVE  Fine(Ways(f), g)
<1>0. Under(g, "kslst")
  BY AllFree
<1>1. CASE f = "page_fault"
  <2>1. Ways(f) = PageFault(SharedSegmentPf)
    BY <1>1 DEF Ways
  <2> QED
    BY <2>1, SharedFine, PageFaultFine
<1>2. CASE f = "page_fault_of_dummy"
  <2>1. Ways(f) = PageFault({}) /\ Fine({}, g)
    BY <1>2 DEF Ways, Fine
  <2> QED
    BY <2>1, PageFaultFine
<1>3. CASE f = "get_pa"
  <2>1. Ways(f) = Maybe(SharedSegmentPa)
    BY <1>3 DEF Ways
  <2> QED
    BY <2>1, SharedFine, FineMaybe
<1>4. CASE f \in {"create_pages", "delete_segments", "create_process", "delete_process"}
  <2>1. /\ f = "create_pages" => Ways(f) = CreatePages
        /\ f = "delete_segments" => Ways(f) = DeleteSegments
        /\ f = "create_process" => Ways(f) = CreateProcess
        /\ f = "delete_process" => Ways(f) = DeleteProcess
    BY DEF Ways
  <2> QED
    BY <1>4, <2>1, CreatePagesFine, DeleteSegmentsFine, CreateProcessFine, DeleteProcessFine
<1>5. CASE f \in {"create_segment", "delete_segment"}
  <2>1. \A e \in {"create_pages", "delete_segments"} : MayEnter(e, g) /\ e \in Methods
    BY DEF MayEnter, Methods
  <2>2. Fine(Do("create_pages"), g) /\ Fine(Do("delete_segments"), g)
    BY <2>1, FineDo
  <2>3. /\ f = "create_segment" => Ways(f) = Locked(Do("create_pages"))
        /\ f = "delete_segment" => Ways(f) = Locked(Do("delete_segments"))
    BY DEF Ways
  <2> QED
    BY <1>0, <1>5, <2>2, <2>3, LockedFine
<1> QED
  BY <1>1, <1>2, <1>3, <1>4, <1>5

\* Whatever may begin, does what may be done, whichever way it goes.
LEMMA WaysFine ==
  ASSUME ~SharedClones, OneSmall, NEW g \in Depths, NEW f \in Methods, MayEnter(f, g)
  PROVE  Fine(Ways(f), g)
<1>1. CASE f \in {"ks_acquire_page", "ks_request_page", "ks_swap_out",
                  "page_table_evict_children", "master_table_evict_children",
                  "master_table_lock", "page_table_lock"}
  BY <1>1, KernelWays
<1>2. CASE f \in {"page_fault", "page_fault_of_dummy", "get_pa", "create_segment",
                  "create_pages", "delete_segment", "delete_segments", "create_process",
                  "delete_process"}
  <2>1. Under(g, "pcbvec")
    BY <1>2 DEF MayEnter
  <2> QED
    BY <1>2, <2>1, ProcessWays
<1>3. CASE f \in {"create_shared_segment", "disconnect_shared_segment",
                  "delete_shared_segment"}
  <2>1. Under(g, "pcbvec")
    BY <1>3 DEF MayEnter
  <2>2. /\ f = "create_shared_segment" => Ways(f) = CreateShared
        /\ f = "disconnect_shared_segment" => Ways(f) = DisconnectShared
        /\ f = "delete_shared_segment" => Ways(f) = DeleteShared
    BY DEF Ways
  <2> QED
    BY <1>3, <2>1, <2>2, SharedCallsFine
<1>4. CASE f = "us_acquire_page"
  <2>1. Ways(f) = UsAcquirePage
    BY <1>4 DEF Ways
  <2> QED
    BY <1>4, <2>1, UsAcquirePageFine DEF OneSmall
<1>5. CASE f \in {"access", "access_to_dummy"}
  <2>1. Under(g, "sseg")
    BY <1>5 DEF MayEnter
  <2>2. Plus(g, "databus") \in Depths /\ Under(Plus(g, "databus"), "sseg")
    BY <2>1, PlusType, UnderPlus, RankOf, Known
  <2>3. MayEnter("access_to_dummy", Plus(g, "databus")) /\ "access_to_dummy" \in Methods
    BY <2>2 DEF MayEnter, Methods
  <2>4. Fine(Do("access_to_dummy"), Plus(g, "databus")) /\ Fine({}, Plus(g, "databus"))
    BY <2>2, <2>3, FineDo DEF Fine
  <2>5. /\ f = "access" => Ways(f) = Access("pcb_vec", Do("access_to_dummy"))
        /\ f = "access_to_dummy" => Ways(f) = Access("sseg_vec", {})
    BY DEF Ways
  <2> QED
    BY <1>5, <2>1, <2>4, <2>5, AccessFine
<1>6. CASE f \in {"load_segment", "load_pages"}
  <2>1. Under(g, "pcbvec") /\ "kernel" \notin small
    BY <1>6 DEF MayEnter
  <2>2. MayEnter("load_pages", g) /\ "load_pages" \in Methods
    BY <2>1 DEF MayEnter, Methods
  <2>3. Fine(Do("load_pages"), g) /\ Fine(LoadPages, g)
    BY <2>2, FineDo, LoadPagesFine
  <2>4. Fine(Locked(Do("load_pages")), g)
    BY <2>1, <2>3, AllFree, LockedFine
  <2>5. /\ f = "load_segment" => Ways(f) = Locked(Do("load_pages"))
        /\ f = "load_pages" => Ways(f) = LoadPages
    BY DEF Ways
  <2> QED
    BY <1>6, <2>3, <2>4, <2>5
<1>7. CASE f = "clone_process"
  <2>1. Ways(f) = CloneProcess
    BY <1>7 DEF Ways
  <2> QED
    BY <1>7, <2>1, CloneProcessFine
<1>8. CASE f = "clone_segments"
  <2>1. Ways(f) = ClonePages
    BY <1>8 DEF Ways
  <2> QED
    BY <1>8, <2>1, ClonePagesFine
<1> QED
  BY <1>1, <1>2, <1>3, <1>4, <1>5, <1>6, <1>7, <1>8 DEF Methods, Public

------------------------------------------------------------------------------
(* The invariant.                                                          *)

\* How often thread t has locked each mutex.
Holds(t) == [m \in Mutexes |-> IF owner[m] = t THEN depth[m] ELSE 0]

\* A mutex has an owner as long as it is locked.
OwnersOK ==
  /\ owner \in [Mutexes -> Threads \cup {Nobody}]
  /\ depth \in [Mutexes -> Nat]
  /\ \A m \in Mutexes : owner[m] = Nobody <=> depth[m] = 0

\* What a thread has left takes mutexes in order, and gives all of them back.
LeftRuns ==
  /\ left \in [Threads -> Seq(Instructions)]
  /\ \A t \in Threads : Runs(left[t], Holds(t), NoneHeld)

OrderInv == small \in Pressures /\ OwnersOK /\ LeftRuns

LEMMA HoldsType ==
  ASSUME OwnersOK, NEW t \in Threads
  PROVE  /\ Holds(t) \in Depths
         /\ \A m \in Mutexes : Holds(t)[m] > 0 <=> owner[m] = t
BY NobodyAssumption DEF OwnersOK, Holds, Depths

\* In every state that satisfies it, mutexes are taken in order.
LEMMA InvRanked == OrderInv => Ranked
<1> SUFFICES ASSUME OrderInv, NEW t \in Threads, Wants(t), NEW m \in Mutexes, owner[m] = t
             PROVE  Rank[m] < Rank[Arg(t)]
  BY DEF Ranked
<1>1. PICK g \in Depths : g = Holds(t)
  BY HoldsType DEF OrderInv
<1>2. \A k \in Mutexes : g[k] > 0 <=> owner[k] = t
  BY <1>1, HoldsType DEF OrderInv
<1>3. left[t] # <<>> /\ left[t][1].op \in {"lock", "section"} /\ owner[left[t][1].arg] # t
  BY DEF Wants, At, Arg
<1>4. Runs(left[t], g, NoneHeld) /\ NoneHeld \in Depths
  BY <1>1 DEF OrderInv, LeftRuns, NoneHeld, Depths
<1>5. PICK w : w = left[t]
  OBVIOUS
<1>6. PICK e \in Depths : Fits(w[1], g, e)
  BY <1>3, <1>4, <1>5, RunsRest
<1>7. w[1].arg \in Mutexes /\ May(g, w[1].arg)
  BY <1>3, <1>5, <1>6 DEF Fits
<1>8. Under(g, w[1].arg)
  BY <1>2, <1>3, <1>5, <1>7 DEF May
<1> QED
  BY <1>2, <1>5, <1>7, <1>8 DEF Under, Arg

\* What is touched is touched under the mutex that guards it.
LEMMA TouchedUnder ==
  ASSUME OrderInv, NEW t \in Threads, NEW d \in Guarded, Touches(t, d)
  PROVE  /\ At(t, "touch") => owner[Guard[d]] = t
         /\ ~At(t, "touch") => At(t, "section") /\ owner[Guard[d]] \in {Nobody, t}
<1>1. PICK g \in Depths : g = Holds(t)
  BY HoldsType DEF OrderInv
<1>2. \A k \in Mutexes : g[k] > 0 <=> owner[k] = t
  BY <1>1, HoldsType DEF OrderInv
<1>3. Guard[d] \in Mutexes
  BY GuardOf, Known DEF Guarded
<1>4. Runs(left[t], g, NoneHeld) /\ NoneHeld \in Depths
  BY <1>1 DEF OrderInv, LeftRuns, NoneHeld, Depths
<1>5. PICK w : w = left[t]
  OBVIOUS
<1>6. w # <<>> /\ w[1].op \in {"touch", "section"}
  BY <1>5 DEF Touches, At
<1>7. PICK e \in Depths : Fits(w[1], g, e)
  BY <1>4, <1>5, <1>6, RunsRest
<1>8. ASSUME At(t, "touch") PROVE owner[Guard[d]] = t
  <2>1. w[1].op = "touch" /\ w[1].arg = d
    BY <1>5, <1>8 DEF Touches, At, Arg
  <2>2. g[Guard[d]] > 0
    BY <1>7, <2>1 DEF Fits
  <2> QED
    BY <1>2, <1>3, <2>2
<1>9. ASSUME ~At(t, "touch") PROVE At(t, "section") /\ owner[Guard[d]] \in {Nobody, t}
  <2>1. At(t, "section") /\ w[1].data = d /\ owner[w[1].arg] \in {Nobody, t}
        /\ w[1].op = "section"
    BY <1>5, <1>9 DEF Touches, Free, Arg, At
  <2>2. w[1].arg = Guard[d]
    BY <1>7, <2>1 DEF Fits
  <2> QED
    BY <2>1, <2>2
<1> QED
  BY <1>8, <1>9

LEMMA InvNoRace ==
  ASSUME Watched \subseteq Guarded
  PROVE  OrderInv => NoRace
<1> SUFFICES ASSUME OrderInv, NEW t \in Threads, NEW u \in Threads, NEW d \in Watched,
                    t # u, Touches(t, d), Touches(u, d)
             PROVE  At(t, "section") /\ At(u, "section")
  BY DEF NoRace
<1>1. d \in Guarded
  OBVIOUS
<1>2. /\ At(t, "touch") => owner[Guard[d]] = t
      /\ ~At(t, "touch") => At(t, "section") /\ owner[Guard[d]] \in {Nobody, t}
  BY <1>1, TouchedUnder
<1>3. /\ At(u, "touch") => owner[Guard[d]] = u
      /\ ~At(u, "touch") => At(u, "section") /\ owner[Guard[d]] \in {Nobody, u}
  BY <1>1, TouchedUnder
<1> QED
  BY <1>2, <1>3, NobodyAssumption

\* Nothing but small decides what may run.
LEMMA RunsKept ==
  ASSUME UNCHANGED small, NEW w, NEW g, NEW h, Runs(w, g, h)
  PROVE  Runs(w, g, h)'
<1>1. Rank' = Rank
  BY DEF Rank
<1>2. \A e, m : Under(e, m)' <=> Under(e, m)
  BY <1>1 DEF Under
<1>3. \A e, m : May(e, m)' <=> May(e, m)
  BY <1>2 DEF May
<1>4. \A f, e : MayEnter(f, e)' <=> MayEnter(f, e)
  BY <1>2 DEF MayEnter
<1>5. \A x, e, f : Fits(x, e, f)' <=> Fits(x, e, f)
  BY <1>3, <1>4 DEF Fits
<1>6. \A b : Along(w, b)' <=> Along(w, b)
  BY <1>5 DEF Along
<1> QED
  BY <1>6 DEF Runs

LEMMA InvInit == Init => OrderInv
<1> SUFFICES ASSUME Init PROVE OrderInv
  OBVIOUS
<1>1. OwnersOK
  BY DEF Init, OwnersOK
<1>2. LeftRuns
  <2>1. left \in [Threads -> Seq(Instructions)] /\ \A t \in Threads : left[t] = <<>>
    BY EmptySeq DEF Init
  <2>2. ASSUME NEW t \in Threads PROVE Runs(<<>>, Holds(t), NoneHeld)
    <3>1. Holds(t) = NoneHeld /\ NoneHeld \in Depths
      BY NobodyAssumption DEF Init, Holds, NoneHeld, Depths
    <3> QED
      BY <3>1, RunsEmpty
  <2> QED
    BY <2>1, <2>2 DEF LeftRuns
<1> QED
  BY <1>1, <1>2 DEF Init, OrderInv

\* A step of thread t, after which it has w left and holds g.
LEMMA ThreadStep ==
  ASSUME OrderInv, UNCHANGED small, OwnersOK', NEW t \in Threads,
         NEW w, NEW g \in Depths, Runs(w, g, NoneHeld),
         left' = [left EXCEPT ![t] = w], Holds(t)' = g,
         \A u \in Threads \ {t} : Holds(u)' = Holds(u)
  PROVE  OrderInv'
<1>1. w \in Seq(Instructions)
  BY DEF Runs
<1>2. left' \in [Threads -> Seq(Instructions)]
  BY <1>1 DEF OrderInv, LeftRuns
<1>3. ASSUME NEW u \in Threads PROVE Runs(left[u], Holds(u), NoneHeld)'
  <2>1. CASE u = t
    <3>1. left'[u] = w /\ Holds(u)' = g
      BY <2>1 DEF OrderInv, LeftRuns
    <3>2. Runs(w, g, NoneHeld)'
      BY RunsKept
    <3> QED
      BY <3>1, <3>2
  <2>2. CASE u # t
    <3>1. PICK v, h : v = left[u] /\ h = Holds(u)
      OBVIOUS
    <3>2. Runs(v, h, NoneHeld)
      BY <3>1 DEF OrderInv, LeftRuns
    <3>3. Runs(v, h, NoneHeld)'
      BY <3>2, RunsKept
    <3>4. left'[u] = v /\ Holds(u)' = h
      BY <2>2, <3>1 DEF OrderInv, LeftRuns
    <3> QED
      BY <3>3, <3>4
  <2> QED
    BY <2>1, <2>2
<1>4. LeftRuns'
  BY <1>2, <1>3 DEF LeftRuns
<1> QED
  BY <1>4 DEF OrderInv

\* A step that takes and gives back nothing.
LEMMA StepKeepsMutexes ==
  ASSUME OrderInv, UNCHANGED <<small, owner, depth>>, NEW t \in Threads,
         NEW w, NEW g, g = Holds(t), Runs(w, g, NoneHeld), left' = [left EXCEPT ![t] = w]
  PROVE  OrderInv'
<1>0. UNCHANGED small /\ owner' = owner /\ depth' = depth
  OBVIOUS
<1>1. OwnersOK'
  BY <1>0 DEF OrderInv, OwnersOK
<1>2. \A u \in Threads : Holds(u)' = Holds(u)
  BY <1>0 DEF Holds
<1>3. g \in Depths
  BY HoldsType DEF OrderInv
<1> QED
  BY <1>0, <1>1, <1>2, <1>3, ThreadStep

\* What a thread does next, and what it holds meanwhile.
LEMMA NextInstruction ==
  ASSUME OrderInv, NEW t \in Threads, left[t] # <<>>
  PROVE  \E g, e \in Depths, x \in Instructions, v \in Seq(Instructions) :
           /\ g = Holds(t) /\ x = left[t][1] /\ v = Tail(left[t])
           /\ x \in Instructions /\ Fits(x, g, e) /\ Runs(v, e, NoneHeld)
<1>1. PICK g \in Depths : g = Holds(t)
  BY HoldsType DEF OrderInv
<1>2. PICK w : w = left[t]
  OBVIOUS
<1>3. Runs(w, g, NoneHeld) /\ NoneHeld \in Depths /\ w # <<>>
  BY <1>1, <1>2 DEF OrderInv, LeftRuns, NoneHeld, Depths
<1>4. w[1] \in Instructions /\ \E e \in Depths : Fits(w[1], g, e) /\ Runs(Tail(w), e, NoneHeld)
  BY <1>3, RunsRest
<1>5. Tail(w) \in Seq(Instructions)
  BY <1>2, <1>3 DEF OrderInv, LeftRuns
<1> QED
  BY <1>1, <1>2, <1>4, <1>5

LEMMA BeginStep ==
  ASSUME OrderInv, ~Mixed, NEW t \in Threads, NEW f \in Calls, Begin(t, f)
  PROVE  OrderInv'
<1>1. PICK g \in Depths : g = Holds(t)
  BY HoldsType DEF OrderInv
<1>2. Runs(<<>>, g, NoneHeld) /\ NoneHeld \in Depths
  BY <1>1 DEF OrderInv, LeftRuns, Begin, NoneHeld, Depths
<1>3. g = NoneHeld
  BY <1>2, RunsEmpty
<1>4. \A m \in Mutexes : Under(g, m)
  BY <1>3 DEF NoneHeld, Under
<1>5. f \in Public /\ (f \in {"load_segment", "clone_process"} => "kernel" \notin small)
  BY CallsAssumption DEF Begin
<1>6. MayEnter(f, g)
  BY <1>4, <1>5, Known DEF MayEnter, Public
<1>7. Fine(Do(f), g)
  BY <1>5, <1>6, FineDo DEF Methods
<1>8. Runs(<<Call(f)>>, g, g)
  BY <1>7 DEF Fine, Do
<1>9. left' = [left EXCEPT ![t] = <<Call(f)>>] /\ UNCHANGED <<small, owner, depth>>
  BY DEF Begin
<1> QED
  BY <1>1, <1>3, <1>8, <1>9, StepKeepsMutexes

LEMMA EnterStep ==
  ASSUME OrderInv, ~SharedClones, OneSmall, NEW t \in Threads, Enter(t)
  PROVE  OrderInv'
<1>1. PICK g, e \in Depths, x \in Instructions, v \in Seq(Instructions) :
         /\ g = Holds(t) /\ x = left[t][1] /\ v = Tail(left[t])
         /\ x \in Instructions /\ Fits(x, g, e) /\ Runs(v, e, NoneHeld)
  BY NextInstruction DEF Enter, At
<1>2. x.op = "call"
  BY <1>1 DEF Enter, At
<1>3. e = g /\ MayEnter(x.arg, g)
  BY <1>1, <1>2 DEF Fits
<1>4. x.arg \in Methods
  BY <1>3 DEF MayEnter, Methods, Public
<1>5. PICK w \in Ways(x.arg) : left' = [left EXCEPT ![t] = w \o v]
  BY <1>1 DEF Enter, Arg, OrderInv, LeftRuns
<1>6. Runs(w, g, g)
  BY <1>3, <1>4, WaysFine DEF Fine
<1>7. Runs(w \o v, g, NoneHeld)
  <2>1. NoneHeld \in Depths
    BY DEF NoneHeld, Depths
  <2> QED
    BY <1>1, <1>3, <1>6, <2>1, RunsThen
<1>8. UNCHANGED <<small, owner, depth>>
  BY DEF Enter
<1>9. PICK y : y = w \o v
  OBVIOUS
<1> QED
  BY <1>1, <1>5, <1>7, <1>8, <1>9, StepKeepsMutexes

LEMMA PassStep ==
  ASSUME OrderInv, NEW t \in Threads, PassSection(t) \/ UseData(t)
  PROVE  OrderInv'
<1>1. PICK g, e \in Depths, x \in Instructions, v \in Seq(Instructions) :
         /\ g = Holds(t) /\ x = left[t][1] /\ v = Tail(left[t])
         /\ x \in Instructions /\ Fits(x, g, e) /\ Runs(v, e, NoneHeld)
  BY NextInstruction DEF PassSection, UseData, At
<1>2. x.op \in {"section", "touch"}
  BY <1>1 DEF PassSection, UseData, At
<1>3. e = g
  BY <1>1, <1>2 DEF Fits
<1>4. left' = [left EXCEPT ![t] = v] /\ UNCHANGED <<small, owner, depth>>
  BY <1>1 DEF PassSection, UseData, Advance, OrderInv, LeftRuns
<1> QED
  BY <1>1, <1>3, <1>4, StepKeepsMutexes

LEMMA AcquireStep ==
  ASSUME OrderInv, NEW t \in Threads, Acquire(t)
  PROVE  OrderInv'
<1>1. PICK g, e \in Depths, x \in Instructions, v \in Seq(Instructions) :
         /\ g = Holds(t) /\ x = left[t][1] /\ v = Tail(left[t])
         /\ x \in Instructions /\ Fits(x, g, e) /\ Runs(v, e, NoneHeld)
  BY NextInstruction DEF Acquire, At
<1>2. x.op = "lock"
  BY <1>1 DEF Acquire, At
<1>3. PICK m \in Mutexes : m = x.arg /\ e = Plus(g, m)
  BY <1>1, <1>2 DEF Fits
<1>4. /\ owner[m] \in {Nobody, t}
      /\ owner' = [owner EXCEPT ![m] = t]
      /\ depth' = [depth EXCEPT ![m] = depth[m] + 1]
      /\ left' = [left EXCEPT ![t] = v] /\ UNCHANGED small
  BY <1>1, <1>3 DEF Acquire, Advance, Arg, Free, OrderInv, LeftRuns, OwnersOK
<1>5. OwnersOK
  BY DEF OrderInv
<1>6. OwnersOK'
  BY <1>4, <1>5, NobodyAssumption DEF OwnersOK
<1>7. Holds(t)' = e
  <2>1. \A k \in Mutexes : Holds(t)'[k] = IF k = m THEN g[k] + 1 ELSE g[k]
    <3>1. g[m] = depth[m]
      BY <1>1, <1>4, <1>5, NobodyAssumption DEF Holds, OwnersOK
    <3> QED
      BY <1>1, <1>4, <1>5, <3>1 DEF Holds, OwnersOK
  <2>2. \A k \in Mutexes : e[k] = IF k = m THEN g[k] + 1 ELSE g[k]
    BY <1>3, PlusType
  <2>3. PICK h : h = Holds(t)' /\ h = [k \in Mutexes |-> h[k]]
    BY DEF Holds
  <2>4. e = [k \in Mutexes |-> e[k]]
    BY <1>1 DEF Depths
  <2>5. \A k \in Mutexes : h[k] = e[k]
    BY <2>1, <2>2, <2>3
  <2> QED
    BY <2>3, <2>4, <2>5
<1>8. ASSUME NEW u \in Threads \ {t} PROVE Holds(u)' = Holds(u)
  BY <1>4, <1>5, NobodyAssumption DEF Holds, OwnersOK
<1> QED
  BY <1>1, <1>4, <1>6, <1>7, <1>8, ThreadStep

LEMMA ReleaseStep ==
  ASSUME OrderInv, NEW t \in Threads, Release(t)
  PROVE  OrderInv'
<1>1. PICK g, e \in Depths, x \in Instructions, v \in Seq(Instructions) :
         /\ g = Holds(t) /\ x = left[t][1] /\ v = Tail(left[t])
         /\ x \in Instructions /\ Fits(x, g, e) /\ Runs(v, e, NoneHeld)
  BY NextInstruction DEF Release, At
<1>2. x.op = "unlock"
  BY <1>1 DEF Release, At
<1>3. PICK m \in Mutexes : m = x.arg /\ g = Plus(e, m)
  BY <1>1, <1>2 DEF Fits
<1>4. /\ depth' = [depth EXCEPT ![m] = depth[m] - 1]
      /\ owner' = IF depth[m] = 1 THEN [owner EXCEPT ![m] = Nobody] ELSE owner
      /\ left' = [left EXCEPT ![t] = v] /\ UNCHANGED small
  BY <1>1, <1>3 DEF Release, Advance, Arg, OrderInv, LeftRuns, OwnersOK
<1>5. OwnersOK
  BY DEF OrderInv
<1>6. \A k \in Mutexes : g[k] = IF k = m THEN e[k] + 1 ELSE e[k]
  BY <1>3, PlusType
<1>7. owner[m] = t /\ depth[m] = e[m] + 1 /\ e[m] \in Nat
  <2>1. g[m] = e[m] + 1 /\ e[m] \in Nat
    BY <1>6 DEF Depths
  <2> QED
    BY <1>1, <2>1 DEF Holds
<1>8. OwnersOK'
  <2>1. depth' = [depth EXCEPT ![m] = e[m]] /\ depth' \in [Mutexes -> Nat]
    <3>1. depth[m] - 1 = e[m]
      BY <1>7
    <3>2. depth' = [depth EXCEPT ![m] = e[m]]
      BY <1>4, <3>1
    <3> QED
      BY <1>5, <1>7, <3>2 DEF OwnersOK
  <2>2. owner' = IF e[m] = 0 THEN [owner EXCEPT ![m] = Nobody] ELSE owner
    BY <1>4, <1>7
  <2>3. owner' \in [Mutexes -> Threads \cup {Nobody}]
    BY <1>5, <2>2 DEF OwnersOK
  <2>4. ASSUME NEW k \in Mutexes PROVE owner'[k] = Nobody <=> depth'[k] = 0
    <3>1. CASE k = m
      BY <1>5, <1>7, <2>1, <2>2, <3>1, NobodyAssumption DEF OwnersOK
    <3>2. CASE k # m
      BY <1>5, <2>1, <2>2, <3>2 DEF OwnersOK
    <3> QED
      BY <3>1, <3>2
  <2> QED
    BY <2>1, <2>3, <2>4 DEF OwnersOK
<1>9. Holds(t)' = e
  <2>1. \A k \in Mutexes : Holds(t)'[k] = e[k]
    <3>1. Holds(t)'[m] = e[m]
      BY <1>4, <1>5, <1>7, NobodyAssumption DEF Holds, OwnersOK
    <3>2. \A k \in Mutexes \ {m} : Holds(t)'[k] = g[k]
      BY <1>1, <1>4, <1>5 DEF Holds, OwnersOK
    <3> QED
      BY <1>6, <3>1, <3>2
  <2> QED
    BY <2>1 DEF Holds, Depths
<1>10. ASSUME NEW u \in Threads \ {t} PROVE Holds(u)' = Holds(u)
  BY <1>4, <1>5, <1>7, NobodyAssumption DEF Holds, OwnersOK
<1> QED
  BY <1>1, <1>4, <1>8, <1>9, <1>10, ThreadStep

LEMMA InvNext == ASSUME Orderly PROVE OrderInv /\ [Next]_vars => OrderInv'
<1> SUFFICES ASSUME OrderInv, [Next]_vars PROVE OrderInv'
  OBVIOUS
<1>0. ~Mixed /\ ~SharedClones /\ OneSmall
  BY DEF Orderly, OneSmall, OrderInv
<1>1. ASSUME NEW t \in Threads, NEW f \in Calls, Begin(t, f) PROVE OrderInv'
  BY <1>0, <1>1, BeginStep
<1>2. ASSUME NEW t \in Threads, Enter(t) PROVE OrderInv'
  BY <1>0, <1>2, EnterStep
<1>3. ASSUME NEW t \in Threads, Acquire(t) PROVE OrderInv'
  BY <1>3, AcquireStep
<1>4. ASSUME NEW t \in Threads, Release(t) PROVE OrderInv'
  BY <1>4, ReleaseStep
<1>5. ASSUME NEW t \in Threads, PassSection(t) \/ UseData(t) PROVE OrderInv'
  BY <1>5, PassStep
<1>6. ASSUME UNCHANGED vars PROVE OrderInv'
  <2>1. UNCHANGED small /\ left' = left /\ owner' = owner /\ depth' = depth
    BY <1>6 DEF vars
  <2>2. OwnersOK' /\ \A u \in Threads : Holds(u)' = Holds(u)
    BY <2>1 DEF OrderInv, OwnersOK, Holds
  <2>3. ASSUME NEW u \in Threads PROVE Runs(left[u], Holds(u), NoneHeld)'
    <3>1. PICK v, h : v = left[u] /\ h = Holds(u)
      OBVIOUS
    <3>2. Runs(v, h, NoneHeld)
      BY <3>1 DEF OrderInv, LeftRuns
    <3>3. Runs(v, h, NoneHeld)'
      BY <2>1, <3>2, RunsKept
    <3> QED
      BY <2>1, <2>2, <3>1, <3>3
  <2> QED
    BY <2>1, <2>2, <2>3 DEF OrderInv, LeftRuns
<1> QED
  BY <1>1, <1>2, <1>3, <1>4, <1>5, <1>6 DEF Next

LEMMA Inductive == ASSUME Orderly PROVE Spec => []OrderInv
BY InvInit, InvNext, PTL DEF Spec

\* While at most one space is too small, threads take their mutexes in one order,
\* all through what they call: for any number of threads and any calls.
THEOREM TakenInOrder == ASSUME Orderly PROVE Spec => []Ranked
BY Inductive, InvRanked, PTL

\* So they never wait for each other.
THEOREM NoThreadsStuck == ASSUME Orderly PROVE Spec => []NoDeadlock
BY TakenInOrder, OrderedNoDeadlock, PTL

\* And the lists of empty pages, the tables of the frames, the vacancy table and
\* the map of the shared segments are only used under the mutex of each.
THEOREM GuardedData ==
  ASSUME Orderly, Watched \subseteq Guarded
  PROVE  Spec => []NoRace
<1>1. OrderInv => NoRace
  BY InvNoRace
<1> QED
  BY <1>1, Inductive, PTL
=============================================================================
