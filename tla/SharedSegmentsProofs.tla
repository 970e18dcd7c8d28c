------------------------- MODULE SharedSegmentsProofs -------------------------
(***************************************************************************)
(* For any number of processes, places and names: registry and processes   *)
(* agree, no HALT is reached, and the shared segments implement their      *)
(* registry, as long as clients map a segment at most once in a process    *)
(* and give it up before the process ends.                                 *)
(***************************************************************************)
EXTENDS SharedSegments, NumberFacts, SequenceTheorems

------------------------------------------------------------------------------
(* The vector of indices.                                                  *)

Among(x, q) == \E i \in DOMAIN q : q[i] = x

\* The empty elements of v, which has n of them and others, are q in this order.
Chain(v, n, m, q) ==
  /\ v.first = IF m = 0 THEN -1 ELSE q[1]
  /\ \A i \in 1 .. m : v.next[q[i]] = IF i = m THEN -1 ELSE q[i + 1]
  /\ \A i, j \in 1 .. m : q[i] = q[j] => i = j
  /\ \A k \in 0 .. n - 1 : v.next[k] # -2 <=> \E i \in 1 .. m : q[i] = k

\* v is a vector with n elements.
Vector(v, n) ==
  /\ v.next \in [0 .. n - 1 -> Int]
  /\ v.data \in [0 .. n - 1 -> Names \cup {Nil}]
  /\ \E m \in Nat : \E q \in [1 .. m -> 0 .. n - 1] : Chain(v, n, m, q)

LEMMA VectorFrom ==
  ASSUME NEW v, NEW n, v.next \in [0 .. n - 1 -> Int],
         v.data \in [0 .. n - 1 -> Names \cup {Nil}],
         NEW m \in Nat, NEW q \in [1 .. m -> 0 .. n - 1], Chain(v, n, m, q)
  PROVE  Vector(v, n)
<1>1. \E r \in [1 .. m -> 0 .. n - 1] : Chain(v, n, m, r)
  OBVIOUS
<1> QED
  BY <1>1 DEF Vector

LEMMA VectorSize ==
  ASSUME NEW v, NEW n \in Nat, Vector(v, n)
  PROVE  Vec!Size(v) = n /\ DOMAIN v.next = 0 .. n - 1 /\ DOMAIN v.data = 0 .. n - 1
<1>1. DOMAIN v.next = 0 .. n - 1 /\ DOMAIN v.data = 0 .. n - 1
  BY DEF Vector
<1>2. Cardinality(0 .. n - 1) = n
  BY FS_Interval
<1>3. Vec!Size(v) = Cardinality(DOMAIN v.next)
  BY Zenon DEF Vec!Size, Vec!Cardinality, Cardinality
<1> QED
  BY <1>1, <1>2, <1>3

LEMMA NewVector == Vector(Vec!New, 1) /\ Vec!New.first # -1
<1> DEFINE q == [i \in 1 .. 1 |-> 0]
<1>1. q \in [1 .. 1 -> 0 .. 1 - 1] /\ q[1] = 0
  OBVIOUS
<1>2. /\ Vec!New.first = 0 /\ Vec!New.next \in [0 .. 1 - 1 -> Int]
      /\ Vec!New.data \in [0 .. 1 - 1 -> Names \cup {Nil}] /\ Vec!New.next[0] = -1
  <2>1. {0} = 0 .. 1 - 1
    OBVIOUS
  <2> QED
    BY <2>1 DEF Vec!New, Vec!EOL
<1>3. \A k \in 0 .. 1 - 1 : k = 0
  OBVIOUS
<1>4. \A i \in 1 .. 1 : i = 1
  OBVIOUS
<1> HIDE DEF q
<1>5. Chain(Vec!New, 1, 1, q)
  BY <1>1, <1>2, <1>3, <1>4 DEF Chain
<1>6. Vector(Vec!New, 1)
  BY <1>1, <1>2, <1>5, VectorFrom
<1> QED
  BY <1>2, <1>6

\* insert into a vector with no empty element makes a new one.
LEMMA InsertNew ==
  ASSUME NEW v, NEW n \in Nat, Vector(v, n), v.first = -1, NEW x \in Names
  PROVE  /\ Vector(Vec!Insert(v, x), n + 1)
         /\ Vec!InsertAt(v) = n /\ n \notin DOMAIN v.next
         /\ Vec!Insert(v, x).first = -1
         /\ Vec!Insert(v, x).next[n] = -2 /\ Vec!Insert(v, x).data[n] = x
         /\ \A k \in 0 .. n - 1 : /\ Vec!Insert(v, x).next[k] = v.next[k]
                                  /\ Vec!Insert(v, x).data[k] = v.data[k]
<1> DEFINE w == Vec!Insert(v, x)
<1>0. DOMAIN v.next = 0 .. n - 1 /\ Vec!InsertAt(v) = n
  BY VectorSize DEF Vec!InsertAt, Vec!EOL
<1>1. (0 .. n - 1) \cup {n} = 0 .. n
  OBVIOUS
<1>2. /\ w.first = -1
      /\ w.next = [i \in 0 .. n |-> IF i = n THEN -2 ELSE v.next[i]]
      /\ w.data = [i \in 0 .. n |-> IF i = n THEN x ELSE v.data[i]]
  BY <1>0, <1>1 DEF Vec!Insert, Vec!EOL, Vec!Filled
<1> HIDE DEF w
<1>3. w.next \in [0 .. n -> Int] /\ w.data \in [0 .. n -> Names \cup {Nil}]
  <2>1. v.next \in [0 .. n - 1 -> Int] /\ v.data \in [0 .. n - 1 -> Names \cup {Nil}]
    BY DEF Vector
  <2> QED
    BY <1>2, <2>1
<1>m. PICK m \in Nat : \E q \in [1 .. m -> 0 .. n - 1] : Chain(v, n, m, q)
  BY DEF Vector
<1>4. PICK q \in [1 .. m -> 0 .. n - 1] : Chain(v, n, m, q)
  BY <1>m
<1>5. m = 0
  <2> SUFFICES ASSUME m # 0 PROVE FALSE
    OBVIOUS
  <2>1. 1 \in 1 .. m /\ v.first = q[1] /\ q[1] \in 0 .. n - 1
    BY <1>4 DEF Chain
  <2> QED
    BY <2>1
<1>6. \A k \in 0 .. n - 1 : v.next[k] = -2
  BY <1>4, <1>5 DEF Chain
<1>7. \A k \in 0 .. n : w.next[k] = -2
  BY <1>2, <1>6
<1>8. (n + 1) - 1 = n /\ 1 .. 0 = {}
  OBVIOUS
<1>9. q \in [1 .. m -> 0 .. n] /\ Chain(w, n + 1, m, q)
  BY <1>2, <1>4, <1>5, <1>7, <1>8 DEF Chain
<1>10. Vector(w, n + 1)
  BY <1>3, <1>8, <1>9, VectorFrom
<1> QED
  BY <1>0, <1>2, <1>10 DEF w

\* insert into a vector with empty elements fills the first of them.
LEMMA InsertFirst ==
  ASSUME NEW v, NEW n \in Nat, Vector(v, n), v.first # -1, NEW x \in Names
  PROVE  /\ Vector(Vec!Insert(v, x), n)
         /\ Vec!InsertAt(v) = v.first /\ v.first \in 0 .. n - 1
         /\ v.next[v.first] # -2
         /\ Vec!Insert(v, x).next[v.first] = -2 /\ Vec!Insert(v, x).data[v.first] = x
         /\ \A k \in (0 .. n - 1) \ {v.first} :
              /\ Vec!Insert(v, x).next[k] = v.next[k]
              /\ Vec!Insert(v, x).data[k] = v.data[k]
<1> DEFINE w == Vec!Insert(v, x)
<1>0. DOMAIN v.next = 0 .. n - 1 /\ Vec!InsertAt(v) = v.first
  BY VectorSize DEF Vec!InsertAt, Vec!EOL
<1>m. PICK m \in Nat : \E q \in [1 .. m -> 0 .. n - 1] : Chain(v, n, m, q)
  BY DEF Vector
<1>1. PICK q \in [1 .. m -> 0 .. n - 1] : Chain(v, n, m, q)
  BY <1>m
<1>2. m # 0 /\ v.first = q[1] /\ 1 \in 1 .. m /\ q[1] \in 0 .. n - 1
  BY <1>1 DEF Chain
<1>3. (0 .. n - 1) \cup {v.first} = 0 .. n - 1
  BY <1>2
<1>4. /\ w.first = v.next[v.first]
      /\ w.next = [i \in 0 .. n - 1 |-> IF i = v.first THEN -2 ELSE v.next[i]]
      /\ w.data = [i \in 0 .. n - 1 |-> IF i = v.first THEN x ELSE v.data[i]]
  BY <1>0, <1>3 DEF Vec!Insert, Vec!EOL, Vec!Filled, Vec!AfterFirst
<1> HIDE DEF w
<1>5. w.next \in [0 .. n - 1 -> Int] /\ w.data \in [0 .. n - 1 -> Names \cup {Nil}]
  BY <1>4 DEF Vector
<1> DEFINE r == [i \in 1 .. m - 1 |-> q[i + 1]]
<1>6. r \in [1 .. m - 1 -> 0 .. n - 1] /\ m - 1 \in Nat
      /\ \A i \in 1 .. m - 1 : r[i] = q[i + 1] /\ i + 1 \in 1 .. m /\ r[i] # q[1]
  BY <1>1, <1>2 DEF Chain
<1> HIDE DEF r
<1>7. w.first = IF m - 1 = 0 THEN -1 ELSE r[1]
  BY <1>1, <1>2, <1>4, <1>6 DEF Chain
<1>8. ASSUME NEW i \in 1 .. m - 1
      PROVE  w.next[r[i]] = IF i = m - 1 THEN -1 ELSE r[i + 1]
  <2>1. i + 1 \in 1 .. m /\ r[i] \in 0 .. n - 1 /\ r[i] # v.first /\ r[i] = q[i + 1]
    BY <1>2, <1>6
  <2>2. w.next[r[i]] = v.next[q[i + 1]]
    BY <1>4, <2>1
  <2>3. v.next[q[i + 1]] = IF i + 1 = m THEN -1 ELSE q[(i + 1) + 1]
    BY <1>1, <2>1 DEF Chain
  <2>4. i # m - 1 => i + 1 \in 1 .. m - 1
    OBVIOUS
  <2>5. i # m - 1 => r[i + 1] = q[(i + 1) + 1]
    BY <1>6, <2>4
  <2> QED
    BY <2>2, <2>3, <2>5
<1>9. \A i, j \in 1 .. m - 1 : r[i] = r[j] => i = j
  <2> SUFFICES ASSUME NEW i \in 1 .. m - 1, NEW j \in 1 .. m - 1, r[i] = r[j]
               PROVE  i = j
    OBVIOUS
  <2>1. i + 1 = j + 1
    BY <1>1, <1>6 DEF Chain
  <2> QED
    BY <2>1
<1>10. ASSUME NEW k \in 0 .. n - 1
       PROVE  w.next[k] # -2 <=> \E i \in 1 .. m - 1 : r[i] = k
  <2>1. CASE k = v.first
    BY <1>2, <1>4, <1>6, <2>1
  <2>2. CASE k # v.first
    <3>1. w.next[k] = v.next[k]
      BY <1>4, <2>2
    <3>2. v.next[k] # -2 <=> \E i \in 1 .. m : q[i] = k
      BY <1>1 DEF Chain
    <3>3. ASSUME NEW i \in 1 .. m, q[i] = k PROVE \E j \in 1 .. m - 1 : r[j] = k
      <4>1. i # 1 /\ i - 1 \in 1 .. m - 1 /\ (i - 1) + 1 = i
        BY <1>2, <2>2, <3>3
      <4> QED
        BY <1>6, <3>3, <4>1
    <3>4. ASSUME NEW j \in 1 .. m - 1, r[j] = k PROVE \E i \in 1 .. m : q[i] = k
      BY <1>6, <3>4
    <3> QED
      BY <3>1, <3>2, <3>3, <3>4
  <2> QED
    BY <2>1, <2>2
<1>11. Chain(w, n, m - 1, r)
  BY <1>7, <1>8, <1>9, <1>10 DEF Chain
<1>12. Vector(w, n)
  BY <1>5, <1>6, <1>11, VectorFrom
<1>13. v.next[v.first] # -2
  BY <1>1, <1>2 DEF Chain
<1> QED
  BY <1>0, <1>2, <1>4, <1>12, <1>13 DEF w

\* mark_empty puts an element that was filled in front of the empty ones.
LEMMA MarkFirst ==
  ASSUME NEW v, NEW n \in Nat, Vector(v, n), NEW e \in 0 .. n - 1, v.next[e] = -2
  PROVE  /\ Vector(Vec!MarkEmpty(v, e), n)
         /\ Vec!MarkEmpty(v, e).first = e
         /\ Vec!MarkEmpty(v, e).next[e] # -2
         /\ \A k \in (0 .. n - 1) \ {e} :
              /\ Vec!MarkEmpty(v, e).next[k] = v.next[k]
              /\ Vec!MarkEmpty(v, e).data[k] = v.data[k]
<1> DEFINE w == Vec!MarkEmpty(v, e)
<1>m. PICK m \in Nat : \E q \in [1 .. m -> 0 .. n - 1] : Chain(v, n, m, q)
  BY DEF Vector
<1>1. PICK q \in [1 .. m -> 0 .. n - 1] : Chain(v, n, m, q)
  BY <1>m
<1>2. /\ w.first = e
      /\ w.next = [v.next EXCEPT ![e] = v.first]
      /\ w.data = [v.data EXCEPT ![e] = Nil]
  BY DEF Vec!MarkEmpty, Vec!IsEmpty, Vec!Filled, Vec!LinkOf
<1> HIDE DEF w
<1>3. v.first \in Int /\ v.first # -2 /\ (m # 0 => v.first = q[1] /\ q[1] \in 0 .. n - 1)
  BY <1>1 DEF Chain
<1>4. w.next \in [0 .. n - 1 -> Int] /\ w.data \in [0 .. n - 1 -> Names \cup {Nil}]
  <2>1. v.next \in [0 .. n - 1 -> Int] /\ v.data \in [0 .. n - 1 -> Names \cup {Nil}]
    BY DEF Vector
  <2>2. w.next \in [0 .. n - 1 -> Int]
    BY <1>2, <1>3, <2>1
  <2>3. w.data \in [0 .. n - 1 -> Names \cup {Nil}]
    BY <1>2, <2>1
  <2> QED
    BY <2>2, <2>3
<1> DEFINE r == [i \in 1 .. m + 1 |-> IF i = 1 THEN e ELSE q[i - 1]]
<1>5. /\ r \in [1 .. m + 1 -> 0 .. n - 1] /\ r[1] = e
      /\ \A i \in 1 .. m : r[i + 1] = q[i]
  <2>1. \A i \in 1 .. m + 1 : i # 1 => i - 1 \in 1 .. m
    OBVIOUS
  <2>2. r \in [1 .. m + 1 -> 0 .. n - 1]
    BY <2>1
  <2> QED
    BY <2>2
<1>6. \A i \in 1 .. m : q[i] # e
  BY <1>1 DEF Chain
<1> HIDE DEF r
<1>7. \A i \in 1 .. m + 1 : i = 1 \/ \E j \in 1 .. m : i = j + 1
  <2> SUFFICES ASSUME NEW i \in 1 .. m + 1, i # 1 PROVE \E j \in 1 .. m : i = j + 1
    OBVIOUS
  <2>1. i - 1 \in 1 .. m /\ i = (i - 1) + 1
    OBVIOUS
  <2> QED
    BY <2>1
<1>8. ASSUME NEW i \in 1 .. m + 1
      PROVE  w.next[r[i]] = IF i = m + 1 THEN -1 ELSE r[i + 1]
  <2>1. CASE i = 1
    <3>1. w.next[r[i]] = v.first
      BY <1>2, <1>5, <2>1 DEF Vector
    <3>2. m = 0 => v.first = -1
      BY <1>1 DEF Chain
    <3>3. m # 0 => 1 \in 1 .. m
      OBVIOUS
    <3>4. m # 0 => r[1 + 1] = q[1]
      BY <1>5, <3>3
    <3> QED
      BY <1>3, <2>1, <3>1, <3>2, <3>4
  <2>2. ASSUME NEW j \in 1 .. m, i = j + 1
        PROVE  w.next[r[i]] = IF i = m + 1 THEN -1 ELSE r[i + 1]
    <3>1. r[i] = q[j] /\ q[j] # e /\ q[j] \in 0 .. n - 1
      BY <1>5, <1>6, <2>2
    <3>a. w.next[q[j]] = v.next[q[j]]
      BY <1>2, <3>1 DEF Vector
    <3>2. w.next[r[i]] = IF j = m THEN -1 ELSE q[j + 1]
      BY <1>1, <3>1, <3>a DEF Chain
    <3>3. j # m => j + 1 \in 1 .. m
      OBVIOUS
    <3>4. j # m => r[(j + 1) + 1] = q[j + 1]
      BY <1>5, <3>3
    <3> QED
      BY <2>2, <3>2, <3>4
  <2> QED
    BY <1>7, <2>1, <2>2
<1>9. \A i, j \in 1 .. m + 1 : r[i] = r[j] => i = j
  <2> SUFFICES ASSUME NEW i \in 1 .. m + 1, NEW j \in 1 .. m + 1, r[i] = r[j]
               PROVE  i = j
    OBVIOUS
  <2>1. \A a, b \in 1 .. m : q[a] = q[b] => a = b
    BY <1>1 DEF Chain
  <2>2. CASE i = 1 /\ j = 1
    BY <2>2
  <2>3. ASSUME i = 1, NEW b \in 1 .. m, j = b + 1 PROVE FALSE
    BY <1>5, <1>6, <2>3
  <2>4. ASSUME j = 1, NEW a \in 1 .. m, i = a + 1 PROVE FALSE
    BY <1>5, <1>6, <2>4
  <2>5. ASSUME NEW a \in 1 .. m, NEW b \in 1 .. m, i = a + 1, j = b + 1 PROVE i = j
    <3>1. r[a + 1] = q[a] /\ r[b + 1] = q[b]
      BY <1>5
    <3>2. q[a] = q[b]
      BY <2>5, <3>1
    <3> QED
      BY <2>1, <2>5, <3>2
  <2> QED
    BY <1>7, <2>2, <2>3, <2>4, <2>5
<1>10. ASSUME NEW k \in 0 .. n - 1
       PROVE  w.next[k] # -2 <=> \E i \in 1 .. m + 1 : r[i] = k
  <2>1. CASE k = e
    <3>1. 1 \in 1 .. m + 1
      OBVIOUS
    <3> QED
      BY <1>2, <1>3, <1>5, <2>1, <3>1 DEF Vector
  <2>2. CASE k # e
    <3>1. w.next[k] = v.next[k]
      BY <1>2, <2>2 DEF Vector
    <3>2. v.next[k] # -2 <=> \E i \in 1 .. m : q[i] = k
      BY <1>1 DEF Chain
    <3>3. ASSUME NEW i \in 1 .. m, q[i] = k PROVE \E j \in 1 .. m + 1 : r[j] = k
      <4>1. i + 1 \in 1 .. m + 1
        OBVIOUS
      <4> QED
        BY <1>5, <3>3, <4>1
    <3>4. ASSUME NEW j \in 1 .. m + 1, r[j] = k PROVE \E i \in 1 .. m : q[i] = k
      BY <1>5, <1>7, <2>2, <3>4
    <3> QED
      BY <3>1, <3>2, <3>3, <3>4
  <2> QED
    BY <2>1, <2>2
<1>11. Chain(w, n, m + 1, r)
  <2>1. m + 1 # 0
    OBVIOUS
  <2> QED
    BY <1>2, <1>5, <1>8, <1>9, <1>10, <2>1 DEF Chain
<1>12. Vector(w, n)
  <2>1. m + 1 \in Nat
    OBVIOUS
  <2> QED
    BY <1>4, <1>5, <1>11, <2>1, VectorFrom
<1>13. w.next[e] # -2 /\ \A k \in (0 .. n - 1) \ {e} :
         w.next[k] = v.next[k] /\ w.data[k] = v.data[k]
  BY <1>2, <1>3 DEF Vector
<1> QED
  BY <1>2, <1>12, <1>13 DEF w

\* Following the links from the first empty element one comes to all of them.
LEMMA VectorLinked ==
  ASSUME NEW v, NEW n \in Nat, Vector(v, n)
  PROVE  Vec!WellLinked(v)
<1>m. PICK m \in Nat : \E q \in [1 .. m -> 0 .. n - 1] : Chain(v, n, m, q)
  BY DEF Vector
<1>1. PICK q \in [1 .. m -> 0 .. n - 1] : Chain(v, n, m, q)
  BY <1>m
<1>2. Vec!Size(v) = n /\ DOMAIN v.next = 0 .. n - 1
  BY VectorSize
<1>3. m <= n
  <2> SUFFICES ASSUME n < m PROVE FALSE
    OBVIOUS
  <2>1. IsFiniteSet(1 .. m) /\ IsFiniteSet(0 .. n - 1) /\ Cardinality(1 .. m) = m
        /\ Cardinality(0 .. n - 1) = n
    BY FS_Interval
  <2>2. PICK i, j \in 1 .. m : i # j /\ q[i] = q[j]
    BY <2>1, FS_PigeonHole
  <2> QED
    BY <1>1, <2>2 DEF Chain
<1> DEFINE Along(s) == [k \in 0 .. n |->
               IF k = 0 THEN v.first
               ELSE IF s[k - 1] \in 0 .. n - 1 THEN v.next[s[k - 1]] ELSE -1]
           step == CHOOSE s : s = Along(s)
           f == [k \in 0 .. n |-> IF k < m THEN q[k + 1] ELSE -1]
<1>4. f = Along(f)
  <2>1. ASSUME NEW k \in 0 .. n PROVE f[k] = Along(f)[k]
    <3>1. CASE k = 0
      BY <1>1, <3>1 DEF Chain
    <3>2. CASE k # 0 /\ k - 1 < m
      <4>1. k \in 1 .. m /\ k - 1 \in 0 .. n /\ q[k] \in 0 .. n - 1
        BY <3>2
      <4>2. f[k - 1] = q[k]
        BY <3>2, <4>1
      <4>3. v.next[q[k]] = IF k = m THEN -1 ELSE q[k + 1]
        BY <1>1, <4>1 DEF Chain
      <4> QED
        BY <3>2, <4>1, <4>2, <4>3
    <3>3. CASE k # 0 /\ ~(k - 1 < m)
      <4>1. k - 1 \in 0 .. n /\ f[k - 1] = -1 /\ ~(k < m)
        BY <3>3
      <4> QED
        BY <3>3, <4>1
    <3> QED
      BY <3>1, <3>2, <3>3
  <2> QED
    BY <2>1
<1>5. step = Along(step)
  BY <1>4
<1>6. \A k \in 0 .. n : step[k] = f[k]
  <2> HIDE DEF step, f
  <2> DEFINE S == {k \in Nat : k <= n => step[k] = f[k]}
  <2>1. 0 \in S
    BY <1>4, <1>5
  <2>2. ASSUME NEW k \in Nat, k \in S PROVE k + 1 \in S
    <3> SUFFICES ASSUME k + 1 <= n PROVE step[k + 1] = f[k + 1]
      OBVIOUS
    <3>1. step[k] = f[k] /\ k + 1 \in 0 .. n /\ (k + 1) - 1 = k /\ k + 1 # 0
      BY <2>2
    <3>2. step[k + 1] = IF step[k] \in 0 .. n - 1 THEN v.next[step[k]] ELSE -1
      BY <1>5, <3>1
    <3>3. f[k + 1] = IF f[k] \in 0 .. n - 1 THEN v.next[f[k]] ELSE -1
      BY <1>4, <3>1
    <3> QED
      BY <3>1, <3>2, <3>3
  <2>3. Nat \subseteq S
    <3> HIDE DEF S
    <3> QED
      BY <2>1, <2>2, Induction
  <2> QED
    BY <2>3
<1>7. f[n] = -1 /\ {f[k] : k \in 0 .. n} \ {-1} = {k \in DOMAIN v.next : Vec!IsEmpty(v, k)}
  <2>1. f[n] = -1
    BY <1>3
  <2>2. ASSUME NEW k \in 0 .. n, f[k] # -1
        PROVE  f[k] \in DOMAIN v.next /\ Vec!IsEmpty(v, f[k])
    <3>1. k < m /\ f[k] = q[k + 1] /\ k + 1 \in 1 .. m
      BY <2>2
    <3>2. q[k + 1] \in 0 .. n - 1 /\ v.next[q[k + 1]] # -2
      BY <1>1, <3>1 DEF Chain
    <3> QED
      BY <1>2, <3>1, <3>2 DEF Vec!IsEmpty, Vec!Filled
  <2>3. ASSUME NEW e \in 0 .. n - 1, Vec!IsEmpty(v, e)
        PROVE  \E k \in 0 .. n : f[k] = e /\ e # -1
    <3>1. PICK i \in 1 .. m : q[i] = e
      BY <1>1, <2>3 DEF Chain, Vec!IsEmpty, Vec!Filled
    <3>2. i - 1 \in 0 .. n /\ i - 1 < m /\ (i - 1) + 1 = i
      BY <1>3
    <3>3. f[i - 1] = q[i]
      BY <3>2
    <3>4. e # -1
      OBVIOUS
    <3> QED
      BY <3>1, <3>2, <3>3, <3>4
  <2> QED
    BY <1>2, <2>1, <2>2, <2>3
<1> HIDE DEF step, f
<1>8. step[n] = -1 /\ {step[k] : k \in 0 .. n} \ {-1} = {k \in DOMAIN v.next : Vec!IsEmpty(v, k)}
  <2>1. n \in 0 .. n /\ {step[k] : k \in 0 .. n} = {f[k] : k \in 0 .. n}
    BY <1>6
  <2> QED
    BY <1>6, <1>7, <2>1
<1>9. Vec!WellLinked(v) <=>
        (step[n] = -1 /\ {step[k] : k \in 0 .. n} \ {-1} = {k \in DOMAIN v.next : Vec!IsEmpty(v, k)})
  BY <1>2 DEF Vec!WellLinked, step, Vec!EOL
<1> QED
  BY <1>8, <1>9

------------------------------------------------------------------------------
(* Lists of users.                                                         *)

LEMMA RangeOf ==
  ASSUME NEW S, NEW q \in Seq(S)
  PROVE  /\ DOMAIN q = 1 .. Len(q) /\ Len(q) \in Nat
         /\ \A x : x \in Range(q) <=> \E i \in 1 .. Len(q) : q[i] = x
         /\ Range(q) \subseteq S
BY ElementOfSeq DEF Range

\* An element less.
LEMMA Removed ==
  ASSUME NEW S, NEW q \in Seq(S), IsInjective(q), NEW k \in 1 .. Len(q)
  PROVE  /\ RemoveAt(q, k) \in Seq(S)
         /\ IsInjective(RemoveAt(q, k))
         /\ Range(RemoveAt(q, k)) = Range(q) \ {q[k]}
<1> DEFINE a == SubSeq(q, 1, k - 1)
           b == SubSeq(q, k + 1, Len(q))
           r == a \o b
<1>1. PICK n \in Nat : n = Len(q)
  OBVIOUS
<1>2. /\ a \in Seq(S) /\ Len(a) = k - 1
      /\ \A i \in 1 .. k - 1 : a[i] = q[i]
  <2>1. \A i \in 1 .. k - 1 : i \in 1 .. Len(q)
    BY <1>1
  <2>2. 1 \in 1 .. Len(q) + 1 /\ k - 1 \in 0 .. Len(q)
    BY <1>1
  <2> QED
    BY <1>1, <2>1, <2>2, SubSeqProperties
<1>3. /\ b \in Seq(S) /\ Len(b) = n - k
      /\ \A i \in 1 .. n - k : b[i] = q[k + i]
  <2>1. \A i \in k + 1 .. Len(q) : i \in 1 .. Len(q)
    BY <1>1
  <2>2. k + 1 \in 1 .. Len(q) + 1 /\ Len(q) \in 0 .. Len(q)
    BY <1>1
  <2> QED
    BY <1>1, <2>1, <2>2, SubSeqProperties
<1> HIDE DEF a, b
<1>4. /\ r \in Seq(S) /\ Len(r) = n - 1
      /\ \A i \in 1 .. n - 1 : r[i] = IF i <= k - 1 THEN q[i] ELSE q[i + 1]
  <2>1. r \in Seq(S) /\ Len(r) = n - 1
    BY <1>1, <1>2, <1>3, ConcatProperties
  <2>2. ASSUME NEW i \in 1 .. n - 1 PROVE r[i] = IF i <= k - 1 THEN q[i] ELSE q[i + 1]
    <3>1. r[i] = IF i <= k - 1 THEN a[i] ELSE b[i - (k - 1)]
      BY <1>1, <1>2, <1>3, ConcatProperties
    <3>2. CASE i <= k - 1
      BY <1>2, <3>1, <3>2
    <3>3. CASE ~(i <= k - 1)
      <4>1. i - (k - 1) \in 1 .. n - k /\ k + (i - (k - 1)) = i + 1
        BY <1>1, <3>3
      <4> QED
        BY <1>3, <3>1, <3>3, <4>1
    <3> QED
      BY <3>2, <3>3
  <2> QED
    BY <2>1, <2>2
<1> HIDE DEF r
<1>5. \A i, j \in 1 .. n : q[i] = q[j] => i = j
  BY <1>1 DEF IsInjective
<1>6. DOMAIN r = 1 .. n - 1 /\ DOMAIN q = 1 .. n
  BY <1>1, <1>4
<1>7. IsInjective(r)
  <2> SUFFICES ASSUME NEW i \in 1 .. n - 1, NEW j \in 1 .. n - 1, r[i] = r[j] PROVE i = j
    BY <1>6 DEF IsInjective
  <2>1. PICK x \in 1 .. n : r[i] = q[x] /\ x = IF i <= k - 1 THEN i ELSE i + 1
    BY <1>4
  <2>2. PICK y \in 1 .. n : r[j] = q[y] /\ y = IF j <= k - 1 THEN j ELSE j + 1
    BY <1>4
  <2>3. x = y
    BY <1>5, <2>1, <2>2
  <2> QED
    BY <2>1, <2>2, <2>3
<1>8. ASSUME NEW x PROVE x \in Range(r) <=> x \in Range(q) \ {q[k]}
  <2>1. x \in Range(r) <=> \E i \in 1 .. n - 1 : r[i] = x
    BY <1>4, RangeOf
  <2>2. x \in Range(q) <=> \E i \in 1 .. n : q[i] = x
    BY <1>1, RangeOf
  <2>3. ASSUME NEW i \in 1 .. n - 1, r[i] = x PROVE x # q[k] /\ \E j \in 1 .. n : q[j] = x
    <3>1. PICK j \in 1 .. n : r[i] = q[j] /\ j = IF i <= k - 1 THEN i ELSE i + 1
      BY <1>4
    <3>2. j # k
      BY <1>1, <3>1
    <3> QED
      BY <1>1, <1>5, <2>3, <3>1, <3>2
  <2>4. ASSUME NEW j \in 1 .. n, q[j] = x, x # q[k] PROVE \E i \in 1 .. n - 1 : r[i] = x
    <3>1. j # k
      BY <2>4
    <3>2. CASE j < k
      <4>1. j \in 1 .. n - 1 /\ j <= k - 1
        BY <1>1, <3>2
      <4> QED
        BY <1>4, <2>4, <4>1
    <3>3. CASE k < j
      <4>1. j - 1 \in 1 .. n - 1 /\ ~(j - 1 <= k - 1) /\ (j - 1) + 1 = j
        BY <1>1, <3>3
      <4> QED
        BY <1>4, <2>4, <4>1
    <3> QED
      BY <1>1, <3>1, <3>2, <3>3
  <2> QED
    BY <2>1, <2>2, <2>3, <2>4
<1>9. Range(r) = Range(q) \ {q[k]}
  BY <1>8
<1> QED
  BY <1>4, <1>7, <1>9 DEF RemoveAt, r, a, b

\* Some elements more.
LEMMA Joined ==
  ASSUME NEW S, NEW q \in Seq(S), NEW r \in Seq(S), IsInjective(q), IsInjective(r),
         Range(q) \cap Range(r) = {}
  PROVE  /\ q \o r \in Seq(S)
         /\ IsInjective(q \o r)
         /\ Range(q \o r) = Range(q) \cup Range(r)
<1> DEFINE s == q \o r
<1>1. PICK n, m \in Nat : n = Len(q) /\ m = Len(r)
  BY LenProperties
<1>2. /\ s \in Seq(S) /\ Len(s) = n + m
      /\ \A i \in 1 .. n + m : s[i] = IF i <= n THEN q[i] ELSE r[i - n]
  BY <1>1, ConcatProperties
<1> HIDE DEF s
<1>3. /\ \A x : x \in Range(q) <=> \E i \in 1 .. n : q[i] = x
      /\ \A x : x \in Range(r) <=> \E i \in 1 .. m : r[i] = x
      /\ \A x : x \in Range(s) <=> \E i \in 1 .. n + m : s[i] = x
  <2>1. \A x : x \in Range(q) <=> \E i \in 1 .. n : q[i] = x
    BY <1>1, RangeOf
  <2>2. \A x : x \in Range(r) <=> \E i \in 1 .. m : r[i] = x
    BY <1>1, RangeOf
  <2>3. \A x : x \in Range(s) <=> \E i \in 1 .. n + m : s[i] = x
    <3>1. PICK k : k = n + m
      OBVIOUS
    <3>2. s \in Seq(S) /\ Len(s) = k
      BY <1>2, <3>1
    <3>3. \A x : x \in Range(s) <=> \E i \in 1 .. k : s[i] = x
      BY <3>2, RangeOf
    <3> QED
      BY <3>1, <3>3
  <2> QED
    BY <2>1, <2>2, <2>3
<1>4. DOMAIN q = 1 .. n /\ DOMAIN r = 1 .. m /\ DOMAIN s = 1 .. n + m
  BY <1>1, <1>2
<1>5. \A i \in 1 .. n + m : ~(i <= n) => i - n \in 1 .. m
  OBVIOUS
<1>6. ASSUME NEW i \in 1 .. n + m, NEW j \in 1 .. n + m, s[i] = s[j] PROVE i = j
  <2>1. CASE i <= n /\ j <= n
    <3>1. i \in DOMAIN q /\ j \in DOMAIN q /\ q[i] = q[j]
      BY <1>2, <1>4, <1>6, <2>1
    <3> QED
      BY <3>1 DEF IsInjective
  <2>2. CASE ~(i <= n) /\ ~(j <= n)
    <3>1. i - n = j - n
      BY <1>2, <1>4, <1>5, <1>6, <2>2 DEF IsInjective
    <3> QED
      BY <3>1
  <2>3. ASSUME NEW x \in 1 .. n + m, NEW y \in 1 .. n + m, s[x] = s[y], x <= n, ~(y <= n)
        PROVE  FALSE
    <3>1. q[x] \in Range(q) /\ r[y - n] \in Range(r)
      BY <1>3, <1>5, <2>3
    <3> QED
      BY <1>2, <2>3, <3>1
  <2> QED
    BY <1>6, <2>1, <2>2, <2>3
<1>7. ASSUME NEW x PROVE x \in Range(s) <=> x \in Range(q) \cup Range(r)
  <2>1. ASSUME NEW i \in 1 .. n + m, s[i] = x PROVE x \in Range(q) \cup Range(r)
    <3>1. CASE i <= n
      BY <1>2, <1>3, <2>1, <3>1
    <3>2. CASE ~(i <= n)
      <4>1. x = r[i - n]
        BY <1>2, <2>1, <3>2
      <4> QED
        BY <1>3, <1>5, <3>2, <4>1
    <3> QED
      BY <3>1, <3>2
  <2>2. ASSUME NEW i \in 1 .. n, q[i] = x PROVE x \in Range(s)
    <3>1. i \in 1 .. n + m
      OBVIOUS
    <3> QED
      BY <1>2, <1>3, <2>2, <3>1
  <2>3. ASSUME NEW i \in 1 .. m, r[i] = x PROVE x \in Range(s)
    <3>1. i + n \in 1 .. n + m /\ ~(i + n <= n) /\ (i + n) - n = i
      OBVIOUS
    <3> QED
      BY <1>2, <1>3, <2>3, <3>1
  <2> QED
    BY <1>3, <2>1, <2>2, <2>3
<1>8. IsInjective(s)
  BY <1>4, <1>6 DEF IsInjective
<1> QED
  BY <1>2, <1>7, <1>8 DEF s

LEMMA Single ==
  ASSUME NEW S, NEW x \in S
  PROVE  <<x>> \in Seq(S) /\ IsInjective(<<x>>) /\ Range(<<x>>) = {x}
<1>1. <<x>> \in Seq(S) /\ Len(<<x>>) = 1 /\ <<x>>[1] = x /\ DOMAIN <<x>> = {1}
  OBVIOUS
<1> QED
  BY <1>1 DEF IsInjective, Range

LEMMA Nobody ==
  ASSUME NEW S
  PROVE  <<>> \in Seq(S) /\ IsInjective(<<>>) /\ Range(<<>>) = {}
<1>1. <<>> \in Seq(S) /\ DOMAIN <<>> = {}
  BY EmptySeq
<1> QED
  BY <1>1 DEF IsInjective, Range

------------------------------------------------------------------------------
(* The segments of one process: e is its segment table, g what its places  *)
(* refer to, and c its number of segments.                                 *)

SegEntry == [free : BOOLEAN, at : Places \cup {Nil}]

Mapped(e) == {i \in Entry : ~e[i].free}

\* Entries and places belong together one by one, and refer to different segments;
\* of all entries with the place of an entry in use, that one comes first, and all
\* before it have been used.
Neat(e, g, c) ==
  /\ c = Cardinality(Mapped(e))
  /\ \A i \in Mapped(e) : e[i].at \in Places /\ g[e[i].at] # Nil
  /\ \A j \in Mapped(e) : \A i \in Entry :
       i # j /\ (i < j \/ i \in Mapped(e)) => e[i].at # e[j].at
  /\ \A j \in Mapped(e) : \A i \in Entry : i < j => e[i].at # Nil
  /\ \A a \in Places : g[a] # Nil => \E i \in Mapped(e) : e[i].at = a
  /\ \A a, b \in Places : g[a] # Nil /\ g[a] = g[b] => a = b

\* The entries for the segment with index x.
For(e, g, x) == {i \in Mapped(e) : g[e[i].at] = x}

Tables == [Entry -> SegEntry]
Ranges == [Places -> Index \cup {Nil}]

LEMMA EntriesFinite ==
  /\ IsFiniteSet(Entry) /\ Cardinality(Entry) = MaxSegments
  /\ Entry \subseteq Nat /\ MaxSegments \in Nat
  /\ \A e : IsFiniteSet(Mapped(e)) /\ Cardinality(Mapped(e)) \in 0 .. MaxSegments
<1>1. MaxSegments \in Nat /\ MaxSegments >= 1
  BY LimitsAssumption
<1>2. IsFiniteSet(Entry) /\ Cardinality(Entry) = MaxSegments
  <2>1. IsFiniteSet(0 .. MaxSegments - 1)
        /\ Cardinality(0 .. MaxSegments - 1) = MaxSegments
    BY <1>1, FS_Interval
  <2> QED
    BY <2>1 DEF Entry
<1>3. ASSUME NEW e
      PROVE  IsFiniteSet(Mapped(e)) /\ Cardinality(Mapped(e)) \in 0 .. MaxSegments
  <2>1. Mapped(e) \in SUBSET Entry
    BY DEF Mapped
  <2>2. IsFiniteSet(Mapped(e)) /\ Cardinality(Mapped(e)) <= MaxSegments
    BY <1>2, <2>1, FS_Subset
  <2>3. Cardinality(Mapped(e)) \in Nat
    BY <2>2, FS_CardinalityType
  <2> QED
    BY <1>1, <2>2, <2>3
<1> QED
  BY <1>1, <1>2, <1>3 DEF Entry

\* Min finds the first of them.
LEMMA MinIs ==
  ASSUME NEW S \in SUBSET Nat, S # {}
  PROVE  Min(S) \in S /\ \A y \in S : Min(S) <= y
BY LeastExists DEF Min

\* A process with room for a segment has a free entry.
LEMMA FreeExists ==
  ASSUME NEW e \in Tables, Cardinality(Mapped(e)) # MaxSegments
  PROVE  LET i == Min({i \in Entry : e[i].free})
         IN  i \in Entry /\ e[i].free /\ \A j \in Entry : j < i => ~e[j].free
<1> DEFINE S == {i \in Entry : e[i].free}
<1>1. S # {}
  <2> SUFFICES ASSUME S = {} PROVE FALSE
    OBVIOUS
  <2>1. Mapped(e) = Entry
    BY DEF Mapped
  <2> QED
    BY <2>1, EntriesFinite
<1>2. S \in SUBSET Nat
  BY EntriesFinite
<1>3. PICK i \in S : i = Min(S) /\ \A y \in S : i <= y
  <2> HIDE DEF S
  <2> QED
    BY <1>1, <1>2, MinIs
<1>4. i \in Entry /\ e[i].free
  OBVIOUS
<1>5. ASSUME NEW j \in Entry, j < i PROVE ~e[j].free
  <2>1. j \notin S
    BY <1>3, <1>4, <1>5, EntriesFinite
  <2> QED
    BY <2>1
<1> QED
  BY <1>3, <1>4, <1>5

LEMMA NeatFresh == Neat(Fresh.st, Fresh.pages, 0) /\ Fresh.st \in Tables /\ Fresh.pages \in Ranges
<1>1. /\ Fresh.st \in Tables /\ Fresh.pages \in Ranges
      /\ \A i \in Entry : Fresh.st[i].free
      /\ \A a \in Places : Fresh.pages[a] = Nil
  BY DEF Fresh, FreeEntry, Tables, Ranges, SegEntry
<1>2. Mapped(Fresh.st) = {}
  BY <1>1 DEF Mapped
<1>3. Cardinality(Mapped(Fresh.st)) = 0
  BY <1>2, FS_EmptySet
<1> QED
  BY <1>1, <1>2, <1>3 DEF Neat

\* A segment more.
LEMMA NeatMap ==
  ASSUME NEW e \in Tables, NEW g \in Ranges, Neat(e, g, Cardinality(Mapped(e))),
         NEW a \in Places, \A i \in Entry : e[i].free \/ e[i].at # a,
         NEW x \in Index, \A b \in Places : g[b] # x,
         NEW i \in Entry, e[i].free, \A j \in Entry : j < i => ~e[j].free,
         NEW f \in Tables, f[i] = [free |-> FALSE, at |-> a],
         \A j \in Entry \ {i} : f[j] = e[j],
         NEW h \in Ranges, h[a] = x, \A b \in Places \ {a} : h[b] = g[b]
  PROVE  /\ Neat(f, h, Cardinality(Mapped(e)) + 1)
         /\ \A y \in Index : For(f, h, y) = IF y = x THEN {i} ELSE For(e, g, y)
         /\ i \notin Mapped(e) /\ g[a] = Nil /\ For(e, g, x) = {}
<1>0. x # Nil /\ a # Nil
  BY NilAssumption DEF Index
<1>2. /\ f[i].free = FALSE /\ f[i].at = a
      /\ \A j \in Entry \ {i} : f[j] = e[j]
      /\ h[a] = x /\ \A b \in Places \ {a} : h[b] = g[b]
  OBVIOUS
<1>3. Mapped(f) = Mapped(e) \cup {i} /\ i \notin Mapped(e)
  BY <1>2 DEF Mapped
<1>4. Cardinality(Mapped(f)) = Cardinality(Mapped(e)) + 1
  <2>1. IsFiniteSet(Mapped(e))
    BY EntriesFinite
  <2> QED
    BY <1>3, <2>1, FS_AddElement
<1>5. \A j \in Mapped(e) : e[j].at # a /\ e[j].at \in Places /\ g[e[j].at] # Nil
                           /\ f[j] = e[j] /\ j \in Entry
  BY <1>2, <1>3 DEF Neat, Mapped
<1>6. \A j \in Mapped(f) : f[j].at \in Places /\ h[f[j].at] # Nil
  BY <1>0, <1>2, <1>3, <1>5
<1>7. ASSUME NEW j \in Mapped(f), NEW k \in Entry, k # j, k < j \/ k \in Mapped(f)
      PROVE  f[k].at # f[j].at
  <2>1. CASE j = i
    <3>1. k < j => ~e[k].free
      BY <2>1
    <3>2. k \in Mapped(e)
      BY <1>3, <1>7, <2>1, <3>1 DEF Mapped
    <3> QED
      BY <1>2, <1>5, <2>1, <3>2
  <2>2. CASE j # i /\ k = i
    <3>1. j \in Mapped(e) /\ f[j] = e[j] /\ e[j].at # a
      BY <1>3, <1>5, <2>2
    <3> QED
      BY <1>2, <2>2, <3>1
  <2>3. CASE j # i /\ k # i
    <3>1. j \in Mapped(e) /\ (k < j \/ k \in Mapped(e)) /\ f[j] = e[j] /\ f[k] = e[k]
      BY <1>2, <1>3, <1>5, <1>7, <2>3
    <3>2. e[k].at # e[j].at
      BY <1>7, <3>1 DEF Neat
    <3> QED
      BY <3>1, <3>2
  <2> QED
    BY <2>1, <2>2, <2>3
<1>8. ASSUME NEW b \in Places, h[b] # Nil PROVE \E j \in Mapped(f) : f[j].at = b
  <2>1. CASE b = a
    BY <1>2, <1>3, <2>1
  <2>2. CASE b # a
    <3>1. PICK j \in Mapped(e) : e[j].at = b
      BY <1>2, <1>8, <2>2 DEF Neat
    <3> QED
      BY <1>3, <1>5, <3>1
  <2> QED
    BY <2>1, <2>2
<1>9. ASSUME NEW b \in Places, NEW d \in Places, h[b] # Nil, h[b] = h[d] PROVE b = d
  <2>1. CASE b = a \/ d = a
    BY <1>2, <1>9, <2>1
  <2>2. CASE b # a /\ d # a
    <3>1. g[b] # Nil /\ g[b] = g[d]
      BY <1>2, <1>9, <2>2
    <3> QED
      BY <3>1 DEF Neat
  <2> QED
    BY <2>1, <2>2
<1>14. ASSUME NEW j \in Mapped(f), NEW k \in Entry, k < j PROVE f[k].at # Nil
  <2>1. CASE k \in Mapped(f)
    BY <1>6, <2>1, NilAssumption
  <2>2. CASE k \notin Mapped(f)
    <3>1. e[k].free /\ f[k] = e[k]
      BY <1>2, <1>3, <2>2 DEF Mapped
    <3>2. j # i
      BY <1>14, <3>1
    <3>3. j \in Mapped(e)
      BY <1>3, <3>2
    <3> QED
      BY <1>14, <3>1, <3>3 DEF Neat
  <2> QED
    BY <2>1, <2>2
<1>10. Neat(f, h, Cardinality(Mapped(e)) + 1)
  BY <1>4, <1>6, <1>7, <1>8, <1>9, <1>14 DEF Neat
<1>11. ASSUME NEW y \in Index PROVE For(f, h, y) = IF y = x THEN {i} ELSE For(e, g, y)
  <2>1. \A j \in Mapped(e) : h[f[j].at] = g[e[j].at]
    BY <1>2, <1>5
  <2>2. h[f[i].at] = x /\ \A j \in Mapped(e) : g[e[j].at] # x
    BY <1>2, <1>5
  <2>3. y = x => For(f, h, y) = {i}
    <3>1. \A j \in Mapped(f) : h[f[j].at] = x <=> j = i
      BY <1>3, <2>1, <2>2
    <3>2. i \in Mapped(f)
      BY <1>3
    <3> QED
      BY <3>1, <3>2 DEF For
  <2>4. y # x => For(f, h, y) = For(e, g, y)
    BY <1>3, <2>1, <2>2 DEF For
  <2> QED
    BY <2>3, <2>4
<1>12. g[a] = Nil
  <2> SUFFICES ASSUME g[a] # Nil PROVE FALSE
    OBVIOUS
  <2>1. PICK j \in Mapped(e) : e[j].at = a
    BY DEF Neat
  <2> QED
    BY <1>5, <2>1
<1>13. For(e, g, x) = {}
  BY <1>5 DEF For
<1> QED
  BY <1>3, <1>10, <1>11, <1>12, <1>13

\* A segment less.
LEMMA NeatUnmap ==
  ASSUME NEW e \in Tables, NEW g \in Ranges, NEW c, Neat(e, g, c), NEW i \in Mapped(e),
         NEW f \in Tables, f[i].free, f[i].at = e[i].at,
         \A j \in Entry \ {i} : f[j] = e[j],
         NEW h \in Ranges, h[e[i].at] = Nil, \A b \in Places \ {e[i].at} : h[b] = g[b]
  PROVE  /\ Neat(f, h, c - 1) /\ c \in 1 .. MaxSegments
         /\ \A y \in Index : For(f, h, y) = For(e, g, y) \ {i}
<1> DEFINE a == e[i].at
<1>0. i \in Entry /\ a \in Places /\ a # Nil /\ g[a] # Nil
  BY NilAssumption DEF Mapped, Neat
<1>2. /\ f[i].free /\ f[i].at = a
      /\ \A j \in Entry \ {i} : f[j] = e[j]
      /\ h[a] = Nil /\ \A b \in Places \ {a} : h[b] = g[b]
  OBVIOUS
<1>3. Mapped(f) = Mapped(e) \ {i}
  BY <1>2 DEF Mapped
<1>4. Cardinality(Mapped(f)) = c - 1 /\ c \in 1 .. MaxSegments
  <2>1. c = Cardinality(Mapped(e)) /\ c \in 0 .. MaxSegments /\ MaxSegments \in Nat
    BY EntriesFinite DEF Neat
  <2>2. Cardinality(Mapped(f)) = c - 1 /\ Cardinality(Mapped(f)) \in 0 .. MaxSegments
    BY <1>3, <2>1, FS_RemoveElement, EntriesFinite
  <2> QED
    BY <2>1, <2>2
<1>5. \A j \in Mapped(f) : /\ j \in Mapped(e) /\ e[j].at # a /\ e[j].at \in Places
                           /\ g[e[j].at] # Nil /\ f[j] = e[j] /\ j \in Entry
  BY <1>2, <1>3 DEF Neat, Mapped
<1>6. \A j \in Mapped(f) : f[j].at \in Places /\ h[f[j].at] # Nil
  BY <1>2, <1>5
<1>7. ASSUME NEW j \in Mapped(f), NEW k \in Entry, k # j, k < j \/ k \in Mapped(f)
      PROVE  f[k].at # f[j].at
  <2>1. e[k].at # e[j].at /\ f[j].at = e[j].at
    BY <1>5, <1>7 DEF Neat
  <2>2. f[k].at = e[k].at
    BY <1>2
  <2> QED
    BY <2>1, <2>2
<1>8. ASSUME NEW b \in Places, h[b] # Nil PROVE \E j \in Mapped(f) : f[j].at = b
  <2>1. b # a /\ g[b] # Nil
    BY <1>2, <1>8
  <2>2. PICK j \in Mapped(e) : e[j].at = b
    BY <2>1 DEF Neat
  <2> QED
    BY <1>2, <1>3, <1>5, <2>1, <2>2
<1>9. ASSUME NEW b \in Places, NEW d \in Places, h[b] # Nil, h[b] = h[d] PROVE b = d
  <2>1. g[b] # Nil /\ g[b] = g[d]
    BY <1>2, <1>9
  <2> QED
    BY <2>1 DEF Neat
<1>12. ASSUME NEW j \in Mapped(f), NEW k \in Entry, k < j PROVE f[k].at # Nil
  <2>1. f[k].at = e[k].at /\ j \in Mapped(e)
    BY <1>2, <1>3
  <2> QED
    BY <1>12, <2>1 DEF Neat
<1>10. Neat(f, h, c - 1)
  BY <1>4, <1>6, <1>7, <1>8, <1>9, <1>12 DEF Neat
<1>11. ASSUME NEW y \in Index PROVE For(f, h, y) = For(e, g, y) \ {i}
  <2>1. \A j \in Mapped(f) : h[f[j].at] = g[e[j].at]
    BY <1>2, <1>5
  <2> QED
    BY <1>3, <2>1 DEF For
<1> QED
  BY <1>4, <1>10, <1>11

\* A process has a segment once.
LEMMA NeatOnce ==
  ASSUME NEW e, NEW g, NEW c, Neat(e, g, c), NEW x \in Index,
         NEW i \in For(e, g, x), NEW j \in For(e, g, x)
  PROVE  i = j
<1>1. x # Nil /\ i \in Mapped(e) /\ j \in Mapped(e) /\ g[e[i].at] = x /\ g[e[j].at] = x
  BY NilAssumption DEF Index, For
<1>2. e[i].at \in Places /\ e[j].at \in Places
  BY <1>1 DEF Neat
<1>3. e[i].at = e[j].at
  BY <1>1, <1>2 DEF Neat
<1> QED
  BY <1>1, <1>3 DEF Neat, Mapped

------------------------------------------------------------------------------
(* The segments of a clone.                                                *)

\* The number of elements of S below i.
Rank(S, i) == Cardinality({j \in S : j < i})

\* Below every element of a finite set are as many as its elements have numbers:
\* Rank and Nth are inverse to each other.
LEMMA NthOf ==
  ASSUME NEW S \in SUBSET Nat, IsFiniteSet(S), NEW n, n = Cardinality(S)
  PROVE  /\ n \in Nat
         /\ \A k \in 0 .. n - 1 : Nth(S, k) \in S /\ Rank(S, Nth(S, k)) = k
         /\ \A i \in S : Rank(S, i) \in 0 .. n - 1 /\ Nth(S, Rank(S, i)) = i
<1> DEFINE Below(i) == {j \in S : j < i}
<1>0. n \in Nat
  BY FS_CardinalityType
<1>1. ASSUME NEW i \in S
      PROVE  /\ IsFiniteSet(Below(i)) /\ IsFiniteSet(Below(i) \cup {i})
             /\ Rank(S, i) \in Nat
             /\ Cardinality(Below(i) \cup {i}) = Rank(S, i) + 1
  <2>1. IsFiniteSet(Below(i)) /\ i \notin Below(i) /\ Rank(S, i) = Cardinality(Below(i))
    BY FS_Subset DEF Rank
  <2> HIDE DEF Below
  <2> QED
    BY <2>1, FS_CardinalityType, FS_AddElement
<1>2. ASSUME NEW i \in S, NEW k \in S, i < k PROVE Rank(S, i) < Rank(S, k)
  <2>1. Below(i) \cup {i} \in SUBSET Below(k)
    <3>1. \A j \in S : j < i => j < k
      BY <1>2
    <3> QED
      BY <1>2, <3>1
  <2>2. Rank(S, k) = Cardinality(Below(k))
    BY DEF Rank
  <2>3. IsFiniteSet(Below(k)) /\ Rank(S, i) \in Nat /\ Rank(S, k) \in Nat
        /\ Cardinality(Below(i) \cup {i}) = Rank(S, i) + 1
    BY <1>1
  <2> HIDE DEF Below
  <2>4. Cardinality(Below(i) \cup {i}) <= Cardinality(Below(k))
    BY <2>1, <2>3, FS_Subset
  <2> QED
    BY <2>2, <2>3, <2>4
<1>3. \A i, k \in S : Rank(S, i) = Rank(S, k) => i = k
  <2> SUFFICES ASSUME NEW i \in S, NEW k \in S, Rank(S, i) = Rank(S, k), i # k PROVE FALSE
    OBVIOUS
  <2>1. Rank(S, i) \in Nat /\ i \in Nat /\ k \in Nat
    BY <1>1
  <2>2. i < k \/ k < i
    BY <2>1
  <2>3. Rank(S, i) < Rank(S, k) \/ Rank(S, k) < Rank(S, i)
    BY <1>2, <2>2
  <2> QED
    BY <2>1, <2>3
<1>4. ASSUME NEW i \in S PROVE Rank(S, i) \in 0 .. n - 1
  <2>1. Below(i) \cup {i} \in SUBSET S
    OBVIOUS
  <2>2. Rank(S, i) \in Nat /\ Cardinality(Below(i) \cup {i}) = Rank(S, i) + 1
    BY <1>1
  <2> HIDE DEF Below
  <2>3. Cardinality(Below(i) \cup {i}) <= n
    BY <2>1, FS_Subset
  <2> QED
    BY <1>0, <2>2, <2>3
<1> DEFINE K == {k \in Nat : k < n => \E i \in S : Rank(S, i) = k}
<1>5. 0 \in K
  <2> SUFFICES ASSUME 0 < n PROVE \E i \in S : Rank(S, i) = 0
    OBVIOUS
  <2>1. S # {}
    BY FS_EmptySet
  <2>2. PICK i \in S : \A y \in S : i =< y
    BY <2>1, LeastExists
  <2>3. Below(i) = {}
    <3>1. \A y \in S : ~(y < i)
      BY <2>2
    <3> QED
      BY <3>1
  <2>4. Rank(S, i) = Cardinality(Below(i))
    BY DEF Rank
  <2> HIDE DEF Below
  <2>5. Rank(S, i) = 0
    BY <2>3, <2>4, FS_EmptySet
  <2> QED
    BY <2>5
<1>6. ASSUME NEW k \in Nat, k \in K PROVE k + 1 \in K
  <2> SUFFICES ASSUME k + 1 < n PROVE \E i \in S : Rank(S, i) = k + 1
    OBVIOUS
  <2>1. PICK i \in S : Rank(S, i) = k
    BY <1>0, <1>6
  <2> DEFINE T == {j \in S : i < j}
  <2>2. T # {}
    <3> SUFFICES ASSUME T = {} PROVE FALSE
      OBVIOUS
    <3>a. \A j \in S : j < i \/ j = i
      OBVIOUS
    <3>1. S = Below(i) \cup {i}
      BY <3>a
    <3>2. Cardinality(Below(i) \cup {i}) = k + 1
      BY <1>1, <2>1
    <3> QED
      BY <1>0, <3>1, <3>2
  <2>3. PICK j \in T : \A y \in T : j =< y
    <3>1. T \in SUBSET Nat
      OBVIOUS
    <3> HIDE DEF T
    <3> QED
      BY <2>2, <3>1, LeastExists
  <2>4. Below(j) = Below(i) \cup {i}
    <3>1. ASSUME NEW y \in S, y < j PROVE y < i \/ y = i
      <4>1. y \notin T
        BY <2>3, <3>1
      <4> QED
        BY <4>1
    <3>2. \A y \in S : y < i \/ y = i => y < j
      BY <2>3
    <3>3. \A y \in S : y < j <=> y < i \/ y = i
      BY <3>1, <3>2
    <3> QED
      BY <3>3
  <2>5. Rank(S, j) = Cardinality(Below(j))
    BY DEF Rank
  <2>6. Cardinality(Below(i) \cup {i}) = k + 1
    BY <1>1, <2>1
  <2>7. Rank(S, j) = k + 1
    BY <2>4, <2>5, <2>6
  <2> QED
    BY <2>3, <2>7
<1>7. \A k \in 0 .. n - 1 : \E i \in S : Rank(S, i) = k
  <2>1. Nat \subseteq K
    <3> HIDE DEF K
    <3> QED
      BY <1>5, <1>6, Induction
  <2> QED
    BY <1>0, <2>1
<1>8. ASSUME NEW k \in 0 .. n - 1 PROVE Nth(S, k) \in S /\ Rank(S, Nth(S, k)) = k
  <2>1. \E i \in S : Rank(S, i) = k
    BY <1>7
  <2> QED
    BY <2>1 DEF Nth, Rank
<1>9. ASSUME NEW i \in S PROVE Nth(S, Rank(S, i)) = i
  <2>1. Nth(S, Rank(S, i)) \in S /\ Rank(S, Nth(S, Rank(S, i))) = Rank(S, i)
    BY <1>4, <1>8
  <2> QED
    BY <1>3, <2>1
<1> QED
  BY <1>0, <1>4, <1>8, <1>9

\* The segment table of a clone, filled from the first entry on, is as good as that
\* of its source.
LEMMA NeatClone ==
  ASSUME NEW e \in Tables, NEW g \in Ranges, NEW m, Neat(e, g, m),
         NEW f, f = [i \in Entry |-> IF i < m THEN e[Nth(Mapped(e), i)] ELSE FreeEntry]
  PROVE  /\ f \in Tables /\ m \in 0 .. MaxSegments
         /\ Neat(f, g, m)
         /\ \A i \in Mapped(e) : Rank(Mapped(e), i) \in Mapped(f)
         /\ \A x \in Index : For(f, g, x) = {Rank(Mapped(e), i) : i \in For(e, g, x)}
<1> DEFINE S == Mapped(e)
<1>1. /\ S \in SUBSET Nat /\ S \in SUBSET Entry /\ IsFiniteSet(S)
      /\ m = Cardinality(S) /\ m \in 0 .. MaxSegments
      /\ Entry = 0 .. MaxSegments - 1 /\ MaxSegments \in Nat
  BY EntriesFinite DEF Neat, Mapped, Entry
<1> HIDE DEF S
<1>2. /\ \A k \in 0 .. m - 1 : Nth(S, k) \in S /\ Rank(S, Nth(S, k)) = k
      /\ \A i \in S : Rank(S, i) \in 0 .. m - 1 /\ Nth(S, Rank(S, i)) = i
  BY <1>1, NthOf
<1>3. /\ \A k \in 0 .. m - 1 : k \in Entry /\ f[k] = e[Nth(S, k)]
      /\ \A k \in Entry : k \notin 0 .. m - 1 => f[k] = FreeEntry
  BY <1>1 DEF S
<1>4. \A i \in S : ~e[i].free /\ e[i].at \in Places /\ g[e[i].at] # Nil /\ e[i] \in SegEntry
  BY DEF S, Mapped, Neat, Tables
<1>5. f \in Tables
  <2>1. FreeEntry \in SegEntry
    BY DEF FreeEntry, SegEntry
  <2>2. \A k \in Entry : f[k] \in SegEntry
    BY <1>2, <1>3, <1>4, <2>1
  <2> QED
    BY <2>2 DEF Tables
<1>6. Mapped(f) = 0 .. m - 1
  <2>1. FreeEntry.free = TRUE
    BY DEF FreeEntry
  <2>2. \A k \in 0 .. m - 1 : ~f[k].free
    BY <1>2, <1>3, <1>4
  <2> QED
    BY <1>3, <2>1, <2>2 DEF Mapped
<1>7. Cardinality(Mapped(f)) = m
  <2>1. m \in Nat /\ Cardinality(0 .. m - 1) = m
    BY <1>1, FS_Interval
  <2> QED
    BY <1>6, <2>1
<1>8. \A k \in Mapped(f) : f[k].at \in Places /\ g[f[k].at] # Nil
  BY <1>2, <1>3, <1>4, <1>6
<1>9. ASSUME NEW j \in Mapped(f), NEW i \in Entry, i # j, i < j \/ i \in Mapped(f)
      PROVE  f[i].at # f[j].at
  <2>1. i \in 0 .. m - 1 /\ j \in 0 .. m - 1
    BY <1>1, <1>6, <1>9
  <2>2. Nth(S, i) # Nth(S, j) /\ Nth(S, i) \in S /\ Nth(S, j) \in S
    BY <1>2, <1>9, <2>1
  <2>3. e[Nth(S, i)].at # e[Nth(S, j)].at
    BY <1>1, <2>2 DEF Neat, S
  <2> QED
    BY <1>3, <2>1, <2>3
<1>10. ASSUME NEW a \in Places, g[a] # Nil PROVE \E k \in Mapped(f) : f[k].at = a
  <2>1. PICK i \in S : e[i].at = a
    BY <1>10 DEF Neat, S
  <2>2. Rank(S, i) \in Mapped(f) /\ f[Rank(S, i)] = e[i]
    BY <1>2, <1>3, <1>6
  <2> QED
    BY <2>1, <2>2
<1>11. \A a, b \in Places : g[a] # Nil /\ g[a] = g[b] => a = b
  BY DEF Neat
<1>14. ASSUME NEW j \in Mapped(f), NEW i \in Entry, i < j PROVE f[i].at # Nil
  <2>1. i \in Mapped(f)
    BY <1>1, <1>6, <1>14
  <2> QED
    BY <1>8, <2>1, NilAssumption
<1>12. Neat(f, g, m)
  BY <1>7, <1>8, <1>9, <1>10, <1>11, <1>14 DEF Neat
<1>13. ASSUME NEW x \in Index PROVE For(f, g, x) = {Rank(S, i) : i \in For(e, g, x)}
  <2>1. ASSUME NEW k \in For(f, g, x) PROVE \E i \in For(e, g, x) : k = Rank(S, i)
    <3>1. k \in 0 .. m - 1 /\ g[f[k].at] = x
      BY <1>6 DEF For
    <3>2. Nth(S, k) \in For(e, g, x)
      BY <1>2, <1>3, <3>1 DEF For, S
    <3>3. k = Rank(S, Nth(S, k))
      BY <1>2, <3>1
    <3> QED
      BY <3>2, <3>3
  <2>2. ASSUME NEW i \in For(e, g, x) PROVE Rank(S, i) \in For(f, g, x)
    <3>1. i \in S /\ g[e[i].at] = x
      BY DEF For, S
    <3>2. Rank(S, i) \in Mapped(f) /\ f[Rank(S, i)] = e[i]
      BY <1>2, <1>3, <1>6, <3>1
    <3> QED
      BY <3>1, <3>2 DEF For
  <2> QED
    BY <2>1, <2>2
<1> QED
  BY <1>1, <1>2, <1>5, <1>6, <1>12, <1>13 DEF S

------------------------------------------------------------------------------
(* The inductive invariant.                                                *)

\* Clients map a segment once at most in a process, give up their segments before
\* the process ends, and give up only what the process has.
Tidy == ~Twice /\ ~LeaveAttached /\ ~NotTheirs

Blocks == [index : Index, users : Seq(Users)]

\* The users that the index x has, as the processes have it.
Held(x) ==
  {u \in Users : u.pcb \in alive /\ u.entry \in For(st[u.pcb], pages[u.pcb], x)}

TablesOK ==
  /\ st \in [Procs -> Tables]
  /\ pages \in [Procs -> Ranges]
  /\ count \in [Procs -> 0 .. MaxSegments]
  /\ \A p \in alive : Neat(st[p], pages[p], count[p])

BlocksOK ==
  /\ cb \in [Names -> {Nil} \cup Blocks]
  /\ \A n \in Names : cb[n] # Nil =>
       IsInjective(cb[n].users) /\ Range(cb[n].users) = Held(cb[n].index)

\* An index is filled when it is the index of a control block, which it leads to.
VectorOK ==
  /\ \E k \in Nat \ {0} : Vector(vec, k) /\ (k <= shared \/ (k = 1 /\ vec.first # -1))
  /\ \A x \in DOMAIN vec.next : vec.next[x] = -2 =>
       \E n \in Names : cb[n] # Nil /\ cb[n].index = x
  /\ \A n \in Names : cb[n] # Nil =>
       /\ cb[n].index \in DOMAIN vec.next
       /\ vec.next[cb[n].index] = -2
       /\ vec.data[cb[n].index] = n

\* What the descriptors of a process refer to is the index of a control block.
IndicesOK ==
  \A p \in alive, a \in Places : pages[p][a] # Nil =>
    \E n \in Names : cb[n] # Nil /\ cb[n].index = pages[p][a]

ScalarsOK ==
  /\ shared \in 0 .. MaxShared
  /\ alive \subseteq Procs
  /\ halted = FALSE
  /\ wild = FALSE

SharedInv == TablesOK /\ BlocksOK /\ VectorOK /\ IndicesOK /\ ScalarsOK

LEMMA BlockNotNil == Nil \notin Blocks
BY NilAssumption DEF Blocks, Users

LEMMA InitShared == Init => SharedInv
<1> SUFFICES ASSUME Init PROVE SharedInv
  OBVIOUS
<1>1. /\ st = [p \in Procs |-> Fresh.st] /\ pages = [p \in Procs |-> Fresh.pages]
      /\ count = [p \in Procs |-> 0] /\ cb = [n \in Names |-> Nil] /\ vec = Vec!New
      /\ shared = 0 /\ alive = {} /\ halted = FALSE /\ wild = FALSE
  BY DEF Init
<1>2. MaxSegments \in Nat /\ MaxShared \in Nat
  BY LimitsAssumption
<1>3. TablesOK
  BY <1>1, <1>2, NeatFresh DEF TablesOK
<1>4. BlocksOK /\ IndicesOK
  BY <1>1 DEF BlocksOK, IndicesOK
<1>5. VectorOK
  <2>1. Vector(vec, 1) /\ vec.first # -1
    BY <1>1, NewVector
  <2>2. \A x \in DOMAIN vec.next : vec.next[x] # -2
    <3>1. vec.next = [i \in {0} |-> -1]
      BY <1>1 DEF Vec!New, Vec!EOL
    <3> QED
      BY <3>1
  <2>3. 1 \in Nat \ {0}
    OBVIOUS
  <2> QED
    BY <1>1, <2>1, <2>2, <2>3 DEF VectorOK
<1> QED
  BY <1>1, <1>2, <1>3, <1>4, <1>5 DEF SharedInv, ScalarsOK

\* What the invariant says of a segment that is registered.
LEMMA Registered ==
  ASSUME SharedInv, NEW n \in Names, cb[n] # Nil
  PROVE  /\ cb[n] \in Blocks /\ cb[n].index \in Index /\ cb[n].users \in Seq(Users)
         /\ IsInjective(cb[n].users) /\ Range(cb[n].users) = Held(cb[n].index)
         /\ cb[n].index \in DOMAIN vec.next /\ vec.next[cb[n].index] = -2
         /\ vec.data[cb[n].index] = n
         /\ NameAt(cb[n].index) = n
         /\ \A m \in Names : cb[m] # Nil /\ cb[m].index = cb[n].index => m = n
<1>1. cb[n] \in Blocks
  BY DEF SharedInv, BlocksOK
<1>2. cb[n].index \in Index /\ cb[n].users \in Seq(Users)
  BY <1>1 DEF Blocks
<1>3. IsInjective(cb[n].users) /\ Range(cb[n].users) = Held(cb[n].index)
  BY DEF SharedInv, BlocksOK
<1>4. /\ cb[n].index \in DOMAIN vec.next /\ vec.next[cb[n].index] = -2
      /\ vec.data[cb[n].index] = n
  BY DEF SharedInv, VectorOK
<1>5. NameAt(cb[n].index) = n
  BY <1>4 DEF NameAt, Vec!CanAt, Vec!IsEmpty, Vec!Filled
<1>6. \A m \in Names : cb[m] # Nil /\ cb[m].index = cb[n].index => m = n
  BY <1>4 DEF SharedInv, VectorOK
<1> QED
  BY <1>1, <1>2, <1>3, <1>4, <1>5, <1>6

LEMMA HeldIs ==
  \A x : \A u : u \in Held(x) <=>
    u \in Users /\ u.pcb \in alive /\ u.entry \in For(st[u.pcb], pages[u.pcb], x)
BY DEF Held

\* Mapping a segment that the process does not have gives it one user more.
LEMMA MapEffect ==
  ASSUME SharedInv, NEW p \in Procs, NEW a \in Places, CanMap(p, a),
         NEW x \in Index, \A b \in Places : pages[p][b] # x,
         Map(p, a, x), alive' = alive,
         NEW w, w = User(p)
  PROVE  /\ TablesOK'
         /\ w \in Users
         /\ pages[p][a] = Nil /\ pages' = [pages EXCEPT ![p][a] = x]
         /\ w \notin Held(x)
         /\ \A y \in Index : Held(y)' = IF y = x THEN Held(y) \cup {w} ELSE Held(y)
<1>1. PICK e, g, c : e = st[p] /\ g = pages[p] /\ c = count[p]
  OBVIOUS
<1>2. /\ st \in [Procs -> Tables] /\ pages \in [Procs -> Ranges]
      /\ count \in [Procs -> 0 .. MaxSegments] /\ alive \subseteq Procs
      /\ p \in alive /\ \A q \in alive : Neat(st[q], pages[q], count[q])
  BY DEF SharedInv, TablesOK, ScalarsOK, CanMap
<1>3. e \in Tables /\ g \in Ranges /\ c \in 0 .. MaxSegments /\ Neat(e, g, c)
  BY <1>1, <1>2
<1>4. c = Cardinality(Mapped(e)) /\ c # MaxSegments
  BY <1>1, <1>3 DEF Neat, CanMap
<1>5. \A i \in Entry : e[i].free \/ e[i].at # a
  BY <1>1 DEF CanMap
<1>6. PICK i : i = Min({j \in Entry : e[j].free})
  OBVIOUS
<1>7. i \in Entry /\ e[i].free /\ \A j \in Entry : j < i => ~e[j].free
  BY <1>3, <1>4, <1>6, FreeExists
<1>8. PICK f : f = [e EXCEPT ![i] = [free |-> FALSE, at |-> a]]
  OBVIOUS
<1>a. /\ f \in Tables /\ f[i] = [free |-> FALSE, at |-> a]
      /\ \A j \in Entry \ {i} : f[j] = e[j]
  <2>1. [free |-> FALSE, at |-> a] \in SegEntry
    BY DEF SegEntry
  <2> QED
    BY <1>3, <1>7, <1>8, <2>1 DEF Tables
<1>9. PICK h : h = [g EXCEPT ![a] = x]
  OBVIOUS
<1>b. h \in Ranges /\ h[a] = x /\ \A b \in Places \ {a} : h[b] = g[b]
  BY <1>3, <1>9 DEF Ranges
<1>10. /\ st' = [st EXCEPT ![p] = f] /\ pages' = [pages EXCEPT ![p] = h]
       /\ count' = [count EXCEPT ![p] = c + 1]
       /\ pages' = [pages EXCEPT ![p][a] = x]
  BY <1>1, <1>6, <1>8, <1>9 DEF Map
<1>11. /\ Neat(f, h, c + 1)
       /\ \A y \in Index : For(f, h, y) = IF y = x THEN {i} ELSE For(e, g, y)
       /\ g[a] = Nil /\ For(e, g, x) = {}
  <2>1. Neat(e, g, Cardinality(Mapped(e))) /\ e \in Tables /\ g \in Ranges
    BY <1>3, <1>4
  <2>2. \A b \in Places : g[b] # x
    BY <1>1
  <2>3. /\ Neat(f, h, Cardinality(Mapped(e)) + 1)
        /\ \A y \in Index : For(f, h, y) = IF y = x THEN {i} ELSE For(e, g, y)
        /\ g[a] = Nil /\ For(e, g, x) = {}
    BY <1>5, <1>7, <1>a, <1>b, <2>1, <2>2, NeatMap
  <2> QED
    BY <1>4, <2>3
<1>12. c + 1 \in 0 .. MaxSegments
  BY <1>3, <1>4, LimitsAssumption
<1>13. /\ st'[p] = f /\ pages'[p] = h /\ count'[p] = c + 1
       /\ \A q \in Procs \ {p} :
            st'[q] = st[q] /\ pages'[q] = pages[q] /\ count'[q] = count[q]
  BY <1>2, <1>10
<1>14. TablesOK'
  <2>1. /\ st' \in [Procs -> Tables] /\ pages' \in [Procs -> Ranges]
        /\ count' \in [Procs -> 0 .. MaxSegments]
    BY <1>2, <1>10, <1>a, <1>b, <1>12
  <2>2. \A q \in alive' : Neat(st'[q], pages'[q], count'[q])
    BY <1>2, <1>11, <1>13
  <2> QED
    BY <2>1, <2>2 DEF TablesOK
<1>15. w = [pcb |-> p, entry |-> i]
  BY <1>1, <1>6 DEF User
<1>16. w \in Users /\ w.pcb = p /\ w.entry = i
  BY <1>7, <1>15 DEF Users
<1>17. w \notin Held(x)
  BY <1>1, <1>11, <1>16, HeldIs
<1>18. ASSUME NEW y \in Index
       PROVE  Held(y)' = IF y = x THEN Held(y) \cup {w} ELSE Held(y)
  <2>1. ASSUME NEW u \in Users
        PROVE  u \in Held(y)' <=> u \in Held(y) \/ (y = x /\ u = w)
    <3>1. u \in Held(y)' <=> u.pcb \in alive /\ u.entry \in For(st'[u.pcb], pages'[u.pcb], y)
      BY DEF Held
    <3>2. u \in Held(y) <=> u.pcb \in alive /\ u.entry \in For(st[u.pcb], pages[u.pcb], y)
      BY DEF Held
    <3>3. CASE u.pcb # p
      <4>1. u.pcb \in Procs
        BY DEF Users
      <4> QED
        BY <1>13, <1>16, <3>1, <3>2, <3>3, <4>1
    <3>4. CASE u.pcb = p
      <4>1. u = w <=> u.entry = i
        BY <1>15, <3>4 DEF Users
      <4>2. u \in Held(y)' <=> u.entry \in For(f, h, y)
        BY <1>2, <1>13, <3>1, <3>4
      <4>3. u \in Held(y) <=> u.entry \in For(e, g, y)
        BY <1>1, <1>2, <3>2, <3>4
      <4>4. CASE y = x
        BY <1>11, <4>1, <4>2, <4>3, <4>4
      <4>5. CASE y # x
        BY <1>11, <4>1, <4>2, <4>3, <4>5
      <4> QED
        BY <4>4, <4>5
    <3> QED
      BY <3>3, <3>4
  <2>2. Held(y)' \subseteq Users /\ Held(y) \subseteq Users
    BY DEF Held
  <2> QED
    BY <1>16, <2>1, <2>2
<1> QED
  BY <1>1, <1>10, <1>11, <1>14, <1>16, <1>17, <1>18

\* The entry of a segment that is given up is no user any longer.
LEMMA UnmapEffect ==
  ASSUME SharedInv, NEW p \in alive, NEW i \in Mapped(st[p]),
         st' = [st EXCEPT ![p][i].free = TRUE],
         pages' = [pages EXCEPT ![p][st[p][i].at] = Nil],
         count' = [count EXCEPT ![p] = @ - 1],
         alive' = alive
  PROVE  /\ TablesOK'
         /\ \A y \in Index : Held(y)' = Held(y) \ {[pcb |-> p, entry |-> i]}
<1>1. PICK e, g, c : e = st[p] /\ g = pages[p] /\ c = count[p]
  OBVIOUS
<1>2. /\ st \in [Procs -> Tables] /\ pages \in [Procs -> Ranges]
      /\ count \in [Procs -> 0 .. MaxSegments] /\ alive \subseteq Procs
      /\ p \in Procs /\ \A q \in alive : Neat(st[q], pages[q], count[q])
  BY DEF SharedInv, TablesOK, ScalarsOK
<1>3. e \in Tables /\ g \in Ranges /\ c \in 0 .. MaxSegments /\ Neat(e, g, c)
      /\ i \in Mapped(e)
  BY <1>1, <1>2
<1>4. PICK f : f = [e EXCEPT ![i].free = TRUE]
  OBVIOUS
<1>a. /\ f \in Tables /\ f[i].free /\ f[i].at = e[i].at
      /\ \A j \in Entry \ {i} : f[j] = e[j]
  <2>1. i \in Entry
    BY <1>3 DEF Mapped
  <2>2. [e[i] EXCEPT !.free = TRUE] \in SegEntry
    BY <1>3, <2>1 DEF Tables, SegEntry
  <2>3. f \in Tables
    BY <1>3, <1>4, <2>1, <2>2 DEF Tables
  <2> QED
    BY <1>3, <1>4, <2>1, <2>3 DEF Tables, SegEntry
<1>5. PICK h : h = [g EXCEPT ![e[i].at] = Nil]
  OBVIOUS
<1>b. h \in Ranges /\ h[e[i].at] = Nil /\ \A b \in Places \ {e[i].at} : h[b] = g[b]
  <2>1. e[i].at \in Places
    BY <1>3 DEF Neat
  <2> QED
    BY <1>3, <1>5, <2>1 DEF Ranges
<1>6. /\ st' = [st EXCEPT ![p] = f] /\ pages' = [pages EXCEPT ![p] = h]
      /\ count' = [count EXCEPT ![p] = c - 1]
  BY <1>1, <1>4, <1>5
<1>7. /\ Neat(f, h, c - 1) /\ c \in 1 .. MaxSegments
      /\ \A y \in Index : For(f, h, y) = For(e, g, y) \ {i}
  <2>1. e \in Tables /\ g \in Ranges /\ Neat(e, g, c) /\ i \in Mapped(e)
    BY <1>3
  <2> QED
    BY <1>a, <1>b, <2>1, NeatUnmap
<1>8. c - 1 \in 0 .. MaxSegments
  BY <1>7, LimitsAssumption
<1>9. /\ st'[p] = f /\ pages'[p] = h /\ count'[p] = c - 1
      /\ \A q \in Procs \ {p} :
            st'[q] = st[q] /\ pages'[q] = pages[q] /\ count'[q] = count[q]
  BY <1>2, <1>6
<1>10. TablesOK'
  <2>1. /\ st' \in [Procs -> Tables] /\ pages' \in [Procs -> Ranges]
        /\ count' \in [Procs -> 0 .. MaxSegments]
    <3>1. st' \in [Procs -> Tables]
      BY <1>2, <1>6, <1>a
    <3>2. pages' \in [Procs -> Ranges]
      BY <1>2, <1>6, <1>b
    <3>3. count' \in [Procs -> 0 .. MaxSegments]
      BY <1>2, <1>6, <1>8
    <3> QED
      BY <3>1, <3>2, <3>3
  <2>2. \A q \in alive' : Neat(st'[q], pages'[q], count'[q])
    BY <1>2, <1>7, <1>9
  <2> QED
    BY <2>1, <2>2 DEF TablesOK
<1>11. ASSUME NEW y \in Index PROVE Held(y)' = Held(y) \ {[pcb |-> p, entry |-> i]}
  <2>1. ASSUME NEW u \in Users
        PROVE  u \in Held(y)' <=> u \in Held(y) /\ u # [pcb |-> p, entry |-> i]
    <3>1. u \in Held(y)' <=> u.pcb \in alive /\ u.entry \in For(st'[u.pcb], pages'[u.pcb], y)
      BY DEF Held
    <3>2. u \in Held(y) <=> u.pcb \in alive /\ u.entry \in For(st[u.pcb], pages[u.pcb], y)
      BY DEF Held
    <3>3. CASE u.pcb # p
      <4>1. u.pcb \in Procs /\ u # [pcb |-> p, entry |-> i]
        BY <3>3 DEF Users
      <4> QED
        BY <1>9, <3>1, <3>2, <3>3, <4>1
    <3>4. CASE u.pcb = p
      <4>1. u = [pcb |-> p, entry |-> i] <=> u.entry = i
        BY <3>4 DEF Users
      <4>2. u \in Held(y)' <=> u.entry \in For(f, h, y)
        BY <1>2, <1>9, <3>1, <3>4
      <4>3. u \in Held(y) <=> u.entry \in For(e, g, y)
        BY <1>1, <1>2, <3>2, <3>4
      <4> QED
        BY <1>7, <4>1, <4>2, <4>3
    <3> QED
      BY <3>3, <3>4
  <2>2. Held(y)' \subseteq Users /\ Held(y) \subseteq Users
    BY DEF Held
  <2> QED
    BY <2>1, <2>2
<1> QED
  BY <1>10, <1>11

------------------------------------------------------------------------------
(* Every step keeps the invariant.                                         *)

\* The control blocks keep their indices.
SameIndices ==
  /\ \A n \in Names : cb'[n] = Nil <=> cb[n] = Nil
  /\ \A n \in Names : cb[n] # Nil => cb'[n].index = cb[n].index

LEMMA VectorKept ==
  ASSUME SharedInv, SameIndices, vec' = vec, shared' = shared
  PROVE  VectorOK'
BY DEF SharedInv, VectorOK, SameIndices

\* Every index that a descriptor carries was carried by a descriptor, or is in use.
LEMMA IndicesFound ==
  ASSUME SharedInv, SameIndices,
         \A p \in alive', a \in Places : pages'[p][a] # Nil =>
           \/ \E q \in alive, b \in Places : pages[q][b] = pages'[p][a]
           \/ \E n \in Names : cb[n] # Nil /\ cb[n].index = pages'[p][a]
  PROVE  IndicesOK'
<1> SUFFICES ASSUME NEW p \in alive', NEW a \in Places, pages'[p][a] # Nil
             PROVE  \E n \in Names : cb'[n] # Nil /\ cb'[n].index = pages'[p][a]
  BY DEF IndicesOK
<1>1. PICK x : x = pages'[p][a]
  OBVIOUS
<1>2. x # Nil
  BY <1>1
<1>3. \E n \in Names : cb[n] # Nil /\ cb[n].index = x
  <2>1. ASSUME NEW q \in alive, NEW b \in Places, pages[q][b] = x
        PROVE  \E n \in Names : cb[n] # Nil /\ cb[n].index = x
    BY <1>2, <2>1 DEF SharedInv, IndicesOK
  <2> QED
    BY <1>1, <2>1
<1>4. PICK n \in Names : cb[n] # Nil /\ cb[n].index = x
  BY <1>3
<1>5. cb'[n] # Nil /\ cb'[n].index = x
  BY <1>4 DEF SameIndices
<1> QED
  BY <1>1, <1>5

\* The users change as the processes do.
LEMMA BlocksKept ==
  ASSUME SharedInv, SameIndices,
         cb' \in [Names -> {Nil} \cup Blocks],
         \A n \in Names : cb[n] # Nil =>
           IsInjective(cb'[n].users) /\ Range(cb'[n].users) = Held(cb[n].index)'
  PROVE  BlocksOK'
<1> SUFFICES ASSUME NEW n \in Names, cb'[n] # Nil
             PROVE  IsInjective(cb'[n].users) /\ Range(cb'[n].users) = Held(cb[n].index)'
  BY DEF BlocksOK
<1>1. cb[n] # Nil /\ cb'[n].index = cb[n].index
  BY DEF SameIndices
<1> QED
  BY <1>1

LEMMA CreateProcessKeeps ==
  ASSUME SharedInv, NEW p \in Procs, CreateProcess(p)
  PROVE  SharedInv'
<1>1. /\ p \notin alive /\ alive' = alive \cup {p}
      /\ st' = [st EXCEPT ![p] = Fresh.st] /\ pages' = [pages EXCEPT ![p] = Fresh.pages]
      /\ count' = [count EXCEPT ![p] = 0]
      /\ cb' = cb /\ vec' = vec /\ shared' = shared /\ halted' = halted /\ wild' = wild
  BY DEF CreateProcess
<1>2. /\ st \in [Procs -> Tables] /\ pages \in [Procs -> Ranges]
      /\ count \in [Procs -> 0 .. MaxSegments] /\ alive \subseteq Procs
      /\ \A q \in alive : Neat(st[q], pages[q], count[q])
  BY DEF SharedInv, TablesOK, ScalarsOK
<1>3. /\ st'[p] = Fresh.st /\ pages'[p] = Fresh.pages /\ count'[p] = 0
      /\ \A q \in alive : st'[q] = st[q] /\ pages'[q] = pages[q] /\ count'[q] = count[q]
  BY <1>1, <1>2
<1>4. TablesOK'
  <2>0. 0 \in 0 .. MaxSegments
    BY LimitsAssumption
  <2>1. st' \in [Procs -> Tables] /\ pages' \in [Procs -> Ranges]
    BY <1>1, <1>2, NeatFresh
  <2>2. count' \in [Procs -> 0 .. MaxSegments]
    BY <1>1, <1>2, <2>0
  <2>3. \A q \in alive' : Neat(st'[q], pages'[q], count'[q])
    BY <1>1, <1>2, <1>3, NeatFresh
  <2> QED
    BY <2>1, <2>2, <2>3 DEF TablesOK
<1>5. \A i \in Entry : Fresh.st[i].free
  BY DEF Fresh, FreeEntry
<1>6. \A x : Held(x)' = Held(x)
  <2>1. ASSUME NEW x, NEW u \in Users PROVE u \in Held(x)' <=> u \in Held(x)
    <3>1. u \in Held(x)' <=>
            u.pcb \in alive' /\ u.entry \in For(st'[u.pcb], pages'[u.pcb], x)
      BY DEF Held
    <3>2. u \in Held(x) <=> u.pcb \in alive /\ u.entry \in For(st[u.pcb], pages[u.pcb], x)
      BY DEF Held
    <3>3. u.pcb = p => u.entry \notin For(st'[u.pcb], pages'[u.pcb], x)
      BY <1>3, <1>5 DEF For, Mapped
    <3> QED
      BY <1>1, <1>3, <3>1, <3>2, <3>3
  <2>2. \A x : Held(x)' \subseteq Users /\ Held(x) \subseteq Users
    BY DEF Held
  <2> QED
    BY <2>1, <2>2
<1>7. SameIndices
  BY <1>1 DEF SameIndices
<1>8. BlocksOK'
  <2>1. cb' \in [Names -> {Nil} \cup Blocks]
    BY <1>1 DEF SharedInv, BlocksOK
  <2>2. \A n \in Names : cb[n] # Nil =>
           IsInjective(cb'[n].users) /\ Range(cb'[n].users) = Held(cb[n].index)'
    BY <1>1, <1>6, Registered
  <2> QED
    BY <1>7, <2>1, <2>2, BlocksKept
<1>9. IndicesOK'
  <2>1. \A a \in Places : pages'[p][a] = Nil
    BY <1>3 DEF Fresh
  <2>2. \A q \in alive', a \in Places : pages'[q][a] # Nil =>
           \E r \in alive, b \in Places : pages[r][b] = pages'[q][a]
    BY <1>1, <1>3, <2>1
  <2> QED
    BY <1>7, <2>2, IndicesFound
<1>10. ScalarsOK'
  BY <1>1 DEF SharedInv, ScalarsOK
<1> QED
  BY <1>1, <1>4, <1>7, <1>8, <1>9, <1>10, VectorKept DEF SharedInv

\* A process that ends has no segment left.
LEMMA DeleteProcessKeeps ==
  ASSUME SharedInv, Tidy, NEW p \in Procs, DeleteProcess(p)
  PROVE  SharedInv' /\ \A a \in Places : pages[p][a] = Nil
<1>1. /\ p \in alive /\ alive' = alive \ {p} /\ \A i \in Entry : st[p][i].free
      /\ st' = st /\ pages' = pages /\ count' = count
      /\ cb' = cb /\ vec' = vec /\ shared' = shared /\ halted' = halted /\ wild' = wild
  BY DEF DeleteProcess, Tidy
<1>2. Neat(st[p], pages[p], count[p])
  BY <1>1 DEF SharedInv, TablesOK
<1>3. Mapped(st[p]) = {}
  BY <1>1 DEF Mapped
<1>4. \A a \in Places : pages[p][a] = Nil
  BY <1>2, <1>3 DEF Neat
<1>5. TablesOK'
  BY <1>1 DEF SharedInv, TablesOK
<1>6. \A x : Held(x)' = Held(x)
  <2>1. ASSUME NEW x, NEW u \in Users PROVE u \in Held(x)' <=> u \in Held(x)
    <3>1. u \in Held(x)' <=>
            u.pcb \in alive' /\ u.entry \in For(st'[u.pcb], pages'[u.pcb], x)
      BY DEF Held
    <3>2. u \in Held(x) <=> u.pcb \in alive /\ u.entry \in For(st[u.pcb], pages[u.pcb], x)
      BY DEF Held
    <3>3. u.pcb = p => u.entry \notin For(st[u.pcb], pages[u.pcb], x)
      BY <1>3 DEF For
    <3> QED
      BY <1>1, <3>1, <3>2, <3>3
  <2>2. \A x : Held(x)' \subseteq Users /\ Held(x) \subseteq Users
    BY DEF Held
  <2> QED
    BY <2>1, <2>2
<1>7. SameIndices
  BY <1>1 DEF SameIndices
<1>8. BlocksOK'
  <2>1. cb' \in [Names -> {Nil} \cup Blocks]
    BY <1>1 DEF SharedInv, BlocksOK
  <2>2. \A n \in Names : cb[n] # Nil =>
           IsInjective(cb'[n].users) /\ Range(cb'[n].users) = Held(cb[n].index)'
    BY <1>1, <1>6, Registered
  <2> QED
    BY <1>7, <2>1, <2>2, BlocksKept
<1>9. IndicesOK'
  BY <1>1, <1>7, IndicesFound
<1>10. ScalarsOK'
  BY <1>1 DEF SharedInv, ScalarsOK
<1> QED
  BY <1>1, <1>4, <1>5, <1>7, <1>8, <1>9, <1>10, VectorKept DEF SharedInv

LEMMA ConnectKeeps ==
  ASSUME SharedInv, Tidy, NEW p \in Procs, NEW a \in Places, NEW n \in Names,
         ConnectShared(p, a, n)
  PROVE  /\ SharedInv' /\ SameIndices
         /\ p \in alive /\ pages[p][a] = Nil
         /\ pages' = [pages EXCEPT ![p][a] = cb[n].index]
<1>1. PICK x, users, w : x = cb[n].index /\ users = cb[n].users /\ w = User(p)
  OBVIOUS
<1>2. /\ CanMap(p, a) /\ cb[n] # Nil /\ (\A b \in Places : pages[p][b] # x)
      /\ Map(p, a, x) /\ cb' = [cb EXCEPT ![n].users = Append(users, w)]
      /\ vec' = vec /\ shared' = shared /\ alive' = alive
      /\ halted' = halted /\ wild' = wild
  BY <1>1 DEF ConnectShared, Tidy
<1>3. /\ x \in Index /\ users \in Seq(Users) /\ IsInjective(users)
      /\ Range(users) = Held(x) /\ cb[n] \in Blocks
      /\ \A m \in Names : cb[m] # Nil /\ cb[m].index = x => m = n
  BY <1>1, <1>2, Registered
<1>4. /\ TablesOK' /\ w \in Users
      /\ pages[p][a] = Nil /\ pages' = [pages EXCEPT ![p][a] = x]
      /\ w \notin Held(x)
      /\ \A y \in Index : Held(y)' = IF y = x THEN Held(y) \cup {w} ELSE Held(y)
  BY <1>1, <1>2, <1>3, MapEffect
<1>5. /\ Append(users, w) \in Seq(Users) /\ IsInjective(Append(users, w))
      /\ Range(Append(users, w)) = Held(x) \cup {w}
  <2>0. PICK last : last = <<w>>
    OBVIOUS
  <2>1. last \in Seq(Users) /\ IsInjective(last) /\ Range(last) = {w}
    BY <1>4, <2>0, Single
  <2>2. Append(users, w) = users \o last
    BY <1>3, <1>4, <2>0, AppendIsConcat
  <2>3. Range(users) \cap Range(last) = {}
    BY <1>3, <1>4, <2>1
  <2>4. /\ users \o last \in Seq(Users) /\ IsInjective(users \o last)
        /\ Range(users \o last) = Range(users) \cup Range(last)
    BY <1>3, <2>1, <2>3, Joined
  <2> QED
    BY <1>3, <2>1, <2>2, <2>4
<1>6. /\ cb' \in [Names -> {Nil} \cup Blocks]
      /\ cb'[n] # Nil /\ cb'[n].index = x /\ cb'[n].users = Append(users, w)
      /\ \A m \in Names \ {n} : cb'[m] = cb[m]
  <2>1. cb \in [Names -> {Nil} \cup Blocks]
    BY DEF SharedInv, BlocksOK
  <2>2. PICK b : b = [cb[n] EXCEPT !.users = Append(users, w)]
    OBVIOUS
  <2>3. b \in Blocks /\ b.index = x /\ b.users = Append(users, w)
    BY <1>1, <1>3, <1>5, <2>2 DEF Blocks
  <2>4. cb' = [cb EXCEPT ![n] = b]
    BY <1>2, <2>2
  <2>5. b # Nil
    BY <2>3, BlockNotNil
  <2> QED
    BY <2>1, <2>3, <2>4, <2>5
<1>7. SameIndices
  BY <1>1, <1>2, <1>6 DEF SameIndices
<1>8. BlocksOK'
  <2>1. ASSUME NEW m \in Names, cb[m] # Nil
        PROVE  IsInjective(cb'[m].users) /\ Range(cb'[m].users) = Held(cb[m].index)'
    <3>1. CASE m = n
      <4>1. Held(x)' = Held(x) \cup {w}
        BY <1>3, <1>4
      <4> QED
        BY <1>1, <1>5, <1>6, <3>1, <4>1
    <3>2. CASE m # n
      <4>1. cb[m].index # x /\ cb[m].index \in Index
        BY <1>3, <2>1, <3>2, Registered
      <4>2. Held(cb[m].index)' = Held(cb[m].index)
        <5>1. PICK y : y = cb[m].index
          OBVIOUS
        <5>2. cb'[m].index = cb[m].index
          BY <1>6, <3>2
        <5>3. Held(y)' = Held(y)
          BY <1>4, <4>1, <5>1
        <5> QED
          BY <5>1, <5>2, <5>3
      <4> QED
        BY <1>6, <2>1, <3>2, <4>2, Registered
    <3> QED
      BY <3>1, <3>2
  <2> QED
    BY <1>6, <1>7, <2>1, BlocksKept
<1>9. IndicesOK'
  <2>1. ASSUME NEW q \in alive, NEW b \in Places
        PROVE  pages'[q][b] = pages[q][b] \/ pages'[q][b] = x
    BY <1>4 DEF SharedInv, TablesOK, ScalarsOK, Ranges
  <2>2. \A q \in alive', b \in Places : pages'[q][b] # Nil =>
           \/ \E r \in alive, d \in Places : pages[r][d] = pages'[q][b]
           \/ \E m \in Names : cb[m] # Nil /\ cb[m].index = pages'[q][b]
    BY <1>1, <1>2, <2>1
  <2> QED
    BY <1>7, <2>2, IndicesFound
<1>10. ScalarsOK'
  BY <1>2 DEF SharedInv, ScalarsOK
<1>11. p \in alive
  BY <1>2 DEF CanMap
<1> QED
  BY <1>1, <1>2, <1>4, <1>7, <1>8, <1>9, <1>10, <1>11, VectorKept DEF SharedInv

\* The index of a new segment is one that nothing refers to.
LEMMA InsertEffect ==
  ASSUME SharedInv, NEW n \in Names, shared # MaxShared,
         vec' = Vec!Insert(vec, n), shared' = shared + 1,
         NEW x, x = Vec!InsertAt(vec)
  PROVE  /\ x \in Index /\ shared' \in 0 .. MaxShared
         /\ \A m \in Names : cb[m] # Nil => cb[m].index # x
         /\ \A q \in alive, b \in Places : pages[q][b] # x
         /\ \E k \in Nat \ {0} : Vector(vec', k) /\ k <= shared'
         /\ DOMAIN vec'.next = DOMAIN vec.next \cup {x}
         /\ vec'.next[x] = -2 /\ vec'.data[x] = n
         /\ \A y \in DOMAIN vec.next \ {x} :
              vec'.next[y] = vec.next[y] /\ vec'.data[y] = vec.data[y]
<1>1. shared \in 0 .. MaxShared /\ MaxShared \in Nat /\ shared' \in 0 .. MaxShared
  BY LimitsAssumption DEF SharedInv, ScalarsOK
<1>2. PICK k \in Nat \ {0} : Vector(vec, k) /\ (k <= shared \/ (k = 1 /\ vec.first # -1))
  BY DEF SharedInv, VectorOK
<1>3. DOMAIN vec.next = 0 .. k - 1
  BY <1>2, VectorSize
<1>4. PICK w : w = vec'
  OBVIOUS
<1>5. CASE vec.first = -1
  <2>1. /\ Vector(w, k + 1) /\ x = k /\ k \notin DOMAIN vec.next
        /\ w.next[k] = -2 /\ w.data[k] = n
        /\ \A y \in 0 .. k - 1 : w.next[y] = vec.next[y] /\ w.data[y] = vec.data[y]
    BY <1>2, <1>4, <1>5, InsertNew
  <2>2. k + 1 \in Nat \ {0} /\ k + 1 <= shared' /\ (k + 1) - 1 = k
    BY <1>1, <1>2, <1>5
  <2>3. DOMAIN w.next = 0 .. k
    BY <2>1, <2>2, VectorSize
  <2>4. 0 .. k = (0 .. k - 1) \cup {k}
    OBVIOUS
  <2>5. x \in Index
    BY <1>1, <2>1, <2>2 DEF Index
  <2>6. \A m \in Names : cb[m] # Nil => cb[m].index # x
    BY <2>1, Registered
  <2>7. \A q \in alive, b \in Places : pages[q][b] # x
    <3>1. x # Nil
      BY <2>5, NilAssumption DEF Index
    <3> QED
      BY <2>6, <3>1 DEF SharedInv, IndicesOK
  <2> QED
    BY <1>1, <1>3, <1>4, <2>1, <2>2, <2>3, <2>4, <2>5, <2>6, <2>7
<1>6. CASE vec.first # -1
  <2>1. /\ Vector(w, k) /\ x = vec.first /\ x \in 0 .. k - 1 /\ vec.next[x] # -2
        /\ w.next[x] = -2 /\ w.data[x] = n
        /\ \A y \in (0 .. k - 1) \ {x} : w.next[y] = vec.next[y] /\ w.data[y] = vec.data[y]
    BY <1>2, <1>4, <1>6, InsertFirst
  <2>2. k <= shared'
    BY <1>1, <1>2
  <2>3. DOMAIN w.next = 0 .. k - 1
    BY <2>1, VectorSize
  <2>4. 0 .. k - 1 = (0 .. k - 1) \cup {x}
    BY <2>1
  <2>5. x \in Index
    BY <1>1, <2>1, <2>2 DEF Index
  <2>6. \A m \in Names : cb[m] # Nil => cb[m].index # x
    BY <2>1, Registered
  <2>7. \A q \in alive, b \in Places : pages[q][b] # x
    <3>1. x # Nil
      BY <2>5, NilAssumption DEF Index
    <3> QED
      BY <2>6, <3>1 DEF SharedInv, IndicesOK
  <2> QED
    BY <1>1, <1>3, <1>4, <2>1, <2>2, <2>3, <2>4, <2>5, <2>6, <2>7
<1> QED
  BY <1>5, <1>6

LEMMA CreateSharedKeeps ==
  ASSUME SharedInv, Tidy, NEW p \in Procs, NEW a \in Places, NEW n \in Names,
         CreateShared(p, a, n)
  PROVE  /\ SharedInv'
         /\ \A m \in Names : cb[m] # Nil => cb'[m] # Nil /\ cb'[m].index = cb[m].index
         /\ p \in alive /\ pages[p][a] = Nil /\ alive' = alive
         /\ \E x \in Index : /\ pages' = [pages EXCEPT ![p][a] = x]
                             /\ cb'[n] # Nil /\ cb'[n].index = x
<1>1. PICK x, w : x = Vec!InsertAt(vec) /\ w = User(p)
  OBVIOUS
<1>2. /\ CanMap(p, a) /\ cb[n] = Nil /\ shared # MaxShared
      /\ Map(p, a, x) /\ cb' = [cb EXCEPT ![n] = [index |-> x, users |-> <<w>>]]
      /\ vec' = Vec!Insert(vec, n) /\ shared' = shared + 1 /\ alive' = alive
      /\ halted' = halted /\ wild' = wild
  BY <1>1 DEF CreateShared
<1>p. p \in alive
  BY <1>2 DEF CanMap
<1>3. /\ x \in Index /\ shared' \in 0 .. MaxShared
      /\ \A m \in Names : cb[m] # Nil => cb[m].index # x
      /\ \A q \in alive, b \in Places : pages[q][b] # x
      /\ \E k \in Nat \ {0} : Vector(vec', k) /\ k <= shared'
      /\ DOMAIN vec'.next = DOMAIN vec.next \cup {x}
      /\ vec'.next[x] = -2 /\ vec'.data[x] = n
      /\ \A y \in DOMAIN vec.next \ {x} :
           vec'.next[y] = vec.next[y] /\ vec'.data[y] = vec.data[y]
  BY <1>1, <1>2, InsertEffect
<1>4. /\ TablesOK' /\ w \in Users
      /\ pages[p][a] = Nil /\ pages' = [pages EXCEPT ![p][a] = x]
      /\ w \notin Held(x)
      /\ \A y \in Index : Held(y)' = IF y = x THEN Held(y) \cup {w} ELSE Held(y)
  BY <1>1, <1>2, <1>3, <1>p, MapEffect
<1>5. Held(x) = {}
  <2>1. ASSUME NEW u \in Held(x) PROVE FALSE
    <3>1. u.pcb \in alive /\ u.entry \in For(st[u.pcb], pages[u.pcb], x)
      BY HeldIs
    <3>2. st[u.pcb][u.entry].at \in Places /\ pages[u.pcb][st[u.pcb][u.entry].at] = x
      BY <3>1 DEF For, SharedInv, TablesOK, Neat
    <3> QED
      BY <1>3, <3>1, <3>2
  <2> QED
    BY <2>1
<1>6. /\ cb' \in [Names -> {Nil} \cup Blocks]
      /\ cb'[n] # Nil /\ cb'[n].index = x /\ cb'[n].users = <<w>>
      /\ \A m \in Names \ {n} : cb'[m] = cb[m]
  <2>1. cb \in [Names -> {Nil} \cup Blocks]
    BY DEF SharedInv, BlocksOK
  <2>2. PICK b : b = [index |-> x, users |-> <<w>>]
    OBVIOUS
  <2>3. b \in Blocks /\ b.index = x /\ b.users = <<w>>
    BY <1>3, <1>4, <2>2, Single DEF Blocks
  <2>4. cb' = [cb EXCEPT ![n] = b]
    BY <1>2, <2>2
  <2>5. b # Nil
    BY <2>3, BlockNotNil
  <2> QED
    BY <2>1, <2>3, <2>4, <2>5
<1>8. BlocksOK'
  <2>1. ASSUME NEW m \in Names, cb'[m] # Nil
        PROVE  IsInjective(cb'[m].users) /\ Range(cb'[m].users) = Held(cb[m].index)'
    <3>1. CASE m = n
      <4>1. Held(x)' = {w}
        BY <1>3, <1>4, <1>5
      <4>2. IsInjective(<<w>>) /\ Range(<<w>>) = {w}
        BY <1>4, Single
      <4> QED
        BY <1>6, <3>1, <4>1, <4>2
    <3>2. CASE m # n
      <4>0. cb'[m] = cb[m] /\ cb[m] # Nil
        BY <1>6, <2>1, <3>2
      <4>1. PICK y : y = cb[m].index
        OBVIOUS
      <4>2. y # x /\ y \in Index
        BY <1>3, <4>0, <4>1, Registered
      <4>3. Held(y)' = Held(y)
        BY <1>4, <4>2
      <4>4. IsInjective(cb[m].users) /\ Range(cb[m].users) = Held(cb[m].index)
        BY <4>0, Registered
      <4> QED
        BY <4>0, <4>1, <4>3, <4>4
    <3> QED
      BY <3>1, <3>2
  <2> QED
    BY <1>6, <2>1 DEF BlocksOK
<1>9. \A m \in Names : cb[m] # Nil => cb'[m] # Nil /\ cb'[m].index = cb[m].index
  BY <1>2, <1>6
<1>10. IndicesOK'
  <2> SUFFICES ASSUME NEW q \in alive', NEW b \in Places, pages'[q][b] # Nil
               PROVE  \E m \in Names : cb'[m] # Nil /\ cb'[m].index = pages'[q][b]
    BY DEF IndicesOK
  <2>1. q \in alive /\ (pages'[q][b] = pages[q][b] \/ pages'[q][b] = x)
    BY <1>2, <1>4 DEF SharedInv, TablesOK, ScalarsOK, Ranges
  <2>2. CASE pages'[q][b] = x
    BY <1>6, <2>2
  <2>3. CASE pages'[q][b] = pages[q][b]
    <3>1. PICK m \in Names : cb[m] # Nil /\ cb[m].index = pages[q][b]
      BY <2>1, <2>3 DEF SharedInv, IndicesOK
    <3> QED
      BY <1>9, <2>3, <3>1
  <2> QED
    BY <2>1, <2>2, <2>3
<1>11. VectorOK'
  <2>1. ASSUME NEW y \in DOMAIN vec'.next, vec'.next[y] = -2
        PROVE  \E m \in Names : cb'[m] # Nil /\ cb'[m].index = y
    <3>1. CASE y = x
      BY <1>6, <3>1
    <3>2. CASE y # x
      <4>1. y \in DOMAIN vec.next /\ vec.next[y] = -2
        BY <1>3, <2>1, <3>2
      <4>2. PICK m \in Names : cb[m] # Nil /\ cb[m].index = y
        BY <4>1 DEF SharedInv, VectorOK
      <4> QED
        BY <1>9, <4>2
    <3> QED
      BY <3>1, <3>2
  <2>2. ASSUME NEW m \in Names, cb'[m] # Nil
        PROVE  /\ cb'[m].index \in DOMAIN vec'.next
               /\ vec'.next[cb'[m].index] = -2
               /\ vec'.data[cb'[m].index] = m
    <3>1. CASE m = n
      BY <1>3, <1>6, <3>1
    <3>2. CASE m # n
      <4>1. cb'[m] = cb[m] /\ cb[m] # Nil
        BY <1>6, <2>2, <3>2
      <4>2. /\ cb[m].index \in DOMAIN vec.next /\ vec.next[cb[m].index] = -2
            /\ vec.data[cb[m].index] = m /\ cb[m].index # x
        BY <1>3, <4>1, Registered
      <4> QED
        BY <1>3, <4>1, <4>2
    <3> QED
      BY <3>1, <3>2
  <2> QED
    BY <1>3, <2>1, <2>2 DEF VectorOK
<1>12. ScalarsOK'
  BY <1>2, <1>3 DEF SharedInv, ScalarsOK
<1>13. SharedInv'
  BY <1>4, <1>8, <1>10, <1>11, <1>12 DEF SharedInv
<1> QED
  BY <1>2, <1>3, <1>4, <1>6, <1>9, <1>13, <1>p

\* The place of p among the users.
FirstOf(users, p) == SelectInSeq(users, LAMBDA u : u.pcb = p)

\* disconnect_shared_segment finds the user of the process, which has one at most.
LEMMA FindUser ==
  ASSUME SharedInv, NEW p \in alive, NEW n \in Names, cb[n] # Nil,
         NEW i \in For(st[p], pages[p], cb[n].index),
         NEW k, k = FirstOf(cb[n].users, p)
  PROVE  /\ k \in 1 .. Len(cb[n].users)
         /\ cb[n].users[k] = [pcb |-> p, entry |-> i]
         /\ ~\A u \in Range(cb[n].users) : u.pcb # p
<1>1. PICK users, x : users = cb[n].users /\ x = cb[n].index
  OBVIOUS
<1>2. users \in Seq(Users) /\ Range(users) = Held(x) /\ x \in Index
  BY <1>1, Registered
<1>3. PICK m \in Nat : m = Len(users)
  BY <1>2
<1>4. \A u : u \in Range(users) <=> \E j \in 1 .. m : users[j] = u
  BY <1>2, <1>3, RangeOf
<1>5. PICK w : w = [pcb |-> p, entry |-> i]
  OBVIOUS
<1>6. w \in Users /\ w.pcb = p /\ w.entry = i
  BY <1>5 DEF Users, For, Mapped, SharedInv, ScalarsOK
<1>7. w \in Range(users)
  BY <1>1, <1>2, <1>6, HeldIs
<1> DEFINE I == {j \in 1 .. Len(users) : users[j].pcb = p}
<1>8. I # {} /\ I \in SUBSET Nat
  BY <1>3, <1>4, <1>6, <1>7
<1>9. k = Min(I)
  BY <1>1, <1>8 DEF FirstOf, SelectInSeq
<1>10. Min(I) \in I
  <2> HIDE DEF I
  <2> QED
    BY <1>8, MinIs
<1>11. k \in 1 .. m /\ users[k].pcb = p
  BY <1>3, <1>9, <1>10
<1>12. users[k] \in Held(x)
  BY <1>2, <1>4, <1>11
<1>13. users[k] \in Users /\ users[k].entry \in For(st[p], pages[p], x)
  BY <1>11, <1>12, HeldIs
<1>14. Neat(st[p], pages[p], count[p])
  BY DEF SharedInv, TablesOK
<1>15. users[k].entry = i
  BY <1>1, <1>2, <1>13, <1>14, NeatOnce
<1>16. users[k] = [pcb |-> p, entry |-> i]
  BY <1>11, <1>13, <1>15 DEF Users
<1> QED
  BY <1>1, <1>3, <1>6, <1>7, <1>11, <1>16

\* What the steps of a call work on.
Fields == {"st", "pages", "count", "users", "halted", "wild"}

\* The segments other than n have the users U as they have.
SameOthers(U, n) == \A m \in Names \ {n} : cb[m] # Nil => U[m] = cb[m].users

\* The state that disconnect_shared_segment leaves.
LEMMA DisconnectIs ==
  ASSUME SharedInv, NEW p \in alive, NEW n \in Names, cb[n] # Nil,
         NEW i \in For(st[p], pages[p], cb[n].index),
         NEW k, k = FirstOf(cb[n].users, p),
         NEW d, d = Disconnect(Now, p, n)
  PROVE  /\ d.st = st /\ d.pages = pages /\ d.count = count
         /\ d.halted = FALSE /\ d.wild = FALSE /\ DOMAIN d = Fields
         /\ d.users[n] = RemoveAt(cb[n].users, k)
         /\ SameOthers(d.users, n)
<1>1. n # Nil
  BY NilAssumption
<1>2. /\ Now.users = [m \in Names |-> IF cb[m] = Nil THEN <<>> ELSE cb[m].users]
      /\ Now.st = st /\ Now.pages = pages /\ Now.count = count
      /\ Now.halted = FALSE /\ Now.wild = FALSE
      /\ DOMAIN Now = Fields
  BY DEF Now, Fields
<1>3. Now.users[n] = cb[n].users
  BY <1>2
<1>4. ~\A u \in Range(Now.users[n]) : u.pcb # p
  <2>1. ~\A u \in Range(cb[n].users) : u.pcb # p
    BY FindUser
  <2> QED
    BY <1>3, <2>1
<1>5. SelectInSeq(Now.users[n], LAMBDA u : u.pcb = p) = k
  BY <1>3 DEF FirstOf, SelectInSeq
<1>6. d = [Now EXCEPT !.users[n] = RemoveAt(Now.users[n], k)]
  BY <1>1, <1>4, <1>5 DEF Disconnect
<1>7. d = [Now EXCEPT !.users = [Now.users EXCEPT ![n] = RemoveAt(cb[n].users, k)]]
  BY <1>3, <1>6
<1>8. PICK U : U = [Now.users EXCEPT ![n] = RemoveAt(cb[n].users, k)]
  OBVIOUS
<1>9. d = [Now EXCEPT !.users = U]
  BY <1>7, <1>8
<1>10. /\ d.st = st /\ d.pages = pages /\ d.count = count
       /\ d.halted = FALSE /\ d.wild = FALSE /\ d.users = U /\ DOMAIN d = Fields
  BY <1>2, <1>9 DEF Fields
<1>11. /\ U[n] = RemoveAt(cb[n].users, k)
       /\ \A m \in Names \ {n} : cb[m] # Nil => U[m] = cb[m].users
  BY <1>2, <1>8
<1> QED
  BY <1>10, <1>11 DEF SameOthers

\* From d to r, entry i of p is free and nothing is mapped at its place a.
Deleted(d, r, p, i, a) ==
  /\ r.st = [d.st EXCEPT ![p][i].free = TRUE]
  /\ r.pages = [d.pages EXCEPT ![p][a] = Nil]
  /\ r.count = [d.count EXCEPT ![p] = @ - 1]
  /\ r.users = d.users /\ r.halted = d.halted /\ r.wild = d.wild

\* The state that delete_segment_ind leaves, when it finds its segment.
LEMMA DeleteIndIs ==
  ASSUME NEW s, NEW p, NEW i, NEW a, a = s.st[p][i].at, a # Nil, s.pages[p][a] # Nil,
         NEW rel \in BOOLEAN,
         NEW d, d = IF rel THEN Disconnect(s, p, NameAt(s.pages[p][a])) ELSE s,
         DOMAIN d = Fields,
         NEW r, r = DeleteInd(s, p, i, rel)
  PROVE  Deleted(d, r, p, i, a) /\ DOMAIN r = Fields
<1>1. d = IF Releases(rel) THEN Disconnect(s, p, NameAt(s.pages[p][a])) ELSE s
  BY DEF Releases
<1>2. r = [d EXCEPT !.pages[p][a] = Nil, !.st[p][i].free = TRUE, !.count[p] = @ - 1]
  BY <1>1 DEF DeleteInd
<1>3. r.st = [d.st EXCEPT ![p][i].free = TRUE]
  BY <1>2 DEF Fields
<1>4. r.pages = [d.pages EXCEPT ![p][a] = Nil]
  BY <1>2 DEF Fields
<1>5. r.count = [d.count EXCEPT ![p] = @ - 1]
  BY <1>2 DEF Fields
<1>6. r.users = d.users /\ r.halted = d.halted /\ r.wild = d.wild /\ DOMAIN r = Fields
  BY <1>2 DEF Fields
<1> QED
  BY <1>3, <1>4, <1>5, <1>6 DEF Deleted

\* The same, of the variables.
Unmaps(p, i) ==
  /\ st' = [st EXCEPT ![p][i].free = TRUE]
  /\ pages' = [pages EXCEPT ![p][st[p][i].at] = Nil]
  /\ count' = [count EXCEPT ![p] = @ - 1]
  /\ alive' = alive

\* The control blocks have the users U from now on.
Tells(U) ==
  cb' = [m \in Names |-> IF cb[m] = Nil THEN Nil ELSE [cb[m] EXCEPT !.users = U[m]]]

\* A process gives up a segment, and the control block is told.
LEMMA ReleaseKeeps ==
  ASSUME SharedInv, NEW p \in alive, NEW n \in Names, cb[n] # Nil,
         NEW i \in For(st[p], pages[p], cb[n].index),
         NEW k, k = FirstOf(cb[n].users, p),
         NEW U, U[n] = RemoveAt(cb[n].users, k),
         SameOthers(U, n),
         Unmaps(p, i), Tells(U),
         halted' = FALSE, wild' = FALSE,
         vec' = vec, shared' = shared
  PROVE  /\ SharedInv' /\ SameIndices
         /\ st[p][i].at \in Places /\ pages[p][st[p][i].at] = cb[n].index
<1>1. PICK users, x, w : users = cb[n].users /\ x = cb[n].index
                         /\ w = [pcb |-> p, entry |-> i]
  OBVIOUS
<1>2. /\ x \in Index /\ users \in Seq(Users) /\ IsInjective(users)
      /\ Range(users) = Held(x) /\ cb[n] \in Blocks
      /\ \A m \in Names : cb[m] # Nil /\ cb[m].index = x => m = n
  BY <1>1, Registered
<1>3. k \in 1 .. Len(users) /\ users[k] = w
  <2>1. k \in 1 .. Len(cb[n].users) /\ cb[n].users[k] = [pcb |-> p, entry |-> i]
    BY FindUser
  <2> QED
    BY <1>1, <2>1
<1>4. /\ U[n] \in Seq(Users) /\ IsInjective(U[n])
      /\ Range(U[n]) = Held(x) \ {w}
  <2>1. U[n] = RemoveAt(users, k)
    BY <1>1
  <2>2. /\ RemoveAt(users, k) \in Seq(Users) /\ IsInjective(RemoveAt(users, k))
        /\ Range(RemoveAt(users, k)) = Range(users) \ {users[k]}
    BY <1>2, <1>3, Removed
  <2> QED
    BY <1>2, <1>3, <2>1, <2>2
<1>5. i \in Mapped(st[p]) /\ pages[p][st[p][i].at] = x
  BY <1>1 DEF For
<1>6. st[p][i].at \in Places
  BY <1>5 DEF SharedInv, TablesOK, Neat
<1>7. TablesOK' /\ \A y \in Index : Held(y)' = Held(y) \ {w}
  BY <1>1, <1>5, UnmapEffect DEF Unmaps
<1>8. ASSUME NEW m \in Names, cb[m] # Nil
      PROVE  /\ cb'[m] \in Blocks /\ cb'[m] # Nil
             /\ cb'[m].index = cb[m].index /\ cb'[m].users = U[m]
  <2>1. PICK b : b = [cb[m] EXCEPT !.users = U[m]]
    OBVIOUS
  <2>2. cb[m] \in Blocks /\ U[m] \in Seq(Users)
    BY <1>1, <1>4, <1>8, Registered DEF SameOthers
  <2>3. b \in Blocks /\ b.index = cb[m].index /\ b.users = U[m]
    BY <2>1, <2>2 DEF Blocks
  <2>4. cb'[m] = b
    BY <1>8, <2>1 DEF Tells
  <2> QED
    BY <2>3, <2>4, BlockNotNil
<1>9. cb' \in [Names -> {Nil} \cup Blocks] /\ \A m \in Names : cb[m] = Nil => cb'[m] = Nil
  <2>1. \A m \in Names : cb[m] = Nil => cb'[m] = Nil
    BY DEF Tells
  <2>2. \A m \in Names : cb'[m] \in {Nil} \cup Blocks
    BY <1>8, <2>1
  <2>3. PICK c : c = cb'
    OBVIOUS
  <2>4. DOMAIN c = Names /\ c = [m \in DOMAIN c |-> c[m]]
    BY <2>3 DEF Tells
  <2> QED
    BY <2>1, <2>2, <2>3, <2>4
<1>10. SameIndices
  BY <1>8, <1>9 DEF SameIndices
<1>11. BlocksOK'
  <2>1. ASSUME NEW m \in Names, cb[m] # Nil
        PROVE  IsInjective(cb'[m].users) /\ Range(cb'[m].users) = Held(cb[m].index)'
    <3>1. PICK y : y = cb[m].index
      OBVIOUS
    <3>2. cb'[m].index = y /\ cb'[m].users = U[m] /\ y \in Index
      BY <1>8, <2>1, <3>1, Registered
    <3>3. Held(y)' = Held(y) \ {w}
      BY <1>7, <3>2
    <3>4. CASE m = n
      BY <1>1, <1>4, <3>1, <3>2, <3>3, <3>4
    <3>5. CASE m # n
      <4>1. y # x /\ U[m] = cb[m].users
        BY <1>2, <2>1, <3>1, <3>5 DEF SameOthers
      <4>2. w \notin Held(y)
        <5>1. i \notin For(st[p], pages[p], y)
          BY <1>5, <4>1 DEF For
        <5>2. w.pcb = p /\ w.entry = i
          BY <1>1
        <5> QED
          BY <5>1, <5>2, HeldIs
      <4>3. IsInjective(cb[m].users) /\ Range(cb[m].users) = Held(cb[m].index)
        BY <2>1, Registered
      <4>4. Held(y)' = Held(y)
        BY <3>3, <4>2
      <4> QED
        BY <3>1, <3>2, <4>1, <4>3, <4>4
    <3> QED
      BY <3>4, <3>5
  <2> QED
    BY <1>9, <1>10, <2>1, BlocksKept
<1>12. IndicesOK'
  <2>1. \A q \in alive, b \in Places : pages'[q][b] = pages[q][b] \/ pages'[q][b] = Nil
    BY <1>6 DEF SharedInv, TablesOK, ScalarsOK, Ranges, Unmaps
  <2>2. \A q \in alive', b \in Places : pages'[q][b] # Nil =>
           \E r \in alive, d \in Places : pages[r][d] = pages'[q][b]
    BY <2>1 DEF Unmaps
  <2> QED
    BY <1>10, <2>2, IndicesFound
<1>13. ScalarsOK'
  BY DEF SharedInv, ScalarsOK, Unmaps
<1> QED
  BY <1>1, <1>5, <1>6, <1>7, <1>10, <1>11, <1>12, <1>13, VectorKept DEF SharedInv

\* A process gives up one of its segments.
Gives(p, a) == pages[p][a] # Nil /\ pages' = [pages EXCEPT ![p][a] = Nil]

LEMMA GivenUp ==
  ASSUME SharedInv, NEW p \in alive, NEW n \in Names, cb[n] # Nil,
         NEW i \in For(st[p], pages[p], cb[n].index),
         NEW d, d = Disconnect(Now, p, n),
         NEW r, Deleted(d, r, p, i, st[p][i].at), Keep(r)
  PROVE  SharedInv' /\ SameIndices /\ alive' = alive /\ \E a \in Places : Gives(p, a)
<1>1. PICK k, x : k = FirstOf(cb[n].users, p) /\ x = cb[n].index
  OBVIOUS
<1>2. /\ d.st = st /\ d.pages = pages /\ d.count = count
      /\ d.halted = FALSE /\ d.wild = FALSE
      /\ d.users[n] = RemoveAt(cb[n].users, k) /\ SameOthers(d.users, n)
  BY <1>1, DisconnectIs
<1>3. PICK U : U = r.users
  OBVIOUS
<1>4. U[n] = RemoveAt(cb[n].users, k) /\ SameOthers(U, n)
  BY <1>2, <1>3 DEF Deleted
<1>5. Unmaps(p, i)
  BY <1>2 DEF Keep, Unmaps, Deleted
<1>6. Tells(U) /\ halted' = FALSE /\ wild' = FALSE /\ vec' = vec /\ shared' = shared
  BY <1>2, <1>3 DEF Keep, Tells, Deleted
<1>7. /\ SharedInv' /\ SameIndices
      /\ st[p][i].at \in Places /\ pages[p][st[p][i].at] = cb[n].index
  BY <1>1, <1>4, <1>5, <1>6, ReleaseKeeps
<1>8. cb[n].index # Nil
  BY Registered, NilAssumption DEF Index
<1> QED
  BY <1>5, <1>7, <1>8 DEF Gives, Unmaps

LEMMA DisconnectKeeps ==
  ASSUME SharedInv, Tidy, NEW p \in Procs, NEW n \in Names, DisconnectShared(p, n)
  PROVE  SharedInv' /\ SameIndices /\ alive' = alive /\ p \in alive
         /\ \E a \in Places : Gives(p, a)
<1>1. PICK d, k, x : d = Disconnect(Now, p, n) /\ k = FirstOf(cb[n].users, p)
                     /\ x = cb[n].index
  OBVIOUS
<1>2. /\ p \in alive /\ cb[n] # Nil /\ \E b \in Places : pages[p][b] = x
      /\ Keep(IF d.halted THEN d ELSE DeleteInd(d, p, cb[n].users[k].entry, FALSE))
  BY <1>1 DEF DisconnectShared, FirstOf, Tidy
<1>3. x # Nil
  BY <1>1, <1>2, Registered, NilAssumption DEF Index
<1>4. PICK i : i \in For(st[p], pages[p], x)
  <2>1. Neat(st[p], pages[p], count[p])
    BY <1>2 DEF SharedInv, TablesOK
  <2> QED
    BY <1>2, <1>3, <2>1 DEF Neat, For
<1>5. cb[n].users[k] = [pcb |-> p, entry |-> i]
  BY <1>1, <1>2, <1>4, FindUser
<1>6. /\ d.st = st /\ d.pages = pages /\ d.halted = FALSE /\ DOMAIN d = Fields
  BY <1>1, <1>2, <1>4, DisconnectIs
<1>7. PICK r : r = DeleteInd(d, p, i, FALSE)
  OBVIOUS
<1>8. Keep(r)
  <2>1. cb[n].users[k].entry = i /\ ~d.halted
    BY <1>5, <1>6
  <2> QED
    BY <1>2, <1>7, <2>1
<1>9. PICK a : a = st[p][i].at
  OBVIOUS
<1>10. a \in Places /\ a # Nil /\ pages[p][a] = x
  <2>1. Neat(st[p], pages[p], count[p]) /\ i \in Mapped(st[p]) /\ pages[p][a] = x
    BY <1>2, <1>4, <1>9 DEF SharedInv, TablesOK, For
  <2> QED
    BY <1>9, <2>1, NilAssumption DEF Neat
<1>11. Deleted(d, r, p, i, st[p][i].at)
  <2>1. a = d.st[p][i].at /\ d.pages[p][a] # Nil
    BY <1>3, <1>6, <1>9, <1>10
  <2> QED
    BY <1>6, <1>7, <1>9, <1>10, <2>1, DeleteIndIs
<1> QED
  BY <1>1, <1>2, <1>4, <1>8, <1>11, GivenUp

LEMMA DeleteSegmentKeeps ==
  ASSUME SharedInv, Tidy, NEW p \in Procs, NEW a \in Places, DeleteSegment(p, a)
  PROVE  SharedInv' /\ SameIndices /\ alive' = alive /\ p \in alive
         /\ \E b \in Places : Gives(p, b)
<1>0. /\ p \in alive /\ pages[p][a] # Nil
      /\ \E i \in Matches(p, a) : Keep(DeleteInd(Now, p, i, TRUE))
  BY DEF DeleteSegment, Tidy
<1>1. PICK i, r : i \in Matches(p, a) /\ r = DeleteInd(Now, p, i, TRUE) /\ Keep(r)
  BY <1>0
<1>2. p \in alive /\ pages[p][a] # Nil /\ Keep(r)
  BY <1>0, <1>1
<1>3. Neat(st[p], pages[p], count[p])
  BY <1>2 DEF SharedInv, TablesOK
<1>4. PICK j \in Mapped(st[p]) : st[p][j].at = a
  BY <1>2, <1>3 DEF Neat
<1>5. \A k \in Entry : k < j => st[p][k].at # a
  BY <1>3, <1>4, EntriesFinite DEF Neat, Mapped
<1>6. i = j
  <2>1. /\ i \in Entry /\ st[p][i].at \in {a, Nil}
        /\ \A k \in 0 .. i - 1 : st[p][k].at # a
    BY <1>1 DEF Matches
  <2>2. j \in Entry /\ i \in Nat /\ j \in Nat
    BY <2>1, EntriesFinite DEF Mapped
  <2>3. ~(j < i)
    BY <1>4, <2>1, <2>2
  <2>4. ASSUME i < j PROVE FALSE
    <3>1. st[p][i].at # a
      BY <1>5, <2>1, <2>4
    <3>2. st[p][i].at # Nil
      BY <1>3, <2>1, <2>4 DEF Neat
    <3> QED
      BY <2>1, <3>1, <3>2
  <2> QED
    BY <2>2, <2>3, <2>4
<1>7. PICK n \in Names : cb[n] # Nil /\ cb[n].index = pages[p][a]
  BY <1>2 DEF SharedInv, IndicesOK
<1>8. NameAt(pages[p][a]) = n
  BY <1>7, Registered
<1>9. i \in For(st[p], pages[p], cb[n].index)
  BY <1>4, <1>6, <1>7 DEF For
<1>10. PICK d : d = Disconnect(Now, p, n)
  OBVIOUS
<1>11. DOMAIN d = Fields
  BY <1>2, <1>7, <1>9, <1>10, DisconnectIs
<1>12. Now.st = st /\ Now.pages = pages
  BY DEF Now
<1>13. a # Nil
  BY NilAssumption
<1>14. Deleted(d, r, p, i, a)
  <2>1. PICK s : s = Now
    OBVIOUS
  <2>2. a = s.st[p][i].at /\ s.pages[p][a] # Nil /\ NameAt(s.pages[p][a]) = n
    BY <1>2, <1>4, <1>6, <1>8, <1>12, <2>1
  <2>3. d = IF TRUE THEN Disconnect(s, p, NameAt(s.pages[p][a])) ELSE s
    BY <1>10, <2>1, <2>2
  <2>4. r = DeleteInd(s, p, i, TRUE)
    BY <1>1, <2>1
  <2> QED
    BY <1>11, <1>13, <2>2, <2>3, <2>4, DeleteIndIs
<1>15. Deleted(d, r, p, i, st[p][i].at)
  BY <1>4, <1>6, <1>14
<1> QED
  BY <1>2, <1>7, <1>9, <1>10, <1>15, GivenUp

------------------------------------------------------------------------------
(* Deleting a shared segment.                                              *)

\* s is a state of the steps of a call in which the processes' tables are in order.
Working(s) ==
  /\ DOMAIN s = Fields
  /\ s.st \in [Procs -> Tables] /\ s.pages \in [Procs -> Ranges]
  /\ s.count \in [Procs -> 0 .. MaxSegments]
  /\ s.halted = FALSE /\ s.wild = FALSE
  /\ \A p \in alive : Neat(s.st[p], s.pages[p], s.count[p])

\* The entries of p for the segment with index y.
ForIn(s, p, y) == For(s.st[p], s.pages[p], y)

LEMMA NowWorks ==
  ASSUME SharedInv
  PROVE  /\ Working(Now) /\ Now.pages = pages
         /\ \A p, y : ForIn(Now, p, y) = For(st[p], pages[p], y)
         /\ \A n \in Names : cb[n] # Nil => Now.users[n] = cb[n].users
<1>1. /\ Now.st = st /\ Now.pages = pages /\ Now.count = count
      /\ Now.halted = FALSE /\ Now.wild = FALSE
      /\ Now.users = [n \in Names |-> IF cb[n] = Nil THEN <<>> ELSE cb[n].users]
      /\ DOMAIN Now = Fields
  BY DEF Now, Fields
<1>2. Working(Now)
  BY <1>1 DEF Working, SharedInv, TablesOK
<1> QED
  BY <1>1, <1>2 DEF ForIn

\* One user loses its entry.
LEMMA DeleteUserWorks ==
  ASSUME ScalarsOK, NEW s, Working(s), NEW p \in alive, NEW x \in Index,
         NEW i \in ForIn(s, p, x),
         NEW u, u.pcb = p, u.entry = i,
         NEW r, r = DeleteUser(s, u)
  PROVE  /\ Working(r)
         /\ \A q \in alive, y \in Index :
              ForIn(r, q, y) = IF q = p THEN ForIn(s, q, y) \ {i} ELSE ForIn(s, q, y)
         /\ \A q \in alive, b \in Places :
              \/ r.pages[q][b] = s.pages[q][b]
              \/ r.pages[q][b] = Nil /\ s.pages[q][b] = x
<1>1. PICK e, g, c : e = s.st[p] /\ g = s.pages[p] /\ c = s.count[p]
  OBVIOUS
<1>2. /\ s.st \in [Procs -> Tables] /\ s.pages \in [Procs -> Ranges]
      /\ s.count \in [Procs -> 0 .. MaxSegments] /\ alive \subseteq Procs
      /\ p \in Procs /\ \A q \in alive : Neat(s.st[q], s.pages[q], s.count[q])
  BY DEF ScalarsOK, Working
<1>3. e \in Tables /\ g \in Ranges /\ c \in 0 .. MaxSegments /\ Neat(e, g, c)
  BY <1>1, <1>2
<1>4. i \in Mapped(e) /\ i \in Entry /\ g[e[i].at] = x
  BY <1>1 DEF ForIn, For, Mapped
<1>5. PICK a : a = e[i].at
  OBVIOUS
<1>6. a \in Places /\ a # Nil /\ x # Nil /\ g[a] = x
  BY <1>3, <1>4, <1>5, NilAssumption DEF Neat, Index
<1>7. Deleted(s, r, p, i, a) /\ DOMAIN r = Fields
  <2>1. r = DeleteInd(s, p, i, FALSE)
    BY DEF DeleteUser, Stopped, Working
  <2>2. a = s.st[p][i].at /\ s.pages[p][a] # Nil /\ DOMAIN s = Fields
    BY <1>1, <1>5, <1>6 DEF Working
  <2> QED
    BY <1>6, <2>1, <2>2, DeleteIndIs
<1>8. PICK f : f = [e EXCEPT ![i].free = TRUE]
  OBVIOUS
<1>9. /\ f \in Tables /\ f[i].free /\ f[i].at = e[i].at
      /\ \A j \in Entry \ {i} : f[j] = e[j]
  <2>1. [e[i] EXCEPT !.free = TRUE] \in SegEntry
    BY <1>3, <1>4 DEF Tables, SegEntry
  <2>2. f \in Tables
    BY <1>3, <1>4, <1>8, <2>1 DEF Tables
  <2> QED
    BY <1>3, <1>4, <1>8, <2>2 DEF Tables, SegEntry
<1>10. PICK h : h = [g EXCEPT ![a] = Nil]
  OBVIOUS
<1>11. h \in Ranges /\ h[e[i].at] = Nil /\ \A b \in Places \ {e[i].at} : h[b] = g[b]
  BY <1>3, <1>5, <1>6, <1>10 DEF Ranges
<1>12. /\ Neat(f, h, c - 1) /\ c \in 1 .. MaxSegments
       /\ \A y \in Index : For(f, h, y) = For(e, g, y) \ {i}
  BY <1>3, <1>4, <1>9, <1>11, NeatUnmap
<1>13. c - 1 \in 0 .. MaxSegments
  BY <1>12, LimitsAssumption
<1>14. /\ r.st = [s.st EXCEPT ![p] = f]
       /\ r.pages = [s.pages EXCEPT ![p] = h]
       /\ r.count = [s.count EXCEPT ![p] = c - 1]
       /\ r.halted = FALSE /\ r.wild = FALSE
  <2>1. r.st = [s.st EXCEPT ![p] = f]
    BY <1>1, <1>7, <1>8 DEF Deleted
  <2>2. r.pages = [s.pages EXCEPT ![p] = h]
    BY <1>1, <1>7, <1>10 DEF Deleted
  <2>3. r.count = [s.count EXCEPT ![p] = c - 1]
    BY <1>1, <1>7 DEF Deleted
  <2>4. r.halted = FALSE /\ r.wild = FALSE
    BY <1>7 DEF Deleted, Working
  <2> QED
    BY <2>1, <2>2, <2>3, <2>4
<1>15. /\ r.st[p] = f /\ r.pages[p] = h /\ r.count[p] = c - 1
       /\ \A q \in alive \ {p} :
            r.st[q] = s.st[q] /\ r.pages[q] = s.pages[q] /\ r.count[q] = s.count[q]
  BY <1>2, <1>14
<1>16. Working(r)
  <2>1. r.st \in [Procs -> Tables]
    BY <1>2, <1>9, <1>14
  <2>2. r.pages \in [Procs -> Ranges]
    BY <1>2, <1>11, <1>14
  <2>3. r.count \in [Procs -> 0 .. MaxSegments]
    BY <1>2, <1>13, <1>14
  <2>4. \A q \in alive : Neat(r.st[q], r.pages[q], r.count[q])
    BY <1>2, <1>12, <1>15
  <2> QED
    BY <1>7, <1>14, <2>1, <2>2, <2>3, <2>4 DEF Working
<1>17. ASSUME NEW q \in alive, NEW y \in Index
       PROVE  ForIn(r, q, y) = IF q = p THEN ForIn(s, q, y) \ {i} ELSE ForIn(s, q, y)
  BY <1>1, <1>12, <1>15 DEF ForIn
<1>18. ASSUME NEW q \in alive, NEW b \in Places
       PROVE  \/ r.pages[q][b] = s.pages[q][b]
              \/ r.pages[q][b] = Nil /\ s.pages[q][b] = x
  BY <1>1, <1>5, <1>6, <1>11, <1>15
<1> QED
  BY <1>16, <1>17, <1>18

\* The states f that DeleteAll goes through, from s on, with the m users q.
After(f, s, q, m) ==
  f = [k \in 0 .. m |-> IF k = 0 THEN s ELSE DeleteUser(f[k - 1], q[k])]

LEMMA AfterExists ==
  ASSUME NEW s, NEW q, NEW m \in Nat
  PROVE  \E f : After(f, s, q, m)
<1> DEFINE Steps(f, n) == After(f, s, q, n)
           S == {n \in Nat : \E f : Steps(f, n)}
<1>1. 0 \in S
  <2>1. PICK f : f = [k \in 0 .. 0 |-> s]
    OBVIOUS
  <2>2. \A k \in 0 .. 0 : k = 0
    OBVIOUS
  <2>3. Steps(f, 0)
    BY <2>1, <2>2 DEF After
  <2> QED
    BY <2>3
<1>2. ASSUME NEW n \in Nat, n \in S PROVE n + 1 \in S
  <2>1. PICK f : Steps(f, n)
    BY <1>2
  <2>2. PICK t : t = DeleteUser(f[n], q[n + 1])
    OBVIOUS
  <2>3. PICK g : g = [k \in 0 .. n + 1 |-> IF k = n + 1 THEN t ELSE f[k]]
    OBVIOUS
  <2>4. /\ \A k \in 0 .. n : k \in 0 .. n + 1 /\ k # n + 1
        /\ n + 1 \in 0 .. n + 1 /\ n \in 0 .. n /\ n + 1 # 0 /\ (n + 1) - 1 = n
        /\ \A k \in 0 .. n : k # 0 => k - 1 \in 0 .. n
        /\ \A k \in 0 .. n + 1 : k # n + 1 => k \in 0 .. n
    OBVIOUS
  <2>5. \A k \in 0 .. n : g[k] = f[k]
    BY <2>3, <2>4
  <2>6. g[n + 1] = t
    BY <2>3, <2>4
  <2>7. ASSUME NEW k \in 0 .. n + 1
        PROVE  g[k] = IF k = 0 THEN s ELSE DeleteUser(g[k - 1], q[k])
    <3>1. CASE k = n + 1
      BY <2>2, <2>4, <2>5, <2>6, <3>1
    <3>2. CASE k # n + 1
      <4>1. k \in 0 .. n
        BY <2>4, <3>2
      <4>2. f[k] = IF k = 0 THEN s ELSE DeleteUser(f[k - 1], q[k])
        BY <2>1, <4>1 DEF After
      <4>3. k # 0 => g[k - 1] = f[k - 1]
        BY <2>4, <2>5, <4>1
      <4> QED
        BY <2>5, <4>1, <4>2, <4>3
    <3> QED
      BY <3>1, <3>2
  <2>8. Steps(g, n + 1)
    BY <2>3, <2>7 DEF After
  <2> QED
    BY <2>8
<1>3. Nat \subseteq S
  <2> HIDE DEF S
  <2> QED
    BY <1>1, <1>2, Induction
<1> QED
  BY <1>3

\* delete_shared_segment takes the segment from all its users, and nothing else.
LEMMA DeleteAllWorks ==
  ASSUME SharedInv, NEW n \in Names, cb[n] # Nil,
         NEW x, x = cb[n].index,
         NEW r, r = DeleteAll(Now, n)
  PROVE  /\ Working(r)
         /\ \A p \in alive, y \in Index :
              ForIn(r, p, y) = IF y = x THEN {} ELSE For(st[p], pages[p], y)
         /\ \A p \in alive, b \in Places :
              r.pages[p][b] = IF pages[p][b] = x THEN Nil ELSE pages[p][b]
<1>1. PICK q : q = cb[n].users
  OBVIOUS
<1>2. /\ x \in Index /\ q \in Seq(Users) /\ IsInjective(q) /\ Range(q) = Held(x)
  BY <1>1, Registered
<1>3. PICK m \in Nat : m = Len(q)
  BY <1>2
<1>4. DOMAIN q = 1 .. m /\ \A u : u \in Range(q) <=> \E j \in 1 .. m : q[j] = u
  BY <1>2, <1>3, RangeOf
<1>5. PICK s : s = Now
  OBVIOUS
<1>6. s.users[n] = q
  BY <1>1, <1>5, NowWorks
<1>7. PICK f : /\ f = [k \in 0 .. m |-> IF k = 0 THEN s ELSE DeleteUser(f[k - 1], q[k])]
               /\ r = f[m]
  <2>1. \E f : After(f, s, q, m)
    BY <1>3, AfterExists
  <2>2. PICK f : f = CHOOSE g :
                   g = [k \in 0 .. m |-> IF k = 0 THEN s ELSE DeleteUser(g[k - 1], q[k])]
    OBVIOUS
  <2>3. f = [k \in 0 .. m |-> IF k = 0 THEN s ELSE DeleteUser(f[k - 1], q[k])]
    BY <2>1, <2>2 DEF After
  <2>4. r = f[m]
    BY <1>3, <1>5, <1>6, <2>2 DEF DeleteAll, Visited
  <2> QED
    BY <2>3, <2>4
<1>8. f[0] = s
  <2>1. 0 \in 0 .. m
    BY <1>3
  <2> QED
    BY <1>7, <2>1
<1>9. \A k \in Nat : k + 1 <= m => f[k + 1] = DeleteUser(f[k], q[k + 1])
  <2> SUFFICES ASSUME NEW k \in Nat, k + 1 <= m PROVE f[k + 1] = DeleteUser(f[k], q[k + 1])
    OBVIOUS
  <2>1. k + 1 \in 0 .. m /\ k + 1 # 0 /\ (k + 1) - 1 = k
    BY <1>3
  <2> QED
    BY <1>7, <2>1
<1> DEFINE Left(k) == \A p \in alive, y \in Index, i \in Entry :
              i \in ForIn(f[k], p, y) <=>
                /\ i \in For(st[p], pages[p], y)
                /\ ~(y = x /\ \E j \in 1 .. k : q[j] = [pcb |-> p, entry |-> i])
           Shown(k) == \A p \in alive, b \in Places :
              \/ f[k].pages[p][b] = pages[p][b]
              \/ f[k].pages[p][b] = Nil /\ pages[p][b] = x
           S == {k \in Nat : k <= m => Working(f[k]) /\ Left(k) /\ Shown(k)}
<1>10. 0 \in S
  <2>1. Working(f[0])
    BY <1>5, <1>8, NowWorks
  <2>2. Left(0)
    <3>1. 1 .. 0 = {}
      OBVIOUS
    <3> QED
      BY <1>5, <1>8, <3>1, NowWorks
  <2>3. Shown(0)
    BY <1>5, <1>8, NowWorks
  <2> QED
    BY <2>1, <2>2, <2>3
<1>11. ASSUME NEW k \in Nat, k \in S PROVE k + 1 \in S
  <2> SUFFICES ASSUME k + 1 <= m PROVE Working(f[k + 1]) /\ Left(k + 1) /\ Shown(k + 1)
    OBVIOUS
  <2>1. Working(f[k]) /\ Left(k) /\ Shown(k)
    BY <1>3, <1>11
  <2>2. k + 1 \in 1 .. m
    BY <1>3
  <2>3. PICK u : u = q[k + 1]
    OBVIOUS
  <2>4. u \in Held(x)
    BY <1>2, <1>4, <2>2, <2>3
  <2>5. PICK p, i : p = u.pcb /\ i = u.entry
    OBVIOUS
  <2>6. p \in alive /\ u \in Users /\ i \in For(st[p], pages[p], x)
    BY <2>4, <2>5, HeldIs
  <2>7. u = [pcb |-> p, entry |-> i] /\ i \in Entry
    BY <2>5, <2>6 DEF Users
  <2>8. \A j \in 1 .. k : q[j] # u
    <3> SUFFICES ASSUME NEW j \in 1 .. k, q[j] = u PROVE FALSE
      OBVIOUS
    <3>1. j \in 1 .. m /\ j # k + 1
      BY <1>3
    <3> QED
      BY <1>2, <1>4, <2>2, <2>3, <3>1 DEF IsInjective
  <2>9. i \in ForIn(f[k], p, x)
    BY <1>2, <2>1, <2>6, <2>7, <2>8
  <2>10. PICK t, g : t = f[k] /\ g = f[k + 1]
    OBVIOUS
  <2>11. g = DeleteUser(t, u) /\ Working(t) /\ i \in ForIn(t, p, x)
    BY <1>9, <2>1, <2>3, <2>9, <2>10
  <2>12. ScalarsOK
    BY DEF SharedInv
  <2>13. /\ Working(g)
         /\ \A o \in alive, y \in Index :
              ForIn(g, o, y) = IF o = p THEN ForIn(t, o, y) \ {i} ELSE ForIn(t, o, y)
         /\ \A o \in alive, b \in Places :
              \/ g.pages[o][b] = t.pages[o][b]
              \/ g.pages[o][b] = Nil /\ t.pages[o][b] = x
    BY <1>2, <2>5, <2>6, <2>11, <2>12, DeleteUserWorks
  <2>14. Left(k + 1)
    <3> SUFFICES ASSUME NEW o \in alive, NEW y \in Index, NEW e \in Entry
                 PROVE  e \in ForIn(g, o, y) <=>
                          /\ e \in For(st[o], pages[o], y)
                          /\ ~(y = x /\ \E j \in 1 .. k + 1 : q[j] = [pcb |-> o, entry |-> e])
      BY <2>10
    <3>1. e \in ForIn(t, o, y) <=>
                          /\ e \in For(st[o], pages[o], y)
                          /\ ~(y = x /\ \E j \in 1 .. k : q[j] = [pcb |-> o, entry |-> e])
      BY <2>1, <2>10
    <3>2. e \in ForIn(g, o, y) <=> e \in ForIn(t, o, y) /\ ~(o = p /\ e = i)
      BY <2>13
    <3>3. (\E j \in 1 .. k + 1 : q[j] = [pcb |-> o, entry |-> e]) <=>
             (\E j \in 1 .. k : q[j] = [pcb |-> o, entry |-> e])
             \/ u = [pcb |-> o, entry |-> e]
      <4>1. \A j : j \in 1 .. k + 1 <=> j \in 1 .. k \/ j = k + 1
        OBVIOUS
      <4> QED
        BY <2>3, <4>1
    <3>4. u = [pcb |-> o, entry |-> e] <=> o = p /\ e = i
      BY <2>7
    <3>5. CASE o = p /\ e = i
      <4>1. y = x <=> e \in For(st[o], pages[o], y)
        <5>1. e \in Mapped(st[o]) /\ pages[o][st[o][e].at] = x
          BY <2>6, <3>5 DEF For
        <5> QED
          BY <5>1 DEF For
      <4> QED
        BY <3>2, <3>3, <3>4, <3>5, <4>1
    <3>6. CASE ~(o = p /\ e = i)
      BY <3>1, <3>2, <3>3, <3>4, <3>6
    <3> QED
      BY <3>5, <3>6
  <2>15. Shown(k + 1)
    <3> SUFFICES ASSUME NEW o \in alive, NEW b \in Places
                 PROVE  \/ g.pages[o][b] = pages[o][b]
                        \/ g.pages[o][b] = Nil /\ pages[o][b] = x
      BY <2>10
    <3>1. \/ t.pages[o][b] = pages[o][b]
          \/ t.pages[o][b] = Nil /\ pages[o][b] = x
      BY <2>1, <2>10
    <3>2. x # Nil
      BY <1>2, NilAssumption DEF Index
    <3> QED
      BY <2>13, <3>1, <3>2
  <2> QED
    BY <2>10, <2>13, <2>14, <2>15
<1>12. m \in S
  <2> HIDE DEF S
  <2> QED
    BY <1>3, <1>10, <1>11, Induction
<1>13. Working(r) /\ Left(m) /\ Shown(m)
  BY <1>3, <1>7, <1>12
<1> HIDE DEF S
<1>14. ASSUME NEW p \in alive, NEW y \in Index
       PROVE  ForIn(r, p, y) = IF y = x THEN {} ELSE For(st[p], pages[p], y)
  <2>1. ForIn(r, p, y) \subseteq Entry /\ For(st[p], pages[p], y) \subseteq Entry
    BY DEF ForIn, For, Mapped
  <2>2. ASSUME NEW i \in Entry
        PROVE  i \in ForIn(r, p, y) <=> i \in For(st[p], pages[p], y) /\ y # x
    <3>1. i \in ForIn(r, p, y) <=>
                /\ i \in For(st[p], pages[p], y)
                /\ ~(y = x /\ \E j \in 1 .. m : q[j] = [pcb |-> p, entry |-> i])
      BY <1>7, <1>13
    <3>2. PICK w : w = [pcb |-> p, entry |-> i]
      OBVIOUS
    <3>3. w \in Users /\ w.pcb = p /\ w.entry = i
      BY <3>2 DEF Users, SharedInv, ScalarsOK
    <3>4. i \in For(st[p], pages[p], x) => w \in Range(q)
      BY <1>2, <3>3, HeldIs
    <3>5. i \in For(st[p], pages[p], x) =>
            \E j \in 1 .. m : q[j] = [pcb |-> p, entry |-> i]
      BY <1>4, <3>2, <3>4
    <3> QED
      BY <3>1, <3>5
  <2> QED
    BY <2>1, <2>2
<1>15. ASSUME NEW p \in alive, NEW b \in Places
       PROVE  r.pages[p][b] = IF pages[p][b] = x THEN Nil ELSE pages[p][b]
  <2>1. \/ r.pages[p][b] = pages[p][b]
        \/ r.pages[p][b] = Nil /\ pages[p][b] = x
    BY <1>7, <1>13
  <2>2. r.pages[p][b] # x
    <3> SUFFICES ASSUME r.pages[p][b] = x PROVE FALSE
      OBVIOUS
    <3>1. Neat(r.st[p], r.pages[p], r.count[p]) /\ x # Nil
      BY <1>2, <1>13, NilAssumption DEF Working, Index
    <3>2. PICK j \in Mapped(r.st[p]) : r.st[p][j].at = b
      BY <3>1 DEF Neat
    <3>3. j \in ForIn(r, p, x)
      BY <3>2 DEF ForIn, For
    <3> QED
      BY <1>2, <1>14, <3>3
  <2> QED
    BY <2>1, <2>2
<1> QED
  BY <1>13, <1>14, <1>15

LEMMA DeleteSharedKeeps ==
  ASSUME SharedInv, NEW n \in Names, DeleteShared(n)
  PROVE  /\ SharedInv'
         /\ cb[n] # Nil /\ alive' = alive
         /\ \A m \in Names \ {n} : cb'[m] = cb[m]
         /\ \A p \in alive, b \in Places :
              pages'[p][b] = IF pages[p][b] = cb[n].index THEN Nil ELSE pages[p][b]
<1>1. PICK r, x : r = DeleteAll(Now, n) /\ x = cb[n].index
  OBVIOUS
<1>2. /\ cb[n] # Nil /\ st' = r.st /\ pages' = r.pages /\ count' = r.count
      /\ halted' = r.halted /\ wild' = r.wild
      /\ cb' = [cb EXCEPT ![n] = Nil] /\ vec' = Vec!MarkEmpty(vec, x)
      /\ shared' = shared /\ alive' = alive
  BY <1>1 DEF DeleteShared
<1>3. /\ Working(r)
      /\ \A p \in alive, y \in Index :
           ForIn(r, p, y) = IF y = x THEN {} ELSE For(st[p], pages[p], y)
      /\ \A p \in alive, b \in Places :
           r.pages[p][b] = IF pages[p][b] = x THEN Nil ELSE pages[p][b]
  BY <1>1, <1>2, DeleteAllWorks
<1>4. /\ x \in Index /\ x \in DOMAIN vec.next /\ vec.next[x] = -2 /\ vec.data[x] = n
      /\ \A m \in Names : cb[m] # Nil /\ cb[m].index = x => m = n
  BY <1>1, <1>2, Registered
<1>5. cb'[n] = Nil /\ \A m \in Names \ {n} : cb'[m] = cb[m]
  BY <1>2 DEF SharedInv, BlocksOK
<1>6. TablesOK'
  BY <1>2, <1>3 DEF TablesOK, Working
<1>7. ASSUME NEW y \in Index, y # x PROVE Held(y)' = Held(y)
  <2>1. ASSUME NEW u \in Users PROVE u \in Held(y)' <=> u \in Held(y)
    <3>1. u \in Held(y)' <=> u.pcb \in alive /\ u.entry \in For(st'[u.pcb], pages'[u.pcb], y)
      BY <1>2 DEF Held
    <3>2. u \in Held(y) <=> u.pcb \in alive /\ u.entry \in For(st[u.pcb], pages[u.pcb], y)
      BY DEF Held
    <3>3. u.pcb \in alive =>
            For(st'[u.pcb], pages'[u.pcb], y) = For(st[u.pcb], pages[u.pcb], y)
      BY <1>2, <1>3, <1>7 DEF ForIn
    <3> QED
      BY <3>1, <3>2, <3>3
  <2>2. Held(y)' \subseteq Users /\ Held(y) \subseteq Users
    BY DEF Held
  <2> QED
    BY <2>1, <2>2
<1>8. BlocksOK'
  <2>1. cb' \in [Names -> {Nil} \cup Blocks]
    BY <1>2 DEF SharedInv, BlocksOK
  <2>2. ASSUME NEW m \in Names, cb'[m] # Nil
        PROVE  IsInjective(cb'[m].users) /\ Range(cb'[m].users) = Held(cb[m].index)'
    <3>1. m # n /\ cb'[m] = cb[m] /\ cb[m] # Nil
      BY <1>5, <2>2
    <3>2. PICK y : y = cb[m].index
      OBVIOUS
    <3>3. y # x /\ y \in Index
      BY <1>4, <3>1, <3>2, Registered
    <3>4. Held(y)' = Held(y)
      BY <1>7, <3>3
    <3>5. IsInjective(cb[m].users) /\ Range(cb[m].users) = Held(cb[m].index)
      BY <3>1, Registered
    <3> QED
      BY <3>1, <3>2, <3>4, <3>5
  <2> QED
    BY <2>1, <2>2 DEF BlocksOK
<1>9. IndicesOK'
  <2> SUFFICES ASSUME NEW p \in alive', NEW b \in Places, pages'[p][b] # Nil
               PROVE  \E m \in Names : cb'[m] # Nil /\ cb'[m].index = pages'[p][b]
    BY DEF IndicesOK
  <2>1. p \in alive /\ pages'[p][b] = pages[p][b] /\ pages[p][b] # x
    BY <1>2, <1>3
  <2>2. PICK m \in Names : cb[m] # Nil /\ cb[m].index = pages[p][b]
    BY <2>1 DEF SharedInv, IndicesOK
  <2>3. m # n
    BY <1>1, <2>1, <2>2
  <2> QED
    BY <1>5, <2>1, <2>2, <2>3
<1>10. VectorOK'
  <2>1. PICK k \in Nat \ {0} : Vector(vec, k) /\ (k <= shared \/ (k = 1 /\ vec.first # -1))
    BY DEF SharedInv, VectorOK
  <2>2. DOMAIN vec.next = 0 .. k - 1
    BY <2>1, VectorSize
  <2>3. PICK w : w = vec'
    OBVIOUS
  <2>4. /\ Vector(w, k) /\ w.first = x /\ w.next[x] # -2
        /\ \A y \in (0 .. k - 1) \ {x} : w.next[y] = vec.next[y] /\ w.data[y] = vec.data[y]
    BY <1>2, <1>4, <2>1, <2>2, <2>3, MarkFirst
  <2>5. DOMAIN w.next = 0 .. k - 1
    BY <2>1, <2>4, VectorSize
  <2>6. w.first # -1
    BY <1>4, <2>2, <2>4
  <2>7. k <= shared' \/ (k = 1 /\ vec'.first # -1)
    BY <1>2, <2>1, <2>3, <2>6
  <2>8. ASSUME NEW y \in DOMAIN vec'.next, vec'.next[y] = -2
        PROVE  \E m \in Names : cb'[m] # Nil /\ cb'[m].index = y
    <3>1. y # x /\ y \in DOMAIN vec.next /\ vec.next[y] = -2
      BY <2>2, <2>3, <2>4, <2>5, <2>8
    <3>2. PICK m \in Names : cb[m] # Nil /\ cb[m].index = y
      BY <3>1 DEF SharedInv, VectorOK
    <3>3. m # n
      BY <1>1, <3>1, <3>2
    <3> QED
      BY <1>5, <3>2, <3>3
  <2>9. ASSUME NEW m \in Names, cb'[m] # Nil
        PROVE  /\ cb'[m].index \in DOMAIN vec'.next
               /\ vec'.next[cb'[m].index] = -2
               /\ vec'.data[cb'[m].index] = m
    <3>1. m # n /\ cb'[m] = cb[m] /\ cb[m] # Nil
      BY <1>5, <2>9
    <3>2. /\ cb[m].index \in DOMAIN vec.next /\ vec.next[cb[m].index] = -2
          /\ vec.data[cb[m].index] = m /\ cb[m].index # x
      BY <1>4, <3>1, Registered
    <3> QED
      BY <2>2, <2>3, <2>4, <2>5, <3>1, <3>2
  <2>10. Vector(vec', k)
    BY <2>3, <2>4
  <2> QED
    BY <2>1, <2>7, <2>8, <2>9, <2>10 DEF VectorOK
<1>11. ScalarsOK'
  BY <1>2, <1>3 DEF SharedInv, ScalarsOK, Working
<1>12. SharedInv'
  BY <1>6, <1>8, <1>9, <1>10, <1>11 DEF SharedInv
<1> QED
  BY <1>1, <1>2, <1>3, <1>5, <1>12

------------------------------------------------------------------------------
(* Cloning.                                                                *)

\* The users that a clone q makes of the entries T of its source, which uses S.
ListOf(q, S, T) ==
  [k \in 1 .. Cardinality(T) |-> [pcb |-> q, entry |-> Rank(S, Nth(T, k - 1))]]

LEMMA CloneUsers ==
  ASSUME NEW S \in SUBSET Entry, NEW T \in SUBSET S, NEW q \in Procs,
         \A i \in S : Rank(S, i) \in Entry,
         NEW U, U = ListOf(q, S, T)
  PROVE  /\ U \in Seq(Users)
         /\ IsInjective(U)
         /\ \A u : u \in Range(U) <=> \E i \in T : u = [pcb |-> q, entry |-> Rank(S, i)]
<1>1. /\ S \in SUBSET Nat /\ T \in SUBSET Nat /\ IsFiniteSet(S) /\ IsFiniteSet(T)
  BY EntriesFinite, FS_Subset
<1>2. PICK c : c = Cardinality(T)
  OBVIOUS
<1>3. /\ c \in Nat
      /\ \A k \in 0 .. c - 1 : Nth(T, k) \in T /\ Rank(T, Nth(T, k)) = k
      /\ \A i \in T : Rank(T, i) \in 0 .. c - 1 /\ Nth(T, Rank(T, i)) = i
  BY <1>1, <1>2, NthOf
<1>4. \A i \in S : Nth(S, Rank(S, i)) = i
  BY <1>1, NthOf
<1>5. \A k \in 1 .. c : k - 1 \in 0 .. c - 1 /\ Nth(T, k - 1) \in T
  <2>1. \A k \in 1 .. c : k - 1 \in 0 .. c - 1
    BY <1>3
  <2> QED
    BY <1>3, <2>1
<1>6. U = [k \in 1 .. c |-> [pcb |-> q, entry |-> Rank(S, Nth(T, k - 1))]]
  BY <1>2 DEF ListOf
<1>7. \A k \in 1 .. c : U[k] \in Users /\ U[k].entry = Rank(S, Nth(T, k - 1))
  <2> SUFFICES ASSUME NEW k \in 1 .. c
               PROVE  U[k] \in Users /\ U[k].entry = Rank(S, Nth(T, k - 1))
    OBVIOUS
  <2>1. Nth(T, k - 1) \in S /\ Rank(S, Nth(T, k - 1)) \in Entry
    BY <1>5
  <2> QED
    BY <1>6, <2>1 DEF Users
<1>8. U \in Seq(Users) /\ DOMAIN U = 1 .. c /\ Len(U) = c
  <2>1. U \in [1 .. c -> Users]
    BY <1>6, <1>7
  <2>2. U \in Seq(Users)
    BY <1>3, <2>1, SeqDef
  <2>3. DOMAIN U = 1 .. Len(U) /\ Len(U) \in Nat /\ DOMAIN U = 1 .. c
    BY <2>1, <2>2, LenProperties
  <2>4. Len(U) = c
    <3>1. PICK m \in Nat : m = Len(U)
      BY <2>3
    <3>2. 1 .. m = 1 .. c
      BY <2>3, <3>1
    <3>3. \A k : k \in 1 .. m <=> k \in 1 .. c
      BY <3>2
    <3>4. (m \in 1 .. m <=> m \in 1 .. c) /\ (c \in 1 .. m <=> c \in 1 .. c)
      BY <3>3
    <3>5. m = c
      BY <1>3, <3>4
    <3> QED
      BY <3>1, <3>5
  <2> QED
    BY <2>2, <2>3, <2>4
<1>9. IsInjective(U)
  <2> SUFFICES ASSUME NEW k \in 1 .. c, NEW m \in 1 .. c, U[k] = U[m] PROVE k = m
    BY <1>8 DEF IsInjective
  <2>1. Rank(S, Nth(T, k - 1)) = Rank(S, Nth(T, m - 1))
    BY <1>7
  <2>2. Nth(T, k - 1) = Nth(T, m - 1)
    BY <1>4, <1>5, <2>1
  <2>3. k - 1 = m - 1
    BY <1>3, <1>5, <2>2
  <2> QED
    BY <1>3, <2>3
<1>10. ASSUME NEW u
       PROVE  u \in Range(U) <=> \E i \in T : u = [pcb |-> q, entry |-> Rank(S, i)]
  <2>1. u \in Range(U) <=> \E k \in 1 .. c : U[k] = u
    <3>1. U \in Seq(Users) /\ Len(U) = c
      BY <1>8
    <3> QED
      BY <3>1, RangeOf
  <2>2. ASSUME NEW k \in 1 .. c, U[k] = u
        PROVE  \E i \in T : u = [pcb |-> q, entry |-> Rank(S, i)]
    BY <1>5, <1>6, <2>2
  <2>3. ASSUME NEW i \in T, u = [pcb |-> q, entry |-> Rank(S, i)]
        PROVE  \E k \in 1 .. c : U[k] = u
    <3>1. PICK k : k = Rank(T, i) + 1
      OBVIOUS
    <3>2. k \in 1 .. c /\ k - 1 = Rank(T, i)
      BY <1>3, <3>1
    <3>3. Nth(T, k - 1) = i
      BY <1>3, <3>2
    <3> QED
      BY <1>6, <2>3, <3>2, <3>3
  <2> QED
    BY <2>1, <2>2, <2>3
<1> QED
  BY <1>8, <1>9, <1>10

LEMMA CloneKeeps ==
  ASSUME SharedInv, NEW p \in Procs, NEW q \in Procs, CloneProcess(p, q)
  PROVE  /\ SharedInv' /\ SameIndices
         /\ p \in alive /\ q \notin alive /\ alive' = alive \cup {q}
         /\ pages' = [pages EXCEPT ![q] = pages[p]]
<1>1. PICK e, g, m, S : e = st[p] /\ g = pages[p] /\ m = Cardinality(S)
                        /\ S = Mapped(e)
  OBVIOUS
<1>2. /\ st \in [Procs -> Tables] /\ pages \in [Procs -> Ranges]
      /\ count \in [Procs -> 0 .. MaxSegments] /\ alive \subseteq Procs
      /\ \A o \in alive : Neat(st[o], pages[o], count[o])
  BY DEF SharedInv, TablesOK, ScalarsOK
<1>3. PICK f : f = [i \in Entry |-> IF i < m THEN e[Nth(S, i)] ELSE FreeEntry]
  OBVIOUS
<1>4. p \in alive /\ q \notin alive /\ alive' = alive \cup {q}
      /\ vec' = vec /\ shared' = shared /\ halted' = halted /\ wild' = wild
  BY DEF CloneProcess
<1>5. {i \in Entry : ~st[p][i].free} = S
  BY <1>1 DEF Mapped
<1>6. st' = [st EXCEPT ![q] = f] /\ pages' = [pages EXCEPT ![q] = g]
      /\ count' = [count EXCEPT ![q] = m]
  BY <1>1, <1>3, <1>5 DEF CloneProcess
<1> DEFINE Of(n) == {i \in S : g[e[i].at] = cb[n].index}
           More(n) == [k \in 1 .. Cardinality(Of(n)) |-> CloneUser(p, q, Nth(Of(n), k - 1))]
<1>7. cb' = [n \in Names |-> IF cb[n] = Nil THEN Nil
                             ELSE [cb[n] EXCEPT !.users = @ \o More(n)]]
  BY <1>1, <1>5 DEF CloneProcess
<1>8. e \in Tables /\ g \in Ranges /\ Neat(e, g, m)
  <2>1. Neat(e, g, count[p]) /\ e \in Tables /\ g \in Ranges
    BY <1>1, <1>2, <1>4
  <2>2. count[p] = m
    BY <1>1, <2>1 DEF Neat
  <2> QED
    BY <2>1, <2>2
<1>9. /\ f \in Tables /\ m \in 0 .. MaxSegments /\ Neat(f, g, m)
      /\ \A i \in S : Rank(S, i) \in Mapped(f)
      /\ \A x \in Index : For(f, g, x) = {Rank(S, i) : i \in For(e, g, x)}
  <2>1. f = [i \in Entry |-> IF i < m THEN e[Nth(Mapped(e), i)] ELSE FreeEntry]
    BY <1>1, <1>3
  <2>2. /\ f \in Tables /\ m \in 0 .. MaxSegments /\ Neat(f, g, m)
        /\ \A i \in Mapped(e) : Rank(Mapped(e), i) \in Mapped(f)
        /\ \A x \in Index : For(f, g, x) = {Rank(Mapped(e), i) : i \in For(e, g, x)}
    BY <1>8, <2>1, NeatClone
  <2> QED
    BY <1>1, <2>2
<1>10. /\ st'[q] = f /\ pages'[q] = g /\ count'[q] = m
       /\ \A o \in alive : st'[o] = st[o] /\ pages'[o] = pages[o] /\ count'[o] = count[o]
  BY <1>2, <1>4, <1>6
<1>11. TablesOK'
  <2>1. st' \in [Procs -> Tables]
    BY <1>2, <1>6, <1>9
  <2>2. pages' \in [Procs -> Ranges]
    BY <1>2, <1>6, <1>8
  <2>3. count' \in [Procs -> 0 .. MaxSegments]
    BY <1>2, <1>6, <1>9
  <2>4. \A o \in alive' : Neat(st'[o], pages'[o], count'[o])
    BY <1>2, <1>4, <1>9, <1>10
  <2> QED
    BY <2>1, <2>2, <2>3, <2>4 DEF TablesOK
<1>12. ASSUME NEW x \in Index, NEW u \in Users
       PROVE  u \in Held(x)' <=> u \in Held(x) \/ (u.pcb = q /\ u.entry \in For(f, g, x))
  <2>1. u \in Held(x)' <=>
          u.pcb \in alive' /\ u.entry \in For(st'[u.pcb], pages'[u.pcb], x)
    BY DEF Held
  <2>2. u \in Held(x) <=> u.pcb \in alive /\ u.entry \in For(st[u.pcb], pages[u.pcb], x)
    BY DEF Held
  <2>3. CASE u.pcb = q
    BY <1>4, <1>10, <2>1, <2>2, <2>3
  <2>4. CASE u.pcb # q
    BY <1>4, <1>10, <2>1, <2>2, <2>4
  <2> QED
    BY <2>3, <2>4
<1>13. S \in SUBSET Entry /\ \A i \in S : Rank(S, i) \in Entry
  BY <1>1, <1>9 DEF Mapped
<1>14. ASSUME NEW n \in Names, cb[n] # Nil
       PROVE  /\ More(n) \in Seq(Users) /\ IsInjective(More(n))
              /\ \A u : u \in Range(More(n)) <=>
                   u \in Users /\ u.pcb = q /\ u.entry \in For(f, g, cb[n].index)
  <2>1. PICK x, T : x = cb[n].index /\ T = For(e, g, x)
    OBVIOUS
  <2>2. Of(n) = T /\ T \in SUBSET S /\ x \in Index
    <3>1. x \in Index
      BY <1>14, <2>1, Registered
    <3> QED
      BY <1>1, <2>1, <3>1 DEF For
  <2>3. T \in SUBSET Nat /\ IsFiniteSet(T) /\ S \in SUBSET Nat
    BY <1>13, <2>2, EntriesFinite, FS_Subset
  <2>4. PICK c : c = Cardinality(T)
    OBVIOUS
  <2>5. c \in Nat /\ \A k \in 0 .. c - 1 : Nth(T, k) \in T
    BY <2>3, <2>4, NthOf
  <2>6. ASSUME NEW i \in T PROVE CloneUser(p, q, i) = [pcb |-> q, entry |-> Rank(S, i)]
    <3>1. i \in Entry /\ i \in Nat /\ Entry = 0 .. MaxSegments - 1 /\ MaxSegments \in Nat
      BY <1>13, <2>2, EntriesFinite DEF Entry
    <3>2. \A j \in 0 .. i - 1 : j \in Entry
      BY <3>1
    <3>3. \A j \in Entry : j \in 0 .. i - 1 <=> j < i
      BY <3>1
    <3>4. {j \in 0 .. i - 1 : ~st[p][j].free} = {j \in S : j < i}
      BY <1>1, <3>2, <3>3 DEF Mapped
    <3> QED
      BY <3>4 DEF CloneUser, Rank
  <2>7. PICK U : U = ListOf(q, S, T)
    OBVIOUS
  <2>8. More(n) = U
    <3>1. \A k \in 1 .. c : CloneUser(p, q, Nth(T, k - 1)) =
                              [pcb |-> q, entry |-> Rank(S, Nth(T, k - 1))]
      <4>1. \A k \in 1 .. c : k - 1 \in 0 .. c - 1
        BY <2>5
      <4> QED
        BY <2>5, <2>6, <4>1
    <3> QED
      BY <2>2, <2>4, <2>7, <3>1 DEF ListOf
  <2>9. /\ U \in Seq(Users) /\ IsInjective(U)
        /\ \A u : u \in Range(U) <=> \E i \in T : u = [pcb |-> q, entry |-> Rank(S, i)]
    <3>1. /\ S \in SUBSET Entry /\ T \in SUBSET S /\ q \in Procs
          /\ \A i \in S : Rank(S, i) \in Entry
      BY <1>13, <2>2
    <3>2. U \in Seq(Users)
      BY <2>7, <3>1, CloneUsers
    <3>3. IsInjective(U)
      BY <2>7, <3>1, CloneUsers
    <3>4. ASSUME NEW u
          PROVE  u \in Range(U) <=> \E i \in T : u = [pcb |-> q, entry |-> Rank(S, i)]
      BY <2>7, <3>1, CloneUsers
    <3> QED
      BY <3>2, <3>3, <3>4
  <2>10. ASSUME NEW u
         PROVE  (\E i \in T : u = [pcb |-> q, entry |-> Rank(S, i)]) <=>
                  u \in Users /\ u.pcb = q /\ u.entry \in For(f, g, x)
    <3>1. For(f, g, x) = {Rank(S, i) : i \in T}
      BY <1>9, <2>1, <2>2
    <3>2. \A i \in T : Rank(S, i) \in Entry
      BY <1>13, <2>2
    <3> QED
      BY <3>1, <3>2 DEF Users
  <2> HIDE DEF More
  <2> QED
    BY <2>1, <2>8, <2>9, <2>10
<1>15. ASSUME NEW n \in Names, cb[n] # Nil
       PROVE  /\ cb'[n] \in Blocks /\ cb'[n] # Nil /\ cb'[n].index = cb[n].index
              /\ IsInjective(cb'[n].users)
              /\ Range(cb'[n].users) = Held(cb[n].index)'
  <2>1. PICK x, users, new : x = cb[n].index /\ users = cb[n].users /\ new = More(n)
    OBVIOUS
  <2>2. /\ x \in Index /\ users \in Seq(Users) /\ IsInjective(users)
        /\ Range(users) = Held(x) /\ cb[n] \in Blocks
    BY <1>15, <2>1, Registered
  <2>3. /\ new \in Seq(Users) /\ IsInjective(new)
        /\ \A u : u \in Range(new) <=>
                   u \in Users /\ u.pcb = q /\ u.entry \in For(f, g, x)
    <3> HIDE DEF More
    <3> QED
      BY <1>14, <1>15, <2>1
  <2>4. Range(users) \cap Range(new) = {}
    BY <1>4, <2>2, <2>3, HeldIs
  <2>5. /\ users \o new \in Seq(Users) /\ IsInjective(users \o new)
        /\ Range(users \o new) = Range(users) \cup Range(new)
    BY <2>2, <2>3, <2>4, Joined
  <2>6. PICK b : b = [cb[n] EXCEPT !.users = users \o new]
    OBVIOUS
  <2>7. b \in Blocks /\ b.index = x /\ b.users = users \o new
    BY <2>1, <2>2, <2>5, <2>6 DEF Blocks
  <2>8. cb'[n] = b
    <3> HIDE DEF More
    <3> QED
      BY <1>7, <1>15, <2>1, <2>6
  <2>9. Held(x)' = Range(users) \cup Range(new)
    <3>1. Held(x)' \subseteq Users /\ Held(x) \subseteq Users
      BY DEF Held
    <3>2. \A u \in Users : u \in Held(x)' <=> u \in Range(users) \cup Range(new)
      BY <1>12, <2>2, <2>3
    <3> QED
      BY <2>2, <2>3, <3>1, <3>2
  <2> QED
    BY <2>1, <2>5, <2>7, <2>8, <2>9, BlockNotNil
<1>16. cb' \in [Names -> {Nil} \cup Blocks] /\ \A n \in Names : cb[n] = Nil => cb'[n] = Nil
  <2> HIDE DEF More
  <2>1. \A n \in Names : cb[n] = Nil => cb'[n] = Nil
    BY <1>7
  <2>2. \A n \in Names : cb'[n] \in {Nil} \cup Blocks
    BY <1>15, <2>1
  <2>3. PICK c : c = cb'
    OBVIOUS
  <2>4. DOMAIN c = Names /\ c = [n \in DOMAIN c |-> c[n]]
    BY <1>7, <2>3
  <2> QED
    BY <2>1, <2>2, <2>3, <2>4
<1> HIDE DEF More, Of
<1>17. SameIndices
  BY <1>15, <1>16 DEF SameIndices
<1>18. BlocksOK'
  BY <1>15, <1>16, <1>17, BlocksKept
<1>19. IndicesOK'
  <2>1. \A o \in alive', a \in Places : \E r \in alive, b \in Places :
          pages[r][b] = pages'[o][a]
    BY <1>1, <1>4, <1>10
  <2> QED
    BY <1>17, <2>1, IndicesFound
<1>20. ScalarsOK'
  BY <1>4 DEF SharedInv, ScalarsOK
<1>21. SharedInv'
  BY <1>4, <1>11, <1>17, <1>18, <1>19, <1>20, VectorKept DEF SharedInv
<1> QED
  BY <1>1, <1>4, <1>6, <1>17, <1>21

------------------------------------------------------------------------------
(* What the invariant says.                                                *)

LEMMA StepShared ==
  ASSUME Tidy
  PROVE  SharedInv /\ [Next]_vars => SharedInv'
<1> SUFFICES ASSUME SharedInv, [Next]_vars PROVE SharedInv'
  OBVIOUS
<1>1. ASSUME NEW p \in Procs, CreateProcess(p) PROVE SharedInv'
  BY <1>1, CreateProcessKeeps
<1>2. ASSUME NEW p \in Procs, DeleteProcess(p) PROVE SharedInv'
  BY <1>2, DeleteProcessKeeps
<1>3. ASSUME NEW p \in Procs, NEW q \in Procs, CloneProcess(p, q) PROVE SharedInv'
  BY <1>3, CloneKeeps
<1>4. ASSUME NEW p \in Procs, NEW a \in Places, NEW n \in Names, CreateShared(p, a, n)
      PROVE  SharedInv'
  BY <1>4, CreateSharedKeeps
<1>5. ASSUME NEW p \in Procs, NEW a \in Places, NEW n \in Names, ConnectShared(p, a, n)
      PROVE  SharedInv'
  BY <1>5, ConnectKeeps
<1>6. ASSUME NEW p \in Procs, NEW n \in Names, DisconnectShared(p, n) PROVE SharedInv'
  BY <1>6, DisconnectKeeps
<1>7. ASSUME NEW p \in Procs, NEW a \in Places, DeleteSegment(p, a) PROVE SharedInv'
  BY <1>7, DeleteSegmentKeeps
<1>8. ASSUME NEW n \in Names, DeleteShared(n) PROVE SharedInv'
  BY <1>8, DeleteSharedKeeps
<1>9. CASE UNCHANGED vars
  <2>1. /\ st' = st /\ pages' = pages /\ count' = count /\ cb' = cb /\ vec' = vec
        /\ shared' = shared /\ alive' = alive /\ halted' = halted /\ wild' = wild
    BY <1>9 DEF vars
  <2>2. TablesOK' /\ ScalarsOK' /\ IndicesOK'
    BY <2>1 DEF SharedInv, TablesOK, ScalarsOK, IndicesOK
  <2>3. SameIndices
    BY <2>1 DEF SameIndices
  <2>4. \A x : Held(x)' = Held(x)
    BY <2>1 DEF Held
  <2>5. BlocksOK'
    BY <2>1, <2>4 DEF SharedInv, BlocksOK
  <2> QED
    BY <2>1, <2>2, <2>3, <2>5, VectorKept DEF SharedInv
<1> QED
  BY <1>1, <1>2, <1>3, <1>4, <1>5, <1>6, <1>7, <1>8, <1>9 DEF Next

LEMMA SharedAlways ==
  ASSUME Tidy
  PROVE  Spec => []SharedInv
<1>1. Init => SharedInv
  BY InitShared
<1>2. SharedInv /\ [Next]_vars => SharedInv'
  BY StepShared
<1> QED
  BY <1>1, <1>2, PTL DEF Spec

LEMMA TypesFollow == SharedInv => SharedTypeOK
<1> SUFFICES ASSUME SharedInv PROVE SharedTypeOK
  OBVIOUS
<1>1. /\ st \in [Procs -> [Entry -> [free : BOOLEAN, at : Places \cup {Nil}]]]
      /\ pages \in [Procs -> [Places -> Index \cup {Nil}]]
      /\ count \in [Procs -> 0 .. MaxSegments]
  BY DEF SharedInv, TablesOK, Tables, SegEntry, Ranges
<1>2. \A n \in Names : cb[n] # Nil => cb[n].index \in Index /\ cb[n].users \in Seq(Users)
  BY Registered
<1>3. DOMAIN vec.data \subseteq Index \cup {0}
      /\ \A i \in DOMAIN vec.data : vec.data[i] \in Names \cup {Nil}
  <2>1. PICK k \in Nat \ {0} : Vector(vec, k) /\ (k <= shared \/ (k = 1 /\ vec.first # -1))
    BY DEF SharedInv, VectorOK
  <2>2. vec.data \in [0 .. k - 1 -> Names \cup {Nil}]
    BY <2>1 DEF Vector
  <2>3. 0 .. k - 1 \subseteq Index \cup {0}
    BY <2>1, LimitsAssumption DEF Index, SharedInv, ScalarsOK
  <2> QED
    BY <2>2, <2>3
<1>4. shared \in 0 .. MaxShared /\ alive \subseteq Procs /\ {halted, wild} \subseteq BOOLEAN
  BY DEF SharedInv, ScalarsOK
<1> QED
  BY <1>1, <1>2, <1>3, <1>4 DEF SharedTypeOK

LEMMA UsersFollow == SharedInv => UsersMatch
<1> SUFFICES ASSUME SharedInv PROVE UsersMatch
  OBVIOUS
<1>1. ASSUME NEW n \in Names, cb[n] # Nil
      PROVE  /\ NameAt(cb[n].index) = n
             /\ IsInjective(cb[n].users)
             /\ Range(cb[n].users) =
                  {u \in Users : /\ u.pcb \in alive
                                 /\ ~st[u.pcb][u.entry].free
                                 /\ pages[u.pcb][st[u.pcb][u.entry].at] = cb[n].index}
  <2>1. NameAt(cb[n].index) = n /\ IsInjective(cb[n].users)
        /\ Range(cb[n].users) = Held(cb[n].index)
    BY <1>1, Registered
  <2>2. PICK x : x = cb[n].index
    OBVIOUS
  <2>3. \A u \in Users : u.entry \in For(st[u.pcb], pages[u.pcb], x) <=>
           ~st[u.pcb][u.entry].free /\ pages[u.pcb][st[u.pcb][u.entry].at] = x
    BY DEF Users, For, Mapped
  <2>4. Held(x) = {u \in Users : /\ u.pcb \in alive
                                 /\ ~st[u.pcb][u.entry].free
                                 /\ pages[u.pcb][st[u.pcb][u.entry].at] = x}
    BY <2>3 DEF Held
  <2> QED
    BY <2>1, <2>2, <2>4
<1>2. \A p \in alive, a \in Places : pages[p][a] # Nil =>
        \E n \in Names : cb[n] # Nil /\ cb[n].index = pages[p][a]
  BY DEF SharedInv, IndicesOK
<1> QED
  BY <1>1, <1>2 DEF UsersMatch

LEMMA IndicesFollow == SharedInv => IndicesKept
<1> SUFFICES ASSUME SharedInv PROVE IndicesKept
  OBVIOUS
<1>1. PICK k \in Nat \ {0} : Vector(vec, k)
  BY DEF SharedInv, VectorOK
<1>2. Vec!WellLinked(vec) /\ DOMAIN vec.next = 0 .. k - 1 /\ DOMAIN vec.data = 0 .. k - 1
  BY <1>1, VectorLinked, VectorSize
<1>3. ASSUME NEW x \in DOMAIN vec.data, ~Vec!IsEmpty(vec, x)
      PROVE  \E n \in Names : cb[n] # Nil /\ x = cb[n].index
  BY <1>2, <1>3 DEF SharedInv, VectorOK, Vec!IsEmpty, Vec!Filled
<1>4. ASSUME NEW n \in Names, cb[n] # Nil
      PROVE  cb[n].index \in DOMAIN vec.data /\ ~Vec!IsEmpty(vec, cb[n].index)
  BY <1>2, <1>4, Registered DEF Vec!IsEmpty, Vec!Filled
<1>5. {i \in DOMAIN vec.data : ~Vec!IsEmpty(vec, i)}
        = {cb[n].index : n \in {n \in Names : cb[n] # Nil}}
  BY <1>3, <1>4
<1> QED
  BY <1>2, <1>5 DEF IndicesKept

\* The variables have their types: no process has more segments than its table has
\* entries, and no index is beyond the limit, however often segments come and go.
THEOREM SharedTypes ==
  ASSUME Tidy
  PROVE  Spec => []SharedTypeOK
BY SharedAlways, TypesFollow, PTL

\* Registry and processes agree after every operation: the users of a control block
\* are the entries of the segment tables that carry its index, each once.
THEOREM RegistryAgrees ==
  ASSUME Tidy
  PROVE  Spec => []UsersMatch
BY SharedAlways, UsersFollow, PTL

\* The vector of indices loses no index and gives out none that is in use.
THEOREM IndicesNotLost ==
  ASSUME Tidy
  PROVE  Spec => []IndicesKept
BY SharedAlways, IndicesFollow, PTL

\* For clients that are Tidy no operation on shared segments reaches a HALT: what a
\* process has it can give up, and a segment with all its users can be deleted.
THEOREM SharedNeverHalts ==
  ASSUME Tidy
  PROVE  Spec => []NeverHalts
<1>1. SharedInv => NeverHalts
  BY DEF SharedInv, ScalarsOK, NeverHalts
<1> QED
  BY <1>1, SharedAlways, PTL

------------------------------------------------------------------------------
(* Shared segments implement their registry.                               *)

\* The process p has the segment named n at place a.
Sees(p, a, n) == p \in alive /\ cb[n] # Nil /\ pages[p][a] = cb[n].index

LEMMA AttachedIs ==
  SharedInv =>
    /\ Attached \subseteq Procs \X Places \X Names
    /\ \A p \in Procs, a \in Places, n \in Names :
         <<p, a, n>> \in Attached <=> Sees(p, a, n)
<1> SUFFICES ASSUME SharedInv
             PROVE  /\ Attached \subseteq Procs \X Places \X Names
                    /\ \A p \in Procs, a \in Places, n \in Names :
                         <<p, a, n>> \in Attached <=> Sees(p, a, n)
  OBVIOUS
<1>1. \A t : t \in Attached <=>
        \E p \in alive : \E a \in Places :
          pages[p][a] # Nil /\ t = <<p, a, NameAt(pages[p][a])>>
  BY DEF Attached
<1>2. ASSUME NEW p \in alive, NEW a \in Places, pages[p][a] # Nil
      PROVE  \E n \in Names : /\ cb[n] # Nil /\ cb[n].index = pages[p][a]
                              /\ NameAt(pages[p][a]) = n
  <2>1. PICK n \in Names : cb[n] # Nil /\ cb[n].index = pages[p][a]
    BY <1>2 DEF SharedInv, IndicesOK
  <2> QED
    BY <2>1, Registered
<1>3. alive \subseteq Procs
  BY DEF SharedInv, ScalarsOK
<1>4. Attached \subseteq Procs \X Places \X Names
  BY <1>1, <1>2, <1>3
<1>5. ASSUME NEW p \in Procs, NEW a \in Places, NEW n \in Names
      PROVE  <<p, a, n>> \in Attached <=> Sees(p, a, n)
  <2>1. <<p, a, n>> \in Attached <=>
          p \in alive /\ pages[p][a] # Nil /\ n = NameAt(pages[p][a])
    BY <1>1
  <2>2. p \in alive /\ pages[p][a] # Nil /\ n = NameAt(pages[p][a]) => Sees(p, a, n)
    BY <1>2 DEF Sees
  <2>3. ASSUME Sees(p, a, n)
        PROVE  p \in alive /\ pages[p][a] # Nil /\ n = NameAt(pages[p][a])
    <3>1. p \in alive /\ cb[n] # Nil /\ pages[p][a] = cb[n].index
      BY <2>3 DEF Sees
    <3>2. cb[n].index \in Index /\ NameAt(cb[n].index) = n
      BY <3>1, Registered
    <3>3. cb[n].index # Nil
      BY <3>2, NilAssumption DEF Index
    <3> QED
      BY <3>1, <3>2, <3>3
  <2> QED
    BY <2>1, <2>2, <2>3
<1> QED
  BY <1>4, <1>5

\* Registered segments stay so, and keep their indices.
NamesStay == \A m \in Names : cb[m] # Nil => cb'[m] # Nil /\ cb'[m].index = cb[m].index

\* Different segments have different indices, and each has one.
OneEach ==
  /\ \A n, m \in Names :
       cb[n] # Nil /\ cb[m] # Nil /\ cb[m].index = cb[n].index => m = n
  /\ \A n \in Names : cb[n] # Nil => cb[n].index # Nil

LEMMA IndexEach == SharedInv => OneEach
BY Registered, NilAssumption DEF Index, OneEach

\* What is not remapped is seen as before.
LEMMA SeenAsBefore ==
  ASSUME SharedInv, SharedInv', NamesStay, NEW p \in Procs, NEW a \in Places,
         p \in alive, p \in alive', pages'[p][a] = pages[p][a], NEW m \in Names
  PROVE  Sees(p, a, m)' <=> Sees(p, a, m)
<1>1. Sees(p, a, m) => Sees(p, a, m)'
  BY DEF Sees, NamesStay
<1>2. ASSUME Sees(p, a, m)' PROVE Sees(p, a, m)
  <2>1. PICK x : x = pages[p][a]
    OBVIOUS
  <2>2. cb'[m] # Nil /\ cb'[m].index = x
    BY <1>2, <2>1 DEF Sees
  <2>a. OneEach'
    BY IndexEach, PTL
  <2>3. x # Nil
    BY <2>2, <2>a DEF OneEach
  <2>4. PICK n \in Names : cb[n] # Nil /\ cb[n].index = x
    BY <2>1, <2>3 DEF SharedInv, IndicesOK
  <2>5. cb'[n] # Nil /\ cb'[n].index = x
    BY <2>4 DEF NamesStay
  <2>7. n = m
    BY <2>2, <2>5, <2>a DEF OneEach
  <2> QED
    BY <2>1, <2>4, <2>7 DEF Sees
<1> QED
  BY <1>1, <1>2

\* Attached after a step, element by element.
LEMMA AttachedNext ==
  ASSUME SharedInv, SharedInv', NEW S \in SUBSET (Procs \X Places \X Names),
         \A p \in Procs, a \in Places, n \in Names : <<p, a, n>> \in S <=> Sees(p, a, n)'
  PROVE  Attached' = S
<1>1. (/\ Attached \subseteq Procs \X Places \X Names
       /\ \A p \in Procs, a \in Places, n \in Names :
            <<p, a, n>> \in Attached <=> Sees(p, a, n))'
  BY AttachedIs, PTL
<1>2. PICK T : T = Attached'
  OBVIOUS
<1>3. /\ T \in SUBSET (Procs \X Places \X Names)
      /\ \A p \in Procs, a \in Places, n \in Names : <<p, a, n>> \in S <=> <<p, a, n>> \in T
  BY <1>1, <1>2
<1>4. T = S
  BY <1>3
<1> QED
  BY <1>2, <1>4

\* Nothing remapped: the registry stutters.
LEMMA Stutters ==
  ASSUME SharedInv, SharedInv',
         \A p \in Procs, a \in Places, n \in Names : Sees(p, a, n)' <=> Sees(p, a, n)
  PROVE  Attached' = Attached
<1>1. PICK S : S = Attached
  OBVIOUS
<1>2. /\ S \in SUBSET (Procs \X Places \X Names)
      /\ \A p \in Procs, a \in Places, n \in Names : <<p, a, n>> \in S <=> Sees(p, a, n)'
  BY <1>1, AttachedIs
<1>3. Attached' = S
  BY <1>2, AttachedNext
<1> QED
  BY <1>1, <1>3

\* A place of a process gets a segment.
LEMMA Attaches ==
  ASSUME SharedInv, SharedInv', NamesStay, alive' = alive,
         NEW p \in Procs, p \in alive, NEW a \in Places, pages[p][a] = Nil,
         NEW x, pages' = [pages EXCEPT ![p][a] = x],
         NEW n \in Names, cb'[n] # Nil, cb'[n].index = x
  PROVE  Registry!Attach(p, a, n)
<1>1. pages \in [Procs -> Ranges] /\ alive \subseteq Procs
  BY DEF SharedInv, TablesOK, ScalarsOK
<1>2. pages'[p][a] = x
      /\ \A q \in Procs, b \in Places : ~(q = p /\ b = a) => pages'[q][b] = pages[q][b]
  BY <1>1 DEF Ranges
<1>3. PICK S : S = Attached
  OBVIOUS
<1>4. /\ S \in SUBSET (Procs \X Places \X Names)
      /\ \A q \in Procs, b \in Places, m \in Names : <<q, b, m>> \in S <=> Sees(q, b, m)
  BY <1>3, AttachedIs
<1>5. \A m \in Names : ~Sees(p, a, m)
  BY IndexEach DEF Sees, OneEach
<1>6. \A t \in S : <<t[1], t[2]>> # <<p, a>>
  <2> SUFFICES ASSUME NEW q \in Procs, NEW b \in Places, NEW m \in Names,
                      <<q, b, m>> \in S, q = p, b = a
               PROVE  FALSE
    BY <1>4
  <2> QED
    BY <1>4, <1>5
<1>7. OneEach'
  BY IndexEach, PTL
<1>8. ASSUME NEW q \in Procs, NEW b \in Places, NEW m \in Names
      PROVE  <<q, b, m>> \in S \cup {<<p, a, n>>} <=> Sees(q, b, m)'
  <2>1. CASE q = p /\ b = a
    <3>1. Sees(q, b, m)' <=> cb'[m] # Nil /\ cb'[m].index = x
      BY <1>2, <2>1 DEF Sees
    <3>2. Sees(q, b, m)' <=> m = n
      BY <1>7, <3>1 DEF OneEach
    <3> QED
      BY <1>4, <1>5, <2>1, <3>2
  <2>2. CASE ~(q = p /\ b = a)
    <3>1. pages'[q][b] = pages[q][b]
      BY <1>2, <2>2
    <3>2. CASE q \in alive
      <4>1. Sees(q, b, m)' <=> Sees(q, b, m)
        BY <3>1, <3>2, SeenAsBefore
      <4> QED
        BY <1>4, <2>2, <4>1
    <3>3. CASE q \notin alive
      <4>1. ~Sees(q, b, m)' /\ ~Sees(q, b, m)
        BY <3>3 DEF Sees
      <4> QED
        BY <1>4, <2>2, <4>1
    <3> QED
      BY <3>2, <3>3
  <2> QED
    BY <2>1, <2>2
<1>9. Attached' = S \cup {<<p, a, n>>}
  <2>1. PICK T : T = S \cup {<<p, a, n>>}
    OBVIOUS
  <2>2. /\ T \in SUBSET (Procs \X Places \X Names)
        /\ \A q \in Procs, b \in Places, m \in Names : <<q, b, m>> \in T <=> Sees(q, b, m)'
    BY <1>4, <1>8, <2>1
  <2>3. Attached' = T
    BY <2>2, AttachedNext
  <2> QED
    BY <2>1, <2>3
<1> QED
  BY <1>3, <1>6, <1>9 DEF Registry!Attach

\* A place of a process loses its segment.
LEMMA Detaches ==
  ASSUME SharedInv, SharedInv', NamesStay, alive' = alive,
         NEW p \in Procs, p \in alive, NEW a \in Places, Gives(p, a)
  PROVE  \E t \in Registry!Attachment : Registry!Detach(t)
<1>1. pages \in [Procs -> Ranges] /\ alive \subseteq Procs
      /\ pages[p][a] # Nil /\ pages' = [pages EXCEPT ![p][a] = Nil]
  BY DEF SharedInv, TablesOK, ScalarsOK, Gives
<1>2. pages'[p][a] = Nil
      /\ \A q \in Procs, b \in Places : ~(q = p /\ b = a) => pages'[q][b] = pages[q][b]
  BY <1>1 DEF Ranges
<1>3. PICK n \in Names : cb[n] # Nil /\ cb[n].index = pages[p][a]
  BY <1>1 DEF SharedInv, IndicesOK
<1>4. PICK S : S = Attached
  OBVIOUS
<1>5. /\ S \in SUBSET (Procs \X Places \X Names)
      /\ \A q \in Procs, b \in Places, m \in Names : <<q, b, m>> \in S <=> Sees(q, b, m)
  BY <1>4, AttachedIs
<1>6. \A m \in Names : Sees(p, a, m) <=> m = n
  BY <1>3, IndexEach DEF Sees, OneEach
<1>7. OneEach'
  BY IndexEach, PTL
<1>8. PICK t : t = <<p, a, n>>
  OBVIOUS
<1>9. ASSUME NEW q \in Procs, NEW b \in Places, NEW m \in Names
      PROVE  <<q, b, m>> \in S \ {t} <=> Sees(q, b, m)'
  <2>1. CASE q = p /\ b = a
    <3>1. ~Sees(q, b, m)'
      BY <1>2, <1>7, <2>1 DEF Sees, OneEach
    <3>2. <<q, b, m>> \in S => m = n
      BY <1>5, <1>6, <2>1
    <3> QED
      BY <1>8, <2>1, <3>1, <3>2
  <2>2. CASE ~(q = p /\ b = a)
    <3>0. <<q, b, m>> # t
      BY <1>8, <2>2
    <3>1. pages'[q][b] = pages[q][b]
      BY <1>2, <2>2
    <3>2. CASE q \in alive
      <4>1. Sees(q, b, m)' <=> Sees(q, b, m)
        BY <3>1, <3>2, SeenAsBefore
      <4> QED
        BY <1>5, <3>0, <4>1
    <3>3. CASE q \notin alive
      <4>1. ~Sees(q, b, m)' /\ ~Sees(q, b, m)
        BY <3>3 DEF Sees
      <4> QED
        BY <1>5, <3>0, <4>1
    <3> QED
      BY <3>2, <3>3
  <2> QED
    BY <2>1, <2>2
<1>10. Attached' = S \ {t}
  <2>1. PICK T : T = S \ {t}
    OBVIOUS
  <2>2. /\ T \in SUBSET (Procs \X Places \X Names)
        /\ \A q \in Procs, b \in Places, m \in Names : <<q, b, m>> \in T <=> Sees(q, b, m)'
    BY <1>5, <1>9, <2>1
  <2>3. Attached' = T
    BY <2>2, AttachedNext
  <2> QED
    BY <2>1, <2>3
<1>11. t \in S /\ t \in Procs \X Places \X Names
  BY <1>5, <1>6, <1>8
<1>12. Registry!Detach(t) /\ t \in Registry!Attachment
  BY <1>4, <1>10, <1>11 DEF Registry!Detach, Registry!Attachment
<1> QED
  BY <1>12

\* A process begins without segments.
LEMMA BeginsEmpty ==
  ASSUME Tidy, SharedInv, SharedInv',
         NEW p \in Procs, CreateProcess(p)
  PROVE  Attached' = Attached
<1>1. pages \in [Procs -> Ranges]
  BY DEF SharedInv, TablesOK
<1>2. OneEach /\ OneEach'
  BY IndexEach, PTL
<1>3. p \notin alive /\ alive' = alive \cup {p} /\ pages' = [pages EXCEPT ![p] = Fresh.pages]
      /\ cb' = cb
  BY DEF CreateProcess
<1>4. \A a \in Places : pages'[p][a] = Nil
  BY <1>1, <1>3 DEF Fresh
<1>5. \A q \in Procs \ {p} : pages'[q] = pages[q]
  BY <1>1, <1>3
<1>6. ASSUME NEW q \in Procs, NEW a \in Places, NEW n \in Names
      PROVE  Sees(q, a, n)' <=> Sees(q, a, n)
  BY <1>2, <1>3, <1>4, <1>5 DEF Sees, OneEach
<1> QED
  BY <1>6, Stutters

\* A process that ends has given up its segments.
LEMMA EndsEmpty ==
  ASSUME Tidy, SharedInv, SharedInv',
         NEW p \in Procs, DeleteProcess(p)
  PROVE  Attached' = Attached
<1>1. OneEach /\ OneEach'
  BY IndexEach, PTL
<1>2. alive' = alive \ {p} /\ pages' = pages /\ cb' = cb
  BY DEF DeleteProcess
<1>3. \A a \in Places : pages[p][a] = Nil
  BY DeleteProcessKeeps
<1>4. ASSUME NEW q \in Procs, NEW a \in Places, NEW n \in Names
      PROVE  Sees(q, a, n)' <=> Sees(q, a, n)
  BY <1>1, <1>2, <1>3 DEF Sees, OneEach
<1> QED
  BY <1>4, Stutters

\* A clone begins with what its source is attached to.
LEMMA CloneCopies ==
  ASSUME Tidy, SharedInv, SharedInv',
         NEW p \in Procs, NEW q \in Procs, CloneProcess(p, q)
  PROVE  Registry!Copy(p, q)
<1>1. pages \in [Procs -> Ranges]
  BY DEF SharedInv, TablesOK
<1>2. SameIndices => NamesStay
  BY DEF SameIndices, NamesStay
<1>3. /\ SameIndices /\ p \in alive /\ q \notin alive /\ alive' = alive \cup {q}
      /\ pages' = [pages EXCEPT ![q] = pages[p]]
  BY CloneKeeps
<1>4. pages'[q] = pages[p] /\ \A o \in Procs \ {q} : pages'[o] = pages[o]
  BY <1>1, <1>3
<1>5. PICK S : S = Attached
  OBVIOUS
<1>6. /\ S \in SUBSET (Procs \X Places \X Names)
      /\ \A o \in Procs, b \in Places, m \in Names : <<o, b, m>> \in S <=> Sees(o, b, m)
  BY <1>5, AttachedIs
<1>7. PICK T : T = S \cup {<<q, x[2], x[3]>> : x \in {x \in S : x[1] = p}}
  OBVIOUS
<1>8. ASSUME NEW o \in Procs, NEW b \in Places, NEW m \in Names
      PROVE  <<o, b, m>> \in T <=>
               <<o, b, m>> \in S \/ (o = q /\ <<p, b, m>> \in S)
  <2>1. ASSUME NEW x \in S, x[1] = p, <<o, b, m>> = <<q, x[2], x[3]>>
        PROVE  o = q /\ <<p, b, m>> \in S
    <3>1. x = <<x[1], x[2], x[3]>>
      BY <1>6
    <3> QED
      BY <2>1, <3>1
  <2>2. ASSUME o = q, <<p, b, m>> \in S PROVE <<o, b, m>> \in T
    <3>1. PICK x \in S : x = <<p, b, m>>
      BY <2>2
    <3>2. x[1] = p /\ x[2] = b /\ x[3] = m
      BY <3>1
    <3> QED
      BY <1>7, <2>2, <3>2
  <2> QED
    BY <1>7, <2>1, <2>2
<1>9. T \in SUBSET (Procs \X Places \X Names)
  BY <1>6, <1>7
<1>10. NamesStay
  BY <1>2, <1>3
<1>11. ASSUME NEW o \in Procs, NEW b \in Places, NEW m \in Names
      PROVE  <<o, b, m>> \in T <=> Sees(o, b, m)'
  <2>1. CASE o = q
    <3>1. ~Sees(o, b, m) /\ (Sees(o, b, m)' <=> cb'[m] # Nil /\ pages[p][b] = cb'[m].index)
      BY <1>3, <1>4, <2>1 DEF Sees
    <3>2. Sees(p, b, m)' <=> cb'[m] # Nil /\ pages[p][b] = cb'[m].index
      BY <1>3, <1>4 DEF Sees
    <3>3. Sees(p, b, m)' <=> Sees(p, b, m)
      BY <1>3, <1>4, <1>10, SeenAsBefore
    <3> QED
      BY <1>6, <1>8, <2>1, <3>1, <3>2, <3>3
  <2>2. CASE o # q /\ o \in alive
    <3>1. Sees(o, b, m)' <=> Sees(o, b, m)
      BY <1>3, <1>4, <1>10, <2>2, SeenAsBefore
    <3> QED
      BY <1>6, <1>8, <2>2, <3>1
  <2>3. CASE o # q /\ o \notin alive
    <3>1. ~Sees(o, b, m)' /\ ~Sees(o, b, m)
      BY <1>3, <2>3 DEF Sees
    <3> QED
      BY <1>6, <1>8, <2>3, <3>1
  <2> QED
    BY <2>1, <2>2, <2>3
<1>12. Attached' = T
  BY <1>9, <1>11, AttachedNext
<1>13. \A x \in S : x[1] # q
  <2> SUFFICES ASSUME NEW b \in Places, NEW m \in Names, <<q, b, m>> \in S PROVE FALSE
    BY <1>6
  <2> QED
    BY <1>3, <1>6 DEF Sees
<1> QED
  BY <1>5, <1>7, <1>12, <1>13 DEF Registry!Copy

\* Who creates a segment is attached to it.
LEMMA CreateAttaches ==
  ASSUME Tidy, SharedInv, SharedInv',
         NEW p \in Procs, NEW a \in Places, NEW n \in Names, CreateShared(p, a, n)
  PROVE  Registry!Attach(p, a, n)
<1>1. /\ NamesStay /\ p \in alive /\ pages[p][a] = Nil /\ alive' = alive
      /\ \E x \in Index : /\ pages' = [pages EXCEPT ![p][a] = x]
                          /\ cb'[n] # Nil /\ cb'[n].index = x
  BY CreateSharedKeeps DEF NamesStay
<1> QED
  BY <1>1, Attaches

\* So is who connects to one.
LEMMA ConnectAttaches ==
  ASSUME Tidy, SharedInv, SharedInv',
         NEW p \in Procs, NEW a \in Places, NEW n \in Names, ConnectShared(p, a, n)
  PROVE  Registry!Attach(p, a, n)
<1>1. SameIndices => NamesStay
  BY DEF SameIndices, NamesStay
<1>2. /\ SameIndices /\ p \in alive /\ pages[p][a] = Nil
      /\ pages' = [pages EXCEPT ![p][a] = cb[n].index]
  BY ConnectKeeps
<1>3. cb[n] # Nil /\ alive' = alive
  BY DEF ConnectShared
<1>4. PICK x : x = cb[n].index
  OBVIOUS
<1>5. cb'[n] # Nil /\ cb'[n].index = x
  BY <1>2, <1>3, <1>4 DEF SameIndices
<1> QED
  BY <1>1, <1>2, <1>3, <1>4, <1>5, Attaches

\* Disconnecting gives up one attachment.
LEMMA DisconnectDetaches ==
  ASSUME Tidy, SharedInv, SharedInv',
         NEW p \in Procs, NEW n \in Names, DisconnectShared(p, n)
  PROVE  \E t \in Registry!Attachment : Registry!Detach(t)
<1>1. SameIndices => NamesStay
  BY DEF SameIndices, NamesStay
<1>2. SameIndices /\ alive' = alive /\ p \in alive /\ \E a \in Places : Gives(p, a)
  BY DisconnectKeeps
<1> QED
  BY <1>1, <1>2, Detaches

\* So does deleting the segment of a process.
LEMMA DeleteDetaches ==
  ASSUME Tidy, SharedInv, SharedInv',
         NEW p \in Procs, NEW a \in Places, DeleteSegment(p, a)
  PROVE  \E t \in Registry!Attachment : Registry!Detach(t)
<1>1. SameIndices => NamesStay
  BY DEF SameIndices, NamesStay
<1>2. SameIndices /\ alive' = alive /\ p \in alive /\ \E b \in Places : Gives(p, b)
  BY DeleteSegmentKeeps
<1> QED
  BY <1>1, <1>2, Detaches

\* A deleted segment is nobody's any longer.
LEMMA DeleteDrops ==
  ASSUME Tidy, SharedInv, SharedInv',
         NEW n \in Names, DeleteShared(n)
  PROVE  Registry!Drop(n)
<1>1. OneEach /\ OneEach'
  BY IndexEach, PTL
<1>2. /\ cb[n] # Nil /\ alive' = alive
      /\ \A m \in Names \ {n} : cb'[m] = cb[m]
      /\ \A p \in alive, b \in Places :
           pages'[p][b] = IF pages[p][b] = cb[n].index THEN Nil ELSE pages[p][b]
  BY DeleteSharedKeeps
<1>3. cb'[n] = Nil
  BY DEF DeleteShared, SharedInv, BlocksOK
<1>4. PICK S : S = Attached
  OBVIOUS
<1>5. /\ S \in SUBSET (Procs \X Places \X Names)
      /\ \A o \in Procs, b \in Places, m \in Names : <<o, b, m>> \in S <=> Sees(o, b, m)
  BY <1>4, AttachedIs
<1>6. PICK T : T = {x \in S : x[3] # n}
  OBVIOUS
<1>7. ASSUME NEW o \in Procs, NEW b \in Places, NEW m \in Names
      PROVE  <<o, b, m>> \in T <=> Sees(o, b, m)'
  <2>1. <<o, b, m>> \in T <=> Sees(o, b, m) /\ m # n
    BY <1>5, <1>6
  <2>2. m # n => (Sees(o, b, m)' <=> Sees(o, b, m))
    BY <1>1, <1>2 DEF Sees, OneEach
  <2>3. m = n => ~Sees(o, b, m)'
    BY <1>3 DEF Sees
  <2> QED
    BY <2>1, <2>2, <2>3
<1>8. Attached' = T
  <2>1. T \in SUBSET (Procs \X Places \X Names)
    BY <1>5, <1>6
  <2> QED
    BY <1>7, <2>1, AttachedNext
<1> QED
  BY <1>4, <1>6, <1>8 DEF Registry!Drop

\* A step of the shared segments is a step of their registry, or none.
LEMMA RegistryStep ==
  ASSUME Tidy, SharedInv, SharedInv', [Next]_vars
  PROVE  Registry!Next \/ Attached' = Attached
<1>1. ASSUME NEW p \in Procs, CreateProcess(p) \/ DeleteProcess(p)
      PROVE  Attached' = Attached
  BY <1>1, BeginsEmpty, EndsEmpty
<1>2. ASSUME NEW p \in Procs, NEW q \in Procs, CloneProcess(p, q)
      PROVE  Registry!Next
  BY <1>2, CloneCopies DEF Registry!Next
<1>3. ASSUME NEW p \in Procs, NEW a \in Places, NEW n \in Names,
             CreateShared(p, a, n) \/ ConnectShared(p, a, n)
      PROVE  Registry!Next
  BY <1>3, CreateAttaches, ConnectAttaches DEF Registry!Next
<1>4. ASSUME NEW p \in Procs, NEW n \in Names, DisconnectShared(p, n)
      PROVE  Registry!Next
  BY <1>4, DisconnectDetaches DEF Registry!Next
<1>5. ASSUME NEW p \in Procs, NEW a \in Places, DeleteSegment(p, a)
      PROVE  Registry!Next
  BY <1>5, DeleteDetaches DEF Registry!Next
<1>6. ASSUME NEW n \in Names, DeleteShared(n)
      PROVE  Registry!Next
  BY <1>6, DeleteDrops DEF Registry!Next
<1>7. CASE UNCHANGED vars
  BY <1>7 DEF vars, Attached, NameAt, Vec!CanAt, Vec!IsEmpty, Vec!Filled
<1> QED
  BY <1>1, <1>2, <1>3, <1>4, <1>5, <1>6, <1>7 DEF Next

\* Shared segments are what the registry says, for processes, places and names
\* without number: who maps one sees the segment of that name and changes nobody
\* else's attachments, and a deleted segment shows through in no process.
THEOREM ImplementsRegistry ==
  ASSUME Tidy
  PROVE  Spec => RegistrySpec
<1>1. Init => Registry!Init
  BY DEF Init, Registry!Init, Attached
<1>2. SharedInv /\ SharedInv' /\ [Next]_vars => [Registry!Next]_Attached
  BY RegistryStep
<1> QED
  BY <1>1, <1>2, SharedAlways, PTL DEF Spec, RegistrySpec, Registry!Spec
=============================================================================
