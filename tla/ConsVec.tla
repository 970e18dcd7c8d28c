------------------------------ MODULE ConsVec ------------------------------
(***************************************************************************)
(* gen::ConsVec, a vector whose elements keep their index: the empty ones  *)
(* are linked through next_empty, from first_empty on.  The data of an     *)
(* empty element, which at() refuses, is Nil here.  A vector is a record   *)
(* of functions on its indices.                                            *)
(***************************************************************************)
EXTENDS Integers, FiniteSets

CONSTANT Nil   \* the data of an empty element

EOL    == -1
Filled == -2

\* The constructor makes one empty element.
New == [first |-> 0, next |-> [i \in {0} |-> EOL], data |-> [i \in {0} |-> Nil]]

Size(v) == Cardinality(DOMAIN v.next)

IsEmpty(v, n) == v.next[n] # Filled

\* The data at index n; at() throws for an index past the end or empty.
CanAt(v, n) == n \in DOMAIN v.next /\ ~IsEmpty(v, n)

\* first_empty once its element n has been filled.
AfterFirst(v, n) == v.next[n]

\* The index that insert returns: the first empty element, or a new one.
InsertAt(v) == IF v.first = EOL THEN Size(v) ELSE v.first

Insert(v, x) ==
  LET n == InsertAt(v)
      D == DOMAIN v.next \cup {n}
  IN  [first |-> IF v.first = EOL THEN EOL ELSE AfterFirst(v, n),
       next  |-> [i \in D |-> IF i = n THEN Filled ELSE v.next[i]],
       data  |-> [i \in D |-> IF i = n THEN x ELSE v.data[i]]]

\* Mutant: the elements that were empty before are no longer linked.
LosesRest(v) == EOL

\* What an element that becomes empty links to.
LinkOf(v) == v.first

MarkEmpty(v, n) ==
  IF IsEmpty(v, n) THEN v
  ELSE [first |-> n, next |-> [v.next EXCEPT ![n] = LinkOf(v)],
        data |-> [v.data EXCEPT ![n] = Nil]]

\* The links lead from first_empty through every empty element once and end there:
\* insert never fills an element in use, and no index is lost.
WellLinked(v) ==
  LET step[k \in 0 .. Size(v)] ==
        IF k = 0 THEN v.first
        ELSE IF step[k - 1] \in DOMAIN v.next THEN v.next[step[k - 1]] ELSE EOL
      seen == {step[k] : k \in 0 .. Size(v)}
  IN  /\ step[Size(v)] = EOL
      /\ seen \ {EOL} = {n \in DOMAIN v.next : IsEmpty(v, n)}
=============================================================================
