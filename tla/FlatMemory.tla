----------------------------- MODULE FlatMemory -----------------------------
(***************************************************************************)
(* What the virtual memory promises its processes: every page of every     *)
(* process is a cell.  A cell is Absent until a segment covers it, holds   *)
(* indeterminate bytes (Junk) until it is loaded or stored to, keeps what  *)
(* was stored last, and becomes Absent again when its segment is deleted.  *)
(* Frames, clusters, swapping and page faults do not exist at this level.  *)
(***************************************************************************)

CONSTANTS
  Page,     \* the virtual pages of all processes
  Data,     \* the contents a client can give a page
  Junk,     \* the content of a page nobody has written yet
  Absent    \* a page outside every segment

VARIABLE memory

Cell == Data \cup {Junk}

Init == memory = [q \in Page |-> Absent]

\* A segment covering the pages S is created.
Map(S) ==
  /\ \A q \in S : memory[q] = Absent
  /\ memory' = [q \in Page |-> IF q \in S THEN Junk ELSE memory[q]]

\* A page of a segment is loaded with initial content.
Load(q, d) ==
  /\ memory[q] = Absent
  /\ memory' = [memory EXCEPT ![q] = d]

\* A client stores to a page.
Store(q, d) ==
  /\ memory[q] # Absent
  /\ memory' = [memory EXCEPT ![q] = d]

\* A page is cloned.
Copy(q, r) ==
  /\ memory[q] # Absent
  /\ memory[r] = Absent
  /\ memory' = [memory EXCEPT ![r] = memory[q]]

\* The segments covering the pages S are deleted.
Unmap(S) ==
  /\ \A q \in S : memory[q] # Absent
  /\ memory' = [q \in Page |-> IF q \in S THEN Absent ELSE memory[q]]

Next ==
  \/ \E S \in SUBSET Page : Map(S) \/ Unmap(S)
  \/ \E q \in Page, d \in Data : Load(q, d) \/ Store(q, d)
  \/ \E q, r \in Page : Copy(q, r)

Spec == Init /\ [][Next]_memory
=============================================================================
