----------------------------- MODULE SharedCells -----------------------------
(***************************************************************************)
(* What shared memory promises: every shared segment is a cell, and all    *)
(* processes attached to the segment use that cell.  It is indeterminate   *)
(* (Junk) when the segment is created, keeps what was stored last whoever  *)
(* comes and goes, and is Absent before the creation and after the         *)
(* deletion of the segment.                                                *)
(***************************************************************************)

CONSTANTS Procs, Places, Names, Data, Junk, Absent

VARIABLES attached, cell

Registry == INSTANCE SharedRegistry

Init == Registry!Init /\ cell = [n \in Names |-> Absent]

Create(p, a, n) ==
  /\ cell[n] = Absent
  /\ Registry!Attach(p, a, n)
  /\ cell' = [cell EXCEPT ![n] = Junk]

Connect(p, a, n) ==
  /\ cell[n] # Absent
  /\ Registry!Attach(p, a, n)
  /\ UNCHANGED cell

\* A process that is attached to the segment stores to it.
Store(x, d) ==
  /\ x \in attached
  /\ cell' = [cell EXCEPT ![x[3]] = d]
  /\ UNCHANGED attached

Drop(n) ==
  /\ cell[n] # Absent
  /\ Registry!Drop(n)
  /\ cell' = [cell EXCEPT ![n] = Absent]

\* Processes end and begin, or give up a segment, and its cell stays.
Part ==
  /\ \/ \E x \in Registry!Attachment : Registry!Detach(x)
     \/ \E p \in Procs : Registry!Leave(p)
     \/ \E p, q \in Procs : Registry!Copy(p, q)
  /\ UNCHANGED cell

Next ==
  \/ \E p \in Procs, a \in Places, n \in Names : Create(p, a, n) \/ Connect(p, a, n)
  \/ \E x \in Registry!Attachment, d \in Data : Store(x, d)
  \/ \E n \in Names : Drop(n)
  \/ Part

Spec == Init /\ [][Next]_<<attached, cell>>
=============================================================================
