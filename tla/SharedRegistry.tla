--------------------------- MODULE SharedRegistry ---------------------------
(***************************************************************************)
(* What shared segments promise: an attachment <<p, a, n>> says that the   *)
(* process p sees the shared segment named n at place a.  A process makes  *)
(* and gives up its own attachments; deleting a segment ends all of them.  *)
(***************************************************************************)

CONSTANTS Procs, Places, Names

VARIABLE attached

Attachment == Procs \X Places \X Names

Init == attached = {}

Attach(p, a, n) ==
  /\ \A x \in attached : <<x[1], x[2]>> # <<p, a>>
  /\ attached' = attached \cup {<<p, a, n>>}

Detach(x) == x \in attached /\ attached' = attached \ {x}

\* The process q begins with what p is attached to.
Copy(p, q) ==
  /\ \A x \in attached : x[1] # q
  /\ attached' = attached \cup {<<q, x[2], x[3]>> : x \in {x \in attached : x[1] = p}}

\* The segment n is deleted: nobody is attached to it any longer.
Drop(n) == attached' = {x \in attached : x[3] # n}

\* A process ends.
Leave(p) == attached' = {x \in attached : x[1] # p}

Next ==
  \/ \E p \in Procs, a \in Places, n \in Names : Attach(p, a, n)
  \/ \E x \in Attachment : Detach(x)
  \/ \E n \in Names : Drop(n)
  \/ \E p \in Procs : Leave(p)
  \/ \E p, q \in Procs : Copy(p, q)

Spec == Init /\ [][Next]_attached
=============================================================================
