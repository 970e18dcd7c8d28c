SPECIFICATION Spec
CONSTANTS
  Procs = {p1, p2}
  Places = {a1, a2}
  Names = {n1, n2}
  MaxSegments = 2
  MaxShared = 3
  Twice = FALSE
  LeaveAttached = TRUE
  NotTheirs = FALSE
  Nil = Nil
SYMMETRY Symmetry
\* The program exits on HALT.
CHECK_DEADLOCK FALSE
INVARIANT NeverHalts
