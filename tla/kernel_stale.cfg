SPECIFICATION Spec
CONSTANTS
  Procs = {p1, p2, p3}
  NTables = 1
  NFrames = 2
  NClusters = 6
  Calls = {"create", "touch"}
  Returning = TRUE
  Spanning = FALSE
  Orphaning = FALSE
  Crowding = FALSE
  Nil = Nil
\* The program ends when an assertion fails or a pointer goes astray.
CHECK_DEADLOCK FALSE
INVARIANT FaultServed
