SPECIFICATION Spec
CONSTANTS
  Procs = {p1}
  NTables = 3
  NFrames = 3
  NClusters = 6
  Calls = {"create", "delete"}
  Returning = FALSE
  Spanning = TRUE
  Orphaning = FALSE
  Crowding = FALSE
  Nil = Nil
\* The program ends when an assertion fails or a pointer goes astray.
CHECK_DEADLOCK FALSE
INVARIANT ParentResident
