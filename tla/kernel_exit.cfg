SPECIFICATION Spec
CONSTANTS
  Procs = {p1, p2}
  NTables = 2
  NFrames = 4
  NClusters = 3
  Calls = {"create", "touch", "disconnect", "exit", "clone"}
  Returning = FALSE
  Spanning = FALSE
  Orphaning = FALSE
  Crowding = FALSE
  Nil = Nil
\* Clients stop at page tables left behind, and clusters left behind use up the disk.
CHECK_DEADLOCK FALSE
INVARIANTS LocksReleased VictimFound MappingKept NoStray
