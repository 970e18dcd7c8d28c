SPECIFICATION MemorySpec
CONSTANTS
  Procs = {p1, p2}
  Places = {a1, a2}
  Names = {n1, n2}
  MaxSegments = 2
  MaxShared = 3
  Twice = FALSE
  LeaveAttached = FALSE
  NotTheirs = FALSE
  Nil = Nil
  UFrames = {f1}
  Clusters = {c1, c2}
  Data = {d1, d2}
  NoProc = NoProc
  NoPage = NoPage
  NoCluster = NoCluster
  NoBlock = NoBlock
  Junk = Junk
  Absent = Absent
SYMMETRY Symmetry
INVARIANTS SharedTypeOK UsersMatch IndicesKept NeverHalts DummiesKept
PROPERTIES RegistrySpec CellsSpec
