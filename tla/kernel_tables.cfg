SPECIFICATION FairSpec
CONSTANTS
  Procs = {p1, p2}
  NTables = 2
  NFrames = 3
  NClusters = 4
  Calls = {"create", "touch", "delete"}
  Returning = FALSE
  Spanning = FALSE
  Orphaning = FALSE
  Crowding = FALSE
  Nil = Nil
INVARIANTS KernelTypeOK TablesOwned MappingKept ClusterBalance DiskSuffices FaultServed NoStray
PROPERTY CallReturns
