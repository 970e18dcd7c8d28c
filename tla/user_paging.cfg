SPECIFICATION Spec
CONSTANTS
  Procs = {p1, p2}
  NPages = 2
  UFrames = {u1, u2}
  Clusters = {c1, c2, c3, c4}
  Data = {d1}
  Rights = {2, 3}
  MaxSegments = 2
  NoProc = NoProc
  NoPage = NoPage
  NoCluster = NoCluster
  NoBlock = NoBlock
  Junk = Junk
  Absent = Absent
SYMMETRY Symmetry
INVARIANTS TypeOK FrameOwnership ClusterOwnership CleanCopy SegmentsMapped
PROPERTIES ReadOnlyStable FlatSpec
