SPECIFICATION FairSpec
CONSTANTS
  Procs = {p1, p2}
  NPages = 2
  UFrames = {u1, u2}
  Clusters = {c1, c2}
  Data = {d1}
  Rights = {2}
  MaxSegments = 1
  NoProc = NoProc
  NoPage = NoPage
  NoCluster = NoCluster
  NoBlock = NoBlock
  Junk = Junk
  Absent = Absent
\* The program exits on HALT.
CHECK_DEADLOCK FALSE
INVARIANTS HaltOnlyWhenFull JobGoesOn
PROPERTY JobEnds
