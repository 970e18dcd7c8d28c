SPECIFICATION Spec
CONSTANTS
  Threads = {t1, t2, t3}
  Page <- OnePageEach
  NFrames = 2
  DiskSize = 3
  DVTE_SIZE = 2
  Data = {d1}
  Careful = TRUE
  Nil = Nil
  NoThread = NoThread
  NoPage = NoPage
  NoCluster = NoCluster
  NoFrame = NoFrame
  Junk = Junk
  Absent = Absent
VIEW View
SYMMETRY Symmetry
INVARIANTS FramesAccounted ClustersAccounted
PROPERTIES FlatSpec
