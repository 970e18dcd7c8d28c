SPECIFICATION Spec
CONSTANTS
  NPages = 6
  LowPages = 3
  PAGE_SIZE = 2
  MaxSegments = 3
  Leftover = {0, 2}
\* The program exits on HALT.
CHECK_DEADLOCK FALSE
INVARIANTS SegmentTypeOK TableTells
