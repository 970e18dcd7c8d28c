SPECIFICATION Spec
CONSTANTS
  Threads = {t1, t2}
  Calls = {"page_fault"}
  Pressures = {{"user", "kernel"}}
  Mixed = FALSE
  SharedClones = FALSE
  Watched = {}
  Nobody = Nobody
SYMMETRY Symmetry
INVARIANT NoDeadlock
