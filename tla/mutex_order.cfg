SPECIFICATION Spec
CONSTANTS
  Threads = {t1, t2}
  Calls <- Public
  Pressures = {{"user"}, {"kernel"}}
  Mixed = FALSE
  SharedClones = FALSE
  Watched <- Guarded
  Nobody = Nobody
SYMMETRY Symmetry
INVARIANTS NoDeadlock Ranked NoRace
