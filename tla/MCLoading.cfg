SPECIFICATION LoadingSpec
CONSTANTS
  Artifacts = {a1, a2}
  Waiters = {w1, w2, w3}
  MaxLoads = 4
  None = None
SYMMETRY Symmetry
INVARIANT WaitersShareLiveWork
PROPERTY NoUnwantedCall
\* Everybody may have been told.
CHECK_DEADLOCK FALSE
