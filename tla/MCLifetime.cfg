SPECIFICATION FairSpec
CONSTANTS
  top = top
  mid = mid
  Root = top
  Scopes <- PairScopes
  Parent <- PairParent
  Subtree <- PairSubtree
  Records = {x1, x2}
  HasDeadline = TRUE
  MaxForeground = 1
INVARIANT HonestShutdown
INVARIANT ReleaseIsLifo
INVARIANT ReleaseAfterQuiescence
PROPERTY KeepsPromise
PROPERTY ShutdownSettles
\* Once everything is disposed or stuck nothing more happens.
CHECK_DEADLOCK FALSE
