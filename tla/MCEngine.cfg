SPECIFICATION FairSpec
CONSTANTS
  alpha = alpha
  beta = beta
  Installations <- MCInstallations
  Services <- MCServices
  Graphs <- ChangeGraphs
  FirstGraphs <- MCFirstGraphs
  Plans = {p1}
  HasDeadline = TRUE
  MaxCommands = 2
  MaxForeground = 1
INVARIANT IdleIsDeclared
INVARIANT NoEarlyPublication
INVARIANT NobodyIsForgotten
INVARIANT ProvidersOutlive
INVARIANT UsablePlanIsCurrent
PROPERTY TransitionsAreContained
PROPERTY ImplementsHost
PROPERTY HostSettles
\* A Host with no more commands may come to rest.
CHECK_DEADLOCK FALSE
