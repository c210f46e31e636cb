SPECIFICATION Spec
CONSTANTS
  app = app
  lib = lib
  app1 = app1
  lib1 = lib1
  lib2 = lib2
  Names <- TwoNames
  Artifacts <- TwoArtifacts
  NameOf <- TwoNameOf
  Deps <- TwoDeps
  Operations = {o1, o2}
  HasGroup = TRUE
  MaxRevision = 2
  MaxRecord = 2
  MaxOutside = 1
  None = None
SYMMETRY Symmetry
INVARIANT HandoffIsSound
INVARIANT ReportsAreTrue
INVARIANT InstallationsAreOwned
PROPERTY ImplementsDeliveries
\* A disposed platform may rest.
CHECK_DEADLOCK FALSE
