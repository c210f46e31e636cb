SPECIFICATION FairSpec
CONSTANTS
  app = app
  lib = lib
  app1 = app1
  lib1 = lib1
  lib2 = lib2
  Names <- OneName
  Artifacts <- OneArtifacts
  NameOf <- OneNameOf
  Deps <- OneDeps
  Operations = {o1, o2}
  HasGroup = FALSE
  MaxRevision = 2
  MaxRecord = 1
  MaxOutside = 1
  None = None
PROPERTY PlatformSettles
\* A disposed platform may rest.
CHECK_DEADLOCK FALSE
