SPECIFICATION FairSpec
CONSTANTS
  Values = {1, 2, 3}
  MaxWrites = 3
  None = None
INVARIANT GenerationsAreSerial
INVARIANT ClosedIsReleased
PROPERTY KeepsUp
\* A closed observation rests.
CHECK_DEADLOCK FALSE
