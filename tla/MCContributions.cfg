SPECIFICATION Spec
CONSTANTS
  menu = menu
  old = old
  new = new
  other = other
  v1 = v1
  v2 = v2
  Tokens <- MCTokens
  Claims <- MCClaims
  TokenOf <- MCTokenOf
  KeyOf <- MCKeyOf
  Viewers <- MCViewers
  ViewOf <- MCViewOf
  MaxStores = 3
  MaxValue = 1
  None = None
SYMMETRY Symmetry
INVARIANT SubscribersSeeTheFinalSet
INVARIANT StoresAreExact
PROPERTY TransitionsAreAtomic
\* Everything may be disposed.
CHECK_DEADLOCK FALSE
