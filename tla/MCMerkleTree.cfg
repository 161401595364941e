CONSTANTS
  c1 = c1  c2 = c2  c3 = c3  c4 = c4  c5 = c5  c6 = c6  c7 = c7  c8 = c8  c9 = c9
  Zero = Zero
  Depth = 3
  Cms <- MCCms
SPECIFICATION Spec
CONSTRAINT Ordered
INVARIANTS
  RootMatchesWallet
  PathsOpenExactly
  EventsRebuildTree
PROPERTIES
  MismatchOnlyWhenRaced
