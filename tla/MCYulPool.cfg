CONSTANTS
  i1 = i1  i2 = i2  i3 = i3  recipient = recipient  Pool = Pool
  Zero = Zero
  Depth = 2
  MaxValue = 2
  MaxCalls = 2
  Inners <- MCInners
  Accounts <- MCAccounts
SPECIFICATION Spec
SYMMETRY Interchangeable
INVARIANTS
  PublishedRebuilds
  CoveredAtEveryCall
PROPERTIES
  TreeStepsLikeReference
CHECK_DEADLOCK FALSE
