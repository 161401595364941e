CONSTANTS
  WordTop = 64
  P = 29
  AddressTop = 16
  MaxValue = 8
  PoolDomain = 22
  PoolSource = 40
  Pool = 13
  Payer = 14
  Proved <- MCProved
  MaxChanges = 1
SPECIFICATION Spec
CHECK_DEADLOCK FALSE
INVARIANTS
  MonolithReverifies
