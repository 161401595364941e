CONSTANTS
  i1 = i1  i2 = i2  i3 = i3
  here = here  elsewhere = elsewhere
  user = user
  Pool = Pool  Paymaster = Paymaster  Patron = Patron  Outsider = Outsider
  NoAccount = NoAccount
  PoolDomain = here
  Inners <- MCInners
  Domains <- MCDomains
  Accounts <- MCAccounts
  Requests <- MCRequests
  Values = {0, 1, 3, 66}
  ShieldValues = {3}
  MaxValue = 8
  FieldP = 67
  Capacity = 5
  RingSize = 2
  MaxSlot = 3
  InitialFunds = 2
SPECIFICATION Spec
CHECK_DEADLOCK FALSE
INVARIANT
  BurnsOnlyWhenFull
