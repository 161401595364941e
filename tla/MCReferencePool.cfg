CONSTANTS
  i1 = i1  i2 = i2  i3 = i3
  here = here  elsewhere = elsewhere
  user = user  sender = sender
  Pool = Pool  Paymaster = Paymaster  Patron = Patron  Outsider = Outsider
  NoAccount = NoAccount
  PoolDomain = here
  PoolSender = sender
  Inners <- MCInners
  Domains <- MCDomains
  Accounts <- MCRefAccounts
  Requests <- MCRefRequests
  Signed <- MCSigned
  Values = {0, 1, 3, 66}
  ShieldValues = {3}
  MaxValue = 8
  FieldP = 67
  Capacity = 4
  RingSize = 2
  MaxSlot = 2
  InitialFunds = 2
SPECIFICATION ReferenceSpec
CHECK_DEADLOCK FALSE
INVARIANTS
  CoveredWhateverApproved
  SettledOncePerConsumption
  SharedSenderBurnsOnlyNearCapacity
