CONSTANTS
  s1 = s1  s2 = s2  s3 = s3  s4 = s4  s5 = s5  s6 = s6  s7 = s7  s8 = s8  s9 = s9
  other = other  here = here
  Pool = Pool  Paymaster = Paymaster  Patron = Patron  Outsider = Outsider
  NoAccount = NoAccount
  Recipient = Outsider
  PoolDomain = here
  Inners <- MCInners
  Domains <- MCDomains
  Accounts <- MCAccounts
  Requests <- MCRequests
  Secrets <- MCOneRun
  Plans <- MCPlans
  Strangers <- MCStrangers
  MaxCost = 1
  Values = {0, 3, 7, 12, 19, 20}
  ShieldValues = {3, 20}
  MaxValue = 32
  FieldP = 131
  Capacity = 8
  RingSize = 2
  MaxSlot = 4
  InitialFunds = 2
SPECIFICATION FixturesSpec
CHECK_DEADLOCK FALSE
INVARIANTS
  WrittenIsApproved
  RootsForetold
PROPERTIES
  DisjointSpendsIndependent
  FixtureSettles
