CONSTANTS
  i1 = i1  i2 = i2  i3 = i3
  here = here
  payer = payer
  Pool = Pool  Paymaster = Paymaster  Patron = Patron  Outsider = Outsider
  NoAccount = NoAccount
  PoolDomain = here
  Inners <- MCInners
  Domains <- MCDomains
  Accounts <- MCAccounts
  Requests <- MCRequests
  Tools <- MCTools
  Job <- MCJob
  Values = {0, 2, 3}
  ShieldValues = {3}
  MaxValue = 8
  FieldP = 67
  Capacity = 4
  RingSize = 2
  MaxSlot = 2
  InitialFunds = 2
  MaxPolls = 2
  MaxRuns = 3
SPECIFICATION SubmitSpec
CHECK_DEADLOCK FALSE
INVARIANTS
  ReportTruthful
  BurnsOnlyIfRaced
  OneOutcome
PROPERTIES
  ToolEnds
