CONSTANTS
  i1 = i1  i2 = i2  i3 = i3
  here = here
  Pool = Pool  Paymaster = Paymaster  Patron = Patron  Outsider = Outsider
  NoAccount = NoAccount
  TooBig = TooBig
  Empty = ""
  PoolDomain = here
  Inners <- MCInners
  Domains <- MCDomains
  Accounts <- MCAccounts
  Requests <- MCRequests
  Words <- MCWords
  MaxWords = 3
  AddressOf <- MCAddressOf
  NumberOf <- MCNumberOf
  KeyListOf <- MCKeyListOf
  AfterEquals <- MCAfterEquals
  CfgPaymaster = "paymaster"
  Spends <- MCSpends
  ShieldList = FALSE
  ToShield <- MCDeposit
  BaseFee = 2
  Values = {0, 3, 12, 20}
  ShieldValues = {20}
  MaxValue = 32
  FieldP = 131
  Capacity = 4
  RingSize = 4
  MaxSlot = 2
  InitialFunds = 9
SPECIFICATION CommandLineSpec
CHECK_DEADLOCK FALSE
INVARIANTS
  PlainLineWorks
  LineNeverBurns
