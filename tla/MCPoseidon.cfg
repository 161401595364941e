CONSTANTS
  P = 23
  Word = 128
  T = 4
  RF = 4
  RP = 3
  C <- MCC
  M <- MCM
  Inputs = {0, 1, 22, 23, 127}
SPECIFICATION Spec
CHECK_DEADLOCK FALSE
INVARIANTS
  SumsFit
  MatchesReference
