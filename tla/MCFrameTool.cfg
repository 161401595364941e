CONSTANTS
  a = a  s = s
  n1 = n1  n2 = n2
  Shields = {a}
  Spends = {s}
  NoteOf <- MCNoteOf
  DefaultGas = 11
  Needs = {8, 11, 12}
  RevertGas = 2
  Answers = {"unavailable", "noGas", "noStatus"}
  MaxSpikes = 1
  MaxNonce = 2
SPECIFICATION PersistentSpec
CHECK_DEADLOCK FALSE
INVARIANTS
  DepositedOnce
  MinedIsDone
  BurnsAreSurprises
PROPERTIES
  DepositsArrive
