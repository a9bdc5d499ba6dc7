SPECIFICATION Spec
CONSTANTS
  a1 = a1
  a2 = a2
  Account <- TwoAccounts
  Maturity = {1, 2}
  Amount = {1}
  MAX_ASSETS = 1
  MaxTime = 2
  MaxNotional = 2
INVARIANTS
  TypeOK
  OneEntryPerPosition
PROPERTIES
  ImplementsBook
CHECK_DEADLOCK FALSE
SYMMETRY Sym
