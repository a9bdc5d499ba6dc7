SPECIFICATION Spec
CONSTANTS
  a1 = a1
  a2 = a2
  Account <- OneAccount
  Maturity = {1, 2}
  Amount = {0, 1}
  MAX_ASSETS = 2
  MaxTime = 2
  MaxNotional = 1
PROPERTIES
  GrowsWithinMaxAssets
CHECK_DEADLOCK FALSE
