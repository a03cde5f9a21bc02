SPECIFICATION ReceiptSpec
CONSTANTS
  Callers = {c1, c2}
  Branches = {b1, b2, b3}
  Nothing = Nothing
  Dead = Dead
  MaxCommands = 4
SYMMETRY Interchangeable
INVARIANTS
  ReceiptTypeOK
  ReceiptIsSound
  HeldOrAsked
CHECK_DEADLOCK FALSE
