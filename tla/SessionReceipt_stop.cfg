SPECIFICATION ReceiptSpec
CONSTANTS
  Callers = {c1}
  Branches = {b1, b2}
  Nothing = Nothing
  Dead = Dead
  MaxCommands = 3
INVARIANT StopKeepsWork
CHECK_DEADLOCK FALSE
