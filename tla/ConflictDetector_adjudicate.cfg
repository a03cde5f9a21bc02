SPECIFICATION Spec
CONSTANTS
  Agents = {1, 2}
  Files = {file}
  f = f
  g = g
  Symbol <- SymbolOf
  WholeFile = WholeFile
  None = None
  Claims <- SomeClaims
  Window = 2
  Retention = 2
  Ttl = 1
INVARIANT TypeOK
PROPERTIES ToldOnceEach AskedOnce DueIsDecided
CHECK_DEADLOCK FALSE
