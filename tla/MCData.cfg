SPECIFICATION Spec
CONSTANTS
  CACHE_SIZE = 3
  BLOCK = 4
  MAX_SENDBUFF_LEN = 16
  MAX_TOKEN = 3
  UNIT = 3
  IN_BUF = 2
INVARIANTS LinesRead PartFound  CodeUndone LoginExact PageWhole FileServed
CHECK_DEADLOCK FALSE
