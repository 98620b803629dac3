SPECIFICATION TelnetSpec
CONSTANTS
  SIZE = 3
  MaxSaid = 3
  Chars <- MCChars
  NUL = 0
  MaxBaud = 4
  FirstBaud = 2
  Networks = {}
  NoNetwork = NoNetwork
  NSlots = 2
  Conns = {c1, c2}
  NULL = NULL
  Lines <- MCLines
SYMMETRY Symmetry
INVARIANTS TelnetTypeOK KeepsNewest SessionPrivate Transparent OneSlotEach
PROPERTY ReadsOldest
