SPECIFICATION WifiFairSpec
CONSTANTS
  MaxBaud = 2
  FirstBaud = 1
  Networks = {home, bad}
  NoNetwork = none
  Working = {home}
  Lines <- MCLines
  ApsFit = 1
  MaxAps = 2
INVARIANTS WifiTypeOK SwitchSafe ScanStuckIsShown
PROPERTY ScanEnds
CHECK_DEADLOCK FALSE
