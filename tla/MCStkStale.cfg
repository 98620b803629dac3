SPECIFICATION Spec
CONSTANTS
  Bytes <- MCBytes
  Files <- BothFiles
  PAGE_SIZE = 4
  TICK_MAX = 5
  SYNC_STEP = 2
  SyncTries = 1
  Replies = {"ok", "bad", "none"}
  Mishaps = {"leftover"}
  MaxReads = 0
  MaxSessions = 2
  FlashCap = 8
INVARIANT FinishedMeansProgrammed
CHECK_DEADLOCK FALSE
