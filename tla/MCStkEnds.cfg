SPECIFICATION FairSpec
CONSTANTS
  Bytes <- MCBytes
  Files <- EvenFiles
  PAGE_SIZE = 4
  TICK_MAX = 4
  SYNC_STEP = 2
  SyncTries = 1
  Replies = {"ok", "bad", "none"}
  Mishaps = {"overlap", "leftover"}
  MaxReads = 0
  MaxSessions = 2
  FlashCap = 8
PROPERTY SessionEnds
CHECK_DEADLOCK FALSE
