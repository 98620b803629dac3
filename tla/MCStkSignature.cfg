SPECIFICATION Spec
CONSTANTS
  Bytes <- MCBytes
  Files <- EvenFiles
  PAGE_SIZE = 4
  TICK_MAX = 5
  SYNC_STEP = 6
  SyncTries = 1
  Replies = {"ok", "none"}
  Mishaps = {"late"}
  MaxReads = 0
  MaxSessions = 1
  FlashCap = 8
INVARIANT AlarmIsTrue
CHECK_DEADLOCK FALSE
