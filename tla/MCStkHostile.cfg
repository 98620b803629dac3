SPECIFICATION Spec
CONSTANTS
  Bytes <- MCBytes
  Files <- BothFiles
  PAGE_SIZE = 4
  TICK_MAX = 4
  SYNC_STEP = 2
  SyncTries = 1
  Replies = {"ok", "bad", "none"}
  Mishaps = {"late", "overlap", "leftover", "erased", "reader"}
  MaxReads = 1
  MaxSessions = 2
  FlashCap = 8
INVARIANTS TypeOK LockedWhileTicking EndedForReason PinsRestored FinishedIsComplete NoFalseAlarm
CHECK_DEADLOCK FALSE
