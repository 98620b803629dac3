SPECIFICATION Spec
CONSTANTS
  c1 = c1
  c2 = c2
  c3 = c3
  NULL = NULL
  ERASED = ERASED
  MIXED = MIXED
  NSlots = 2
  Conns = {c1, c2}
  MAX_HEAD_LEN = 3
  FF_SIZE = 3
  StoreCap = 6
  FlashBlocks = 2
  MaxChunk = 2
  CanReset = TRUE
  CanProgram = FALSE
  Offers <- OffersAll
INVARIANTS TypeOK HandleOwned OneSendAtATime OpenHasSlot
