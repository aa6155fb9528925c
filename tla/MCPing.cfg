SPECIFICATION FairSpec
CONSTANTS
  count = 3
  ID = {1, 2}
INVARIANTS SlotIsItsOwn CountsEveryAnswer
PROPERTIES RunEnds
CHECK_DEADLOCK FALSE
