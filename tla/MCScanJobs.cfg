SPECIFICATION FairSpec
CONSTANTS
  Handlers = {h1, h2}
  big = big
  Jobs = {big, j1}
  Slots = {1, 2}
  Threads = 2
  MapLists <- Lists
INVARIANTS SlotKept ProgressTrue CompleteScanCoversMaps
PROPERTIES CancelEnds
CHECK_DEADLOCK FALSE
