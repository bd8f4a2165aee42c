SPECIFICATION LockSpec
CONSTANTS
  Names = {"game"}
  NoName = "none"
  ProcessLists <- Lists
  MaxOutages = 1
INVARIANT LocksHitThisLife
CHECK_DEADLOCK FALSE
