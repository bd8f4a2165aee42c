SPECIFICATION FairSpec
CONSTANTS
  Names = {"game", "shell"}
  NoName = "none"
  ProcessLists <- Lists
  MaxOutages = 1
INVARIANTS TypeOK SelectionOfThisLife PingsOfThisConnection AttemptKeepsPhase
PROPERTIES MapsOfThisConnection CancelIsFinal RetriesSucceed LossNoticed
CHECK_DEADLOCK FALSE
