SPECIFICATION FairSpec
CONSTANTS
  Controls = {c1, c2}
  Pollers = {p1}
  RingSize = 2
  IndexMod = 4
  PollMax = 2
  MaxThreads = 2
  MaxEvents = 2
INVARIANTS OneTracer StatusTruthful
PROPERTIES PollsInOrder StopReturns
CONSTRAINT UntilCrossed
CHECK_DEADLOCK FALSE
