SPECIFICATION Spec
CONSTANTS
  Lwps = {1, 2}
  InitialLwps = {1, 2}
  Insns <- TwoByte
  WatchAddrs = {}
  MaxBp = 1
  MaxWp = 1
  Commands = {"attach", "poll", "continue", "set sw"}
  Faults = {}
PROPERTIES BreakpointsHonoured
CHECK_DEADLOCK FALSE
