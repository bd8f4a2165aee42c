SPECIFICATION FairSpec
CONSTANTS
  Lwps = {1, 2}
  InitialLwps = {1}
  Insns <- OneByte
  WatchAddrs = {9}
  MaxBp = 1
  MaxWp = 1
  Commands = {"attach", "stop", "poll", "continue", "detach", "set sw", "set cond", "clear all", "watch", "set dbregs"}
  Faults = {"regs", "timeout", "exit"}
INVARIANTS StoppedIsTrue BreakpointsArmed
PROPERTIES MutexReleased ArmedOnResume
CHECK_DEADLOCK FALSE
