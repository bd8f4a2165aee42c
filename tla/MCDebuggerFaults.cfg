SPECIFICATION Spec
CONSTANTS
  Lwps = {1, 2}
  InitialLwps = {1}
  Insns <- TwoByte
  WatchAddrs = {9}
  MaxBp = 2
  MaxWp = 1
  Commands = {"attach", "stop", "poll", "continue", "step", "set sw", "set hw", "clear", "watch", "unwatch", "unwatch all", "set rip"}
  Faults = {"write", "regs", "resume", "timeout", "dbregs", "rollback", "hang", "exit"}
INVARIANTS TextIntact NoGhost
CHECK_DEADLOCK FALSE
