SPECIFICATION Spec
CONSTANTS
  Fds = {f1, f2, f3}
  NoFd = NoFd
  Workers = {w1, w2}
  Peers = {"a"}
  SessionIds = {0}
  Commands = {"attach"}
  MaxConnections = 2
  MaxClients = 2
  MaxSessions = 2
  MaxScans = 2
  PreAuthBudget = 3
  Faults = {}
SYMMETRY Symmetry
INVARIANT LastClientDetaches
