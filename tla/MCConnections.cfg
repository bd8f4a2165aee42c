SPECIFICATION Spec
CONSTANTS
  Fds = {f1, f2, f3}
  NoFd = NoFd
  Workers = {w1, w2}
  Peers = {"a", "b"}
  SessionIds = {0, 7}
  Commands = {"hello", "scan", "goodbye"}
  MaxConnections = 2
  MaxClients = 2
  MaxSessions = 2
  MaxScans = 2
  PreAuthBudget = 1
  Faults = {"start"}
SYMMETRY Symmetry
INVARIANTS CountExact RegistryExact SessionsExact OwnersLive CleanRestart
PROPERTY ScanSlotKept
