SPECIFICATION FairSpec
CONSTANTS
  Fds = {f1, f2}
  NoFd = NoFd
  Workers = {w1, w2}
  Peers = {"a"}
  SessionIds = {0}
  Commands = {"shutdown", "attach", "detach", "ping"}
  MaxConnections = 2
  MaxClients = 2
  MaxSessions = 2
  MaxScans = 2
  PreAuthBudget = 1
  Faults = {"detach"}
PROPERTIES StopCompletes ListenerRecovers
