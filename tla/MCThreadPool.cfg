SPECIFICATION FairSpec
CONSTANTS
  Workers = {w1, w2}
  Acceptors = {a1, a2}
  Conns = {c1, c2, c3}
  Nobody = Nobody
INVARIANTS TypeOK DrainFindsNothing
PROPERTIES ImplementsService WaitsOnlyForClients ShutdownReturns
CHECK_DEADLOCK FALSE
