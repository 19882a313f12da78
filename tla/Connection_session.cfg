CONSTANTS
  Callers = {c1, c2}
  NoThread = NoThread
  MaxConnects = 2
  MaxDisconnects = 1
  MaxDrops = 2
  MaxRetries = 2
  MaxGens = 2
  RemoteHealthy = FALSE
SPECIFICATION FairSpec
INVARIANTS ConnectedIsWatched NoTunnelLeak
PROPERTIES RecoveryEnds ImplementsLifecycle MonitorsRespond
CHECK_DEADLOCK FALSE
