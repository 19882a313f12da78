CONSTANTS
  Callers = {c1}
  NoThread = NoThread
  MaxConnects = 1
  MaxDisconnects = 0
  MaxDrops = 1
  MaxRetries = 2
  MaxGens = 2
  RemoteHealthy = TRUE
SPECIFICATION FairSpec
PROPERTIES HealthyRemoteIsReconnected
CHECK_DEADLOCK FALSE
