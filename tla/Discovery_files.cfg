CONSTANTS
  TUIs = {t1}
  Setups = {u1, u2}
  Daemons = {d1}
  Editors = {e1}
  Nobody = Nobody
  Ports = {1, 2, 3}
  Launches = 3
  Crashes = 1
  Quits = 1
SPECIFICATION DiscoveryFairSpec
INVARIANTS HooksAndCliAgree ServingIsDiscoverable
PROPERTIES HooksFindServer
CHECK_DEADLOCK FALSE
