SPECIFICATION StackSpec
CONSTANTS
  TTL = 8
  HeartbeatS = 2
  Timeout = 1
  WaitTimeout = 1
  MaxMisses = 3
  MaxFaults = 1
  MaxRestarts = 1
  None = None
  Urls = {home, away}
  HomeUrl = home
  Ids = {srv}
  Server = srv
  Workers = {t1, t2}
  MaxGames = 2
  MaxClicks = 5
  MaxRefreshes = 1
INVARIANTS
  StackTypeOK
  ListedWhileBeatsLand
  LoneRefreshShowsCurrent
  NoGhostServer
PROPERTIES
  LostTokenStaysLost
  RunningServerStaysListed
  ExitedServerLeaves
  StopReachesLatest
  WindowSettles
CHECK_DEADLOCK FALSE
