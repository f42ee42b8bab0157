\* The maintenance thread as matchmaking_server.main starts it.
SPECIFICATION FairSessionSpec
CONSTANTS
  None = None
  Malformed = Malformed
  Backend = "sqlite"
  Usernames = {u1}
  Passwords = {p1}
  Tokens = {t1}
  ServerIds = {s1}
  PlayerCounts = {0}
  SERVER_TTL_SEC = 1
  MAINTENANCE_PURGE_TTL_SEC = 3
  MaxTime = 4
  Handlers = {h1}
  Endpoints = {"heartbeat", "servers"}
  Starter = "main"
  IntervalSec = 2
  MaxFaults = 0
  MaxCrashes = 0
PROPERTY StaleRowsPurged
