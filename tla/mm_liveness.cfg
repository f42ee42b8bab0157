\* Every request is answered and stale rows go, in spite of faults and a crash.
SPECIFICATION FairSessionSpec
CONSTANTS
  None = None
  Malformed = Malformed
  Backend = "sqlite"
  Usernames = {u1}
  Passwords = {p1}
  Tokens = {t1}
  ServerIds = {s1}
  PlayerCounts = {0}
  SERVER_TTL_SEC = 1
  MAINTENANCE_PURGE_TTL_SEC = 3
  MaxTime = 4
  Handlers = {h1}
  Endpoints = {"heartbeat", "servers"}
  Starter = "harness"
  IntervalSec = 2
  MaxFaults = 1
  MaxCrashes = 1
PROPERTIES
  EveryRequestAnswered
  StaleRowsPurgedWhileAlive
