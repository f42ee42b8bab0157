\* Heartbeats, listings, purges, a crash; SQLite.
SPECIFICATION SessionSpec
CONSTANTS
  None = None
  Malformed = Malformed
  Backend = "sqlite"
  Usernames = {u1}
  Passwords = {p1}
  Tokens = {t1}
  ServerIds = {s1}
  PlayerCounts = {0}
  SERVER_TTL_SEC = 1
  MAINTENANCE_PURGE_TTL_SEC = 2
  MaxTime = 3
  Handlers = {h1, h2}
  Endpoints = {"heartbeat", "servers"}
  Starter = "harness"
  IntervalSec = 2
  MaxFaults = 0
  MaxCrashes = 1
SYMMETRY HandlerSymmetry
INVARIANT ListingNeverFails
PROPERTIES
  AckedServerListed
  PurgeSparesInFlight
