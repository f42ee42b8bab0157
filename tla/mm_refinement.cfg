\* The handlers against the atomic account service; memory is lost by a crash.
SPECIFICATION Spec
CONSTANTS
  None = None
  Malformed = Malformed
  Backend = "memory"
  Usernames = {u1}
  Passwords = {p1, p2}
  Tokens = {t1, t2}
  ServerIds = {s1}
  PlayerCounts = {0}
  SERVER_TTL_SEC = 1
  MAINTENANCE_PURGE_TTL_SEC = 5
  MaxTime = 0
  Handlers = {h1, h2}
  Endpoints = {"register", "login", "heartbeat", "servers"}
  Starter = "main"
  IntervalSec = 300
  MaxFaults = 0
  MaxCrashes = 1
PROPERTY ImplementsAccountService
