\* Three threads register and log in; the process dies once; SQLite.
SPECIFICATION Spec
CONSTANTS
  None = None
  Malformed = Malformed
  Backend = "sqlite"
  Usernames = {u1, u2}
  Passwords = {p1, p2}
  Tokens = {t1, t2}
  ServerIds = {}
  PlayerCounts = {0}
  SERVER_TTL_SEC = 1
  MAINTENANCE_PURGE_TTL_SEC = 5
  MaxTime = 0
  Handlers = {h1, h2, h3}
  Endpoints = {"register", "login"}
  Starter = "main"
  IntervalSec = 0
  MaxFaults = 0
  MaxCrashes = 1
SYMMETRY Symmetry
INVARIANTS
  TypeOK
  SessionsHaveAccounts
  PromisesKept
  CountersAgree
