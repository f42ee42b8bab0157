\* Two launchers, none of which dies.
SPECIFICATION Spec
CONSTANTS
  None = None
  Launchers = {p1, p2}
  Aliases = {a1}
  Ids = {i1}
  MaxCrashes = 0
PROPERTY AtomicWrites
