\* Two launchers that may or may not write at once; one death.
SPECIFICATION Spec
CONSTANTS
  None = None
  Launchers = {p1, p2}
  Aliases = {a1, a2}
  Ids = {i1, i2}
  MaxCrashes = 1
SYMMETRY Symmetry
INVARIANTS
  TypeOK
  LoneChangesKept
PROPERTIES
  NeverTorn
  ImplementsSavedMap
