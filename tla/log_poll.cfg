\* Up to five threads log at once, two polls overlap, one fault.
SPECIFICATION FairSpec
CONSTANTS
  Polls = {p1, p2}
  Limit = 1
  MaxPending = 5
  MaxEvents = 5
  MaxTime = 2
  MaxFaults = 1
INVARIANTS
  TypeOK
  NothingShownComesBack
PROPERTIES
  SinceNeverRetreats
  ShownOrOvertaken
