\* One poll at a time, a limit no burst reaches, no failure.
SPECIFICATION FairSpec
CONSTANTS
  Polls = {p1}
  Limit = 4
  MaxPending = 2
  MaxEvents = 3
  MaxTime = 3
  MaxFaults = 0
INVARIANT NoneOvertaken
