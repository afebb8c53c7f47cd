SPECIFICATION Spec
CONSTANTS
  None = None
  Process = {"backfill"}
  Keeps = {}
  Traded <- EverySlot
  Since = {0, 5}
  FirstClock = 5
  LastClock = 6
  Page = 10
  EmptyPages = 1
  Reach = 3
  Depth = 10
INVARIANT SkippedIsComplete
