SPECIFICATION Spec
CONSTANTS
  None = None
  Process = {"backfill"}
  Keeps = {"backfill"}
  Traded <- EverySlot
  Since = {0}
  FirstClock = 1
  LastClock = 3
  Page = 10
  EmptyPages = 1
  Reach = 10
  Depth = 10
INVARIANT FormingIsPartial
