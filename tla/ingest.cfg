SPECIFICATION Spec
CONSTANTS
  None = None
  Process = {"backfill"}
  Keeps = {"backfill"}
  Traded <- WithQuietSlots
  Since = {0, 5}
  FirstClock = 1
  LastClock = 6
  Page = 2
  EmptyPages = 1
  Reach = 2
  Depth = 4
INVARIANTS
  TypeOK
  OnlyCutsLeaveHoles
  AuditedStaysReadable
  UnfinishedAtSeam
