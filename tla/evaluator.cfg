CONSTANTS
  Week = 4
  WeekOffset = 2
  Day = 2
  MaxValues = 3
  MaxLen = 10
  Specs <- MCSpecs
  Series <- MCSeries
SPECIFICATION Spec
INVARIANTS NoLookahead StartsAnywhere MemoIsFresh 
CHECK_DEADLOCK FALSE
