CONSTANTS
  NoValue = NoValue
  HoldoutDays = 3
  MinWindowBars = 2
  MinSeries = 10
  MaxValues = 3
  MaxCombinations = 4
  MinTrades = 2
  Scripts <- MCScripts
  Calendars <- MCCalendars
  Walks <- MCWalks
  Requests <- MCRequests
  Evidence <- MCEvidence
  FirstBars = 10
  Thin = 10
  Capital = 4
SPECIFICATION Spec
INVARIANTS WindowsTile ExtendKeepsWindows VerdictUnmoved CutCountsOnce RescoreAgrees HeldUpIsHigh
CHECK_DEADLOCK FALSE
