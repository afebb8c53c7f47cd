SPECIFICATION Spec
CONSTANTS
  LastBar = 3
  Price <- ThreePrices
  AtrDist = 8
  AtrFrom = 1
  Flags <- SomeFlags
  Setting <- SomeWalks
INVARIANTS
  TypeOK
  NoBetterThanTraded
  StopBeforeTarget
  HeldWithinMaxBars
  SolventOnceExposed
PROPERTIES
  EntersOnSignal
