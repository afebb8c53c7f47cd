SPECIFICATION Spec
CONSTANTS
  None = None
  JobId <- ThreeIds
  Worker = {worker}
  WorkerKinds <- Both
  User = {u1}
  Owner = u1
  Bar <- Bars
  FirstNewest = 9
  DefaultWindows <- Split
  Moved <- NeverDragged
  Setting = {x1}
  Chosen = x1
INVARIANTS
  ExtendBringsUpToDate
PROPERTIES
  TestStaysAsItWas
