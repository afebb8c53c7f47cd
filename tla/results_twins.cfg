SPECIFICATION Spec
CONSTANTS
  None = None
  JobId <- TwoIds
  Worker = {server, laptop}
  WorkerKinds <- Both
  User = {u1}
  Owner = u1
  Bar <- Bars
  FirstNewest = 9
  DefaultWindows <- Split
  Moved <- Dragged
  Setting = {x1, x2}
  Chosen = x1
SYMMETRY WorkerSymmetry
INVARIANTS
  TypeOK
  ResultOfOnePiece
  SweepOfOnePiece
