SPECIFICATION Spec
CONSTANTS
  None = None
  JobId <- FourIds
  Worker <- Alone
  WorkerKinds <- AloneKinds
  User = {u1}
  Request = {r1, r2}
  Form = {"backtest", "pair"}
  Script = {}
  ChecksOut = {}
  MaxOpen = 2
  CliKinds = {}
SYMMETRY RequestSymmetry
INVARIANTS
  PairNamesBacktest
  OpenBound
PROPERTIES
  BacktestBeforeItsSweep
