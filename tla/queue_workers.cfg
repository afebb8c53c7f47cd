SPECIFICATION Spec
CONSTANTS
  None = None
  JobId <- TwoIds
  Worker <- Twins
  WorkerKinds <- TwinKinds
  User = {u1}
  Request = {r1}
  Form = {"backtest"}
  Script = {good, bad}
  ChecksOut = {good}
  MaxOpen = 4
  CliKinds = {"sweep"}
INVARIANTS
  TypeOK
  ExclusiveWhileFresh
  FreshClaimHeld
PROPERTIES
  SettledStaysSettled
  ImplementsLeaseQueue
