SPECIFICATION FairSpec
CONSTANTS
  None = None
  JobId <- TwoIds
  Worker <- Deployed
  WorkerKinds <- DeployedKinds
  User = {u1}
  Request = {r1}
  Form = {"backtest"}
  Script = {good}
  ChecksOut = {good}
  MaxOpen = 4
  CliKinds = {"sweep"}
PROPERTIES
  SettlesUnlessOrphaned
  ChecksPassSweeps
  ReconnectsAdoptOrphans
