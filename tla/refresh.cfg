SPECIFICATION FairSpec
CONSTANTS
  Symbol = {"fine", "coarse"}
  Step <- Steps
  Rank <- Ranks
  MinRecheck = 1
  PublishGrace = 1
  RefreshEvery = 1
  MaxJobs = 1
  Answering = {"fine", "coarse"}
INVARIANTS
  TypeOK
  PromptBarsAskedSoon
  ReopeningAskedWithinABar
PROPERTIES
  StaysFresh
