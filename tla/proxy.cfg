SPECIFICATION FairSpec
CONSTANTS
  Servers = {"old", "new"}
  Newest = "new"
  Wanted <- MCWanted
  Images = {"v135", "v136"}
  Modules = {"m1", "m2"}
  PrewarmConcurrency = 1
  MaxOverlap = 1
  MaxEdits = 1
  MaxFaults = 1
  MaxRestarts = 1
  None = None
PROPERTIES Converges PrewarmEnds
CHECK_DEADLOCK FALSE
