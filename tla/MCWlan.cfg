SPECIFICATION FairSpec
CONSTANTS
  WaitMax = 2
  TailNotices = TRUE
  MsgMax = 1
  MaxFaults = 1
  MaxLoss = 1
  MaxCli = 1
INVARIANTS StateIsTrue
PROPERTIES OnIsNormal OffIsSuspended
