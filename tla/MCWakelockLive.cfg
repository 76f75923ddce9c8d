SPECIFICATION FairSpec
CONSTANTS
  Session = {s1}
  Timeout = 2
  MaxFaults = 1
PROPERTY LocksFollow
