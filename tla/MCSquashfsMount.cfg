SPECIFICATION FairSpec
CONSTANTS
  Thread = {h1, h2}
  None = None
  Image = {"v3", "v3b", "v21", "v20", "v4"}
  Broken = {"broken"}
  Fragments = {"v3", "v21", "v20"}
  Export = {"v3"}
  Major <- MCMajor
  Minor <- MCMinor
  Dir <- MCDir
  Index <- MCIndex
  Block = 4
  Base = 1
  Item = 2
  Name = {11, 12, 21, 31}
  Ino <- MCIno
  Kind <- MCKind
  MaxCalls = 3
  MaxFaults = 1
  MaxMounts = 2
INVARIANTS TypeOK ListingIsWhole LookupAnswers InodesAreRead AllGoesBack
PROPERTIES CallsReturn
CHECK_DEADLOCK FALSE
