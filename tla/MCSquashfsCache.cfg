SPECIFICATION FairSpec
CONSTANTS
  Reader = {r1, r2, r3}
  Entries = 2
  Last = 3
  Starts = {1, 3}
  Span = 1
  Flaky = {2}
  Error = Error
  None = None
INVARIANTS OneEntryPerBlock CopiesInOrder SleepersAreWoken
PROPERTIES BlocksSpec CallsReturn
