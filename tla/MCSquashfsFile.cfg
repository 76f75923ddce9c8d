SPECIFICATION FairSpec
CONSTANTS
  Thread = {h1, h2}
  None = None
  File = {1, 2, 3}
  Size <- MCSize
  Frag = {2}
  Hole <- MCHole
  Link = {3}
  PageSize = 2
  Per = 2
  Indexes = 1
  Entries = 2
  Slots = 2
  Number = 2
  Asked <- MCAsked
  Flaky = {1, 3}
  MaxReads = 3
INVARIANTS TypeOK PagesAreTheFile SlotsAreSound
PROPERTIES ReadsReturn
CHECK_DEADLOCK FALSE
