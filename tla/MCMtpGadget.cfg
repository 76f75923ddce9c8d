SPECIFICATION FairSpec
CONSTANTS
  None = None
  MaxTokens = 2
  MaxStarts = 2
  MaxFaults = 1
INVARIANTS TypeOK GadgetComesBack Layout
PROPERTIES MarkerCovers MarkerGoes ServedInTheEnd
CHECK_DEADLOCK FALSE
