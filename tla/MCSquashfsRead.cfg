SPECIFICATION FairSpec
CONSTANTS
  Reader = {r1, r2}
  None = None
  D = 4
  BlockSize = 8
  BytesUsed = 58
  CheckData = TRUE
  Swap = TRUE
  Block = {"a", "b", "c", "d", "e", "f", "h"}
  At <- MCAt
  Meta = {"a", "b", "c", "f"}
  Size <- MCSize
  Packed = {"a", "c", "d", "f"}
  Src <- MCSrc
  Corrupt = {"f"}
  Flaky = {7, 12}
  MaxReads = 2
INVARIANTS TypeOK BlocksComeOut BuffersGoBack
PROPERTIES ReadsReturn
CHECK_DEADLOCK FALSE
