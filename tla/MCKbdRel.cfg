SPECIFICATION FairSpec
CONSTANTS
  Slots = 1
  Relative = TRUE
  PadW = 2
  PadH = 2
  ScrW = 20
  ScrH = 16
  Scale = 9
  ScaleX = 37
  Unit = 2
  Slop = 1
  DriveSlop = 1
  StepX = 1
  StepY = 1
  Horizontal = FALSE
  WordDelete = FALSE
  Backlight = FALSE
  Removable = FALSE
  Mods = {}
  ChordMod = "none"
  QueueMax = 1
  KeyMax = 1
  MaxLost = 0
PROPERTIES LiftLetsGo
