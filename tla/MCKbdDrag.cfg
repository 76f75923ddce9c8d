SPECIFICATION FairSpec
CONSTANTS
  Slots = 1
  Relative = FALSE
  PadW = 3
  PadH = 4
  ScrW = 20
  ScrH = 16
  Scale = 9
  ScaleX = 37
  Unit = 2
  Slop = 1
  DriveSlop = 1
  StepX = 1
  StepY = 1
  Horizontal = TRUE
  WordDelete = FALSE
  Backlight = FALSE
  Removable = FALSE
  Mods = {}
  ChordMod = "none"
  QueueMax = 1
  KeyMax = 0
  MaxLost = 0
PROPERTIES OneFingerDrag NoJump
