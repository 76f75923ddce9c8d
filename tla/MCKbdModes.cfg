SPECIFICATION Spec
CONSTANTS
  Slots = 2
  Relative = FALSE
  PadW = 1
  PadH = 2
  ScrW = 20
  ScrH = 16
  Scale = 5
  ScaleX = 8
  Unit = 1
  Slop = 1
  DriveSlop = 1
  StepX = 1
  StepY = 1
  Horizontal = TRUE
  WordDelete = FALSE
  Backlight = FALSE
  Removable = FALSE
  Mods = {alt}
  ChordMod = "none"
  QueueMax = 1
  KeyMax = 1
  MaxLost = 0
INVARIANTS SteeredNeverScrolls TypingBeforeSlide
