SPECIFICATION Spec
CONSTANTS
  Slots = 1
  Relative = FALSE
  PadW = 2
  PadH = 1
  ScrW = 20
  ScrH = 16
  Scale = 9
  ScaleX = 37
  Unit = 2
  Slop = 1
  DriveSlop = 1
  StepX = 1
  StepY = 1
  Horizontal = TRUE
  WordDelete = TRUE
  Backlight = TRUE
  Removable = TRUE
  Mods = {alt}
  ChordMod = alt
  QueueMax = 1
  KeyMax = 2
  MaxLost = 1
INVARIANTS ContactOwned ModifierLetsGo
