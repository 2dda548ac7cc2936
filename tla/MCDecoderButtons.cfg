SPECIFICATION FairSpec
CONSTANTS
  Word <- MCWord
  Nothing <- MCNothing
  Capacity = 2
  BufSize = 8
  DispLen = 4
  CountMod = 16
  PressMod = 2
  ShiftWindow = 1
  ResetText <- MCResetText
  ValidReading <- MCValidReading
  InMenu <- MCInMenu
  TextDisplay <- MCTextDisplay
  Tails <- MCTails
  Frames <- ButtonFrames
  MaxFrames = 3
  MaxFaults = 0
  MaxResets = 1
INVARIANTS
  ShiftParity
PROPERTIES
  ResetShown
CHECK_DEADLOCK FALSE
