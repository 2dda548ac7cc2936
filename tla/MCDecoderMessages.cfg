SPECIFICATION Spec
CONSTANTS
  Word <- MCWord
  Nothing <- MCNothing
  Capacity = 2
  BufSize = 8
  DispLen = 4
  CountMod = 16
  PressMod = 2
  ShiftWindow = 0
  ResetText <- MCResetText
  ValidReading <- MCValidReading
  InMenu <- MCInMenu
  TextDisplay <- MCTextDisplay
  Tails <- MCTails
  Frames <- MessageFrames
  MaxFrames = 2
  MaxFaults = 1
  MaxResets = 1
INVARIANTS
  NulTerminated
  FlagsDescribeMain
PROPERTIES
  EofEndsFrame
  MessageWhole
  ChangesCounted
CHECK_DEADLOCK FALSE
