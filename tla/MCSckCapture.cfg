SPECIFICATION FairSpec
CONSTANTS
  ByteBits = 2
  FifoSize = 3
  MaxSckDelay = 2
  TimeMod = 5
  Gaps <- MCGaps
  MaxBytes = 4
  MaxLost = 1
INVARIANTS
  Framed
  ReadsWhole
PROPERTIES
  AppendsWholeBytes
  ResyncClosesFrame
  ImplementsQueue
  ResetAnswered
CHECK_DEADLOCK FALSE
