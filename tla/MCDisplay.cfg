SPECIFICATION MCFairSpec
CONSTANTS
  Nul = Nul
  Cols = 2
  BufLen = 5
  Tiles <- MCTiles
  Message <- MCMessage
  Poll = 2
  Delay = 3
  Bare = Bare
  Off = Off
  LcdColumn = {0}
  Cell <- MCCell
  Indicator <- MCIndicator
  Place <- MCPlace
  Mode <- MCMode
INVARIANTS
  ToldAsShown
  CellsAreCurrent
  LightsAreCurrent
PROPERTIES
  OnlyOldOrTrusted
  SettlesOnLast
