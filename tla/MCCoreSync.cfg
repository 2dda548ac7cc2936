SPECIFICATION FairSpec
CONSTANTS
  MaxChanges = 1
  MaxStates = 1
  MaxInterrupts = 1
  MaxSlow = 1
INVARIANTS
  CopiesWhole
PROPERTIES
  ConfigArrives
  StateArrives
  CommandRuns
