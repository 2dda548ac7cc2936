SPECIFICATION Spec
CONSTANTS
  utc = utc
  eet = eet
  NoZone = NoZone
  OneChar = OneChar
  NoCrc = NoCrc
  Zone <- MCZone
  Garbage <- MCGarbage
  MaxTicks = 3
  MaxResets = 3
INVARIANTS
  TotalIsTimeOn
