SPECIFICATION FairSpec
CONSTANTS
  a = a
  b = b
  c = c
  Mac = Mac
  Linux = Linux
  Texts = {a, b, c}
  TooLong = {c}
  Empty = Empty
  None = None
  MaxCrossed = 1
INVARIANTS
  SettledIsSynced
PROPERTY
  TrafficStops
