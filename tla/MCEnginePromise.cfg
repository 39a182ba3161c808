SPECIFICATION FairSpec
CONSTANTS
  cmd = cmd
  fn = fn
  space = space
  left = left
  macLocked = macLocked
  Modifiers = {}
  FlagKeys = {fn}
  PlainKeys = {}
  Buttons = {left}
  SwitchKeys = {fn}
  Reasons = {macLocked}
  NoReason = NoReason
  NotQueried = NotQueried
  PushLimit = 2
  MaxDrops = 1
PROPERTIES
  ImplementsSharing
  GuardConverges
