SPECIFICATION Spec
CONSTANTS
  cmd = cmd
  fn = fn
  space = space
  left = left
  macLocked = macLocked
  Modifiers = {cmd}
  FlagKeys = {}
  PlainKeys = {}
  Buttons = {}
  SwitchKeys = {cmd}
  Reasons = {macLocked}
  NoReason = NoReason
  NotQueried = NotQueried
  PushLimit = 2
  MaxDrops = 1
PROPERTY
  EdgeSwitchIsArmed
