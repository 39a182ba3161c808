SPECIFICATION Spec
CONSTANTS
  cmd = cmd
  fn = fn
  space = space
  left = left
  macLocked = macLocked
  Modifiers = {cmd}
  FlagKeys = {}
  PlainKeys = {space}
  Buttons = {left}
  SwitchKeys = {cmd, space}
  Reasons = {macLocked}
  NoReason = NoReason
  NotQueried = NotQueried
  PushLimit = 1
  MaxDrops = 1
INVARIANTS
  TypeOK
  PauseIsInert
  PendingIsAwaited
  LockIsHeld
  PointerFollowsMode
  RemoteHasClientOrDrop
  TrackingIsExact
  NothingStuckOnMac
  ClientMirrorsKeys
PROPERTIES
  UnlocksWhenReleased
