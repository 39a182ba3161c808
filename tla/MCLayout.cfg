SPECIFICATION Spec
CONSTANTS
  Unset = Unset
  Broken = Broken
  None = None
INVARIANTS
  EngineFollowsMenu
  RestartKeepsLayout
