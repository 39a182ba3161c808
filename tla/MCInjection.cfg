SPECIFICATION Spec
CONSTANTS
  MacKeys <- SomeKeys
  MacButtons <- SomeButtons
  Deltas <- SomeDeltas
  Half = 2
  MaxHeld = 2
  MaxWire = 2
INVARIANTS
  NothingLeftHeld
  DeviceMirrorsMac
  PointerKeepsUp
