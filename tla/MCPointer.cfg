SPECIFICATION FairSpec
CONSTANTS
  MacHeights <- SomeHeights
  ClientScreens <- SomeScreens
  CrossingYs <- SomeYs
  Inset = 2
  EdgeMargin = 1
  ConfigEdge = "left"
  MaxEvents = 2
  MaxCrossings = 1
INVARIANTS
  SizesAgree
  ParkedStays
PROPERTIES
  LandsBeside
  ReturnsBeside
  SizesSettle
