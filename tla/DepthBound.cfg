CONSTANTS
  Ids <- MCIds
  Sorted <- MCSorted
  Packages <- MCPackages
  MaxDepth = 3
  MaxMembers = 4
  MaxLinks = 4
SPECIFICATION CompositeSpec
INVARIANTS DepthIsBounded
CHECK_DEADLOCK FALSE
