CONSTANTS
  b1 = b1
  b2 = b2
  b3 = b3
  node = node
  edition = edition
  Builds = {b1, b2}
  Flavors = {node, edition}
  PrefixFlavors = {node}
  FlavorOf <- OneFlavor
  Keep = 1
  IoErrors = FALSE
  MaxClock = 1
  MaxCrashes = 1
SPECIFICATION FairSpec
CHECK_DEADLOCK FALSE
INVARIANT NewestKept
PROPERTIES
  BuildFinishes
  ExcessReclaimed
  ScratchReclaimed
