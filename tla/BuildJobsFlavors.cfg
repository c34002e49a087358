CONSTANTS
  b1 = b1
  b2 = b2
  b3 = b3
  node = node
  edition = edition
  Builds = {b1, b2, b3}
  Flavors = {node, edition}
  PrefixFlavors = {}
  FlavorOf <- TwoFlavors
  Keep = 1
  IoErrors = TRUE
  MaxClock = 0
  MaxCrashes = 0
SPECIFICATION Spec
CHECK_DEADLOCK FALSE
SYMMETRY SymmetryRest
INVARIANTS
  NewestKept
  ExcessOwned
