CONSTANTS
  b1 = b1
  b2 = b2
  b3 = b3
  node = node
  edition = edition
  Builds = {b1, b2, b3}
  Flavors = {node, edition}
  PrefixFlavors = {}
  FlavorOf <- OneFlavor
  Keep = 1
  IoErrors = FALSE
  MaxClock = 1
  MaxCrashes = 0
SPECIFICATION Spec
CHECK_DEADLOCK FALSE
SYMMETRY SymmetryAll
INVARIANTS
  TypeOK
  NewestKept
  ExcessOwned
  MissingOwned
PROPERTY
  IsRetention
