CONSTANTS
  b1 = b1
  b2 = b2
  fastetcd = fastetcd
  rustkube = rustkube
  base = base
  node = node
  Components = {fastetcd, rustkube}
  Flavors = {base, node}
  NoFlavor = NoFlavor
  PartsOf <- Layered
  Tasks = {b1, b2}
  MaxHead <- OneMoves
  MaxEvents = 1
SPECIFICATION FairSpec
CHECK_DEADLOCK FALSE
INVARIANTS
  TypeOK
  ChangeOwned
PROPERTIES
  ChangeReleased
  Settles
