CONSTANTS
  b1 = b1
  b2 = b2
  fastetcd = fastetcd
  rustkube = rustkube
  base = base
  node = node
  Components = {fastetcd, rustkube}
  Flavors = {base, node}
  NoFlavor = NoFlavor
  PartsOf <- Layered
  Tasks = {b1, b2}
  MaxHead <- OneMoves
  MaxEvents = 0
SPECIFICATION Spec
CHECK_DEADLOCK FALSE
PROPERTY NotesSinceLastBuild
