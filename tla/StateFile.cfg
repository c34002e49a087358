CONSTANTS
  Mutations = {m1, m2, m3, m4}
  IoErrors = TRUE
  ReadErrors = TRUE
  MaxCrashes = 2
SPECIFICATION Spec
CHECK_DEADLOCK FALSE
PROPERTIES
  IsDurableState
  SavedStaySaved
