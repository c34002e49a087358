CONSTANTS
  t0 = t0
  t1 = t1
  t2 = t2
  dev1 = dev1
  Tasks = {t0, t1, t2}
  Names = {dev1}
  NameOf <- OneName
  r1 = r1
  r2 = r2
  Releases = {r1, r2}
  NoRelease = NoRelease
  ScriptsFail = TRUE
  MaxCrashes = 1
SPECIFICATION MCSpec
CHECK_DEADLOCK FALSE
INVARIANTS
  TypeOK
  TransientOwned
  TombstoneDeserved
PROPERTIES
  TombstonesStay
  NoResurrection
  TransientEnds
