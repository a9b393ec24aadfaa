CONSTANTS
  Image = {1, 2, 3}
  Broken = {2}
  Output = {o1}
  Scale = {1, 2}
  Folder = Folder
  Nothing = Nothing
  Malformed = Malformed
  Absent = Absent
  Refused = Refused
  DefaultScale = 1
  Files = 2
  Contents <- TwoFiles
  Acts = 3
SPECIFICATION Spec
INVARIANT TypeOK CacheIsExact
PROPERTY Rotates ConfigTakesEffect
CHECK_DEADLOCK FALSE
