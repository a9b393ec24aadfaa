CONSTANTS
  Ids = {1, 2, 3, 4}
  Columns = 3
SPECIFICATION Spec
INVARIANT SameGrid
