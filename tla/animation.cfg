CONSTANTS
  Windows = {w1, w2}
  Rects = {r1, r2}
  Flying = Flying
  Duration = 2
SPECIFICATION Spec
INVARIANTS WarpsHome DrawnOnce ToldOrBelieved
PROPERTIES ShowingSpec ComesToRest
