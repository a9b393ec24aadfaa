CONSTANTS
  Heads = {h1, h2}
  HdrCapable = {h1}
  Outputs = {o1, o2}
  Frames = {f1}
  NoOutput = NoOutput
  MaxTimers = 2
SPECIFICATION Spec
PROPERTIES LoopEndsOnlyBy CapturesAnswered
