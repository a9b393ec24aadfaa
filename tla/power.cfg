CONSTANTS
  Heads = {h1, h2}
  Surfaces = {s1, s2}
  Controls = {c1, c2}
  MaxTimeout = 3
  Refusals = {{}}
  MaxTimers = 2
SPECIFICATION Spec
INVARIANTS OneClock ModeIsTold
PROPERTIES BlanksWhenIdle WatchEndsOnlyBy GoesDark
