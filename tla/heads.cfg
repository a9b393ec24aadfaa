CONSTANTS
  NumMonitors = 2
  VisibleColumns = 1
  MaxWindows = 3
  Kind <- LastX11
  MayFullscreen = {1, 2}
  Chords = {"NewColumn", "NextMonitor", "Carry", "Move", "Rotate"}
  Devices = {"pointer"}
  MaxColumns = 2
  MaxRows = 1
SPECIFICATION Spec
INVARIANTS Partition FocusOnActiveMonitor
PROPERTIES FocusIsExclusive
