CONSTANTS
  NumMonitors = 1
  VisibleColumns = 1
  MaxWindows = 3
  Kind <- OfEachShell
  MayFullscreen = {1, 2}
  Chords = {"NewGroup", "Scroll", "Focus", "Move", "Remove", "Maximize", "FocusFullscreen", "Redraw"}
  Devices = {"pointer", "taskbar", "launcher"}
  MaxColumns = 1
  MaxRows = 2
SPECIFICATION Spec
INVARIANTS Partition NoTrace ScreenFresh
