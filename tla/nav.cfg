CONSTANTS
  NumMonitors = 1
  VisibleColumns = 2
  MaxWindows = 2
  Kind <- WaylandThenX11
  MayFullscreen = {}
  Chords = {"Rotate", "Scroll", "MoveColumn", "NewGroup", "Swap", "Focus", "Move", "NewColumn", "Visible", "Remove"}
  Devices = {}
  MaxColumns = 3
  MaxRows = 2
SPECIFICATION Spec
INVARIANTS TypeOK IndexSafe SoundGrid ScreenFresh
PROPERTIES ComesForward KeepsSlot
