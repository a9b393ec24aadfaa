CONSTANTS
  Window = {game, other}
  game = game
  other = other
  Nothing = Nothing
  Heads = 2
  Width = 2
  MaxSize = 3
  Layouts <- Arrangements
  Regions <- Corner
  BornWith = 2
  Hints = {1}
  Scenes <- Sessions
  Deltas <- Steps
  Near <- OnTile
  MaxAsked = 1
SPECIFICATION Spec
INVARIANTS TypeOK AnchorHolds
PROPERTIES LockHolds LandsOnFocus
