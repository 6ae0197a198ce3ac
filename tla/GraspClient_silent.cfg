SPECIFICATION SilentServerSpec
CONSTANTS
  CommandLines <- OnlyDefault
  Heights <- MCHeights
  Moves <- MCMoves
  NoAnchor = NoAnchor
PROPERTIES
  RunEnds
