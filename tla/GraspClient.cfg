SPECIFICATION FairSpec
CONSTANTS
  CommandLines <- Everything
  Heights <- MCHeights
  Moves <- MCMoves
  NoAnchor = NoAnchor
INVARIANTS
  ClosingBounded
  HoldHasReason
  OneAttempt
  DeadlinesHold
PROPERTIES
  CloseWasVoted
  ReleaseWasVoted
  HoldFreezes
  ImplementsEpisode
  RunEnds
