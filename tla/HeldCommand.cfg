SPECIFICATION FairSpec
CONSTANTS
  c1 = c1
  c2 = c2
  NoCommand = NoCommand
  Commands <- MCCommands
  MaxSets = 3
INVARIANTS
  PairsWhole
  SetDelivers
PROPERTIES
  NothingAfterStop
  ImplementsLatest
  HeartbeatGoesOn
