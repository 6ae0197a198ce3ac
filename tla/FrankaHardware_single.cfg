SPECIFICATION FairSpec
CONSTANTS
  Controllers <- SingleControllers
  Claim <- SingleClaim
  Liberties = {"forward_swap", "fault", "nonfinite"}
  MaxSwitch = 2
INVARIANTS
  WriteFindsControl
PROPERTIES
  RunningIsServed
CHECK_DEADLOCK FALSE
