SPECIFICATION Spec
CONSTANTS
  Controllers <- AnyControllers
  Claim <- AnyClaim
  Liberties = {"together", "any_swap", "deactivate", "fault"}
  MaxSwitch = 2
INVARIANTS
  ControlMatchesFlags
  ElbowNeedsCartesian
  NoStaleSetpoint
  CommandReachesItsControl
  SwitchServesClaims
PROPERTIES
  ControlFollowsSwitch
CHECK_DEADLOCK FALSE
