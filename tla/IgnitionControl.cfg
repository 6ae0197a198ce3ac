SPECIFICATION FairSpec
CONSTANTS
  NoJoint = NoJoint
  UnknownJoint = UnknownJoint
  Joints <- MCJoints
  Controllers <- MCControllers
  Claim <- MCClaim
  Descriptions <- MCDescriptions
  MayShareJoints = FALSE
  ControlPeriod = 2
  OneSecond = 3
  MaxRewind = 1
  MaxRewinds = 1
INVARIANTS
  ServedIsClaimed
  ClaimKeepsMethod
  NothingFromTheStopped
  MimicFollows
PROPERTIES
  SwitchPerformed
