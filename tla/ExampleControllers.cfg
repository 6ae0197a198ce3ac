SPECIFICATION Spec
CONSTANTS
  here = here
  there = there
  Poses <- MCPoses
  Goal = there
  MoveTime = 2
  MaxLoans = 3
  MaxTime = 6
  MaxAsked = 2
INVARIANTS
  FollowsItsStart
  CommandsAccepted
  UsesItsLoan
CHECK_DEADLOCK FALSE
