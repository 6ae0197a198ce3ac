SPECIFICATION Spec
CONSTANTS
  Goals <- AgainGoals
  ExampleGoals <- AgainGoals
  ClientKinds <- MCClientKinds
  MaxActivations = 2
INVARIANT
  OneGoalPerActivation
CHECK_DEADLOCK FALSE
