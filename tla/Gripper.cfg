SPECIFICATION FairSpec
CONSTANTS
  Goals <- MCGoals
  ExampleGoals <- MCExampleGoals
  ClientKinds <- MCClientKinds
  MaxActivations = 1
INVARIANT
  AnsweredMeansStill
PROPERTIES
  DeactivateReturns
  ImplementsGoals
CHECK_DEADLOCK FALSE
