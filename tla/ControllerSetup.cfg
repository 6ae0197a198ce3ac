SPECIFICATION SetupSpec
CONSTANTS
  manager = manager
  other = other
  behavior = behavior
  Clients <- MCClients
  Params <- MCParams
  Manager = manager
  Behavior = behavior
  Factory = factory
  Threads = 2
PROPERTIES
  AnswersAreTrue
  CallsAreAnswered
  StartsAndEnds
  ConfigureReturns
CHECK_DEADLOCK FALSE
