SPECIFICATION SetupSpec
CONSTANTS
  manager = manager
  other = other
  behavior = behavior
  Clients <- MCClients
  Params <- MCParams
  Manager = manager
  Behavior = behavior
  Factory = factory
  Threads = 2
PROPERTIES
  RefusedIsNotConfigured
CHECK_DEADLOCK FALSE
