SPECIFICATION FairSpec
CONSTANTS
  MaxLoads = 2
  MaxCommands = 3
  QueueLimit = 1
INVARIANTS
  SessionsAreOwned
  PhaseIsTrue
PROPERTIES
  CommandsAreAnswered
CHECK_DEADLOCK FALSE
