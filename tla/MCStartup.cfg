SPECIFICATION FairSpec
CONSTANTS
  RefreshInterval = 2
  RefreshDelay = 1
  MaxCrashes = 2
INVARIANTS TypeOK HandlersHaveClients
PROPERTIES StartupCompletes TokenSettles
CHECK_DEADLOCK FALSE
