\* All services; three commands or replies about expired tokens.
SPECIFICATION FairSpec
CONSTANTS
  Services <- MCServices
  SavedAtStart <- MCSavedAtStart
  MaxRetries = 1
  MaxTurns = 3
INVARIANTS
  TypeOK
  WaitingMeansWindow
PROPERTIES
  SilentSignInEnds
  SwitchAnswered
CHECK_DEADLOCK FALSE
