\* A session of YouTube Music renewed in the background.
SPECIFICATION Spec
CONSTANTS
  Services <- MCServices
  SavedAtStart <- MCSavedAtStart
  MaxRetries = 1
  MaxTurns = 3
PROPERTIES
  FallsBackOnlyWhenFailed
CHECK_DEADLOCK FALSE
