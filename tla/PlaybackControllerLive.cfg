\* Two tracks of one source, with crossfade.
CONSTANTS
  a = a  b = b  c = c  s1 = s1  s2 = s2
  NoTrack = NoTrack  NoSource = NoSource
  Ids = {a, b}
  Sources = {s1}
  SourceOf <- MCOneSourceOf
  Library <- MCOneLibrary
  Downloaded = {}
  MaxAttempts = 1
  MaxSkips = 2
  RepeatModes = {"All"}
  CrossfadeModes = {TRUE}
  AutoPlay = {}
  Saves = {a}
  MaxTimers = 0
SPECIFICATION FairSpec
INVARIANTS
  CurrentIsHeard
PROPERTIES
  SkippingStops
CHECK_DEADLOCK FALSE
