\* Two sources, a track on disk, shuffle that plays or not; no crossfade.
CONSTANTS
  a = a  b = b  c = c  s1 = s1  s2 = s2
  NoTrack = NoTrack  NoSource = NoSource
  Ids = {a, b, c}
  Sources = {s1, s2}
  SourceOf <- MCSourceOf
  Library <- MCLibrary
  Downloaded = {c}
  MaxAttempts = 2
  MaxSkips = 1
  RepeatModes = {"All", "One"}
  CrossfadeModes = {FALSE}
  AutoPlay = {TRUE, FALSE}
  Saves = {}
  MaxTimers = 1
SPECIFICATION Spec
INVARIANTS
  TypeOK
  OneRequest
  OnlyAskedIsWanted
  CurrentIsHeard

  
  
CHECK_DEADLOCK FALSE
