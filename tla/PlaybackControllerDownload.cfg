\* With downloads to disk.
CONSTANTS
  a = a  b = b  c = c  s1 = s1  s2 = s2
  NoTrack = NoTrack  NoSource = NoSource
  Ids = {a, b, c}
  Sources = {s1, s2}
  SourceOf <- MCSourceOf
  Library <- MCLibrary
  Downloaded = {}
  MaxAttempts = 2
  MaxSkips = 2
  RepeatModes = {"All", "One", "None"}
  CrossfadeModes = {FALSE}
  AutoPlay = {}
  Saves = {c}
  MaxTimers = 1
SPECIFICATION Spec
PROPERTIES
  DownloadSparesRequest
CHECK_DEADLOCK FALSE
