\* Two tracks, AAC over HLS or MP3 directly, of unknown length or a little shorter than announced.
SPECIFICATION FairSpec
CONSTANTS
  Formats <- MCFormats
  Total = 3
  Durations = {0, 4}
  Chunk = 1
  High = 1
  Low = 0
  Take = 1
  MinDecode = 2
  MinFrame = 2
  Size = 2
  Room = 1
  Frames = 1
  NearEnd = 2
  EndSlack = 2
  Targets = {2}
  MaxTracks = 2
INVARIANTS
  TypeOK
  NothingLost
  NoSharedSlot
  FullIsPaused
  CleanSwitch
  EndNotEarly
  NearBeforeEnd
PROPERTIES
  RingIsQueue
  TrackEnds
