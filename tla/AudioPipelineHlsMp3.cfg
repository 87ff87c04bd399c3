\* MP3 over HLS, with the watermarks of the code in proportion.
SPECIFICATION FairSpec
CONSTANTS
  Formats <- MCHlsMp3
  Total = 14
  Durations = {14}
  Chunk = 2
  High = 8
  Low = 2
  Take = 2
  MinDecode = 2
  MinFrame = 1
  Size = 2
  Room = 1
  Frames = 1
  NearEnd = 3
  EndSlack = 2
  Targets = {}
  MaxTracks = 1
PROPERTIES
  TrackEnds
