\* Every method of the playlist, and the end of tracks: three ids, lists of three.
SPECIFICATION FairSpec
CONSTANTS
  Ids = {a, b, c}
  NoTrack = NoTrack
  MaxTracks = 3
INVARIANTS TypeOK QueueIsPermutation PlaceInQueue
PROPERTIES OrderedUnlessShuffled NextFollowsPeek EveryTrackPlays
