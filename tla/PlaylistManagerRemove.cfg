\* Removing a track that is not the current one.
SPECIFICATION Spec
CONSTANTS
  Ids = {a, b, c}
  NoTrack = NoTrack
  MaxTracks = 3
PROPERTIES RemoveKeepsPlace
