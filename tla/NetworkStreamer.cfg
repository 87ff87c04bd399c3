\* Every fault of the network, and two streams or seeks.
CONSTANTS
  k1 = k1  k2 = k2  NoKey = NoKey
  Keys = {k1, k2}
  Manifests <- MCManifests
  FileSize = 2
  SeekTargets <- MCSeekTargets
  DurationKnown = TRUE
  MaxGeneration = 2
SPECIFICATION FairSpec
INVARIANTS
  TypeOK
  NoChunkLostOrDoubled
  InFlightIsExact
  EndIsTheEnd
  DecryptedWithOwnKey
PROPERTIES
  ImplementsOrderedStream
  StreamEnds
CHECK_DEADLOCK FALSE
