\* A seek in an HLS stream.
CONSTANTS
  k1 = k1  k2 = k2  NoKey = NoKey
  Keys = {k1, k2}
  Manifests <- MCManifests
  FileSize = 2
  SeekTargets <- MCSeekTargets
  DurationKnown = TRUE
  MaxGeneration = 2
SPECIFICATION Spec
PROPERTIES
  SeekGoesOn
CHECK_DEADLOCK FALSE
