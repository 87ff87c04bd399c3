SPECIFICATION FairSpec
CONSTANTS
  VK = VK
  Yandex = Yandex
  v1 = v1
  v2 = v2
  y1 = y1
  Offline = Offline
  NoTrack = NoTrack
  Services = {VK, Yandex}
  Ids = {v1, v2, y1}
  SourceOf <- MCSourceOf
  Library <- MCLibrary
  PageSize = 1
  Parallel = {Yandex}
  Twice = {VK}
  Downloaded = {v1, v2}
  MaxFetches = 2
  MaxTurns = 1
  MaxWrites = 2
CHECK_DEADLOCK FALSE
INVARIANTS
  TypeOK
  OnlyActiveSource
  StoredUnderItsSource
  CurrentIsInPlace
  FetchedInFront
PROPERTY
  LibraryArrives
