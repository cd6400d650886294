SPECIFICATION DirectorySpec
CONSTANTS
  Calls = {c1, c2}
  bob = bob
  eve = eve
  n1 = n1
  this = this
  Actors = {bob, eve}
  Spellings = {lower, mixed}
  Empty = Empty
  NoRow = NoRow
  MaxCorrections = 1
  This = this
  Neighbours = {n1}
  NeighbourActor <- MCNeighbourActor
  Nobody = Nobody
  Place <- MCPlace
  Limits = {1}
  MaxLiveChanges = 1
SYMMETRY Interchangeable
INVARIANTS
  AnsweredActorHolds
  ListedOnce
PROPERTIES
  OnlyOperatorsRename
CHECK_DEADLOCK FALSE
