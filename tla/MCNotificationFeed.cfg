SPECIFICATION FeedSpec
CONSTANTS
    Rows <- MCRows
    Types <- MCTypes
    CommTypes <- MCCommTypes
    Wanted <- MCAsks
    Limits = {1, 2}
    MaxLimit = 3
    OverFetch = 3
    Initial = 3
    MaxRows = 4
INVARIANTS
  DronesSeeNoCommunication
  EveryMatchShown
PROPERTIES
  PagesAdvance
CHECK_DEADLOCK FALSE
