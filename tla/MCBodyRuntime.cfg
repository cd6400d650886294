SPECIFICATION RuntimeSpec
CONSTANTS
  Requests = {r1, r2, r3}
  Issuers = {old, new}
  Nothing = Nothing
  MaxRestarts = 1
  MaxRotations = 1
  Appends = {a1, a2}
  EventIDs = {2, 3, 4}
  PerTime = 2
  Expiries = {0, 2}
  Never = Never
  Absent = Absent
  PageLimits = {1}
  MaxTime = 2
  Accounts = {k1, k2}
  MaxHits = 2
  Window = 2
  MaxSeconds = 4
INVARIANTS
  CachesHold
  TimelineHolds
  MeteredExactly
PROPERTIES
  RequestsReturn
CHECK_DEADLOCK FALSE
