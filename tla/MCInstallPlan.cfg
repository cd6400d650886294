SPECIFICATION Spec
CONSTANTS
  Plans = {p1, p2}
  Redeemers = {r1, r2}
  TTL = 1
  MaxTime = 1
  StaleReads = TRUE
  NoGrant = NoGrant
  Documents = {d1}
  Subjects = {s1}
  NoRow = NoRow
  Payments = {m1}
  Operator = Operator
  Nothing = Nothing
  MaxVersion = 3
  MaxInstructions = 1
SYMMETRY Interchangeable
INVARIANTS
  PaymentBuysOneGrant
  ShipsPublishedOnce
PROPERTIES
  UsesGrantsAsOffered
CHECK_DEADLOCK FALSE
