SPECIFICATION Spec
CONSTANTS
  Grants = {g1, g2}
  Redeemers = {r1, r2}
  Bindings = {b1, b2}
  TTL = 1
  MaxTime = 2
  StaleReads = TRUE
  NoGrant = NoGrant
SYMMETRY Interchangeable
INVARIANTS
  GrantUseIsSound
PROPERTIES
  SpentOnlyByItsHolder
CHECK_DEADLOCK FALSE
