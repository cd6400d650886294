SPECIFICATION Spec
CONSTANTS
  Calls = {c1, c2, c3, c4}
  Texts = {t1, t2}
  RetryLimit = 2
  StaleReads = TRUE
  NoRow = NoRow
  NoText = NoText
SYMMETRY Interchangeable
INVARIANTS
  VersionsHold
PROPERTIES
  WritesKeepTexts
CHECK_DEADLOCK FALSE
