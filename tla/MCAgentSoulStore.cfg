SPECIFICATION ContentSpec
CONSTANTS
  Calls = {c1, c2, c3}
  Documents = {d1, d2}
  PreV2Author = preV2
  RetryLimit = 2
  StaleReads = TRUE
  LegacyVersions = {3}
  NoRow = NoRow
  NoDocument = NoDocument
  Weights = {1, 9, 10, 13, 14}
  Limit = 20
  Ten = 3
  LastVersion = 4
  NoSoul = NoSoul
SYMMETRY Interchangeable
INVARIANTS
  TypeOK
  StoreIntact
  AnswersAreTrue
  StoredReadsBack
PROPERTIES
  SeedWritesOnlyItsDeclaration
  ImplementsLifecycle
CHECK_DEADLOCK FALSE
