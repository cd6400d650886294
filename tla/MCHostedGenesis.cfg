SPECIFICATION Spec
CONSTANTS
  NumSections = 2
  MaxRevision = 2
  o1 = o1
  o2 = o2
  Owners = {o1, o2}
  MaxLanes = 2
  MaxFaults = 1
  MaxEdits = 1
SYMMETRY Symmetry
INVARIANTS
  ContentIsBacked
PROPERTIES
  AffirmedWasShown
  SuccessIsComplete
  AdviceIsGranted
CHECK_DEADLOCK FALSE
