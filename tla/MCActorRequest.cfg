SPECIFICATION Spec
CONSTANTS
  owner = owner
  guest = guest
  g1 = g1
  g2 = g2
  Calls = {c1, c2}
  Owner = owner
  Guests = {guest}
  Grants = {g1, g2}
  Requests <- MCRequests
  Issued <- MCIssued
  MaxArrivals = 3
  MaxMoves = 1
  MaxFaults = 1

INVARIANTS
  PaymentsBuyRuns
  RunsMatchAnswers
PROPERTIES
  GuestsPostByShare
CHECK_DEADLOCK FALSE
