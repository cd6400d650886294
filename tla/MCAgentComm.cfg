SPECIFICATION AgentSpec
CONSTANTS
  arch = arch
  alice = alice
  s1 = s1
  s2 = s2
  k1 = k1
  ens1 = ens1
  Calls = {c1, c2}
  Actor = arch
  Accounts = {arch, alice}
  Souls = {s1, s2}
  Requests <- MCRequests
  Registrations <- MCRegistrations
  Contacts <- MCContacts
  Messages <- MCMessages
  Names <- MCNames
  FirstWorlds <- MCFirstWorlds
  MaxArrivals = 2
  MaxMoves = 1
  MaxFaults = 1
  Identities = {s1, s2}
  Enquiries <- MCEnquiries
  Publications <- MCPublications
  FirstSources <- MCFirstSources
  Sizes = {2, 4, 6}
  SummaryBytes = 3
  StreamBytes = 8
  Headroom = 3
  MaxEdits = 2
  MaxLosses = 1

INVARIANTS
  ActsAsAllowed
  SendersAreTrue
  KeyDeliversOnce
  SoulReadsHold
CHECK_DEADLOCK FALSE
