SPECIFICATION SocialSpec
CONSTANTS
    Callers = {"ada", "gus"}
    Peers = {"near", "far"}
    Selectors = {"bob", "bob@far", "url of far"}
    Resolves <- MCResolves
    Names <- MCNames
    MaxListed = 1
    Accounts = {"id1", "id2"}
    Handles = {"eve"}
INVARIANTS
  ConversationAnswersHold
  DecisionsHold
PROPERTIES
  WritesAreTheCallers
CHECK_DEADLOCK FALSE
