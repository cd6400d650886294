SPECIFICATION PromotionSpec
CONSTANTS
    Agent = "ada"
    Guests = {"gus"}
    Reviewers = {"pia", "rex"}
    Principal = "pia"
    Media = {"m1", "m2"}
    AtFirst = {"m1"}
    MaxPosition = 0
    MaxCalls = 2
    MaxLists = 1
    Promoted <- MCPromoted
    MaxHash = 2
INVARIANTS
  ListsSentAreAcceptable
  ReleasedWasInspected
  AdviceIsTrue
CHECK_DEADLOCK FALSE
