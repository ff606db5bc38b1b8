CONSTANTS
  PublishThreshold = 2
  MaxCalls = 2
  MaxLen = 5
  Failures = {"kept", "lost"}
  Lists <- MCLists
SPECIFICATION Spec
CHECK_DEADLOCK FALSE
INVARIANTS TypeOK InOrderAtMostOnce NilMeansPublished BatchWithinThreshold
PROPERTY ImplementsDelivery
