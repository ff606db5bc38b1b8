CONSTANTS
  PublishThreshold = 2
  MaxCalls = 2
  MaxLen = 5
  Failures = {"kept", "lost"}
  Lists <- MCLists
  MaxSets = 2
  MaxFileSets = 1
  ConfigRows = 2
SPECIFICATION FairSpec
CHECK_DEADLOCK FALSE
INVARIANTS TypeOK MainReportWhole MonitoringCostsNothing
PROPERTIES ImplementsDelivery Terminates
