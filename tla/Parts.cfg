SPECIFICATION Spec
CHECK_DEADLOCK FALSE
CONSTANTS
  Releases <- MCReleases
  Majors <- MCMajors
  Shapes <- MCShapes
  Numbers <- MCNumbers
  Strings <- MCStrings
  Gaps <- MCGaps
  Parameter <- MCParameter
  Objects <- MCObjects
  Unseen <- MCUnseen
  QuotedParts = {"o'k"}
  Lists <- MCLists
  Pools <- MCPools
  NoName <- MCNoName
  MaxChanges = 2
  Databases = {"postgres", "pgbouncer"}
  Authority = {"own", "known"}
  NoFile = "none"
  System = {"known"}
  Installed <- MCInstalled
  Statements <- MCStatements
  Times = {1, 2, 3}
  CountArgs <- MCCountArgs
  TimeArgs <- MCTimeArgs
  OtherRows = {0, 1, 9}
  DefaultQueryMonitoringCountThreshold = 2
  MaxQueryCountThreshold = 3
  DefaultQueryResponseTimeThreshold = 1
  MaxIndividualQueryCountThreshold = 2
  PublishThreshold = 7
  DatabasesWithLocks = {"a", "b"}
  ListedDatabases = {"a"}
  Sessions <- MCSessions
  Modes = {"AccessShareLock", "ExclusiveLock"}
  OtherModes = {"SIReadLock"}
  Places = {"own", "shared"}
  MaxLocks = 4
INVARIANTS TypeOK VersionIsUnderstood TextsAreSound ListIsReported ConnectedAsAsked ThresholdsAreKept CountsAreSound
