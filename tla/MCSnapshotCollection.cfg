SPECIFICATION BothSpec
CONSTANTS
  None = None
  Item <- Items4
  Start <- Three
  PageSize = 2
  Details = 1
  Budget = 4
  Limit = {3}
  Lag = 1
  MaxRuns = 2
  MaxChanges = 2
  Nil = Nil
  Identity = {1, 2}
  Young = {2}
  Lead = 1
  Required = {"youth", "method"}
  PagesOf <- Kinds
  DetailLimit = {0, 2}
  MaxGathers = 2
  LastDay = 2
INVARIANTS ManifestIsWhole ReplayIsWhole
INVARIANTS SnapshotDecidesOnTheBundle LatestIsOfOneCollection AcceptedIsOpenByAPage
CHECK_DEADLOCK FALSE
