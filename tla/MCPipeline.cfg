SPECIFICATION PipelineSpec
CONSTANTS
  None = None  Bad = Bad  Damaged = Damaged  Absent = Absent  Unreadable = Unreadable
  r1 = r1  r2 = r2  p1 = p1  p2 = p2  t1 = t1  t2 = t2  longer = longer
  o1 = o1  s1 = s1  u1 = u1  u2 = u2  g1 = g1  g2 = g2
  Styles = {"contract", "normalize", "compare", "region", "profile", "gate", "release",
            "regional", "admission", "review", "acceptance"}
  Questions <- QuestionsOf
  Candidates <- Named
  Holds <- HoldsTitle
  Region <- Regions
  ParentOf <- Above
  Province = {"P", "Q"}
  ActiveRegion = {"N", "P", "C", "D1", "D2", "Q", "E"}
  Aliases <- AliasOf
  Meant <- NameMeans
  CategoryWord <- WordOfCategory
  GenericWord = {"support"}
  Aggregator = {g1, g2}
  Offers <- GateOffers
  Batches <- GateBatches
  MaxTime = 3
  MaxImports = 2
  Expected = "P"
  Territory <- TerritoryOfP
  MoreAliases = {}
  LongerHolds <- HoldsTitle
  Identity = {p1, p2}
  SourceUnder <- SourceOfReview
  ItemsOf <- ItemsUnder
  Item <- Items
  Records <- Known
  Day = {2}
  MaxChanges = 2
  Policy = {p1, p2}
  SourceOf <- SourcesOf
  Contents <- ReleaseContents
  ReleaseVersion = {"v1", "v2"}
  MaxRuns = 3
  MaxDownloads = 2
  MaxDamage = 1
  Row = {p1, p2}
  Stable = {p1}
  EXPECTED_ROW_COUNTS <- ExpectedRowCounts
  Operator = {"A", "B"}
  MaxWrites = 1
  MaxAttempts = 2
INVARIANTS ContractIsKept GateIsCautious RegionVerdictIsSound SearchAndRecommendationAgree
INVARIANTS ImportIsJudged EntryIsEarned ApplyIsWhole RestoreIsWhole
INVARIANTS LatestIsWhole InstalledWasReleased
CHECK_DEADLOCK FALSE
