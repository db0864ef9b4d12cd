SPECIFICATION RegionalSpec
CONSTANTS
  None = None
  a = a  b = b  c = c  gone = gone  w1 = w1  w2 = w2
  Styles = {"alone", "together", "http"}
  Pages <- TwoPages
  Limits = {2, 3}
  Kinds = {"capture", "discover", "failure", "recapture", "recover", "file"}
  Writers = {w1, w2}
  Shown = {"accepted", "review"}
  Before <- GoneBefore
  Together = 2
  MaxCaptures = 2
  MaxImports = 2
  MaxAudits = 1
  Lists <- Listings
  PageSize = 2
  Batch = 2
  SafetyPages = 3
  MaxRuns = 3
  MaxChanges = 2
INVARIANTS TypesOK CapturedHasRaw CompleteImportIsWhole CompletionIsEarned
PROPERTIES NothingIsForgotten OnlyUnseenPoliciesEnd
SYMMETRY Both
CHECK_DEADLOCK FALSE
