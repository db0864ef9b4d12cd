SPECIFICATION RegionalSpec
CONSTANTS
  None = None
  a = a  b = b  c = c  gone = gone  w1 = w1  w2 = w2
  Styles = {"together"}
  Pages <- OnePage
  Limits = {2}
  Kinds = {"capture"}
  Writers = {w1, w2}
  Shown = {"accepted"}
  Before = {}
  Together = 2
  MaxCaptures = 2
  MaxImports = 0
  MaxAudits = 0
  Lists <- Listings
  PageSize = 2
  Batch = 2
  SafetyPages = 3
  MaxRuns = 1
  MaxChanges = 0
PROPERTY RecordedCapturesStay
CHECK_DEADLOCK FALSE
