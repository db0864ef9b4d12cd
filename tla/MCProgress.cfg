SPECIFICATION MCSpec
CONSTANTS
  Thread = {t1, t2}
  Nobody = Nobody
  Interval = 2
  Backoff = 1
  MaxRetries = 2
  None = None
  Request = {a, b}
  Client = {near, far}
  Local = {near}
  Pin = {p, q}
  Configured = None
  Default = p
  MaxAttempts = 2
  Steps = 2
  MaxGeneration = 3
  MaxFailures = 3
  p1 = p1
  p2 = p2
  c1 = c1
INVARIANTS SlotsApart LiveTokensProveThePin
PROPERTIES CallsEnd LockoutsAreEarned RequestsEnd GoneBecomesInactive
CHECK_DEADLOCK FALSE
